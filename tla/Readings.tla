------------------------------ MODULE Readings ------------------------------
(***************************************************************************)
(* What is said of a capture beside its findings: the reading of every     *)
(* session, the profile of every host, the quality of the capture, the     *)
(* timeline and the stories. All of them read the sessions and flows once  *)
(* more, each with conditions of its own.                                  *)
(***************************************************************************)
EXTENDS Exposures

CONSTANTS
  WellKnown,  \* the service of a port
  Many        \* bytes that are a large transfer out of the network

\* The packets have one length, so bytes are packets.
\* Mutant: a connection that was refused has not failed.
HandshakeUnlessReset(s) ==
  CASE s.syn # None /\ (s.synack # None \/ s.rst) -> "complete"
    [] s.syn # None /\ s.synack = None /\ ~s.rst -> "failed"
    [] s.syn = None -> "mid_stream"
HandshakeOf(s) ==
  CASE s.syn # None /\ s.synack # None -> "complete"
    [] s.syn # None /\ s.synack = None -> "failed"
    [] s.syn = None -> "mid_stream"
CloseOf(s) == IF s.fin # None THEN "fin" ELSE IF s.rst THEN "rst" ELSE "unknown"
Asymmetry(s) ==
  CASE s.sent > 0 /\ s.recv > 0 /\ s.sent > 5 * s.recv -> "client_heavy"
    [] s.sent > 0 /\ s.recv > 0 /\ 5 * s.sent < s.recv -> "server_heavy"
    [] s.sent > 0 /\ s.recv = 0 -> "one_sided_send"
    [] s.recv > 0 /\ s.sent = 0 -> "one_sided_recv"
    [] OTHER -> "balanced"
OnStream(txs, id) == Which(txs, LAMBDA t : <<"stream", t.stream>> = id)
Service(c, id, s) ==
  CASE OnStream(c.tls, id) # <<>> /\ s.dport = 443 -> "HTTPS"
    [] OnStream(c.http, id) # <<>> /\ s.dport = 80 -> "HTTP"
    [] OTHER -> IF s.dport \in DOMAIN WellKnown THEN WellKnown[s.dport] ELSE "TCP"
LossyRate(n, all) == n * 10 > all
Outbound(s) == s.src \in Private /\ s.dst \notin Private /\ s.sent > Many
SessionIssues(s) ==
  {i \in {"loss", "zero_window", "sensitive", "large_transfer", "failed"} :
     \/ i = "loss" /\ LossyRate(s.retransmissions, s.sent + s.recv)
     \/ i = "zero_window" /\ s.zeroWindows > 2
     \/ i = "sensitive" /\ s.dport \in Sensitive
     \/ i = "large_transfer" /\ Outbound(s)
     \/ i = "failed" /\ HandshakeOf(s) = "failed"}
NextChecks(s) ==
  {i \in {"recapture", "firewall", "authorization", "dlp", "capture_point"} :
     \/ i = "recapture" /\ HandshakeOf(s) = "mid_stream"
     \/ i = "firewall" /\ HandshakeOf(s) = "failed"
     \/ i = "authorization" /\ s.dport \in Sensitive
     \/ i = "dlp" /\ Outbound(s)
     \/ i = "capture_point" /\ Asymmetry(s) \in {"one_sided_send", "one_sided_recv"}}
Reading(c, id) ==
  LET s == c.sessions[id] IN
  [handshake |-> HandshakeOf(s), close |-> CloseOf(s), asymmetry |-> Asymmetry(s), service |-> Service(c, id, s),
   issues |-> SessionIssues(s), next |-> NextChecks(s)]

\* Counts over the sessions, of all of them: mid-stream above half is poor.
CaptureQuality(c) ==
  LET all == Cardinality(SessionsIn(c)) mid == Cardinality({s \in SessionsIn(c) : s.syn = None}) IN
  CASE all = 0 -> "unknown"
    [] all > 0 /\ mid * 2 > all -> "poor"
    [] all > 0 /\ mid * 2 <= all /\ (mid * 5 > all \/ Cardinality(Failed(c)) * 5 > all) -> "partial"
    [] OTHER -> "good"

-----------------------------------------------------------------------------
(* Hosts: of flows and of sessions; one that sends ARP only is no party.   *)

\* s in the order of its ranks, equals as they stand.
InOrderOf(s, rank(_)) ==
  LET places == SortSeq([i \in DOMAIN s |-> i],
                  LAMBDA i, j : rank(s[i]) < rank(s[j]) \/ (rank(s[i]) = rank(s[j]) /\ i < j)) IN
  [i \in DOMAIN s |-> s[places[i]]]
Beginnings(records) == InOrderOf(SetToSeq(records), LAMBDA x : x.nums[1])
Placed(c) == {s \in SessionsIn(c) : s.src # None /\ s.dst # None}
Met(records, what(_)) == FlattenSeq([i \in DOMAIN Beginnings(records) |-> what(Beginnings(records)[i])])
ArpSenders(c) == LET arps == Which(c.packets, LAMBDA p : Carries(p, {"arp"})) IN [i \in DOMAIN arps |-> arps[i].app.ip]
\* Mutant: hosts that only answer have no profile.
HostsAsking(c) ==
  LET asks(x) == <<x.src>> IN Distinct(Met(Placed(c), asks) \o Met(FlowsIn(c), asks) \o ArpSenders(c))
\* The hosts as they are met: first those of the sessions, then of the flows.
HostsMet(c) ==
  LET both(x) == <<x.src, x.dst>> IN Distinct(Met(Placed(c), both) \o Met(FlowsIn(c), both) \o ArpSenders(c))
Started(c, h) == {s \in Placed(c) : s.src = h /\ s.syn # None}
AcceptedBy(c, h) == {s \in Placed(c) : s.dst = h /\ s.synack # None}
FailedOf(c, h) == {s \in Started(c, h) : s.synack = None}
Ports(S) == {s.dport : s \in S}
Peers(c, h) == {s.dst : s \in {t \in Placed(c) : t.src = h}} \cup {s.src : s \in {t \in Placed(c) : t.dst = h}}
BytesSent(c, h) == Total({s \in Placed(c) : s.src = h}, LAMBDA s : s.sent)
BytesReceived(c, h) == Total({s \in Placed(c) : s.dst = h}, LAMBDA s : s.recv)
Role(c, h) ==
  LET served == Ports(AcceptedBy(c, h)) sent == BytesSent(c, h) recv == BytesReceived(c, h) IN
  IF Cardinality(AcceptedBy(c, h)) > 2 * Cardinality(Started(c, h))
  THEN CASE 53 \in served -> "dns_resolver"
         [] 53 \notin served /\ served \cap {25, 465, 587} # {} -> "mail_server"
         [] 53 \notin served /\ served \cap {25, 465, 587} = {} /\ served \cap {80, 443, 8080, 8443} # {} -> "web_server"
         [] OTHER -> "server"
  ELSE IF Cardinality(Peers(c, h)) > Limit.peers /\ sent > 0 /\ recv > 0 /\ 2 * sent > recv /\ sent < 2 * recv
       THEN "gateway" ELSE "client"

\* Regular at a jitter of 0.2, over the starts of all the sessions of the host.
PeriodicAt(intervals) ==
  LET n == Len(intervals) sum == FoldSeq(LAMBDA x, a : x + a, 0, intervals)
      squares == FoldSeq(LAMBDA x, a : x * x + a, 0, intervals) IN
  n >= Limit.intervals /\ sum # 0 /\ 100 * (n * squares - sum * sum) <= 4 * sum * sum
Periodic(c, h) ==
  LET starts == SortSeq(SetToSeq({<<s.syn, s.nums[1]>> : s \in Started(c, h)}), LAMBDA a, b : a[1] < b[1])
      times == [i \in DOMAIN starts |-> starts[i][1]] IN
  Len(starts) >= Limit.starts /\ PeriodicAt(SelectSeq(Intervals(times), LAMBDA d : d >= 1 /\ d <= Limit.longest))
PortsTried(c, h) == {c.packets[i].dport : i \in {j \in DOMAIN c.packets : c.packets[j].src = h}} \ {None}
\* Started sessions count the failed ones too.
FailsOften(c, h) ==
  LET started == Cardinality(Started(c, h)) failed == Cardinality(FailedOf(c, h)) IN
  started + failed > Limit.tries /\ failed * 2 > started + failed
\* The packets of h in flows that hold no names, pages or ciphers, whichever way they go.
OtherTraffic(c, h) ==
  LET Web(f) == \E i \in DOMAIN c.packets : c.packets[i].num \in Range(f.nums) /\ Carries(c.packets[i],
                  {"dns_query", "dns_response", "http_request", "http_response", "client_hello", "server_hello", "alert"})
      other == {k \in DOMAIN c.flows : ~Web(c.flows[k])} IN
  Total({k \in other : c.flows[k].src = h}, LAMBDA k : c.flows[k].fwd)
  + Total({k \in other : c.flows[k].dst = h}, LAMBDA k : c.flows[k].rev)
UnusualMix(c, h) ==
  LET started == Cardinality(Started(c, h)) IN
  h \in Private /\ started > Limit.started /\ 2 * OtherTraffic(c, h) > started
\* Times ten.
Anomaly(c, h) ==
  (IF Periodic(c, h) /\ h \in Private THEN 30 ELSE 0) + (IF Cardinality(PortsTried(c, h)) > Limit.portsTried THEN 30 ELSE 0)
  + (IF FailsOften(c, h) THEN 20 ELSE 0) + (IF UnusualMix(c, h) THEN 15 ELSE 0)
HostProfiles(c) ==
  [h \in Range(HostsMet(c)) |->
     [role |-> Role(c, h), failed |-> Cardinality(FailedOf(c, h)), started |-> Cardinality(Started(c, h)),
      periodic |-> Periodic(c, h), anomaly |-> Anomaly(c, h)]]

-----------------------------------------------------------------------------
(* The timeline and the stories, told before suppression is applied.       *)

Event(ts, kind) == [ts |-> ts, kind |-> kind]
EventsOf(txs, kind) == [i \in DOMAIN txs |-> Event(txs[i].at, kind)]
DnsEvents(c) ==
  FlattenSeq([i \in DOMAIN c.dns |-> LET t == c.dns[i] IN
    <<Event(t.at, "dns_query")>> \o (IF t.rcode = "nxdomain" THEN <<Event(t.at + t.rtt, "dns_nxdomain")>> ELSE <<>>)])
\* An answer nobody asked for has no time of a request.
HttpEvents(c) == EventsOf(Which(c.http, LAMBDA t : t.at # 0), "http_request")
TlsEvents(c) == EventsOf(c.tls, "tls_client_hello")
FlagEvents(c, flag, kind) == LET ps == Which(c.packets, LAMBDA p : flag \in p.flags /\ (flag = "syn" => "ack" \notin p.flags)) IN
  [i \in DOMAIN ps |-> Event(ps[i].ts, kind)]
\* Of findings that know when they began.
FindingEvents(fs) == EventsOf(Which(fs, LAMBDA f : ~f.suppressed /\ f.at # 0), "finding")
Timeline(c, fs) ==
  Take(InOrderOf(Take(FlagEvents(c, "syn", "tcp_syn"), 500) \o Take(FlagEvents(c, "rst", "tcp_rst"), 200)
                 \o DnsEvents(c) \o HttpEvents(c) \o TlsEvents(c) \o FindingEvents(fs), LAMBDA e : e.ts), 2000)

Active(findings) == SelectSeq(findings, LAMBDA f : ~f.suppressed)
Rated(findings, severities) == Len(SelectSeq(Active(findings), LAMBDA f : f.severity \in severities))
\* What the story of the capture says was found.
Tone(findings) ==
  CASE Rated(findings, {"critical"}) > 0 -> "critical"
    [] Rated(findings, {"critical"}) = 0 /\ Rated(findings, {"high"}) > 0 -> "high"
    [] Rated(findings, {"critical", "high"}) = 0 /\ Active(findings) # <<>> -> "some"
    [] OTHER -> "none"
FlowStory(c, k) ==
  LET f == c.flows[k]
      s == {t \in SessionsIn(c) : t.flow = k}
      failed == \E t \in s : t.syn # None /\ t.synack = None /\ \A u \in s : t.nums[1] <= u.nums[1]
      reset == \E t \in s : t.rst /\ ~failed /\ \A u \in s : t.nums[1] <= u.nums[1] IN
  [why |-> {i \in {"exfiltration", "sensitive", "loss"} :
              \/ i = "exfiltration" /\ f.src \in Private /\ f.dst \notin Private /\ f.fwd > Many
              \/ i = "sensitive" /\ f.dport \in Sensitive
              \/ i = "loss" /\ LossyRate(f.retransmissions, f.fwd + f.rev)},
   cause |-> IF failed THEN "failed" ELSE IF reset THEN "reset" ELSE IF LossyRate(f.retransmissions, f.fwd + f.rev) THEN "loss" ELSE "normal"]
=============================================================================
