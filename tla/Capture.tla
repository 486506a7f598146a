------------------------------ MODULE Capture ------------------------------
(***************************************************************************)
(* The normalizer: it runs the extractor over a capture file, judges the   *)
(* quality of what came out, and builds from the packets, in file order,   *)
(* the flows, the TCP sessions and the DNS, HTTP and TLS exchanges that    *)
(* every analyzer reads. One step reads one line.                          *)
(*                                                                         *)
(* A packet is a record [src, dst, sport, dport, proto, stream, flags,     *)
(* signs, app]: flags are those of TCP, signs what the extractor's expert  *)
(* says of it, app the message it carries (a record with a kind). All      *)
(* packets have one length.                                                *)
(***************************************************************************)
EXTENDS Integers, Sequences, FiniteSets, SequencesExt

CONSTANTS
  None,
  Packet,       \* the packets a file may hold
  Gap,          \* what may pass between two of them, also negative: files are merged
  Profiles,     \* the validation profiles in use
  MaxPackets,   \* lines read of a file
  MaxAttempts   \* runs of the extractor, one set of refused fields less each time

ASSUME CaptureBounds == MaxPackets \in Nat \ {0} /\ MaxAttempts \in Nat \ {0}
ASSUME GapAssumption == Gap \subseteq Int
\* A question for a name has an identifier and the name, and nothing else.
ASSUME PacketAssumption ==
  \A p \in Packet : p.app.kind = "dns_query" => p.app = [kind |-> "dns_query", txid |-> p.app.txid, name |-> p.app.name]

VARIABLES
  phase,     \* "extract", "read", "built" or "failed"
  profile, attempts,
  lines,     \* [raw, malformed, essential]
  clock,     \* time stamp of the last packet read
  packets, flows, sessions, dns, http, tls
captureVars == <<phase, profile, attempts, lines, clock, packets, flows, sessions, dns, http, tls>>

\* In percent.
Thresholds ==
  [strict |-> [malformed |-> 5, essential |-> 95], balanced |-> [malformed |-> 30, essential |-> 70],
   permissive |-> [malformed |-> 70, essential |-> 50]]

Seen(p, what) == IF what \in p.signs THEN 1 ELSE 0
Later(a, b) == IF a < b THEN b ELSE a
Put(f, k, v) == [x \in DOMAIN f \cup {k} |-> IF x = k THEN v ELSE f[x]]

-----------------------------------------------------------------------------
(* Flows and sessions.                                                     *)

Ends(p) == {<<p.src, p.sport>>, <<p.dst, p.dport>>}
FlowKey(p) == <<Ends(p), p.proto>>
NewFlow(p) ==
  [src |-> p.src, dst |-> p.dst, sport |-> p.sport, dport |-> p.dport, first |-> p.ts, last |-> p.ts, nums |-> <<>>,
   fwd |-> 0, rev |-> 0, retransmissions |-> 0, zeroWindows |-> 0]
\* The first packet of a flow gives it its direction.
WithFlow(p) ==
  IF p.src = None \/ p.dst = None THEN flows
  ELSE LET k == FlowKey(p) f == IF k \in DOMAIN flows THEN flows[k] ELSE NewFlow(p) IN
       Put(flows, k, [f EXCEPT !.last = Later(@, p.ts), !.nums = Append(@, p.num),
         !.fwd = @ + (IF p.src = f.src THEN 1 ELSE 0), !.rev = @ + (IF p.src = f.src THEN 0 ELSE 1),
         !.retransmissions = @ + Seen(p, "retransmission"), !.zeroWindows = @ + Seen(p, "zero_window")])

\* Packets of IPv4 the extractor gave no stream are grouped by their end points.
StreamOf(p) ==
  IF p.stream >= 0 THEN <<"stream", p.stream>>
  ELSE IF p.proto = "tcp" /\ "v6" \notin p.signs /\ None \notin {p.src, p.dst, p.sport, p.dport} THEN <<"ends", Ends(p)>> ELSE None
NewSession(p) ==
  [flow |-> FlowKey(p), src |-> p.src, dst |-> p.dst, sport |-> p.sport, dport |-> p.dport, first |-> p.ts, last |-> p.ts,
   nums |-> <<>>, sent |-> 0, recv |-> 0, syn |-> None, synack |-> None, fin |-> None, rst |-> FALSE,
   retransmissions |-> 0, zeroWindows |-> 0]
\* The step of the handshake a packet is; a later SYN moves the time of the first.
Handshake(s, p) ==
  CASE "syn" \in p.flags /\ "ack" \notin p.flags -> [s EXCEPT !.syn = p.ts]
    [] "syn" \in p.flags /\ "ack" \in p.flags -> [s EXCEPT !.synack = p.ts]
    [] "syn" \notin p.flags /\ "fin" \in p.flags -> [s EXCEPT !.fin = p.ts]
    [] p.flags \cap {"syn", "fin"} = {} /\ "rst" \in p.flags -> [s EXCEPT !.rst = TRUE]
    [] OTHER -> s
WithSession(p) ==
  LET id == StreamOf(p) s == IF id \in DOMAIN sessions THEN sessions[id] ELSE NewSession(p) IN
  IF id = None THEN sessions
  ELSE Put(sessions, id, Handshake([s EXCEPT !.last = Later(@, p.ts), !.nums = Append(@, p.num),
         !.sent = @ + (IF p.src = s.src THEN 1 ELSE 0), !.recv = @ + (IF p.src = s.src THEN 0 ELSE 1),
         !.retransmissions = @ + Seen(p, "retransmission"), !.zeroWindows = @ + Seen(p, "zero_window")], p))
State(s) ==
  CASE s.rst -> "reset"
    [] ~s.rst /\ s.fin # None -> "fin_closed"
    [] ~s.rst /\ s.fin = None /\ s.syn # None /\ s.synack # None -> "established"
    [] ~s.rst /\ s.fin = None /\ s.syn # None /\ s.synack = None -> "half_open"
    [] OTHER -> "mid_stream"

-----------------------------------------------------------------------------
(* Exchanges: [pending, done], both in order. A repeated request takes the *)
(* place of the pending one it repeats.                                    *)

Carries(p, kinds) == p.app.kind \in kinds
Ask(x, tx, same(_)) ==
  IF \E i \in DOMAIN x.pending : same(x.pending[i])
  THEN [x EXCEPT !.pending = ReplaceAt(@, CHOOSE i \in DOMAIN @ : same(@[i]), tx)]
  ELSE [x EXCEPT !.pending = Append(@, tx)]
\* The first pending exchange that fits is answered, when there is one.
Answer(x, fits(_), answered(_)) ==
  LET Fit == {i \in DOMAIN x.pending : fits(x.pending[i])} IN
  IF Fit = {} THEN x
  ELSE LET i == CHOOSE i \in Fit : \A j \in Fit : i <= j IN
       [pending |-> RemoveAt(x.pending, i), done |-> Append(x.done, answered(x.pending[i]))]
\* Mutant: at the end of the file what was not answered is forgotten.
Answered(x) == x.done
All(x) == x.done \o x.pending

DnsQuery(p) ==
  [txid |-> p.app.txid, name |-> p.app.name, client |-> p.src, server |-> p.dst, asked |-> p.num, at |-> p.ts,
   answered |-> 0, rcode |-> None, rtt |-> 0]
WithDns(p) ==
  CASE Carries(p, {"dns_query"}) ->
         Ask(dns, DnsQuery(p), LAMBDA t : <<t.client, t.server, t.txid, t.name>> = <<p.src, p.dst, p.app.txid, p.app.name>>)
    [] Carries(p, {"dns_response"}) ->
         Answer(dns, LAMBDA t : <<t.txid, t.server, t.client>> = <<p.app.txid, p.src, p.dst>>,
                LAMBDA t : [t EXCEPT !.answered = p.num, !.rcode = p.app.rcode, !.rtt = p.ts - t.at])
    [] OTHER -> dns

HttpRequest(p) ==
  [stream |-> p.stream, n |-> p.app.n, client |-> p.src, server |-> p.dst, port |-> p.dport, asked |-> p.num, at |-> p.ts,
   what |-> p.app.what, answered |-> 0, code |-> 0, latency |-> 0]
Unasked(p) ==
  [stream |-> p.stream, n |-> p.app.n, client |-> p.dst, server |-> p.src, port |-> 0, asked |-> 0, at |-> 0,
   what |-> {}, answered |-> p.num, code |-> p.app.code, latency |-> 0]
WithHttp(p) ==
  LET SameRequest(t) == t.stream = p.stream /\ t.n = p.app.n IN
  CASE Carries(p, {"http_request"}) -> Ask(http, HttpRequest(p), SameRequest)
    [] Carries(p, {"http_response"}) /\ (\E i \in DOMAIN http.pending : SameRequest(http.pending[i])) ->
         Answer(http, SameRequest,
                LAMBDA t : [t EXCEPT !.answered = p.num, !.code = p.app.code, !.latency = p.ts - t.at])
    [] Carries(p, {"http_response"}) /\ (\A i \in DOMAIN http.pending : ~SameRequest(http.pending[i])) ->
         [http EXCEPT !.done = Append(@, Unasked(p))]
    [] OTHER -> http

\* The fingerprint is that of the fields offered; of a list the extractor gives the first only.
ClientHello(p) ==
  [stream |-> p.stream, client |-> p.src, server |-> p.dst, asked |-> p.num, at |-> p.ts, offered |-> p.app.version,
   ja3 |-> p.app.ja3, version |-> None, answered |-> 0, alert |-> FALSE]
WithHello(p) ==
  CASE Carries(p, {"client_hello"}) -> Ask(tls, ClientHello(p), LAMBDA t : t.stream = p.stream)
    [] Carries(p, {"server_hello"}) ->
         Answer(tls, LAMBDA t : t.stream = p.stream,
                LAMBDA t : [t EXCEPT !.answered = p.num, !.version = p.app.version])
    [] OTHER -> tls
\* An alert counts against a handshake that has not ended.
WithTls(p) ==
  IF ~Carries(p, {"client_hello", "server_hello", "alert"}) \/ p.stream < 0 THEN tls
  ELSE LET x == WithHello(p)
           told(t) == IF t.stream = p.stream THEN [t EXCEPT !.alert = t.alert \/ p.app.alert] ELSE t
       IN [x EXCEPT !.pending = [i \in DOMAIN x.pending |-> told(x.pending[i])]]

-----------------------------------------------------------------------------
Empty == [pending |-> <<>>, done |-> <<>>]
CaptureInit ==
  /\ phase = "extract" /\ profile \in Profiles /\ attempts = 1
  /\ lines = [raw |-> 0, malformed |-> 0, essential |-> 0] /\ clock = 1
  /\ packets = <<>> /\ flows = <<>> /\ sessions = <<>>
  /\ dns = Empty /\ http = Empty /\ tls = Empty

Unread == UNCHANGED <<profile, lines, clock, packets, flows, sessions, dns, http, tls>>
\* The extractor refuses fields its version does not know and is run again without them.
RefuseFields == /\ phase = "extract" /\ attempts < MaxAttempts
                /\ attempts' = attempts + 1 /\ UNCHANGED phase /\ Unread
\* Refused once more, or with nothing on its output: no line at all, which is an error.
GiveUp == phase = "extract" /\ phase' = "failed" /\ UNCHANGED attempts /\ Unread
Extract == phase = "extract" /\ phase' = "read" /\ attempts' = 0 /\ Unread

\* A line of fewer than four fields.
ReadMalformed ==
  /\ phase = "read" /\ lines.raw < MaxPackets
  /\ lines' = [lines EXCEPT !.raw = @ + 1, !.malformed = @ + 1]
  /\ UNCHANGED <<phase, profile, attempts, clock, packets, flows, sessions, dns, http, tls>>
\* A line without the number of its frame is counted, and gives no packet.
ReadUnnumbered ==
  /\ phase = "read" /\ lines.raw < MaxPackets
  /\ lines' = [lines EXCEPT !.raw = @ + 1]
  /\ UNCHANGED <<phase, profile, attempts, clock, packets, flows, sessions, dns, http, tls>>
ReadPacket(raw, gap) ==
  /\ phase = "read" /\ lines.raw < MaxPackets /\ clock + gap > 0
  /\ lines' = [lines EXCEPT !.raw = @ + 1, !.essential = @ + 1]
  /\ clock' = clock + gap
  /\ LET p == [num |-> lines.raw + 1, ts |-> clock', src |-> raw.src, dst |-> raw.dst, sport |-> raw.sport,
               dport |-> raw.dport, proto |-> raw.proto, stream |-> raw.stream, flags |-> raw.flags,
               signs |-> raw.signs, app |-> raw.app] IN
     /\ packets' = Append(packets, p)
     /\ flows' = WithFlow(p) /\ sessions' = WithSession(p)
     /\ dns' = WithDns(p) /\ http' = WithHttp(p) /\ tls' = WithTls(p)
  /\ UNCHANGED <<phase, profile, attempts>>

Unreliable ==
  \/ lines.raw = 0
  \/ lines.malformed * 100 > Thresholds[profile].malformed * lines.raw
  \/ lines.raw > lines.malformed /\ lines.essential * 100 < Thresholds[profile].essential * (lines.raw - lines.malformed)
EndOfFile == /\ phase = "read" /\ phase' = IF Unreliable THEN "failed" ELSE "built"
             /\ UNCHANGED attempts /\ Unread

Read == ReadMalformed \/ ReadUnnumbered \/ (\E p \in Packet, g \in Gap : ReadPacket(p, g))
CaptureNext == RefuseFields \/ GiveUp \/ Extract \/ Read \/ EndOfFile

-----------------------------------------------------------------------------
(* Properties.                                                             *)

Exchanges == Range(All(dns)) \cup Range(All(http)) \cup Range(All(tls))
PacketOf(n) == packets[CHOOSE i \in DOMAIN packets : packets[i].num = n]
\* An answer is used once and joins a question that came before it, in DNS one that went the
\* other way, and every DNS question not repeated since is listed: the answers find their
\* questions by identifiers that clients reuse and files reorder (pipeline.py:319).
ExchangesPaired ==
  /\ \A t \in Exchanges : t.asked # 0 /\ t.answered # 0 =>
       /\ t.asked < t.answered
       /\ Carries(PacketOf(t.answered), {"dns_response"}) =>
            PacketOf(t.asked).src = PacketOf(t.answered).dst /\ PacketOf(t.asked).dst = PacketOf(t.answered).src
  /\ \A s, t \in Exchanges : s # t => (s.asked = 0 \/ s.asked # t.asked) /\ (s.answered = 0 \/ s.answered # t.answered)
  /\ \A i \in DOMAIN packets : Carries(packets[i], {"dns_query"}) =>
       \/ \E t \in Range(All(dns)) : t.asked = packets[i].num
       \/ \E j \in DOMAIN packets : j > i /\ packets[j].app = packets[i].app /\ packets[j].src = packets[i].src /\ packets[j].dst = packets[i].dst
=============================================================================
