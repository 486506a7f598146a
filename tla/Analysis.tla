------------------------------ MODULE Analysis ------------------------------
(***************************************************************************)
(* The analysis of a capture: the analyzers find, suppression marks,       *)
(* duplicates are merged, and the report ranks causes, doubts itself and   *)
(* scores the trust it deserves. A later capture of the same traffic,      *)
(* which starts with the packets of the first, is analysed in its turn and *)
(* compared with it.                                                       *)
(***************************************************************************)
EXTENDS Readings

CONSTANTS
  Suppressions,  \* the sets of rules [rule, src, dst] an analysis may be given, None for any
  Whitelists     \* the sets of addresses that are never reported

VARIABLES
  findings,  \* as the analyzers emitted them
  story,     \* the tone of the capture's story, and the hosts' profiles
  report,    \* None until the analysis is complete
  earlier    \* the report of the capture it is compared with
vars == <<captureVars, findings, story, report, earlier>>

Content == [packets |-> packets, flows |-> flows, sessions |-> sessions, dns |-> All(dns), http |-> All(http), tls |-> All(tls)]

-----------------------------------------------------------------------------
(* Suppression, merging and order.                                         *)

Matches(f, s) ==
  s.rule \in {None, f.rule} /\ (s.src = None \/ s.src \in Range(f.hosts)) /\ (s.dst = None \/ s.dst \in Range(f.hosts))
\* One host on the whitelist is enough.
Hidden(f, sups, white) == Range(f.hosts) \cap white # {} \/ \E s \in sups : Matches(f, s)
Marked(fs, sups, white) == [i \in DOMAIN fs |-> [fs[i] EXCEPT !.suppressed = Hidden(fs[i], sups, white)]]

Key(f) == <<f.rule, IF f.hosts = <<>> THEN None ELSE f.hosts[1]>>
\* The first of the highest score stands for all findings of its key.
Best(fs, k) ==
  CHOOSE i \in DOMAIN fs : Key(fs[i]) = k /\ \A j \in DOMAIN fs : Key(fs[j]) = k =>
    fs[i].score > fs[j].score \/ (fs[i].score = fs[j].score /\ i <= j)
Keys(fs) == [i \in DOMAIN fs |-> Key(fs[i])]
Deduplicated(fs) == LET ks == Distinct(Keys(fs)) IN [i \in DOMAIN ks |-> fs[Best(fs, ks[i])]]
SeverityText == [critical |-> 1, high |-> 2, info |-> 3, low |-> 4, medium |-> 5]
Ranked(fs) ==
  SortSeq(fs, LAMBDA a, b : a.score > b.score \/ (a.score = b.score /\ SeverityText[a.severity] < SeverityText[b.severity]))

-----------------------------------------------------------------------------
(* Decision support, over the active findings.                             *)

BaseOf ==
  "SCAN-001" :> 80 @@ "ARP-001" :> 75 @@ "C2-001" :> 65 @@ "DNS-001" :> 65 @@ "DNS-002" :> 60 @@ "TLS-001" :> 85
  @@ "TLS-002" :> 65 @@ "TLS-003" :> 70 @@ "TLS-006" :> 80 @@ "TCP-001" :> 70 @@ "TCP-002" :> 65 @@ "TCP-003" :> 75
  @@ "TCP-004" :> 70 @@ "TCP-005" :> 80 @@ "TCP-006" :> 65 @@ "HTTP-001" :> 80 @@ "HTTP-002" :> 75 @@ "HTTP-003" :> 90
  @@ "HTTP-004" :> 65 @@ "HTTP-005" :> 70 @@ "HTTP-006" :> 55 @@ "DOS-001" :> 80 @@ "DOS-002" :> 75 @@ "LAT-001" :> 70
Probability(f) ==
  Between(5, (IF f.rule \in DOMAIN BaseOf THEN BaseOf[f.rule] ELSE 50)
    + (CASE f.confidence = "high" -> 15 [] f.confidence = "low" -> 0 - 20 [] OTHER -> 0)
    + (CASE f.score >= 80 -> 10 [] f.score <= 30 -> 0 - 10 [] OTHER -> 0) + 5, 98)
Label(p) == CASE p >= 75 -> "high" [] p \in 45..74 -> "medium" [] OTHER -> "low"

Rules(fs) == Distinct([i \in DOMAIN fs |-> fs[i].rule])
\* The worst finding of a rule, the first of equals.
Worst(fs, rule) ==
  fs[CHOOSE i \in DOMAIN fs : fs[i].rule = rule /\ \A j \in DOMAIN fs : fs[j].rule = rule =>
       SeverityRank(fs[i].severity) > SeverityRank(fs[j].severity) \/ (fs[i].severity = fs[j].severity /\ i <= j)]
Causes(fs) ==
  LET worst == [i \in DOMAIN Rules(fs) |-> Worst(fs, Rules(fs)[i])]
      ranked == SortSeq(worst, LAMBDA a, b : SeverityRank(a.severity) > SeverityRank(b.severity)
                                              \/ (a.severity = b.severity /\ a.score > b.score)) IN
  [i \in DOMAIN ranked |->
     [rule |-> ranked[i].rule, severity |-> ranked[i].severity, label |-> Label(Probability(ranked[i])), hosts |-> Take(ranked[i].hosts, 4)]]
Risks == <<"clean", "low", "medium", "high", "critical">>
RiskRank(r) == CHOOSE i \in DOMAIN Risks : Risks[i] = r
Risk(fs) ==
  LET worse == {fs[i].severity : i \in DOMAIN fs} \cap {"critical", "high", "medium"} IN
  CASE worse # {} -> CHOOSE s \in worse : \A t \in worse : SeverityRank(t) <= SeverityRank(s)
    [] worse = {} /\ fs # <<>> -> "low"
    [] OTHER -> "clean"
NamesSource == {"SCAN-001", "C2-001", "DNS-001", "DNS-002", "TLS-003", "TLS-006", "TCP-003", "HTTP-001", "LAT-001"}
NamesTarget == {"C2-001", "TLS-002", "TCP-003"}
\* Two steps of every cause; then the strangest hosts that none of them names.
Steps(fs, hosts) ==
  LET strange == Take(SortSeq(SetToSeq({h \in DOMAIN hosts : hosts[h].anomaly >= 40}), LAMBDA a, b : hosts[a].anomaly > hosts[b].anomaly), 3)
      named == {h \in DOMAIN hosts : \E k \in Range(Causes(fs)) :
                  \/ k.rule \in NamesSource /\ k.hosts # <<>> /\ k.hosts[1] = h
                  \/ k.rule \in NamesTarget /\ Len(k.hosts) > 1 /\ k.hosts[2] = h} IN
  Take(FlattenSeq([i \in DOMAIN Causes(fs) |-> <<Causes(fs)[i].rule, Causes(fs)[i].rule>>])
       \o SelectSeq(strange, LAMBDA h : h \notin named), 20)
\* What the summary for the management says: findings below medium are passed over.
Summary(fs) ==
  CASE Rated(fs, {"critical"}) > 0 -> "critical"
    [] Rated(fs, {"critical"}) = 0 /\ Rated(fs, {"high"}) > 0 -> "high"
    [] Rated(fs, {"critical", "high"}) = 0 /\ Rated(fs, {"medium"}) > 0 -> "some"
    [] OTHER -> "none"
Decision(fs, hosts) == [risk |-> Risk(fs), causes |-> Causes(fs), steps |-> Steps(fs, hosts)]

-----------------------------------------------------------------------------
(* The report doubts itself: what it found against what it counted.        *)

Counts(fs) ==
  [critical |-> Rated(fs, {"critical"}), high |-> Rated(fs, {"high"}), medium |-> Rated(fs, {"medium"}),
   warning |-> Rated(fs, {"high", "medium"}), total |-> Len(Active(fs))]
Stats(c) ==
  [sessions |-> Cardinality(DOMAIN c.sessions), failed |-> Cardinality({i \in DOMAIN c.sessions : c.sessions[i] \in Failed(c)}),
   midstream |-> Cardinality({i \in DOMAIN c.sessions : c.sessions[i].syn = None}),
   retransmissions |-> Total(DOMAIN c.sessions, LAMBDA i : c.sessions[i].retransmissions),
   queries |-> Len(c.dns), nxdomains |-> Len(Which(c.dns, LAMBDA t : t.rcode = "nxdomain")),
   requests |-> Len(Which(c.http, LAMBDA t : t.asked # 0)), duration |-> Span({c.packets[i].ts : i \in DOMAIN c.packets})]
\* The hosts shown are the strangest, the sessions shown the largest, of equals the first met.
HostsShown(c, hosts) == Range(Take(InOrderOf(HostsMet(c), LAMBDA h : 0 - hosts[h].anomaly), Limit.hostsShown))
SessionsShown(c) ==
  LET shown == Range(Take(InOrderOf(Beginnings(SessionsIn(c)), LAMBDA s : 0 - (s.sent + s.recv)), Limit.sessionsShown)) IN
  {id \in DOMAIN c.sessions : c.sessions[id] \in shown}
\* The active findings fs, by their place, and 0 for the report as a whole.
Doubts(fs, hosts, stats, risk) ==
  LET First(i) == IF fs[i].hosts = <<>> THEN None ELSE fs[i].hosts[1] IN
  {d \in {"001", "002", "003", "004", "005", "006", "009", "010", "011", "012"} \X DOMAIN fs :
     LET f == fs[d[2]] IN
     \/ d[1] = "001" /\ f.rule = "SCAN-001" /\ stats.sessions = 0
     \/ d[1] = "002" /\ f.rule = "DNS-002" /\ stats.queries < 5
     \/ d[1] = "003" /\ f.rule = "DNS-001" /\ stats.nxdomains = 0
     \/ d[1] = "004" /\ f.rule = "ARP-001" /\ Cardinality(DOMAIN hosts) <= 1
     \/ d[1] = "005" /\ f.rule = "C2-001" /\ First(d[2]) \in DOMAIN hosts /\ ~hosts[First(d[2])].periodic
     \/ d[1] = "006" /\ First(d[2]) # None /\ First(d[2]) \notin DOMAIN hosts
     \/ d[1] = "009" /\ f.severity \in {"critical", "high"} /\ f.sure < 35
     \/ d[1] = "010" /\ f.rule = "C2-001" /\ stats.duration \in 1..59
     \/ d[1] = "011" /\ f.rule = "TLS-006" /\ Cardinality(f.nums) <= 2 /\ stats.duration < 10
     \/ d[1] = "012" /\ f.rule \in {"HTTP-001", "HTTP-002", "HTTP-003"} /\ stats.requests = 0}
  \cup {d \in {"007", "008"} \X {0} :
     \/ d[1] = "007" /\ risk # "critical" /\ (\E i \in DOMAIN fs : fs[i].severity = "critical")
     \/ d[1] = "008" /\ stats.retransmissions = 0 /\ (\E i \in DOMAIN fs : fs[i].rule = "TCP-001")}

\* In hundredths, before it is rounded; nothing of it can be above 80.
Completeness(stats) ==
  IF stats.sessions = 0 THEN 7000 ELSE 10000 - (5000 * stats.midstream + 3000 * stats.failed) \div stats.sessions
Sureness(fs) == IF fs = <<>> THEN 10000 ELSE (100 * Total(DOMAIN fs, LAMBDA i : fs[i].sure)) \div Len(fs)
Trust(fs, stats, doubts) ==
  LET warnings == Cardinality({d \in doubts : d[1] \notin {"006", "011"}})
      raw == (40 * (Completeness(stats) + Sureness(fs))) \div 100 - 100 * Min({12 * warnings, 40}) IN
  Between(5, (raw + 50) \div 100, 100)
TrustLabel(t) == CASE t >= 85 -> "high" [] t \in 70..84 -> "medium" [] t \in 50..69 -> "low" [] OTHER -> "poor"

Report(c, told, fs) ==
  LET active == Active(fs) stats == Stats(c) decision == Decision(active, told.hosts)
      hosts == [h \in HostsShown(c, told.hosts) |-> told.hosts[h]]
      doubts == Doubts(active, hosts, stats, decision.risk) IN
  [findings |-> fs, counts |-> Counts(fs), summary |-> Summary(fs), bullets |-> Tone(fs), decision |-> decision, hosts |-> hosts,
   sessions |-> [id \in SessionsShown(c) |-> Reading(c, id)], timeline |-> Take(told.timeline, Limit.eventsShown),
   quality |-> CaptureQuality(c), stats |-> stats,
   doubts |-> doubts, trust |-> TrustLabel(Trust(active, stats, doubts)),
   unsure |-> {active[i].rule : i \in {j \in DOMAIN active : active[j].sure < 45}}]

-----------------------------------------------------------------------------
(* Two reports of one network, a before b, by the titles of their findings *)
(* and the worst finding of every rule.                                    *)

Titles(fs) == {f.title : f \in Range(fs)}
Unlike(fs, titles) == SelectSeq(fs, LAMBDA f : f.title \notin titles)
Shared(a, b) == Range(Rules(a)) \cap Range(Rules(b))
\* Mutant: suppressed findings are compared too.
AllOf(r) == r.findings
ActiveOf(r) == Active(r.findings)
Comparison(a, b) ==
  LET x == ActiveOf(a) y == ActiveOf(b)
      rank(fs, r) == SeverityRank(Worst(fs, r).severity)
      both == DOMAIN a.hosts \cap DOMAIN b.hosts IN
  [new |-> Unlike(y, Titles(x)), resolved |-> Unlike(x, Titles(y)),
   escalated |-> {r \in Shared(x, y) : rank(y, r) > rank(x, r)}, improved |-> {r \in Shared(x, y) : rank(y, r) < rank(x, r)},
   roles |-> {h \in both : a.hosts[h].role # b.hosts[h].role},
   spikes |-> {h \in both : b.hosts[h].anomaly >= 30 /\ b.hosts[h].anomaly - a.hosts[h].anomaly >= 20},
   arrived |-> DOMAIN b.hosts \ DOMAIN a.hosts, gone |-> DOMAIN a.hosts \ DOMAIN b.hosts,
   critical |-> b.counts.critical - a.counts.critical, total |-> b.counts.total - a.counts.total]
Headline(d) ==
  CASE d.escalated # {} -> "escalation"
    [] d.escalated = {} /\ d.critical > 0 -> "new_critical"
    [] d.escalated = {} /\ d.critical <= 0 /\ d.roles # {} -> "role_change"
    [] d.escalated = {} /\ d.critical <= 0 /\ d.roles = {} /\ d.spikes # {} -> "anomaly_spike"
    [] d.escalated = {} /\ d.critical <= 0 /\ d.roles \cup d.spikes = {} /\ d.new # <<>> -> "new_findings"
    [] d.escalated = {} /\ d.critical <= 0 /\ d.roles \cup d.spikes = {} /\ d.new = <<>> /\ d.resolved # <<>> -> "resolved"
    [] d.escalated = {} /\ d.critical <= 0 /\ d.roles \cup d.spikes = {} /\ d.new = <<>> /\ d.resolved = <<>> ->
         IF d.improved # {} THEN "improved" ELSE IF d.arrived # {} THEN "new_hosts" ELSE "none"

-----------------------------------------------------------------------------
(* The pipeline: every stage reads what the ones before it left.           *)

Init == CaptureInit /\ findings = <<>> /\ story = None /\ report = None /\ earlier = None

Normalize == CaptureNext /\ UNCHANGED <<findings, story, report, earlier>>
\* The analyzers, the profiles, and the stories, which are told of what was found, suppressed or not.
Analyze ==
  /\ phase = "built" /\ phase' = "analyzed"
  /\ LET c == Content fs == Detect(c) IN
     /\ findings' = fs
     /\ story' = [tone |-> Tone(fs), hosts |-> HostProfiles(c), timeline |-> Timeline(c, fs), flows |-> [k \in DOMAIN flows |-> FlowStory(c, k)]]
  /\ UNCHANGED <<profile, attempts, lines, clock, packets, flows, sessions, dns, http, tls, report, earlier>>
Finish(sups, white) ==
  /\ phase = "analyzed" /\ phase' = "reported"
  /\ findings' = Marked(findings, sups, white)
  /\ report' = Report(Content, story, Ranked(Deduplicated(findings')))
  /\ UNCHANGED <<profile, attempts, lines, clock, packets, flows, sessions, dns, http, tls, story, earlier>>
NextCapture ==
  /\ phase = "reported" /\ earlier = None /\ phase' = "read"
  /\ earlier' = report /\ report' = None /\ findings' = <<>> /\ story' = None
  /\ UNCHANGED <<profile, attempts, lines, clock, packets, flows, sessions, dns, http, tls>>
Next == Normalize \/ Analyze \/ (\E s \in Suppressions, w \in Whitelists : Finish(s, w)) \/ NextCapture
Spec == Init /\ [][Next]_vars

-----------------------------------------------------------------------------
(* Properties. Done: a report is there.                                    *)

Done == phase = "reported"
\* The checks that compare a finding with what the report counts beside it, computed by other
\* code from other records, never find them at odds (sanity.py:56-246); those that only call
\* the evidence thin may. A host without a profile is one that the report, which shows the
\* strangest hosts only, cut (core/pipeline.py:293).
NoContradictions ==
  Done => \A d \in report.doubts :
    /\ d[1] \notin {"001", "003", "007", "008", "012"}
    /\ d[1] = "006" => Active(report.findings)[d[2]].hosts[1] \in DOMAIN story.hosts \ DOMAIN report.hosts

\* What the analyzers find, under any suppression, is reported: by itself or by one of its rule
\* and first host that scores no less; each such pair once, and nothing else (engine.py:228).
OneFindingPerKey ==
  Done =>
    /\ \A f \in Range(findings) : \E g \in Range(report.findings) : Key(f) = Key(g) /\ g.score >= f.score
    /\ Range(report.findings) \subseteq Range(findings)
    /\ \A i, j \in DOMAIN report.findings : Key(report.findings[i]) = Key(report.findings[j]) => i = j

\* What a list shows is all there is, or a part of it when the list was cut.
Shows(n, all, cut) == n <= all /\ (~cut => n = all)
\* The parts of a report, each of which reads the findings and the sessions once more, tell one
\* story: the risk, the counts, the summary and the bullets; the failed handshakes of the
\* sessions, the hosts and the flows. The lists of hosts, sessions and events are cut
\* (core/pipeline.py:287-293,363) and show no more than was counted.
VerdictsAgree ==
  Done =>
    /\ (report.decision.risk = "critical") = (report.counts.critical > 0)
    /\ (report.decision.risk = "clean") = (report.counts.total = 0)
    /\ \A s \in {"critical", "high"} : (report.decision.risk = s) = (report.summary = s) /\ (report.summary = s) = (report.bullets = s)
    /\ report.decision.risk = "clean" <=> report.bullets = "none"
    /\ Len(report.decision.causes) > 0 <=> report.counts.total > 0
    /\ Shows(Total(DOMAIN report.hosts, LAMBDA h : report.hosts[h].failed), report.stats.failed,
             report.hosts # story.hosts)
    /\ Shows(Cardinality({id \in DOMAIN report.sessions : report.sessions[id].handshake = "failed"}), report.stats.failed,
             DOMAIN report.sessions # DOMAIN sessions)
    /\ Shows(Len(SelectSeq(report.timeline, LAMBDA e : e.kind = "dns_nxdomain")), report.stats.nxdomains,
             report.timeline # story.timeline)
    /\ \A id \in DOMAIN report.sessions :
         (\A k \in DOMAIN sessions : sessions[k].flow = sessions[id].flow => k = id) /\ sessions[id].flow \in DOMAIN flows =>
           (story.flows[sessions[id].flow].cause = "failed" <=> report.sessions[id].handshake = "failed")

\* A risk that rises between two captures is explained by a finding that is new or worse, one
\* that falls by a finding that is gone or better (compare.py:86-127).
RegressionsTold ==
  Done /\ earlier # None =>
    LET d == Comparison(earlier, report) IN
    /\ RiskRank(report.decision.risk) > RiskRank(earlier.decision.risk) =>
         (d.new # <<>> \/ d.escalated # {}) /\ Headline(d) \notin {"resolved", "improved", "new_hosts", "none"}
    /\ RiskRank(report.decision.risk) < RiskRank(earlier.decision.risk) => d.resolved # <<>> \/ d.improved # {}

\* rules/suppression.yaml:3: matching findings are marked suppressed, rather than deleted. The other
\* side of it: a finding that no rule matches is active in the report, or one of its key is.
UnmatchedStayActive ==
  Done => \A f \in Range(findings) : ~f.suppressed => \E g \in Range(Active(report.findings)) : Key(g) = Key(f)

\* The findings shown of one capture neither contradict nor repeat each other.
FindingsAgree == NoContradictions /\ OneFindingPerKey
=============================================================================
