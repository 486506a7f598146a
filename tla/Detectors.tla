----------------------------- MODULE Detectors -----------------------------
(***************************************************************************)
(* The analyzers: what they find in a capture c, a record of its packets,  *)
(* flows, sessions and exchanges. Each operator is one rule and gives the  *)
(* findings of that rule in the order they are emitted. The limits are     *)
(* those of the rules, in packets, exchanges or ticks of the clock; the    *)
(* caps on how much evidence a finding quotes are left out.                *)
(***************************************************************************)
EXTENDS Capture

CONSTANTS
  Limit,     \* the threshold of every rule, by name
  Private,   \* addresses, which are numbers in the order of their text
  Sensitive  \* the ports lateral movement is looked for on

Take(s, n) == SubSeq(s, 1, IF n < Len(s) THEN n ELSE Len(s))
Distinct(s) == SelectSeq([i \in DOMAIN s |-> IF \E j \in 1..(i - 1) : s[j] = s[i] THEN None ELSE s[i]], LAMBDA x : x # None)
Sorted(S) == SetToSortSeq(S, <)
Span(times) == IF times = {} THEN 0 ELSE Max(times) - Min(times)

-----------------------------------------------------------------------------
(* A finding and its two scores, which are independent.                    *)

Severities == <<"info", "low", "medium", "high", "critical">>
SeverityRank(s) == CHOOSE i \in DOMAIN Severities : Severities[i] = s
\* Times ten.
Score(severity, confidence) ==
  LET Table == [critical |-> <<95, 80, 65>>, high |-> <<80, 65, 50>>, medium |-> <<60, 45, 30>>,
                low |-> <<40, 25, 15>>, info |-> <<10, 5, 2>>]
  IN Table[severity][CASE confidence = "high" -> 1 [] confidence = "medium" -> 2 [] confidence = "low" -> 3]
RuleAdjust == [r \in {"ARP-001", "TLS-006"} |-> 8] @@ [r \in {"DNS-002"} |-> 0 - 8] @@ [r \in {"C2-001"} |-> 0 - 5]
              @@ [r \in {"HTTP-002"} |-> 0 - 3]
Between(lo, x, hi) == Max({lo, Min({x, hi})})
\* Every finding has metrics.
EvidenceConfidence(rule, confidence, n, span, samples) ==
  Between(10, 58 + (CASE confidence = "high" -> 12 [] confidence = "low" -> 0 - 18 [] OTHER -> 0)
    + (CASE n = 0 -> 0 - 20 [] n \in 1..2 -> 0 - 10 [] n \in 3..9 -> 0 [] n \in 10..49 -> 6 [] n \in 50..99 -> 10 [] OTHER -> 14)
    + (IF samples THEN 5 ELSE 0)
    + (CASE span > 300 -> 10 [] span \in 61..300 -> 7 [] span \in 11..60 -> 3 [] OTHER -> 0)
    + (IF rule \in DOMAIN RuleAdjust THEN RuleAdjust[rule] ELSE 0), 95)
\* The title names the rule and what it is about, counts included.
Finding(rule, about, severity, confidence, hosts, nums, times, samples) ==
  [rule |-> rule, title |-> <<rule, about>>, severity |-> severity, confidence |-> confidence, hosts |-> hosts, nums |-> nums,
   at |-> IF times = {} THEN 0 ELSE Min(times), score |-> Score(severity, confidence),
   sure |-> EvidenceConfidence(rule, confidence, Cardinality(nums), Span(times), samples), suppressed |-> FALSE]
When(p, finding) == IF p THEN <<finding>> ELSE <<>>
Above(n, limit, hi, lo) == IF n >= limit THEN hi ELSE lo

-----------------------------------------------------------------------------
(* TCP: rules on the whole of the flows and of the sessions.               *)

Parties(records) == Sorted({r.src : r \in records} \cup {r.dst : r \in records})
SomeNums(records, n) == UNION {Range(Take(r.nums, n)) : r \in records}
SynTimes(sessionsOf) == {s.syn : s \in sessionsOf} \ {None}
Total(S, f(_)) == FoldSet(LAMBDA x, n : f(x) + n, 0, S)
FlowsIn(c) == {c.flows[k] : k \in DOMAIN c.flows}
SessionsIn(c) == {c.sessions[k] : k \in DOMAIN c.sessions}
HalfOpen(c) == {s \in SessionsIn(c) : State(s) = "half_open"}
Failed(c) == {s \in SessionsIn(c) : s.syn # None /\ s.synack = None}

SynFlood(c) ==
  LET n == Cardinality(HalfOpen(c)) IN
  When(n >= Limit.halfOpen,
    Finding("TCP-004", <<n>>, Above(n, Limit.halfOpenMany, "critical", "high"), Above(n, Limit.halfOpenMany, "high", "medium"),
            Parties(HalfOpen(c)), SomeNums(HalfOpen(c), 2), SynTimes(HalfOpen(c)), TRUE))

Resets(c, src) == {p \in Range(c.packets) : "rst" \in p.flags /\ p.src = src}
RstFlood(c) ==
  LET Srcs == {s \in {p.src : p \in Range(c.packets)} : Cardinality(Resets(c, s)) >= Limit.resets}
      All_ == UNION {Resets(c, s) : s \in Srcs} IN
  When(Srcs # {},
    Finding("TCP-006", <<Cardinality(Srcs), Cardinality(All_)>>, Above(Cardinality(All_), Limit.resetsMany, "high", "medium"), "high", Sorted(Srcs),
            {p.num : p \in All_}, {p.ts : p \in All_}, TRUE))

FailedHandshakes(c) ==
  LET n == Cardinality(Failed(c)) IN
  When(n >= Limit.failed,
    Finding("TCP-003", <<n>>, Above(n, Limit.failedMany, "high", "medium"), Above(n, Limit.failedSure, "high", "medium"),
            Parties(Failed(c)), SomeNums(Failed(c), 2), SynTimes(Failed(c)), TRUE))

Retransmissions(c) ==
  LET Bad == {f \in FlowsIn(c) : f.retransmissions > 0}
      n == Total(Bad, LAMBDA f : f.retransmissions)
      all == Total(DOMAIN c.flows, LAMBDA k : c.flows[k].fwd + c.flows[k].rev) IN
  When(n >= Limit.retransmissions /\ n * 100 >= all,
    Finding("TCP-001", <<(n * 1000) \div all>>, IF n * 20 >= all THEN "critical" ELSE "high", Above(n, Limit.retransmissionsSure, "high", "medium"),
            Parties(Bad), SomeNums(Bad, 5), {f.first : f \in Bad} \cup {f.last : f \in Bad}, TRUE))

ZeroWindows(c) ==
  LET Stalled == {s \in SessionsIn(c) : s.zeroWindows > 0} n == Total(Stalled, LAMBDA s : s.zeroWindows) IN
  When(n >= Limit.zeroWindows,
    Finding("TCP-002", <<n>>, Above(n, Limit.zeroWindowsMany, "high", "medium"), Above(n, Limit.zeroWindowsSure, "high", "medium"),
            Parties(Stalled), SomeNums(Stalled, 3), SynTimes(Stalled) \cup {s.last : s \in Stalled}, TRUE))

OneSided(c) ==
  LET Half == {f \in FlowsIn(c) : f.fwd = 0 \/ f.rev = 0} IN
  When(Cardinality(Half) >= Limit.oneSided,
    Finding("TCP-005", <<Cardinality(Half)>>, "medium", "medium", Parties(Half), SomeNums(Half, 2),
            {f.first : f \in Half} \cup {f.last : f \in Half}, TRUE))

Tcp(c) == SynFlood(c) \o RstFlood(c) \o FailedHandshakes(c) \o Retransmissions(c) \o ZeroWindows(c) \o OneSided(c)

-----------------------------------------------------------------------------
(* Security: rules by source. Frames without both addresses are left out   *)
(* before any of them is asked.                                            *)

Addressed(c) == SelectSeq(c.packets, LAMBDA p : p.src # None /\ p.dst # None)
Syns(c) == SelectSeq(Addressed(c), LAMBDA p : p.proto = "tcp" /\ "syn" \in p.flags /\ "ack" \notin p.flags)
From(ps, src) == SelectSeq(ps, LAMBDA p : p.src = src)
Nums(ps) == {ps[i].num : i \in DOMAIN ps}
TimesOf(ps) == {ps[i].ts : i \in DOMAIN ps}
\* One rule for every source, in the order the sources appear.
PerSource(ps, rule(_, _)) ==
  FlattenSeq([i \in DOMAIN ps |-> IF \E j \in 1..(i - 1) : ps[j].src = ps[i].src THEN <<>> ELSE rule(ps[i].src, From(ps, ps[i].src))])

PortScan(c) ==
  LET Scan(src, ps) == LET Ports == {ps[i].dport : i \in DOMAIN ps} IN
        When(Cardinality(Ports) >= Limit.ports,
          Finding("SCAN-001", <<src, Cardinality(Ports)>>, Above(Cardinality(Ports), Limit.portsMany, "critical", "high"), "high", <<src>>,
                  {Min({ps[i].num : i \in {j \in DOMAIN ps : ps[j].dport = d}}) : d \in Ports}, {}, TRUE))
  IN PerSource(Syns(c), Scan)

\* One address that several hardware addresses claim.
ArpSpoofing(c) ==
  LET ps == SelectSeq(Addressed(c), LAMBDA p : Carries(p, {"arp"}))
      Spoof(ip, claims) == LET Macs == {claims[i].app.mac : i \in DOMAIN claims} IN
        When(Cardinality(Macs) >= 2, Finding("ARP-001", <<ip, Cardinality(Macs)>>, "high", "high", <<ip>>, Nums(claims), {}, TRUE))
  IN PerSource([i \in DOMAIN ps |-> [ps[i] EXCEPT !.src = ps[i].app.ip]], Spoof)

FloodOf(rule, severity, limit, ps) ==
  LET Flood(src, mine) == When(Len(mine) >= limit, Finding(rule, <<src, Len(mine)>>, severity, "high", <<src>>, Nums(mine), TimesOf(mine), TRUE))
  IN PerSource(ps, Flood)
SynSources(c) == FloodOf("DOS-001", "critical", Limit.syns, Syns(c))
IcmpFlood(c) ==
  FloodOf("DOS-002", "high", Limit.echoes,
          SelectSeq(Addressed(c), LAMBDA p : p.proto = "icmp" /\ Carries(p, {"icmp"}) /\ p.app.type = "echo_request"))

\* Variance over squared mean of the intervals at most the square of the jitter, 0.15.
Regular(intervals) ==
  LET n == Len(intervals) sum == FoldSeq(LAMBDA x, a : x + a, 0, intervals)
      squares == FoldSeq(LAMBDA x, a : x * x + a, 0, intervals) IN
  n >= 2 /\ sum # 0 /\ 10000 * (n * squares - sum * sum) <= 225 * sum * sum
Intervals(times) == [i \in 1..(Len(times) - 1) |-> times[i + 1] - times[i]]
Beaconing(c) ==
  LET ps == SelectSeq(Syns(c), LAMBDA p : p.src \in Private /\ p.dst \notin Private)
      Pair(i) == <<ps[i].src, ps[i].dst>>
      Of(i) == SelectSeq(ps, LAMBDA p : <<p.src, p.dst>> = Pair(i))
      times(i) == SortSeq([j \in DOMAIN Of(i) |-> Of(i)[j].ts], <)
      valid(i) == SelectSeq(Intervals(times(i)), LAMBDA d : Limit.shortest <= d /\ d <= Limit.longest)
      Beacon(i) ==
        When(Len(Of(i)) >= Limit.beacons /\ Len(valid(i)) >= Limit.beacons - 1 /\ Regular(valid(i)),
          Finding("C2-001", <<ps[i].src, ps[i].dst, Total(DOMAIN valid(i), LAMBDA j : valid(i)[j]) \div Len(valid(i))>>, "critical", "medium", Pair(i), Nums(Of(i)), TimesOf(Of(i)), TRUE))
  IN FlattenSeq([i \in DOMAIN ps |-> IF \E j \in 1..(i - 1) : Pair(j) = Pair(i) THEN <<>> ELSE Beacon(i)])

LateralMovement(c) ==
  LET ps == SelectSeq(Syns(c), LAMBDA p : p.src \in Private /\ p.dst \in Private /\ p.dport \in Sensitive)
      Lateral(src, mine) ==
        When(Len(mine) >= Limit.lateral,
          Finding("LAT-001", <<src, Len(mine)>>, "high", "medium", Distinct(<<src>> \o [i \in DOMAIN mine |-> mine[i].dst]), Nums(mine), TimesOf(mine), TRUE))
  IN PerSource(ps, Lateral)

Security(c) == PortScan(c) \o ArpSpoofing(c) \o SynSources(c) \o IcmpFlood(c) \o Beaconing(c) \o LateralMovement(c)
=============================================================================
