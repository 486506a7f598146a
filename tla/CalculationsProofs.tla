------------------------- MODULE CalculationsProofs -------------------------
(***************************************************************************)
(* What the backend works out of data, for lines, packets, captures, rows  *)
(* and runs of any number and kind: what a relay puts before a line, the   *)
(* actions of the parsers, the templates of NetFlow, the verdicts on a     *)
(* path and its hops, the pages of the event list, the advice on a         *)
(* monitored path, and what more evidence does to the scores of sources    *)
(* and to the reading of a session.                                        *)
(***************************************************************************)
EXTENDS Calculations, FiniteSetTheorems, WellFoundedInduction, TLAPS

-----------------------------------------------------------------------------
(* Log lines: only the event of the line processed last is known.          *)

LinesIInv ==
  /\ line \in Line \cup {None}
  /\ event = (IF line = None THEN None ELSE Parsing!EventOf(line))

\* A header with a host, and a numeric priority, leave nothing but what Bare leaves.
LEMMA StripIsBare ==
  ASSUME NEW l, {"pri", "header", "kind", "action", "timed"} \subseteq DOMAIN l,
         l.pri # "text", l.header \in {"none", "month"}
  PROVE  Parsing!Strip(l) = Parsing!Bare(l) /\ Parsing!Strip(Parsing!Bare(l)) = Parsing!Bare(l)
<1> DEFINE p == [l EXCEPT !.pri = "none"]
<1> DEFINE b == [p EXCEPT !.header = "none"]
<1>1. p.header = l.header /\ Parsing!Strip(l) = Parsing!WithoutHeader(p)  BY DEF Parsing!Strip
<1>2. Parsing!Bare(l) = b  BY DEF Parsing!Bare
<1>3. p.header = "none" => p = b  OBVIOUS
<1>4. Parsing!Strip(l) = b  BY <1>1, <1>3 DEF Parsing!WithoutHeader
<1>5. b.pri = "none" /\ b.header = "none" /\ [b EXCEPT !.pri = "none"] = b  OBVIOUS
<1>6. Parsing!Strip(b) = b
  <2> HIDE DEF b
  <2> QED  BY <1>5 DEF Parsing!Strip, Parsing!WithoutHeader
<1> QED  BY <1>2, <1>4, <1>6

LEMMA PrefixLeavesEvent ==
  ASSUME NEW l, {"pri", "header", "kind", "action", "timed"} \subseteq DOMAIN l,
         l.pri # "text", l.header \in {"none", "month"}
  PROVE  Parsing!EventOf(l) = Parsing!EventOf(Parsing!Bare(l))
<1>1. /\ Parsing!Bare(l).kind = l.kind /\ Parsing!Bare(l).action = l.action
      /\ Parsing!Bare(l).timed = l.timed
  BY DEF Parsing!Bare
<1>2. Parsing!Strip(l) = Parsing!Strip(Parsing!Bare(l))  BY StripIsBare
<1> QED  BY <1>1, <1>2 DEF Parsing!EventOf

LEMMA StepLines == LinesIInv /\ [Next]_vars => LinesIInv'
<1> SUFFICES ASSUME LinesIInv, [Next]_vars  PROVE LinesIInv'  OBVIOUS
<1>1. CASE \E l \in Line : Parsing!ProcessLine(l)
  BY <1>1, LineAssumption DEF LinesIInv, Parsing!ProcessLine
<1>2. CASE UNCHANGED <<line, event>>  BY <1>2 DEF LinesIInv
<1> QED
  BY <1>1, <1>2 DEF Next, vars, parsing, review, lists, Rest, Store, StoreFeedback, StoreFlow, StoreIncident,
     AddRun, AddDigestRow, StoreEvent, RunRetention, Browse, Parsing!ReceivePacket,
     Parsing!Restart

LEMMA InitLines == Init => LinesIInv
BY DEF Init, Parsing!Init, LinesIInv

LEMMA LinesRead == Spec => []LinesIInv
<1>1. LinesIInv /\ [Next]_vars => LinesIInv'  BY StepLines
<1> QED  BY InitLines, <1>1, PTL DEF Spec

LEMMA LinesReadAlike == LinesIInv => PrefixNeverMatters
<1> SUFFICES ASSUME LinesIInv, line # None, line.pri # "text", line.header \in {"none", "month"}
             PROVE  event = Parsing!EventOf(Parsing!Bare(line))
  BY DEF PrefixNeverMatters, Parsing!PrefixNeverMatters
<1>1. {"pri", "header", "kind", "action", "timed"} \subseteq DOMAIN line  BY LineAssumption DEF LinesIInv
<1> QED  BY <1>1, PrefixLeavesEvent DEF LinesIInv

\* A priority, a header or both, put by a relay before whatever line of whatever format,
\* leave the event read from the line as it was (_strip_syslog_priority, process_line).
THEOREM PrefixesNeverMatter == Spec => []PrefixNeverMatters
BY LinesRead, LinesReadAlike, PTL

-----------------------------------------------------------------------------
(* The action tables.  A word that a table brings to the common vocabulary *)
(* passed exactly when it is one of these, in every table.                 *)

Passing == {"accept", "allow", "pass", "permit", "allowed"}
Alike(action, raw) ==
  action \in Parsing!Canonical => raw # "" /\ ((action = "allow") <=> (raw \in Passing))

LEMMA FirstOfAlike ==
  ASSUME NEW raw, NEW names,
         \A a \in DOMAIN names : "" \notin names[a],
         \A a \in DOMAIN names : raw \in names[a] => ((a = "allow") <=> (raw \in Passing))
  PROVE  Alike(Parsing!FirstOf(raw, names), raw)
<1>1. CASE \E a \in DOMAIN names : raw \in names[a]
  <2>1. raw \in names[Parsing!FirstOf(raw, names)] /\ Parsing!FirstOf(raw, names) \in DOMAIN names
    BY <1>1 DEF Parsing!FirstOf
  <2> QED  BY <2>1 DEF Alike
<1>2. CASE ~(\E a \in DOMAIN names : raw \in names[a])
  <2>1. Parsing!FirstOf(raw, names) \in {raw, "unknown"}  BY <1>2 DEF Parsing!FirstOf
  <2>2. Alike(raw, raw) /\ Alike("unknown", raw)  BY DEF Alike, Passing, Parsing!Canonical
  <2> QED  BY <2>1, <2>2
<1> QED  BY <1>1, <1>2

LEMMA FortiGateAlike == \A raw : Alike(Parsing!FortiGateAction(raw), raw)
<1> TAKE raw
<1> DEFINE t == [allow |-> Parsing!Allowing, deny |-> Parsing!Denying, drop |-> Parsing!Dropping,
                 reset |-> {"reset-both"}]
<1>0. \A a \in DOMAIN t : "" \notin t[a]
  <2>1. \A w : w \notin Parsing!Allowing \cup Parsing!Denying \cup Parsing!Dropping \cup {"reset-both"} => \A a \in DOMAIN t : w \notin t[a]  OBVIOUS
  <2>2. "" \notin Parsing!Allowing \cup Parsing!Denying \cup Parsing!Dropping \cup {"reset-both"}
    BY Zenon DEF Parsing!Allowing, Parsing!Denying, Parsing!Dropping
  <2> QED  BY <2>1, <2>2
<1>1. \A a \in DOMAIN t : raw \in t[a] => ((a = "allow") <=> (raw \in Passing))
  BY DEF Parsing!Allowing, Parsing!Denying, Parsing!Dropping, Passing
<1> HIDE DEF t
<1>2. Alike(Parsing!FirstOf(raw, t), raw)  BY <1>0, <1>1, FirstOfAlike
<1> QED  BY <1>2 DEF t, Parsing!FortiGateAction

LEMMA GenericAlike == \A raw : Alike(Parsing!GenericAction(raw), raw)
<1> TAKE raw
<1> DEFINE t == [allow |-> Parsing!Allowing \cup {"allowed"}, deny |-> Parsing!Denying,
                 drop |-> Parsing!Dropping, reset |-> {"reset-both"}]
<1>0. \A a \in DOMAIN t : "" \notin t[a]
  <2>1. \A w : w \notin (Parsing!Allowing \cup {"allowed"}) \cup Parsing!Denying \cup Parsing!Dropping \cup {"reset-both"} => \A a \in DOMAIN t : w \notin t[a]  OBVIOUS
  <2>2. "" \notin (Parsing!Allowing \cup {"allowed"}) \cup Parsing!Denying \cup Parsing!Dropping \cup {"reset-both"}
    BY Zenon DEF Parsing!Allowing, Parsing!Denying, Parsing!Dropping
  <2> QED  BY <2>1, <2>2
<1>1. \A a \in DOMAIN t : raw \in t[a] => ((a = "allow") <=> (raw \in Passing))
  BY DEF Parsing!Allowing, Parsing!Denying, Parsing!Dropping, Passing
<1> HIDE DEF t
<1>2. Alike(Parsing!FirstOf(raw, t), raw)  BY <1>0, <1>1, FirstOfAlike
<1> QED  BY <1>2 DEF t, Parsing!GenericAction

LEMMA TrafficAlike == \A raw : Alike(Parsing!TrafficAction(raw), raw)
<1> TAKE raw
<1> DEFINE t == [allow |-> {"allow", "allowed"}, deny |-> {"deny", "denied"},
                 drop |-> {"drop", "dropped", "drop-all-packets"}, reset |-> {"reset-both"}]
<1>0. \A a \in DOMAIN t : "" \notin t[a]
  <2>1. \A w : w \notin {"allow", "allowed"} \cup {"deny", "denied"} \cup {"drop", "dropped", "drop-all-packets"} \cup {"reset-both"} => \A a \in DOMAIN t : w \notin t[a]  OBVIOUS
  <2>2. "" \notin {"allow", "allowed"} \cup {"deny", "denied"} \cup {"drop", "dropped", "drop-all-packets"} \cup {"reset-both"}
    BY Zenon
  <2> QED  BY <2>1, <2>2
<1>1. \A a \in DOMAIN t : raw \in t[a] => ((a = "allow") <=> (raw \in Passing))  BY DEF Passing
<1> HIDE DEF t
<1>2. Alike(Parsing!FirstOf(raw, t), raw)  BY <1>0, <1>1, FirstOfAlike
<1> QED  BY <1>2 DEF t, Parsing!TrafficAction

LEMMA ThreatAlike == \A raw : Alike(Parsing!ThreatAction(raw), raw)
<1> TAKE raw
<1> DEFINE t == [alert |-> {"alert"}, allow |-> {"allow", "allowed"},
                 deny |-> {"block", "blocked", "deny", "denied", "reset-both"},
                 drop |-> {"drop", "dropped", "drop-all-packets"}]
<1>0. \A a \in DOMAIN t : "" \notin t[a]
  <2>1. \A w : w \notin {"alert"} \cup {"allow", "allowed"} \cup {"block", "blocked", "deny", "denied", "reset-both"} \cup {"drop", "dropped", "drop-all-packets"} => \A a \in DOMAIN t : w \notin t[a]  OBVIOUS
  <2>2. "" \notin {"alert"} \cup {"allow", "allowed"} \cup {"block", "blocked", "deny", "denied", "reset-both"} \cup {"drop", "dropped", "drop-all-packets"}
    BY Zenon
  <2> QED  BY <2>1, <2>2
<1>1. \A a \in DOMAIN t : raw \in t[a] => ((a = "allow") <=> (raw \in Passing))  BY DEF Passing
<1> HIDE DEF t
<1>2. Alike(Parsing!FirstOf(raw, t), raw)  BY <1>0, <1>1, FirstOfAlike
<1> QED  BY <1>2 DEF t, Parsing!ThreatAction

LEMMA AllAlike == \A parser, l, raw : Alike(Parsing!ActionBy(parser, l, raw), raw)
BY FortiGateAlike, GenericAlike, TrafficAlike, ThreatAlike DEF Parsing!ActionBy

LEMMA EventAlike ==
  ASSUME NEW l, Parsing!EventOf(l) # None
  PROVE  Alike(Parsing!EventOf(l).action, l.action)
<1> DEFINE clean == Parsing!Strip(l)
<1> DEFINE raw == IF l.kind = "csv" \/ "action" \in Parsing!Keys(clean) THEN l.action ELSE ""
<1>1. Parsing!EventOf(l).action = Parsing!ActionBy(Parsing!Detect(clean), clean, raw)  BY DEF Parsing!EventOf
<1>2. Alike(Parsing!EventOf(l).action, raw)  BY <1>1, AllAlike
<1>3. raw \in {l.action, ""}  OBVIOUS
<1> QED  BY <1>2, <1>3 DEF Alike

LEMMA LinesActAlike == LinesIInv => ActionsAgree
<1> SUFFICES ASSUME LinesIInv, event # None, NEW p, NEW t
             PROVE  LET other == Parsing!ActionBy(p, [type |-> t], line.action) IN
                    other \in Parsing!Canonical /\ event.action \in Parsing!Canonical
                      => (other = "allow") = (event.action = "allow")
  BY DEF ActionsAgree, Parsing!ActionsAgree
<1>1. Alike(event.action, line.action)  BY EventAlike DEF LinesIInv
<1>2. Alike(Parsing!ActionBy(p, [type |-> t], line.action), line.action)  BY AllAlike
<1> QED  BY <1>1, <1>2 DEF Alike

\* Whatever word a line has for its action: an event that one parser takes for traffic that
\* passed is taken for that by every parser that knows the word (the tables of the parsers).
THEOREM ParsersAgree == Spec => []ActionsAgree
BY LinesRead, LinesActAlike, PTL

-----------------------------------------------------------------------------
(* Recursive functions over 0 .. n are what their definitions say.         *)

LEMMA LeastNumber ==
  ASSUME NEW S \in SUBSET Nat, S # {}
  PROVE  \E m \in S : \A x \in S : m <= x
<1>1. IsWellFoundedOn(OpToRel(<, Nat), Nat)  BY NatLessThanWellFounded
<1>2. PICK m \in S : \A x \in S : <<x, m>> \notin OpToRel(<, Nat)  BY <1>1, WFMin
<1>3. \A x \in S : ~(x < m)  BY <1>2 DEF OpToRel
<1> QED  BY <1>3

Runs(ST, start, n, F) ==
  \E g \in [0 .. n -> ST] : g[0] = start /\ \A i \in 1 .. n : g[i] = F[i][g[i - 1]]

LEMMA RecursionExists ==
  ASSUME NEW ST, NEW start \in ST, NEW n \in Nat, NEW F \in [1 .. n -> [ST -> ST]]
  PROVE  Runs(ST, start, n, F)
<1> DEFINE Good(k, g) == g[0] = start /\ \A i \in 1 .. k : g[i] = F[i][g[i - 1]]
<1> DEFINE S == {k \in 0 .. n : ~(\E g \in [0 .. k -> ST] : Good(k, g))}
<1>1. S = {}
  <2> SUFFICES ASSUME S # {}  PROVE FALSE  OBVIOUS
  <2>1. PICK m \in S : \A x \in S : m <= x
    <3> HIDE DEF S
    <3>1. S \in SUBSET Nat  BY DEF S
    <3> QED  BY <3>1, LeastNumber
  <2>2. CASE m = 0
    <3>1. [i \in 0 .. 0 |-> start] \in [0 .. 0 -> ST] /\ Good(0, [i \in 0 .. 0 |-> start])  OBVIOUS
    <3> QED  BY <2>1, <2>2, <3>1
  <2>3. CASE m # 0
    <3>0. m \in 0 .. n  BY <2>1
    <3>1. m - 1 \in 0 .. n /\ m - 1 \notin S /\ m \in 1 .. n
      <4>1. m - 1 \in 0 .. n /\ m \in 1 .. n /\ ~(m <= m - 1)  BY <3>0, <2>3
      <4>2. m - 1 \notin S
        <5> HIDE DEF S
        <5> QED  BY <2>1, <4>1
      <4> QED  BY <4>1, <4>2
    <3>2. PICK g \in [0 .. (m - 1) -> ST] : Good(m - 1, g)  BY <3>1
    <3> DEFINE h == [i \in 0 .. m |-> IF i = m THEN F[m][g[m - 1]] ELSE g[i]]
    <3>3. F[m][g[m - 1]] \in ST  BY <3>1, <3>2
    <3>4. h \in [0 .. m -> ST]  BY <3>1, <3>2, <3>3
    <3>5. \A i \in 0 .. (m - 1) : i \in 0 .. m /\ h[i] = g[i]  BY <3>1
    <3>6. \A i \in 1 .. m : h[i] = F[i][h[i - 1]]
      <4> TAKE i \in 1 .. m
      <4>1. i - 1 \in 0 .. (m - 1) /\ h[i - 1] = g[i - 1]  BY <3>1, <3>5
      <4>2. CASE i = m  BY <4>1, <4>2
      <4>3. CASE i # m
        <5>1. i \in 1 .. (m - 1)  BY <3>1, <4>3
        <5> QED  BY <5>1, <3>2, <3>5, <4>1
      <4> QED  BY <4>2, <4>3
    <3>7. h[0] = start  BY <3>1, <3>2, <3>5
    <3> QED  BY <2>1, <3>4, <3>6, <3>7
  <2> QED  BY <2>2, <2>3
<1>2. n \in 0 .. n  OBVIOUS
<1> QED  BY <1>1, <1>2 DEF Runs

\* What holds at the start and is kept by each of n steps holds at every one of them.
LEMMA Repeated ==
  ASSUME NEW n \in Nat, NEW P, P \subseteq 0 .. n, 0 \in P, \A i \in 1 .. n : i - 1 \in P => i \in P
  PROVE  P = 0 .. n
<1> DEFINE S == (0 .. n) \ P
<1>1. S = {}
  <2> SUFFICES ASSUME S # {}  PROVE FALSE  OBVIOUS
  <2>1. PICK m \in S : \A x \in S : m <= x
    <3> HIDE DEF S
    <3>1. S \in SUBSET Nat  BY DEF S
    <3> QED  BY <3>1, LeastNumber
  <2>2. m \in 1 .. n /\ m - 1 \in 0 .. n /\ m - 1 \notin S  BY <2>1
  <2> QED  BY <2>1, <2>2
<1> QED  BY <1>1

-----------------------------------------------------------------------------
(* NetFlow.  What a packet leaves of the templates, flowset by flowset.    *)

Flowsets == UNION {Range(p.sets) : p \in Export}
Slots == {<<p.source, s.id>> : p \in Export, s \in Flowsets}
Layouts == {s.layout : s \in Flowsets}
Caches == UNION {[K -> Layouts] : K \in SUBSET Slots}
Addressed == [at : Nat, by : {p.source : p \in Export}, layout : {y \in Layouts : {"src", "dst"} \subseteq y}]
Parsed == [cache : Caches, flows : SUBSET Addressed, open : BOOLEAN]

TemplatesIInv == templates \in Caches /\ announced = templates /\ decoded = due

\* After i flowsets the cache has the layouts told by these and by the packets before, and
\* the flows are those that are due.
After(p, i, st) ==
  /\ st.open <=> Parsing!Opened(p, i)
  /\ DOMAIN st.cache = Parsing!Told(p, i)
  /\ \A k \in DOMAIN st.cache : st.cache[k] = Parsing!ToldBy(p, i, k)
  /\ st.flows = UNION {Parsing!DueOf(p, j) : j \in 1 .. i}

LEMMA CacheFacts ==
  ASSUME NEW c \in Caches
  PROVE  DOMAIN c \subseteq Slots /\ c \in [DOMAIN c -> Layouts]
BY DEF Caches

LEMMA PutTemplateType ==
  ASSUME NEW c \in Caches, NEW p \in Export, NEW s \in Flowsets
  PROVE  Parsing!PutTemplate(c, p, s) \in Caches
<1>1. <<p.source, s.id>> \in Slots /\ s.layout \in Layouts  BY DEF Slots, Layouts
<1>2. DOMAIN c \subseteq Slots /\ c \in [DOMAIN c -> Layouts]  BY CacheFacts
<1> DEFINE K == DOMAIN c \cup {<<p.source, s.id>>}
<1>3. K \in SUBSET Slots  BY <1>1, <1>2
<1>4. [k \in K |-> IF k = <<p.source, s.id>> THEN s.layout ELSE c[k]] \in [K -> Layouts]  BY <1>1, <1>2
<1>5. [k \in K |-> IF k = <<p.source, s.id>> THEN s.layout ELSE c[k]] \in Caches
  <2> HIDE DEF K
  <2> QED  BY <1>3, <1>4 DEF Caches
<1> QED  BY <1>5 DEF Parsing!PutTemplate

LEMMA PacketFacts ==
  ASSUME NEW p \in Export
  PROVE  /\ Len(p.sets) \in Nat /\ DOMAIN p.sets = 1 .. Len(p.sets)
         /\ \A i \in 1 .. Len(p.sets) : p.sets[i] \in Flowsets /\ i \in Nat
<1>1. p.sets \in Seq(Range(p.sets))  BY ExportAssumption
<1> QED  BY <1>1 DEF Flowsets, Range

LEMMA DecodeType ==
  ASSUME NEW c \in Caches, NEW p \in Export, NEW i \in 1 .. Len(p.sets)
  PROVE  Parsing!DecodeData(c, p, i) \subseteq Addressed
<1>1. DOMAIN c \subseteq Slots /\ c \in [DOMAIN c -> Layouts]  BY CacheFacts
<1>2. i \in Nat  BY PacketFacts
<1>3. \A y \in Layouts : Parsing!BuildFlow(p, i, y) \subseteq Addressed
  BY <1>2 DEF Parsing!BuildFlow, Addressed
<1> QED  BY <1>1, <1>3 DEF Parsing!DecodeData

LEMMA ParseFlowsetType ==
  ASSUME NEW st \in Parsed, NEW p \in Export, NEW i \in 1 .. Len(p.sets)
  PROVE  Parsing!ParseFlowset(st, p, i) \in Parsed
<1>1. st.cache \in Caches /\ st.flows \subseteq Addressed  BY DEF Parsed
<1>2. Parsing!PutTemplate(st.cache, p, p.sets[i]) \in Caches  BY <1>1, PacketFacts, PutTemplateType
<1>3. Parsing!DecodeData(st.cache, p, i) \subseteq Addressed  BY <1>1, DecodeType
<1>4. /\ [st EXCEPT !.open = FALSE] \in Parsed
      /\ [st EXCEPT !.cache = Parsing!PutTemplate(st.cache, p, p.sets[i])] \in Parsed
      /\ [st EXCEPT !.flows = st.flows \cup Parsing!DecodeData(st.cache, p, i)] \in Parsed
  BY <1>1, <1>2, <1>3 DEF Parsed
<1> QED  BY <1>4 DEF Parsing!ParseFlowset

LEMMA FlowsetsRead ==
  ASSUME NEW p \in Export, NEW cache \in Caches
  PROVE  \E g \in [0 .. Len(p.sets) -> Parsed] :
           /\ g[0] = [cache |-> cache, flows |-> {}, open |-> TRUE]
           /\ \A i \in 1 .. Len(p.sets) : g[i] = Parsing!ParseFlowset(g[i - 1], p, i)
           /\ Parsing!ParseFlowsets(cache, p) = g[Len(p.sets)]
<1> DEFINE n == Len(p.sets)
<1> DEFINE start == [cache |-> cache, flows |-> {}, open |-> TRUE]
<1> DEFINE Step(g, i) == IF i = 0 THEN start ELSE Parsing!ParseFlowset(g[i - 1], p, i)
<1> DEFINE F == [i \in 1 .. n |-> [st \in Parsed |-> Parsing!ParseFlowset(st, p, i)]]
<1>1. n \in Nat  BY PacketFacts
<1>2. start \in Parsed  BY DEF Parsed
<1>3. F \in [1 .. n -> [Parsed -> Parsed]]  BY <1>1, ParseFlowsetType
<1>4. PICK g \in [0 .. n -> Parsed] : g[0] = start /\ \A i \in 1 .. n : g[i] = F[i][g[i - 1]]
  <2> HIDE DEF F, start, n
  <2>1. Runs(Parsed, start, n, F)  BY <1>1, <1>2, <1>3, RecursionExists
  <2> QED  BY <2>1 DEF Runs
<1>5. \A i \in 1 .. n : i - 1 \in 0 .. n /\ g[i] = Parsing!ParseFlowset(g[i - 1], p, i)
  <2> TAKE i \in 1 .. n
  <2>1. i - 1 \in 0 .. n
    <3> HIDE DEF n
    <3> QED  BY <1>1
  <2>2. g[i] = F[i][g[i - 1]] /\ g[i - 1] \in Parsed
    <3> HIDE DEF F
    <3> QED  BY <1>4, <2>1
  <2> QED  BY <2>1, <2>2
<1>6. \A i \in 0 .. n : i = 0 \/ i \in 1 .. n  BY <1>1
<1>7. g = [i \in 0 .. n |-> Step(g, i)]  BY <1>4, <1>5, <1>6
<1> DEFINE h == CHOOSE f : f = [i \in 0 .. n |-> Step(f, i)]
<1>8. h = [i \in 0 .. n |-> Step(h, i)]  BY <1>7
<1>9. h = g
  <2> DEFINE P == {i \in 0 .. n : h[i] = g[i]}
  <2>1. \A i \in 0 .. n : h[i] = Step(h, i) /\ g[i] = Step(g, i)
    <3> HIDE DEF h, Step
    <3> QED  BY <1>7, <1>8
  <2>2. 0 \in P  BY <1>1, <2>1
  <2>3. \A i \in 1 .. n : i - 1 \in P => i \in P
    <3> HIDE DEF h
    <3> QED  BY <1>1, <2>1
  <2>4. P = 0 .. n
    <3> HIDE DEF P
    <3>1. P \subseteq 0 .. n  BY DEF P
    <3> QED  BY <1>1, <2>2, <2>3, <3>1, Repeated
  <2>5. \A i \in 0 .. n : h[i] = g[i]  BY <2>4
  <2> HIDE DEF h
  <2> QED  BY <1>4, <1>8, <2>5
<1>10. Parsing!ParseFlowsets(cache, p) = h[n]  BY DEF Parsing!ParseFlowsets
<1> QED  BY <1>4, <1>5, <1>9, <1>10

LEMMA SentMore ==
  ASSUME NEW p \in Export, NEW i \in 1 .. Len(p.sets)
  PROVE  LET s == p.sets[i]
             told == s.kind = "template" /\ s.whole /\ Parsing!Opened(p, i)
         IN /\ Parsing!Opened(p, i) <=> Parsing!Opened(p, i - 1) /\ s.kind # "malformed"
            /\ ~told => \A k : Parsing!SentBy(p, i, k) = Parsing!SentBy(p, i - 1, k)
            /\ ~told => Parsing!Told(p, i) = Parsing!Told(p, i - 1)
            /\ told => /\ Parsing!SentBy(p, i, Parsing!Slot(p, i)) # {}
                       /\ Parsing!LastOf(Parsing!SentBy(p, i, Parsing!Slot(p, i))) = i
                       /\ \A k : k # Parsing!Slot(p, i) => Parsing!SentBy(p, i, k) = Parsing!SentBy(p, i - 1, k)
                       /\ Parsing!Told(p, i) = Parsing!Told(p, i - 1) \cup {Parsing!Slot(p, i)}
<1> DEFINE told == p.sets[i].kind = "template" /\ p.sets[i].whole /\ Parsing!Opened(p, i)
           key == Parsing!Slot(p, i)
<1>1. Len(p.sets) \in Nat /\ i \in Int  BY PacketFacts
<1>2. 1 .. i = 1 .. (i - 1) \cup {i} /\ i \in 1 .. i  BY <1>1
<1>3. Parsing!Opened(p, i) <=> Parsing!Opened(p, i - 1) /\ p.sets[i].kind # "malformed"
  BY <1>2 DEF Parsing!Opened
<1>4. Parsing!Whole(p, i) = Parsing!Whole(p, i - 1) \cup (IF told THEN {i} ELSE {})
  BY <1>2 DEF Parsing!Whole
<1>5. ~told => Parsing!Whole(p, i) = Parsing!Whole(p, i - 1)  BY <1>4
<1>6. told => Parsing!Whole(p, i) = Parsing!Whole(p, i - 1) \cup {i}  BY <1>4
<1>7. \A j \in Parsing!Whole(p, i) : j \in Int /\ j <= i  BY <1>1 DEF Parsing!Whole
<1> HIDE DEF told
<1>8. ~told => \A k : Parsing!SentBy(p, i, k) = Parsing!SentBy(p, i - 1, k)  BY <1>5 DEF Parsing!SentBy
<1>9. ~told => Parsing!Told(p, i) = Parsing!Told(p, i - 1)  BY <1>5 DEF Parsing!Told
<1>10. ASSUME told  PROVE i \in Parsing!SentBy(p, i, key)  BY <1>6, <1>10 DEF Parsing!SentBy
<1>11. ASSUME told  PROVE Parsing!LastOf(Parsing!SentBy(p, i, key)) = i
  <2>1. \A j \in Parsing!SentBy(p, i, key) : j \in Int /\ j <= i  BY <1>7 DEF Parsing!SentBy
  <2> QED  BY <1>1, <1>10, <1>11, <2>1 DEF Parsing!LastOf
<1>12. ASSUME told, NEW k, k # key  PROVE Parsing!SentBy(p, i, k) = Parsing!SentBy(p, i - 1, k)
  BY <1>6, <1>12 DEF Parsing!SentBy
<1>13. told => Parsing!Told(p, i) = Parsing!Told(p, i - 1) \cup {key}  BY <1>6 DEF Parsing!Told
<1> QED  BY <1>3, <1>8, <1>9, <1>10, <1>11, <1>12, <1>13 DEF told

LEMMA FlowsetTells ==
  ASSUME NEW p \in Export, NEW i \in 1 .. Len(p.sets), NEW st \in Parsed, After(p, i - 1, st)
  PROVE  After(p, i, Parsing!ParseFlowset(st, p, i))
<1> DEFINE s == p.sets[i]
           key == Parsing!Slot(p, i)
           new == Parsing!ParseFlowset(st, p, i)
           told == s.kind = "template" /\ s.whole /\ Parsing!Opened(p, i)
           Flows(n) == UNION {Parsing!DueOf(p, j) : j \in 1 .. n}
<1>1. Parsing!Opened(p, i) <=> Parsing!Opened(p, i - 1) /\ s.kind # "malformed"  BY SentMore
<1>2. st.open <=> Parsing!Opened(p, i - 1)  BY DEF After
<1>3. DOMAIN st.cache = Parsing!Told(p, i - 1)  BY DEF After
<1>4. \A k \in DOMAIN st.cache : st.cache[k] = Parsing!ToldBy(p, i - 1, k)  BY DEF After
<1>5. Flows(i) = Flows(i - 1) \cup Parsing!DueOf(p, i)
  <2>1. 1 .. i = 1 .. (i - 1) \cup {i}  BY PacketFacts
  <2> QED  BY <2>1
<1>6. st.flows = Flows(i - 1)  BY DEF After
<1>7. new.open <=> Parsing!Opened(p, i)  BY <1>1, <1>2 DEF Parsed, Parsing!ParseFlowset
<1>8. CASE ~told
  <2>1. \A k : Parsing!ToldBy(p, i, k) = Parsing!ToldBy(p, i - 1, k)  BY <1>8, SentMore DEF Parsing!ToldBy
  <2>2. Parsing!Told(p, i) = Parsing!Told(p, i - 1)  BY <1>8, SentMore
  <2>3. new.cache = st.cache
    BY <1>1, <1>2, <1>8 DEF Parsed, Parsing!ParseFlowset, Parsing!PutTemplate
  <2>4. new.flows = st.flows \cup Parsing!DueOf(p, i)
    <3>1. CASE s.kind = "data" /\ Parsing!Opened(p, i)
      <4>1. new.flows = st.flows \cup Parsing!DecodeData(st.cache, p, i)
        BY <1>1, <1>2, <3>1 DEF Parsed, Parsing!ParseFlowset
      <4>2. Parsing!DecodeData(st.cache, p, i) = Parsing!DueOf(p, i)
        BY <1>3, <1>4, <2>1, <2>2, <3>1 DEF Parsing!DecodeData, Parsing!DueOf
      <4> QED  BY <4>1, <4>2
    <3>2. CASE ~(s.kind = "data" /\ Parsing!Opened(p, i))
      <4>1. new.flows = st.flows  BY <1>1, <1>2, <3>2 DEF Parsed, Parsing!ParseFlowset
      <4>2. Parsing!DueOf(p, i) = {}  BY <3>2 DEF Parsing!DueOf
      <4> QED  BY <4>1, <4>2
    <3> QED  BY <3>1, <3>2
  <2> HIDE DEF new, Flows
  <2>5. new.flows = Flows(i)  BY <1>5, <1>6, <2>4
  <2>6. After(p, i, new)  BY <1>3, <1>4, <1>7, <2>1, <2>2, <2>3, <2>5 DEF After, Flows
  <2> QED  BY <2>6 DEF new
<1>9. CASE told
  <2>1. new = [st EXCEPT !.cache = Parsing!PutTemplate(st.cache, p, s)]
    BY <1>1, <1>2, <1>9 DEF Parsing!ParseFlowset
  <2>2. Parsing!PutTemplate(st.cache, p, s)
          = [k \in DOMAIN st.cache \cup {key} |-> IF k = key THEN s.layout ELSE st.cache[k]]
    BY <1>9 DEF Parsing!PutTemplate, Parsing!Slot
  <2>3. new.cache = Parsing!PutTemplate(st.cache, p, s) /\ new.flows = st.flows  BY <2>1 DEF Parsed
  <2>4. Parsing!ToldBy(p, i, key) = s.layout  BY <1>9, SentMore DEF Parsing!ToldBy
  <2>5. \A k : k # key => Parsing!ToldBy(p, i, k) = Parsing!ToldBy(p, i - 1, k)
    BY <1>9, SentMore DEF Parsing!ToldBy
  <2>6. Parsing!Told(p, i) = Parsing!Told(p, i - 1) \cup {key}  BY <1>9, SentMore
  <2>7. Parsing!DueOf(p, i) = {}  BY <1>9 DEF Parsing!DueOf
  <2>8. DOMAIN new.cache = DOMAIN st.cache \cup {key}  BY <2>2, <2>3
  <2>9. \A k \in DOMAIN new.cache : new.cache[k] = IF k = key THEN s.layout ELSE st.cache[k]
    BY <2>2, <2>3
  <2> HIDE DEF new, key, Flows
  <2>10. new.flows = Flows(i)  BY <1>5, <1>6, <2>3, <2>7
  <2>11. \A k \in DOMAIN new.cache : new.cache[k] = Parsing!ToldBy(p, i, k)  BY <1>4, <2>4, <2>5, <2>8, <2>9
  <2>12. After(p, i, new)  BY <1>3, <1>7, <2>6, <2>8, <2>10, <2>11 DEF After, Flows
  <2> QED  BY <2>12 DEF new
<1> QED  BY <1>8, <1>9

LEMMA FlowsetsTell ==
  ASSUME NEW p \in Export, announced \in Caches
  PROVE  After(p, Len(p.sets), Parsing!ParseFlowsets(announced, p)) /\ Parsing!ParseFlowsets(announced, p) \in Parsed
<1> DEFINE n == Len(p.sets)
<1>1. PICK g \in [0 .. n -> Parsed] :
        /\ g[0] = [cache |-> announced, flows |-> {}, open |-> TRUE]
        /\ \A i \in 1 .. n : g[i] = Parsing!ParseFlowset(g[i - 1], p, i)
        /\ Parsing!ParseFlowsets(announced, p) = g[n]
  BY FlowsetsRead
<1>2. n \in Nat  BY PacketFacts
<1> DEFINE P == {i \in 0 .. n : After(p, i, g[i])}
<1>3. 0 \in P
  <2>1. 1 .. 0 = {} /\ 0 \in 0 .. n  BY <1>2
  <2>2. Parsing!Opened(p, 0)  BY <2>1 DEF Parsing!Opened
  <2>3. Parsing!Whole(p, 0) = {}  BY <2>1 DEF Parsing!Whole
  <2>4. \A k : Parsing!ToldBy(p, 0, k) = announced[k]  BY <2>3 DEF Parsing!SentBy, Parsing!ToldBy
  <2>5. Parsing!Told(p, 0) = DOMAIN announced  BY <2>3 DEF Parsing!Told
  <2>6. UNION {Parsing!DueOf(p, j) : j \in 1 .. 0} = {}  BY <2>1
  <2>7. g[0].open = TRUE /\ g[0].cache = announced /\ g[0].flows = {}  BY <1>1
  <2> QED  BY <2>1, <2>2, <2>4, <2>5, <2>6, <2>7 DEF After
<1>4. \A i \in 1 .. n : i - 1 \in P => i \in P
  <2> SUFFICES ASSUME NEW i \in 1 .. n, i - 1 \in P  PROVE i \in P  OBVIOUS
  <2>1. i - 1 \in 0 .. n /\ i \in 0 .. n  BY <1>2
  <2>2. g[i - 1] \in Parsed /\ After(p, i - 1, g[i - 1])  BY <1>1, <2>1
  <2>3. After(p, i, Parsing!ParseFlowset(g[i - 1], p, i))  BY <2>2, FlowsetTells
  <2> QED  BY <1>1, <2>1, <2>3
<1>5. P = 0 .. n
  <2> HIDE DEF P
  <2>1. P \subseteq 0 .. n  BY DEF P
  <2> QED  BY <1>2, <1>3, <1>4, <2>1, Repeated
<1>6. n \in 0 .. n  BY <1>2
<1> QED  BY <1>1, <1>5, <1>6

LEMMA PacketTells ==
  ASSUME TemplatesIInv, NEW p \in Export, Parsing!ReceivePacket(p)
  PROVE  TemplatesIInv'
<1> DEFINE read == Parsing!ParseFlowsets(templates, p)
           n == Len(p.sets)
<1>1. After(p, n, read) /\ read \in Parsed  BY FlowsetsTell DEF TemplatesIInv
<1>2. read.cache \in Caches  BY <1>1 DEF Parsed
<1>3. /\ templates' = read.cache /\ decoded' = read.flows
      /\ announced' = [k \in Parsing!Told(p, n) |-> Parsing!ToldBy(p, n, k)]
      /\ due' = UNION {Parsing!DueOf(p, i) : i \in 1 .. n}
  BY DEF Parsing!ReceivePacket
<1>4. read.cache \in [DOMAIN read.cache -> Layouts]  BY <1>2, CacheFacts
<1> HIDE DEF read
<1>5. announced' = templates'  BY <1>1, <1>3, <1>4 DEF After
<1>6. decoded' = due'  BY <1>1, <1>3 DEF After
<1> QED  BY <1>2, <1>3, <1>5, <1>6 DEF TemplatesIInv

LEMMA EmptyCache == [k \in {} |-> {}] \in Caches
<1>1. [k \in {} |-> {}] \in [{} -> Layouts] /\ {} \in SUBSET Slots  OBVIOUS
<1> QED  BY <1>1 DEF Caches

LEMMA StepTemplates == TemplatesIInv /\ [Next]_vars => TemplatesIInv'
<1> SUFFICES ASSUME TemplatesIInv, [Next]_vars  PROVE TemplatesIInv'  OBVIOUS
<1>1. CASE \E p \in Export : Parsing!ReceivePacket(p)  BY <1>1, PacketTells
<1>2. CASE UNCHANGED <<templates, decoded, announced, due>>  BY <1>2 DEF TemplatesIInv
<1>3. CASE Parsing!Restart  BY <1>3, EmptyCache DEF Parsing!Restart, TemplatesIInv
<1> QED
  BY <1>1, <1>2, <1>3 DEF Next, vars, parsing, review, lists, Rest, Store, StoreFeedback, StoreFlow, StoreIncident,
     AddRun, AddDigestRow, StoreEvent, RunRetention, Browse, Parsing!ProcessLine

LEMMA InitTemplates == Init => TemplatesIInv
BY EmptyCache DEF Init, Parsing!Init, TemplatesIInv

\* Whatever packets of whatever sources come, with templates cut short or sent again, with
\* flowsets malformed and the listener restarted: every record is decoded with the layout
\* its own source told last before it under its id, and with no other (TemplateCache,
\* parse_flowsets).
THEOREM TemplatesAreOwn == Spec => []OwnTemplate
<1>1. TemplatesIInv => OwnTemplate  BY DEF TemplatesIInv, OwnTemplate, Parsing!OwnTemplate
<1>2. TemplatesIInv /\ [Next]_vars => TemplatesIInv'  BY StepTemplates
<1> QED  BY InitTemplates, <1>1, <1>2, PTL DEF Spec

-----------------------------------------------------------------------------
(* Path analysis.  Which packets the verdict and the hops rest on, by      *)
(* their positions in the capture.                                         *)

PathsIInv == packets \in Seq(Packet) /\ results = Paths!Results(packets, flows)

\* The sort of the packets by their times has a first one.
LEMMA FirstOfSome ==
  ASSUME NEW s \in Seq(Packet), NEW I \in SUBSET (1 .. Len(s)), I # {}
  PROVE  \E i \in I : \A j \in I : ~Paths!Before(s, j, i)
<1> DEFINE n == Len(s)
<1> DEFINE Least(k) == \E i \in I : i <= k /\ \A j \in I : j <= k => ~Paths!Before(s, j, i)
<1> DEFINE P == {k \in 0 .. n : (\E i \in I : i <= k) => Least(k)}
<1>1. n \in Nat /\ I \subseteq 1 .. n  OBVIOUS
<1>2. \A i \in 1 .. n : s[i].ts \in Int
  <2>1. \A i \in 1 .. n : s[i] \in Packet  OBVIOUS
  <2> QED  BY <2>1, PacketAssumption
<1>3. 0 \in P  BY <1>1
<1>4. \A k \in 1 .. n : k - 1 \in P => k \in P
  <2> SUFFICES ASSUME NEW k \in 1 .. n, k - 1 \in P  PROVE k \in P  OBVIOUS
  <2>1. k \in Int /\ k \in 0 .. n /\ \A i \in I : i \in Int /\ (i <= k <=> i <= k - 1 \/ i = k)  BY <1>1
  <2> SUFFICES ASSUME \E i \in I : i <= k  PROVE Least(k)  BY <2>1
  <2>2. CASE ~\E i \in I : i <= k - 1
    <3>1. k \in I /\ \A i \in I : i <= k => i = k  BY <2>1, <2>2
    <3>2. ~Paths!Before(s, k, k)  BY <1>2, <2>1 DEF Paths!Before
    <3> QED  BY <2>1, <3>1, <3>2
  <2>3. CASE \E i \in I : i <= k - 1
    <3>1. PICK i \in I : i <= k - 1 /\ \A j \in I : j <= k - 1 => ~Paths!Before(s, j, i)  BY <2>3
    <3>2. CASE k \in I /\ Paths!Before(s, k, i)
      <4>1. \A j \in I : j <= k => ~Paths!Before(s, j, k)
        <5> TAKE j \in I
        <5>1. ~Paths!Before(s, k, k)  BY <1>2, <2>1 DEF Paths!Before
        <5>2. j <= k - 1 => ~Paths!Before(s, j, i)  BY <3>1
        <5>3. j <= k - 1 => ~Paths!Before(s, j, k)
          <6>1. i \in Int /\ j \in Int /\ k \in Int  BY <2>1, <3>1
          <6>2. s[i].ts \in Int /\ s[j].ts \in Int /\ s[k].ts \in Int  BY <1>1, <1>2, <3>1
          <6>3. Paths!Before(s, j, k) => Paths!Before(s, j, i)  BY <3>2, <6>1, <6>2 DEF Paths!Before
          <6> QED  BY <5>2, <6>3
        <5> QED  BY <2>1, <5>1, <5>3
      <4> QED  BY <2>1, <3>2, <4>1
    <3>3. CASE ~(k \in I /\ Paths!Before(s, k, i))
      <4>1. i <= k /\ \A j \in I : j <= k => ~Paths!Before(s, j, i)  BY <2>1, <3>1, <3>3
      <4> QED  BY <4>1
    <3> QED  BY <3>2, <3>3
  <2> QED  BY <2>2, <2>3
<1>5. P = 0 .. n
  <2> HIDE DEF P
  <2>1. P \subseteq 0 .. n  BY DEF P
  <2> QED  BY <1>1, <1>3, <1>4, <2>1, Repeated
<1>6. n \in P /\ \A i \in I : i \in 1 .. n /\ i <= n
  <2> HIDE DEF P
  <2> QED  BY <1>1, <1>5
<1>7. Least(n)  BY <1>6
<1> QED  BY <1>6, <1>7

LEMMA EarliestIn ==
  ASSUME NEW s \in Seq(Packet), NEW I \in SUBSET (1 .. Len(s)), I # {}
  PROVE  Paths!Earliest(s, I) \in I /\ s[Paths!Earliest(s, I)] # None
<1>1. Paths!Earliest(s, I) \in I  BY FirstOfSome DEF Paths!Earliest
<1>2. \A i \in 1 .. Len(s) : s[i] \in Packet  OBVIOUS
<1> QED  BY <1>1, <1>2, PacketAssumption

PairAt(ps, q) == {i \in DOMAIN ps : Paths!OfPair(ps[i], q)}
SynAt(ps, q) ==
  {i \in PairAt(ps, q) : /\ ps[i].src = q.src /\ ps[i].dst = q.dst
                         /\ Paths!Syn(ps[i]) /\ ~Paths!Ack(ps[i])
                         /\ q.port # None => ps[i].dport = q.port}
SynAckAt(ps, q) ==
  {i \in PairAt(ps, q) : /\ ps[i].src = q.dst /\ ps[i].dst = q.src
                         /\ Paths!Syn(ps[i]) /\ Paths!Ack(ps[i])
                         /\ q.port # None => ps[i].sport = q.port}
DataAt(ps, q) == {i \in PairAt(ps, q) : ps[i].data \/ (ps[i].flags = {} /\ ps[i].long)}
StateOf(ps, q) ==
  IF SynAt(ps, q) = {} THEN "no_attempt"
  ELSE IF SynAckAt(ps, q) = {} THEN "no_response"
  ELSE IF DataAt(ps, q) = {} THEN "established_no_data" ELSE "data_observed"

LEMMA RelevantFacts ==
  ASSUME NEW ps \in Seq(Packet), NEW q
  PROVE  /\ DOMAIN Paths!Relevant(ps, q) = PairAt(ps, q) /\ PairAt(ps, q) \subseteq 1 .. Len(ps)
         /\ \A i \in PairAt(ps, q) : Paths!Relevant(ps, q)[i] = ps[i]
BY DEF Paths!Relevant, Paths!Restrict, PairAt

\* The first of the packets of a pair that have a property is one of them.
LEMMA EarliestOfPair ==
  ASSUME NEW ps \in Seq(Packet), NEW q, NEW I \in SUBSET PairAt(ps, q), I # {}
  PROVE  Paths!Relevant(ps, q)[Paths!Earliest(Paths!Relevant(ps, q), I)] # None
<1> DEFINE s == Paths!Relevant(ps, q)
<1>1. I \subseteq 1 .. Len(ps) /\ \A i \in I : s[i] = ps[i]  BY RelevantFacts
<1>2. \A i, j \in I : Paths!Before(s, j, i) <=> Paths!Before(ps, j, i)
  <2> HIDE DEF s
  <2> QED  BY <1>1 DEF Paths!Before
<1>3. \E i \in I : \A j \in I : ~Paths!Before(ps, j, i)  BY <1>1, FirstOfSome
<1>4. Paths!Earliest(s, I) \in I
  <2> HIDE DEF s
  <2> QED  BY <1>2, <1>3 DEF Paths!Earliest
<1>5. \A i \in 1 .. Len(ps) : ps[i] \in Packet  OBVIOUS
<1> QED  BY <1>1, <1>4, <1>5, PacketAssumption

LEMMA StateFound ==
  ASSUME NEW ps \in Seq(Packet), NEW fs, NEW q
  PROVE  Paths!Analyze(ps, fs, q).state = StateOf(ps, q)
<1> DEFINE s == Paths!Relevant(ps, q)
<1>1. DOMAIN s = PairAt(ps, q) /\ \A i \in PairAt(ps, q) : s[i] = ps[i]  BY RelevantFacts
<1>2. Paths!FindSyn(s, q) = None <=> SynAt(ps, q) = {}
  <2> HIDE DEF s
  <2>1. Paths!FindSyn(s, q)
          = IF SynAt(ps, q) = {} THEN None ELSE s[Paths!Earliest(s, SynAt(ps, q))]
    <3>1. SynAt(ps, q) = {i \in DOMAIN s : /\ s[i].src = q.src /\ s[i].dst = q.dst
                                           /\ Paths!Syn(s[i]) /\ ~Paths!Ack(s[i])
                                           /\ q.port # None => s[i].dport = q.port}
      BY <1>1 DEF SynAt
    <3> QED  BY <3>1 DEF Paths!FindSyn, Paths!First
  <2>2. SynAt(ps, q) \subseteq PairAt(ps, q)  BY DEF SynAt
  <2> QED  BY <2>1, <2>2, EarliestOfPair DEF s
<1>3. Paths!FindSynAck(s, q) = None <=> SynAckAt(ps, q) = {}
  <2> HIDE DEF s
  <2>1. Paths!FindSynAck(s, q)
          = IF SynAckAt(ps, q) = {} THEN None ELSE s[Paths!Earliest(s, SynAckAt(ps, q))]
    <3>1. SynAckAt(ps, q) = {i \in DOMAIN s : /\ s[i].src = q.dst /\ s[i].dst = q.src
                                              /\ Paths!Syn(s[i]) /\ Paths!Ack(s[i])
                                              /\ q.port # None => s[i].sport = q.port}
      BY <1>1 DEF SynAckAt
    <3> QED  BY <3>1 DEF Paths!FindSynAck, Paths!First
  <2>2. SynAckAt(ps, q) \subseteq PairAt(ps, q)  BY DEF SynAckAt
  <2> QED  BY <2>1, <2>2, EarliestOfPair DEF s
<1>4. Paths!FindData(s) = DataAt(ps, q)
  <2> HIDE DEF s
  <2> QED  BY <1>1 DEF Paths!FindData, DataAt
<1>5. Paths!Analyze(ps, fs, q).state
        = Paths!ClassifyState(Paths!FindSyn(s, q), Paths!FindSynAck(s, q), Paths!FindData(s))
  BY DEF Paths!Analyze
<1> HIDE DEF s
<1> QED  BY <1>2, <1>3, <1>4, <1>5 DEF Paths!ClassifyState, StateOf

LEMMA Ranks ==
  /\ Paths!Rank("no_attempt") = 1 /\ Paths!Rank("no_response") = 2
  /\ Paths!Rank("established_no_data") = 3 /\ Paths!Rank("data_observed") = 4
<1>1. /\ DOMAIN Paths!Progress = 1 .. 4
      /\ Paths!Progress[1] = "no_attempt" /\ Paths!Progress[2] = "no_response"
      /\ Paths!Progress[3] = "established_no_data" /\ Paths!Progress[4] = "data_observed"
  BY DEF Paths!Progress
<1> QED  BY <1>1 DEF Paths!Rank

LEMMA StateGrows ==
  ASSUME NEW ps \in Seq(Packet), NEW more \in Seq(Packet), NEW q,
         \A i \in DOMAIN ps : i \in DOMAIN more /\ more[i] = ps[i]
  PROVE  Paths!Rank(StateOf(ps, q)) <= Paths!Rank(StateOf(more, q))
<1>1. PairAt(ps, q) \subseteq PairAt(more, q)  BY DEF PairAt
<1>2. \A i \in PairAt(ps, q) : more[i] = ps[i]  BY DEF PairAt
<1>3. SynAt(ps, q) \subseteq SynAt(more, q)  BY <1>1, <1>2 DEF SynAt
<1>4. SynAckAt(ps, q) \subseteq SynAckAt(more, q)  BY <1>1, <1>2 DEF SynAckAt
<1>5. DataAt(ps, q) \subseteq DataAt(more, q)  BY <1>1, <1>2 DEF DataAt
<1> QED  BY <1>3, <1>4, <1>5, Ranks DEF StateOf

LEMMA InitPaths == Init => PathsIInv
BY DEF Init, Paths!Init, PathsIInv

LEMMA StepPaths ==
  ASSUME PathsIInv, [Next]_vars
  PROVE  PathsIInv' /\ \A i \in DOMAIN packets : i \in DOMAIN packets' /\ packets'[i] = packets[i]
<1>1. CASE \E p \in Packet : Paths!CapturePacket(p)
  <2>1. PICK p \in Packet : Paths!CapturePacket(p)  BY <1>1
  <2>2. packets' = Append(packets, p) /\ results' = Paths!Results(packets', flows) /\ flows' = flows
    BY <2>1 DEF Paths!CapturePacket
  <2> QED  BY <2>2 DEF PathsIInv
<1>2. CASE \E f \in Flow : Paths!CaptureFlow(f)
  BY <1>2 DEF Paths!CaptureFlow, PathsIInv
<1>3. CASE UNCHANGED review  BY <1>3 DEF PathsIInv, review
<1> QED
  BY <1>1, <1>2, <1>3 DEF Next, vars, lists, Rest, Store, StoreFeedback, StoreFlow, StoreIncident,
     AddRun, AddDigestRow, StoreEvent, RunRetention, Browse, Paths!Next

LEMMA PathsHeld == Spec => []PathsIInv
<1>1. PathsIInv /\ [Next]_vars => PathsIInv'  BY StepPaths
<1> QED  BY InitPaths, <1>1, PTL DEF Spec

LEMMA ResultOf ==
  ASSUME PathsIInv, NEW q \in Query
  PROVE  results[q] = Paths!Analyze(packets, flows, q) /\ results[q].state = StateOf(packets, q)
BY StateFound DEF PathsIInv, Paths!Results

\* However many packets a capture holds and in whatever order of time they came: one more
\* packet or flow never makes the connection look less complete (CausalPathEngine.analyze).
THEOREM VerdictsGrow == Spec => VerdictGrows
<1> DEFINE A == \A q \in Query : Paths!Rank(results[q].state) <= Paths!Rank(results'[q].state)
<1>1. PathsIInv /\ [Next]_vars => A
  <2> SUFFICES ASSUME PathsIInv, [Next]_vars, NEW q \in Query
               PROVE  Paths!Rank(results[q].state) <= Paths!Rank(results'[q].state)
    OBVIOUS
  <2>1. PathsIInv' /\ \A i \in DOMAIN packets : i \in DOMAIN packets' /\ packets'[i] = packets[i]
    BY StepPaths
  <2>2. results[q].state = StateOf(packets, q)  BY ResultOf
  <2>3. results'[q].state = StateOf(packets', q)  BY <2>1, StateFound DEF PathsIInv, Paths!Results
  <2>4. Paths!Rank(StateOf(packets, q)) <= Paths!Rank(StateOf(packets', q))
    BY <2>1, StateGrows DEF PathsIInv
  <2> QED  BY <2>2, <2>3, <2>4
<1>2. [Next]_vars /\ PathsIInv => [A]_<<packets, flows, results>>  BY <1>1
<1> HIDE DEF A
<1>3. Spec => [][A]_<<packets, flows, results>>  BY <1>2, PathsHeld, PTL DEF Spec
<1> QED  BY <1>3 DEF A, VerdictGrows, Paths!VerdictGrows, Paths!vars

\* Every impairment has evidence, of its own kind only.
LEMMA EvidenceOfItsKind ==
  ASSUME NEW s, NEW q, NEW state, NEW t, NEW l, NEW i \in Paths!Impairments(state, t, l)
  PROVE  LET E == Paths!EvidenceFor(i, s, q, state, t, l) IN E # {} /\ \A e \in E : e.type = i
<1> DEFINE E == Paths!EvidenceFor(i, s, q, state, t, l)
<1>1. \A k, x, p : Paths!Item(k, x, p).type = k  BY DEF Paths!Item
<1>2. i \in {"connection_establishment_failure", "no_server_response", "firewall_interference",
             "return_path_problem", "lb_backend_issue", "backend_response_delay"}
  BY DEF Paths!Impairments, Paths!ImpairmentPriority, Range, Paths!Range
<1>3. CASE i = "connection_establishment_failure"
  <2>1. E = Paths!HandshakeEvidence(s, q)  BY <1>3 DEF Paths!EvidenceFor
  <2> QED  BY <1>1, <1>3, <2>1 DEF Paths!HandshakeEvidence
<1>4. CASE i = "no_server_response"
  <2>1. E = Paths!SilenceEvidence(s, q, state, l)  BY <1>4 DEF Paths!EvidenceFor
  <2>2. state = "established_no_data" \/ Paths!BackendSilent(l)  BY <1>4 DEF Paths!Impairments
  <2> QED  BY <1>1, <1>4, <2>1, <2>2 DEF Paths!SilenceEvidence
<1>5. CASE i = "backend_response_delay"
  <2>1. E = Paths!DelayEvidence(s, q, t, l)  BY <1>5 DEF Paths!EvidenceFor
  <2>2. Paths!Slow(t.response) \/ Paths!BackendSlow(l)  BY <1>5 DEF Paths!Impairments
  <2>3. CASE Paths!Slow(t.response)
    <3>1. PICK x, p : E = {Paths!Item("backend_response_delay", x, p)}  BY <2>1, <2>3 DEF Paths!DelayEvidence
    <3> QED  BY <1>1, <1>5, <3>1
  <2>4. CASE ~Paths!Slow(t.response)
    <3>1. E = {Paths!Item("backend_response_delay", "medium", {})}
      BY <2>1, <2>2, <2>4 DEF Paths!DelayEvidence
    <3> QED  BY <1>1, <1>5, <3>1
  <2> QED  BY <2>3, <2>4
<1>6. CASE i = "firewall_interference"
  <2>1. E = Paths!ResetEvidence(s, q)  BY <1>6 DEF Paths!EvidenceFor
  <2>2. PICK x, p : E = {Paths!Item("firewall_interference", x, p)}
    BY <2>1, Zenon DEF Paths!ResetEvidence
  <2> QED  BY <1>1, <1>6, <2>2
<1>7. CASE i \in {"lb_backend_issue", "return_path_problem"}
  <2>1. E = {Paths!Item(i, "medium", {})}  BY <1>7 DEF Paths!EvidenceFor
  <2> QED  BY <1>1, <2>1
<1> QED  BY <1>2, <1>3, <1>4, <1>5, <1>6, <1>7

LEMMA TypesAreImpairments ==
  ASSUME NEW ps, NEW fs, NEW q
  PROVE  LET r == Paths!Analyze(ps, fs, q) IN {e.type : e \in r.evidence} = r.impairments
<1> DEFINE r == Paths!Analyze(ps, fs, q)
           s == Paths!Relevant(ps, q)
           state == Paths!ClassifyState(Paths!FindSyn(s, q), Paths!FindSynAck(s, q), Paths!FindData(s))
           t == Paths!Timing(s)
           lb == Paths!LbVisibility(fs, q)
           bq == Paths!BackendQuality(fs, q, lb)
           l == [lb |-> lb, bq |-> bq, rp |-> Paths!ReturnPath(fs, q, bq), fw |-> Paths!FirewallSigns(s, q)]
<1>1. r.impairments = Paths!Impairments(state, t, l)  BY DEF Paths!Analyze
<1>2. r.evidence = UNION {Paths!EvidenceFor(i, s, q, state, t, l) : i \in Paths!Impairments(state, t, l)}
  BY DEF Paths!Analyze
<1> HIDE DEF r, s, state, t, lb, bq, l
<1>3. \A i \in r.impairments : LET E == Paths!EvidenceFor(i, s, q, state, t, l) IN E # {} /\ \A e \in E : e.type = i
  BY <1>1, EvidenceOfItsKind
<1>4. {e.type : e \in r.evidence} = r.impairments  BY <1>1, <1>2, <1>3
<1> QED  BY <1>4 DEF r

LEMMA ComparedAlike ==
  ASSUME NEW b, NEW i, {e.type : e \in b.evidence} = b.impairments, {e.type : e \in i.evidence} = i.impairments
  PROVE  LET d == Paths!Compare(b, i) IN d.new = d.incidentOnly /\ d.resolved = d.baselineOnly
BY DEF Paths!Compare

\* For captures of any length, with any flows and roles: comparing two of them by their
\* impairments and by their evidence is the same, since every impairment has evidence and
\* no evidence is without its impairment (analyze, compare_causal_results).
THEOREM DiffsAlwaysAgree == Spec => DiffsAgree
<1> DEFINE A == results' # results => \A q \in Query :
                  LET d == Paths!Compare(results[q], results'[q]) IN
                  d.new = d.incidentOnly /\ d.resolved = d.baselineOnly
<1>1. PathsIInv /\ [Next]_vars => A
  <2> SUFFICES ASSUME PathsIInv, [Next]_vars, NEW q \in Query
               PROVE  LET d == Paths!Compare(results[q], results'[q]) IN
                      d.new = d.incidentOnly /\ d.resolved = d.baselineOnly
    OBVIOUS
  <2>1. results[q] = Paths!Analyze(packets, flows, q)  BY ResultOf
  <2>2. results'[q] = Paths!Analyze(packets', flows', q)  BY StepPaths DEF PathsIInv, Paths!Results
  <2> QED  BY <2>1, <2>2, TypesAreImpairments, ComparedAlike
<1>2. [Next]_vars /\ PathsIInv => [A]_<<packets, flows, results>>  BY <1>1
<1> HIDE DEF A
<1>3. Spec => [][A]_<<packets, flows, results>>  BY <1>2, PathsHeld, PTL DEF Spec
<1> QED  BY <1>3 DEF A, DiffsAgree, Paths!DiffsAgree, Paths!vars

\* What the hops take for the SYN and the SYN-ACK of the pair.
HopSynAt(ps, q) == {i \in PairAt(ps, q) : ps[i].src = q.src /\ Paths!Syn(ps[i]) /\ ~Paths!Ack(ps[i])}
HopSynAckAt(ps, q) == {i \in PairAt(ps, q) : ps[i].src = q.dst /\ Paths!Syn(ps[i]) /\ Paths!Ack(ps[i])}
Fails(t) == Paths!Range(t) \cap Paths!Failed # {}
HopNames ==
  Paths!Failed \cup {"client_initiated", "firewall_pass_observed", "lb_frontend_connection_observed",
    "lb_backend_connection_missing", "connection_established", "backend_response_slow"}

LEMMA OneOrTwo ==
  ASSUME NEW S, NEW x \in S, NEW y \in S
  PROVE  /\ <<x>> \in Seq(S) /\ Len(<<x>>) = 1 /\ Paths!Range(<<x>>) = {x}
         /\ <<x, y>> \in Seq(S) /\ Paths!Range(<<x, y>>) = {x, y}
<1>1. DOMAIN <<x>> = {1} /\ DOMAIN <<x, y>> = {1, 2}  OBVIOUS
<1>2. <<x>> \in Seq(S) /\ <<x, y>> \in Seq(S) /\ Len(<<x>>) = 1  OBVIOUS
<1>3. <<x>>[1] = x /\ <<x, y>>[1] = x /\ <<x, y>>[2] = y  OBVIOUS
<1>4. \A f : Paths!Range(f) = {f[i] : i \in DOMAIN f}  BY DEF Paths!Range
<1>5. Paths!Range(<<x>>) = {<<x>>[1]}
  <2>1. \A f : DOMAIN f = {1} => Paths!Range(f) = {f[1]}  BY <1>4
  <2> QED  BY <1>1, <2>1
<1>6. Paths!Range(<<x, y>>) = {<<x, y>>[1], <<x, y>>[2]}
  <2>1. \A f : DOMAIN f = {1, 2} => Paths!Range(f) = {f[1], f[2]}  BY <1>4
  <2> QED  BY <1>1, <2>1
<1> QED  BY <1>2, <1>3, <1>5, <1>6

LEMMA Joined ==
  ASSUME NEW S, NEW a \in Seq(S), NEW b \in Seq(S)
  PROVE  /\ a \o b \in Seq(S) /\ Len(a \o b) = Len(a) + Len(b)
         /\ \A i \in 1 .. Len(a) : (a \o b)[i] = a[i]
         /\ \A i \in Len(a) + 1 .. Len(a) + Len(b) : (a \o b)[i] = b[i - Len(a)]
OBVIOUS

LEMMA RangeJoined ==
  ASSUME NEW S, NEW a \in Seq(S), NEW b \in Seq(S)
  PROVE  /\ a \o b \in Seq(S) /\ Paths!Range(a \o b) = Paths!Range(a) \cup Paths!Range(b)
         /\ Len(a) > 0 => a \o b # <<>>
<1> DEFINE c == a \o b
<1>1. /\ c \in Seq(S) /\ Len(c) = Len(a) + Len(b)
      /\ \A i \in 1 .. Len(a) : c[i] = a[i]
      /\ \A i \in Len(a) + 1 .. Len(a) + Len(b) : c[i] = b[i - Len(a)]
  BY Joined
<1>2. Len(a) \in Nat /\ Len(b) \in Nat /\ DOMAIN a = 1 .. Len(a) /\ DOMAIN b = 1 .. Len(b)  OBVIOUS
<1> HIDE DEF c
<1>3. DOMAIN c = 1 .. (Len(a) + Len(b))  BY <1>1
<1>4. \A i \in DOMAIN a : i \in DOMAIN c /\ c[i] = a[i]  BY <1>1, <1>2, <1>3
<1>5. \A i \in DOMAIN b : Len(a) + i \in DOMAIN c /\ c[Len(a) + i] = b[i]
  <2> TAKE i \in DOMAIN b
  <2>1. Len(a) + i \in Len(a) + 1 .. Len(a) + Len(b) /\ Len(a) + i - Len(a) = i  BY <1>2
  <2> QED  BY <1>1, <1>2, <1>3, <2>1
<1>6. \A i \in DOMAIN c : i \in DOMAIN a \/ (i - Len(a) \in DOMAIN b /\ c[i] = b[i - Len(a)])
  <2> TAKE i \in DOMAIN c
  <2>1. i \in 1 .. Len(a) \/ i \in Len(a) + 1 .. Len(a) + Len(b)  BY <1>2, <1>3
  <2>2. i \in Len(a) + 1 .. Len(a) + Len(b) => i - Len(a) \in DOMAIN b  BY <1>2
  <2> QED  BY <1>1, <1>2, <2>1, <2>2
<1>7. Paths!Range(c) = Paths!Range(a) \cup Paths!Range(b)
  <2>1. Paths!Range(a) \subseteq Paths!Range(c)  BY <1>4 DEF Paths!Range
  <2>2. Paths!Range(b) \subseteq Paths!Range(c)  BY <1>5 DEF Paths!Range
  <2>3. Paths!Range(c) \subseteq Paths!Range(a) \cup Paths!Range(b)  BY <1>4, <1>6 DEF Paths!Range
  <2> QED  BY <2>1, <2>2, <2>3
<1>8. Len(a) > 0 => c # <<>>  BY <1>1, <1>2
<1> QED  BY <1>1, <1>7, <1>8 DEF c

LEMMA FirewallFails ==
  ASSUME NEW q, NEW synack, NEW rst
  PROVE  /\ <<Paths!FirewallHop(q, synack, rst)>> \in Seq(HopNames)
         /\ Fails(<<Paths!FirewallHop(q, synack, rst)>>) <=> synack = None
<1> DEFINE h == Paths!FirewallHop(q, synack, rst)
<1>1. /\ h \in {"firewall_pass_observed", "firewall_reset_observed", "firewall_drop_suspected"}
      /\ synack # None <=> h = "firewall_pass_observed"
  BY DEF Paths!FirewallHop
<1> HIDE DEF h
<1>2. h \in HopNames  BY <1>1 DEF HopNames, Paths!Failed
<1>3. <<h>> \in Seq(HopNames) /\ Paths!Range(<<h>>) = {h}  BY <1>2, OneOrTwo
<1>4. Fails(<<h>>) <=> synack = None  BY <1>1, <1>3 DEF Fails, Paths!Failed
<1> QED  BY <1>3, <1>4 DEF h

LEMMA LbNeverFails ==
  ASSUME NEW ps, NEW q
  PROVE  Paths!LbHops(ps, q) \in Seq(HopNames) /\ ~Fails(Paths!LbHops(ps, q))
<1>1. PICK y \in {"lb_backend_connection_missing", "connection_established"} :
        Paths!LbHops(ps, q) = <<"lb_frontend_connection_observed", y>>
  BY DEF Paths!LbHops
<1>2. "lb_frontend_connection_observed" \in HopNames /\ y \in HopNames  BY DEF HopNames
<1>3. Paths!Range(Paths!LbHops(ps, q)) = {"lb_frontend_connection_observed", y}  BY <1>1, <1>2, OneOrTwo, ZenonT(60)
<1> QED  BY <1>1, <1>2, <1>3, OneOrTwo DEF Fails, Paths!Failed

LEMMA BackendNeverFails ==
  ASSUME NEW s, NEW q, NEW synack
  PROVE  Paths!BackendHops(s, q, synack) \in Seq(HopNames) /\ ~Fails(Paths!BackendHops(s, q, synack))
<1>1. PICK b \in {<<"backend_response_slow">>, <<>>} :
        Paths!BackendHops(s, q, synack) = <<"connection_established">> \o b
  BY DEF Paths!BackendHops
<1> DEFINE e == <<"connection_established">>
<1>0. "connection_established" \in HopNames /\ "backend_response_slow" \in HopNames  BY DEF HopNames
<1>2. b \in Seq(HopNames) /\ Paths!Range(b) \subseteq {"backend_response_slow"}
  <2>1. CASE b = <<>>  BY <2>1 DEF Paths!Range
  <2>2. CASE b = <<"backend_response_slow">>  BY <1>0, <2>2, OneOrTwo
  <2> QED  BY <1>1, <2>1, <2>2
<1>3. e \in Seq(HopNames) /\ Paths!Range(e) = {"connection_established"}  BY <1>0, OneOrTwo
<1>5. Paths!BackendHops(s, q, synack) = e \o b  BY <1>1
<1> HIDE DEF e
<1>4. Paths!BackendHops(s, q, synack) \in Seq(HopNames)
      /\ Paths!Range(Paths!BackendHops(s, q, synack)) \subseteq {"connection_established", "backend_response_slow"}
  BY <1>2, <1>3, <1>5, RangeJoined
<1> QED  BY <1>4 DEF Fails, Paths!Failed

LEMMA HopPackets ==
  ASSUME NEW ps \in Seq(Packet), NEW q
  PROVE  /\ Paths!ClientSyn(Paths!Relevant(ps, q), q) = None <=> HopSynAt(ps, q) = {}
         /\ Paths!ServerSynAck(Paths!Relevant(ps, q), q) = None <=> HopSynAckAt(ps, q) = {}
<1> DEFINE s == Paths!Relevant(ps, q)
<1>1. DOMAIN s = PairAt(ps, q) /\ \A i \in PairAt(ps, q) : s[i] = ps[i]  BY RelevantFacts
<1>2. Paths!ClientSyn(s, q) = None <=> HopSynAt(ps, q) = {}
  <2> HIDE DEF s
  <2>1. Paths!ClientSyn(s, q)
          = IF HopSynAt(ps, q) = {} THEN None ELSE s[Paths!Earliest(s, HopSynAt(ps, q))]
    <3>1. HopSynAt(ps, q) = {i \in DOMAIN s : Paths!Syn(s[i]) /\ ~Paths!Ack(s[i]) /\ s[i].src = q.src}
      BY <1>1 DEF HopSynAt
    <3> QED  BY <3>1 DEF Paths!ClientSyn, Paths!First
  <2>2. HopSynAt(ps, q) \subseteq PairAt(ps, q)  BY DEF HopSynAt
  <2> QED  BY <2>1, <2>2, EarliestOfPair DEF s
<1>3. Paths!ServerSynAck(s, q) = None <=> HopSynAckAt(ps, q) = {}
  <2> HIDE DEF s
  <2>1. Paths!ServerSynAck(s, q)
          = IF HopSynAckAt(ps, q) = {} THEN None ELSE s[Paths!Earliest(s, HopSynAckAt(ps, q))]
    <3>1. HopSynAckAt(ps, q) = {i \in DOMAIN s : Paths!Syn(s[i]) /\ Paths!Ack(s[i]) /\ s[i].src = q.dst}
      BY <1>1 DEF HopSynAckAt
    <3> QED  BY <3>1 DEF Paths!ServerSynAck, Paths!First
  <2>2. HopSynAckAt(ps, q) \subseteq PairAt(ps, q)  BY DEF HopSynAckAt
  <2> QED  BY <2>1, <2>2, EarliestOfPair DEF s
<1> QED  BY <1>2, <1>3

LEMMA HopsTell ==
  ASSUME NEW ps \in Seq(Packet), NEW q
  PROVE  /\ Paths!Hops(ps, q) = <<>> <=> HopSynAt(ps, q) = {}
         /\ Fails(Paths!Hops(ps, q)) <=> HopSynAt(ps, q) # {} /\ HopSynAckAt(ps, q) = {}
<1> DEFINE s == Paths!Relevant(ps, q)
           syn == Paths!ClientSyn(s, q)
           synack == Paths!ServerSynAck(s, q)
           role == Paths!RoleOf(q)
           hops == Paths!Hops(ps, q)
           e == <<"client_initiated">>
<1>1. syn = None <=> HopSynAt(ps, q) = {}  BY HopPackets
<1>2. synack = None <=> HopSynAckAt(ps, q) = {}  BY HopPackets
<1>3. role \in {"firewall", "load_balancer", "backend", "unknown"}  BY DEF Paths!RoleOf
<1>4. CASE syn = None
  <2>1. hops = <<>>  BY <1>4 DEF Paths!Hops
  <2>2. Paths!Range(<<>>) = {}  BY DEF Paths!Range
  <2> QED  BY <1>1, <1>4, <2>1, <2>2 DEF Fails
<1>5. CASE syn # None
  <2>0. {"client_initiated", "connection_failed", "connection_established"} \subseteq HopNames
    BY DEF HopNames, Paths!Failed
  <2>1. \E t \in Seq(HopNames) : hops = e \o t /\ (Fails(t) <=> synack = None)
    <3>1. CASE role = "firewall"
      <4>1. PICK rst : hops = e \o <<Paths!FirewallHop(q, synack, rst)>>
        BY <1>5, <3>1 DEF Paths!Hops
      <4> DEFINE t == <<Paths!FirewallHop(q, synack, rst)>>
      <4>2. t \in Seq(HopNames) /\ (Fails(t) <=> synack = None)  BY FirewallFails
      <4>3. hops = e \o t  BY <4>1
      <4> HIDE DEF t, e, hops, synack
      <4> QED  BY <4>2, <4>3
    <3>2. CASE role # "firewall" /\ synack = None
      <4>1. hops = e \o <<"connection_failed">>  BY <1>5, <3>2 DEF Paths!Hops
      <4>2. <<"connection_failed">> \in Seq(HopNames) /\ Paths!Range(<<"connection_failed">>) = {"connection_failed"}
        BY <2>0, OneOrTwo
      <4> QED  BY <3>2, <4>1, <4>2 DEF Fails, Paths!Failed
    <3>3. CASE role = "load_balancer" /\ synack # None
      <4>1. hops = e \o Paths!LbHops(ps, q)  BY <1>5, <3>3 DEF Paths!Hops
      <4> QED  BY <3>3, <4>1, LbNeverFails
    <3>4. CASE role = "backend" /\ synack # None
      <4>1. hops = e \o Paths!BackendHops(s, q, synack)  BY <1>5, <3>4 DEF Paths!Hops
      <4> QED  BY <3>4, <4>1, BackendNeverFails
    <3>5. CASE role = "unknown" /\ synack # None
      <4>1. hops = e \o <<"connection_established">>  BY <1>5, <3>5 DEF Paths!Hops
      <4>2. <<"connection_established">> \in Seq(HopNames)
            /\ Paths!Range(<<"connection_established">>) = {"connection_established"}
        BY <2>0, OneOrTwo
      <4> QED  BY <3>5, <4>1, <4>2 DEF Fails, Paths!Failed
    <3> QED  BY <1>3, <3>1, <3>2, <3>3, <3>4, <3>5
  <2>2. PICK t \in Seq(HopNames) : hops = e \o t /\ (Fails(t) <=> synack = None)  BY <2>1
  <2>3. e \in Seq(HopNames) /\ Len(e) = 1 /\ Paths!Range(e) = {"client_initiated"}  BY <2>0, OneOrTwo
  <2> HIDE DEF e, hops, syn, synack
  <2>4. hops # <<>> /\ Paths!Range(hops) = {"client_initiated"} \cup Paths!Range(t)
    <3>1. e \in Seq(HopNames) /\ t \in Seq(HopNames)  BY <2>2, <2>3
    <3>2. /\ Paths!Range(e \o t) = Paths!Range(e) \cup Paths!Range(t)
          /\ Len(e) > 0 => e \o t # <<>>
      BY <3>1, RangeJoined, SMTT(60)
    <3> QED  BY <2>2, <2>3, <3>2
  <2>5. Fails(hops) <=> Fails(t)  BY <2>4 DEF Fails, Paths!Failed
  <2>6. hops # <<>> /\ (Fails(hops) <=> synack = None)  BY <2>2, <2>4, <2>5
  <2> QED  BY <1>1, <1>2, <1>5, <2>6 DEF hops, syn, synack
<1> QED  BY <1>4, <1>5

\* The captures on which the two readings of the pair see the same SYN and SYN-ACK.
LEMMA SamePackets ==
  ASSUME PathsIInv, NEW q, Paths!PortIsServers(q)
  PROVE  HopSynAt(packets, q) = SynAt(packets, q) /\ HopSynAckAt(packets, q) = SynAckAt(packets, q)
<1>1. \A i \in PairAt(packets, q) :
        /\ packets[i].src = q.src => packets[i].dst = q.dst
        /\ packets[i].src = q.dst => packets[i].dst = q.src
  BY DEF PairAt, Paths!OfPair
<1>2. \A i \in PairAt(packets, q) :
        q.port # None => /\ packets[i].src = q.src => packets[i].dport = q.port
                         /\ packets[i].src = q.dst => packets[i].sport = q.port
  BY DEF PairAt, Paths!PortIsServers
<1> QED  BY <1>1, <1>2 DEF SynAt, SynAckAt, HopSynAt, HopSynAckAt

LEMMA PathsHopsAgree == PathsIInv => HopsAgree
<1> SUFFICES ASSUME PathsIInv, NEW q \in Query, Paths!PortIsServers(q)
             PROVE  /\ (Paths!Hops(packets, q) = <<>>) <=> (results[q].state = "no_attempt")
                    /\ (Paths!Range(Paths!Hops(packets, q)) \cap Paths!Failed # {}) <=> (results[q].state = "no_response")
  BY DEF HopsAgree, Paths!HopsAgree
<1>1. results[q].state = StateOf(packets, q)  BY ResultOf
<1>2. HopSynAt(packets, q) = SynAt(packets, q) /\ HopSynAckAt(packets, q) = SynAckAt(packets, q)
  BY SamePackets
<1>3. /\ Paths!Hops(packets, q) = <<>> <=> HopSynAt(packets, q) = {}
      /\ Fails(Paths!Hops(packets, q)) <=> HopSynAt(packets, q) # {} /\ HopSynAckAt(packets, q) = {}
  BY HopsTell DEF PathsIInv
<1> QED  BY <1>1, <1>2, <1>3 DEF StateOf, Fails

\* In captures of any length and for any roles of the hosts: where the port asked for is
\* used by the server only, the hops begin with an attempt exactly when the verdict has one,
\* and end in failure exactly when its handshake has no answer (build_hop_sequence).
THEOREM HopsAlwaysAgree == Spec => []HopsAgree
BY PathsHeld, PathsHopsAgree, PTL

-----------------------------------------------------------------------------
(* The event list.  The rank of a row is the number of rows before it.     *)

Ahead(T, r) == {s \in T : Newer("time", s, r)}
Position(T, r) == Cardinality(Ahead(T, r))
Foremost(T, k) == {r \in T : Position(T, r) < k}
\* Rows have times and one id each.
Rows(T) ==
  /\ IsFiniteSet(T)
  /\ \A r \in T : r.time \in Int /\ r.id \in Int
  /\ \A r, s \in T : r.id = s.id => r = s

LEMMA PositionType ==
  ASSUME NEW T, Rows(T), NEW r
  PROVE  IsFiniteSet(Ahead(T, r)) /\ Position(T, r) \in Nat
<1>1. Ahead(T, r) \in SUBSET T /\ IsFiniteSet(T)  BY DEF Ahead, Rows
<1>2. IsFiniteSet(Ahead(T, r))  BY <1>1, FS_Subset
<1> QED  BY <1>2, FS_CardinalityType DEF Position

\* The list is a line: a row before another has the smaller rank.
LEMMA OneBeforeOther ==
  ASSUME NEW T, Rows(T), NEW r \in T, NEW s \in T, r # s
  PROVE  /\ Newer("time", r, s) \/ Newer("time", s, r)
         /\ Newer("time", r, s) => Position(T, r) < Position(T, s)
<1>1. r.time \in Int /\ s.time \in Int /\ r.id \in Int /\ s.id \in Int /\ r.id # s.id  BY DEF Rows
<1>2. Newer("time", r, s) \/ Newer("time", s, r)  BY <1>1 DEF Newer
<1>3. ASSUME Newer("time", r, s)  PROVE Position(T, r) < Position(T, s)
  <2>1. \A x \in T : Newer("time", x, r) => Newer("time", x, s)
    <3> TAKE x \in T
    <3>1. x.time \in Int /\ x.id \in Int  BY DEF Rows
    <3> QED  BY <1>1, <1>3, <3>1 DEF Newer
  <2>2. r \in Ahead(T, s) /\ r \notin Ahead(T, r)  BY <1>1, <1>3 DEF Ahead, Newer
  <2>3. Ahead(T, r) \subseteq Ahead(T, s)  BY <2>1 DEF Ahead
  <2>4. IsFiniteSet(Ahead(T, s)) /\ Position(T, r) \in Nat /\ Position(T, s) \in Nat  BY PositionType
  <2>5. Position(T, r) <= Position(T, s) /\ (Position(T, r) = Position(T, s) => Ahead(T, r) = Ahead(T, s))
    BY <2>3, <2>4, FS_Subset DEF Position
  <2> QED  BY <2>2, <2>4, <2>5
<1> QED  BY <1>2, <1>3

LEMMA ForemostBounded ==
  ASSUME NEW T, Rows(T), NEW k \in Nat
  PROVE  IsFiniteSet(Foremost(T, k)) /\ Cardinality(Foremost(T, k)) \in Nat /\ Cardinality(Foremost(T, k)) <= k
<1> DEFINE f == [r \in Foremost(T, k) |-> Position(T, r)]
<1>1. IsFiniteSet(0 .. (k - 1)) /\ Cardinality(0 .. (k - 1)) = k
  <2>1. k - 1 \in Int /\ (IF 0 > k - 1 THEN 0 ELSE k - 1 - 0 + 1) = k  OBVIOUS
  <2> QED  BY <2>1, FS_Interval
<1>2. \A r \in Foremost(T, k) : r \in T /\ Position(T, r) \in 0 .. (k - 1)
  <2> TAKE r \in Foremost(T, k)
  <2>1. r \in T /\ Position(T, r) < k  BY DEF Foremost
  <2>2. Position(T, r) \in Nat  BY PositionType
  <2> QED  BY <2>1, <2>2
<1>3. \A r, s \in Foremost(T, k) : f[r] = f[s] => r = s
  <2> SUFFICES ASSUME NEW r \in Foremost(T, k), NEW s \in Foremost(T, k), f[r] = f[s], r # s  PROVE FALSE  OBVIOUS
  <2>1. Position(T, r) = Position(T, s) /\ Position(T, r) \in Int  BY <1>2
  <2>2. Position(T, r) < Position(T, s) \/ Position(T, s) < Position(T, r)  BY <1>2, OneBeforeOther
  <2> QED  BY <2>1, <2>2
<1>4. f \in Injection(Foremost(T, k), 0 .. (k - 1))
  <2>1. f \in [Foremost(T, k) -> 0 .. (k - 1)]  BY <1>2
  <2> HIDE DEF f
  <2> QED  BY <1>3, <2>1 DEF Injection, IsInjective
<1>5. IsFiniteSet(Foremost(T, k)) /\ Cardinality(Foremost(T, k)) <= Cardinality(0 .. (k - 1))
  BY <1>1, <1>4, FS_Injection
<1> QED  BY <1>1, <1>5, FS_CardinalityType

\* Whoever is beyond the first k rows has k rows before them.
LEMMA ForemostFull ==
  ASSUME NEW T, Rows(T), NEW k \in Nat, NEW r \in T, ~(Position(T, r) < k)
  PROVE  Cardinality(Foremost(T, k)) >= k
<1> DEFINE S == {Position(T, x) : x \in T \ Foremost(T, k)}
<1>1. S \in SUBSET Nat /\ S # {}
  <2>1. r \in T \ Foremost(T, k)  BY DEF Foremost
  <2> QED  BY <2>1, PositionType
<1>2. PICK n \in S : \A j \in S : n <= j
  <2> HIDE DEF S
  <2> QED  BY <1>1, LeastNumber
<1>3. PICK m \in T \ Foremost(T, k) : n = Position(T, m)  BY <1>2
<1>4. Position(T, m) \in Nat /\ ~(Position(T, m) < k)  BY <1>3, PositionType DEF Foremost
<1>5. Foremost(T, k) = Ahead(T, m)
  <2>1. ASSUME NEW x \in T, Newer("time", x, m)  PROVE x \in Foremost(T, k)
    <3>1. x # m  BY <1>3, <2>1 DEF Newer, Rows
    <3>2. Position(T, x) < Position(T, m) /\ Position(T, x) \in Nat  BY <1>3, <2>1, <3>1, OneBeforeOther, PositionType
    <3>3. x \notin Foremost(T, k) => Position(T, m) <= Position(T, x)  BY <1>2, <1>3
    <3> QED  BY <1>4, <3>2, <3>3
  <2>2. ASSUME NEW x \in Foremost(T, k)  PROVE x \in Ahead(T, m)
    <3>1. x \in T /\ Position(T, x) < k /\ Position(T, x) \in Nat /\ x # m
      BY <1>3, PositionType DEF Foremost
    <3>2. ~Newer("time", m, x)  BY <1>3, <1>4, <3>1, OneBeforeOther
    <3> QED  BY <1>3, <3>1, <3>2, OneBeforeOther DEF Ahead
  <2> QED  BY <2>1, <2>2 DEF Ahead, Foremost
<1> QED  BY <1>4, <1>5 DEF Position

\* A page before which somebody is left is full.
OnPage(T, from, r) == from <= Position(T, r) /\ Position(T, r) < from + PageSize

LEMMA PageFull ==
  ASSUME NEW T, Rows(T), NEW from \in Nat, NEW R, R = {r \in T : OnPage(T, from, r)}
  PROVE  /\ Cardinality(R) \in Nat
         /\ \A r \in T : ~(Position(T, r) < from + PageSize) => Cardinality(R) = PageSize
<1>1. PageSize \in Nat /\ from + PageSize \in Nat  BY PageAssumption
<1>2. \A r \in T : Position(T, r) \in Nat  BY PositionType
<1>3. R = Foremost(T, from + PageSize) \ Foremost(T, from)  BY <1>1, <1>2 DEF Foremost, OnPage
<1>4. Foremost(T, from + PageSize) \cap Foremost(T, from) = Foremost(T, from)  BY <1>1, <1>2 DEF Foremost
<1>5. /\ IsFiniteSet(R) /\ IsFiniteSet(Foremost(T, from + PageSize))
      /\ Cardinality(R) = Cardinality(Foremost(T, from + PageSize)) - Cardinality(Foremost(T, from))
  <2>1. IsFiniteSet(Foremost(T, from + PageSize))  BY <1>1, ForemostBounded
  <2> QED  BY <2>1, <1>3, <1>4, FS_Difference
<1>6. ASSUME NEW r \in T, ~(Position(T, r) < from + PageSize)  PROVE Cardinality(R) = PageSize
  <2>1. ~(Position(T, r) < from)  BY <1>1, <1>2, <1>6
  <2>2. Cardinality(Foremost(T, from)) >= from  BY <1>6, <2>1, ForemostFull
  <2>3. Cardinality(Foremost(T, from + PageSize)) >= from + PageSize  BY <1>1, <1>6, ForemostFull
  <2>4. Cardinality(Foremost(T, from)) \in Nat /\ Cardinality(Foremost(T, from)) <= from  BY ForemostBounded
  <2>5. /\ Cardinality(Foremost(T, from + PageSize)) \in Nat
        /\ Cardinality(Foremost(T, from + PageSize)) <= from + PageSize
    BY <1>1, ForemostBounded
  <2> QED  BY <1>1, <1>5, <2>2, <2>3, <2>4, <2>5
<1> QED  BY <1>5, <1>6, FS_CardinalityType

\* A list as the view holds it: whoever was there when it was set back and was not shown yet
\* is behind the rows shown, since rows come in before or after them and retention only
\* takes rows from the end; and while there is such a row, the list is not said to be whole.
Unseen(T, l) == (l.base \cap T) \ l.seen
Reads(T, l, n) ==
  /\ l.length \in Nat /\ l.total \in Nat
  /\ \A r \in l.base : r.id \in Int /\ r.id <= n
  /\ \A r \in Unseen(T, l) : l.length <= Position(T, r) /\ (~l.outgrown => l.length < l.total)

\* What a request knows: how many rows there are, and the list that its answer will give.
Fresh(l, q) == q.kind = "reset" \/ (~q.stale /\ ~l.torn)
Form(q) == q = [kind |-> q.kind, offset |-> q.offset, step |-> q.step, total |-> q.total,
                rows |-> q.rows, all |-> q.all, grown |-> q.grown, stale |-> q.stale]
Knows(T, l, q, n) ==
  /\ Form(q)
  /\ q.kind \in {"none", "reset", "more"} /\ q.step \in {"idle", "asked", "counted", "read"}
  /\ q.kind = "reset" => q.offset = 0
  /\ q.kind = "more" /\ ~q.stale => q.offset = l.length
  /\ q.step # "idle" => q.kind # "none"
  /\ q.grown \in BOOLEAN
  /\ q.step \in {"counted", "read"} => q.total \in Nat
  /\ q.step = "counted" /\ ~q.grown => Cardinality(T) <= q.total
  /\ q.step = "read" /\ Fresh(l, q) => Reads(T, Shown(l, q), n)

Slot == 1 .. MaxAsked
PagesRead(T, l, A, n) ==
  /\ n \in Nat /\ Rows(T)
  /\ \A r \in T : r.id <= n
  /\ ~l.torn => Reads(T, l, n)
  /\ A = [i \in Slot |-> A[i]]
  /\ \A i \in Slot : Knows(T, l, A[i], n)

PagesIInv == topic = "pages" => PagesRead(table, list, asked, stored)

LEMMA RowsBounded ==
  ASSUME NEW T, Rows(T), NEW r \in T
  PROVE  Cardinality(T) \in Nat /\ Position(T, r) < Cardinality(T)
<1>1. IsFiniteSet(T)  BY DEF Rows
<1>2. r \notin Ahead(T, r)  BY DEF Ahead, Newer, Rows
<1>3. Ahead(T, r) \subseteq T /\ Ahead(T, r) # T  BY <1>2 DEF Ahead
<1>4. Cardinality(T) \in Nat /\ Position(T, r) \in Nat  BY <1>1, FS_CardinalityType, PositionType
<1>5. Position(T, r) <= Cardinality(T) /\ (Position(T, r) = Cardinality(T) => Ahead(T, r) = T)
  BY <1>1, <1>3, FS_Subset DEF Position
<1> QED  BY <1>3, <1>4, <1>5

\* A page that is put at the end of the list it was asked for, or begins one anew.
LEMMA PagePut ==
  ASSUME NEW T, Rows(T), NEW l, NEW n, Reads(T, l, n),
         NEW R, R = {r \in T : OnPage(T, l.length, r)},
         NEW m, m.length = l.length + Cardinality(R), m.base = l.base, m.seen = l.seen \cup R,
         m.total \in Nat, ~m.outgrown => Cardinality(T) <= m.total
  PROVE  Reads(T, m, n)
<1>1. l.length \in Nat /\ PageSize \in Nat \ {0}  BY PageAssumption DEF Reads
<1>2. Cardinality(R) \in Nat  BY <1>1, PageFull
<1>3. m.length \in Nat  BY <1>1, <1>2
<1>4. ASSUME NEW r \in Unseen(T, m)
      PROVE  m.length <= Position(T, r) /\ (~m.outgrown => m.length < m.total)
  <2>1. r \in T /\ r \in Unseen(T, l) /\ r \notin R  BY <1>4 DEF Unseen
  <2>2. l.length <= Position(T, r)  BY <2>1 DEF Reads
  <2>3. Position(T, r) \in Nat  BY <2>1, PositionType
  <2>4. ~(Position(T, r) < l.length + PageSize)  BY <2>1, <2>2 DEF OnPage
  <2>5. Cardinality(R) = PageSize  BY <1>1, <2>1, <2>4, PageFull
  <2>6. m.length <= Position(T, r)  BY <1>1, <2>3, <2>4, <2>5
  <2>7. Cardinality(T) \in Nat /\ Position(T, r) < Cardinality(T)  BY <2>1, RowsBounded
  <2> QED  BY <1>3, <2>3, <2>6, <2>7
<1> QED  BY <1>3, <1>4 DEF Reads

\* A row that comes in was not there when the list was set back.
LEMMA RowStored ==
  ASSUME NEW T, Rows(T), NEW n \in Nat, \A r \in T : r.id <= n,
         NEW e, e.time \in Int, e.id = n + 1
  PROVE  /\ Rows(T \cup {e}) /\ \A r \in T \cup {e} : r.id <= n + 1
         /\ \A l : Reads(T, l, n) => Reads(T \cup {e}, l, n + 1)
<1> DEFINE U == T \cup {e}
<1>1. Rows(U) /\ \A r \in U : r.id <= n + 1
  <2>1. IsFiniteSet(U)  BY FS_AddElement DEF Rows
  <2> QED  BY <2>1 DEF Rows
<1>2. \A r \in T : Position(T, r) <= Position(U, r) /\ Position(T, r) \in Int /\ Position(U, r) \in Int
  <2> TAKE r \in T
  <2>1. Ahead(T, r) \subseteq Ahead(U, r)  BY DEF Ahead
  <2>2. IsFiniteSet(Ahead(U, r)) /\ Position(U, r) \in Nat  BY <1>1, PositionType
  <2>3. Position(T, r) \in Nat  BY PositionType
  <2> HIDE DEF U
  <2>4. Cardinality(Ahead(T, r)) <= Cardinality(Ahead(U, r))  BY <2>1, <2>2, FS_Subset
  <2> QED  BY <2>2, <2>3, <2>4 DEF Position
<1>3. ASSUME NEW l, Reads(T, l, n)  PROVE Reads(U, l, n + 1)
  <2>1. e \notin l.base  BY <1>3 DEF Reads
  <2>2. Unseen(U, l) = Unseen(T, l) /\ Unseen(T, l) \subseteq T  BY <2>1 DEF Unseen
  <2> HIDE DEF U
  <2>3. \A r \in Unseen(U, l) : l.length <= Position(U, r) /\ (~l.outgrown => l.length < l.total)
    <3> TAKE r \in Unseen(U, l)
    <3>1. r \in T /\ l.length \in Int /\ l.length <= Position(T, r) /\ (~l.outgrown => l.length < l.total)
      BY <1>3, <2>2 DEF Reads
    <3> QED  BY <1>2, <3>1
  <2>4. \A r \in l.base : r.id \in Int /\ r.id <= n + 1  BY <1>3 DEF Reads
  <2> QED  BY <1>3, <2>3, <2>4 DEF Reads
<1> QED  BY <1>1, <1>3

\* Retention leaves every row that stays its rank.
LEMMA RowsRetained ==
  ASSUME NEW T, Rows(T), NEW n, \A r \in T : r.id <= n, NEW cutoff \in Int
  PROVE  LET U == Retained(T, cutoff)
         IN /\ Rows(U) /\ \A r \in U : r.id <= n
            /\ Cardinality(U) \in Nat /\ Cardinality(T) \in Nat /\ Cardinality(U) <= Cardinality(T)
            /\ \A l : Reads(T, l, n) => Reads(U, l, n)
<1> DEFINE U == Retained(T, cutoff)
<1>1. U \subseteq T  BY DEF Retained
<1>2. /\ IsFiniteSet(U) /\ Cardinality(U) \in Nat /\ Cardinality(T) \in Nat
      /\ Cardinality(U) <= Cardinality(T)
  <2>1. IsFiniteSet(T)  BY DEF Rows
  <2> HIDE DEF U
  <2> QED  BY <1>1, <2>1, FS_Subset, FS_CardinalityType
<1>3. Rows(U) /\ \A r \in U : r.id <= n  BY <1>1, <1>2 DEF Rows
<1>4. \A r \in U : Position(U, r) = Position(T, r)
  <2> TAKE r \in U
  <2>1. \A s \in T : Newer("time", s, r) => s.time >= cutoff
    BY <1>1 DEF Newer, Rows, Retained
  <2>2. Ahead(U, r) = Ahead(T, r)  BY <2>1 DEF Ahead, Retained
  <2> QED  BY <2>2 DEF Position
<1>5. ASSUME NEW l, Reads(T, l, n)  PROVE Reads(U, l, n)
  <2> HIDE DEF U
  <2>1. Unseen(U, l) \subseteq Unseen(T, l) /\ Unseen(U, l) \subseteq U  BY <1>1 DEF Unseen
  <2> QED  BY <1>4, <1>5, <2>1 DEF Reads
<1> QED  BY <1>2, <1>3, <1>5

\* The rows change, the list and its requests stay.
LEMMA TableChanged ==
  ASSUME NEW T, NEW U, NEW l, NEW A, NEW B, NEW n, NEW m \in Nat, PagesRead(T, l, A, n),
         Rows(U), \A r \in U : r.id <= m,
         \A k : Reads(T, k, n) => Reads(U, k, m),
         B = [i \in Slot |-> B[i]],
         \A i \in Slot : Form(B[i]) /\ B[i].grown \in BOOLEAN,
         \A i \in Slot : /\ B[i].kind = A[i].kind /\ B[i].offset = A[i].offset /\ B[i].step = A[i].step
                         /\ B[i].total = A[i].total /\ B[i].stale = A[i].stale
                         /\ Shown(l, B[i]) = Shown(l, A[i]) \/ A[i].step # "read"
                         /\ B[i].step = "counted" /\ ~B[i].grown => ~A[i].grown /\ Cardinality(U) <= A[i].total
  PROVE  PagesRead(U, l, B, m)
<1>1. \A i \in Slot : Knows(T, l, A[i], n)  BY DEF PagesRead
<1>2. ASSUME NEW i \in Slot  PROVE Knows(U, l, B[i], m)
  <2>1. Knows(T, l, A[i], n)  BY <1>1
  <2>2. B[i].step = "read" /\ Fresh(l, B[i]) => Reads(U, Shown(l, B[i]), m)
    <3> SUFFICES ASSUME B[i].step = "read", Fresh(l, B[i])  PROVE Reads(U, Shown(l, B[i]), m)  OBVIOUS
    <3>1. A[i].step = "read" /\ Fresh(l, A[i])  BY DEF Fresh
    <3>2. Reads(T, Shown(l, A[i]), n)  BY <2>1, <3>1 DEF Knows
    <3> QED  BY <3>1, <3>2
  <2>3. B[i].step = "counted" /\ ~B[i].grown => Cardinality(U) <= B[i].total  OBVIOUS
  <2>4. /\ B[i].kind = A[i].kind /\ B[i].offset = A[i].offset /\ B[i].step = A[i].step
        /\ B[i].total = A[i].total /\ B[i].stale = A[i].stale
        /\ Form(B[i]) /\ B[i].grown \in BOOLEAN
    OBVIOUS
  <2> DEFINE b == B[i]
  <2> HIDE DEF b
  <2>5. Knows(U, l, b, m)
    <3>1. /\ b.kind = A[i].kind /\ b.offset = A[i].offset /\ b.step = A[i].step
          /\ b.total = A[i].total /\ b.stale = A[i].stale /\ Form(b) /\ b.grown \in BOOLEAN
          /\ b.step = "counted" /\ ~b.grown => Cardinality(U) <= b.total
          /\ b.step = "read" /\ Fresh(l, b) => Reads(U, Shown(l, b), m)
      BY <2>2, <2>3, <2>4 DEF b
    <3> QED  BY <2>1, <3>1 DEF Knows
  <2> QED  BY <2>5 DEF b
<1> QED  BY <1>2 DEF PagesRead

LEMMA InitPages == Init => PagesIInv
<1> SUFFICES ASSUME Init, topic = "pages"  PROVE PagesRead({}, list, asked, 0)  BY DEF Init, PagesIInv
<1>1. Rows({})  BY FS_EmptySet DEF Rows
<1>2. Reads({}, list, 0)  BY DEF Init, Reads, Unseen
<1>3. \A i \in Slot : asked[i] = Idle  BY DEF Init, Slot
<1>4. Knows({}, list, Idle, 0)  BY DEF Knows, Form, Idle
<1>5. asked = [i \in Slot |-> asked[i]]  BY DEF Init, Slot
<1> QED  BY <1>1, <1>2, <1>3, <1>4, <1>5 DEF PagesRead

LEMMA EventKept ==
  ASSUME NEW e \in Event, NEW n
  PROVE  WithId(n, e).id = n /\ WithId(n, e).time \in Int
<1>1. "time" \in DOMAIN e /\ e.time \in Int  BY EventAssumption
<1> QED  BY <1>1 DEF WithId

\* One request changes, the rows and the list stay.
LEMMA RequestChanged ==
  ASSUME NEW T, NEW l, NEW A, NEW n, PagesRead(T, l, A, n), NEW i \in Slot, NEW q,
         Knows(T, l, q, n)
  PROVE  PagesRead(T, l, [A EXCEPT ![i] = q], n)
<1> DEFINE B == [A EXCEPT ![i] = q]
<1>1. A = [j \in Slot |-> A[j]]  BY DEF PagesRead
<1>2. B = [j \in Slot |-> IF j = i THEN q ELSE A[j]]  BY <1>1
<1>3. B = [j \in Slot |-> B[j]]  BY <1>2
<1>4. \A j \in Slot : Knows(T, l, B[j], n)  BY <1>2 DEF PagesRead
<1> HIDE DEF B
<1>5. PagesRead(T, l, B, n)  BY <1>3, <1>4 DEF PagesRead
<1> QED  BY <1>5 DEF B

\* A request by its parts, and what becomes of it when some of them are set.
Request(k, o, s, t, R, A, g, w) ==
  [kind |-> k, offset |-> o, step |-> s, total |-> t, rows |-> R, all |-> A, grown |-> g, stale |-> w]

LEMMA KindSet ==
  ASSUME NEW k, NEW o, NEW s, NEW t, NEW R, NEW A, NEW g, NEW w, NEW x
  PROVE  [Request(k, o, s, t, R, A, g, w) EXCEPT !.kind = x] = Request(x, o, s, t, R, A, g, w)
BY DEF Request

LEMMA OffsetSet ==
  ASSUME NEW k, NEW o, NEW s, NEW t, NEW R, NEW A, NEW g, NEW w, NEW x
  PROVE  [Request(k, o, s, t, R, A, g, w) EXCEPT !.offset = x] = Request(k, x, s, t, R, A, g, w)
BY DEF Request

LEMMA StepSet ==
  ASSUME NEW k, NEW o, NEW s, NEW t, NEW R, NEW A, NEW g, NEW w, NEW x
  PROVE  [Request(k, o, s, t, R, A, g, w) EXCEPT !.step = x] = Request(k, o, x, t, R, A, g, w)
BY DEF Request

LEMMA TotalSet ==
  ASSUME NEW k, NEW o, NEW s, NEW t, NEW R, NEW A, NEW g, NEW w, NEW x
  PROVE  [Request(k, o, s, t, R, A, g, w) EXCEPT !.total = x] = Request(k, o, s, x, R, A, g, w)
BY DEF Request

LEMMA RowsSet ==
  ASSUME NEW k, NEW o, NEW s, NEW t, NEW R, NEW A, NEW g, NEW w, NEW x
  PROVE  [Request(k, o, s, t, R, A, g, w) EXCEPT !.rows = x] = Request(k, o, s, t, x, A, g, w)
BY DEF Request

LEMMA AllSet ==
  ASSUME NEW k, NEW o, NEW s, NEW t, NEW R, NEW A, NEW g, NEW w, NEW x
  PROVE  [Request(k, o, s, t, R, A, g, w) EXCEPT !.all = x] = Request(k, o, s, t, R, x, g, w)
BY DEF Request

LEMMA PartsSet ==
  ASSUME NEW f, NEW x, NEW y, NEW z
  PROVE  /\ [f EXCEPT !.step = x, !.total = y] = [[f EXCEPT !.step = x] EXCEPT !.total = y]
         /\ [f EXCEPT !.kind = x, !.offset = y, !.step = z]
              = [[[f EXCEPT !.kind = x] EXCEPT !.offset = y] EXCEPT !.step = z]
         /\ [f EXCEPT !.step = x, !.all = y, !.rows = z]
              = [[[f EXCEPT !.step = x] EXCEPT !.all = y] EXCEPT !.rows = z]
OBVIOUS

LEMMA RequestMade ==
  ASSUME NEW x, NEW y
  PROVE  [Idle EXCEPT !.kind = x, !.offset = y, !.step = "asked"]
           = Request(x, y, "asked", 0, {}, {}, FALSE, FALSE)
<1> DEFINE f == Request(Idle.kind, Idle.offset, Idle.step, Idle.total, Idle.rows, Idle.all, Idle.grown, Idle.stale)
           a == Request(x, Idle.offset, Idle.step, Idle.total, Idle.rows, Idle.all, Idle.grown, Idle.stale)
           b == Request(x, y, Idle.step, Idle.total, Idle.rows, Idle.all, Idle.grown, Idle.stale)
           c == Request(x, y, "asked", Idle.total, Idle.rows, Idle.all, Idle.grown, Idle.stale)
<1>1. Form(Idle)  BY DEF Form, Idle
<1>2. Idle = f  BY <1>1 DEF Form, Request
<1>3. [f EXCEPT !.kind = x] = a  BY KindSet
<1>4. [a EXCEPT !.offset = y] = b  BY OffsetSet
<1>5. [b EXCEPT !.step = "asked"] = c  BY StepSet
<1>6. /\ Idle.total = 0 /\ Idle.rows = {} /\ Idle.all = {}
      /\ Idle.grown = FALSE /\ Idle.stale = FALSE
  BY DEF Idle
<1>7. c = Request(x, y, "asked", 0, {}, {}, FALSE, FALSE)  BY <1>6 DEF Request
<1> HIDE DEF f, a, b, c
<1>8. [f EXCEPT !.kind = x, !.offset = y, !.step = "asked"]
        = [[[f EXCEPT !.kind = x] EXCEPT !.offset = y] EXCEPT !.step = "asked"]
  BY PartsSet
<1>9. [Idle EXCEPT !.kind = x, !.offset = y, !.step = "asked"] = c  BY <1>2, <1>3, <1>4, <1>5, <1>8
<1> QED  BY <1>7, <1>9

LEMMA RequestCounted ==
  ASSUME NEW q, Form(q), NEW x
  PROVE  [q EXCEPT !.step = "counted", !.total = x]
           = Request(q.kind, q.offset, "counted", x, q.rows, q.all, q.grown, q.stale)
<1> DEFINE f == Request(q.kind, q.offset, q.step, q.total, q.rows, q.all, q.grown, q.stale)
           a == Request(q.kind, q.offset, "counted", q.total, q.rows, q.all, q.grown, q.stale)
           b == Request(q.kind, q.offset, "counted", x, q.rows, q.all, q.grown, q.stale)
<1>1. q = f  BY DEF Form, Request
<1>2. [f EXCEPT !.step = "counted"] = a  BY StepSet
<1>3. [a EXCEPT !.total = x] = b  BY TotalSet
<1> HIDE DEF f, a, b
<1>4. [f EXCEPT !.step = "counted", !.total = x] = [[f EXCEPT !.step = "counted"] EXCEPT !.total = x]
  BY PartsSet
<1>5. [q EXCEPT !.step = "counted", !.total = x] = b  BY <1>1, <1>2, <1>3, <1>4
<1> QED  BY <1>5 DEF b

LEMMA RequestRead ==
  ASSUME NEW q, Form(q), NEW x, NEW y
  PROVE  [q EXCEPT !.step = "read", !.all = x, !.rows = y]
           = Request(q.kind, q.offset, "read", q.total, y, x, q.grown, q.stale)
<1> DEFINE f == Request(q.kind, q.offset, q.step, q.total, q.rows, q.all, q.grown, q.stale)
           a == Request(q.kind, q.offset, "read", q.total, q.rows, q.all, q.grown, q.stale)
           b == Request(q.kind, q.offset, "read", q.total, q.rows, x, q.grown, q.stale)
           c == Request(q.kind, q.offset, "read", q.total, y, x, q.grown, q.stale)
<1>1. q = f  BY DEF Form, Request
<1>2. [f EXCEPT !.step = "read"] = a  BY StepSet
<1>3. [a EXCEPT !.all = x] = b  BY AllSet
<1>4. [b EXCEPT !.rows = y] = c  BY RowsSet
<1> HIDE DEF f, a, b, c
<1>5. [f EXCEPT !.step = "read", !.all = x, !.rows = y]
        = [[[f EXCEPT !.step = "read"] EXCEPT !.all = x] EXCEPT !.rows = y]
  BY PartsSet
<1>6. [q EXCEPT !.step = "read", !.all = x, !.rows = y] = c  BY <1>1, <1>2, <1>3, <1>4, <1>5
<1> QED  BY <1>6 DEF c

LEMMA PageAsked ==
  ASSUME PagesRead(table, list, asked, stored), NEW i \in Slot,
         Refresh(i) \/ LoadMore(i) \/ Fail(i)
  PROVE  PagesRead(table, list', asked', stored)
<1>1. list' = list  BY DEF Refresh, LoadMore, Fail
<1>2. Knows(table, list, Idle, stored)  BY DEF Knows, Form, Idle
<1>3. CASE Refresh(i)
  <2> DEFINE q == [kind |-> "reset", offset |-> 0, step |-> "asked", total |-> 0, rows |-> {}, all |-> {},
                   grown |-> FALSE, stale |-> FALSE]
  <2>1. asked' = [asked EXCEPT ![i] = q]
    <3>1. [Idle EXCEPT !.kind = "reset", !.offset = 0, !.step = "asked"] = q  BY RequestMade DEF Request
    <3> HIDE DEF q
    <3> QED  BY <1>3, <3>1 DEF Refresh, Ask
  <2>2. Knows(table, list, q, stored)
    <3>1. Form(q)  BY DEF Form
    <3> QED  BY <3>1 DEF Knows
  <2> HIDE DEF q
  <2> QED  BY <1>1, <2>1, <2>2, RequestChanged
<1>4. CASE LoadMore(i)
  <2> DEFINE q == [kind |-> "more", offset |-> list.length, step |-> "asked", total |-> 0, rows |-> {},
                   all |-> {}, grown |-> FALSE, stale |-> FALSE]
  <2>1. asked' = [asked EXCEPT ![i] = q]
    <3>1. [Idle EXCEPT !.kind = "more", !.offset = list.length, !.step = "asked"] = q  BY RequestMade DEF Request
    <3> HIDE DEF q
    <3> QED  BY <1>4, <3>1 DEF LoadMore, Ask
  <2>2. Knows(table, list, q, stored)
    <3>1. Form(q)  BY DEF Form
    <3> QED  BY <3>1 DEF Knows
  <2> HIDE DEF q
  <2> QED  BY <1>1, <2>1, <2>2, RequestChanged
<1>5. CASE Fail(i)
  <2>1. asked' = [asked EXCEPT ![i] = Idle]  BY <1>5 DEF Fail
  <2> QED  BY <1>1, <1>2, <2>1, RequestChanged
<1> QED  BY <1>3, <1>4, <1>5

LEMMA RowsListed ==
  ASSUME NEW T, NEW from
  PROVE  /\ ListEvents(T, NoFilter, from, PageSize).total = Cardinality(T)
         /\ ListEvents(T, NoFilter, from, PageSize).rows = {r \in T : OnPage(T, from, r)}
<1>1. Matching(T, NoFilter) = T  BY DEF Matching, NoFilter
<1> QED  BY <1>1 DEF ListEvents, Page, OnPage, Position, Ahead

LEMMA PageServed ==
  ASSUME PagesRead(table, list, asked, stored), NEW i \in Slot, CountRows(i) \/ ReadRows(i)
  PROVE  PagesRead(table, list', asked', stored)
<1> DEFINE q == asked[i]
<1>1. list' = list  BY DEF CountRows, ReadRows
<1>2. Knows(table, list, q, stored) /\ Rows(table) /\ stored \in Nat /\ \A r \in table : r.id <= stored
  BY DEF PagesRead
<1>3. IsFiniteSet(table) /\ Cardinality(table) \in Nat  BY <1>2, FS_CardinalityType DEF Rows
<1>4. Form(q)  BY <1>2 DEF Knows
<1>5. CASE CountRows(i)
  <2> DEFINE p == [kind |-> q.kind, offset |-> q.offset, step |-> "counted", total |-> Cardinality(table),
                   rows |-> q.rows, all |-> q.all, grown |-> q.grown, stale |-> q.stale]
  <2>1. asked' = [asked EXCEPT ![i] = [q EXCEPT !.step = "counted", !.total = Cardinality(table)]]
    BY <1>5, RowsListed DEF CountRows
  <2>2. [q EXCEPT !.step = "counted", !.total = Cardinality(table)] = p  BY <1>4, RequestCounted DEF Request
  <2>3. Knows(table, list, p, stored)  BY <1>2, <1>3, <1>5 DEF Knows, CountRows, Form
  <2> HIDE DEF p
  <2> QED  BY <1>1, <2>1, <2>2, <2>3, RequestChanged
<1>6. CASE ReadRows(i)
  <2> DEFINE R == {r \in table : OnPage(table, q.offset, r)}
             all == IF q.kind = "reset" THEN table ELSE {}
             p == [kind |-> q.kind, offset |-> q.offset, step |-> "read", total |-> q.total,
                   rows |-> R, all |-> all, grown |-> q.grown, stale |-> q.stale]
  <2>1. q.step = "counted"  BY <1>6 DEF ReadRows
  <2>2. asked' = [asked EXCEPT ![i] = [q EXCEPT !.step = "read", !.all = all, !.rows = R]]
    BY <1>6, RowsListed DEF ReadRows
  <2>3. [q EXCEPT !.step = "read", !.all = all, !.rows = R] = p
    <3> HIDE DEF R, all
    <3> QED  BY <1>4, RequestRead DEF Request
  <2>4. q.total \in Nat /\ (~q.grown => Cardinality(table) <= q.total)  BY <1>2, <2>1 DEF Knows
  <2>5. ASSUME Fresh(list, p)  PROVE Reads(table, Shown(list, p), stored)
    <3> DEFINE m == Shown(list, p)
    <3> SUFFICES Reads(table, m, stored)  OBVIOUS
    <3>1. CASE q.kind = "reset"
      <4> DEFINE l == [length |-> 0, total |-> 0, base |-> table, seen |-> {}, outgrown |-> TRUE]
      <4>1. \A r \in table : 0 <= Position(table, r) /\ r.id \in Int  BY <1>2, PositionType DEF Rows
      <4>2. Reads(table, l, stored)  BY <1>2, <4>1 DEF Reads, Unseen
      <4>3. q.offset = 0  BY <1>2, <3>1 DEF Knows
      <4>4. Cardinality(R) \in Nat  BY <1>2, <4>3, PageFull
      <4>5. /\ m.length = Cardinality(R) /\ m.base = table /\ m.seen = R
            /\ m.total = q.total /\ m.outgrown = q.grown
        BY <3>1 DEF Shown
      <4>6. /\ m.length = l.length + Cardinality(R) /\ m.base = l.base /\ m.seen = l.seen \cup R
            /\ R = {r \in table : OnPage(table, l.length, r)}
        BY <4>3, <4>4, <4>5
      <4> HIDE DEF m, l, R
      <4> QED  BY <1>2, <2>4, <4>2, <4>5, <4>6, PagePut
    <3>2. CASE q.kind # "reset"
      <4>1. ~q.stale /\ ~list.torn  BY <2>5, <3>2 DEF Fresh
      <4>2. Reads(table, list, stored)  BY <4>1 DEF PagesRead
      <4>3. q.offset = list.length  BY <1>2, <2>1, <3>2, <4>1 DEF Knows
      <4>4. /\ m.length = list.length + Cardinality(R) /\ m.base = list.base
            /\ m.seen = list.seen \cup R /\ m.total = q.total /\ m.outgrown = q.grown
        BY <3>2 DEF Shown
      <4>5. R = {r \in table : OnPage(table, list.length, r)}  BY <4>3
      <4> HIDE DEF m, R
      <4> QED  BY <1>2, <2>4, <4>2, <4>4, <4>5, PagePut
    <3> QED  BY <3>1, <3>2
  <2>6. Knows(table, list, p, stored)
    <3>1. /\ p.kind = q.kind /\ p.offset = q.offset /\ p.step = "read" /\ p.total = q.total
          /\ p.stale = q.stale /\ p.grown = q.grown /\ Form(p)
      BY DEF Form
    <3> HIDE DEF p
    <3> QED  BY <1>2, <2>1, <2>4, <2>5, <3>1 DEF Knows
  <2> HIDE DEF p
  <2> QED  BY <1>1, <2>2, <2>3, <2>6, RequestChanged
<1> QED  BY <1>5, <1>6

LEMMA PageShown ==
  ASSUME PagesRead(table, list, asked, stored), NEW i \in Slot, Answer(i)
  PROVE  PagesRead(table, list', asked', stored)
<1>1. \A j \in Slot : Knows(table, list, asked[j], stored)  BY DEF PagesRead
<1>2. list' = Shown(list, asked[i]) /\ asked[i].step = "read"  BY DEF Answer
<1>3. asked' = [j \in Slot |-> IF j = i THEN Idle
                                ELSE [asked[j] EXCEPT !.stale = asked[j].kind = "more"]]
  BY DEF Answer, Slot
<1>4. ASSUME ~list'.torn  PROVE Reads(table, list', stored)
  <2>1. asked[i].kind \in {"reset", "more"}  BY <1>1, <1>2 DEF Knows
  <2>2. Fresh(list, asked[i])  BY <1>2, <1>4, <2>1 DEF Shown, Fresh
  <2> QED  BY <1>1, <1>2, <2>2 DEF Knows
<1>5. ASSUME NEW j \in Slot  PROVE Knows(table, list', asked'[j], stored)
  <2>1. CASE j = i  BY <1>3, <2>1 DEF Knows, Form, Idle
  <2>2. CASE j # i
    <3> DEFINE q == asked[j]
               p == [kind |-> q.kind, offset |-> q.offset, step |-> q.step, total |-> q.total, rows |-> q.rows,
                     all |-> q.all, grown |-> q.grown, stale |-> q.kind = "more"]
    <3>1. Knows(table, list, q, stored)  BY <1>1
    <3>2. asked'[j] = [q EXCEPT !.stale = q.kind = "more"]  BY <1>3, <2>2
    <3>3. Form(q)  BY <3>1 DEF Knows
    <3>4. [q EXCEPT !.stale = q.kind = "more"] = p  BY <3>3 DEF Form
    <3>5. /\ p.kind = q.kind /\ p.offset = q.offset /\ p.step = q.step /\ p.total = q.total
          /\ p.grown = q.grown /\ p.stale = (q.kind = "more") /\ p.rows = q.rows /\ p.all = q.all /\ Form(p)
      BY DEF Form
    <3> HIDE DEF p
    <3>6. ASSUME p.step = "read", Fresh(list', p)  PROVE Reads(table, Shown(list', p), stored)
      <4>1. q.kind = "reset"  BY <3>1, <3>5, <3>6 DEF Fresh, Knows
      <4>2. Shown(list', p) = Shown(list, q)  BY <3>5, <4>1 DEF Shown
      <4>3. Reads(table, Shown(list, q), stored)  BY <3>1, <3>5, <3>6, <4>1 DEF Knows, Fresh
      <4> QED  BY <4>2, <4>3
    <3>7. Knows(table, list', p, stored)  BY <3>1, <3>5, <3>6 DEF Knows
    <3> QED  BY <3>2, <3>4, <3>7
  <2> QED  BY <2>1, <2>2
<1>6. asked' = [j \in Slot |-> asked'[j]]  BY <1>3
<1> QED  BY <1>4, <1>5, <1>6 DEF PagesRead

LEMMA StepPages == PagesIInv /\ [Next]_vars => PagesIInv'
<1> SUFFICES ASSUME PagesIInv, [Next]_vars, topic' = "pages"
             PROVE  PagesRead(table', list', asked', stored')
  BY DEF PagesIInv
<1>1. topic = "pages" /\ PagesRead(table, list, asked, stored)
  <2>1. topic' = topic
    BY DEF Next, vars, Rest, Store, StoreFeedback, StoreFlow, StoreIncident, AddRun, AddDigestRow,
           StoreEvent, RunRetention, Browse
  <2> QED  BY <2>1 DEF PagesIInv
<1>2. /\ Rows(table) /\ stored \in Nat /\ \A r \in table : r.id <= stored
      /\ \A i \in Slot : Knows(table, list, asked[i], stored)
  BY <1>1 DEF PagesRead
<1>3. CASE UNCHANGED vars  BY <1>1, <1>3 DEF vars, lists, screen
<1>4. ASSUME NEW e \in Event, StoreEvent(e)  PROVE PagesRead(table', list', asked', stored')
  <2> DEFINE new == WithId(stored + 1, e)
  <2>1. table' = table \cup {new} /\ stored' = stored + 1 /\ list' = list  BY <1>4 DEF StoreEvent
  <2>2. asked' = [i \in Slot |-> [asked[i] EXCEPT !.grown = asked[i].grown \/ asked[i].step = "counted"]]
    BY <1>4 DEF StoreEvent, Slot
  <2>3. /\ Rows(table') /\ \A r \in table' : r.id <= stored'
        /\ \A l : Reads(table, l, stored) => Reads(table', l, stored')
    <3> HIDE DEF new
    <3>1. new.time \in Int /\ new.id = stored + 1  BY EventKept DEF new
    <3> QED  BY <1>2, <2>1, <3>1, RowStored
  <2>4. ASSUME NEW i \in Slot
        PROVE  /\ Form(asked'[i])
               /\ asked'[i].kind = asked[i].kind /\ asked'[i].offset = asked[i].offset
               /\ asked'[i].step = asked[i].step /\ asked'[i].total = asked[i].total
               /\ asked'[i].stale = asked[i].stale
               /\ asked'[i].rows = asked[i].rows /\ asked'[i].all = asked[i].all
               /\ asked'[i].grown = (asked[i].grown \/ asked[i].step = "counted")
    <3>1. Form(asked[i])  BY <1>2 DEF Knows
    <3> QED  BY <2>2, <3>1 DEF Form
  <2>5. ASSUME NEW i \in Slot
        PROVE  /\ Shown(list, asked'[i]) = Shown(list, asked[i]) \/ asked[i].step # "read"
               /\ asked'[i].step = "counted" => asked'[i].grown
    <3>1. CASE asked[i].step = "read"
      <4>1. asked'[i].grown = asked[i].grown
        <5>1. asked'[i] = [asked[i] EXCEPT !.grown = asked[i].grown \/ asked[i].step = "counted"]  BY <2>2
        <5>2. asked[i].grown \in BOOLEAN  BY <1>2 DEF Knows
        <5> QED  BY <2>4, <3>1, <5>2
      <4> QED  BY <2>4, <3>1, <4>1 DEF Shown
    <3>2. CASE asked[i].step # "read"  BY <2>4, <3>2
    <3> QED  BY <3>1, <3>2
  <2>6. asked' = [i \in Slot |-> asked'[i]] /\ stored + 1 \in Nat  BY <1>2, <2>2
  <2>7. \A i \in Slot : Form(asked'[i]) /\ asked'[i].grown \in BOOLEAN  BY <2>4
  <2>8. \A i \in Slot :
           /\ asked'[i].kind = asked[i].kind /\ asked'[i].offset = asked[i].offset
           /\ asked'[i].step = asked[i].step /\ asked'[i].total = asked[i].total
           /\ asked'[i].stale = asked[i].stale
           /\ Shown(list, asked'[i]) = Shown(list, asked[i]) \/ asked[i].step # "read"
           /\ asked'[i].step = "counted" => asked'[i].grown
    BY <2>4, <2>5
  <2> HIDE DEF new
  <2>9. stored' \in Nat  BY <2>1, <2>6
  <2>10. PagesRead(table', list, asked', stored')  BY <1>1, <2>3, <2>6, <2>7, <2>8, <2>9, TableChanged
  <2> QED  BY <2>1, <2>10
<1>5. CASE RunRetention
  <2>1. PICK e \in table : table' = Retained(table, e.time + 1) /\ UNCHANGED <<stored, list, asked>>
    BY <1>5 DEF RunRetention, screen
  <2>2. e.time + 1 \in Int  BY <1>2 DEF Rows
  <2>3. /\ Rows(table') /\ \A r \in table' : r.id <= stored
        /\ Cardinality(table') \in Nat /\ Cardinality(table) \in Nat /\ Cardinality(table') <= Cardinality(table)
        /\ \A l : Reads(table, l, stored) => Reads(table', l, stored)
    BY <1>2, <2>1, <2>2, RowsRetained
  <2>4. ASSUME NEW i \in Slot, asked[i].step = "counted", ~asked[i].grown
        PROVE  Cardinality(table') <= asked[i].total
    <3>1. Cardinality(table) <= asked[i].total /\ asked[i].total \in Nat  BY <1>2, <2>4 DEF Knows
    <3> QED  BY <2>3, <3>1
  <2>5. asked = [i \in Slot |-> asked[i]] /\ \A i \in Slot : Form(asked[i]) /\ asked[i].grown \in BOOLEAN
    BY <1>1, <1>2 DEF PagesRead, Knows
  <2> QED  BY <1>1, <1>2, <2>1, <2>3, <2>4, <2>5, TableChanged
<1>6. CASE Browse
  <2>1. PICK i \in Slot : Refresh(i) \/ LoadMore(i) \/ CountRows(i) \/ ReadRows(i) \/ Answer(i) \/ Fail(i)
    BY <1>6 DEF Browse, Slot
  <2>2. table' = table /\ stored' = stored  BY <1>6 DEF Browse
  <2>3. PagesRead(table, list', asked', stored)  BY <1>1, <2>1, PageAsked, PageServed, PageShown
  <2> QED  BY <2>2, <2>3
<1>7. \/ UNCHANGED vars \/ Browse \/ RunRetention
      \/ \E e \in Event : StoreEvent(e)
  BY <1>1 DEF Next, StoreFeedback, StoreFlow, StoreIncident, AddRun, AddDigestRow
<1> QED  BY <1>3, <1>4, <1>5, <1>6, <1>7

LEMMA PagesHeld == Spec => []PagesIInv
BY InitPages, StepPages, PTL DEF Spec

(* When the event list offers no more pages, it has shown every row that   *)
(* was there when it was last set back and is still there, however many    *)
(* events come in, with any times, whatever retention deletes and whatever *)
(* requests fail or overtake each other, but for the two races that the    *)
(* property names (list_live_events, fetchEvents of LiveEvents.vue).       *)
THEOREM PagingMissesNoRow == Spec => []PagingMissesNothing
<1>1. PagesIInv => PagingMissesNothing
  <2> SUFFICES ASSUME PagesRead(table, list, asked, stored), list.length >= list.total, ~list.torn,
                      ~list.outgrown, NEW r \in Unseen(table, list)
               PROVE  FALSE
    BY DEF PagesIInv, PagingMissesNothing, Unseen
  <2>1. list.length \in Nat /\ list.total \in Nat /\ list.length < list.total  BY DEF PagesRead, Reads
  <2> QED  BY <2>1
<1> QED  BY <1>1, PagesHeld, PTL

-----------------------------------------------------------------------------
(* The advice on a monitored path: what it names and whether it points to  *)
(* the return path stay while the rules lower its priority.                *)

Advice(N, P) ==
  {a \in [priority : 0 .. 3, required : BOOLEAN, named : {N}, returnPath : {P}, suppressed : BOOLEAN] :
     a.priority = 0 => ~a.required}

LEMMA ReturnPathIsSevere ==
  ASSUME NEW runs, Monitor!ReturnPathRecurs(Monitor!SummarizeHistory(runs))
  PROVE  Monitor!SummarizeHistory(runs).recurring \cap Monitor!Severe # {}
<1> DEFINE found == Monitor!RunsWith(runs, "return_path_problem")
<1> DEFINE s == Monitor!SummarizeHistory(runs)
<1>1. s.recurring = Monitor!Recurring(runs)  BY Zenon DEF Monitor!SummarizeHistory
<1>2. s.returnPath = Monitor!Cardinality(found)  BY Zenon DEF Monitor!SummarizeHistory
<1>3. ASSUME Monitor!Cardinality(found) >= 2  PROVE "return_path_problem" \in Monitor!Recurring(runs)
  <2>1. Monitor!Cardinality({}) = Cardinality({})  BY Zenon DEF Monitor!Cardinality, Cardinality
  <2>2. found # {}  BY <1>3, <2>1, FS_EmptySet
  <2>3. PICK i \in DOMAIN runs : "return_path_problem" \in runs[i].impairments
    BY <2>2 DEF Monitor!RunsWith
  <2> QED  BY <1>3, <2>3 DEF Monitor!Recurring
<1>4. "return_path_problem" \in Monitor!Recurring(runs)
  <2> HIDE DEF s, found
  <2> QED  BY <1>1, <1>2, <1>3 DEF Monitor!ReturnPathRecurs, s
<1> QED  BY <1>1, <1>4 DEF Monitor!Severe

LEMMA AdviceDecided ==
  ASSUME NEW s, NEW risk, risk.level \in 0 .. 3, s.worsening \in BOOLEAN,
         Monitor!ReturnPathRecurs(s) => s.recurring \cap Monitor!Severe # {}
  PROVE  \E N, P : Monitor!DecideAction(s, risk) \in Advice(N, P)
<1> DEFINE d == Monitor!DecideAction(s, risk)
<1> DEFINE severe == s.recurring \cap Monitor!Severe
<1> DEFINE pressing == risk.level >= 2 \/ (risk.level = 1 /\ s.worsening)
<1> DEFINE base == [priority |-> risk.level, required |-> pressing]
<1> DEFINE one == IF severe = {} THEN base
                  ELSE [priority |-> Monitor!Escalate(base.priority), required |-> TRUE]
<1> DEFINE two == [one EXCEPT !.required = @ \/ Monitor!ReturnPathRecurs(s)]
<1> DEFINE Fine(a) == a \in [priority : 0 .. 3, required : BOOLEAN] /\ (a.priority = 0 => ~a.required)
<1>1. Fine(base)
  <2>1. pressing \in BOOLEAN /\ (risk.level = 0 => ~pressing)  OBVIOUS
  <2> HIDE DEF pressing
  <2> QED  BY <2>1
<1>2. Fine(one)
  <2>1. Monitor!Escalate(base.priority) \in 1 .. 3  BY DEF Monitor!Escalate, Monitor!Atmost
  <2> HIDE DEF base
  <2> QED  BY <1>1, <2>1
<1>3. Fine(two)
  <2>1. CASE Monitor!ReturnPathRecurs(s)
    <3>1. one.priority # 0 /\ two.priority = one.priority /\ one.priority \in 0 .. 3
      <4>1. severe # {}  BY <2>1
      <4>2. Monitor!Escalate(base.priority) \in 1 .. 3  BY DEF Monitor!Escalate, Monitor!Atmost
      <4> HIDE DEF base, severe
      <4> QED  BY <4>1, <4>2
    <3>2. two = [priority |-> one.priority, required |-> TRUE]
      <4>1. two = [one EXCEPT !.required = TRUE]  BY <2>1
      <4> HIDE DEF one, two
      <4> QED  BY <4>1, <1>2
    <3> HIDE DEF one
    <3> QED  BY <3>1, <3>2
  <2>2. CASE ~Monitor!ReturnPathRecurs(s)
    <3>1. two = one
      <4> HIDE DEF one
      <4> QED  BY <2>2, <1>2
    <3> QED  BY <1>2, <3>1
  <2> QED  BY <2>1, <2>2
<1> DEFINE forced == s.worsening /\ s.episodes >= 1 /\ two.priority < 2
<1> DEFINE three == IF forced THEN [priority |-> 2, required |-> TRUE] ELSE two
<1>4. Fine(three)
  <2> HIDE DEF two
  <2> QED  BY <1>3
<1>5. \E N, P : d = [priority |-> three.priority, required |-> three.required, named |-> N,
                     returnPath |-> P, suppressed |-> FALSE]
  BY DEF Monitor!DecideAction
<1>6. PICK N, P : d = [priority |-> three.priority, required |-> three.required, named |-> N,
                       returnPath |-> P, suppressed |-> FALSE]
  BY <1>5
<1> HIDE DEF three, d
<1>7. d \in Advice(N, P)  BY <1>4, <1>6 DEF Advice
<1> QED  BY <1>7 DEF d

LEMMA Lowered ==
  ASSUME NEW N, NEW P, NEW a \in Advice(N, P)
  PROVE  /\ Monitor!LowerAndQuiet(a) \in Advice(N, P)
         /\ [Monitor!Lower(a) EXCEPT !.required = FALSE] \in Advice(N, P)
<1>1. a.priority \in 0 .. 3 /\ a.required \in BOOLEAN  BY DEF Advice
<1> DEFINE q == IF a.priority = 0 THEN 0 ELSE a.priority - 1
<1>2. q \in 0 .. 3  BY <1>1
<1>3. Monitor!Lower(a) = [priority |-> q, required |-> a.required, named |-> N, returnPath |-> P, suppressed |-> a.suppressed]
  <2> HIDE DEF q
  <2> QED  BY DEF Advice, Monitor!Lower, q
<1> DEFINE b == Monitor!Lower(a)
<1>4. Monitor!LowerAndQuiet(a) = [b EXCEPT !.required = b.required /\ b.priority > 0]
  BY DEF Monitor!LowerAndQuiet
<1> HIDE DEF q, b
<1>5. b = [priority |-> q, required |-> a.required, named |-> N, returnPath |-> P, suppressed |-> a.suppressed]
  BY <1>3 DEF b
<1>6. a.suppressed \in BOOLEAN  BY DEF Advice
<1>7. [b EXCEPT !.required = FALSE] \in Advice(N, P)  BY <1>2, <1>5, <1>6 DEF Advice
<1>8. [b EXCEPT !.required = b.required /\ b.priority > 0] \in Advice(N, P)
  <2>1. CASE b.required /\ b.priority > 0
    <3>1. q > 0  BY <1>5, <2>1
    <3>2. b \in Advice(N, P)  BY <1>1, <1>2, <1>5, <1>6, <3>1 DEF Advice
    <3>3. [b EXCEPT !.required = TRUE] = b
      <4>1. b.required = TRUE  BY <1>1, <1>5, <2>1
      <4> QED  BY <1>5, <4>1
    <3>4. (b.required /\ b.priority > 0) = TRUE  BY <2>1
    <3> QED  BY <3>2, <3>3, <3>4
  <2>2. CASE ~(b.required /\ b.priority > 0)  BY <1>7, <2>2
  <2> QED  BY <2>1, <2>2
<1> QED  BY <1>4, <1>7, <1>8 DEF b

LEMMA AdviceAdjusted ==
  ASSUME NEW N, NEW P, NEW a \in Advice(N, P), NEW learned
  PROVE  \E Q : Monitor!AdjustAction(a, learned) \in Advice(N, Q)
<1> DEFINE Q == a.returnPath \/ Monitor!Hinted(learned, "return_path_problem")
<1> DEFINE b == [a EXCEPT !.returnPath = a.returnPath \/ Monitor!Hinted(learned, "return_path_problem")]
<1>1. Monitor!AdjustAction(a, learned)
        = IF Monitor!Noisy(learned) THEN [Monitor!Lower(b) EXCEPT !.required = FALSE] ELSE b
  BY DEF Monitor!AdjustAction
<1>2. b = [a EXCEPT !.returnPath = Q]  OBVIOUS
<1> HIDE DEF Q, b
<1>3. b \in Advice(N, Q)  BY <1>2 DEF Advice
<1> QED  BY <1>1, <1>3, Lowered

LEMMA AdviceBased ==
  ASSUME NEW N, NEW P, NEW a \in Advice(N, P), NEW runs, NEW baseline
  PROVE  \E M : Monitor!ApplyBaseline(a, runs, baseline) \in Advice(M, P)
<1> DEFINE hits == Monitor!Deemphasised(a, runs, baseline)
<1> DEFINE M == a.named \cup {i \in baseline.noisy : <<"noisy", i>> \in hits}
<1> DEFINE b == [a EXCEPT !.named = M]
<1>1. Monitor!ApplyBaseline(a, runs, baseline)
        = IF Monitor!Cardinality(hits) >= 2 THEN Monitor!LowerAndQuiet(b) ELSE b
  BY Zenon DEF Monitor!ApplyBaseline
<1> HIDE DEF M, hits
<1>2. b \in Advice(M, P)  BY DEF Advice
<1> HIDE DEF b
<1> QED  BY <1>1, <1>2, Lowered

LEMMA RuleApplied ==
  ASSUME NEW N, NEW P, NEW a \in Advice(N, P), NEW rule,
         rule.kind \in {"mute", "snooze", "impairment", "severity"}
  PROVE  Monitor!ApplyRule(a, rule) \in Advice(N, P)
<1>1. CASE rule.kind \in {"mute", "snooze"}
  <2>1. Monitor!ApplyRule(a, rule) = [a EXCEPT !.required = FALSE, !.priority = 0, !.suppressed = TRUE]
    BY <1>1 DEF Monitor!ApplyRule
  <2>2. Monitor!ApplyRule(a, rule)
          = [priority |-> 0, required |-> FALSE, named |-> N, returnPath |-> P, suppressed |-> TRUE]
    BY <2>1 DEF Advice
  <2> QED  BY <2>2 DEF Advice
<1>2. CASE rule.kind = "impairment"
  <2> DEFINE b == Monitor!LowerAndQuiet(a)
  <2>1. Monitor!ApplyRule(a, rule)
          = IF rule.value \in a.named
              THEN [b EXCEPT !.suppressed = TRUE, !.named = b.named \cup {rule.value}]
              ELSE a
    BY <1>2 DEF Monitor!ApplyRule
  <2>2. b \in Advice(N, P)  BY Lowered
  <2> HIDE DEF b
  <2>3. ASSUME rule.value \in a.named
        PROVE [b EXCEPT !.suppressed = TRUE, !.named = b.named \cup {rule.value}] \in Advice(N, P)
    <3>1. a.named = N /\ b.named = N  BY <2>2 DEF Advice
    <3>2. b.named \cup {rule.value} = N  BY <2>3, <3>1
    <3>3. [b EXCEPT !.suppressed = TRUE, !.named = N] \in Advice(N, P)  BY <2>2 DEF Advice
    <3> QED  BY <3>2, <3>3
  <2> QED  BY <2>1, <2>3
<1>3. CASE rule.kind = "severity"
  <2>1. Monitor!ApplyRule(a, rule)
          = IF a.priority <= Monitor!DriftRank[rule.value]
              THEN [a EXCEPT !.required = FALSE, !.suppressed = TRUE] ELSE a
    BY <1>3 DEF Monitor!ApplyRule
  <2>2. [a EXCEPT !.required = FALSE, !.suppressed = TRUE] \in Advice(N, P)  BY DEF Advice
  <2> QED  BY <2>1, <2>2
<1> QED  BY <1>1, <1>2, <1>3

LEMMA RulesApplied ==
  ASSUME NEW N, NEW P, NEW a \in Advice(N, P), NEW rules \in Rules, NEW now
  PROVE  Monitor!ApplySuppressions(a, rules, now) \in Advice(N, P)
<1> DEFINE n == Len(rules)
<1> DEFINE ST == Advice(N, P)
<1> DEFINE Step(g, i) == IF i = 0 THEN a ELSE Monitor!AfterRule(g[i - 1], rules, i, now)
<1> DEFINE F == [i \in 1 .. n |-> [x \in ST |-> Monitor!AfterRule(x, rules, i, now)]]
<1>1. n \in Nat /\ \A i \in 1 .. n : rules[i].kind \in {"mute", "snooze", "impairment", "severity"}
  <2>1. rules \in Seq(Range(rules))  BY RuleAssumption
  <2>2. n \in Nat /\ DOMAIN rules = 1 .. n  BY <2>1
  <2> QED  BY <2>2, RuleAssumption
<1>2. \A i \in 1 .. n : \A x \in ST : Monitor!AfterRule(x, rules, i, now) \in ST
  <2> TAKE i \in 1 .. n
  <2> TAKE x \in ST
  <2> HIDE DEF n
  <2>1. Monitor!ApplyRule(x, rules[i]) \in ST  BY <1>1, RuleApplied
  <2> HIDE DEF ST
  <2> QED  BY <2>1 DEF Monitor!AfterRule
<1>3. F \in [1 .. n -> [ST -> ST]]
  <2> HIDE DEF ST, n
  <2> QED  BY <1>2
<1>4. PICK g \in [0 .. n -> ST] : g[0] = a /\ \A i \in 1 .. n : g[i] = F[i][g[i - 1]]
  <2> HIDE DEF F, n, ST
  <2>1. a \in ST  BY DEF ST
  <2>2. Runs(ST, a, n, F)  BY <1>1, <1>3, <2>1, RecursionExists
  <2> QED  BY <2>2 DEF Runs
<1>5. \A i \in 1 .. n : i - 1 \in 0 .. n /\ g[i] = Monitor!AfterRule(g[i - 1], rules, i, now)
  <2> TAKE i \in 1 .. n
  <2>1. i - 1 \in 0 .. n
    <3> HIDE DEF n
    <3> QED  BY <1>1
  <2>2. g[i] = F[i][g[i - 1]] /\ g[i - 1] \in ST
    <3> HIDE DEF F, ST
    <3> QED  BY <1>4, <2>1
  <2> HIDE DEF ST
  <2> QED  BY <2>1, <2>2
<1>6. \A i \in 0 .. n : i = 0 \/ i \in 1 .. n  BY <1>1
<1>7. g = [i \in 0 .. n |-> Step(g, i)]
  <2> HIDE DEF ST
  <2> QED  BY <1>4, <1>5, <1>6
<1> DEFINE h == CHOOSE f : f = [i \in 0 .. n |-> Step(f, i)]
<1>8. h = [i \in 0 .. n |-> Step(h, i)]  BY <1>7
<1>9. \A i \in 0 .. n : h[i] = Step(h, i)
  <2> HIDE DEF h, Step
  <2> QED  BY <1>8
<1> DEFINE S == {i \in 0 .. n : h[i] \in ST}
<1>10. 0 \in S /\ \A i \in 1 .. n : i - 1 \in S => i \in S
  <2> HIDE DEF h, ST
  <2>1. 0 \in S  BY <1>1, <1>9 DEF ST
  <2>2. ASSUME NEW i \in 1 .. n, i - 1 \in S  PROVE i \in S
    <3>1. i \in 0 .. n /\ i # 0  BY <1>1
    <3>2. h[i] = Monitor!AfterRule(h[i - 1], rules, i, now)  BY <1>9, <3>1
    <3> QED  BY <1>2, <2>2, <3>1, <3>2
  <2> QED  BY <2>1, <2>2
<1>11. S = 0 .. n
  <2> HIDE DEF S, n
  <2>1. S \subseteq 0 .. n  BY DEF S
  <2> QED  BY <1>1, <1>10, <2>1, Repeated
<1>12. h[n] \in ST
  <2>1. n \in 0 .. n  BY <1>1
  <2> HIDE DEF h, ST, n
  <2> QED  BY <1>11, <2>1
<1>13. Monitor!ApplySuppressions(a, rules, now) = h[n]  BY DEF Monitor!ApplySuppressions
<1> HIDE DEF h
<1> QED  BY <1>12, <1>13

LEMMA AdviceDecides ==
  ASSUME NEW runs, NEW outcomes, NEW baseline, NEW rules \in Rules, NEW now
  PROVE  \E N, P : Monitor!Decision(runs, outcomes, baseline, rules, now) \in Advice(N, P)
<1> DEFINE s == Monitor!SummarizeHistory(runs)
<1> DEFINE risk == Monitor!ComputeRiskScore(s)
<1> DEFINE decided == Monitor!DecideAction(s, risk)
<1> DEFINE learned == Monitor!AdjustAction(decided, Monitor!LearnFromOutcomes(outcomes))
<1> DEFINE based == Monitor!ApplyBaseline(learned, runs, baseline)
<1>1. risk.level \in 0 .. 3
  <2>1. \E x : risk.level = Monitor!LevelForScore(x)  BY ZenonT(60) DEF Monitor!ComputeRiskScore
  <2> HIDE DEF risk
  <2> QED  BY <2>1 DEF Monitor!LevelForScore
<1>2. s.worsening \in BOOLEAN  BY Zenon DEF Monitor!SummarizeHistory
<1>3. Monitor!ReturnPathRecurs(s) => s.recurring \cap Monitor!Severe # {}  BY ReturnPathIsSevere
<1>4. PICK N, P : decided \in Advice(N, P)
  <2> HIDE DEF s, risk
  <2> QED  BY <1>1, <1>2, <1>3, AdviceDecided
<1>5. PICK Q : learned \in Advice(N, Q)
  <2> HIDE DEF decided
  <2> QED  BY <1>4, AdviceAdjusted
<1>6. PICK M : based \in Advice(M, Q)
  <2> HIDE DEF learned
  <2> QED  BY <1>5, AdviceBased
<1>7. Monitor!ApplySuppressions(based, rules, now) \in Advice(M, Q)
  <2> HIDE DEF based
  <2> QED  BY <1>6, RulesApplied
<1>8. Monitor!Decision(runs, outcomes, baseline, rules, now) = Monitor!ApplySuppressions(based, rules, now)
  BY Zenon DEF Monitor!Decision
<1> HIDE DEF based
<1> QED  BY <1>7, <1>8

(* The advice on a monitored path never demands action at the lowest       *)
(* priority, for every history of runs and whatever analysts told of it,   *)
(* accepted of it or suppressed (_compute_monitor_risk).                   *)
THEOREM NoActionEverMeansNone == Spec => []NoActionMeansNone
<1>1. NoActionMeansNone
  <2>1. SUFFICES ASSUME NEW o \in Judgements, NEW b \in Baselines, NEW r \in Rules
                 PROVE  LET advice == Monitor!Decision(table, o, b, r, 0)
                        IN advice.priority = 0 => ~advice.required
    BY DEF NoActionMeansNone
  <2>2. PICK N, P : Monitor!Decision(table, o, b, r, 0) \in Advice(N, P)  BY AdviceDecides
  <2> QED  BY <2>2 DEF Advice
<1> QED  BY <1>1, PTL

-----------------------------------------------------------------------------
(* One more blocked flow.                                                  *)

LEMMA CountGrows ==
  ASSUME NEW T, IsFiniteSet(T), NEW S, S \subseteq T
  PROVE  /\ Live!Cardinality(S) \in Nat /\ Live!Cardinality(T) \in Nat
         /\ Live!Cardinality(S) <= Live!Cardinality(T)
<1>1. \A X : Live!Cardinality(X) = Cardinality(X)  BY Zenon DEF Live!Cardinality, Cardinality
<1> QED  BY <1>1, FS_Subset, FS_CardinalityType

LEMMA CountOneMore ==
  ASSUME NEW S, IsFiniteSet(S), NEW x
  PROVE  /\ Live!Cardinality(S) \in Nat
         /\ Live!Cardinality(S \cup {x}) = IF x \in S THEN Live!Cardinality(S) ELSE Live!Cardinality(S) + 1
<1>1. \A X : Live!Cardinality(X) = Cardinality(X)  BY Zenon DEF Live!Cardinality, Cardinality
<1>2. x \in S => S \cup {x} = S  OBVIOUS
<1> QED  BY <1>1, <1>2, FS_AddElement, FS_CardinalityType

LEMMA ImageIsFinite ==
  ASSUME NEW S, IsFiniteSet(S), NEW f
  PROVE  IsFiniteSet({f[x] : x \in S})
<1> DEFINE R == {f[x] : x \in S}
           g == [x \in S |-> f[x]]
<1>1. g \in Surjection(S, R)  BY DEF Surjection
<1> HIDE DEF g
<1> QED  BY <1>1, FS_Surjection

LEMMA ColumnsAreFinite ==
  ASSUME NEW F, IsFiniteSet(F)
  PROVE  IsFiniteSet(Live!Dsts(F)) /\ IsFiniteSet(Live!Ports(F))
<1>1. ASSUME NEW c  PROVE IsFiniteSet({f[c] : f \in F})
  <2> DEFINE g == [h \in F |-> h[c]]
  <2>1. {g[f] : f \in F} = {f[c] : f \in F}  OBVIOUS
  <2> HIDE DEF g
  <2>2. IsFiniteSet({g[f] : f \in F})  BY ImageIsFinite
  <2> QED  BY <2>1, <2>2
<1>2. IsFiniteSet({f.dst : f \in F}) /\ IsFiniteSet({f.port : f \in F})  BY <1>1
<1> QED  BY <1>2, FS_Subset DEF Live!Ports, Live!Dsts

\* The metrics of a source before and after one more flow of someone, a blocked one.
MoreBlocked(m, n) ==
  /\ m \in Measures /\ n \in Measures
  /\ \/ n.total = m.total /\ n.blocked = m.blocked
     \/ n.total = m.total + 1 /\ n.blocked = m.blocked + 1
  /\ n.completed = m.completed /\ n.resets = m.resets
  /\ n.dsts >= m.dsts /\ n.ports >= m.ports
  /\ n.scanning >= m.scanning /\ n.suspicious >= m.suspicious /\ n.unstable >= m.unstable

LEMMA MetricsGrow ==
  ASSUME NEW F, IsFiniteSet(F), NEW x, x.state \in Live!Blocked, NEW s
  PROVE  MoreBlocked(Live!Metrics(Live!OfSource(F, s)), Live!Metrics(Live!OfSource(F \cup {x}, s)))
<1> DEFINE A == Live!OfSource(F, s)
           B == Live!OfSource(F \cup {x}, s)
<1>1. A \subseteq B /\ IsFiniteSet(A) /\ IsFiniteSet(B)
  <2>1. IsFiniteSet(F \cup {x}) /\ A \subseteq F /\ B \subseteq F \cup {x} /\ A \subseteq B
    BY FS_AddElement DEF Live!OfSource
  <2> QED  BY <2>1, FS_Subset
<1>2. B = A \/ (B = A \cup {x} /\ x \notin A)  BY DEF Live!OfSource
<1>3. \A st : /\ Live!InState(A, st) \subseteq Live!InState(B, st)
              /\ IsFiniteSet(Live!InState(A, st)) /\ IsFiniteSet(Live!InState(B, st))
              /\ x.state \notin st => Live!InState(B, st) = Live!InState(A, st)
  <2> TAKE st
  <2>1. Live!InState(A, st) \subseteq A /\ Live!InState(B, st) \subseteq B  BY DEF Live!InState
  <2>2. IsFiniteSet(Live!InState(A, st)) /\ IsFiniteSet(Live!InState(B, st))
    <3> HIDE DEF A, B
    <3> QED  BY <1>1, <2>1, FS_Subset
  <2> HIDE DEF A, B
  <2> QED  BY <1>1, <1>2, <2>2 DEF Live!InState
<1>4. \A t : /\ Live!OfType(A, t) \subseteq Live!OfType(B, t) /\ IsFiniteSet(Live!OfType(B, t))
  <2> TAKE t
  <2>1. Live!OfType(A, t) \subseteq Live!OfType(B, t) /\ Live!OfType(B, t) \subseteq B  
    <3> HIDE DEF A, B
    <3> QED  BY <1>1 DEF Live!OfType
  <2> HIDE DEF A, B
  <2> QED  BY <1>1, <2>1, FS_Subset
<1>5. /\ Live!Dsts(A) \subseteq Live!Dsts(B) /\ IsFiniteSet(Live!Dsts(B))
      /\ Live!Ports(A) \subseteq Live!Ports(B) /\ IsFiniteSet(Live!Ports(B))
  <2> HIDE DEF A, B
  <2> QED  BY <1>1, ColumnsAreFinite DEF Live!Ports, Live!Dsts
<1> DEFINE m == Live!Metrics(A)
           n == Live!Metrics(B)
<1>6. /\ m.total \in Nat /\ n.total \in Nat
      /\ \/ B = A /\ n.total = m.total /\ n.blocked = m.blocked
         \/ n.total = m.total + 1 /\ n.blocked = m.blocked + 1
  <2> HIDE DEF A, B
  <2>1. CASE B = A
     BY <2>1, <1>1, CountOneMore DEF Live!Metrics
  <2>2. CASE B = A \cup {x} /\ x \notin A
    <3>1. Live!InState(B, Live!Blocked) = Live!InState(A, Live!Blocked) \cup {x} /\ x \notin Live!InState(A, Live!Blocked)
      BY <2>2 DEF Live!InState
    <3>2. IsFiniteSet(Live!InState(A, Live!Blocked))  BY <1>3
    <3>3. /\ m.total = Live!Cardinality(A) /\ n.total = Live!Cardinality(A \cup {x})
          /\ m.blocked = Live!Cardinality(Live!InState(A, Live!Blocked))
          /\ n.blocked = Live!Cardinality(Live!InState(A, Live!Blocked) \cup {x})
      BY <2>2, <3>1 DEF Live!Metrics
    <3> HIDE DEF m, n
    <3> QED  BY <1>1, <2>2, <3>1, <3>2, <3>3, CountOneMore
  <2> QED  BY <1>2, <2>1, <2>2
<1>7. /\ m.blocked \in Nat /\ n.blocked \in Nat
      /\ m.completed \in Nat /\ n.completed = m.completed /\ m.resets \in Nat /\ n.resets = m.resets
  <2> HIDE DEF A, B
  <2>1. x.state \notin {"completed"} /\ x.state \notin {"reset"}  BY DEF Live!Blocked
  <2> QED  BY <2>1, <1>3, CountGrows DEF Live!Metrics
<1>8. /\ m.dsts \in Nat /\ n.dsts \in Nat /\ n.dsts >= m.dsts
      /\ m.ports \in Nat /\ n.ports \in Nat /\ n.ports >= m.ports
  <2> HIDE DEF A, B
  <2> QED  BY <1>5, CountGrows DEF Live!Metrics
<1>9. /\ m.scanning \in Nat /\ n.scanning \in Nat /\ n.scanning >= m.scanning
      /\ m.suspicious \in Nat /\ n.suspicious \in Nat /\ n.suspicious >= m.suspicious
      /\ m.unstable \in Nat /\ n.unstable \in Nat /\ n.unstable >= m.unstable
  <2> HIDE DEF A, B
  <2> QED  BY <1>4, CountGrows DEF Live!Metrics
<1>10. m \in Measures /\ n \in Measures
  <2>1. \A X : Live!Metrics(X) = [c \in DOMAIN Live!Metrics(X) |-> Live!Metrics(X)[c]]
    BY DEF Live!Metrics
  <2> HIDE DEF A, B
  <2> QED  BY <1>6, <1>7, <1>8, <1>9 DEF Live!Metrics, Measures
<1> HIDE DEF m, n
<1> QED  BY <1>6, <1>7, <1>8, <1>9, <1>10 DEF MoreBlocked, m, n

LEMMA ScanningStays ==
  ASSUME NEW m, NEW n, MoreBlocked(m, n), Live!IsScanning(m)
  PROVE  /\ Live!IsScanning(n)
         /\ Live!WidePorts(m) => Live!WidePorts(n)
         /\ Live!WideDsts(m) => Live!WideDsts(n)
         /\ m.scanning >= 3 => n.scanning >= 3
<1>1. Live!WidePorts(m) => Live!WidePorts(n)  BY TuneAssumption DEF MoreBlocked, Measures, Live!WidePorts
<1>2. Live!WideDsts(m) => Live!WideDsts(n)  BY TuneAssumption DEF MoreBlocked, Measures, Live!WideDsts
<1>3. m.scanning >= 3 => n.scanning >= 3  BY DEF MoreBlocked, Measures
<1>4. Live!HighBlocked(m) => Live!HighBlocked(n)  BY DEF MoreBlocked, Measures, Live!HighBlocked
<1>5. m.total >= Tune.scanFlows => n.total >= Tune.scanFlows  BY TuneAssumption DEF MoreBlocked, Measures
<1> QED  BY <1>1, <1>2, <1>3, <1>4, <1>5 DEF Live!IsScanning

LEMMA ScoreIpGrows ==
  ASSUME NEW m, NEW n, MoreBlocked(m, n)
  PROVE  /\ Live!ScoreIp(m, 0) \in 0 .. 100 /\ Live!ScoreIp(n, 0) \in 0 .. 100
         /\ Live!ScoreIp(m, 0) <= Live!ScoreIp(n, 0)
<1> DEFINE blocked(x) == Live!Tier(2 * x.blocked > x.total, 40, Live!Points(10 * x.blocked > 2 * x.total, 20))
           resets(x) == Live!Tier(x.resets > 10, 20, Live!Points(x.resets > 5, 10))
           dsts(x) == Live!Tier(x.dsts > 20, 25, Live!Tier(x.dsts > 10, 15, Live!Points(x.dsts > 5, 5)))
           events == Live!Tier(0 > 1000, 15, Live!Points(0 > 500, 8))
           scanning(x) == Live!Tier(x.scanning >= 3, 20, Live!Points(x.scanning >= 1, 10))
           suspicious(x) == Live!Tier(x.suspicious >= 2, 15, Live!Points(x.suspicious >= 1, 8))
           unstable(x) == Live!Points(x.unstable >= 3, 10)
<1>1. blocked(m) \in Nat /\ blocked(n) \in Nat /\ blocked(m) <= blocked(n)
  BY DEF MoreBlocked, Measures, Live!Tier, Live!Points
<1>2. resets(m) \in Nat /\ resets(n) = resets(m)  BY DEF MoreBlocked, Measures, Live!Tier, Live!Points
<1>3. dsts(m) \in Nat /\ dsts(n) \in Nat /\ dsts(m) <= dsts(n)
  BY DEF MoreBlocked, Measures, Live!Tier, Live!Points
<1>4. events \in Nat  BY DEF Live!Tier, Live!Points
<1>5. scanning(m) \in Nat /\ scanning(n) \in Nat /\ scanning(m) <= scanning(n)
  BY DEF MoreBlocked, Measures, Live!Tier, Live!Points
<1>6. suspicious(m) \in Nat /\ suspicious(n) \in Nat /\ suspicious(m) <= suspicious(n)
  BY DEF MoreBlocked, Measures, Live!Tier, Live!Points
<1>7. unstable(m) \in Nat /\ unstable(n) \in Nat /\ unstable(m) <= unstable(n)
  BY DEF MoreBlocked, Measures, Live!Points
<1> DEFINE sum(x) == blocked(x) + resets(x) + dsts(x) + events + scanning(x) + suspicious(x) + unstable(x)
<1>8. Live!ScoreIp(m, 0) = Live!AtMost(sum(m), 100) /\ Live!ScoreIp(n, 0) = Live!AtMost(sum(n), 100)
  BY Zenon DEF Live!ScoreIp
<1> HIDE DEF blocked, resets, dsts, events, scanning, suspicious, unstable
<1>9. sum(m) \in Nat /\ sum(n) \in Nat /\ sum(m) <= sum(n)
  BY <1>1, <1>2, <1>3, <1>4, <1>5, <1>6, <1>7
<1> HIDE DEF sum
<1> QED  BY <1>8, <1>9 DEF Live!AtMost

\* What a source may be taken for, and how surely.
LEMMA TakenFor ==
  ASSUME NEW m \in Measures
  PROVE  LET b == Live!Classify(m) IN
         /\ b.type = "scanning" <=> Live!IsScanning(m)
         /\ b.type \in {"scanning", "lateral_movement", "unstable", "suspicious", "normal"}
         /\ b.confidence \in 50 .. 95
         /\ b.type = "normal" => b.confidence = 50
         /\ b.type # "normal" => b.confidence >= 60
         /\ Live!IsScanning(m) =>
              b.confidence = Live!AtMost(70 + Live!Points(Live!WidePorts(m), 10) + Live!Points(Live!WideDsts(m), 5)
                                            + Live!Points(m.scanning >= 3, 5), 95)
         /\ b.type = "suspicious" => (b.confidence > 70 <=> m.suspicious >= 4)
         /\ b # None
<1> DEFINE Names == {"scanning", "lateral_movement", "unstable", "suspicious", "normal"}
<1>0. Live!Classify(m) # None
  <2>1. \A t, c : t \in Names /\ c \in Nat =>
           [type |-> t, confidence |-> Live!AtMost(c, 95), flows |-> m.total, metrics |-> m]
             \in [type : Names, confidence : Nat, flows : Nat, metrics : Measures]
    BY DEF Live!AtMost, Measures
  <2>2. \E t \in Names, c \in Nat :
           Live!Classify(m) = [type |-> t, confidence |-> Live!AtMost(c, 95), flows |-> m.total, metrics |-> m]
    <3> DEFINE As(t, c) == [type |-> t, confidence |-> Live!AtMost(c, 95), flows |-> m.total, metrics |-> m]
               some == \E t \in Names, c \in Nat : Live!Classify(m) = As(t, c)
    <3>9. ASSUME NEW t \in Names, NEW c \in Nat, Live!Classify(m) = As(t, c)  PROVE some
      BY <3>9
    <3>1. SUFFICES some  OBVIOUS
    <3> HIDE DEF As, some
    <3>2. CASE Live!IsScanning(m)
      <4>1. Live!Classify(m) = As("scanning", 70 + Live!Points(Live!WidePorts(m), 10)
                                   + Live!Points(Live!WideDsts(m), 5) + Live!Points(m.scanning >= 3, 5))
        BY <3>2, Zenon DEF Live!Classify, As
      <4>2. 70 + Live!Points(Live!WidePorts(m), 10)
               + Live!Points(Live!WideDsts(m), 5) + Live!Points(m.scanning >= 3, 5) \in Nat
        BY DEF Live!Points
      <4> QED  BY <4>1, <4>2, <3>9
    <3>3. CASE ~Live!IsScanning(m) /\ Live!IsLateral(m)
      <4>1. Live!Classify(m) = As("lateral_movement", 60 + Live!Points(m.dsts >= 15, 10)
                                                      + Live!Points(10 * m.completed > 8 * m.total, 10))
        BY <3>3, Zenon DEF Live!Classify, As
      <4>2. 60 + Live!Points(m.dsts >= 15, 10) + Live!Points(10 * m.completed > 8 * m.total, 10) \in Nat
        BY DEF Live!Points
      <4> QED  BY <4>1, <4>2, <3>9
    <3>4. CASE ~Live!IsScanning(m) /\ ~Live!IsLateral(m) /\ Live!IsUnstable(m)
      <4>1. Live!Classify(m) = As("unstable", 60 + Live!Points(2 * m.resets > m.total, 10)
                                              + Live!Points(m.unstable >= 2, 5))
        BY <3>4, Zenon DEF Live!Classify, As
      <4>2. 60 + Live!Points(2 * m.resets > m.total, 10) + Live!Points(m.unstable >= 2, 5) \in Nat
        BY DEF Live!Points
      <4> QED  BY <4>1, <4>2, <3>9
    <3>5. CASE ~Live!IsScanning(m) /\ ~Live!IsLateral(m) /\ ~Live!IsUnstable(m)
      <4>1. \/ Live!Classify(m) = As("suspicious", 65 + Live!Points(m.suspicious >= 4, 10))
            \/ Live!Classify(m) = As("suspicious", 60 + Live!Points(10 * m.blocked > 8 * m.total, 10))
            \/ Live!Classify(m) = As("normal", 50)
        BY <3>5, Zenon DEF Live!Classify, As
      <4>2. 65 + Live!Points(m.suspicious >= 4, 10) \in Nat
            /\ 60 + Live!Points(10 * m.blocked > 8 * m.total, 10) \in Nat /\ 50 \in Nat
        BY DEF Live!Points
      <4> QED  BY <4>1, <4>2, <3>9
    <3> QED  BY <3>2, <3>3, <3>4, <3>5
  <2> QED  BY <2>1, <2>2, NoneAssumption
<1>1. CASE Live!IsScanning(m)
  BY <1>0, <1>1 DEF Live!Classify, Live!AtMost, Live!Points
<1>2. CASE ~Live!IsScanning(m) /\ Live!IsLateral(m)
  BY <1>0, <1>2 DEF Live!Classify, Live!AtMost, Live!Points
<1>3. CASE ~Live!IsScanning(m) /\ ~Live!IsLateral(m) /\ Live!IsUnstable(m)
  BY <1>0, <1>3 DEF Live!Classify, Live!AtMost, Live!Points
<1>4. CASE ~Live!IsScanning(m) /\ ~Live!IsLateral(m) /\ ~Live!IsUnstable(m)
  BY <1>0, <1>4 DEF Live!Classify, Live!AtMost, Live!Points, Measures
<1> QED  BY <1>0, <1>1, <1>2, <1>3, <1>4

LEMMA RiskGrows ==
  ASSUME NEW m, NEW n, MoreBlocked(m, n), Live!Classify(m).type = Live!Classify(n).type
  PROVE  LET p == Live!RiskScore(m, 0, Live!Classify(m))
             q == Live!RiskScore(n, 0, Live!Classify(n))
         IN q >= p /\ Live!Level(q) >= Live!Level(p)
<1> DEFINE b == Live!Classify(m)
           d == Live!Classify(n)
           boost(x) == IF x.confidence < 60 THEN 0
                       ELSE CASE x.type = "scanning" -> 20 [] x.type = "lateral_movement" -> 15
                              [] x.type = "suspicious" -> 12 [] x.type = "unstable" -> 10 [] OTHER -> 0
           p == Live!RiskScore(m, 0, b)
           q == Live!RiskScore(n, 0, d)
<1>1. m \in Measures /\ n \in Measures  BY DEF MoreBlocked
<1>2. /\ b.confidence \in 50 .. 95 /\ d.confidence \in 50 .. 95
      /\ b.type = "normal" => b.confidence = 50
      /\ b.type # "normal" => b.confidence >= 60
      /\ d.type = "normal" => d.confidence = 50
      /\ d.type # "normal" => d.confidence >= 60
      /\ b.type \in {"scanning", "lateral_movement", "unstable", "suspicious", "normal"}
      /\ b # None /\ d # None
  BY <1>1, TakenFor
<1>3. b.type = d.type  OBVIOUS
<1>4. Live!BehaviourBoost(b) = boost(b) /\ Live!BehaviourBoost(d) = boost(d)
  <2> HIDE DEF b, d
  <2> QED  BY <1>2, Zenon DEF Live!BehaviourBoost
<1>5. boost(b) = boost(d) /\ boost(b) \in Nat
  <2> HIDE DEF b, d
  <2> QED  BY <1>2, <1>3
<1>6. /\ Live!ScoreIp(m, 0) \in 0 .. 100 /\ Live!ScoreIp(n, 0) \in 0 .. 100
      /\ Live!ScoreIp(m, 0) <= Live!ScoreIp(n, 0)
  BY ScoreIpGrows
<1> HIDE DEF boost, b, d
<1>7. p \in Nat /\ q \in Nat /\ p <= q  BY <1>4, <1>5, <1>6, SMTT(60) DEF Live!RiskScore, Live!AtMost
<1> HIDE DEF p, q
<1>8. Live!Level(p) <= Live!Level(q)  BY <1>7 DEF Live!Level
<1>9. Live!Level(p) \in 0 .. 3 /\ Live!Level(q) \in 0 .. 3  BY <1>7 DEF Live!Level
<1> QED  BY <1>7, <1>8, <1>9 DEF p, q, b, d

LEMMA PatternsGrow ==
  ASSUME NEW G, IsFiniteSet(G), NEW F, F \subseteq G
  PROVE  Live!Patterns(F, {}) \subseteq Live!Patterns(G, {})
<1>1. /\ Live!Sources(F) \subseteq Live!Sources(G) /\ Live!Pairs(F) \subseteq Live!Pairs(G)
      /\ \A s : Live!OfSource(F, s) \subseteq Live!OfSource(G, s) /\ Live!OfSource(G, s) \subseteq G
      /\ \A p : Live!OfPair(F, p) \subseteq Live!OfPair(G, p) /\ Live!OfPair(G, p) \subseteq G
  BY DEF Live!Sources, Live!Pairs, Live!OfSource, Live!OfPair
<1>2. ASSUME NEW A, NEW B, A \subseteq B, B \subseteq G
      PROVE  /\ \A t, st : /\ Live!OfType(A, t) \subseteq Live!OfType(B, t) /\ IsFiniteSet(Live!OfType(B, t))
                           /\ Live!InState(A, st) \subseteq Live!InState(B, st) /\ IsFiniteSet(Live!InState(B, st))
             /\ Live!Dsts(A) \subseteq Live!Dsts(B) /\ IsFiniteSet(Live!Dsts(B))
             /\ Live!Ports(A) \subseteq Live!Ports(B) /\ IsFiniteSet(Live!Ports(B))
  <2>1. IsFiniteSet(B)  BY <1>2, FS_Subset
  <2>2. \A t, st : /\ Live!OfType(A, t) \subseteq Live!OfType(B, t) /\ Live!OfType(B, t) \subseteq B
                   /\ Live!InState(A, st) \subseteq Live!InState(B, st) /\ Live!InState(B, st) \subseteq B
    BY <1>2 DEF Live!OfType, Live!InState
  <2>3. \A t, st : IsFiniteSet(Live!OfType(B, t)) /\ IsFiniteSet(Live!InState(B, st))
    BY <2>1, <2>2, FS_Subset
  <2>4. Live!Dsts(A) \subseteq Live!Dsts(B) /\ Live!Ports(A) \subseteq Live!Ports(B)
    BY <1>2 DEF Live!Dsts, Live!Ports
  <2>5. IsFiniteSet(Live!Dsts(B)) /\ IsFiniteSet(Live!Ports(B))  BY <2>1, ColumnsAreFinite
  <2> QED  BY <2>2, <2>3, <2>4, <2>5
<1>3. Live!BlockedSpike(F) \subseteq Live!BlockedSpike(G)
  <2> SUFFICES ASSUME NEW s \in Live!BlockedSpike(F)  PROVE s \in Live!BlockedSpike(G)  OBVIOUS
  <2> DEFINE A == Live!OfSource(F, s)
             B == Live!OfSource(G, s)
             of(X) == Live!InState(X, Live!Blocked) \cup Live!OfType(X, "blocked")
  <2>1. A \subseteq B /\ B \subseteq G  BY <1>1
  <2>2. of(A) \subseteq of(B) /\ IsFiniteSet(of(B))
    <3> HIDE DEF A, B
    <3> QED  BY <1>2, <2>1, FS_Union
  <2>3. s \in Live!Sources(F) /\ Live!Cardinality(of(A)) > Tune.blockedSpike  BY DEF Live!BlockedSpike
  <2> HIDE DEF of
  <2>4. Live!Cardinality(of(B)) > Tune.blockedSpike  BY <2>2, <2>3, CountGrows, TuneAssumption
  <2> QED  BY <1>1, <2>3, <2>4 DEF Live!BlockedSpike, of
<1>4. Live!ScanningFlows(F) \subseteq Live!ScanningFlows(G)
  <2> SUFFICES ASSUME NEW s \in Live!ScanningFlows(F)  PROVE s \in Live!ScanningFlows(G)  OBVIOUS
  <2>1. /\ s \in Live!Sources(F)
        /\ Live!Cardinality(Live!OfType(Live!OfSource(F, s), "scanning")) >= Tune.scanningFlows
    BY DEF Live!ScanningFlows
  <2>2. /\ Live!OfType(Live!OfSource(F, s), "scanning") \subseteq Live!OfType(Live!OfSource(G, s), "scanning")
        /\ IsFiniteSet(Live!OfType(Live!OfSource(G, s), "scanning"))
    BY <1>1, <1>2
  <2>3. Live!Cardinality(Live!OfType(Live!OfSource(G, s), "scanning")) >= Tune.scanningFlows
    BY <2>1, <2>2, CountGrows, TuneAssumption
  <2> QED  BY <1>1, <2>1, <2>3 DEF Live!ScanningFlows
<1>5. Live!SuspiciousFlows(F) \subseteq Live!SuspiciousFlows(G)
  <2> SUFFICES ASSUME NEW s \in Live!SuspiciousFlows(F)  PROVE s \in Live!SuspiciousFlows(G)  OBVIOUS
  <2>1. /\ s \in Live!Sources(F)
        /\ Live!Cardinality(Live!OfType(Live!OfSource(F, s), "suspicious")) >= Tune.suspiciousFlows
    BY DEF Live!SuspiciousFlows
  <2>2. /\ Live!OfType(Live!OfSource(F, s), "suspicious") \subseteq Live!OfType(Live!OfSource(G, s), "suspicious")
        /\ IsFiniteSet(Live!OfType(Live!OfSource(G, s), "suspicious"))
    BY <1>1, <1>2
  <2>3. Live!Cardinality(Live!OfType(Live!OfSource(G, s), "suspicious")) >= Tune.suspiciousFlows
    BY <2>1, <2>2, CountGrows, TuneAssumption
  <2> QED  BY <1>1, <2>1, <2>3 DEF Live!SuspiciousFlows
<1>6. Live!PortScan(F) \subseteq Live!PortScan(G)
  <2> SUFFICES ASSUME NEW s \in Live!PortScan(F)  PROVE s \in Live!PortScan(G)  OBVIOUS
  <2> DEFINE A == Live!OfSource(F, s)
             B == Live!OfSource(G, s)
  <2>1. A \subseteq B /\ B \subseteq G  BY <1>1
  <2>2. /\ s \in Live!Sources(F)
        /\ \/ Live!Cardinality(Live!OfType(A, "scanning")) >= Tune.scanningFlows
           \/ Live!Cardinality(Live!Dsts(A)) > Tune.scanDstLimit
           \/ Live!Cardinality(Live!Ports(A)) > Tune.scanPortLimit
    BY DEF Live!PortScan
  <2> HIDE DEF A, B
  <2>3. \/ Live!Cardinality(Live!OfType(B, "scanning")) >= Tune.scanningFlows
        \/ Live!Cardinality(Live!Dsts(B)) > Tune.scanDstLimit
        \/ Live!Cardinality(Live!Ports(B)) > Tune.scanPortLimit
    <3>1. /\ Live!OfType(A, "scanning") \subseteq Live!OfType(B, "scanning") /\ IsFiniteSet(Live!OfType(B, "scanning"))
          /\ Live!Dsts(A) \subseteq Live!Dsts(B) /\ IsFiniteSet(Live!Dsts(B))
          /\ Live!Ports(A) \subseteq Live!Ports(B) /\ IsFiniteSet(Live!Ports(B))
      BY <1>2, <2>1
    <3> QED  BY <2>2, <3>1, CountGrows, TuneAssumption
  <2> QED  BY <1>1, <2>2, <2>3 DEF Live!PortScan, B
<1>7. Live!RepeatedReset(F) \subseteq Live!RepeatedReset(G)
  <2> SUFFICES ASSUME NEW p \in Live!RepeatedReset(F)  PROVE p \in Live!RepeatedReset(G)  OBVIOUS
  <2> DEFINE A == Live!OfPair(F, p)
             B == Live!OfPair(G, p)
             of(X) == Live!InState(X, {"reset"}) \cup Live!OfType(X, "unstable")
  <2>1. A \subseteq B /\ B \subseteq G  BY <1>1
  <2>2. of(A) \subseteq of(B) /\ IsFiniteSet(of(B))
    <3> HIDE DEF A, B
    <3> QED  BY <1>2, <2>1, FS_Union
  <2>3. p \in Live!Pairs(F) /\ Live!Cardinality(of(A)) > Tune.resetLimit  BY DEF Live!RepeatedReset
  <2> HIDE DEF of
  <2>4. Live!Cardinality(of(B)) > Tune.resetLimit  BY <2>2, <2>3, CountGrows, TuneAssumption
  <2> QED  BY <1>1, <2>3, <2>4 DEF Live!RepeatedReset, of
<1> QED  BY <1>3, <1>4, <1>5, <1>6, <1>7 DEF Live!Patterns

LEMMA UrgencyRises ==
  ASSUME NEW b, b.confidence \in Nat
  PROVE  UrgencyGrows(b)
<1> DEFINE S(n) == Live!DeviationBoost(Live!DeriveSeverity(b.type, b.confidence, n), 0)
           T(n, c) == Live!AssetBoost(S(n), c)
           P(n, c) == Live!ComputePriority(T(n, c), c, n, b.type, 0)
<1>1. \A n \in 1 .. 7 : S(n) \in 0 .. 3  BY DEF Live!DeviationBoost, Live!DeriveSeverity, Live!Points
<1>2. \A n \in 1 .. 6 : S(n) <= S(n + 1)  BY DEF Live!DeviationBoost, Live!DeriveSeverity, Live!Points
<1> HIDE DEF S
<1>3. \A c : \A n \in 1 .. 7 : T(n, c) \in 0 .. 3  BY <1>1 DEF Live!AssetBoost, Live!AtMost
<1>4. \A c : \A n \in 1 .. 6 : T(n, c) <= T(n + 1, c)  BY <1>1, <1>2 DEF Live!AssetBoost, Live!AtMost
<1>5. \A n \in 1 .. 6, c \in 0 .. 2 : T(n, c) <= T(n, c + 1)  BY <1>1 DEF Live!AssetBoost, Live!AtMost
<1> HIDE DEF T
<1> DEFINE base(v) == <<20, 40, 70, 90>>[v + 1]
           asset(c) == CASE c = 3 -> 10 [] c = 2 -> 5 [] OTHER -> 0
           kind == Live!Points(b.type \in {"scanning", "lateral_movement"}, 5)
           sum(v, c, n) == base(v) + asset(c) + 5 * (Live!AtMost(n, 5) - 1) + kind - Live!Decay(0)
<1>6. \A v \in 0 .. 3 : base(v) \in 20 .. 90 /\ \A w \in 0 .. v : base(w) <= base(v)  OBVIOUS
<1>7. \A c : asset(c) \in Nat  OBVIOUS
<1>8. \A c \in 0 .. 2 : asset(c) <= asset(c + 1)  OBVIOUS
<1>9. kind \in Nat /\ Live!Decay(0) = 0  BY DEF Live!Points, Live!Decay
<1>10. \A v, c, n : Live!ComputePriority(v, c, n, b.type, 0)
                      = IF sum(v, c, n) < 0 THEN 0 ELSE Live!AtMost(sum(v, c, n), 100)
  BY Zenon DEF Live!ComputePriority
<1> HIDE DEF base, asset, kind
<1>11. ASSUME NEW n \in 1 .. 7, NEW k \in 1 .. 7, n <= k, NEW v \in 0 .. 3, NEW w \in 0 .. 3, v <= w,
              NEW c, NEW d, asset(c) <= asset(d)
       PROVE  Live!ComputePriority(v, c, n, b.type, 0) <= Live!ComputePriority(w, d, k, b.type, 0)
  <2>1. Live!AtMost(n, 5) \in 1 .. 5 /\ Live!AtMost(k, 5) \in 1 .. 5 /\ Live!AtMost(n, 5) <= Live!AtMost(k, 5)
    BY <1>11 DEF Live!AtMost
  <2>2. base(v) \in 20 .. 90 /\ base(w) \in 20 .. 90 /\ base(v) <= base(w)  BY <1>6, <1>11
  <2>3. asset(c) \in Nat /\ asset(d) \in Nat /\ asset(c) <= asset(d)  BY <1>7, <1>11
  <2>4. sum(v, c, n) \in Int /\ sum(w, d, k) \in Int /\ sum(v, c, n) <= sum(w, d, k)
    <3>1. PICK x \in 20 .. 90, y \in 20 .. 90, e \in Nat, f \in Nat, i \in 1 .. 5, j \in 1 .. 5, h \in Nat :
            /\ x = base(v) /\ y = base(w) /\ e = asset(c) /\ f = asset(d)
            /\ i = Live!AtMost(n, 5) /\ j = Live!AtMost(k, 5) /\ h = kind
      BY <1>9, <2>1, <2>2, <2>3
    <3>2. x + e + 5 * (i - 1) + h - 0 <= y + f + 5 * (j - 1) + h - 0  BY <2>1, <2>2, <2>3, <3>1
    <3>3. sum(v, c, n) = x + e + 5 * (i - 1) + h - 0 /\ sum(w, d, k) = y + f + 5 * (j - 1) + h - 0
      BY <1>9, <3>1, Zenon
    <3> HIDE DEF sum
    <3> QED  BY <3>1, <3>2, <3>3
  <2> HIDE DEF sum
  <2> QED  BY <1>10, <2>4 DEF Live!AtMost
<1>12. \A c : \A n \in 1 .. 6 : P(n, c) <= P(n + 1, c)
  <2> TAKE c
  <2> TAKE n \in 1 .. 6
  <2>1. n \in 1 .. 7 /\ n + 1 \in 1 .. 7 /\ n <= n + 1  OBVIOUS
  <2>2. asset(c) <= asset(c)  BY <1>7
  <2> QED  BY <1>3, <1>4, <1>11, <2>1, <2>2
<1>13. \A n \in 1 .. 6, c \in 0 .. 2 : P(n, c) <= P(n, c + 1)
  <2> TAKE n \in 1 .. 6, c \in 0 .. 2
  <2>1. n \in 1 .. 7 /\ n <= n  OBVIOUS
  <2> QED  BY <1>3, <1>5, <1>8, <1>11, <2>1
<1>14. \A n, c : Urgency(b, n, c) = <<T(n, c), P(n, c)>>  BY Zenon DEF Urgency, T, S
<1> QED  BY <1>4, <1>5, <1>12, <1>13, <1>14 DEF UrgencyGrows

\* The sources the scan for pairs takes for scanning or suspicious.
Strong(F, s) ==
  \E b \in Live!Behaviours(F, 0, [t \in Live!Sources(F) |-> None]) :
     b.src = s /\ b.type \in {"scanning", "suspicious"} /\ b.confidence > 70

LEMMA StrongSources ==
  ASSUME NEW F, \A f \in F : f.last \in Nat, NEW s
  PROVE  Strong(F, s) <=>
           /\ s \in Live!Sources(F) /\ Live!Cardinality(Live!OfSource(F, s)) >= Tune.minFlows
           /\ Taken(F, s).type \in {"scanning", "suspicious"} /\ Taken(F, s).confidence > 70
<1>1. Live!Since(F, 0) = F  BY DEF Live!Since
<1> DEFINE as(t) == [src |-> t, type |-> Taken(F, t).type, confidence |-> Taken(F, t).confidence,
                     flows |-> Taken(F, t).flows,
                     deviation |-> Live!DeviationScore(Taken(F, t), [u \in Live!Sources(F) |-> None][t])]
           many == {t \in Live!Sources(F) : Live!Cardinality(Live!OfSource(F, t)) >= Tune.minFlows}
<1>2. Live!Behaviours(F, 0, [t \in Live!Sources(F) |-> None]) = {as(t) : t \in many}
  BY <1>1, Zenon DEF Live!Behaviours, Taken
<1>3. \A t : as(t).src = t /\ as(t).type = Taken(F, t).type /\ as(t).confidence = Taken(F, t).confidence
  OBVIOUS
<1> HIDE DEF as, many
<1>4. Strong(F, s) <=> \E t \in many : /\ as(t).src = s /\ as(t).type \in {"scanning", "suspicious"}
                                        /\ as(t).confidence > 70
  BY <1>2 DEF Strong
<1>5. Strong(F, s) <=> /\ s \in many /\ Taken(F, s).type \in {"scanning", "suspicious"}
                       /\ Taken(F, s).confidence > 70
  BY <1>3, <1>4
<1> QED  BY <1>5 DEF many

LEMMA PairsKept ==
  ASSUME NEW F, IsFiniteSet(F), NEW x, x.state \in Live!Blocked, \A f \in F \cup {x} : f.last \in Nat,
         NEW p \in PairsOf(F), Taken(F, p[1]).type = Taken(F \cup {x}, p[1]).type
  PROVE  p \in PairsOf(F \cup {x})
<1> DEFINE G == F \cup {x}
           P(X) == Live!OfPair(X, p)
           two(S) == Live!Cardinality(S) >= 2
           odd(X) == \/ two(Live!InState(P(X), Live!Blocked))
                     \/ two(Live!InState(P(X), {"reset"}))
                     \/ \E f \in P(X) : f.state = "completed" /\ f.slow
                     \/ \E f \in P(X) : f.type = "suspicious"
                     \/ two(Live!OfType(P(X), "scanning"))
<1>1. IsFiniteSet(G)  BY FS_AddElement
<1>2. \A X : p \in PairsOf(X) <=> p \in Live!Pairs(X) /\ (odd(X) \/ Strong(X, p[1]))
  BY DEF PairsOf, Live!AnomalousPairs, Strong
<1>3. p \in Live!Pairs(F) /\ Live!Pairs(F) \subseteq Live!Pairs(G)  BY <1>2 DEF Live!Pairs
<1>4. P(F) \subseteq P(G) /\ IsFiniteSet(P(G))
  <2>1. P(F) \subseteq P(G) /\ P(G) \subseteq G  BY DEF Live!OfPair
  <2> QED  BY <1>1, <2>1, FS_Subset
<1> HIDE DEF P
<1>5. ASSUME odd(F)  PROVE odd(G)
  <2>1. \A t, st : /\ Live!OfType(P(F), t) \subseteq Live!OfType(P(G), t) /\ Live!OfType(P(G), t) \subseteq P(G)
                   /\ Live!InState(P(F), st) \subseteq Live!InState(P(G), st)
                   /\ Live!InState(P(G), st) \subseteq P(G)
    BY <1>4 DEF Live!OfType, Live!InState
  <2>2. \A t, st : IsFiniteSet(Live!OfType(P(G), t)) /\ IsFiniteSet(Live!InState(P(G), st))
    BY <1>4, <2>1, FS_Subset
  <2>3. ASSUME NEW T, IsFiniteSet(T), NEW S, S \subseteq T, two(S)  PROVE two(T)
    BY <2>3, CountGrows
  <2> HIDE DEF two
  <2> QED  BY <1>4, <1>5, <2>1, <2>2, <2>3
<1>6. ASSUME Strong(F, p[1])  PROVE Strong(G, p[1])
  <2> DEFINE s == p[1]
             m == Live!Metrics(Live!OfSource(F, s))
             n == Live!Metrics(Live!OfSource(G, s))
  <2>1. MoreBlocked(m, n)  BY MetricsGrow
  <2>2. m \in Measures /\ n \in Measures /\ Taken(F, s) = Live!Classify(m) /\ Taken(G, s) = Live!Classify(n)
    BY <2>1 DEF MoreBlocked, Taken
  <2>3. m.total = Live!Cardinality(Live!OfSource(F, s)) /\ n.total = Live!Cardinality(Live!OfSource(G, s))
    BY DEF Live!Metrics
  <2>4. /\ s \in Live!Sources(F) /\ m.total >= Tune.minFlows
        /\ Taken(F, s).type \in {"scanning", "suspicious"} /\ Taken(F, s).confidence > 70
    BY <1>6, <2>3, StrongSources
  <2>5. s \in Live!Sources(G)  BY <2>4 DEF Live!Sources
  <2>6. Taken(G, s).type = Taken(F, s).type  OBVIOUS
  <2> HIDE DEF m, n, s
  <2>7. n.total >= Tune.minFlows  BY <2>1, <2>4, TuneAssumption DEF MoreBlocked, Measures
  <2>8. Taken(G, s).confidence > 70
    <3>1. CASE Taken(F, s).type = "suspicious"
      <4>1. m.suspicious >= 4  BY <2>2, <2>4, <3>1, TakenFor
      <4>2. n.suspicious >= 4  BY <2>1, <4>1 DEF MoreBlocked, Measures
      <4> QED  BY <2>2, <2>6, <3>1, <4>2, TakenFor
    <3>2. CASE Taken(F, s).type = "scanning"
      <4>1. Live!IsScanning(n)  BY <2>2, <2>6, <3>2, TakenFor
      <4>2. Taken(G, s).confidence
              = Live!AtMost(70 + Live!Points(Live!WidePorts(n), 10) + Live!Points(Live!WideDsts(n), 5)
                               + Live!Points(n.scanning >= 3, 5), 95)
        BY <2>2, <4>1, TakenFor
      <4>3. Live!WidePorts(n) \/ Live!WideDsts(n)  BY <4>1 DEF Live!IsScanning
      <4> QED  BY <4>2, <4>3 DEF Live!AtMost, Live!Points
    <3> QED  BY <2>4, <3>1, <3>2
  <2> QED  BY <2>3, <2>4, <2>5, <2>6, <2>7, <2>8, StrongSources DEF s
<1> QED  BY <1>2, <1>3, <1>5, <1>6

(* One more blocked flow never calms, for any flows whatever.               *)
LEMMA FlowsNeverCalm ==
  ASSUME NEW F, IsFiniteSet(F), NEW x, x.state \in Live!Blocked, \A f \in F \cup {x} : f.last \in Nat
  PROVE  NeverCalmer(F, F \cup {x})
<1> DEFINE G == F \cup {x}
           m(s) == Live!Metrics(Live!OfSource(F, s))
           n(s) == Live!Metrics(Live!OfSource(G, s))
<1>1. Live!Patterns(F, {}) \subseteq Live!Patterns(G, {})  BY PatternsGrow, FS_AddElement
<1>2. \A p \in PairsOf(F) : Taken(F, p[1]).type = Taken(G, p[1]).type => p \in PairsOf(G)  BY PairsKept
<1>3. ASSUME NEW s
      PROVE  /\ MoreBlocked(m(s), n(s)) /\ m(s) \in Measures /\ n(s) \in Measures
             /\ Taken(F, s) = Live!Classify(m(s)) /\ Taken(G, s) = Live!Classify(n(s))
             /\ ScoreOf(F, s) = Live!RiskScore(m(s), 0, Taken(F, s))
             /\ ScoreOf(G, s) = Live!RiskScore(n(s), 0, Taken(G, s))
  BY MetricsGrow DEF MoreBlocked, Taken, ScoreOf
<1>4. ASSUME NEW s, Taken(F, s).type = "scanning"  PROVE Taken(F, s).type = Taken(G, s).type
  <2> HIDE DEF m, n
  <2> QED  BY <1>3, <1>4, TakenFor, ScanningStays
<1>5. \A s : Live!ScoreIp(n(s), 0) >= Live!ScoreIp(m(s), 0)
  <2> HIDE DEF m, n
  <2> QED  BY <1>3, ScoreIpGrows
<1>6. ASSUME NEW s, Taken(F, s).type = Taken(G, s).type
      PROVE  ScoreOf(G, s) >= ScoreOf(F, s) /\ Live!Level(ScoreOf(G, s)) >= Live!Level(ScoreOf(F, s))
  <2> HIDE DEF m, n
  <2> QED  BY <1>3, <1>6, RiskGrows
<1>7. \A s : UrgencyGrows(Taken(G, s))
  <2> HIDE DEF m, n
  <2>1. \A s : Taken(G, s).confidence \in 50 .. 95  BY <1>3, TakenFor
  <2> QED  BY <2>1, UrgencyRises
<1> HIDE DEF G
<1> QED  BY <1>1, <1>2, <1>4, <1>5, <1>6, <1>7, Zenon DEF NeverCalmer, G

-----------------------------------------------------------------------------
(* One more incident of a session.  Least and greatest numbers of the sets *)
(* the session is worked out of.                                           *)

LEMMA LeastOf ==
  ASSUME NEW S \in SUBSET Nat, S # {}
  PROVE  Live!Min(S) \in S /\ \A x \in S : Live!Min(S) <= x
<1>1. \E m \in S : \A x \in S : m <= x  BY LeastNumber
<1> QED  BY <1>1, Zenon DEF Live!Min

LEMMA GreatestOf ==
  ASSUME NEW S \in SUBSET (-1 .. 100), S # {}
  PROVE  Live!Max(S) \in S /\ Live!Max(S) \in -1 .. 100 /\ \A x \in S : Live!Max(S) >= x
<1> DEFINE T == {100 - x : x \in S}
<1>1. PICK m \in T : \A y \in T : m <= y
  <2>0. \A x \in S : 100 - x \in Nat  OBVIOUS
  <2>1. T \subseteq Nat  BY <2>0
  <2>2. T # {}  OBVIOUS
  <2> HIDE DEF T
  <2> QED  BY <2>1, <2>2, LeastNumber
<1>2. PICK x \in S : m = 100 - x  BY <1>1
<1>3. \A y \in S : x >= y
  <2> TAKE y \in S
  <2>1. 100 - y \in T  OBVIOUS
  <2>2. x \in Int /\ y \in Int  OBVIOUS
  <2> HIDE DEF T
  <2> QED  BY <1>1, <1>2, <2>1, <2>2
<1>4. \E z \in S : \A y \in S : z >= y  BY <1>3
<1>5. Live!Max(S) \in S /\ \A y \in S : Live!Max(S) >= y  BY <1>4, Zenon DEF Live!Max
<1> QED  BY <1>5

LEMMA GreatestGrows ==
  ASSUME NEW S \in SUBSET (-1 .. 100), S # {}, NEW T \in SUBSET (-1 .. 100), \A x \in S : \E y \in T : x <= y
  PROVE  Live!Max(S) <= Live!Max(T)
<1>1. T # {}  OBVIOUS
<1>2. Live!Max(S) \in S /\ Live!Max(S) \in -1 .. 100  BY GreatestOf
<1>3. PICK y \in T : Live!Max(S) <= y  BY <1>2
<1>4. Live!Max(T) >= y /\ Live!Max(T) \in -1 .. 100  BY <1>1, GreatestOf
<1> QED  BY <1>2, <1>3, <1>4

-----------------------------------------------------------------------------
(* The behaviours of a session at their places, and those of the session   *)
(* with one more incident.                                                 *)

Placed(s) == DOMAIN s \subseteq Nat \ {0}
Continues(s, t) ==
  /\ Placed(s) /\ Placed(t) /\ DOMAIN s \subseteq DOMAIN t
  /\ \A i \in DOMAIN s : t[i] = s[i]
  /\ \A i \in DOMAIN s, j \in DOMAIN t : j \in DOMAIN s \/ i < j

TypesOf(incidents) == [k \in DOMAIN incidents |-> incidents[k].type]
PlacesOf(incidents) == Live!Compress(TypesOf(incidents))

LEMMA PlacesContinue ==
  ASSUME NEW S, NEW s \in Seq(S), NEW x \in S
  PROVE  Continues(PlacesOf(s), PlacesOf(Append(s, x)))
<1> DEFINE t == Append(s, x)
           p == TypesOf(s)
           q == TypesOf(t)
           P == {i \in DOMAIN p : i > 1 => p[i - 1] # p[i]}
           Q == {i \in DOMAIN q : i > 1 => q[i - 1] # q[i]}
<1>1. /\ Len(s) \in Nat /\ DOMAIN s = 1 .. Len(s) /\ DOMAIN t = 1 .. (Len(s) + 1)
      /\ \A i \in DOMAIN s : t[i] = s[i]
  OBVIOUS
<1> HIDE DEF t
<1>2. /\ DOMAIN p = 1 .. Len(s) /\ DOMAIN q = 1 .. (Len(s) + 1)
      /\ \A i \in 1 .. Len(s) : q[i] = p[i]
  BY <1>1 DEF TypesOf
<1>3. PlacesOf(s) = [i \in P |-> p[i]] /\ PlacesOf(t) = [i \in Q |-> q[i]]
  BY Zenon DEF PlacesOf, Live!Compress, Live!Restrict
<1> HIDE DEF p, q
<1>4. /\ P \subseteq 1 .. Len(s) /\ Q \subseteq 1 .. (Len(s) + 1)
      /\ \A i \in 1 .. Len(s) : i \in P <=> i \in Q
  BY <1>1, <1>2
<1> HIDE DEF P, Q
<1>5. P \subseteq Q /\ \A j \in Q : j \in P \/ j = Len(s) + 1  BY <1>1, <1>4
<1> QED  BY <1>1, <1>2, <1>3, <1>4, <1>5 DEF Continues, Placed, t

\* The places of a pattern's steps in a row of behaviours, each the first after the last.
LEMMA FirstAfterType ==
  ASSUME NEW s, Placed(s), NEW pattern, NEW k, NEW i
  PROVE  LET at == Live!FirstAfter(pattern, s, k, i)
             later == {j \in DOMAIN s : j > i /\ s[j] = pattern[k]}
         IN /\ at \in DOMAIN s \cup {-1}
            /\ at # -1 => at \in later /\ \A j \in later : at <= j
            /\ i # -1 /\ later # {} => at # -1
<1> DEFINE later == {j \in Live!After(s, i) : s[j] = pattern[k]}
           at == Live!FirstAfter(pattern, s, k, i)
<1>1. later = {j \in DOMAIN s : j > i /\ s[j] = pattern[k]}  BY DEF Live!After
<1>2. at = IF i = -1 \/ later = {} THEN -1 ELSE Live!Min(later)  BY Zenon DEF Live!FirstAfter
<1>3. later \in SUBSET Nat /\ later \subseteq DOMAIN s /\ -1 \notin later  BY <1>1 DEF Placed
<1> HIDE DEF later, at
<1>4. later # {} => Live!Min(later) \in later /\ \A j \in later : Live!Min(later) <= j  BY <1>3, LeastOf
<1> QED  BY <1>1, <1>2, <1>3, <1>4 DEF at

LEMMA StepsTaken ==
  ASSUME NEW s, Placed(s), NEW pattern, Len(pattern) \in Nat
  PROVE  LET at == Live!StepAt(pattern, s)
         IN at[0] = 0 /\ \A k \in 1 .. Len(pattern) : at[k] = Live!FirstAfter(pattern, s, k, at[k - 1])
<1> DEFINE n == Len(pattern)
           ST == DOMAIN s \cup {-1, 0}
           Step(g, k) == IF k = 0 THEN 0 ELSE Live!FirstAfter(pattern, s, k, g[k - 1])
           F == [k \in 1 .. n |-> [i \in ST |-> Live!FirstAfter(pattern, s, k, i)]]
<1>1. n \in Nat  OBVIOUS
<1> HIDE DEF n
<1>2. F \in [1 .. n -> [ST -> ST]]  BY FirstAfterType
<1>3. PICK g \in [0 .. n -> ST] : g[0] = 0 /\ \A k \in 1 .. n : g[k] = F[k][g[k - 1]]
  <2> HIDE DEF F
  <2>1. 0 \in ST  OBVIOUS
  <2> HIDE DEF ST
  <2>2. Runs(ST, 0, n, F)  BY <1>1, <1>2, <2>1, RecursionExists
  <2> QED  BY <2>2 DEF Runs
<1> HIDE DEF ST
<1>4. \A k \in 1 .. n : k - 1 \in 0 .. n /\ g[k] = Live!FirstAfter(pattern, s, k, g[k - 1])
  <2> TAKE k \in 1 .. n
  <2>1. k - 1 \in 0 .. n  BY <1>1
  <2>2. g[k] = F[k][g[k - 1]] /\ g[k - 1] \in ST
    <3> HIDE DEF F
    <3> QED  BY <1>3, <2>1
  <2> QED  BY <2>1, <2>2
<1>5. \A k \in 0 .. n : k = 0 \/ k \in 1 .. n  BY <1>1
<1>6. g = [k \in 0 .. n |-> Step(g, k)]  BY <1>3, <1>4, <1>5
<1> DEFINE h == CHOOSE f : f = [k \in 0 .. n |-> Step(f, k)]
<1>7. h = [k \in 0 .. n |-> Step(h, k)]  BY <1>6
<1>8. \A k \in 0 .. n : h[k] = Step(h, k)
  <2> HIDE DEF h, Step
  <2> QED  BY <1>7
<1>9. Live!StepAt(pattern, s) = h  BY DEF Live!StepAt, n
<1> HIDE DEF h
<1> QED  BY <1>1, <1>8, <1>9 DEF n

\* Where a pattern of two or three steps runs through the row, its steps have places.
LEMMA StepsFound ==
  ASSUME NEW s, Placed(s), NEW pattern, Len(pattern) \in 2 .. 3, DOMAIN pattern = 1 .. Len(pattern),
         Live!IsSubsequence(pattern, s)
  PROVE  LET at == Live!StepAt(pattern, s) IN
         /\ at[0] = 0
         /\ \A k \in 1 .. (Len(pattern) - 1) :
              /\ at[k] \in DOMAIN s /\ at[k] > 0
              /\ \E j \in DOMAIN s : j > at[k] /\ s[j] = pattern[k + 1]
<1> DEFINE at == Live!StepAt(pattern, s)
           n == Len(pattern)
<1>1. at[0] = 0 /\ \A k \in 1 .. n : at[k] = Live!FirstAfter(pattern, s, k, at[k - 1])  BY StepsTaken
<1>2. PICK w \in [1 .. n -> DOMAIN s] :
        /\ \A i, j \in 1 .. n : i < j => w[i] < w[j]
        /\ \A i \in 1 .. n : s[w[i]] = pattern[i]
  BY DEF Live!IsSubsequence
<1>3. \A i \in 1 .. n : w[i] \in DOMAIN s /\ w[i] \in Nat \ {0}  BY <1>2 DEF Placed
<1> HIDE DEF at
<1>4. at[1] \in DOMAIN s /\ at[1] > 0 /\ at[1] <= w[1]
  <2>1. at[1] = Live!FirstAfter(pattern, s, 1, 0)  BY <1>1
  <2>2. 1 \in 1 .. n  OBVIOUS
  <2>3. w[1] \in {j \in DOMAIN s : j > 0 /\ s[j] = pattern[1]}  BY <1>2, <1>3, <2>2
  <2> HIDE DEF n
  <2> QED  BY <2>1, <2>3, FirstAfterType DEF Placed
<1>5. CASE n = 2
  <2>1. w[2] \in DOMAIN s /\ w[2] > at[1] /\ s[w[2]] = pattern[2]
    <3>1. 1 \in 1 .. n /\ 2 \in 1 .. n  BY <1>5
    <3>2. w[1] < w[2] /\ w[1] \in Nat /\ w[2] \in Nat  BY <1>2, <1>3, <3>1
    <3> QED  BY <1>2, <1>4, <3>1, <3>2 DEF Placed
  <2> QED  BY <1>1, <1>4, <1>5, <2>1 DEF at
<1>6. CASE n = 3
  <2>0. 1 \in 1 .. n /\ 2 \in 1 .. n /\ 3 \in 1 .. n  BY <1>6
  <2>1. /\ w[1] < w[2] /\ w[2] < w[3] /\ w[1] \in Nat /\ w[2] \in Nat /\ w[3] \in Nat
        /\ w[2] \in DOMAIN s /\ w[3] \in DOMAIN s /\ s[w[2]] = pattern[2] /\ s[w[3]] = pattern[3]
    BY <1>2, <1>3, <2>0
  <2>2. w[2] \in {j \in DOMAIN s : j > at[1] /\ s[j] = pattern[2]}  BY <1>4, <2>1 DEF Placed
  <2>3. at[2] = Live!FirstAfter(pattern, s, 2, at[1])  BY <1>1, <2>0
  <2>4. at[1] # -1  BY <1>4 DEF Placed
  <2>5. at[2] \in DOMAIN s /\ at[2] > at[1] /\ at[2] <= w[2]
    <3> HIDE DEF n
    <3> QED  BY <2>2, <2>3, <2>4, FirstAfterType
  <2>6. at[2] > 0 /\ w[3] > at[2]  BY <1>4, <2>1, <2>5 DEF Placed
  <2>7. \A k \in 1 .. (n - 1) : k = 1 \/ k = 2  BY <1>6
  <2> QED  BY <1>1, <1>4, <1>6, <2>1, <2>2, <2>5, <2>6, <2>7 DEF at
<1> QED  BY <1>5, <1>6

\* A row that goes on keeps the pattern that ran through it, and its gaps.
LEMMA SubsequenceStays ==
  ASSUME NEW s, NEW t, Continues(s, t), NEW pattern, Live!IsSubsequence(pattern, s)
  PROVE  Live!IsSubsequence(pattern, t)
<1>1. PICK w \in [DOMAIN pattern -> DOMAIN s] :
        /\ \A i, j \in DOMAIN pattern : i < j => w[i] < w[j]
        /\ \A i \in DOMAIN pattern : s[w[i]] = pattern[i]
  BY DEF Live!IsSubsequence
<1>2. w \in [DOMAIN pattern -> DOMAIN t] /\ \A i \in DOMAIN pattern : t[w[i]] = pattern[i]
  BY <1>1 DEF Continues
<1> QED  BY <1>1, <1>2 DEF Live!IsSubsequence

LEMMA GapsStay ==
  ASSUME NEW s, NEW t, Continues(s, t), NEW pattern, Len(pattern) \in 2 .. 3,
         DOMAIN pattern = 1 .. Len(pattern), Live!IsSubsequence(pattern, s)
  PROVE  Live!HasGaps(pattern, t) <=> Live!HasGaps(pattern, s)
<1> DEFINE n == Len(pattern)
           at == Live!StepAt(pattern, s)
           on == Live!StepAt(pattern, t)
           gap(u, i, k) == i > 0 /\ Live!After(u, i) # {} /\ u[Live!Min(Live!After(u, i))] # pattern[k + 1]
<1>1. n \in Nat /\ Placed(s) /\ Placed(t)  BY DEF Continues
<1>2. /\ at[0] = 0 /\ \A k \in 1 .. n : at[k] = Live!FirstAfter(pattern, s, k, at[k - 1])
      /\ on[0] = 0 /\ \A k \in 1 .. n : on[k] = Live!FirstAfter(pattern, t, k, on[k - 1])
  BY <1>1, StepsTaken
<1>3. \A k \in 1 .. (n - 1) : /\ at[k] \in DOMAIN s /\ at[k] > 0
                              /\ \E j \in DOMAIN s : j > at[k] /\ s[j] = pattern[k + 1]
  BY <1>1, StepsFound, ZenonT(60)
<1> HIDE DEF at, on
<1>4. ASSUME NEW k \in 1 .. n, NEW i, i \in DOMAIN s \cup {0},
             Live!FirstAfter(pattern, s, k, i) \in DOMAIN s
      PROVE  Live!FirstAfter(pattern, t, k, i) = Live!FirstAfter(pattern, s, k, i)
  <2> DEFINE a == Live!FirstAfter(pattern, s, k, i)
             b == Live!FirstAfter(pattern, t, k, i)
  <2>1. /\ a \in DOMAIN s /\ a > i /\ s[a] = pattern[k] /\ a # -1
        /\ \A j \in DOMAIN s : j > i /\ s[j] = pattern[k] => a <= j
    BY <1>1, <1>4, FirstAfterType DEF Placed
  <2>2. i # -1  BY <1>1, <1>4 DEF Placed
  <2>3. a \in {j \in DOMAIN t : j > i /\ t[j] = pattern[k]}  BY <2>1 DEF Continues
  <2>4. /\ b \in DOMAIN t /\ b > i /\ t[b] = pattern[k] /\ b <= a
    <3> HIDE DEF a
    <3> QED  BY <1>1, <2>2, <2>3, FirstAfterType
  <2> HIDE DEF a, b
  <2>5. b \in DOMAIN s  BY <1>1, <2>1, <2>4 DEF Continues, Placed
  <2>6. a <= b  BY <2>1, <2>4, <2>5 DEF Continues
  <2> QED  BY <1>1, <2>1, <2>4, <2>5, <2>6 DEF Placed, a, b
<1>5. \A k \in 1 .. (n - 1) : on[k] = at[k]
  <2>1. 1 \in 1 .. (n - 1) /\ 1 \in 1 .. n /\ 1 - 1 = 0  OBVIOUS
  <2>2. on[1] = at[1]  BY <1>2, <1>3, <1>4, <2>1
  <2>3. CASE n = 2
    <3>1. \A k \in 1 .. (n - 1) : k = 1  BY <2>3
    <3> QED  BY <2>2, <3>1
  <2>4. CASE n = 3
    <3>1. 2 \in 1 .. (n - 1) /\ 2 \in 1 .. n /\ 2 - 1 = 1  BY <2>4
    <3>2. at[1] \in DOMAIN s \cup {0} /\ at[2] \in DOMAIN s  BY <1>3, <2>1, <3>1
    <3>3. on[2] = at[2]  BY <1>2, <1>4, <2>2, <3>1, <3>2
    <3>4. \A k \in 1 .. (n - 1) : k = 1 \/ k = 2  BY <2>4
    <3> QED  BY <2>2, <3>3, <3>4
  <2> QED  BY <2>3, <2>4
<1>6. ASSUME NEW k \in 1 .. (n - 1)  PROVE gap(t, on[k], k) <=> gap(s, at[k], k)
  <2> DEFINE i == at[k]
  <2>1. on[k] = i  BY <1>5
  <2>2. /\ i \in DOMAIN s /\ i > 0 /\ Live!After(s, i) # {}  BY <1>3 DEF Live!After
  <2>3. Live!After(s, i) \subseteq Live!After(t, i)  BY DEF Live!After, Continues
  <2>4. Live!After(s, i) \in SUBSET Nat /\ Live!After(t, i) \in SUBSET Nat
    BY <1>1 DEF Live!After, Placed
  <2> DEFINE a == Live!Min(Live!After(s, i))
             b == Live!Min(Live!After(t, i))
  <2>5. a \in Live!After(s, i) /\ \A j \in Live!After(s, i) : a <= j  BY <2>2, <2>4, LeastOf
  <2>6. b \in Live!After(t, i) /\ \A j \in Live!After(t, i) : b <= j
    <3>1. Live!After(t, i) # {}  BY <2>2, <2>3
    <3> QED  BY <2>4, <3>1, LeastOf
  <2> HIDE DEF i, a, b
  <2>7. b <= a /\ a \in DOMAIN s /\ b \in DOMAIN t /\ b > i  BY <2>3, <2>5, <2>6 DEF Live!After
  <2>8. b \in DOMAIN s  BY <1>1, <2>7 DEF Continues, Placed
  <2>9. b = a  BY <1>1, <2>5, <2>7, <2>8 DEF Live!After, Placed
  <2>10. t[b] = s[a]  BY <2>8, <2>9 DEF Continues
  <2> QED  BY <2>1, <2>2, <2>3, <2>10 DEF a, b, i
<1>7. /\ Live!HasGaps(pattern, s) <=> \E k \in 1 .. (n - 1) : gap(s, at[k], k)
      /\ Live!HasGaps(pattern, t) <=> \E k \in 1 .. (n - 1) : gap(t, on[k], k)
  BY Zenon DEF Live!HasGaps, at, on
<1> HIDE DEF gap
<1> QED  BY <1>6, <1>7

-----------------------------------------------------------------------------
(* The intents of a session and how sure they are.                         *)

SurePattern == <<"scanning", "unstable", "suspicious">>
ExploitPattern == <<"scanning", "unstable">>
LateralPattern == <<"scanning", "lateral_movement">>

LEMMA PatternFacts ==
  /\ Len(SurePattern) = 3 /\ DOMAIN SurePattern = 1 .. 3
  /\ Len(ExploitPattern) = 2 /\ DOMAIN ExploitPattern = 1 .. 2
  /\ Len(LateralPattern) = 2 /\ DOMAIN LateralPattern = 1 .. 2
  /\ SurePattern[1] = "scanning" /\ ExploitPattern[1] = "scanning" /\ LateralPattern[1] = "scanning"
  /\ \A x : Len(<<x>>) = 1 /\ DOMAIN <<x>> = 1 .. 1 /\ <<x>>[1] = x
BY DEF SurePattern, ExploitPattern, LateralPattern

LEMMA IntentsRead ==
  ASSUME NEW s
  PROVE  LET sub(p) == Live!IsSubsequence(p, s)
             only(b) == {s[i] : i \in DOMAIN s} = {b}
         IN \A x : x \in Live!IntentPatterns(s) <=>
              \/ x = <<"exploitation", IF sub(SurePattern) THEN SurePattern ELSE ExploitPattern>> /\ sub(ExploitPattern)
              \/ x = <<"lateral", LateralPattern>> /\ sub(LateralPattern)
              \/ x = <<"probing", <<"suspicious">> >> /\ only("suspicious")
              \/ /\ x = <<"instability", <<"unstable">> >>
                 /\ only("unstable") \/ Live!CountOf(s, "unstable") > Live!Cardinality(DOMAIN s) \div 2
<1> DEFINE sub(p) == Live!IsSubsequence(p, s)
           only(b) == {s[i] : i \in DOMAIN s} = {b}
           often == only("unstable") \/ Live!CountOf(s, "unstable") > Live!Cardinality(DOMAIN s) \div 2
           A == {<<"exploitation", IF sub(SurePattern) THEN SurePattern ELSE ExploitPattern>> :
                   x \in {y \in {1} : sub(ExploitPattern)}}
           B == {<<"lateral", LateralPattern>> : x \in {y \in {1} : sub(LateralPattern)}}
           C == {<<"probing", <<"suspicious">> >> : x \in {y \in {1} : only("suspicious")}}
           E == {<<"instability", <<"unstable">> >> : x \in {y \in {1} : often}}
<1>1. Live!IntentPatterns(s) = A \cup B \cup C \cup E
  BY Zenon DEF Live!IntentPatterns, SurePattern, ExploitPattern, LateralPattern
<1> HIDE DEF sub, only, often
<1>2. \A x : x \in A <=> x = <<"exploitation", IF sub(SurePattern) THEN SurePattern ELSE ExploitPattern>>
                         /\ sub(ExploitPattern)
  OBVIOUS
<1>3. \A x : x \in B <=> x = <<"lateral", LateralPattern>> /\ sub(LateralPattern)  OBVIOUS
<1>4. \A x : x \in C <=> x = <<"probing", <<"suspicious">> >> /\ only("suspicious")  OBVIOUS
<1>5. \A x : x \in E <=> x = <<"instability", <<"unstable">> >> /\ often  OBVIOUS
<1> HIDE DEF A, B, C, E
<1> QED  BY <1>1, <1>2, <1>3, <1>4, <1>5, Zenon DEF sub, only, often

\* The confidence in a pattern, from the steps of it that occur and its gaps.
Sureness(k, n, c, gap) ==
  Live!AtMost(50 + 10 * k + Live!Points(c = 3, 10) + Live!Points(n >= 3, 10) - Live!Points(gap, 10), 95)
Occurring(pattern, s) == {i \in DOMAIN pattern : \E j \in DOMAIN s : s[j] = pattern[i]}

LEMMA ConfidenceIs ==
  ASSUME NEW pattern, Len(pattern) \in 1 .. 3, DOMAIN pattern = 1 .. Len(pattern), NEW s, NEW n, NEW c
  PROVE  /\ Live!IntentConfidence(pattern, s, n, c)
              = Sureness(Live!Cardinality(Occurring(pattern, s)), n, c, Len(pattern) > 1 /\ Live!HasGaps(pattern, s))
         /\ Live!Cardinality(Occurring(pattern, s)) \in 0 .. Len(pattern)
         /\ Live!IsSubsequence(pattern, s) => Live!Cardinality(Occurring(pattern, s)) = Len(pattern)
<1>1. /\ IsFiniteSet(DOMAIN pattern) /\ Cardinality(DOMAIN pattern) = Len(pattern)
  BY FS_Interval
<1>2. Live!Cardinality(DOMAIN pattern) = Cardinality(DOMAIN pattern)
  BY Zenon DEF Live!Cardinality, Cardinality
<1>3. Occurring(pattern, s) \subseteq DOMAIN pattern  BY DEF Occurring
<1>4. Live!Cardinality(Occurring(pattern, s)) \in 0 .. Len(pattern)  BY <1>1, <1>2, <1>3, CountGrows
<1>5. Live!IsSubsequence(pattern, s) => Occurring(pattern, s) = DOMAIN pattern
  BY DEF Occurring, Live!IsSubsequence
<1>6. Live!IntentConfidence(pattern, s, n, c)
        = Sureness(Live!Cardinality(Occurring(pattern, s)), n, c, Len(pattern) > 1 /\ Live!HasGaps(pattern, s))
  BY Zenon DEF Live!IntentConfidence, Sureness, Occurring
<1> QED  BY <1>1, <1>2, <1>4, <1>5, <1>6

LEMMA SurenessIs ==
  ASSUME NEW k \in 0 .. 3, NEW l \in 0 .. 3, NEW n \in Nat, NEW m \in Nat, n <= m, NEW c, NEW d,
         c = 3 => d = 3
  PROVE  /\ \A gap \in BOOLEAN : Sureness(k, n, c, gap) \in 40 .. 95
         /\ k <= l => \A gap \in BOOLEAN : Sureness(k, n, c, gap) <= Sureness(l, m, d, gap)
         /\ k < l => \A gap, cap \in BOOLEAN : Sureness(k, n, c, gap) <= Sureness(l, m, d, cap)
<1>1. /\ Live!Points(c = 3, 10) \in {0, 10} /\ Live!Points(d = 3, 10) \in {0, 10}
      /\ Live!Points(n >= 3, 10) \in {0, 10} /\ Live!Points(m >= 3, 10) \in {0, 10}
      /\ Live!Points(c = 3, 10) <= Live!Points(d = 3, 10)
      /\ Live!Points(n >= 3, 10) <= Live!Points(m >= 3, 10)
      /\ \A gap \in BOOLEAN : Live!Points(gap, 10) \in {0, 10}
  BY DEF Live!Points
<1> QED  BY <1>1 DEF Sureness, Live!AtMost

InOrder == {"exploitation", "lateral"}

LEMMA IntentTypes ==
  ASSUME NEW s, NEW x \in Live!IntentPatterns(s)
  PROVE  /\ x[1] \in InOrder \cup {"probing", "instability"}
         /\ Len(x[2]) \in 1 .. 3 /\ DOMAIN x[2] = 1 .. Len(x[2])
         /\ x[1] \in InOrder => /\ Len(x[2]) \in 2 .. 3 /\ x[2][1] = "scanning"
                                /\ Live!IsSubsequence(x[2], s)
<1>1. \/ /\ x = <<"exploitation", IF Live!IsSubsequence(SurePattern, s) THEN SurePattern ELSE ExploitPattern>>
         /\ Live!IsSubsequence(ExploitPattern, s)
      \/ x = <<"lateral", LateralPattern>> /\ Live!IsSubsequence(LateralPattern, s)
      \/ x = <<"probing", <<"suspicious">> >>
      \/ x = <<"instability", <<"unstable">> >>
  BY IntentsRead
<1> QED  BY <1>1, PatternFacts DEF InOrder

LEMMA OrderedStays ==
  ASSUME NEW s, NEW t, Continues(s, t), NEW n \in Nat, NEW m \in Nat, n <= m, NEW c, NEW d, c = 3 => d = 3,
         NEW x \in Live!IntentPatterns(s), x[1] \in InOrder
  PROVE  \E y \in Live!IntentPatterns(t) :
           /\ y[1] = x[1]
           /\ Live!IntentConfidence(x[2], s, n, c) <= Live!IntentConfidence(y[2], t, m, d)
<1>1. ASSUME NEW p, Len(p) \in 2 .. 3, DOMAIN p = 1 .. Len(p), Live!IsSubsequence(p, s)
      PROVE  /\ Live!IsSubsequence(p, t)
             /\ Live!IntentConfidence(p, s, n, c) <= Live!IntentConfidence(p, t, m, d)
  <2>1. Live!IsSubsequence(p, t)  BY <1>1, SubsequenceStays
  <2>2. Live!HasGaps(p, t) <=> Live!HasGaps(p, s)  BY <1>1, GapsStay
  <2> DEFINE gap == Len(p) > 1 /\ Live!HasGaps(p, s)
             cap == Len(p) > 1 /\ Live!HasGaps(p, t)
  <2>3. Len(p) \in 1 .. 3  BY <1>1
  <2>4. /\ Live!IntentConfidence(p, s, n, c) = Sureness(Len(p), n, c, gap)
        /\ Live!IntentConfidence(p, t, m, d) = Sureness(Len(p), m, d, cap)
    BY <1>1, <2>1, <2>3, ConfidenceIs
  <2>5. gap \in BOOLEAN /\ cap \in BOOLEAN /\ gap = cap  BY <2>2
  <2> HIDE DEF gap, cap
  <2>6. Len(p) \in 0 .. 3 /\ Len(p) <= Len(p)  BY <2>3
  <2>7. Sureness(Len(p), n, c, gap) <= Sureness(Len(p), m, d, gap)  BY <2>5, <2>6, SurenessIs
  <2> QED  BY <2>1, <2>4, <2>5, <2>7
<1>2. CASE x[1] = "lateral"
  <2>1. x = <<"lateral", LateralPattern>> /\ Live!IsSubsequence(LateralPattern, s)  BY <1>2, IntentsRead
  <2>2. /\ Live!IsSubsequence(LateralPattern, t)
        /\ Live!IntentConfidence(LateralPattern, s, n, c) <= Live!IntentConfidence(LateralPattern, t, m, d)
    BY <1>1, <2>1, PatternFacts
  <2>3. x \in Live!IntentPatterns(t)  BY <2>1, <2>2, IntentsRead
  <2> QED  BY <2>1, <2>2, <2>3
<1>3. CASE x[1] = "exploitation"
  <2> DEFINE P == IF Live!IsSubsequence(SurePattern, s) THEN SurePattern ELSE ExploitPattern
             Q == IF Live!IsSubsequence(SurePattern, t) THEN SurePattern ELSE ExploitPattern
  <2>1. x = <<"exploitation", P>> /\ Live!IsSubsequence(ExploitPattern, s)  BY <1>3, IntentsRead
  <2>2. Live!IsSubsequence(ExploitPattern, t)  BY <1>1, <2>1, PatternFacts
  <2>3. <<"exploitation", Q>> \in Live!IntentPatterns(t)  BY <2>2, IntentsRead
  <2>4. Live!IntentConfidence(P, s, n, c) <= Live!IntentConfidence(Q, t, m, d)
    <3>1. CASE Live!IsSubsequence(SurePattern, s)
      <4>1. P = SurePattern  BY <3>1
      <4>2. /\ Live!IsSubsequence(SurePattern, t)
            /\ Live!IntentConfidence(SurePattern, s, n, c) <= Live!IntentConfidence(SurePattern, t, m, d)
        BY <1>1, <3>1, PatternFacts
      <4>3. Q = SurePattern  BY <4>2
      <4> HIDE DEF P, Q
      <4> QED  BY <4>1, <4>2, <4>3
    <3>2. CASE ~Live!IsSubsequence(SurePattern, s) /\ ~Live!IsSubsequence(SurePattern, t)
      <4>1. P = ExploitPattern /\ Q = ExploitPattern  BY <3>2
      <4>2. Live!IntentConfidence(ExploitPattern, s, n, c) <= Live!IntentConfidence(ExploitPattern, t, m, d)
        BY <1>1, <2>1, PatternFacts
      <4> HIDE DEF P, Q
      <4> QED  BY <4>1, <4>2
    <3>3. CASE ~Live!IsSubsequence(SurePattern, s) /\ Live!IsSubsequence(SurePattern, t)
      <4>1. P = ExploitPattern /\ Q = SurePattern  BY <3>3
      <4> DEFINE gap == Len(ExploitPattern) > 1 /\ Live!HasGaps(ExploitPattern, s)
                 cap == Len(SurePattern) > 1 /\ Live!HasGaps(SurePattern, t)
      <4>2. /\ Live!IntentConfidence(ExploitPattern, s, n, c) = Sureness(2, n, c, gap)
            /\ Live!IntentConfidence(SurePattern, t, m, d) = Sureness(3, m, d, cap)
        <5>1. /\ Len(ExploitPattern) \in 1 .. 3 /\ DOMAIN ExploitPattern = 1 .. Len(ExploitPattern)
              /\ Len(SurePattern) \in 1 .. 3 /\ DOMAIN SurePattern = 1 .. Len(SurePattern)
              /\ Len(ExploitPattern) = 2 /\ Len(SurePattern) = 3
          BY PatternFacts
        <5> DEFINE k == Live!Cardinality(Occurring(ExploitPattern, s))
                   l == Live!Cardinality(Occurring(SurePattern, t))
        <5>2. Live!IntentConfidence(ExploitPattern, s, n, c) = Sureness(k, n, c, gap) /\ k = Len(ExploitPattern)
          BY <2>1, <5>1, ConfidenceIs
        <5>3. Live!IntentConfidence(SurePattern, t, m, d) = Sureness(l, m, d, cap) /\ l = Len(SurePattern)
          BY <3>3, <5>1, ConfidenceIs
        <5> HIDE DEF gap, cap, k, l
        <5> QED  BY <5>1, <5>2, <5>3
      <4>3. gap \in BOOLEAN /\ cap \in BOOLEAN  OBVIOUS
      <4> HIDE DEF gap, cap, P, Q
      <4>4. Sureness(2, n, c, gap) <= Sureness(3, m, d, cap)
        <5>1. 2 \in 0 .. 3 /\ 3 \in 0 .. 3 /\ 2 < 3  OBVIOUS
        <5> QED  BY <4>3, <5>1, SurenessIs, ZenonT(60)
      <4> QED  BY <4>1, <4>2, <4>4
    <3> QED  BY <3>1, <3>2, <3>3
  <2> HIDE DEF P, Q
  <2> QED  BY <2>1, <2>3, <2>4
<1> QED  BY <1>2, <1>3 DEF InOrder

\* An intent read off the order of the incidents is at least as sure as any other.
LEMMA OrderedIsSurest ==
  ASSUME NEW s, NEW n \in Nat, NEW c, NEW x \in Live!IntentPatterns(s), x[1] \notin InOrder,
         NEW o \in Live!IntentPatterns(s), o[1] \in InOrder
  PROVE  Live!IntentConfidence(x[2], s, n, c) <= Live!IntentConfidence(o[2], s, n, c)
<1>1. /\ Len(o[2]) \in 2 .. 3 /\ DOMAIN o[2] = 1 .. Len(o[2]) /\ o[2][1] = "scanning"
      /\ Live!IsSubsequence(o[2], s)
  BY IntentTypes
<1>2. PICK j \in DOMAIN s : s[j] = "scanning"
  <2>1. 1 \in DOMAIN o[2]  BY <1>1
  <2> QED  BY <1>1, <2>1 DEF Live!IsSubsequence
<1>3. {s[i] : i \in DOMAIN s} # {"suspicious"}  BY <1>2
<1>4. x = <<"instability", <<"unstable">> >>  BY <1>3, IntentsRead DEF InOrder
<1>5. Len(x[2]) = 1 /\ DOMAIN x[2] = 1 .. 1  BY <1>4, PatternFacts
<1> DEFINE k == Live!Cardinality(Occurring(x[2], s))
           gap == Len(x[2]) > 1 /\ Live!HasGaps(x[2], s)
           l == Len(o[2])
           cap == Len(o[2]) > 1 /\ Live!HasGaps(o[2], s)
<1>6. Live!IntentConfidence(x[2], s, n, c) = Sureness(k, n, c, gap) /\ k \in 0 .. 1
  <2>1. Len(x[2]) \in 1 .. 3 /\ DOMAIN x[2] = 1 .. Len(x[2])  BY <1>5
  <2>2. Live!IntentConfidence(x[2], s, n, c) = Sureness(k, n, c, gap) /\ k \in 0 .. Len(x[2])
    BY <2>1, ConfidenceIs
  <2> HIDE DEF k, gap
  <2> QED  BY <1>5, <2>2
<1>7. Live!IntentConfidence(o[2], s, n, c) = Sureness(l, n, c, cap)  BY <1>1, ConfidenceIs
<1>8. gap \in BOOLEAN /\ cap \in BOOLEAN /\ l \in 2 .. 3  BY <1>1
<1> HIDE DEF k, gap, l, cap
<1>9. k \in 0 .. 3 /\ l \in 0 .. 3 /\ k < l /\ n <= n  BY <1>6, <1>8
<1>10. Sureness(k, n, c, gap) <= Sureness(l, n, c, cap)  BY <1>8, <1>9, SurenessIs
<1> QED  BY <1>6, <1>7, <1>10

LEMMA ConfidenceType ==
  ASSUME NEW s, NEW n \in Nat, NEW c, NEW x \in Live!IntentPatterns(s)
  PROVE  Live!IntentConfidence(x[2], s, n, c) \in 40 .. 95
<1>1. Len(x[2]) \in 1 .. 3 /\ DOMAIN x[2] = 1 .. Len(x[2])  BY IntentTypes
<1> DEFINE k == Live!Cardinality(Occurring(x[2], s))
           gap == Len(x[2]) > 1 /\ Live!HasGaps(x[2], s)
<1>2. Live!IntentConfidence(x[2], s, n, c) = Sureness(k, n, c, gap) /\ k \in 0 .. Len(x[2])
  BY <1>1, ConfidenceIs
<1>3. gap \in BOOLEAN  OBVIOUS
<1> DEFINE l == Len(x[2])
<1>4. k \in 0 .. l /\ l \in 1 .. 3  BY <1>1, <1>2
<1> HIDE DEF k, gap, l
<1>5. k \in 0 .. 3 /\ n <= n /\ (c = 3 => c = 3)  BY <1>4
<1>6. Sureness(k, n, c, gap) \in 40 .. 95  BY <1>3, <1>5, SurenessIs
<1> QED  BY <1>2, <1>6

-----------------------------------------------------------------------------
(* What a session shows of its incidents.                                  *)

SeveritiesOf(s) == {i.severity : i \in Live!ToSet(s)}
PrioritiesOf(s) == {i.priority : i \in Live!ToSet(s)}
CriticalitiesOf(s) == {-1} \cup ({i.criticality : i \in Live!ToSet(s)} \ {None})
BehavioursOf(s) == {i.type : i \in Live!ToSet(s)}
CriticalityOf(s) == Live!Max(CriticalitiesOf(s))
IntentsOf(s) == Live!ClassifyIntents(PlacesOf(s), Len(s), CriticalityOf(s))
SuretiesOf(s) == {0} \cup {i.confidence : i \in IntentsOf(s)}
BoostOf(s, minutes) ==
  Live!Points(IntentsOf(s) # {} /\ Live!Burst(Live!TotalFlows(s), minutes), 10)

LEMMA SessionShows ==
  ASSUME NEW s, NEW minutes
  PROVE  LET e == Live!Enriched(s, minutes) IN
         /\ e.intents = IntentsOf(s) /\ e.severity = Live!Max(SeveritiesOf(s))
         /\ e.priority = Live!SessionPriority(PrioritiesOf(s), BehavioursOf(s), Len(s), CriticalityOf(s) = 3)
         /\ e.action = Live!DecideSession(Live!Max(SeveritiesOf(s)),
                                          Live!AtMost(Live!Max(SuretiesOf(s)) + BoostOf(s, minutes), 95))
         /\ e.step = Live!NextStep(BehavioursOf(s), Live!Primary(IntentsOf(s)))
BY Zenon DEF Live!Enriched, IntentsOf, SeveritiesOf, PrioritiesOf, BehavioursOf, CriticalityOf, CriticalitiesOf,
   SuretiesOf, BoostOf, PlacesOf, TypesOf

LEMMA IncidentsTyped ==
  ASSUME NEW s \in Seq(Incident), s # <<>>
  PROVE  /\ Live!ToSet(s) \subseteq Incident /\ Live!ToSet(s) # {}
         /\ SeveritiesOf(s) \in SUBSET (-1 .. 100) /\ SeveritiesOf(s) \subseteq 0 .. 3 /\ SeveritiesOf(s) # {}
         /\ PrioritiesOf(s) \in SUBSET (-1 .. 100) /\ PrioritiesOf(s) \subseteq 0 .. 100 /\ PrioritiesOf(s) # {}
         /\ CriticalitiesOf(s) \in SUBSET (-1 .. 100) /\ CriticalitiesOf(s) \subseteq -1 .. 3
         /\ CriticalitiesOf(s) # {}
<1>1. Live!ToSet(s) \subseteq Incident /\ Live!ToSet(s) # {}
  <2>1. 1 \in DOMAIN s /\ \A i \in DOMAIN s : s[i] \in Incident  OBVIOUS
  <2> QED  BY <2>1 DEF Live!ToSet
<1>2. SeveritiesOf(s) \subseteq 0 .. 3 /\ SeveritiesOf(s) # {}  BY <1>1, IncidentAssumption DEF SeveritiesOf
<1>3. PrioritiesOf(s) \subseteq 0 .. 100 /\ PrioritiesOf(s) # {}  BY <1>1, IncidentAssumption DEF PrioritiesOf
<1>4. CriticalitiesOf(s) \subseteq -1 .. 3 /\ CriticalitiesOf(s) # {}
  <2>1. \A i \in Live!ToSet(s) : i.criticality \in {None} \cup 0 .. 3  BY <1>1, IncidentAssumption
  <2>2. -1 \in -1 .. 3 /\ 0 .. 3 \subseteq -1 .. 3  OBVIOUS
  <2> QED  BY <2>1, <2>2 DEF CriticalitiesOf
<1>5. 0 .. 3 \subseteq -1 .. 100 /\ 0 .. 100 \subseteq -1 .. 100 /\ -1 .. 3 \subseteq -1 .. 100  OBVIOUS
<1> QED  BY <1>1, <1>2, <1>3, <1>4, <1>5

LEMMA IncidentsAppended ==
  ASSUME NEW s \in Seq(Incident), NEW x \in Incident
  PROVE  LET t == Append(s, x) IN
         /\ t \in Seq(Incident) /\ t # <<>> /\ Len(t) = Len(s) + 1 /\ Len(s) \in Nat
         /\ Live!ToSet(s) \subseteq Live!ToSet(t)
         /\ SeveritiesOf(s) \subseteq SeveritiesOf(t) /\ PrioritiesOf(s) \subseteq PrioritiesOf(t)
         /\ CriticalitiesOf(s) \subseteq CriticalitiesOf(t) /\ BehavioursOf(s) \subseteq BehavioursOf(t)
<1> DEFINE t == Append(s, x)
<1>1. /\ t \in Seq(Incident) /\ t # <<>> /\ Len(t) = Len(s) + 1 /\ Len(s) \in Nat
      /\ DOMAIN s \subseteq DOMAIN t /\ \A i \in DOMAIN s : t[i] = s[i]
  OBVIOUS
<1> HIDE DEF t
<1>2. Live!ToSet(s) \subseteq Live!ToSet(t)  BY <1>1 DEF Live!ToSet
<1> QED  BY <1>1, <1>2 DEF SeveritiesOf, PrioritiesOf, CriticalitiesOf, BehavioursOf, t

LEMMA BehavioursFinite ==
  ASSUME NEW s \in Seq(Incident)
  PROVE  IsFiniteSet(BehavioursOf(s))
<1>1. IsFiniteSet(DOMAIN s)  BY FS_Interval
<1> DEFINE f == [i \in DOMAIN s |-> s[i].type]
<1>2. BehavioursOf(s) = {f[i] : i \in DOMAIN s}  BY DEF BehavioursOf, Live!ToSet
<1> HIDE DEF f
<1> QED  BY <1>1, <1>2, ImageIsFinite

LEMMA CriticalityGrows ==
  ASSUME NEW s \in Seq(Incident), s # <<>>, NEW x \in Incident
  PROVE  CriticalityOf(s) = 3 => CriticalityOf(Append(s, x)) = 3
<1> DEFINE t == Append(s, x)
<1>1. t \in Seq(Incident) /\ t # <<>> /\ CriticalitiesOf(s) \subseteq CriticalitiesOf(t)  BY IncidentsAppended
<1> HIDE DEF t
<1>2. /\ CriticalitiesOf(s) \in SUBSET (-1 .. 100) /\ CriticalitiesOf(s) # {}
      /\ CriticalitiesOf(t) \in SUBSET (-1 .. 100) /\ CriticalitiesOf(t) \subseteq -1 .. 3 /\ CriticalitiesOf(t) # {}
  BY <1>1, IncidentsTyped
<1>3. CriticalityOf(t) \in CriticalitiesOf(t) /\ CriticalityOf(s) \in -1 .. 100
  BY <1>2, GreatestOf DEF CriticalityOf
<1>4. \A c \in CriticalitiesOf(s) : c <= c
  <2>1. \A c \in -1 .. 100 : c <= c  OBVIOUS
  <2> QED  BY <1>2, <2>1
<1>5. CriticalityOf(s) <= CriticalityOf(t)
  <2>1. \A c \in CriticalitiesOf(s) : \E d \in CriticalitiesOf(t) : c <= d  BY <1>1, <1>4
  <2> QED  BY <1>2, <2>1, GreatestGrows DEF CriticalityOf
<1> QED  BY <1>2, <1>3, <1>5 DEF t

LEMMA SeverityGrows ==
  ASSUME NEW s \in Seq(Incident), s # <<>>, NEW x \in Incident
  PROVE  LET t == Append(s, x) IN
         /\ Live!Max(SeveritiesOf(s)) \in 0 .. 3 /\ Live!Max(SeveritiesOf(t)) \in 0 .. 3
         /\ Live!Max(SeveritiesOf(s)) <= Live!Max(SeveritiesOf(t))
<1> DEFINE t == Append(s, x)
<1>1. t \in Seq(Incident) /\ t # <<>> /\ SeveritiesOf(s) \subseteq SeveritiesOf(t)  BY IncidentsAppended
<1> HIDE DEF t
<1>2. /\ SeveritiesOf(s) \in SUBSET (-1 .. 100) /\ SeveritiesOf(s) # {} /\ SeveritiesOf(s) \subseteq 0 .. 3
      /\ SeveritiesOf(t) \in SUBSET (-1 .. 100) /\ SeveritiesOf(t) # {} /\ SeveritiesOf(t) \subseteq 0 .. 3
  BY <1>1, IncidentsTyped
<1>3. Live!Max(SeveritiesOf(s)) \in 0 .. 3 /\ Live!Max(SeveritiesOf(t)) \in 0 .. 3  BY <1>2, GreatestOf
<1>4. \A c \in SeveritiesOf(s) : \E d \in SeveritiesOf(t) : c <= d  BY <1>1, <1>2
<1> QED  BY <1>2, <1>3, <1>4, GreatestGrows DEF t

LEMMA PriorityGrows ==
  ASSUME NEW s \in Seq(Incident), s # <<>>, NEW x \in Incident
  PROVE  LET t == Append(s, x) IN
         Live!SessionPriority(PrioritiesOf(s), BehavioursOf(s), Len(s), CriticalityOf(s) = 3)
           <= Live!SessionPriority(PrioritiesOf(t), BehavioursOf(t), Len(t), CriticalityOf(t) = 3)
<1> DEFINE t == Append(s, x)
<1>0. CriticalityOf(s) = 3 => CriticalityOf(t) = 3  BY CriticalityGrows
<1>1. /\ t \in Seq(Incident) /\ t # <<>> /\ PrioritiesOf(s) \subseteq PrioritiesOf(t)
      /\ BehavioursOf(s) \subseteq BehavioursOf(t) /\ Len(s) \in Nat /\ Len(t) = Len(s) + 1
  BY IncidentsAppended
<1> HIDE DEF t
<1>2. /\ PrioritiesOf(s) \in SUBSET (-1 .. 100) /\ PrioritiesOf(s) # {}
      /\ PrioritiesOf(t) \in SUBSET (-1 .. 100) /\ PrioritiesOf(t) # {}
  BY <1>1, IncidentsTyped
<1>3. Live!Max(PrioritiesOf(s)) \in -1 .. 100 /\ Live!Max(PrioritiesOf(t)) \in -1 .. 100  BY <1>2, GreatestOf
<1>4. Live!Max(PrioritiesOf(s)) <= Live!Max(PrioritiesOf(t))
  <2>1. \A c \in -1 .. 100 : c <= c  OBVIOUS
  <2>2. \A c \in PrioritiesOf(s) : \E d \in PrioritiesOf(t) : c <= d  BY <1>1, <1>2, <2>1
  <2> QED  BY <1>2, <2>2, GreatestGrows
<1>5. /\ Live!Cardinality(BehavioursOf(s)) \in Nat /\ Live!Cardinality(BehavioursOf(t)) \in Nat
      /\ Live!Cardinality(BehavioursOf(s)) <= Live!Cardinality(BehavioursOf(t))
  BY <1>1, BehavioursFinite, CountGrows
<1> DEFINE p1 == Live!Points(Live!Cardinality(BehavioursOf(s)) > 1, 10)
           p2 == Live!Points(Len(s) > 2, 10)
           p3 == Live!Points(CriticalityOf(s) = 3, 10)
           q1 == Live!Points(Live!Cardinality(BehavioursOf(t)) > 1, 10)
           q2 == Live!Points(Len(t) > 2, 10)
           q3 == Live!Points(CriticalityOf(t) = 3, 10)
<1>6. /\ p1 \in Nat /\ p2 \in Nat /\ p3 \in Nat /\ q1 \in Nat /\ q2 \in Nat /\ q3 \in Nat
      /\ p1 <= q1 /\ p2 <= q2 /\ p3 <= q3
  BY <1>0, <1>1, <1>5 DEF Live!Points
<1>7. /\ Live!SessionPriority(PrioritiesOf(s), BehavioursOf(s), Len(s), CriticalityOf(s) = 3)
           = Live!AtMost(Live!Max(PrioritiesOf(s)) + p1 + p2 + p3, 100)
      /\ Live!SessionPriority(PrioritiesOf(t), BehavioursOf(t), Len(t), CriticalityOf(t) = 3)
           = Live!AtMost(Live!Max(PrioritiesOf(t)) + q1 + q2 + q3, 100)
  BY Zenon DEF Live!SessionPriority
<1> HIDE DEF p1, p2, p3, q1, q2, q3
<1>8. Live!AtMost(Live!Max(PrioritiesOf(s)) + p1 + p2 + p3, 100)
        <= Live!AtMost(Live!Max(PrioritiesOf(t)) + q1 + q2 + q3, 100)
  <2> DEFINE u == Live!Max(PrioritiesOf(s))
             v == Live!Max(PrioritiesOf(t))
             a == u + p1 + p2 + p3
             b == v + q1 + q2 + q3
  <2>0. u \in Int /\ v \in Int /\ u <= v
    <3>1. u \in -1 .. 100 /\ v \in -1 .. 100 /\ u <= v  BY <1>3, <1>4
    <3> HIDE DEF u, v
    <3> QED  BY <3>1
  <2>1. a \in Int /\ b \in Int /\ a <= b
    <3> HIDE DEF u, v
    <3> QED  BY <1>6, <2>0
  <2> HIDE DEF a, b
  <2>2. Live!AtMost(a, 100) <= Live!AtMost(b, 100)  BY <2>1 DEF Live!AtMost
  <2> QED  BY <2>2 DEF a, b, u, v
<1> QED  BY <1>7, <1>8 DEF t

ConfidenceOf(s, p) == Live!IntentConfidence(p[2], PlacesOf(s), Len(s), CriticalityOf(s))
IntentOf(s, p) == [intent |-> p[1], confidence |-> ConfidenceOf(s, p)]
PatternsOf(s) == Live!IntentPatterns(PlacesOf(s))

LEMMA IntentsAre ==
  ASSUME NEW s
  PROVE  /\ IntentsOf(s) = {IntentOf(s, p) : p \in PatternsOf(s)}
         /\ \A p : IntentOf(s, p).intent = p[1] /\ IntentOf(s, p).confidence = ConfidenceOf(s, p)
<1>1. IntentsOf(s) = {IntentOf(s, p) : p \in PatternsOf(s)}
  BY Zenon DEF IntentsOf, Live!ClassifyIntents, IntentOf, ConfidenceOf, PatternsOf
<1>2. \A p : IntentOf(s, p).intent = p[1] /\ IntentOf(s, p).confidence = ConfidenceOf(s, p)
  BY DEF IntentOf
<1> QED  BY <1>1, <1>2

LEMMA IntentsGrow ==
  ASSUME NEW s \in Seq(Incident), s # <<>>, NEW x \in Incident
  PROVE  LET t == Append(s, x) IN
         /\ \A p \in PatternsOf(s) : p[1] \in InOrder =>
              \E q \in PatternsOf(t) : q[1] = p[1] /\ ConfidenceOf(s, p) <= ConfidenceOf(t, q)
         /\ \A p \in PatternsOf(s), o \in PatternsOf(s) :
              p[1] \notin InOrder /\ o[1] \in InOrder => ConfidenceOf(s, p) <= ConfidenceOf(s, o)
         /\ \A p \in PatternsOf(s) : ConfidenceOf(s, p) \in 40 .. 95
         /\ \A p \in PatternsOf(t) : ConfidenceOf(t, p) \in 40 .. 95
<1> DEFINE t == Append(s, x)
<1>1. Continues(PlacesOf(s), PlacesOf(t))  BY PlacesContinue
<1>2. Len(s) \in Nat /\ Len(t) \in Nat /\ Len(s) <= Len(t)  OBVIOUS
<1>3. CriticalityOf(s) = 3 => CriticalityOf(t) = 3  BY CriticalityGrows
<1> HIDE DEF t
<1>4. ASSUME NEW p \in PatternsOf(s), p[1] \in InOrder
      PROVE  \E q \in PatternsOf(t) : q[1] = p[1] /\ ConfidenceOf(s, p) <= ConfidenceOf(t, q)
  BY <1>1, <1>2, <1>3, <1>4, OrderedStays DEF PatternsOf, ConfidenceOf
<1>5. ASSUME NEW p \in PatternsOf(s), NEW o \in PatternsOf(s), p[1] \notin InOrder, o[1] \in InOrder
      PROVE  ConfidenceOf(s, p) <= ConfidenceOf(s, o)
  BY <1>2, <1>5, OrderedIsSurest DEF PatternsOf, ConfidenceOf
<1>6. \A p \in PatternsOf(s) : ConfidenceOf(s, p) \in 40 .. 95
  BY <1>2, ConfidenceType DEF PatternsOf, ConfidenceOf
<1>7. \A p \in PatternsOf(t) : ConfidenceOf(t, p) \in 40 .. 95
  BY <1>2, ConfidenceType DEF PatternsOf, ConfidenceOf
<1> QED  BY <1>4, <1>5, <1>6, <1>7 DEF t

LEMMA SurestGrows ==
  ASSUME NEW s \in Seq(Incident), s # <<>>, NEW x \in Incident
  PROVE  LET t == Append(s, x) IN
         /\ Live!Max(SuretiesOf(s)) \in 0 .. 95 /\ Live!Max(SuretiesOf(t)) \in 0 .. 95
         /\ IntentsOf(t) = {} => Live!Max(SuretiesOf(t)) = 0
         /\ (\E p \in PatternsOf(s) : p[1] \in InOrder) =>
              IntentsOf(t) # {} /\ Live!Max(SuretiesOf(s)) <= Live!Max(SuretiesOf(t))
<1> DEFINE t == Append(s, x)
<1>1. /\ \A p \in PatternsOf(s) : p[1] \in InOrder =>
              \E q \in PatternsOf(t) : q[1] = p[1] /\ ConfidenceOf(s, p) <= ConfidenceOf(t, q)
      /\ \A p \in PatternsOf(s), o \in PatternsOf(s) :
              p[1] \notin InOrder /\ o[1] \in InOrder => ConfidenceOf(s, p) <= ConfidenceOf(s, o)
      /\ \A p \in PatternsOf(s) : ConfidenceOf(s, p) \in 40 .. 95
      /\ \A p \in PatternsOf(t) : ConfidenceOf(t, p) \in 40 .. 95
  BY IntentsGrow
<1> HIDE DEF t
<1>2. \A u : SuretiesOf(u) = {0} \cup {ConfidenceOf(u, p) : p \in PatternsOf(u)}  BY IntentsAre DEF SuretiesOf
<1>3. /\ SuretiesOf(s) \subseteq 0 .. 95 /\ SuretiesOf(s) # {}
      /\ SuretiesOf(t) \subseteq 0 .. 95 /\ SuretiesOf(t) # {}
  <2>1. 0 \in 0 .. 95 /\ 40 .. 95 \subseteq 0 .. 95  OBVIOUS
  <2> QED  BY <1>1, <1>2, <2>1
<1>4. SuretiesOf(s) \in SUBSET (-1 .. 100) /\ SuretiesOf(t) \in SUBSET (-1 .. 100)
  <2>1. 0 .. 95 \subseteq -1 .. 100  OBVIOUS
  <2> QED  BY <1>3, <2>1, ZenonT(60)
<1>5. /\ Live!Max(SuretiesOf(s)) \in SuretiesOf(s) /\ Live!Max(SuretiesOf(t)) \in SuretiesOf(t)
  BY <1>3, <1>4, GreatestOf
<1>6. IntentsOf(t) = {} => Live!Max(SuretiesOf(t)) = 0
  BY <1>5 DEF SuretiesOf
<1>7. ASSUME NEW o \in PatternsOf(s), o[1] \in InOrder
      PROVE  IntentsOf(t) # {} /\ Live!Max(SuretiesOf(s)) <= Live!Max(SuretiesOf(t))
  <2>1. PICK q \in PatternsOf(t) : q[1] = o[1] /\ ConfidenceOf(s, o) <= ConfidenceOf(t, q)  BY <1>1, <1>7
  <2>2. IntentsOf(t) # {}
    <3>1. IntentsOf(t) = {IntentOf(t, p) : p \in PatternsOf(t)}  BY IntentsAre
    <3>2. IntentOf(t, q) \in IntentsOf(t)  BY <2>1, <3>1
    <3> QED  BY <3>2
  <2>3. ASSUME NEW c \in SuretiesOf(s)  PROVE \E d \in SuretiesOf(t) : c <= d
    <3>1. CASE c = 0
      <4>1. 0 \in SuretiesOf(t) /\ 0 <= 0  BY <1>2
      <4> QED  BY <3>1, <4>1
    <3>2. CASE c # 0
      <4>1. PICK p \in PatternsOf(s) : c = ConfidenceOf(s, p)  BY <1>2, <3>2
      <4>2. CASE p[1] \in InOrder
        <5>1. PICK r \in PatternsOf(t) : ConfidenceOf(s, p) <= ConfidenceOf(t, r)  BY <1>1, <4>2
        <5> QED  BY <1>2, <4>1, <5>1
      <4>3. CASE p[1] \notin InOrder
        <5>1. ConfidenceOf(s, p) <= ConfidenceOf(s, o)  BY <1>1, <1>7, <4>3
        <5>2. ConfidenceOf(s, p) \in 40 .. 95 /\ ConfidenceOf(s, o) \in 40 .. 95 /\ ConfidenceOf(t, q) \in 40 .. 95
          BY <1>1
        <5>3. ConfidenceOf(s, p) <= ConfidenceOf(t, q)
          <6> DEFINE a == ConfidenceOf(s, p)
                     b == ConfidenceOf(s, o)
                     d == ConfidenceOf(t, q)
          <6>1. a \in 40 .. 95 /\ b \in 40 .. 95 /\ d \in 40 .. 95 /\ a <= b /\ b <= d  BY <2>1, <5>1, <5>2
          <6> HIDE DEF a, b, d
          <6>2. a <= d  BY <6>1
          <6> QED  BY <6>2 DEF a, d
        <5> QED  BY <1>2, <4>1, <5>3
      <4> QED  BY <4>2, <4>3
    <3> QED  BY <3>1, <3>2
  <2> QED  BY <1>3, <1>4, <2>2, <2>3, GreatestGrows
<1> QED  BY <1>3, <1>5, <1>6, <1>7 DEF t

\* The flows of the incidents, added up from the first.
LEMMA FlowsAddUp ==
  ASSUME NEW s \in Seq(Incident)
  PROVE  \E g \in [0 .. Len(s) -> Nat] :
           /\ g[0] = 0 /\ \A k \in 1 .. Len(s) : g[k] = g[k - 1] + s[k].flows
           /\ Live!TotalFlows(s) = g[Len(s)]
<1> DEFINE n == Len(s)
           Step(g, k) == IF k = 0 THEN 0 ELSE g[k - 1] + s[k].flows
           F == [k \in 1 .. n |-> [i \in Nat |-> i + s[k].flows]]
<1>1. n \in Nat /\ \A k \in 1 .. n : s[k] \in Incident /\ s[k].flows \in Nat  BY IncidentAssumption
<1> HIDE DEF n
<1>2. F \in [1 .. n -> [Nat -> Nat]]  BY <1>1
<1>3. PICK g \in [0 .. n -> Nat] : g[0] = 0 /\ \A k \in 1 .. n : g[k] = F[k][g[k - 1]]
  <2> HIDE DEF F
  <2>1. Runs(Nat, 0, n, F)  BY <1>1, <1>2, RecursionExists
  <2> QED  BY <2>1 DEF Runs
<1>4. \A k \in 1 .. n : k - 1 \in 0 .. n /\ g[k] = g[k - 1] + s[k].flows
  <2> TAKE k \in 1 .. n
  <2>1. k - 1 \in 0 .. n  BY <1>1
  <2>2. g[k] = F[k][g[k - 1]] /\ g[k - 1] \in Nat
    <3> HIDE DEF F
    <3> QED  BY <1>3, <2>1
  <2> QED  BY <2>1, <2>2
<1>5. \A k \in 0 .. n : k = 0 \/ k \in 1 .. n  BY <1>1
<1>6. g = [k \in 0 .. n |-> Step(g, k)]  BY <1>3, <1>4, <1>5
<1> DEFINE h == CHOOSE f : f = [k \in 0 .. n |-> Step(f, k)]
<1>7. h = [k \in 0 .. n |-> Step(h, k)]  BY <1>6
<1>8. \A k \in 0 .. n : h[k] = Step(h, k)
  <2> HIDE DEF h, Step
  <2> QED  BY <1>7
<1> DEFINE P == {k \in 0 .. n : h[k] \in Nat}
<1>9. P = 0 .. n
  <2> HIDE DEF h
  <2>1. 0 \in P  BY <1>1, <1>8
  <2>2. \A k \in 1 .. n : k - 1 \in P => k \in P
    <3> TAKE k \in 1 .. n
    <3>1. k \in 0 .. n /\ k # 0  BY <1>1
    <3>2. h[k] = h[k - 1] + s[k].flows  BY <1>8, <3>1
    <3> QED  BY <1>1, <3>1, <3>2, SMTT(60)
  <2>3. P \subseteq 0 .. n  OBVIOUS
  <2> HIDE DEF P
  <2> QED  BY <1>1, <2>1, <2>2, <2>3, Repeated
<1>10. h \in [0 .. n -> Nat]
  <2>1. \A k \in 0 .. n : h[k] \in Nat  BY <1>9
  <2> HIDE DEF h, Step
  <2> QED  BY <1>7, <2>1
<1>11. Live!TotalFlows(s) = h[n]  BY DEF Live!TotalFlows, n
<1> HIDE DEF h
<1>12. h[0] = 0 /\ \A k \in 1 .. n : h[k] = h[k - 1] + s[k].flows  BY <1>1, <1>8
<1> QED  BY <1>10, <1>11, <1>12 DEF n

LEMMA FlowsGrow ==
  ASSUME NEW s \in Seq(Incident), NEW x \in Incident
  PROVE  /\ Live!TotalFlows(s) \in Nat /\ Live!TotalFlows(Append(s, x)) \in Nat
         /\ Live!TotalFlows(s) <= Live!TotalFlows(Append(s, x))
<1> DEFINE n == Len(s)
           t == Append(s, x)
<1>1. n \in Nat /\ Len(t) = n + 1 /\ t \in Seq(Incident) /\ \A k \in 1 .. n : t[k] = s[k]  OBVIOUS
<1>2. t[n + 1] = x /\ x.flows \in Nat  BY IncidentAssumption
<1>3. PICK g \in [0 .. n -> Nat] : /\ g[0] = 0 /\ \A k \in 1 .. n : g[k] = g[k - 1] + s[k].flows
                                   /\ Live!TotalFlows(s) = g[n]
  BY FlowsAddUp
<1> HIDE DEF t
<1>4. PICK h \in [0 .. (n + 1) -> Nat] : /\ h[0] = 0 /\ \A k \in 1 .. (n + 1) : h[k] = h[k - 1] + t[k].flows
                                         /\ Live!TotalFlows(t) = h[n + 1]
  BY <1>1, FlowsAddUp
<1> HIDE DEF n
<1> DEFINE P == {k \in 0 .. n : g[k] = h[k]}
<1>5. P = 0 .. n
  <2>1. 0 \in P  BY <1>1, <1>3, <1>4
  <2>2. \A k \in 1 .. n : k - 1 \in P => k \in P
    <3> TAKE k \in 1 .. n
    <3>1. k \in 0 .. n /\ k \in 1 .. (n + 1)  BY <1>1
    <3> QED  BY <1>1, <1>3, <1>4, <3>1
  <2>3. P \subseteq 0 .. n  OBVIOUS
  <2> HIDE DEF P
  <2> QED  BY <1>1, <2>1, <2>2, <2>3, Repeated
<1>6. g[n] = h[n] /\ g[n] \in Nat
  <2>1. n \in 0 .. n  BY <1>1
  <2> QED  BY <1>3, <1>5, <2>1
<1>7. h[n + 1] = h[n] + x.flows
  <2>1. n + 1 \in 1 .. (n + 1) /\ (n + 1) - 1 = n  BY <1>1
  <2> QED  BY <1>2, <1>4, <2>1
<1> QED  BY <1>2, <1>3, <1>4, <1>6, <1>7 DEF t

LEMMA BoostGrows ==
  ASSUME NEW s \in Seq(Incident), s # <<>>, NEW x \in Incident, NEW minutes \in 0 .. 2
  PROVE  LET t == Append(s, x) IN
         /\ BoostOf(s, minutes) \in {0, 10} /\ BoostOf(t, minutes) \in {0, 10}
         /\ IntentsOf(t) # {} => BoostOf(s, minutes) <= BoostOf(t, minutes)
         /\ IntentsOf(t) = {} => BoostOf(t, minutes) = 0
<1> DEFINE t == Append(s, x)
           a == Live!TotalFlows(s)
           b == Live!TotalFlows(t)
<1>1. a \in Nat /\ b \in Nat /\ a <= b  BY FlowsGrow
<1> HIDE DEF t, a, b
<1>2. Live!Burst(a, minutes) => Live!Burst(b, minutes)  BY <1>1 DEF Live!Burst
<1> DEFINE c == IntentsOf(s) # {} /\ Live!Burst(a, minutes)
           d == IntentsOf(t) # {} /\ Live!Burst(b, minutes)
<1>3. BoostOf(s, minutes) = Live!Points(c, 10) /\ BoostOf(t, minutes) = Live!Points(d, 10)
  BY Zenon DEF BoostOf, a, b
<1>4. (IntentsOf(t) # {} /\ c => d) /\ (IntentsOf(t) = {} => ~d)  BY <1>2
<1> HIDE DEF c, d
<1>5. /\ BoostOf(s, minutes) = IF c THEN 10 ELSE 0
      /\ BoostOf(t, minutes) = IF d THEN 10 ELSE 0
  BY <1>3 DEF Live!Points
<1> QED  BY <1>4, <1>5 DEF t

-----------------------------------------------------------------------------
(* The recommendation and the next step of a session.                      *)

LEMMA ActionsInOrder ==
  ASSUME NEW e
  PROVE  /\ e.action = "monitor" => Strength(e) = 1
         /\ e.action = "investigate" => Strength(e) = 2
         /\ e.action = "contain" => Strength(e) = 3
         /\ e.action = "block" => Strength(e) = 4
<1> DEFINE order == <<"monitor", "investigate", "contain", "block">>
<1>1. /\ order[1] = "monitor" /\ order[2] = "investigate" /\ order[3] = "contain" /\ order[4] = "block"
      /\ \A n \in 1 .. 4 : n = 1 \/ n = 2 \/ n = 3 \/ n = 4
  OBVIOUS
<1> HIDE DEF order
<1>2. Strength(e) = CHOOSE n \in 1 .. 4 : order[n] = e.action  BY DEF Strength, order
<1>3. ASSUME NEW k \in 1 .. 4, e.action = order[k]  PROVE Strength(e) = k
  <2>1. \A n \in 1 .. 4 : order[n] = e.action <=> n = k  BY <1>1, <1>3
  <2> QED  BY <1>2, <2>1
<1>4. 1 \in 1 .. 4 /\ 2 \in 1 .. 4 /\ 3 \in 1 .. 4 /\ 4 \in 1 .. 4  OBVIOUS
<1> QED  BY <1>1, <1>3, <1>4

LEMMA DecisionGrows ==
  ASSUME NEW v \in 0 .. 3, NEW w \in 0 .. 3, v <= w, NEW c \in Nat, NEW d \in Nat, c <= d, NEW old, NEW new,
         old.action = Live!DecideSession(v, c), new.action = Live!DecideSession(w, d)
  PROVE  Strength(old) <= Strength(new)
<1>1. Live!DecideSession(v, c) = IF v = 3 /\ c >= 70 THEN "block"
                                 ELSE IF v >= 2 /\ c >= 50 THEN "contain" ELSE IF v >= 1 THEN "investigate" ELSE "monitor"
  BY DEF Live!DecideSession
<1>2. Live!DecideSession(w, d) = IF w = 3 /\ d >= 70 THEN "block"
                                 ELSE IF w >= 2 /\ d >= 50 THEN "contain" ELSE IF w >= 1 THEN "investigate" ELSE "monitor"
  BY DEF Live!DecideSession
<1>3. Strength(old) = IF v = 3 /\ c >= 70 THEN 4 ELSE IF v >= 2 /\ c >= 50 THEN 3 ELSE IF v >= 1 THEN 2 ELSE 1
  BY <1>1, ActionsInOrder
<1>4. Strength(new) = IF w = 3 /\ d >= 70 THEN 4 ELSE IF w >= 2 /\ d >= 50 THEN 3 ELSE IF w >= 1 THEN 2 ELSE 1
  BY <1>2, ActionsInOrder
<1> QED  BY <1>3, <1>4

LEMMA StepNamesIntent ==
  ASSUME NEW s, Len(s) \in Nat, IntentsOf(s) # {}, NEW behaviours
  PROVE  Live!NextStep(behaviours, Live!Primary(IntentsOf(s))) \in {i.intent : i \in IntentsOf(s)}
<1> DEFINE I == IntentsOf(s)
           C == {i.confidence : i \in I}
           order == <<"exploitation", "lateral", "probing", "instability">>
           names == {i.intent : i \in Live!Surest(I)}
           K == {k \in DOMAIN order : order[k] \in names}
<1>1. /\ \A i \in I : i.confidence \in 40 .. 95 /\ i.intent \in {"exploitation", "lateral", "probing", "instability"}
  <2>1. \A p \in PatternsOf(s) : ConfidenceOf(s, p) \in 40 .. 95  BY ConfidenceType DEF PatternsOf, ConfidenceOf
  <2>2. \A p \in PatternsOf(s) : p[1] \in InOrder \cup {"probing", "instability"}  BY IntentTypes DEF PatternsOf
  <2>3. I = {IntentOf(s, p) : p \in PatternsOf(s)}  BY IntentsAre
  <2> HIDE DEF I
  <2>4. ASSUME NEW i \in I  PROVE \E p \in PatternsOf(s) : i.intent = p[1] /\ i.confidence = ConfidenceOf(s, p)
    <3>1. PICK p \in PatternsOf(s) : i = IntentOf(s, p)  BY <2>3
    <3> QED  BY <3>1, IntentsAre
  <2> QED  BY <2>1, <2>2, <2>4 DEF InOrder
<1> HIDE DEF I
<1>2. \E i \in I : \A j \in I : i.confidence >= j.confidence
  <2>1. C \subseteq 40 .. 95 /\ C # {}  BY <1>1 DEF I
  <2>2. 40 .. 95 \subseteq -1 .. 100  OBVIOUS
  <2> HIDE DEF C
  <2>3. Live!Max(C) \in C /\ \A c \in C : Live!Max(C) >= c
    <3>1. C \in SUBSET (-1 .. 100)  BY <2>1, <2>2
    <3> QED  BY <2>1, <3>1, GreatestOf
  <2> QED  BY <2>3 DEF C
<1>3. names # {} /\ names \subseteq {"exploitation", "lateral", "probing", "instability"}
  BY <1>1, <1>2 DEF Live!Surest
<1>4. names \subseteq {i.intent : i \in I}  BY DEF Live!Surest
<1> HIDE DEF names
<1>5. K \in SUBSET Nat /\ K # {}
  <2>1. /\ DOMAIN order = 1 .. 4 /\ order[1] = "exploitation" /\ order[2] = "lateral" /\ order[3] = "probing"
        /\ order[4] = "instability"
    OBVIOUS
  <2> HIDE DEF order
  <2>2. \A n \in names : \E k \in 1 .. 4 : order[k] = n  BY <1>3, <2>1
  <2>3. PICK n \in names : TRUE  BY <1>3
  <2>4. PICK k \in 1 .. 4 : order[k] = n  BY <2>2
  <2>5. k \in K /\ K \subseteq Nat  BY <2>1, <2>4
  <2> HIDE DEF K
  <2> QED  BY <2>5
<1>6. Live!Min(K) \in K
  <2> HIDE DEF K
  <2> QED  BY <1>5, LeastOf
<1>7. order[Live!Min(K)] \in names  BY <1>6
<1>8. Live!Primary(I) = order[Live!Min(K)]
  <2>1. I # {}  BY DEF I
  <2> QED  BY <2>1, Zenon DEF Live!Primary, Live!FirstNamed, names
<1> HIDE DEF order, K
<1>9. Live!Primary(I) \in names /\ Live!Primary(I) # None  BY <1>3, <1>7, <1>8, NoneAssumption
<1>10. Live!NextStep(behaviours, Live!Primary(I)) = Live!Primary(I)  BY <1>9, Zenon DEF Live!NextStep
<1> QED  BY <1>4, <1>9, <1>10 DEF I

(* One more incident never makes a session look less alarming, for any     *)
(* incidents of a source in any order.                                     *)
LEMMA SessionsNeverCalm ==
  ASSUME NEW s \in Seq(Incident), s # <<>>, NEW x \in Incident, NEW minutes \in 0 .. 2
  PROVE  NoLessAlarming(Live!Enriched(s, minutes), Live!Enriched(Append(s, x), minutes))
<1> DEFINE t == Append(s, x)
           old == Live!Enriched(s, minutes)
           new == Live!Enriched(t, minutes)
           v == Live!Max(SeveritiesOf(s))
           w == Live!Max(SeveritiesOf(t))
           a == Live!Max(SuretiesOf(s))
           b == Live!Max(SuretiesOf(t))
           c == BoostOf(s, minutes)
           d == BoostOf(t, minutes)
<1>1. /\ old.intents = IntentsOf(s) /\ old.severity = v
      /\ old.priority = Live!SessionPriority(PrioritiesOf(s), BehavioursOf(s), Len(s), CriticalityOf(s) = 3)
      /\ old.action = Live!DecideSession(v, Live!AtMost(a + c, 95))
  BY SessionShows
<1>2. /\ new.intents = IntentsOf(t) /\ new.severity = w
      /\ new.priority = Live!SessionPriority(PrioritiesOf(t), BehavioursOf(t), Len(t), CriticalityOf(t) = 3)
      /\ new.action = Live!DecideSession(w, Live!AtMost(b + d, 95))
      /\ new.step = Live!NextStep(BehavioursOf(t), Live!Primary(IntentsOf(t)))
  BY SessionShows
<1>3. v \in 0 .. 3 /\ w \in 0 .. 3 /\ v <= w  BY SeverityGrows
<1>4. old.priority <= new.priority  BY <1>1, <1>2, PriorityGrows
<1>5. /\ a \in 0 .. 95 /\ b \in 0 .. 95 /\ (IntentsOf(t) = {} => b = 0)
      /\ (\E p \in PatternsOf(s) : p[1] \in InOrder) => IntentsOf(t) # {} /\ a <= b
  BY SurestGrows
<1>6. /\ c \in {0, 10} /\ d \in {0, 10} /\ (IntentsOf(t) # {} => c <= d) /\ (IntentsOf(t) = {} => d = 0)
  BY BoostGrows
<1>7. \A p \in PatternsOf(s) : p[1] \in InOrder =>
        \E q \in PatternsOf(t) : q[1] = p[1] /\ ConfidenceOf(s, p) <= ConfidenceOf(t, q)
  BY IntentsGrow
<1>8. Len(t) \in Nat  OBVIOUS
<1> HIDE DEF t, old, new, v, w, a, b, c, d
<1>9. ASSUME NEW i \in Ordered(old)
      PROVE  /\ \E p \in PatternsOf(s) : p[1] \in InOrder
             /\ \E j \in Ordered(new) : j.intent = i.intent /\ j.confidence >= i.confidence
  <2>1. PICK p \in PatternsOf(s) : i = IntentOf(s, p)  BY <1>1, IntentsAre DEF Ordered
  <2>2. i.intent = p[1] /\ i.confidence = ConfidenceOf(s, p) /\ p[1] \in InOrder
    BY <2>1, IntentsAre DEF Ordered, InOrder
  <2>3. PICK q \in PatternsOf(t) : q[1] = p[1] /\ ConfidenceOf(s, p) <= ConfidenceOf(t, q)  BY <1>7, <2>2
  <2> DEFINE j == IntentOf(t, q)
  <2>4. j \in IntentsOf(t) /\ j.intent = q[1] /\ j.confidence = ConfidenceOf(t, q)  BY IntentsAre
  <2> HIDE DEF j
  <2>5. j \in Ordered(new)  BY <1>2, <2>2, <2>3, <2>4 DEF Ordered, InOrder
  <2> QED  BY <2>2, <2>3, <2>4, <2>5
<1>10. ASSUME Ordered(old) # {}  PROVE Strength(new) >= Strength(old)
  <2>1. IntentsOf(t) # {} /\ a <= b /\ c <= d  BY <1>5, <1>6, <1>9, <1>10
  <2> DEFINE e == Live!AtMost(a + c, 95)
             f == Live!AtMost(b + d, 95)
  <2>2. e \in Nat /\ f \in Nat /\ e <= f  BY <1>5, <1>6, <2>1 DEF Live!AtMost
  <2>3. old.action = Live!DecideSession(v, e) /\ new.action = Live!DecideSession(w, f)  BY <1>1, <1>2
  <2> HIDE DEF e, f
  <2>4. Strength(old) <= Strength(new)  BY <1>3, <2>2, <2>3, DecisionGrows
  <2> QED  BY <2>4
<1>11. ASSUME Strength(new) > 2  PROVE new.step \in {i.intent : i \in new.intents}
  <2>1. IntentsOf(t) # {}
    <3> SUFFICES ASSUME IntentsOf(t) = {}  PROVE FALSE  OBVIOUS
    <3>1. b = 0 /\ d = 0  BY <1>5, <1>6
    <3>2. Live!AtMost(b + d, 95) = 0  BY <3>1 DEF Live!AtMost
    <3>3. new.action \in {"investigate", "monitor"}  BY <1>2, <1>3, <3>2 DEF Live!DecideSession
    <3> QED  BY <1>11, <3>3, ActionsInOrder
  <2> QED  BY <1>2, <1>8, <2>1, StepNamesIntent
<1> QED  BY <1>1, <1>2, <1>3, <1>4, <1>9, <1>10, <1>11 DEF NoLessAlarming, old, new, t

-----------------------------------------------------------------------------
(* The tables the evidence is stored in.                                   *)

TablesIInv ==
  /\ topic = "sessions" => table \in Seq(Incident)
  /\ topic = "flows" => table \in Seq({WithId(n, f) : n \in Nat, f \in LiveFlow}) /\ stored \in Nat

LEMMA SetOfRows ==
  ASSUME NEW S, NEW s \in Seq(S)
  PROVE  /\ IsFiniteSet(ToSet(s)) /\ ToSet(s) \subseteq S
         /\ \A x \in S : ToSet(Append(s, x)) = ToSet(s) \cup {x} /\ Last(Append(s, x)) = x
<1>1. Len(s) \in Nat /\ DOMAIN s = 1 .. Len(s) /\ \A i \in DOMAIN s : s[i] \in S  OBVIOUS
<1>2. IsFiniteSet(ToSet(s))
  <2>1. IsFiniteSet(DOMAIN s)  BY <1>1, FS_Interval
  <2> QED  BY <2>1, ImageIsFinite DEF ToSet
<1>3. ToSet(s) \subseteq S  BY <1>1 DEF ToSet
<1>4. ASSUME NEW x \in S  PROVE ToSet(Append(s, x)) = ToSet(s) \cup {x} /\ Last(Append(s, x)) = x
  <2> DEFINE t == Append(s, x)
  <2>1. /\ DOMAIN t = DOMAIN s \cup {Len(s) + 1} /\ \A i \in DOMAIN s : t[i] = s[i]
        /\ t[Len(s) + 1] = x /\ Len(t) = Len(s) + 1
    BY <1>1
  <2> HIDE DEF t
  <2>2. ToSet(t) = ToSet(s) \cup {x}  BY <2>1 DEF ToSet
  <2> QED  BY <2>1, <2>2 DEF Last, t
<1> QED  BY <1>2, <1>3, <1>4

LEMMA InitTables == Init => TablesIInv
BY DEF Init, TablesIInv

LEMMA StepTables == TablesIInv /\ [Next]_vars => TablesIInv'
<1> SUFFICES ASSUME TablesIInv, [Next]_vars  PROVE TablesIInv'  OBVIOUS
<1>1. CASE \E f \in LiveFlow : StoreFlow(f)
  <2>1. PICK f \in LiveFlow : StoreFlow(f)  BY <1>1
  <2>2. /\ topic = "flows" /\ topic' = topic /\ stored' = stored + 1
        /\ table' = Append(table, WithId(stored + 1, f))
    BY <2>1 DEF StoreFlow, Store, Rest
  <2> QED  BY <2>2 DEF TablesIInv
<1>2. CASE \E i \in Incident : StoreIncident(i)
  <2>1. PICK i \in Incident : StoreIncident(i)  BY <1>2
  <2>2. topic = "sessions" /\ topic' = topic /\ table' = Append(table, i)
    BY <2>1 DEF StoreIncident, Store, Rest
  <2> QED  BY <2>2 DEF TablesIInv
<1>3. CASE topic' = topic /\ topic \notin {"flows", "sessions"}  BY <1>3 DEF TablesIInv
<1>4. CASE UNCHANGED <<topic, table, stored>>  BY <1>4 DEF TablesIInv
<1> QED
  BY <1>1, <1>2, <1>3, <1>4 DEF Next, vars, lists, Rest, Store, StoreFeedback, AddRun, AddDigestRow, StoreEvent,
     RunRetention, Browse

LEMMA StepCalmsNever ==
  ASSUME TablesIInv, Next
  PROVE  /\ topic = "flows" /\ Last(table').state \in Live!Blocked => NeverCalmer(ToSet(table), ToSet(table'))
         /\ topic = "sessions" /\ table # <<>> =>
              \A minutes \in 0 .. 2 : NoLessAlarming(Live!Enriched(table, minutes), Live!Enriched(table', minutes))
<1>1. ASSUME topic = "flows", Last(table').state \in Live!Blocked
      PROVE  NeverCalmer(ToSet(table), ToSet(table'))
  <2> DEFINE Kept == {WithId(n, f) : n \in Nat, f \in LiveFlow}
  <2>1. PICK f \in LiveFlow : StoreFlow(f)
    BY <1>1 DEF Next, StoreFeedback, StoreIncident, AddRun, AddDigestRow, StoreEvent, RunRetention, Browse
  <2> DEFINE x == WithId(stored + 1, f)
  <2>2. table' = Append(table, x)  BY <2>1 DEF StoreFlow, Store
  <2>3. table \in Seq(Kept) /\ x \in Kept
    <3>1. table \in Seq(Kept) /\ stored + 1 \in Nat  BY <1>1 DEF TablesIInv
    <3>2. WithId(stored + 1, f) \in Kept  BY <3>1
    <3> QED  BY <3>1, <3>2
  <2>4. \A r \in Kept : r.last \in Nat
    <3>1. \A n \in Nat, g \in LiveFlow : WithId(n, g).last = g.last /\ g.last \in Nat
      BY LiveFlowAssumption DEF WithId
    <3> QED  BY <3>1
  <2> HIDE DEF Kept, x
  <2>5. /\ IsFiniteSet(ToSet(table)) /\ ToSet(table) \subseteq Kept
        /\ ToSet(table') = ToSet(table) \cup {x} /\ Last(table') = x
    BY <2>2, <2>3, SetOfRows
  <2>6. x.state \in Live!Blocked  BY <1>1, <2>5
  <2>7. \A r \in ToSet(table) \cup {x} : r.last \in Nat  BY <2>3, <2>4, <2>5
  <2>8. NeverCalmer(ToSet(table), ToSet(table) \cup {x})  BY <2>5, <2>6, <2>7, FlowsNeverCalm
  <2> QED  BY <2>5, <2>8
<1>2. ASSUME topic = "sessions", table # <<>>, NEW minutes \in 0 .. 2
      PROVE  NoLessAlarming(Live!Enriched(table, minutes), Live!Enriched(table', minutes))
  <2>1. PICK i \in Incident : StoreIncident(i)
    BY <1>2 DEF Next, StoreFeedback, StoreFlow, AddRun, AddDigestRow, StoreEvent, RunRetention, Browse
  <2>2. table' = Append(table, i)  BY <2>1 DEF StoreIncident, Store
  <2>3. table \in Seq(Incident)  BY <1>2 DEF TablesIInv
  <2>4. NoLessAlarming(Live!Enriched(table, minutes), Live!Enriched(Append(table, i), minutes))
    BY <1>2, <2>3, SessionsNeverCalm
  <2> QED  BY <2>2, <2>4
<1> QED  BY <1>1, <1>2

(* More evidence never calms, for any number of flows and of incidents, of *)
(* any kind and in any order: a blocked flow silences no pattern, clears   *)
(* no pair of hosts and lowers no score of a source that is still taken    *)
(* for what it was; one more incident takes back no attack read off the    *)
(* order of the incidents and weakens no recommendation against it         *)
(* (live_risk, bridge, intelligence, incidents, sessions).                 *)
THEOREM MoreEvidenceNeverCalms == Spec => EvidenceNeverCalms
<1> DEFINE A == /\ topic = "flows" /\ Last(table').state \in Live!Blocked =>
                     NeverCalmer(ToSet(table), ToSet(table'))
                /\ topic = "sessions" /\ table # <<>> =>
                     \A minutes \in 0 .. 2 :
                        NoLessAlarming(Live!Enriched(table, minutes), Live!Enriched(table', minutes))
<1>1. TablesIInv /\ Next => A  BY StepCalmsNever
<1>2. TablesIInv /\ [Next]_vars => [A]_vars  BY <1>1
<1> HIDE DEF A
<1>3. Spec => [][A]_vars  BY <1>2, InitTables, StepTables, PTL DEF Spec
<1> QED  BY <1>3 DEF A, EvidenceNeverCalms
=============================================================================
