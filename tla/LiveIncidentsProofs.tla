------------------------ MODULE LiveIncidentsProofs ------------------------
(***************************************************************************)
(* The incidents of the live side, for any sources, flows, rules, windows, *)
(* assets, baselines and thresholds, and any number of incidents, requests *)
(* and crashes.                                                            *)
(***************************************************************************)
EXTENDS LiveIncidents, FiniteSetTheorems, WellFoundedInduction, TLAPS

-----------------------------------------------------------------------------
(* Finite sets: Max, Min and SetToSeq are CHOOSEs.                         *)

\* A family of finite sets has a member that contains no other one.
LEMMA LeastFiniteSet ==
  ASSUME NEW S, NEW F, F # {}, \A T \in F : T \subseteq S /\ IsFiniteSet(T)
  PROVE  \E T \in F : \A U \in F : ~(U \subseteq T /\ U # T)
<1>1. F \subseteq FiniteSubsetsOf(S)  BY DEF FiniteSubsetsOf
<1>2. IsWellFoundedOn(StrictSubsetOrdering(S), FiniteSubsetsOf(S))  BY FS_StrictSubsetOrderingWellFounded
<1>3. PICK T \in F : \A U \in F : ~(<<U, T>> \in StrictSubsetOrdering(S))  BY <1>1, <1>2, WFMin
<1> QED  BY <1>3 DEF StrictSubsetOrdering

LEMMA MinIsMember ==
  ASSUME NEW S \in SUBSET Nat, IsFiniteSet(S), S # {}
  PROVE  Min(S) \in S
<1> DEFINE F == {T \in SUBSET S : T # {} /\ ~(\E x \in T : \A y \in T : x =< y)}
<1>1. F = {}
  <2> SUFFICES ASSUME F # {}  PROVE FALSE  OBVIOUS
  <2>1. \A T \in F : T \subseteq S  OBVIOUS
  <2>2. \A T \in F : T \subseteq S /\ IsFiniteSet(T)  BY FS_Subset
  <2>3. PICK T \in F : \A U \in F : ~(U \subseteq T /\ U # T)
    <3> HIDE DEF F
    <3> QED  BY <2>2, LeastFiniteSet
  <2>4. PICK x \in T : TRUE  BY <2>3
  <2>5. x \in Nat /\ T \in SUBSET Nat  BY <2>3, <2>4
  <2>6. T \ {x} \in SUBSET S /\ T \ {x} \notin F  BY <2>1, <2>3, <2>4
  <2>7. T # {x}
    <3>1. x =< x  BY <2>5
    <3> QED  BY <2>3, <3>1
  <2>8. PICK y \in T \ {x} : \A z \in T \ {x} : y =< z  BY <2>4, <2>6, <2>7
  <2>9. \E v \in T : \A z \in T : v =< z
    <3>1. CASE x =< y  BY <2>4, <2>5, <2>8, <3>1
    <3>2. CASE ~(x =< y)  BY <2>4, <2>5, <2>8, <3>2
    <3> QED  BY <3>1, <3>2
  <2> QED  BY <2>3, <2>9
<1>2. \E x \in S : \A y \in S : x =< y  BY <1>1
<1> QED  BY <1>2 DEF Min

LEMMA MaxIsMember ==
  ASSUME NEW S \in SUBSET Nat, IsFiniteSet(S), S # {}
  PROVE  Max(S) \in S
<1> DEFINE F == {T \in SUBSET S : T # {} /\ ~(\E x \in T : \A y \in T : x >= y)}
<1>1. F = {}
  <2> SUFFICES ASSUME F # {}  PROVE FALSE  OBVIOUS
  <2>1. \A T \in F : T \subseteq S  OBVIOUS
  <2>2. \A T \in F : T \subseteq S /\ IsFiniteSet(T)  BY FS_Subset
  <2>3. PICK T \in F : \A U \in F : ~(U \subseteq T /\ U # T)
    <3> HIDE DEF F
    <3> QED  BY <2>2, LeastFiniteSet
  <2>4. PICK x \in T : TRUE  BY <2>3
  <2>5. x \in Nat /\ T \in SUBSET Nat  BY <2>3, <2>4
  <2>6. T \ {x} \in SUBSET S /\ T \ {x} \notin F  BY <2>1, <2>3, <2>4
  <2>7. T # {x}
    <3>1. x >= x  BY <2>5
    <3> QED  BY <2>3, <3>1
  <2>8. PICK y \in T \ {x} : \A z \in T \ {x} : y >= z  BY <2>4, <2>6, <2>7
  <2>9. \E v \in T : \A z \in T : v >= z
    <3>1. CASE x >= y  BY <2>4, <2>5, <2>8, <3>1
    <3>2. CASE ~(x >= y)  BY <2>4, <2>5, <2>8, <3>2
    <3> QED  BY <3>1, <3>2
  <2> QED  BY <2>3, <2>9
<1>2. \E x \in S : \A y \in S : x >= y  BY <1>1
<1> QED  BY <1>2 DEF Max

LEMMA PrefixIsFinite ==
  ASSUME NEW n \in Nat, NEW S, S \subseteq 1..n
  PROVE  IsFiniteSet(S)
<1>1. 1 \in Int /\ n \in Int  OBVIOUS
<1>2. IsFiniteSet(1..n)  BY <1>1, FS_Interval
<1> QED  BY <1>2, FS_Subset

LEMMA ImageIsFinite ==
  ASSUME NEW S, IsFiniteSet(S), NEW f, NEW T, \A t \in T : \E s \in S : t = f[s]
  PROVE  IsFiniteSet(T)
<1> DEFINE R == {f[s] : s \in S}
           g == [s \in S |-> f[s]]
<1>1. g \in Surjection(S, R)  BY DEF Surjection
<1> HIDE DEF g
<1>2. IsFiniteSet(R)  BY <1>1, FS_Surjection
<1> QED  BY <1>2, FS_Subset

LEMMA ListOfSet ==
  ASSUME NEW S, IsFiniteSet(S)
  PROVE  /\ Cardinality(S) \in Nat
         /\ SetToSeq(S) \in [1..Cardinality(S) -> S]
         /\ \A i, j \in 1..Cardinality(S) : SetToSeq(S)[i] = SetToSeq(S)[j] => i = j
<1>1. Cardinality(S) \in Nat /\ ExistsBijection(1..Cardinality(S), S)  BY FS_CardinalityType
<1>2. PICK f \in [1..Cardinality(S) -> S] : IsInjective(f)
  BY <1>1 DEF ExistsBijection, Bijection, Injection, IsInjective
<1>3. SetToSeq(S) \in [1..Cardinality(S) -> S] /\ IsInjective(SetToSeq(S))  BY <1>2 DEF SetToSeq
<1> QED  BY <1>1, <1>3 DEF IsInjective

-----------------------------------------------------------------------------
(* Sequences of anything.                                                  *)

IsSequence(s) == s \in Seq({s[i] : i \in DOMAIN s})

LEMMA SequenceOf ==
  ASSUME NEW S, NEW s \in Seq(S)
  PROVE  IsSequence(s) /\ Len(s) \in Nat /\ DOMAIN s = 1..Len(s)
<1>1. Len(s) \in Nat /\ DOMAIN s = 1..Len(s)  OBVIOUS
<1>2. s \in [1..Len(s) -> {s[i] : i \in DOMAIN s}]  BY <1>1
<1> QED  BY <1>1, <1>2 DEF IsSequence

LEMMA SequenceFacts ==
  ASSUME NEW s, IsSequence(s)
  PROVE  Len(s) \in Nat /\ DOMAIN s = 1..Len(s)
BY DEF IsSequence

LEMMA Appended ==
  ASSUME NEW s, IsSequence(s), NEW x
  PROVE  LET t == Append(s, x) IN
         /\ IsSequence(t) /\ DOMAIN t = 1..(Len(s) + 1) /\ t[Len(s) + 1] = x
         /\ \A i \in DOMAIN s : t[i] = s[i]
<1> DEFINE S == {s[i] : i \in DOMAIN s} \cup {x}
           t == Append(s, x)
<1>1. s \in Seq(S)
  <2>1. Len(s) \in Nat /\ DOMAIN s = 1..Len(s) /\ s \in Seq({s[i] : i \in DOMAIN s})  BY DEF IsSequence
  <2>2. s \in [1..Len(s) -> S]  BY <2>1
  <2> QED  BY <2>1, <2>2
<1> HIDE DEF S
<1>2. x \in S  BY DEF S
<1>3. t \in Seq(S) /\ Len(t) = Len(s) + 1 /\ t[Len(s) + 1] = x /\ \A i \in DOMAIN s : t[i] = s[i]
  BY <1>1, <1>2
<1> QED  BY <1>3, SequenceOf

LEMMA Replaced ==
  ASSUME NEW s, IsSequence(s), NEW i, NEW x
  PROVE  LET t == [s EXCEPT ![i] = x] IN
         /\ IsSequence(t) /\ DOMAIN t = DOMAIN s /\ (i \in DOMAIN s => t[i] = x)
         /\ \A j \in DOMAIN s \ {i} : t[j] = s[j]
<1> DEFINE S == {s[j] : j \in DOMAIN s} \cup {x}
           t == [s EXCEPT ![i] = x]
<1>1. s \in Seq(S)
  <2>1. Len(s) \in Nat /\ DOMAIN s = 1..Len(s) /\ s \in Seq({s[j] : j \in DOMAIN s})  BY DEF IsSequence
  <2>2. s \in [1..Len(s) -> S]  BY <2>1
  <2> QED  BY <2>1, <2>2
<1> HIDE DEF S
<1>2. x \in S  BY DEF S
<1>3. t \in Seq(S) /\ DOMAIN t = DOMAIN s
  <2>1. Len(s) \in Nat /\ DOMAIN s = 1..Len(s) /\ s \in [1..Len(s) -> S]  BY <1>1
  <2>2. t \in [1..Len(s) -> S] /\ DOMAIN t = 1..Len(s)  BY <1>2, <2>1
  <2> QED  BY <2>1, <2>2
<1>4. (i \in DOMAIN s => t[i] = x) /\ \A j \in DOMAIN s \ {i} : t[j] = s[j]  BY <1>1
<1> QED  BY <1>3, <1>4, SequenceOf

LEMMA Joined ==
  ASSUME NEW s, IsSequence(s), NEW f, IsSequence(f)
  PROVE  LET t == s \o f IN
         /\ IsSequence(t) /\ DOMAIN t = 1..(Len(s) + Len(f))
         /\ \A i \in DOMAIN s : t[i] = s[i]
         /\ \A k \in DOMAIN f : t[Len(s) + k] = f[k]
         /\ \A j \in DOMAIN t : j \in DOMAIN s \/ \E k \in DOMAIN f : j = Len(s) + k
<1> DEFINE S == {s[j] : j \in DOMAIN s} \cup {f[j] : j \in DOMAIN f}
           t == s \o f
<1>1. s \in Seq(S) /\ Len(s) \in Nat /\ DOMAIN s = 1..Len(s)
  <2>1. Len(s) \in Nat /\ DOMAIN s = 1..Len(s) /\ s \in Seq({s[j] : j \in DOMAIN s})  BY DEF IsSequence
  <2>2. s \in [1..Len(s) -> S]  BY <2>1
  <2> QED  BY <2>1, <2>2
<1>2. f \in Seq(S) /\ Len(f) \in Nat /\ DOMAIN f = 1..Len(f)
  <2>1. Len(f) \in Nat /\ DOMAIN f = 1..Len(f) /\ f \in Seq({f[j] : j \in DOMAIN f})  BY DEF IsSequence
  <2>2. f \in [1..Len(f) -> S]  BY <2>1
  <2> QED  BY <2>1, <2>2
<1> HIDE DEF S
<1>3. t \in Seq(S) /\ Len(t) = Len(s) + Len(f)  BY <1>1, <1>2
<1>4. \A i \in DOMAIN s : t[i] = s[i]  BY <1>1, <1>2
<1>5. \A k \in DOMAIN f : t[Len(s) + k] = f[k]  BY <1>1, <1>2
<1>6. IsSequence(t) /\ DOMAIN t = 1..(Len(s) + Len(f))  BY <1>3, SequenceOf
<1>7. \A j \in DOMAIN t : j \in DOMAIN s \/ \E k \in DOMAIN f : j = Len(s) + k
  <2> SUFFICES ASSUME NEW j \in 1..(Len(s) + Len(f)), j \notin DOMAIN s
               PROVE  \E k \in DOMAIN f : j = Len(s) + k
    BY <1>6
  <2>1. j - Len(s) \in DOMAIN f /\ j = Len(s) + (j - Len(s))  BY <1>1, <1>2
  <2> QED  BY <2>1
<1> HIDE DEF t
<1>8. /\ IsSequence(t) /\ DOMAIN t = 1..(Len(s) + Len(f))
      /\ \A i \in DOMAIN s : t[i] = s[i]
      /\ \A k \in DOMAIN f : t[Len(s) + k] = f[k]
      /\ \A j \in DOMAIN t : j \in DOMAIN s \/ \E k \in DOMAIN f : j = Len(s) + k
  BY <1>4, <1>5, <1>6, <1>7
<1> QED  BY <1>8 DEF t

LEMMA TailOf ==
  ASSUME NEW s, IsSequence(s), s # <<>>
  PROVE  /\ IsSequence(Tail(s)) /\ Head(s) = s[1] /\ 1 \in DOMAIN s
         /\ \A i \in DOMAIN Tail(s) : \E j \in DOMAIN s : Tail(s)[i] = s[j]
<1> DEFINE S == {s[j] : j \in DOMAIN s}
<1>1. s \in Seq(S)  BY DEF IsSequence
<1>2. \A x \in S : \E j \in DOMAIN s : x = s[j]  OBVIOUS
<1> HIDE DEF S
<1>3. Tail(s) \in Seq(S) /\ Head(s) = s[1] /\ 1 \in DOMAIN s  BY <1>1
<1>4. \A i \in DOMAIN Tail(s) : Tail(s)[i] \in S  BY <1>3
<1> QED  BY <1>2, <1>3, <1>4, SequenceOf

-----------------------------------------------------------------------------
(* Incidents.                                                              *)

RowFields == {"src", "type", "sev", "status", "first", "last", "count", "crit", "prio", "act", "by",
              "told", "whole", "cut", "stale", "reopened"}
RowTyped(x, n) ==
  /\ DOMAIN x = RowFields /\ x = [f \in RowFields |-> x[f]]
  /\ x.sev \in 0..3 /\ x.first \in 0..n /\ x.last \in 0..n

\* Right after an activity.
PriceOf(x) == ComputePriority(x.sev, IF x.crit = None THEN 0 ELSE x.crit, x.count, x.type, 0)

Priced(x) == x.whole /\ ~x.stale => x.prio = PriceOf(x)
ToldOf(x) == x.by = "scan" /\ x.sev >= 1 => x.told \/ ~x.whole \/ x.cut
RowGood(x, n) == RowTyped(x, n) /\ Priced(x) /\ ToldOf(x)

Twins(x, y) ==
  /\ x.src = y.src /\ x.type = y.type /\ x.status \in Live /\ y.status \in Live
  /\ ~x.reopened /\ ~y.reopened
FarFrom(x, y) ==
  Twins(x, y) => x.last < y.first - Merge \/ (y.by = "rule" /\ Rule.cooldown < Merge)

RowsGood(rows, n) ==
  /\ IsSequence(rows)
  /\ \A i \in DOMAIN rows : RowGood(rows[i], n)
  /\ \A i, j \in DOMAIN rows : i < j => FarFrom(rows[i], rows[j])

\* A row that was written again is no closer to the later ones: it was found in the merge
\* window, in which they are not.
LEMMA RowReplaced ==
  ASSUME NEW n \in Nat, NEW rows, RowsGood(rows, n), NEW i, NEW r,
         i \in DOMAIN rows => RowGood(r, n),
         r.src = rows[i].src, r.type = rows[i].type, r.first = rows[i].first, r.by = rows[i].by,
         r.status \in Live /\ ~r.reopened => rows[i].status \in Live /\ ~rows[i].reopened,
         r.last = rows[i].last \/ (r.last = n /\ rows[i].last >= n - Merge)
  PROVE  RowsGood([rows EXCEPT ![i] = r], n)
<1> DEFINE new == [rows EXCEPT ![i] = r]
<1>1. /\ IsSequence(new) /\ DOMAIN new = DOMAIN rows /\ (i \in DOMAIN rows => new[i] = r)
      /\ \A j \in DOMAIN rows \ {i} : new[j] = rows[j]
      /\ DOMAIN rows = 1..Len(rows) /\ Len(rows) \in Nat
  BY Replaced, SequenceFacts DEF RowsGood
<1> HIDE DEF new
<1>2. \A j \in DOMAIN new : RowGood(new[j], n)  BY <1>1 DEF RowsGood
<1>3. ASSUME NEW j \in DOMAIN new, NEW k \in DOMAIN new, j < k  PROVE FarFrom(new[j], new[k])
  <2>1. FarFrom(rows[j], rows[k])  BY <1>1, <1>3 DEF RowsGood
  <2>2. CASE j # i /\ k # i  BY <1>1, <2>1, <2>2
  <2>3. CASE k = i
    <3>1. new[j] = rows[j] /\ new[k] = r  BY <1>1, <1>3, <2>3
    <3> QED  BY <2>1, <2>3, <3>1 DEF FarFrom, Twins
  <2>4. CASE j = i
    <3>1. new[j] = r /\ new[k] = rows[k] /\ k # i  BY <1>1, <1>3, <2>4
    <3>2. RowTyped(rows[j], n) /\ RowTyped(rows[k], n)  BY <1>1 DEF RowsGood, RowGood
    <3>3. /\ rows[j].last \in Int /\ rows[k].first \in Int /\ rows[k].first <= n /\ Merge \in Nat
      BY <3>2, WindowsAssumption DEF RowTyped
    <3>4. ASSUME Twins(r, rows[k])  PROVE Twins(rows[j], rows[k])  BY <2>4, <3>4 DEF Twins
    <3>5. ASSUME Twins(r, rows[k])
          PROVE  r.last < rows[k].first - Merge \/ (rows[k].by = "rule" /\ Rule.cooldown < Merge)
      <4>1. rows[j].last < rows[k].first - Merge \/ (rows[k].by = "rule" /\ Rule.cooldown < Merge)
        BY <2>1, <3>4, <3>5 DEF FarFrom
      <4>2. CASE r.last = rows[i].last  BY <2>4, <4>1, <4>2
      <4>3. CASE rows[i].last >= n - Merge  BY <2>4, <3>3, <4>1, <4>3
      <4> QED  BY <4>2, <4>3
    <3> QED  BY <3>1, <3>5 DEF FarFrom
  <2> QED  BY <2>2, <2>3, <2>4
<1>4. RowsGood(new, n)  BY <1>1, <1>2, <1>3 DEF RowsGood
<1> QED  BY <1>4 DEF new

\* New rows are far from the ones before.
LEMMA RowsJoined ==
  ASSUME NEW n \in Nat, NEW rows, RowsGood(rows, n), NEW f, IsSequence(f),
         \A k \in DOMAIN f : RowGood(f[k], n),
         \A i \in DOMAIN rows, k \in DOMAIN f : FarFrom(rows[i], f[k]),
         \A k, l \in DOMAIN f : k < l => FarFrom(f[k], f[l])
  PROVE  RowsGood(rows \o f, n)
<1> DEFINE new == rows \o f
<1>1. /\ IsSequence(new) /\ DOMAIN new = 1..(Len(rows) + Len(f))
      /\ \A i \in DOMAIN rows : new[i] = rows[i]
      /\ \A k \in DOMAIN f : new[Len(rows) + k] = f[k]
      /\ \A j \in DOMAIN new : j \in DOMAIN rows \/ \E k \in DOMAIN f : j = Len(rows) + k
      /\ DOMAIN rows = 1..Len(rows) /\ Len(rows) \in Nat
      /\ DOMAIN f = 1..Len(f) /\ Len(f) \in Nat
  <2>1. IsSequence(rows)  BY DEF RowsGood
  <2>2. Len(rows) \in Nat /\ DOMAIN rows = 1..Len(rows)  BY <2>1, SequenceFacts
  <2>3. Len(f) \in Nat /\ DOMAIN f = 1..Len(f)  BY SequenceFacts
  <2>4. /\ IsSequence(new) /\ DOMAIN new = 1..(Len(rows) + Len(f))
        /\ \A i \in DOMAIN rows : new[i] = rows[i]
        /\ \A k \in DOMAIN f : new[Len(rows) + k] = f[k]
        /\ \A j \in DOMAIN new : j \in DOMAIN rows \/ \E k \in DOMAIN f : j = Len(rows) + k
    BY <2>1, Joined
  <2> HIDE DEF new
  <2> QED  BY <2>2, <2>3, <2>4
<1> HIDE DEF new
<1>2. \A j \in DOMAIN new : RowGood(new[j], n)  BY <1>1 DEF RowsGood
<1>3. ASSUME NEW i \in DOMAIN new, NEW j \in DOMAIN new, i < j  PROVE FarFrom(new[i], new[j])
  <2>1. CASE j \in DOMAIN rows
    <3>1. i \in DOMAIN rows  BY <1>1, <1>3, <2>1
    <3> QED  BY <1>1, <1>3, <2>1, <3>1 DEF RowsGood
  <2>2. CASE j \notin DOMAIN rows
    <3>1. PICK l \in DOMAIN f : j = Len(rows) + l  BY <1>1, <2>2
    <3>2. CASE i \in DOMAIN rows  BY <1>1, <3>1, <3>2
    <3>3. CASE i \notin DOMAIN rows
      <4>1. PICK k \in DOMAIN f : i = Len(rows) + k  BY <1>1, <3>3
      <4>2. k < l  BY <1>1, <1>3, <3>1, <4>1
      <4> QED  BY <1>1, <3>1, <4>1, <4>2
    <3> QED  BY <3>2, <3>3
  <2> QED  BY <2>1, <2>2
<1>4. RowsGood(new, n)  BY <1>1, <1>2, <1>3 DEF RowsGood
<1> QED  BY <1>4 DEF new

LEMMA RowAppended ==
  ASSUME NEW n, NEW rows, RowsGood(rows, n), NEW r, RowGood(r, n), \A i \in DOMAIN rows : FarFrom(rows[i], r)
  PROVE  RowsGood(Append(rows, r), n)
<1> DEFINE new == Append(rows, r)
<1>1. /\ IsSequence(new) /\ DOMAIN new = 1..(Len(rows) + 1) /\ new[Len(rows) + 1] = r
      /\ \A i \in DOMAIN rows : new[i] = rows[i]
      /\ DOMAIN rows = 1..Len(rows) /\ Len(rows) \in Nat
  BY Appended, SequenceFacts DEF RowsGood
<1> HIDE DEF new
<1>2. \A j \in DOMAIN new : j \in DOMAIN rows \/ j = Len(rows) + 1  BY <1>1
<1>3. \A j \in DOMAIN new : RowGood(new[j], n)  BY <1>1, <1>2 DEF RowsGood
<1>4. ASSUME NEW i \in DOMAIN new, NEW j \in DOMAIN new, i < j  PROVE FarFrom(new[i], new[j])
  <2>1. i \in DOMAIN rows  BY <1>1, <1>4
  <2> QED  BY <1>1, <1>2, <1>4, <2>1 DEF RowsGood
<1>5. RowsGood(new, n)  BY <1>1, <1>3, <1>4 DEF RowsGood
<1> QED  BY <1>5 DEF new

\* Time passes.
LEMMA RowsLater ==
  ASSUME NEW n \in Nat, NEW m \in Nat, n <= m, NEW rows, RowsGood(rows, n)
  PROVE  RowsGood(rows, m)
<1>1. \A i \in DOMAIN rows : RowGood(rows[i], m)  BY DEF RowsGood, RowGood, RowTyped
<1> QED  BY <1>1 DEF RowsGood

LEMMA SeverityIsRank ==
  ASSUME NEW type, NEW confidence, NEW count
  PROVE  DeriveSeverity(type, confidence, count) \in 0..3
BY DEF DeriveSeverity, Points

\* The boosts never lower a severity.
LEMMA BoostsRaise ==
  ASSUME NEW sev \in 0..3, NEW deviation, NEW criticality
  PROVE  /\ AssetBoost(DeviationBoost(sev, deviation), criticality) \in 0..3
         /\ AssetBoost(DeviationBoost(sev, deviation), criticality) >= sev
<1>1. DeviationBoost(sev, deviation) \in 0..3 /\ DeviationBoost(sev, deviation) >= sev
  BY DEF DeviationBoost, AtMost
<1>2. ASSUME NEW r \in 0..3  PROVE AssetBoost(r, criticality) \in 0..3 /\ AssetBoost(r, criticality) >= r
  <2>1. CASE criticality = 3  BY <2>1 DEF AssetBoost, AtMost
  <2>2. CASE criticality = 2  BY <2>2 DEF AssetBoost, AtMost
  <2>3. CASE criticality # 3 /\ criticality # 2  BY <2>3 DEF AssetBoost
  <2> QED  BY <2>1, <2>2, <2>3
<1> QED  BY <1>1, <1>2

LEMMA BoostedRow ==
  ASSUME NEW n \in Nat, NEW x, RowTyped(x, n), NEW b
  PROVE  LET y == Boosted(x, b) IN
         /\ DOMAIN y = RowFields /\ y = [f \in RowFields |-> y[f]]
         /\ y.sev \in 0..3 /\ y.sev >= x.sev
         /\ \A f \in RowFields \ {"sev", "crit"} : y[f] = x[f]
<1> DEFINE derived == DeriveSeverity(b.type, b.confidence, x.count)
           base == IF derived > x.sev THEN derived ELSE x.sev
           crit == TargetCriticality(x.crit, Targets(b.src), Assets)
           high == AssetBoost(DeviationBoost(base, b.deviation), crit)
           sev == IF Known(b.src) THEN 3 ELSE high
           y == [x EXCEPT !.crit = crit, !.sev = sev]
<1>1. Boosted(x, b) = y  BY DEF Boosted
<1>2. sev \in 0..3 /\ sev >= x.sev
  <2>1. x.sev \in 0..3  BY DEF RowTyped
  <2>2. derived \in 0..3  BY SeverityIsRank
  <2>3. base \in 0..3 /\ base >= x.sev  BY <2>1, <2>2
  <2> HIDE DEF base, crit
  <2>4. high \in 0..3 /\ high >= base  BY <2>3, BoostsRaise
  <2> HIDE DEF high
  <2> QED  BY <2>1, <2>3, <2>4
<1> HIDE DEF sev, crit
<1>3. /\ DOMAIN y = RowFields /\ y = [f \in RowFields |-> y[f]] /\ y.sev = sev
      /\ \A f \in RowFields \ {"sev", "crit"} : y[f] = x[f]
  BY DEF RowTyped, RowFields
<1> HIDE DEF y
<1> QED  BY <1>1, <1>2, <1>3

-----------------------------------------------------------------------------
(* Attack sessions.                                                        *)

SessionFields == {"src", "ids", "sev", "last", "status"}
SessionTyped(x) ==
  /\ DOMAIN x = SessionFields /\ x = [f \in SessionFields |-> x[f]]
  /\ x.last \in Nat /\ x.status \in {"active", "idle", "closed"}
OneLive(ss) ==
  \A i, j \in DOMAIN ss :
    (ss[i].src = ss[j].src /\ ss[i].status # "closed" /\ ss[j].status # "closed") => i = j
SessionsGood(ss) ==
  IsSequence(ss) /\ (\A i \in DOMAIN ss : SessionTyped(ss[i])) /\ OneLive(ss)

\* What was committed, and what a scan is about to commit.
DbGood(d, n) ==
  /\ DOMAIN d = {"incidents", "sessions"} /\ d = [f \in {"incidents", "sessions"} |-> d[f]]
  /\ RowsGood(d.incidents, n)
  /\ SessionsGood(d.sessions)

LEMMA DbLater ==
  ASSUME NEW n \in Nat, NEW m \in Nat, n <= m, NEW d, DbGood(d, n)
  PROVE  DbGood(d, m)
<1>1. RowsGood(d.incidents, m)  BY RowsLater DEF DbGood
<1> QED  BY <1>1 DEF DbGood

LEMMA IncidentsWritten ==
  ASSUME NEW n, NEW d, DbGood(d, n), NEW rows, RowsGood(rows, n)
  PROVE  LET e == [d EXCEPT !.incidents = rows] IN DbGood(e, n) /\ e.incidents = rows
<1> DEFINE e == [d EXCEPT !.incidents = rows]
<1>1. /\ DOMAIN e = {"incidents", "sessions"} /\ e = [f \in {"incidents", "sessions"} |-> e[f]]
      /\ e.incidents = rows /\ e.sessions = d.sessions
  BY DEF DbGood
<1> HIDE DEF e
<1>2. DbGood(e, n)  BY <1>1 DEF DbGood
<1> QED  BY <1>1, <1>2 DEF e

\* Ageing only closes.
LEMMA Aged ==
  ASSUME NEW x, SessionTyped(x), now \in Nat
  PROVE  /\ SessionTyped(AgeSession(x)) /\ AgeSession(x).src = x.src
         /\ AgeSession(x).status # "closed" => x.status # "closed" /\ ~(x.last < now - Close)
<1>1. now \in Int /\ Close \in Int /\ Idle \in Int /\ x.last \in Int
  BY WindowsAssumption DEF SessionTyped
<1>2. CASE x.status \in {"active", "idle"} /\ x.last < now - Close
  <2>1. AgeSession(x) = [x EXCEPT !.status = "closed"]  BY <1>1, <1>2 DEF AgeSession
  <2> QED  BY <2>1 DEF SessionTyped, SessionFields
<1>3. CASE x.status = "active" /\ x.last < now - Idle /\ x.last >= now - Close
  <2>1. AgeSession(x) = [x EXCEPT !.status = "idle"]  BY <1>1, <1>3 DEF AgeSession
  <2> QED  BY <1>1, <1>3, <2>1 DEF SessionTyped, SessionFields
<1>4. CASE /\ ~(x.status \in {"active", "idle"} /\ x.last < now - Close)
           /\ ~(x.status = "active" /\ x.last < now - Idle /\ x.last >= now - Close)
  <2>1. AgeSession(x) = x  BY <1>4 DEF AgeSession
  <2> QED  BY <1>1, <1>4, <2>1 DEF SessionTyped
<1> QED  BY <1>2, <1>3, <1>4

LEMMA Listing ==
  ASSUME NEW n \in Nat, NEW f, DOMAIN f = 1..n, f = [i \in 1..n |-> f[i]]
  PROVE  IsSequence(f) /\ Len(f) = n
<1>1. f \in [1..n -> {f[i] : i \in DOMAIN f}]  OBVIOUS
<1>2. f \in Seq({f[i] : i \in DOMAIN f}) /\ Len(f) = n  BY <1>1
<1> QED  BY <1>2 DEF IsSequence

LEMMA LatestOfRecent ==
  ASSUME NEW s, DbGood(db, now), Recent(s) # {}
  PROVE  Max({db.incidents[i].last : i \in Recent(s)}) \in Nat
<1> DEFINE R == Recent(s)
           f == [i \in R |-> db.incidents[i].last]
           L == {db.incidents[i].last : i \in R}
<1>1. R \subseteq DOMAIN db.incidents  BY DEF Recent, Ids
<1>2. DOMAIN db.incidents = 1..Len(db.incidents) /\ Len(db.incidents) \in Nat
  BY SequenceFacts DEF DbGood, RowsGood
<1>3. IsFiniteSet(R)  BY <1>1, <1>2, PrefixIsFinite
<1>4. R # {}  OBVIOUS
<1>5. \A i \in R : db.incidents[i].last \in Nat  BY <1>1 DEF DbGood, RowsGood, RowGood, RowTyped
<1> HIDE DEF R
<1>6. IsFiniteSet(L)
  <2>1. \A t \in L : \E i \in R : t = f[i]  OBVIOUS
  <2> HIDE DEF L, f
  <2> QED  BY <1>3, <2>1, ImageIsFinite
<1>7. L \in SUBSET Nat /\ L # {}  BY <1>4, <1>5
<1> HIDE DEF L
<1>8. Max(L) \in L  BY <1>6, <1>7, MaxIsMember
<1>9. Max(L) \in Nat  BY <1>7, <1>8
<1> QED  BY <1>9 DEF L, R

LEMMA Updated ==
  ASSUME NEW s, DbGood(db, now), Recent(s) # {}, NEW x, SessionTyped(x)
  PROVE  /\ SessionTyped(UpdateSession(x, s)) /\ UpdateSession(x, s).src = x.src
<1> DEFINE latest == Max({db.incidents[i].last : i \in Recent(s)})
           worst == Max({db.incidents[i].sev : i \in Recent(s)} \cup {x.sev})
           y == [x EXCEPT !.ids = @ \cup Recent(s), !.sev = worst,
                  !.last = IF latest > @ THEN latest ELSE @,
                  !.status = IF latest > x.last THEN "active" ELSE @]
<1>1. UpdateSession(x, s) = y  BY DEF UpdateSession
<1>2. latest \in Nat  BY LatestOfRecent
<1> HIDE DEF latest, worst
<1>3. /\ DOMAIN y = SessionFields /\ y = [f \in SessionFields |-> y[f]] /\ y.src = x.src
      /\ y.last = IF latest > x.last THEN latest ELSE x.last
      /\ y.status = IF latest > x.last THEN "active" ELSE x.status
  BY DEF SessionTyped, SessionFields
<1> HIDE DEF y
<1>4. y.last \in Nat /\ y.status \in {"active", "idle", "closed"}  BY <1>2, <1>3 DEF SessionTyped
<1> QED  BY <1>1, <1>3, <1>4 DEF SessionTyped

LEMMA Created ==
  ASSUME NEW s, now \in Nat
  PROVE  SessionTyped(CreateSession(s)) /\ CreateSession(s).src = s /\ CreateSession(s).last = now
BY DEF CreateSession, SessionTyped, SessionFields

\* A source gets a session of its own only when all it has are old enough to be closed by
\* the same correlation.
LEMMA SessionsCorrelated ==
  ASSUME now \in Nat, DbGood(db, now), CorrelateSessions
  PROVE  DbGood(db', now)
<1> DEFINE ss == db.sessions
           active == {s \in Srcs : Recent(s) # {}}
           with(s) == LiveSessions(db, s, now - Close)
           one(i) == LET s == ss[i].src IN
                     IF s \in active /\ with(s) # {} /\ i = Min(with(s)) THEN UpdateSession(ss[i], s) ELSE ss[i]
           kept == [i \in DOMAIN ss |-> one(i)]
           lone == {s \in active : with(s) = {}}
           fresh == SetToSeq(lone)
           made == [i \in DOMAIN fresh |-> CreateSession(fresh[i])]
           all == kept \o made
           aged == [i \in DOMAIN all |-> AgeSession(all[i])]
<1>1. db' = [db EXCEPT !.sessions = aged]  BY DEF CorrelateSessions
<1>2. IsSequence(ss) /\ DOMAIN ss = 1..Len(ss) /\ Len(ss) \in Nat
  BY SequenceFacts DEF DbGood, SessionsGood
<1>3. \A i \in DOMAIN ss : SessionTyped(ss[i])  BY DEF DbGood, SessionsGood
<1>4. OneLive(ss)  BY DEF DbGood, SessionsGood
<1>5. \A i \in DOMAIN ss, s \in Srcs :
         i \in with(s) <=> ss[i].src = s /\ ss[i].status # "closed" /\ ss[i].last >= now - Close
  BY <1>3 DEF LiveSessions, SessionTyped
<1>6. \A s \in Srcs : with(s) \subseteq DOMAIN ss  BY DEF LiveSessions
<1> HIDE DEF with
<1>7. \A s \in Srcs : with(s) # {} => Min(with(s)) \in with(s)
  <2> SUFFICES ASSUME NEW s \in Srcs, with(s) # {}  PROVE Min(with(s)) \in with(s)  OBVIOUS
  <2>1. with(s) \in SUBSET Nat /\ with(s) \subseteq 1..Len(ss)  BY <1>2, <1>6
  <2>2. IsFiniteSet(with(s))  BY <1>2, <2>1, PrefixIsFinite
  <2> QED  BY <2>1, <2>2, MinIsMember
<1>8. ASSUME NEW i \in DOMAIN ss
      PROVE  /\ SessionTyped(one(i)) /\ one(i).src = ss[i].src
             /\ one(i).status # "closed" => ss[i].status # "closed"
             /\ ss[i].src \in lone => one(i) = ss[i]
  <2> DEFINE s == ss[i].src
  <2>1. CASE s \in active /\ with(s) # {} /\ i = Min(with(s))
    <3>1. one(i) = UpdateSession(ss[i], s)  BY <2>1
    <3>2. Recent(s) # {} /\ s \in Srcs  BY <2>1
    <3>3. SessionTyped(UpdateSession(ss[i], s)) /\ UpdateSession(ss[i], s).src = s
      BY <1>3, <3>2, Updated
    <3>4. ss[i].status # "closed"  BY <1>5, <1>7, <2>1, <3>2
    <3>5. s \notin lone  BY <2>1
    <3> QED  BY <3>1, <3>3, <3>4, <3>5
  <2>2. CASE ~(s \in active /\ with(s) # {} /\ i = Min(with(s)))
    <3>1. one(i) = ss[i]  BY <2>2
    <3> QED  BY <1>3, <3>1
  <2> QED  BY <2>1, <2>2
<1> HIDE DEF one
<1>9. /\ Cardinality(lone) \in Nat /\ DOMAIN fresh = 1..Cardinality(lone)
      /\ \A k \in DOMAIN fresh : fresh[k] \in lone
      /\ \A k, l \in DOMAIN fresh : fresh[k] = fresh[l] => k = l
  <2>1. IsFiniteSet(lone)  BY AddressesAssumption, FS_Subset
  <2> HIDE DEF lone
  <2> QED  BY <2>1, ListOfSet
<1> HIDE DEF fresh
<1>10. /\ IsSequence(kept) /\ Len(kept) = Len(ss) /\ DOMAIN kept = DOMAIN ss
       /\ \A i \in DOMAIN ss : kept[i] = one(i)
  <2>1. DOMAIN kept = 1..Len(ss) /\ kept = [i \in 1..Len(ss) |-> kept[i]]  BY <1>2
  <2>2. DOMAIN kept = DOMAIN ss /\ \A i \in DOMAIN ss : kept[i] = one(i)  OBVIOUS
  <2> HIDE DEF kept
  <2> QED  BY <1>2, <2>1, <2>2, Listing
<1>11. /\ IsSequence(made) /\ DOMAIN made = DOMAIN fresh
       /\ \A k \in DOMAIN fresh : made[k] = CreateSession(fresh[k])
  <2>1. DOMAIN made = 1..Cardinality(lone) /\ made = [i \in 1..Cardinality(lone) |-> made[i]]  BY <1>9
  <2>2. DOMAIN made = DOMAIN fresh /\ \A k \in DOMAIN fresh : made[k] = CreateSession(fresh[k])  OBVIOUS
  <2> HIDE DEF made
  <2> QED  BY <1>9, <2>1, <2>2, Listing
<1> HIDE DEF kept, made, lone
<1>12. /\ IsSequence(all) /\ DOMAIN all = 1..(Len(kept) + Len(made))
       /\ \A i \in DOMAIN kept : all[i] = kept[i]
       /\ \A k \in DOMAIN made : all[Len(kept) + k] = made[k]
       /\ \A j \in DOMAIN all : j \in DOMAIN kept \/ \E k \in DOMAIN made : j = Len(kept) + k
  BY <1>10, <1>11, Joined
<1> HIDE DEF all
<1>13. ASSUME NEW j \in DOMAIN all
       PROVE  /\ SessionTyped(all[j])
              /\ \/ j \in DOMAIN ss /\ all[j] = one(j)
                 \/ \E k \in DOMAIN fresh : j = Len(ss) + k /\ all[j] = CreateSession(fresh[k])
  <2>1. CASE j \in DOMAIN kept  BY <1>8, <1>10, <1>12, <2>1
  <2>2. CASE \E k \in DOMAIN made : j = Len(kept) + k
    <3>1. PICK k \in DOMAIN made : j = Len(kept) + k  BY <2>2
    <3>2. k \in DOMAIN fresh /\ j = Len(ss) + k /\ all[j] = CreateSession(fresh[k])
      BY <1>10, <1>11, <1>12, <3>1
    <3>3. SessionTyped(CreateSession(fresh[k]))  BY Created
    <3> QED  BY <3>2, <3>3
  <2> QED  BY <1>12, <2>1, <2>2
<1>14. /\ DOMAIN aged = DOMAIN all /\ IsSequence(aged)
       /\ \A j \in DOMAIN all : aged[j] = AgeSession(all[j])
  <2>1. Len(all) \in Nat /\ DOMAIN all = 1..Len(all)  BY <1>12, SequenceFacts
  <2>2. DOMAIN aged = 1..Len(all) /\ aged = [i \in 1..Len(all) |-> aged[i]]  BY <2>1
  <2>3. DOMAIN aged = DOMAIN all /\ \A j \in DOMAIN all : aged[j] = AgeSession(all[j])  OBVIOUS
  <2> HIDE DEF aged
  <2> QED  BY <2>1, <2>2, <2>3, Listing
<1> HIDE DEF aged
<1>15. \A j \in DOMAIN aged : SessionTyped(aged[j])  BY <1>13, <1>14, Aged
<1>16. ASSUME NEW i \in DOMAIN aged, NEW j \in DOMAIN aged,
              aged[i].src = aged[j].src, aged[i].status # "closed", aged[j].status # "closed"
       PROVE  i = j
  <2>1. /\ aged[i] = AgeSession(all[i]) /\ aged[j] = AgeSession(all[j])
        /\ SessionTyped(all[i]) /\ SessionTyped(all[j])
    BY <1>13, <1>14
  <2>2. /\ all[i].src = all[j].src /\ all[i].status # "closed" /\ all[j].status # "closed"
        /\ ~(all[i].last < now - Close) /\ ~(all[j].last < now - Close)
    BY <1>16, <2>1, Aged
  <2>3. ASSUME NEW k \in DOMAIN ss, NEW l \in DOMAIN fresh,
               one(k).src = fresh[l], one(k).status # "closed", ~(one(k).last < now - Close)
        PROVE  FALSE
    <3>1. ss[k].src = fresh[l] /\ fresh[l] \in lone /\ one(k) = ss[k]  BY <1>8, <1>9, <2>3
    <3>2. fresh[l] \in Srcs /\ with(fresh[l]) = {}  BY <3>1 DEF lone
    <3>3. ss[k].last \in Int /\ now \in Int /\ Close \in Int
      <4>1. Close \in Nat  BY WindowsAssumption
      <4>2. ss[k].last \in Nat  BY <1>3 DEF SessionTyped
      <4> QED  BY <4>1, <4>2
    <3>4. ss[k].last >= now - Close  BY <2>3, <3>1, <3>3
    <3> QED  BY <1>5, <2>3, <3>1, <3>2, <3>4
  <2>4. CASE i \in DOMAIN ss /\ all[i] = one(i) /\ j \in DOMAIN ss /\ all[j] = one(j)
    <3>1. ss[i].src = ss[j].src /\ ss[i].status # "closed" /\ ss[j].status # "closed"
      BY <1>8, <2>2, <2>4
    <3> QED  BY <1>4, <2>4, <3>1 DEF OneLive
  <2>5. CASE /\ i \in DOMAIN ss /\ all[i] = one(i)
             /\ \E k \in DOMAIN fresh : j = Len(ss) + k /\ all[j] = CreateSession(fresh[k])
    BY <2>2, <2>3, <2>5, Created
  <2>6. CASE /\ j \in DOMAIN ss /\ all[j] = one(j)
             /\ \E k \in DOMAIN fresh : i = Len(ss) + k /\ all[i] = CreateSession(fresh[k])
    BY <2>2, <2>3, <2>6, Created
  <2>7. CASE /\ \E k \in DOMAIN fresh : i = Len(ss) + k /\ all[i] = CreateSession(fresh[k])
             /\ \E k \in DOMAIN fresh : j = Len(ss) + k /\ all[j] = CreateSession(fresh[k])
    <3>1. PICK k \in DOMAIN fresh : i = Len(ss) + k /\ all[i] = CreateSession(fresh[k])  BY <2>7
    <3>2. PICK l \in DOMAIN fresh : j = Len(ss) + l /\ all[j] = CreateSession(fresh[l])  BY <2>7
    <3>3. fresh[k] = fresh[l]  BY <2>2, <3>1, <3>2, Created
    <3> QED  BY <1>9, <3>1, <3>2, <3>3
  <2> QED  BY <1>13, <1>14, <2>4, <2>5, <2>6, <2>7
<1>17. SessionsGood(aged)  BY <1>14, <1>15, <1>16 DEF SessionsGood, OneLive
<1>18. /\ DOMAIN db' = {"incidents", "sessions"} /\ db' = [f \in {"incidents", "sessions"} |-> db'[f]]
       /\ db'.sessions = aged /\ db'.incidents = db.incidents
  BY <1>1 DEF DbGood
<1> QED  BY <1>17, <1>18 DEF DbGood

-----------------------------------------------------------------------------
(* The invariant. What a scan has written and not committed is as good as  *)
(* what is committed, but for the row it is at.                            *)

LoopFields == {"pc", "todo", "at", "work", "held", "new", "odd"}

RowsAreSound ==
  /\ now \in Nat
  /\ DbGood(db, now)
  /\ DOMAIN loop = LoopFields /\ loop = [f \in LoopFields |-> loop[f]]
  /\ loop.held => loop.pc \in {"upsert", "boost", "commit"} /\ DbGood(loop.work, now)
  /\ loop.pc = "commit" => loop.held

\* The row between its two halves: it is not whole, and what it is told by is left from before.
RowIsHalf(x) == x.act = now /\ (~loop.new /\ x.by = "scan" /\ x.sev >= 1 => x.told \/ x.cut)
HalvesAreSound == loop.pc = "boost" => loop.at \in Ids(Seen) /\ RowIsHalf(Seen.incidents[loop.at])

\* What a source under a rule all along has between the marking and the rules.
InTick == {"mark", "scan", "upsert", "boost", "commit", "rules"}
QuietIsSound ==
  /\ DOMAIN ghost = {"quiet", "touched"} /\ ghost = [f \in {"quiet", "touched"} |-> ghost[f]]
  /\ IsFiniteSet(flows)
  /\ \A f \in flows : {"src", "last", "suppressed"} \subseteq DOMAIN f /\ f.src \in Srcs
  /\ loop.pc \in InTick => \A s \in ghost.quiet : s \in Srcs /\ [src |-> s, dst |-> None] \in supp
  /\ loop.pc = "mark" => \A s \in ghost.quiet : Markable(flows, s)
  /\ loop.pc \in InTick \ {"mark"} => \A f \in flows : f.src \in ghost.quiet => f.suppressed
  /\ loop.pc \in {"upsert", "boost"} =>
       /\ IsSequence(loop.todo) /\ loop.todo # <<>>
       /\ \A i \in DOMAIN loop.todo : loop.todo[i].src \notin ghost.quiet
  /\ QuietWhileSuppressed

\* A look-up in flight answers for the lists as they were, and knows when they moved on.
CacheIsSound ==
  /\ DOMAIN cache = Srcs /\ cache = [s \in Srcs |-> cache[s]]
  /\ \A s \in Srcs : cache[s] # None => cache[s].at \in Nat
  /\ listed \subseteq Srcs
  /\ query # None => /\ DOMAIN query = {"src", "hit", "raced"} /\ query = [f \in {"src", "hit", "raced"} |-> query[f]]
                     /\ query.src \in listed /\ ~query.hit => query.raced
  /\ StaleNegativeNeedsOverlap

IInv == RowsAreSound /\ HalvesAreSound /\ QuietIsSound /\ CacheIsSound

-----------------------------------------------------------------------------
(* The rows, action by action.                                             *)

RowsInvariant == RowsAreSound /\ HalvesAreSound

LEMMA SeenIsSound ==
  ASSUME RowsAreSound
  PROVE  DbGood(Seen, now) /\ DOMAIN Seen.incidents = 1..Len(Seen.incidents) /\ Len(Seen.incidents) \in Nat
<1>1. DbGood(Seen, now)  BY DEF RowsAreSound, Seen
<1> QED  BY <1>1, SequenceFacts DEF DbGood, RowsGood

LEMMA RowsKept ==
  ASSUME RowsInvariant, UNCHANGED <<now, db, loop>>
  PROVE  RowsInvariant'
BY DEF RowsInvariant, RowsAreSound, HalvesAreSound, Seen, Ids, RowIsHalf

\* The steps of the tick that write no row.
LEMMA RowsInTick ==
  ASSUME RowsInvariant, FlushFlows \/ ApplySuppressions \/ FailMarking \/ StartScan \/ CommitScan \/ FailScan
  PROVE  RowsInvariant'
<1>1. now' = now  BY DEF FlushFlows, ApplySuppressions, FailMarking, StartScan, CommitScan, FailScan
<1>2. DOMAIN loop' = LoopFields /\ loop' = [f \in LoopFields |-> loop'[f]]
  BY DEF RowsInvariant, RowsAreSound, LoopFields, FlushFlows, ApplySuppressions, FailMarking, StartScan, CommitScan, FailScan
<1>3. loop'.pc # "boost" /\ loop'.pc # "commit"
  <2>1. CASE FlushFlows  BY <2>1 DEF FlushFlows, RowsInvariant, RowsAreSound, LoopFields
  <2>2. CASE ApplySuppressions  BY <2>2 DEF ApplySuppressions, RowsInvariant, RowsAreSound, LoopFields
  <2>3. CASE StartScan  BY <2>3 DEF StartScan, RowsInvariant, RowsAreSound, LoopFields
  <2>4. CASE CommitScan  BY <2>4 DEF CommitScan, RowsInvariant, RowsAreSound, LoopFields
  <2>5. CASE FailScan  BY <2>5 DEF FailScan, RowsInvariant, RowsAreSound, LoopFields
  <2>6. CASE FailMarking  BY <2>6 DEF FailMarking, RowsInvariant, RowsAreSound, LoopFields
  <2> QED  BY <2>1, <2>2, <2>3, <2>4, <2>5, <2>6
<1>4. ~loop'.held
  <2>1. loop.pc \notin {"upsert", "boost", "commit"} => ~loop.held  BY DEF RowsInvariant, RowsAreSound
  <2>2. CASE FlushFlows  BY <2>1, <2>2 DEF FlushFlows, RowsInvariant, RowsAreSound, LoopFields
  <2>3. CASE ApplySuppressions  BY <2>1, <2>3 DEF ApplySuppressions, RowsInvariant, RowsAreSound, LoopFields
  <2>4. CASE StartScan  BY <2>1, <2>4 DEF StartScan, RowsInvariant, RowsAreSound, LoopFields
  <2>5. CASE CommitScan  BY <2>5 DEF CommitScan, RowsInvariant, RowsAreSound, LoopFields
  <2>6. CASE FailScan  BY <2>6 DEF FailScan, RowsInvariant, RowsAreSound, LoopFields
  <2>7. CASE FailMarking  BY <2>1, <2>7 DEF FailMarking, RowsInvariant, RowsAreSound, LoopFields
  <2> QED  BY <2>2, <2>3, <2>4, <2>5, <2>6, <2>7
<1>5. DbGood(db', now)
  <2>1. CASE CommitScan  BY <2>1 DEF CommitScan, RowsInvariant, RowsAreSound
  <2>2. CASE ~CommitScan  BY <2>2 DEF FlushFlows, ApplySuppressions, FailMarking, StartScan, FailScan, RowsInvariant, RowsAreSound
  <2> QED  BY <2>1, <2>2
<1> QED  BY <1>1, <1>2, <1>3, <1>4, <1>5 DEF RowsInvariant, RowsAreSound, HalvesAreSound

\* A row found in the merge window is the first of its kind there; one that is not found
\* is made far from the others.
LEMMA RowsTouched ==
  ASSUME RowsInvariant, Touch
  PROVE  RowsInvariant'
<1> DEFINE b == Head(loop.todo)
           rows == Seen.incidents
           found == Matching(Seen, b.src, b.type, now - Merge)
           id == IF found = {} THEN Len(rows) + 1 ELSE Min(found)
           made == NewIncident(b.src, b.type, DeriveSeverity(b.type, b.confidence, 1), "scan")
           count == AtMost(rows[id].count + 1, 5)
           cut == rows[id].cut \/ ~rows[id].whole
           again == [rows[id] EXCEPT !.last = now, !.act = now, !.count = count, !.cut = cut, !.whole = FALSE]
           row == IF found = {} THEN made ELSE again
           next == [Seen EXCEPT !.incidents = IF found = {} THEN Append(@, row) ELSE [@ EXCEPT ![id] = row]]
<1>1. /\ now' = now /\ loop.pc = "upsert"
      /\ \/ db' = next /\ loop' = [loop EXCEPT !.pc = "boost", !.at = id, !.new = (found = {}), !.held = FALSE,
                                               !.work = None]
         \/ db' = db /\ loop' = [loop EXCEPT !.pc = "boost", !.at = id, !.new = (found = {}), !.held = TRUE,
                                             !.work = next]
  BY DEF Touch
<1>2. /\ DbGood(Seen, now) /\ RowsGood(rows, now) /\ now \in Nat
      /\ DOMAIN rows = 1..Len(rows) /\ Len(rows) \in Nat
  BY SeenIsSound DEF RowsInvariant, RowsAreSound, DbGood
<1>3. /\ found \subseteq DOMAIN rows
      /\ \A i \in DOMAIN rows : i \in found <=> /\ rows[i].src = b.src /\ rows[i].type = b.type
                                              /\ rows[i].status \in Live /\ rows[i].last >= now - Merge
  BY DEF Matching, Ids
<1> HIDE DEF found
<1>4. DbGood(next, now) /\ id \in DOMAIN next.incidents /\ next.incidents[id].act = now
      /\ (found # {} /\ next.incidents[id].by = "scan" /\ next.incidents[id].sev >= 1
            => next.incidents[id].told \/ next.incidents[id].cut)
  <2>1. CASE found = {}
    <3> DEFINE all == Append(rows, made)
               e == [Seen EXCEPT !.incidents = all]
    <3>1. next = e /\ id = Len(rows) + 1  BY <2>1
    <3>2. DeriveSeverity(b.type, b.confidence, 1) \in 0..3  BY SeverityIsRank
    <3>3. /\ RowTyped(made, now) /\ made.whole = FALSE /\ made.act = now /\ made.first = now
          /\ made.src = b.src /\ made.type = b.type
      BY <1>2, <3>2 DEF NewIncident, RowTyped, RowFields
    <3> HIDE DEF made
    <3>4. RowGood(made, now)  BY <3>3 DEF RowGood, Priced, ToldOf
    <3>5. ASSUME NEW i \in DOMAIN rows  PROVE FarFrom(rows[i], made)
      <4>1. rows[i].last \in Int /\ now \in Int /\ Merge \in Int
        <5>1. RowTyped(rows[i], now)  BY <1>2 DEF RowsGood, RowGood
        <5>2. Merge \in Nat  BY WindowsAssumption
        <5> QED  BY <1>2, <5>1, <5>2 DEF RowTyped
      <4>2. Twins(rows[i], made) => ~(rows[i].last >= now - Merge)  BY <1>3, <2>1, <3>3 DEF Twins
      <4> QED  BY <3>3, <4>1, <4>2 DEF FarFrom
    <3>6. RowsGood(all, now)  BY <1>2, <3>4, <3>5, RowAppended
    <3>7. id \in DOMAIN all /\ all[id] = made
      <4>1. IsSequence(rows)  BY <1>2 DEF RowsGood
      <4>2. DOMAIN all = 1..(Len(rows) + 1) /\ all[Len(rows) + 1] = made  BY <4>1, Appended
      <4> HIDE DEF all
      <4> QED  BY <1>2, <3>1, <4>2
    <3> HIDE DEF all
    <3>8. DbGood(e, now) /\ e.incidents = all  BY <1>2, <3>6, IncidentsWritten
    <3> HIDE DEF e, next, id
    <3> QED  BY <2>1, <3>1, <3>3, <3>7, <3>8
  <2>2. CASE found # {}
    <3> DEFINE all == [rows EXCEPT ![id] = again]
               e == [Seen EXCEPT !.incidents = all]
    <3>1. next = e /\ id = Min(found)  BY <2>2
    <3>2. id \in found
      <4>1. found \in SUBSET Nat /\ found \subseteq 1..Len(rows)  BY <1>2, <1>3
      <4>2. IsFiniteSet(found)  BY <1>2, <4>1, PrefixIsFinite
      <4>3. Min(found) \in found  BY <2>2, <4>1, <4>2, MinIsMember
      <4> HIDE DEF id
      <4> QED  BY <3>1, <4>3
    <3> HIDE DEF id
    <3> DEFINE old == rows[id]
    <3>3. id \in DOMAIN rows /\ RowGood(old, now) /\ old.last >= now - Merge  BY <1>2, <1>3, <3>2 DEF RowsGood
    <3>4. /\ RowTyped(again, now) /\ again.whole = FALSE /\ again.act = now /\ again.last = now
          /\ again.src = old.src /\ again.type = old.type /\ again.first = old.first /\ again.by = old.by
          /\ again.status = old.status /\ again.reopened = old.reopened /\ again.sev = old.sev
          /\ again.told = old.told /\ again.cut = (old.cut \/ ~old.whole)
      <4>1. RowTyped(old, now) /\ now \in Nat  BY <1>2, <3>3 DEF RowGood
      <4>2. cut = (old.cut \/ ~old.whole)  OBVIOUS
      <4> HIDE DEF count, cut, rows
      <4>3. DOMAIN again = RowFields /\ again = [f \in RowFields |-> again[f]]  BY <4>1 DEF RowTyped, RowFields
      <4>4. again.last = now /\ again.act = now /\ again.cut = cut /\ again.whole = FALSE
        BY <4>1 DEF RowTyped, RowFields
      <4>5. \A f \in RowFields \ {"last", "act", "count", "cut", "whole"} : again[f] = old[f]
        BY <4>1 DEF RowTyped, RowFields
      <4> HIDE DEF again, old
      <4>6. /\ again.src = old.src /\ again.type = old.type /\ again.first = old.first /\ again.by = old.by
            /\ again.status = old.status /\ again.reopened = old.reopened /\ again.sev = old.sev
            /\ again.told = old.told
        BY <4>5 DEF RowFields
      <4>7. RowTyped(again, now)  BY <4>1, <4>3, <4>4, <4>6 DEF RowTyped
      <4> QED  BY <4>2, <4>4, <4>6, <4>7
    <3> HIDE DEF again
    <3>5. RowGood(again, now)  BY <3>4 DEF RowGood, Priced, ToldOf
    <3>6. RowsGood(all, now)  BY <1>2, <3>3, <3>4, <3>5, RowReplaced
    <3>7. again.by = "scan" /\ again.sev >= 1 => again.told \/ again.cut  BY <3>3, <3>4 DEF RowGood, ToldOf
    <3>8. id \in DOMAIN all /\ all[id] = again
      <4>1. IsSequence(rows)  BY <1>2 DEF RowsGood
      <4> QED  BY <3>3, <4>1, Replaced
    <3> HIDE DEF all
    <3>9. DbGood(e, now) /\ e.incidents = all  BY <1>2, <3>6, IncidentsWritten
    <3> HIDE DEF e, next
    <3> QED  BY <3>1, <3>4, <3>7, <3>8, <3>9
  <2> QED  BY <2>1, <2>2
<1> HIDE DEF next, id
<1>5. /\ DOMAIN loop' = LoopFields /\ loop' = [f \in LoopFields |-> loop'[f]]
      /\ loop'.pc = "boost" /\ loop'.at = id /\ loop'.new = (found = {})
      /\ \/ db' = next /\ loop'.held = FALSE
         \/ db' = db /\ loop'.held = TRUE /\ loop'.work = next
  BY <1>1 DEF RowsInvariant, RowsAreSound, LoopFields
<1>6. RowsAreSound'  BY <1>1, <1>4, <1>5 DEF RowsInvariant, RowsAreSound
<1>7. Seen' = next  BY <1>5 DEF Seen
<1>8. HalvesAreSound'  BY <1>1, <1>4, <1>5, <1>7 DEF HalvesAreSound, RowIsHalf, Ids
<1> QED  BY <1>6, <1>8 DEF RowsInvariant

\* The second half tells what the row has come to, and prices it.
LEMMA RowsBoosted ==
  ASSUME RowsInvariant, Boost
  PROVE  RowsInvariant'
<1> DEFINE b == Head(loop.todo)
           rows == Seen.incidents
           old == rows[loop.at]
           x == Boosted(old, b)
           p == Priority(x)
           told == x.told \/ Tells(loop.new, x, old)
           priced == [x EXCEPT !.prio = p]
           row == [priced EXCEPT !.whole = TRUE, !.stale = FALSE, !.told = @ \/ Tells(loop.new, x, old)]
           all == [rows EXCEPT ![loop.at] = row]
           next == [Seen EXCEPT !.incidents[loop.at] = row]
           e == [Seen EXCEPT !.incidents = all]
<1>1. /\ now' = now /\ db' = db /\ loop.pc = "boost"
      /\ loop' = [loop EXCEPT !.pc = IF Tail(loop.todo) = <<>> THEN "commit" ELSE "upsert",
                              !.todo = Tail(@), !.held = TRUE, !.work = next]
  BY DEF Boost, Repriced
<1>2. next = e  OBVIOUS
<1>3. /\ DbGood(Seen, now) /\ RowsGood(rows, now) /\ now \in Nat
      /\ DOMAIN rows = 1..Len(rows) /\ Len(rows) \in Nat
  BY SeenIsSound DEF RowsInvariant, RowsAreSound, DbGood
<1>4. loop.at \in DOMAIN rows /\ RowIsHalf(old)  BY <1>1 DEF RowsInvariant, HalvesAreSound, Ids
<1> HIDE DEF rows
<1>5. RowGood(old, now) /\ RowTyped(old, now)  BY <1>3, <1>4 DEF RowsGood, RowGood
<1> HIDE DEF b, old
<1>6. /\ DOMAIN x = RowFields /\ x = [f \in RowFields |-> x[f]] /\ x.sev \in 0..3 /\ x.sev >= old.sev
      /\ \A f \in RowFields \ {"sev", "crit"} : x[f] = old[f]
  BY <1>3, <1>5, BoostedRow
<1> HIDE DEF x
<1>7. /\ x.act = old.act /\ x.by = old.by /\ x.told = old.told /\ x.cut = old.cut /\ x.first = old.first
      /\ x.last = old.last /\ x.src = old.src /\ x.type = old.type /\ x.status = old.status
      /\ x.reopened = old.reopened
  BY <1>6 DEF RowFields
<1>8. p = PriceOf(x)
  <2>1. now - x.act = 0  BY <1>3, <1>4, <1>7 DEF RowIsHalf
  <2> QED  BY <2>1 DEF Priority, PriceOf
<1> HIDE DEF p
<1>9. /\ DOMAIN row = RowFields /\ row = [f \in RowFields |-> row[f]]
      /\ row.prio = p /\ row.whole = TRUE /\ row.stale = FALSE /\ row.told = told
      /\ \A f \in RowFields \ {"prio", "whole", "stale", "told"} : row[f] = x[f]
  BY <1>6 DEF RowFields
<1> HIDE DEF row
<1>10. /\ row.act = old.act /\ row.by = old.by /\ row.cut = old.cut /\ row.first = old.first
       /\ row.last = old.last /\ row.src = old.src /\ row.type = old.type /\ row.status = old.status
       /\ row.reopened = old.reopened /\ row.sev = x.sev /\ row.crit = x.crit /\ row.count = x.count
  BY <1>7, <1>9 DEF RowFields
<1>11. RowTyped(row, now)  BY <1>5, <1>6, <1>9, <1>10 DEF RowTyped
<1>12. Priced(row)  BY <1>7, <1>8, <1>9, <1>10 DEF Priced, PriceOf
<1>13. ToldOf(row)
  <2> SUFFICES ASSUME row.by = "scan", row.sev >= 1  PROVE row.told \/ row.cut  BY DEF ToldOf
  <2>1. CASE Tells(loop.new, x, old)  BY <1>9, <2>1
  <2>2. CASE ~Tells(loop.new, x, old)
    <3>1. ~loop.new /\ x.sev = old.sev  BY <1>5, <1>6, <1>10, <2>2 DEF Tells, RowTyped
    <3>2. old.by = "scan" /\ old.sev >= 1  BY <1>10, <3>1
    <3>3. old.told \/ old.cut  BY <1>4, <3>1, <3>2 DEF RowIsHalf
    <3> QED  BY <1>7, <1>9, <1>10, <3>3
  <2> QED  BY <2>1, <2>2
<1>14. RowGood(row, now)  BY <1>11, <1>12, <1>13 DEF RowGood
<1>15. RowsGood(all, now)  BY <1>3, <1>4, <1>10, <1>14, RowReplaced DEF old
<1> HIDE DEF all
<1>16. DbGood(e, now)  BY <1>3, <1>15, IncidentsWritten
<1> HIDE DEF e, next
<1>17. /\ DOMAIN loop' = LoopFields /\ loop' = [f \in LoopFields |-> loop'[f]]
       /\ loop'.pc \in {"commit", "upsert"} /\ loop'.held = TRUE /\ loop'.work = next
  BY <1>1 DEF RowsInvariant, RowsAreSound, LoopFields
<1> QED  BY <1>1, <1>2, <1>16, <1>17 DEF RowsInvariant, RowsAreSound, HalvesAreSound

\* A status handler may write what it computed from a row that has changed since: the row
\* then says so.
LEMMA RowsEdited ==
  ASSUME RowsInvariant, NEW st, UpdateStatus(st)
  PROVE  RowsInvariant'
<1> DEFINE i == edit.id
           rows == db.incidents
           was == rows[i]
           x == [edit.row EXCEPT !.act = now]
           p == Priority(x)
           stale == was # edit.row
           reopened == was.reopened \/ (st \in Live /\ was.status \notin Live)
           row == [was EXCEPT !.status = st, !.act = now, !.prio = p, !.stale = was # edit.row,
                              !.reopened = @ \/ (st \in Live /\ was.status \notin Live)]
           all == [rows EXCEPT ![i] = row]
           e == [db EXCEPT !.incidents = all]
<1>1. now' = now /\ loop' = loop /\ ~loop.held /\ db' = e
  <2>1. now' = now /\ loop' = loop /\ ~loop.held  BY DEF UpdateStatus, Writable
  <2>2. db' = [db EXCEPT !.incidents[i] = row]  BY DEF UpdateStatus
  <2>3. [db EXCEPT !.incidents[i] = row] = e  OBVIOUS
  <2> HIDE DEF row, e
  <2> QED  BY <2>1, <2>2, <2>3
<1>2. DbGood(db, now) /\ RowsGood(rows, now) /\ now \in Nat  BY DEF RowsInvariant, RowsAreSound, DbGood
<1> HIDE DEF rows
<1>3. ASSUME i \in DOMAIN rows
      PROVE  /\ RowGood(row, now) /\ row.act = now /\ row.src = was.src /\ row.type = was.type
             /\ row.first = was.first /\ row.last = was.last /\ row.by = was.by
             /\ (row.status \in Live /\ ~row.reopened => was.status \in Live /\ ~was.reopened)
             /\ row.told = was.told /\ row.cut = was.cut /\ row.sev = was.sev
  <2>1. RowGood(was, now) /\ RowTyped(was, now)  BY <1>2, <1>3 DEF RowsGood, RowGood
  <2>2. ~stale => p = PriceOf(was)
    <3> SUFFICES ASSUME edit.row = was  PROVE p = PriceOf(was)  OBVIOUS
    <3> HIDE DEF was
    <3>1. x.sev = was.sev /\ x.crit = was.crit /\ x.count = was.count /\ x.type = was.type /\ x.act = now
      BY <2>1 DEF RowTyped, RowFields
    <3>2. now - x.act = 0  BY <1>2, <3>1
    <3> HIDE DEF x
    <3> QED  BY <3>1, <3>2 DEF Priority, PriceOf
  <2>3. reopened = (was.reopened \/ (st \in Live /\ was.status \notin Live))  OBVIOUS
  <2>11. row = [was EXCEPT !.status = st, !.act = now, !.prio = p, !.stale = stale, !.reopened = reopened]
    OBVIOUS
  <2> HIDE DEF was, p, stale, reopened, row
  <2>4. /\ DOMAIN row = RowFields /\ row = [f \in RowFields |-> row[f]]
        /\ row.status = st /\ row.act = now /\ row.prio = p /\ row.stale = stale /\ row.reopened = reopened
    BY <2>1, <2>11 DEF RowTyped, RowFields
  <2>5. \A f \in RowFields \ {"status", "act", "prio", "stale", "reopened"} : row[f] = was[f]
    BY <2>1, <2>11 DEF RowTyped, RowFields
  <2>6. /\ row.src = was.src /\ row.type = was.type /\ row.first = was.first /\ row.last = was.last
        /\ row.by = was.by /\ row.sev = was.sev /\ row.crit = was.crit /\ row.count = was.count
        /\ row.told = was.told /\ row.cut = was.cut /\ row.whole = was.whole
    BY <2>5 DEF RowFields
  <2>7. RowTyped(row, now)  BY <2>1, <2>4, <2>6 DEF RowTyped
  <2>8. Priced(row)  BY <2>2, <2>4, <2>6 DEF Priced, PriceOf
  <2>9. ToldOf(row)  BY <2>1, <2>6 DEF RowGood, ToldOf
  <2>10. row.status \in Live /\ ~row.reopened => was.status \in Live /\ ~was.reopened  BY <2>3, <2>4
  <2> QED  BY <2>4, <2>6, <2>7, <2>8, <2>9, <2>10 DEF RowGood
<1>4. RowsGood(all, now) /\ DOMAIN all = DOMAIN rows /\ (i \in DOMAIN rows => all[i] = row)
      /\ \A j \in DOMAIN rows \ {i} : all[j] = rows[j]
  <2>1. IsSequence(rows)  BY <1>2 DEF RowsGood
  <2> HIDE DEF row, i
  <2>2. DOMAIN all = DOMAIN rows /\ (i \in DOMAIN rows => all[i] = row) /\ \A j \in DOMAIN rows \ {i} : all[j] = rows[j]
    BY <2>1, Replaced
  <2>3. CASE i \in DOMAIN rows  BY <1>2, <1>3, <2>2, <2>3, RowReplaced
  <2>4. CASE i \notin DOMAIN rows
    <3>1. all = rows
      <4>1. rows = [j \in DOMAIN rows |-> rows[j]]  BY <2>1, SequenceFacts DEF IsSequence
      <4> QED  BY <2>4, <4>1
    <3> QED  BY <1>2, <2>2, <2>4, <3>1
  <2> QED  BY <2>2, <2>3, <2>4
<1> HIDE DEF all
<1>5. DbGood(db', now) /\ db'.incidents = all  BY <1>1, <1>2, <1>4, IncidentsWritten
<1>6. RowsAreSound'  BY <1>1, <1>5 DEF RowsInvariant, RowsAreSound
<1>7. Seen = db /\ Seen' = db'  BY <1>1 DEF Seen
<1>8. ASSUME loop.pc = "boost"  PROVE loop.at \in DOMAIN all /\ RowIsHalf(all[loop.at])
  <2>1. loop.at \in DOMAIN rows /\ RowIsHalf(rows[loop.at])
    BY <1>7, <1>8 DEF RowsInvariant, HalvesAreSound, Ids, rows
  <2>2. CASE loop.at # i  BY <1>4, <2>1, <2>2
  <2>3. CASE loop.at = i
    <3> HIDE DEF row
    <3>1. all[loop.at] = row /\ rows[loop.at] = was  BY <1>4, <2>1, <2>3
    <3>2. row.act = now /\ row.by = was.by /\ row.sev = was.sev /\ row.told = was.told /\ row.cut = was.cut
      BY <1>3, <2>1, <2>3
    <3> HIDE DEF was
    <3> QED  BY <1>4, <2>1, <3>1, <3>2 DEF RowIsHalf
  <2> QED  BY <2>2, <2>3
<1>9. HalvesAreSound'  BY <1>1, <1>5, <1>7, <1>8 DEF HalvesAreSound, RowIsHalf, Ids
<1> QED  BY <1>6, <1>9 DEF RowsInvariant

\* The sources a rule finds: a finite set, of rows that are not suppressed.
RuleSources ==
  LET due == IF ruleOn /\ ~loop.odd THEN Triggered(flows, Rule, now) ELSE {}
  IN {s \in {IncidentSource(e, Rule) : e \in due} : ~InCooldown(s)}

LEMMA RuleSourcesAreFew ==
  ASSUME IsFiniteSet(flows)
  PROVE  /\ IsFiniteSet(RuleSources)
         /\ Rule.target # "destination_ip" =>
              \A s \in RuleSources : \E f \in flows : f.src = s /\ ~f.suppressed
<1> DEFINE due == IF ruleOn /\ ~loop.odd THEN Triggered(flows, Rule, now) ELSE {}
           g == [f \in flows |-> IncidentSource(EntityOf(f, Rule), Rule)]
<1>1. \A s \in RuleSources : \E e \in due : s = IncidentSource(e, Rule)  BY DEF RuleSources
<1>2. \A e \in due : \E f \in flows : ~f.suppressed /\ e = EntityOf(f, Rule)
  BY DEF Triggered, Considered, Since
<1> HIDE DEF due
<1>3. \A s \in RuleSources : \E f \in flows : ~f.suppressed /\ s = IncidentSource(EntityOf(f, Rule), Rule)
  BY <1>1, <1>2
<1>4. IsFiniteSet(RuleSources)
  <2>1. \A s \in RuleSources : \E f \in flows : s = g[f]  BY <1>3
  <2> HIDE DEF g
  <2> QED  BY <2>1, ImageIsFinite
<1>5. ASSUME NEW f, Rule.target # "destination_ip"
      PROVE  IncidentSource(EntityOf(f, Rule), Rule) = f.src
  BY <1>5, AddressesAssumption DEF IncidentSource, EntityOf
<1> QED  BY <1>3, <1>4, <1>5

\* The rule engine looks for a row before it makes one, though no further back than its own
\* cooldown.
LEMMA RowsOfRules ==
  ASSUME RowsInvariant, IsFiniteSet(flows), RunRules
  PROVE  RowsInvariant'
<1> DEFINE srcs == RuleSources
           n == Cardinality(srcs)
           price == <<20, 40, 70, 90>>[Rule.severity + 1]
           row(s) == [NewIncident(s, Rule.behavior, Rule.severity, "rule") EXCEPT !.prio = price]
           made == [i \in 1..n |-> row(SetToSeq(srcs)[i])]
           rows == db.incidents
           e == [db EXCEPT !.incidents = rows \o made]
<1>1. now' = now /\ db' = e /\ loop' = Idling("sleep", loop.odd) /\ loop.pc = "rules"
  BY DEF RunRules, RuleSources
<1>2. DbGood(db, now) /\ RowsGood(rows, now) /\ now \in Nat  BY DEF RowsInvariant, RowsAreSound, DbGood
<1>3. /\ n \in Nat /\ SetToSeq(srcs) \in [1..n -> srcs]
      /\ \A i, j \in 1..n : SetToSeq(srcs)[i] = SetToSeq(srcs)[j] => i = j
  <2>1. IsFiniteSet(srcs)  BY RuleSourcesAreFew
  <2> HIDE DEF srcs
  <2> QED  BY <2>1, ListOfSet
<1>4. ASSUME NEW s
      PROVE  /\ RowGood(row(s), now) /\ row(s).src = s /\ row(s).type = Rule.behavior
             /\ row(s).first = now /\ row(s).by = "rule"
  <2> DEFINE r == row(s)
  <2> HIDE DEF price
  <2>1. Rule.severity \in 0..3  BY AddressesAssumption
  <2>2. /\ RowTyped(r, now) /\ r.whole = FALSE /\ r.src = s /\ r.type = Rule.behavior
        /\ r.first = now /\ r.by = "rule"
    <3> DEFINE new == NewIncident(s, Rule.behavior, Rule.severity, "rule")
    <3>1. /\ DOMAIN new = RowFields /\ new = [f \in RowFields |-> new[f]]
          /\ new.sev = Rule.severity /\ new.first = now /\ new.last = now /\ new.whole = FALSE
          /\ new.src = s /\ new.type = Rule.behavior /\ new.by = "rule"
      BY DEF NewIncident, RowFields
    <3>2. r = [new EXCEPT !.prio = price]  OBVIOUS
    <3> HIDE DEF new, r
    <3>3. /\ DOMAIN r = RowFields /\ r = [f \in RowFields |-> r[f]]
          /\ r.sev = Rule.severity /\ r.first = now /\ r.last = now /\ r.whole = FALSE
          /\ r.src = s /\ r.type = Rule.behavior /\ r.by = "rule"
      BY <3>1, <3>2 DEF RowFields
    <3> QED  BY <1>2, <2>1, <3>3 DEF RowTyped
  <2> HIDE DEF r
  <2>3. RowGood(r, now)  BY <2>2 DEF RowGood, Priced, ToldOf
  <2> QED  BY <2>2, <2>3 DEF r
<1>5. \A s \in srcs : \A i \in DOMAIN rows :
         (rows[i].src = s /\ rows[i].type = Rule.behavior /\ rows[i].status \in Live)
           => ~(rows[i].last >= now - Rule.cooldown)
  BY DEF RuleSources, InCooldown, Matching, Ids
<1> HIDE DEF srcs, n, row, rows
<1>6. /\ DOMAIN made = 1..n /\ IsSequence(made)
      /\ \A k \in 1..n : made[k] = row(SetToSeq(srcs)[k]) /\ SetToSeq(srcs)[k] \in srcs
  <2>1. DOMAIN made = 1..n /\ made = [i \in 1..n |-> made[i]]  OBVIOUS
  <2>2. \A k \in 1..n : made[k] = row(SetToSeq(srcs)[k]) /\ SetToSeq(srcs)[k] \in srcs  BY <1>3
  <2> HIDE DEF made
  <2> QED  BY <1>3, <2>1, <2>2, Listing
<1> HIDE DEF made
<1>7. \A k \in DOMAIN made : RowGood(made[k], now)  BY <1>4, <1>6
<1>8. ASSUME NEW i \in DOMAIN rows, NEW k \in DOMAIN made  PROVE FarFrom(rows[i], made[k])
  <2> DEFINE s == SetToSeq(srcs)[k]
  <2>1. /\ made[k].src = s /\ made[k].type = Rule.behavior /\ made[k].first = now /\ made[k].by = "rule"
        /\ s \in srcs
    BY <1>4, <1>6
  <2>2. rows[i].last \in Int /\ now \in Int
    <3>1. RowTyped(rows[i], now)  BY <1>2 DEF RowsGood, RowGood
    <3> QED  BY <1>2, <3>1 DEF RowTyped
  <2>3. Merge \in Nat /\ Rule.cooldown \in Nat  BY WindowsAssumption
  <2>4. Twins(rows[i], made[k]) => ~(rows[i].last >= now - Rule.cooldown)  BY <1>5, <2>1 DEF Twins
  <2> HIDE DEF s
  <2>5. Twins(rows[i], made[k]) => rows[i].last < now - Merge \/ Rule.cooldown < Merge  BY <2>2, <2>3, <2>4
  <2> QED  BY <2>1, <2>5 DEF FarFrom
<1>9. ASSUME NEW k \in DOMAIN made, NEW l \in DOMAIN made, k < l  PROVE FarFrom(made[k], made[l])
  <2>1. made[k].src = SetToSeq(srcs)[k] /\ made[l].src = SetToSeq(srcs)[l]  BY <1>4, <1>6
  <2>2. k # l  BY <1>3, <1>6, <1>9
  <2>3. made[k].src # made[l].src  BY <1>3, <1>6, <2>1, <2>2
  <2> QED  BY <2>3 DEF FarFrom, Twins
<1> DEFINE all == rows \o made
<1>10. RowsGood(all, now)  BY <1>2, <1>6, <1>7, <1>8, <1>9, RowsJoined
<1> HIDE DEF all
<1>11. DbGood(db', now)  BY <1>1, <1>2, <1>10, IncidentsWritten DEF rows, all
<1>12. /\ DOMAIN loop' = LoopFields /\ loop' = [f \in LoopFields |-> loop'[f]]
       /\ loop'.pc = "sleep" /\ loop'.held = FALSE
  BY <1>1 DEF Idling, LoopFields
<1> QED  BY <1>1, <1>2, <1>11, <1>12 DEF RowsInvariant, RowsAreSound, HalvesAreSound

LEMMA RowsCorrelated ==
  ASSUME RowsInvariant, CorrelateSessions
  PROVE  RowsInvariant'
<1>1. now' = now /\ loop' = loop /\ loop.pc = "sleep"  BY DEF CorrelateSessions
<1>2. DbGood(db', now)  BY SessionsCorrelated DEF RowsInvariant, RowsAreSound
<1> QED  BY <1>1, <1>2 DEF RowsInvariant, RowsAreSound, HalvesAreSound

LEMMA RowsAtRest ==
  ASSUME RowsInvariant, Sleep \/ Crash
  PROVE  RowsInvariant'
<1>1. now \in Nat /\ now' \in Nat /\ now <= now' /\ db' = db
  <2>1. Step \in Nat  BY WindowsAssumption
  <2>2. now \in Nat /\ (now' = now \/ now' = now + Step) /\ db' = db
    BY DEF RowsInvariant, RowsAreSound, Sleep, Crash
  <2> QED  BY <2>1, <2>2
<1>2. DbGood(db', now')  BY <1>1, DbLater DEF RowsInvariant, RowsAreSound
<1>3. /\ DOMAIN loop' = LoopFields /\ loop' = [f \in LoopFields |-> loop'[f]]
      /\ loop'.pc = "idle" /\ ~loop'.held
  <2>1. CASE Sleep  BY <2>1 DEF Sleep, RowsInvariant, RowsAreSound, LoopFields
  <2>2. CASE Crash  BY <2>2 DEF Crash, Idling, LoopFields
  <2> QED  BY <2>1, <2>2
<1> QED  BY <1>1, <1>2, <1>3 DEF RowsInvariant, RowsAreSound, HalvesAreSound

-----------------------------------------------------------------------------
(* Quiet sources, action by action.                                        *)

LEMMA QuietKept ==
  ASSUME QuietIsSound, UNCHANGED <<now, flows, supp, loop, ghost>>
  PROVE  QuietIsSound'
BY DEF QuietIsSound, Markable, OfSource, QuietWhileSuppressed, InTick

\* A tick begins: what is under a rule and can still be marked is to be quiet.
LEMMA QuietFlushed ==
  ASSUME RowsAreSound, QuietIsSound, FlushFlows
  PROVE  QuietIsSound'
<1> DEFINE quiet == {s \in Srcs : [src |-> s, dst |-> None] \in supp /\ Markable(flows', s)}
<1>1. /\ now' = now /\ supp' = supp /\ loop'.pc = "mark"
      /\ ghost' = [ghost EXCEPT !.touched = {}, !.quiet = quiet]
  BY DEF FlushFlows, RowsAreSound, LoopFields
<1>2. PICK new \in {{}} \cup {{k} : k \in FlowKinds} :
         flows' = flows \cup {[k EXCEPT !.last = now + @] : k \in new}
  BY DEF FlushFlows
<1> DEFINE more == {[k EXCEPT !.last = now + @] : k \in new}
<1>3. /\ IsFiniteSet(more)
      /\ \A f \in more : {"src", "last", "suppressed"} \subseteq DOMAIN f /\ f.src \in Srcs
  <2>1. CASE new = {}
    <3>1. more = {}  BY <2>1
    <3> QED  BY <3>1, FS_EmptySet
  <2>2. CASE \E k \in FlowKinds : new = {k}
    <3>1. PICK k \in FlowKinds : new = {k}  BY <2>2
    <3> DEFINE f == [k EXCEPT !.last = now + @]
    <3>2. more = {f}  BY <3>1
    <3>3. {"src", "last", "suppressed"} \subseteq DOMAIN k /\ k.src \in Srcs  BY AddressesAssumption
    <3>4. {"src", "last", "suppressed"} \subseteq DOMAIN f /\ f.src \in Srcs  BY <3>3
    <3> HIDE DEF f, more
    <3> QED  BY <3>2, <3>4, FS_Singleton
  <2> QED  BY <2>1, <2>2
<1> HIDE DEF more
<1>4. /\ IsFiniteSet(flows')
      /\ \A f \in flows' : {"src", "last", "suppressed"} \subseteq DOMAIN f /\ f.src \in Srcs
  BY <1>2, <1>3, FS_Union DEF QuietIsSound, more
<1>5. /\ DOMAIN ghost' = {"quiet", "touched"} /\ ghost' = [f \in {"quiet", "touched"} |-> ghost'[f]]
      /\ ghost'.quiet = quiet /\ ghost'.touched = {}
  BY <1>1 DEF QuietIsSound
<1>6. \A s \in ghost'.quiet : [src |-> s, dst |-> None] \in supp' /\ Markable(flows, s)'
  BY <1>1, <1>5 DEF Markable
<1> QED  BY <1>1, <1>4, <1>5, <1>6 DEF QuietIsSound, QuietWhileSuppressed, InTick

LEMMA QuietMarked ==
  ASSUME RowsAreSound, QuietIsSound, ApplySuppressions
  PROVE  QuietIsSound'
<1> DEFINE g == [f \in flows |-> IF f.last >= now - FlowWindow /\ \E r \in supp : Matches(r, f)
                                 THEN [f EXCEPT !.suppressed = TRUE] ELSE f]
<1>1. /\ supp' = supp /\ ghost' = ghost /\ loop.pc = "mark" /\ loop'.pc = "scan"
      /\ \A f \in flows' : \E h \in flows : f = g[h]
  BY DEF ApplySuppressions, RowsAreSound, LoopFields
<1>2. ASSUME NEW h \in flows
      PROVE  /\ {"src", "last", "suppressed"} \subseteq DOMAIN g[h] /\ g[h].src = h.src
             /\ h.suppressed \/ (h.last >= now - FlowWindow /\ \E r \in supp : Matches(r, h)) => g[h].suppressed
  <2>1. {"src", "last", "suppressed"} \subseteq DOMAIN h  BY DEF QuietIsSound
  <2>2. CASE h.last >= now - FlowWindow /\ \E r \in supp : Matches(r, h)
    <3>1. g[h] = [h EXCEPT !.suppressed = TRUE]  BY <2>2
    <3> HIDE DEF g
    <3> QED  BY <2>1, <3>1
  <2>3. CASE ~(h.last >= now - FlowWindow /\ \E r \in supp : Matches(r, h))
    <3>1. g[h] = h  BY <2>3
    <3> HIDE DEF g
    <3> QED  BY <2>1, <2>3, <3>1
  <2> QED  BY <2>2, <2>3
<1> HIDE DEF g
<1>3. IsFiniteSet(flows')  BY <1>1, ImageIsFinite DEF QuietIsSound
<1>4. \A f \in flows' : {"src", "last", "suppressed"} \subseteq DOMAIN f /\ f.src \in Srcs
  BY <1>1, <1>2 DEF QuietIsSound
<1>5. \A s \in ghost.quiet : s \in Srcs /\ [src |-> s, dst |-> None] \in supp /\ Markable(flows, s)
  BY <1>1 DEF QuietIsSound, InTick
<1>6. ASSUME NEW f \in flows', f.src \in ghost.quiet  PROVE f.suppressed
  <2>1. PICK h \in flows : f = g[h]  BY <1>1
  <2>2. h.src = f.src  BY <1>2, <2>1
  <2>3. h.suppressed \/ h.last >= now - FlowWindow  BY <1>5, <1>6, <2>2 DEF Markable, OfSource
  <2>4. Matches([src |-> f.src, dst |-> None], h)  BY <2>2 DEF Matches
  <2> QED  BY <1>2, <1>5, <1>6, <2>1, <2>3, <2>4
<1> QED  BY <1>1, <1>3, <1>4, <1>5, <1>6 DEF QuietIsSound, QuietWhileSuppressed, InTick

\* A marking that fails leaves quiet whose rows are marked already.
LEMMA QuietUnmarked ==
  ASSUME RowsAreSound, QuietIsSound, FailMarking
  PROVE  QuietIsSound'
<1> DEFINE quiet == {s \in ghost.quiet : Marked(flows, s)}
<1>1. /\ now' = now /\ supp' = supp /\ flows' = flows /\ loop.pc = "mark" /\ loop'.pc = "rules"
      /\ ghost' = [ghost EXCEPT !.quiet = quiet]
  BY DEF FailMarking, RowsAreSound, LoopFields
<1>2. /\ DOMAIN ghost' = {"quiet", "touched"} /\ ghost' = [f \in {"quiet", "touched"} |-> ghost'[f]]
      /\ ghost'.quiet = quiet /\ ghost'.touched = ghost.touched
  BY <1>1 DEF QuietIsSound
<1>3. \A f \in flows : f.src \in quiet => f.suppressed  BY DEF Marked, OfSource
<1>4. quiet \subseteq ghost.quiet  OBVIOUS
<1> HIDE DEF quiet
<1> QED  BY <1>1, <1>2, <1>3, <1>4 DEF QuietIsSound, QuietWhileSuppressed, InTick

\* Quiet sources are among the suppressed ones: no behaviour of theirs is looked at.
LEMMA QuietScanned ==
  ASSUME RowsAreSound, QuietIsSound, StartScan
  PROVE  QuietIsSound'
<1> DEFINE seq == SetToSeq(Eligible)
<1>1. /\ now' = now /\ supp' = supp /\ ghost' = ghost /\ flows' = flows /\ loop.pc = "scan"
      /\ \/ Eligible = {} /\ loop'.pc = "rules"
         \/ Eligible # {} /\ loop'.pc = "upsert" /\ loop'.todo = seq
  BY DEF StartScan, RowsAreSound, LoopFields
<1>2. ASSUME NEW s \in ghost.quiet  PROVE s \in SuppressedSources
  <2>1. s \in Srcs /\ [src |-> s, dst |-> None] \in supp  BY <1>1 DEF QuietIsSound, InTick
  <2>2. s # None  BY <2>1, AddressesAssumption
  <2>3. \E q \in supp : q.src = s  BY <2>1
  <2> QED  BY <2>2, <2>3 DEF SuppressedSources
<1>3. \A b \in Eligible : b.src \notin ghost.quiet  BY <1>2 DEF Eligible
<1>4. IsFiniteSet(Eligible)
  <2> DEFINE of(s) == OfSource(Since(Since(flows, now - FlowWindow), now - FlowWindow), s)
             B == Behaviours(flows, now - FlowWindow, Bases)
             beh(s) == Classify(Metrics(OfSource(Since(flows, now - FlowWindow), s)))
             g == [s \in Srcs |-> [src |-> s, type |-> beh(s).type, confidence |-> beh(s).confidence,
                                   flows |-> beh(s).flows, deviation |-> DeviationScore(beh(s), Bases[s])]]
  <2>1. \A b \in B : \E s \in Sources(flows) : b = [src |-> s, type |-> beh(s).type, confidence |-> beh(s).confidence,
                                   flows |-> beh(s).flows, deviation |-> DeviationScore(beh(s), Bases[s])]
    BY DEF Behaviours
  <2>2. Sources(flows) \subseteq Srcs  BY DEF Sources, QuietIsSound
  <2>3. \A b \in B : \E s \in Srcs : b = g[s]  BY <2>1, <2>2
  <2> HIDE DEF B, g
  <2>4. IsFiniteSet(B)  BY <2>3, ImageIsFinite, AddressesAssumption
  <2> QED  BY <2>4, FS_Subset DEF Eligible, B
<1>5. ASSUME Eligible # {}
      PROVE  IsSequence(seq) /\ seq # <<>> /\ \A i \in DOMAIN seq : seq[i] \in Eligible
  <2> DEFINE n == Cardinality(Eligible)
  <2>1. n \in Nat /\ seq \in [1..n -> Eligible]  BY <1>4, ListOfSet
  <2>2. n # 0  BY <1>4, <1>5, FS_EmptySet
  <2> HIDE DEF n, seq
  <2>3. DOMAIN seq = 1..n /\ seq = [i \in 1..n |-> seq[i]] /\ \A i \in DOMAIN seq : seq[i] \in Eligible  BY <2>1
  <2>4. IsSequence(seq)  BY <2>1, <2>3, Listing
  <2>5. 1 \in DOMAIN seq  BY <2>1, <2>2, <2>3
  <2> QED  BY <2>3, <2>4, <2>5
<1> HIDE DEF seq
<1> QED  BY <1>1, <1>3, <1>5 DEF QuietIsSound, QuietWhileSuppressed, InTick

LEMMA QuietTouched ==
  ASSUME RowsAreSound, QuietIsSound, Touch \/ Boost
  PROVE  QuietIsSound'
<1> DEFINE src == Head(loop.todo).src
<1>1. /\ now' = now /\ supp' = supp /\ flows' = flows
      /\ ghost' = ghost \/ ghost' = [ghost EXCEPT !.touched = @ \cup {src}]
  BY DEF Touch, Boost
<1>2. /\ loop.pc \in {"upsert", "boost"} /\ loop'.pc \in {"upsert", "boost", "commit"}
      /\ loop'.todo = loop.todo \/ (loop'.todo = Tail(loop.todo) /\ (loop'.pc \in {"upsert", "boost"} => Tail(loop.todo) # <<>>))
  <2>1. CASE Touch  BY <2>1 DEF Touch, RowsAreSound, LoopFields
  <2>2. CASE Boost  BY <2>2 DEF Boost, RowsAreSound, LoopFields
  <2> QED  BY <2>1, <2>2
<1>3. IsSequence(loop.todo) /\ loop.todo # <<>> /\ \A i \in DOMAIN loop.todo : loop.todo[i].src \notin ghost.quiet
  BY <1>2 DEF QuietIsSound
<1>4. /\ IsSequence(Tail(loop.todo)) /\ src \notin ghost.quiet
      /\ \A i \in DOMAIN Tail(loop.todo) : Tail(loop.todo)[i].src \notin ghost.quiet
  BY <1>3, TailOf
<1> HIDE DEF src
<1>5. /\ DOMAIN ghost' = {"quiet", "touched"} /\ ghost' = [f \in {"quiet", "touched"} |-> ghost'[f]]
      /\ ghost'.quiet = ghost.quiet /\ ghost'.touched \subseteq ghost.touched \cup {src}
  BY <1>1 DEF QuietIsSound
<1>6. loop'.pc \in {"upsert", "boost"} =>
        IsSequence(loop'.todo) /\ loop'.todo # <<>> /\ \A i \in DOMAIN loop'.todo : loop'.todo[i].src \notin ghost.quiet
  BY <1>2, <1>3, <1>4
<1> QED  BY <1>1, <1>2, <1>4, <1>5, <1>6 DEF QuietIsSound, QuietWhileSuppressed, InTick

LEMMA QuietCommitted ==
  ASSUME RowsAreSound, QuietIsSound, CommitScan \/ FailScan
  PROVE  QuietIsSound'
<1>1. now' = now /\ supp' = supp /\ flows' = flows /\ ghost' = ghost  BY DEF CommitScan, FailScan
<1>2. loop'.pc = "rules" /\ loop.pc \in InTick \ {"mark"}
  BY DEF CommitScan, FailScan, RowsAreSound, LoopFields, InTick
<1> QED  BY <1>1, <1>2 DEF QuietIsSound, QuietWhileSuppressed, InTick

\* All rows of a quiet source are marked, and a rule leaves marked rows out.
LEMMA QuietUnderRules ==
  ASSUME RowsAreSound, QuietIsSound, RunRules
  PROVE  QuietIsSound'
<1>1. /\ now' = now /\ supp' = supp /\ flows' = flows /\ loop'.pc = "sleep" /\ loop.pc = "rules"
      /\ ghost' = IF Rule.target = "destination_ip" THEN ghost
                  ELSE [ghost EXCEPT !.touched = @ \cup RuleSources]
  BY DEF RunRules, RuleSources, Idling
<1>2. IsFiniteSet(flows)  BY DEF QuietIsSound
<1>3. \A f \in flows : f.src \in ghost.quiet => f.suppressed  BY <1>1 DEF QuietIsSound, InTick
<1>4. Rule.target # "destination_ip" => \A s \in RuleSources : s \notin ghost.quiet
  BY <1>2, <1>3, RuleSourcesAreFew
<1>5. /\ DOMAIN ghost' = {"quiet", "touched"} /\ ghost' = [f \in {"quiet", "touched"} |-> ghost'[f]]
      /\ ghost'.quiet = ghost.quiet
      /\ ghost'.touched = ghost.touched
           \/ (Rule.target # "destination_ip" /\ ghost'.touched = ghost.touched \cup RuleSources)
  BY <1>1 DEF QuietIsSound
<1> QED  BY <1>1, <1>4, <1>5 DEF QuietIsSound, QuietWhileSuppressed, InTick

\* A rule that is withdrawn takes its source out of the account.
LEMMA QuietToggled ==
  ASSUME QuietIsSound, NEW r, ToggleSuppression(r)
  PROVE  QuietIsSound'
<1>1. /\ now' = now /\ flows' = flows /\ loop' = loop /\ supp \ {r} \subseteq supp'
      /\ ghost' = [ghost EXCEPT !.quiet = @ \ {r.src}]
  BY DEF ToggleSuppression
<1>2. /\ DOMAIN ghost' = {"quiet", "touched"} /\ ghost' = [f \in {"quiet", "touched"} |-> ghost'[f]]
      /\ ghost'.quiet = ghost.quiet \ {r.src} /\ ghost'.touched = ghost.touched
  BY <1>1 DEF QuietIsSound
<1>3. ASSUME NEW s \in ghost'.quiet, [src |-> s, dst |-> None] \in supp  PROVE [src |-> s, dst |-> None] \in supp'
  <2>1. [src |-> s, dst |-> None].src = s /\ s # r.src  BY <1>2
  <2>2. [src |-> s, dst |-> None] # r  BY <2>1
  <2> QED  BY <1>1, <1>3, <2>2
<1> QED  BY <1>1, <1>2, <1>3 DEF QuietIsSound, QuietWhileSuppressed, InTick, Markable, OfSource

LEMMA QuietAtRest ==
  ASSUME RowsAreSound, QuietIsSound, Sleep \/ Crash
  PROVE  QuietIsSound'
<1>1. ghost' = ghost /\ flows' \subseteq flows  BY DEF Sleep, Crash, Since
<1>2. loop'.pc = "idle"  BY DEF Sleep, Crash, Idling, RowsAreSound, LoopFields
<1>3. IsFiniteSet(flows')  BY <1>1, FS_Subset DEF QuietIsSound
<1> QED  BY <1>1, <1>2, <1>3 DEF QuietIsSound, QuietWhileSuppressed, InTick

-----------------------------------------------------------------------------
(* The look-up cache, action by action.                                    *)

LEMMA CacheKept ==
  ASSUME CacheIsSound, UNCHANGED <<now, cache, listed, query, feed>>
  PROVE  CacheIsSound'
BY DEF CacheIsSound, StaleNegativeNeedsOverlap, Fresh

\* A scan that looks an address up reads the lists as they are.
LEMMA CacheBoosted ==
  ASSUME RowsAreSound, CacheIsSound, Boost
  PROVE  CacheIsSound'
<1> DEFINE src == Head(loop.todo).src
           entry == [hit |-> Known(src), at |-> now, raced |-> FALSE]
<1>1. /\ now' = now /\ listed' = listed /\ query' = query /\ feed' = feed
      /\ cache' = IF Fresh(cache[src]) THEN cache ELSE [cache EXCEPT ![src] = entry]
  BY DEF Boost
<1>2. CASE Fresh(cache[src])  BY <1>1, <1>2, CacheKept
<1>3. CASE ~Fresh(cache[src])
  <2>1. cache' = [cache EXCEPT ![src] = entry]  BY <1>1, <1>3
  <2>2. entry.hit = (src \in listed) /\ entry.at \in Nat  BY <1>3 DEF Known, RowsAreSound
  <2> HIDE DEF src, entry
  <2>3. /\ DOMAIN cache' = Srcs /\ cache' = [s \in Srcs |-> cache'[s]]
        /\ \A s \in Srcs : cache'[s] = IF s = src THEN entry ELSE cache[s]
    BY <2>1 DEF CacheIsSound
  <2>4. ASSUME NEW s \in listed', Fresh(cache[s])', ~cache'[s].hit  PROVE cache'[s].raced \/ feed' = "stored"
    <3>1. s \in Srcs /\ s \in listed  BY <1>1, <2>4 DEF CacheIsSound
    <3>2. s # src  BY <2>2, <2>3, <2>4, <3>1
    <3>3. cache'[s] = cache[s]  BY <2>3, <3>1, <3>2
    <3>4. Fresh(cache[s])  BY <1>1, <2>4, <3>3 DEF Fresh
    <3> QED  BY <1>1, <2>4, <3>1, <3>3, <3>4 DEF CacheIsSound, StaleNegativeNeedsOverlap
  <2>5. \A s \in Srcs : cache'[s] # None => cache'[s].at \in Nat  BY <2>2, <2>3 DEF CacheIsSound
  <2> QED  BY <1>1, <2>3, <2>4, <2>5 DEF CacheIsSound, StaleNegativeNeedsOverlap
<1> QED  BY <1>2, <1>3

\* A refresh overtakes the look-up in flight, and clears the cache only later.
LEMMA CacheRefreshed ==
  ASSUME CacheIsSound, NEW s \in Suspects, FetchFeed(s) \/ DeleteIndicator(s)
  PROVE  CacheIsSound'
<1>1. now' = now /\ cache' = cache /\ s \in Srcs  BY AddressesAssumption DEF FetchFeed, DeleteIndicator
<1>2. CASE FetchFeed(s)
  <2>1. /\ listed' = listed \cup {s} /\ feed' = "stored"
        /\ query' = IF query = None THEN None ELSE [query EXCEPT !.raced = @ \/ query.src = s]
    BY <1>2 DEF FetchFeed
  <2>2. ASSUME query' # None
        PROVE  /\ DOMAIN query' = {"src", "hit", "raced"} /\ query' = [f \in {"src", "hit", "raced"} |-> query'[f]]
               /\ query'.src \in listed' /\ ~query'.hit => query'.raced
    <3> DEFINE raced == query.raced \/ query.src = s
    <3>1. query # None /\ query' = [query EXCEPT !.raced = raced]  BY <2>1, <2>2
    <3>2. raced = (query.raced \/ query.src = s)  OBVIOUS
    <3> HIDE DEF raced
    <3>3. /\ DOMAIN query' = {"src", "hit", "raced"} /\ query' = [f \in {"src", "hit", "raced"} |-> query'[f]]
          /\ query'.src = query.src /\ query'.hit = query.hit /\ query'.raced = raced
      BY <3>1 DEF CacheIsSound
    <3>4. query.src \in listed' => query.src \in listed \/ query.src = s  BY <2>1
    <3> QED  BY <3>1, <3>2, <3>3, <3>4 DEF CacheIsSound
  <2> QED  BY <1>1, <2>1, <2>2 DEF CacheIsSound, StaleNegativeNeedsOverlap
<1>3. CASE DeleteIndicator(s)
  <2>1. listed' \subseteq listed /\ feed' = feed /\ query' = query  BY <1>3 DEF DeleteIndicator
  <2> QED  BY <1>1, <2>1 DEF CacheIsSound, StaleNegativeNeedsOverlap, Fresh
<1> QED  BY <1>2, <1>3

LEMMA CacheCleared ==
  ASSUME CacheIsSound, ClearCache \/ Crash
  PROVE  CacheIsSound'
<1>1. cache' = EmptyCache /\ listed' = listed /\ (query' = query \/ query' = None)
  BY DEF ClearCache, Crash
<1>2. DOMAIN cache' = Srcs /\ cache' = [s \in Srcs |-> cache'[s]] /\ \A s \in Srcs : cache'[s] = None
  BY <1>1 DEF EmptyCache
<1>3. \A s \in listed' : ~Fresh(cache[s])'  BY <1>1, <1>2 DEF CacheIsSound, Fresh
<1> QED  BY <1>1, <1>2, <1>3 DEF CacheIsSound, StaleNegativeNeedsOverlap

\* Over a pause an entry may cease to be valid; it does not become so.
LEMMA CacheOlder ==
  ASSUME RowsAreSound, CacheIsSound, Sleep
  PROVE  CacheIsSound'
<1>1. now' = now + Step /\ UNCHANGED <<cache, listed, query, feed>>  BY DEF Sleep
<1>2. now \in Nat /\ Step \in Nat /\ Ttl \in Nat  BY WindowsAssumption DEF RowsAreSound
<1>3. ASSUME NEW s \in listed', Fresh(cache[s])'  PROVE Fresh(cache[s])
  <2>1. cache[s] # None /\ now' - cache[s].at < Ttl
    <3>1. cache' = cache  BY <1>1
    <3>2. cache'[s] # None /\ now' - cache'[s].at < Ttl  BY <1>3 DEF Fresh
    <3> QED  BY <3>1, <3>2
  <2>2. s \in Srcs /\ cache[s].at \in Nat  BY <1>1, <2>1 DEF CacheIsSound
  <2>3. now - cache[s].at < Ttl  BY <1>1, <1>2, <2>1, <2>2
  <2> QED  BY <2>1, <2>3 DEF Fresh
<1> QED  BY <1>1, <1>3 DEF CacheIsSound, StaleNegativeNeedsOverlap

LEMMA CacheAsked ==
  ASSUME CacheIsSound, NEW s, QueryIndicators(s)
  PROVE  CacheIsSound'
<1> DEFINE hit == s \in listed
<1>1. /\ now' = now /\ cache' = cache /\ listed' = listed /\ feed' = feed
      /\ query' = [src |-> s, hit |-> hit, raced |-> FALSE]
  BY DEF QueryIndicators
<1>2. hit = (s \in listed)  OBVIOUS
<1> HIDE DEF hit
<1>3. /\ DOMAIN query' = {"src", "hit", "raced"} /\ query' = [f \in {"src", "hit", "raced"} |-> query'[f]]
      /\ query'.src = s /\ query'.hit = hit
  BY <1>1
<1> QED  BY <1>1, <1>2, <1>3 DEF CacheIsSound, StaleNegativeNeedsOverlap, Fresh

LEMMA CacheStored ==
  ASSUME RowsAreSound, CacheIsSound, StoreLookup
  PROVE  CacheIsSound'
<1> DEFINE entry == [hit |-> query.hit, at |-> now, raced |-> query.raced]
<1>1. /\ now' = now /\ listed' = listed /\ feed' = feed /\ query' = None /\ query # None
      /\ cache' = [cache EXCEPT ![query.src] = entry]
  BY DEF StoreLookup
<1>2. entry.hit = query.hit /\ entry.raced = query.raced /\ entry.at \in Nat  BY DEF RowsAreSound
<1> HIDE DEF entry
<1>3. /\ DOMAIN cache' = Srcs /\ cache' = [s \in Srcs |-> cache'[s]]
      /\ \A s \in Srcs : cache'[s] = IF s = query.src THEN entry ELSE cache[s]
  BY <1>1 DEF CacheIsSound
<1>4. query.src \in listed /\ ~query.hit => query.raced  BY <1>1 DEF CacheIsSound
<1>5. ASSUME NEW s \in listed', Fresh(cache[s])', ~cache'[s].hit  PROVE cache'[s].raced \/ feed' = "stored"
  <2>1. s \in Srcs /\ s \in listed  BY <1>1, <1>5 DEF CacheIsSound
  <2>2. CASE s = query.src  BY <1>2, <1>3, <1>4, <1>5, <2>1, <2>2
  <2>3. CASE s # query.src
    <3>1. cache'[s] = cache[s]  BY <1>3, <2>1, <2>3
    <3>2. Fresh(cache[s])  BY <1>1, <1>5, <3>1 DEF Fresh
    <3> QED  BY <1>1, <1>5, <2>1, <3>1, <3>2 DEF CacheIsSound, StaleNegativeNeedsOverlap
  <2> QED  BY <2>2, <2>3
<1>6. \A s \in Srcs : cache'[s] # None => cache'[s].at \in Nat  BY <1>2, <1>3 DEF CacheIsSound
<1> QED  BY <1>1, <1>3, <1>5, <1>6 DEF CacheIsSound, StaleNegativeNeedsOverlap

-----------------------------------------------------------------------------
(* The invariant holds.                                                    *)

LEMMA InitIsSound ==
  ASSUME Init
  PROVE  IInv
<1>1. /\ now = 0 /\ flows = {} /\ db = [incidents |-> <<>>, sessions |-> <<>>]
      /\ loop = Idling("idle", FALSE) /\ listed = {} /\ cache = [s \in Srcs |-> None] /\ query = None
      /\ ghost = [quiet |-> {}, touched |-> {}]
  BY DEF Init
<1>2. IsSequence(<<>>) /\ DOMAIN <<>> = {}
  <2>1. \A S : <<>> \in Seq(S)  OBVIOUS
  <2>2. DOMAIN <<>> = {}  OBVIOUS
  <2> QED  BY <2>1, <2>2 DEF IsSequence
<1>3. DbGood(db, now)  BY <1>1, <1>2 DEF DbGood, RowsGood, SessionsGood, OneLive
<1>4. /\ DOMAIN loop = LoopFields /\ loop = [f \in LoopFields |-> loop[f]]
      /\ loop.pc = "idle" /\ ~loop.held
  BY <1>1 DEF Idling, LoopFields
<1>5. RowsAreSound /\ HalvesAreSound  BY <1>1, <1>3, <1>4 DEF RowsAreSound, HalvesAreSound
<1>6. QuietIsSound  BY <1>1, <1>4, FS_EmptySet DEF QuietIsSound, InTick, QuietWhileSuppressed
<1>7. CacheIsSound  BY <1>1 DEF CacheIsSound, StaleNegativeNeedsOverlap
<1> QED  BY <1>5, <1>6, <1>7 DEF IInv

\* One step, one action: the retention thread, the handlers, the pauses.
LEMMA StepIsSound ==
  ASSUME IInv, [Next]_vars
  PROVE  IInv'
<1> USE DEF IInv, RowsInvariant
<1>1. CASE UNCHANGED vars  BY <1>1, RowsKept, QuietKept, CacheKept DEF vars
<1>2. CASE Tick
  <2>1. CASE Touch
    <3>1. CacheIsSound'  BY <2>1, CacheKept DEF Touch
    <3> QED  BY <2>1, <3>1, RowsTouched, QuietTouched
  <2>2. CASE Boost  BY <2>2, RowsBoosted, QuietTouched, CacheBoosted
  <2>3. CASE RunRules
    <3>1. CacheIsSound'  BY <2>3, CacheKept DEF RunRules
    <3>2. IsFiniteSet(flows)  BY DEF QuietIsSound
    <3> QED  BY <2>3, <3>1, <3>2, RowsOfRules, QuietUnderRules
  <2>4. CASE FlushFlows
    <3>1. CacheIsSound'  BY <2>4, CacheKept DEF FlushFlows
    <3> QED  BY <2>4, <3>1, RowsInTick, QuietFlushed
  <2>5. CASE ApplySuppressions
    <3>1. CacheIsSound'  BY <2>5, CacheKept DEF ApplySuppressions
    <3> QED  BY <2>5, <3>1, RowsInTick, QuietMarked
  <2>8. CASE FailMarking
    <3>1. CacheIsSound'  BY <2>8, CacheKept DEF FailMarking
    <3> QED  BY <2>8, <3>1, RowsInTick, QuietUnmarked
  <2>6. CASE StartScan
    <3>1. CacheIsSound'  BY <2>6, CacheKept DEF StartScan
    <3> QED  BY <2>6, <3>1, RowsInTick, QuietScanned
  <2>7. CASE CommitScan \/ FailScan
    <3>1. CacheIsSound'  BY <2>7, CacheKept DEF CommitScan, FailScan
    <3> QED  BY <2>7, <3>1, RowsInTick, QuietCommitted
  <2> QED  BY <1>2, <2>1, <2>2, <2>3, <2>4, <2>5, <2>6, <2>7, <2>8 DEF Tick
<1>3. CASE Handlers
  <2>1. CASE \E i \in Ids(db) : ReadIncident(i)
    <3>1. UNCHANGED <<now, flows, supp, db, loop, ghost, cache, listed, query, feed>>  BY <2>1 DEF ReadIncident
    <3> QED  BY <3>1, RowsKept, QuietKept, CacheKept
  <2>2. CASE \E st \in Statuses : UpdateStatus(st)
    <3>1. UNCHANGED <<now, flows, supp, loop, ghost, cache, listed, query, feed>>  BY <2>2 DEF UpdateStatus
    <3> QED  BY <2>2, <3>1, RowsEdited, QuietKept, CacheKept
  <2>3. CASE \E r \in SuppRules : ToggleSuppression(r)
    <3>1. UNCHANGED <<now, db, loop, cache, listed, query, feed>>  BY <2>3 DEF ToggleSuppression
    <3> QED  BY <2>3, <3>1, RowsKept, QuietToggled, CacheKept
  <2>4. CASE ToggleRule
    <3>1. UNCHANGED <<now, flows, supp, db, loop, ghost, cache, listed, query, feed>>  BY <2>4 DEF ToggleRule
    <3> QED  BY <3>1, RowsKept, QuietKept, CacheKept
  <2>5. CASE ClearCache
    <3>1. UNCHANGED <<now, flows, supp, db, loop, ghost>>  BY <2>5 DEF ClearCache
    <3> QED  BY <2>5, <3>1, RowsKept, QuietKept, CacheCleared
  <2>6. CASE StoreLookup
    <3>1. UNCHANGED <<now, flows, supp, db, loop, ghost>>  BY <2>6 DEF StoreLookup
    <3> QED  BY <2>6, <3>1, RowsKept, QuietKept, CacheStored
  <2>7. CASE CorrelateSessions
    <3>1. UNCHANGED <<now, flows, supp, loop, ghost, cache, listed, query, feed>>  BY <2>7 DEF CorrelateSessions
    <3> QED  BY <2>7, <3>1, RowsCorrelated, QuietKept, CacheKept
  <2>8. CASE \E s \in Suspects : FetchFeed(s) \/ DeleteIndicator(s)
    <3>1. UNCHANGED <<now, flows, supp, db, loop, ghost>>  BY <2>8 DEF FetchFeed, DeleteIndicator
    <3> QED  BY <2>8, <3>1, RowsKept, QuietKept, CacheRefreshed
  <2>9. CASE \E s \in Suspects : QueryIndicators(s)
    <3>1. UNCHANGED <<now, flows, supp, db, loop, ghost>>  BY <2>9 DEF QueryIndicators
    <3> QED  BY <2>9, <3>1, RowsKept, QuietKept, CacheAsked
  <2>10. CASE \E s \in Suspects : GeoLookup(s)
    <3>1. UNCHANGED <<now, flows, supp, db, loop, ghost, cache, listed, query, feed>>  BY <2>10 DEF GeoLookup
    <3> QED  BY <3>1, RowsKept, QuietKept, CacheKept
  <2> QED  BY <1>3, <2>1, <2>2, <2>3, <2>4, <2>5, <2>6, <2>7, <2>8, <2>9, <2>10 DEF Handlers
<1>4. CASE Sleep \/ Crash  BY <1>4, RowsAtRest, QuietAtRest, CacheOlder, CacheCleared
<1> QED  BY <1>1, <1>2, <1>3, <1>4 DEF Next

LEMMA AlwaysSound == Spec => []IInv
<1>1. Init => IInv  BY InitIsSound
<1>2. IInv /\ [Next]_vars => IInv'  BY StepIsSound
<1> QED  BY <1>1, <1>2, PTL DEF Spec

-----------------------------------------------------------------------------
(* The theorems.                                                           *)

\* However scans, rules, analysts and correlations interleave, and wherever a scan is cut
\* off: two live incidents of a source and behaviour are further apart than the merge
\* window but for the two ways told there, and a source has one open session at most.
THEOREM NoTwinsEver == Spec => []NoTwins
<1>1. ASSUME IInv  PROVE NoTwins
  <2>1. RowsGood(db.incidents, now) /\ SessionsGood(db.sessions)  BY <1>1 DEF IInv, RowsAreSound, DbGood
  <2>2. OneLiveSession  BY <2>1 DEF OneLiveSession, SessionsGood, OneLive
  <2>3. ASSUME NEW i \in Ids(db), NEW j \in Ids(db), i < j,
               db.incidents[i].src = db.incidents[j].src, db.incidents[i].type = db.incidents[j].type,
               db.incidents[i].status \in Live, db.incidents[j].status \in Live
        PROVE  \/ db.incidents[i].reopened \/ db.incidents[j].reopened
               \/ db.incidents[i].last < db.incidents[j].first - Merge
               \/ db.incidents[j].by = "rule" /\ Rule.cooldown < Merge
    <3>1. FarFrom(db.incidents[i], db.incidents[j])  BY <2>1, <2>3 DEF RowsGood, Ids
    <3> QED  BY <2>3, <3>1 DEF FarFrom, Twins
  <2>4. OneOpenPerBehaviour  BY <2>3 DEF OneOpenPerBehaviour
  <2> QED  BY <2>2, <2>4 DEF NoTwins
<1> QED  BY <1>1, AlwaysSound, PTL

\* An incident of the scan at medium severity or above was told, and its priority is that of
\* the severity it stands at, whatever status handlers write between the two halves of a
\* scan, unless its history says which write was cut off or came from an older read.
THEOREM ToldAndPricedAlways == Spec => []ToldAndPriced
<1>1. ASSUME IInv  PROVE ToldAndPriced
  <2>1. now \in Nat /\ \A i \in Ids(db) : RowGood(db.incidents[i], now)
    BY <1>1 DEF IInv, RowsAreSound, DbGood, RowsGood, Ids
  <2>2. BigIncidentsTold  BY <2>1 DEF BigIncidentsTold, RowGood, ToldOf
  <2>3. ASSUME NEW x, RowTyped(x, now)  PROVE Priority([x EXCEPT !.act = now]) = PriceOf(x)
    <3> DEFINE y == [x EXCEPT !.act = now]
    <3>1. y.sev = x.sev /\ y.crit = x.crit /\ y.count = x.count /\ y.type = x.type /\ y.act = now
      BY <2>3 DEF RowTyped, RowFields
    <3>2. now - y.act = 0  BY <2>1, <3>1
    <3> HIDE DEF y
    <3>3. Priority(y) = PriceOf(x)  BY <3>1, <3>2 DEF Priority, PriceOf
    <3> QED  BY <3>3 DEF y
  <2>4. PriorityAgrees
    <3> SUFFICES ASSUME NEW i \in Ids(db), db.incidents[i].whole /\ ~db.incidents[i].stale
                 PROVE  db.incidents[i].prio = Priority([db.incidents[i] EXCEPT !.act = now])
      BY DEF PriorityAgrees
    <3> DEFINE x == db.incidents[i]
    <3>1. RowTyped(x, now) /\ x.prio = PriceOf(x)  BY <2>1 DEF RowGood, Priced
    <3> HIDE DEF x
    <3>2. x.prio = Priority([x EXCEPT !.act = now])  BY <2>3, <3>1
    <3> QED  BY <3>2 DEF x
  <2> QED  BY <2>2, <2>4 DEF ToldAndPriced
<1> QED  BY <1>1, AlwaysSound, PTL

\* A source that was under a rule when the tick began gets no incident in it, unless it has
\* rows the marking did not reach, old ones or all of them where it failed; a listed source is denied only from an answer the refresh
\* overtook, or before the refresh has cleared the cache.
THEOREM ListsAlwaysTakeEffect == Spec => []ListsTakeEffect
<1>1. IInv => ListsTakeEffect  BY DEF IInv, QuietIsSound, CacheIsSound, ListsTakeEffect
<1> QED  BY <1>1, AlwaysSound, PTL
=============================================================================
