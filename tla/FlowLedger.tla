----------------------------- MODULE FlowLedger -----------------------------
(***************************************************************************)
(* What flow aggregation promises, without windows, clocks or capacity:    *)
(* every event observed belongs to one group of events of one key; a group *)
(* is open until it is closed as a whole, and a closed group is final.     *)
(***************************************************************************)
CONSTANTS Event, KeyOf(_)

VARIABLES open,    \* events of the groups that are still open, one per key
          closed   \* the closed groups

Init == open = {} /\ closed = {}

Group(k) == {e \in open : KeyOf(e) = k}
Keys(S) == {KeyOf(e) : e \in S}

Observe(e) ==
    /\ e \notin open \cup (UNION closed)
    /\ open' = open \cup {e}
    /\ UNCHANGED closed

Close(K) ==
    /\ closed' = closed \cup {Group(k) : k \in K}
    /\ open' = {e \in open : KeyOf(e) \notin K}

Next == \/ \E e \in Event : Observe(e)
        \/ \E K \in SUBSET Keys(open) : Close(K)

Spec == Init /\ [][Next]_<<open, closed>>
=============================================================================
