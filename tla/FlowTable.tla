----------------------------- MODULE FlowTable ------------------------------
(***************************************************************************)
(* The flow table of the collector (collector/flows.py, FlowEngine._flows):*)
(* what one event does to it and what a flush takes out of it.  Module     *)
(* FlowEngine is the engine, Collector the threads that feed it.           *)
(*                                                                         *)
(* A flow (_ActiveFlow) is a window [first, last], in seconds, the events  *)
(* counted in it, one counter per action and the bytes of each direction.  *)
(***************************************************************************)
EXTENDS Integers, FiniteSets

CONSTANTS
    Event,          \* events: records with a key, a time, an action and bytes
    Timeout,        \* timeout_seconds
    MaxActiveFlows  \* MAX_ACTIVE_FLOWS: capacity of the table after a flush

Actions == {"allow", "deny", "drop", "reset", "alert"}
NoKey == "none"     \* an event without a source or a destination address

ASSUME EventAssumption ==
    \A e \in Event : /\ e.time \in Int /\ e.action \in Actions \cup {"other"}
                      /\ e.in \in Nat /\ e.out \in Nat
ASSUME FlowAssumption == Timeout \in Nat /\ MaxActiveFlows \in Nat

-----------------------------------------------------------------------------
(* The table.                                                              *)

KeyOf(e) == e.key

NewFlow(e) == [first |-> e.time, last |-> e.time, events |-> {},
               tally |-> [a \in Actions |-> 0], in |-> 0, out |-> 0]

\* Mutant: the last event seen ends the window, whatever its time.
WidenLast(f, t) == [f EXCEPT !.last = t]

Widen(f, t) == [f EXCEPT !.first = IF t < @ THEN t ELSE @,
                         !.last  = IF t > @ THEN t ELSE @]

\* The chain of tests of the action; other actions are counted by no counter.
Tally(t, a) == [b \in Actions |-> IF b = a THEN t[b] + 1 ELSE t[b]]

Count(f, e) == [f EXCEPT !.events = @ \cup {e}, !.tally = Tally(@, e.action),
                         !.in = @ + e.in, !.out = @ + e.out]

FlowFor(table, e) == IF e.key \in DOMAIN table THEN table[e.key] ELSE NewFlow(e)

\* The table after an event.
Touch(table, e) ==
    [k \in DOMAIN table \cup {e.key} |->
        IF k = e.key THEN Count(Widen(FlowFor(table, e), e.time), e) ELSE table[k]]

Expired(table, now) == {k \in DOMAIN table : table[k].last <= now - Timeout}

Overflow(table) ==
    IF Cardinality(DOMAIN table) > MaxActiveFlows
      THEN Cardinality(DOMAIN table) - MaxActiveFlows ELSE 0

\* K are the flows beyond the capacity, the oldest ones, in some order of
\* those seen last at the same time (the table's order is abstracted).
Oldest(table, K) ==
    /\ K \subseteq DOMAIN table
    /\ Cardinality(K) = Overflow(table)
    /\ \A k \in K : \A l \in DOMAIN table \ K : table[k].last <= table[l].last

\* Mutant: the flushed flows stay in the table.
WithAll(table, K) == table

Without(table, K) == [k \in DOMAIN table \ K |-> table[k]]

RowsOf(table, K) == {[key |-> k, flow |-> table[k]] : k \in K}
=============================================================================
