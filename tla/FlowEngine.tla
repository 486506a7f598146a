----------------------------- MODULE FlowEngine -----------------------------
(***************************************************************************)
(* The flow engine of the collector (collector/flows.py): events are       *)
(* aggregated into flows by their key, idle flows are flushed and labelled,*)
(* and a table over its capacity loses its oldest flows at the next flush. *)
(* Event times come from the devices: they arrive in any order and may be  *)
(* in the future.                                                          *)
(*                                                                         *)
(* The caller holds a lock around every operation: each is one step.       *)
(***************************************************************************)
EXTENDS FlowTable, FlowLabels

CONSTANT MaxTime   \* bound: the clock stops here
ASSUME ClockAssumption == MaxTime \in Nat

VARIABLES
    flows,    \* _flows: per key the window, the events, the tally and the bytes
    created,  \* _total_created
    flushed,  \* _total_flushed
    rows,     \* the flows handed to the caller, with their key
    clock

vars == <<flows, created, flushed, rows, clock>>

-----------------------------------------------------------------------------
Init ==
    /\ flows = [k \in {} |-> <<>>]
    /\ created = 0 /\ flushed = 0
    /\ rows = {}
    /\ clock = 0

Seen == (UNION {flows[k].events : k \in DOMAIN flows})
          \cup (UNION {r.flow.events : r \in rows})

\* Event e arrives, once.  An event without a time gets that of its arrival,
\* which is one of the times an event may have.
ProcessEvent(e) ==
    /\ e \notin Seen
    /\ IF e.key = NoKey
         THEN UNCHANGED <<flows, created>>
         ELSE /\ flows' = Touch(flows, e)
              /\ created' = IF e.key \in DOMAIN flows THEN created ELSE created + 1
    /\ UNCHANGED <<flushed, rows, clock>>

FlushExpired ==
    LET idle == Expired(flows, clock)
        rest == Without(flows, idle) IN
    \E K \in SUBSET DOMAIN rest :
        /\ Oldest(rest, K)
        /\ flows' = Without(rest, K)
        /\ flushed' = flushed + Cardinality(idle \cup K)
        /\ rows' = rows \cup RowsOf(flows, idle \cup K)
        /\ UNCHANGED <<created, clock>>

ClockTicks ==
    /\ clock < MaxTime
    /\ clock' = clock + 1
    /\ UNCHANGED <<flows, created, flushed, rows>>

Next == \/ \E e \in Event : ProcessEvent(e)
        \/ FlushExpired
        \/ ClockTicks

Spec == Init /\ [][Next]_vars

-----------------------------------------------------------------------------
(* Properties.                                                             *)

Flow == [first : Int, last : Int, events : SUBSET Event, tally : [Actions -> Nat],
         in : Nat, out : Nat]

TypeOK ==
    /\ \A k \in DOMAIN flows : flows[k] \in Flow
    /\ \A r \in rows : r.flow \in Flow
    /\ created \in Nat /\ flushed \in Nat
    /\ clock \in 0..MaxTime

AllFlows == {flows[k] : k \in DOMAIN flows} \cup {r.flow : r \in rows}

\* The window of a flow spans its events exactly, in whatever order they
\* arrived, and the tally counts them: it is what to_dict reports.
WindowSpansEvents ==
    \A f \in AllFlows :
        /\ f.events # {}
        /\ \A e \in f.events : f.first <= e.time /\ e.time <= f.last
        /\ \E e \in f.events : e.time = f.first
        /\ \E e \in f.events : e.time = f.last
        /\ \A a \in Actions :
              f.tally[a] = Cardinality({e \in f.events : e.action = a})

\* The counters agree with the table: what was created was flushed or is
\* still active.  A flow that is both expired and among the oldest counts once.
CountersAgree == created = flushed + Cardinality(DOMAIN flows)

\* The bookkeeping of the table is that of the events it was given.
WindowsAndCounters == WindowSpansEvents /\ CountersAgree

\* After a flush the table is within its capacity.
FlushBoundsTable ==
    [][flushed' # flushed => Cardinality(DOMAIN flows') <= MaxActiveFlows]_vars

\* A flush that gives up a flow before its timeout keeps no older flow, and gives
\* up no more of them than the table is over its capacity once the idle ones left.
EvictsOnlyOldest ==
    [][\A k \in DOMAIN flows \ DOMAIN flows' : k \notin Expired(flows, clock) =>
          /\ Cardinality(DOMAIN flows') = MaxActiveFlows
          /\ \A l \in DOMAIN flows' : flows[k].last <= flows[l].last]_vars

\* State, summary and type of a flow, three chains of conditions over the same
\* counters, never contradict each other.
LabelsAgree == \A f \in AllFlows : LabelsMatch(f)

\* While a flow counts events its labels change in these ways only.
LabelsMoveOn ==
    [][\A k \in DOMAIN flows \cap DOMAIN flows' : LabelsFollow(flows[k], flows'[k])]_vars

\* Each event is counted by one flow, under its own key; a flushed flow is
\* never changed, reopened or flushed again.
Ledger == INSTANCE FlowLedger WITH
    open <- UNION {flows[k].events : k \in DOMAIN flows},
    closed <- {r.flow.events : r \in rows}
ImplementsLedger == Ledger!Spec
=============================================================================
