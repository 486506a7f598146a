--------------------------- MODULE TrafficProofs ----------------------------
(***************************************************************************)
(* Traffic on its way to a row: the sender of the packet engine, for every *)
(* finite set of events, every batch size and every number of faults, and  *)
(* the flow engine of the collector, for every set of events, keys and     *)
(* capacity.                                                               *)
(***************************************************************************)
EXTENDS PacketSender, FlowEngine, FiniteSetTheorems, TLAPS

-----------------------------------------------------------------------------
(* Sequences and the sets of their elements.                               *)

LEMMA InSeqSubset ==
    ASSUME NEW S, NEW s \in Seq(S)
    PROVE  InSeq(s) \subseteq S
BY DEF InSeq

LEMMA InSeqEmpty == InSeq(<<>>) = {}
BY DEF InSeq

LEMMA InSeqAppend ==
    ASSUME NEW S, NEW s \in Seq(S), NEW e \in S
    PROVE  /\ Append(s, e) \in Seq(S)
           /\ Len(Append(s, e)) = Len(s) + 1
           /\ InSeq(Append(s, e)) = InSeq(s) \cup {e}
<1>1. DOMAIN Append(s, e) = DOMAIN s \cup {Len(s) + 1}  OBVIOUS
<1>2. \A i \in DOMAIN s : Append(s, e)[i] = s[i]  OBVIOUS
<1>3. Append(s, e)[Len(s) + 1] = e  OBVIOUS
<1>4. InSeq(Append(s, e)) = InSeq(s) \cup {e}
  BY <1>1, <1>2, <1>3, Zenon DEF InSeq
<1> QED  BY <1>4

LEMMA InSeqHeadTail ==
    ASSUME NEW S, NEW s \in Seq(S), s # <<>>
    PROVE  /\ Head(s) \in S
           /\ Tail(s) \in Seq(S)
           /\ InSeq(s) = {Head(s)} \cup InSeq(Tail(s))
<1>1. Head(s) \in S /\ Tail(s) \in Seq(S)  OBVIOUS
<1>2. \A i \in DOMAIN s : i = 1 \/ (i - 1 \in DOMAIN Tail(s) /\ s[i] = Tail(s)[i - 1])
  OBVIOUS
<1>3. \A i \in DOMAIN Tail(s) : i + 1 \in DOMAIN s /\ Tail(s)[i] = s[i + 1]
  OBVIOUS
<1>4. 1 \in DOMAIN s /\ Head(s) = s[1]  OBVIOUS
<1>5. ASSUME NEW x \in InSeq(s) PROVE x \in {Head(s)} \cup InSeq(Tail(s))
  <2>1. PICK i \in DOMAIN s : x = s[i]  BY <1>5 DEF InSeq
  <2> QED  BY <2>1, <1>2, <1>4 DEF InSeq
<1>6. ASSUME NEW x \in {Head(s)} \cup InSeq(Tail(s)) PROVE x \in InSeq(s)
  <2>1. CASE x = Head(s)  BY <2>1, <1>4 DEF InSeq
  <2>2. CASE x \in InSeq(Tail(s))
    <3>1. PICK i \in DOMAIN Tail(s) : x = Tail(s)[i]  BY <2>2 DEF InSeq
    <3> QED  BY <3>1, <1>3 DEF InSeq
  <2> QED  BY <1>6, <2>1, <2>2
<1> QED  BY <1>1, <1>5, <1>6

LEMMA InSeqConcat ==
    ASSUME NEW S, NEW s \in Seq(S), NEW t \in Seq(S)
    PROVE  /\ s \o t \in Seq(S)
           /\ InSeq(s \o t) = InSeq(s) \cup InSeq(t)
<1>1. s \o t \in Seq(S) /\ DOMAIN (s \o t) = 1 .. Len(s) + Len(t)  OBVIOUS
<1>2. \A i \in DOMAIN s : i \in DOMAIN (s \o t) /\ (s \o t)[i] = s[i]  OBVIOUS
<1>3. \A i \in DOMAIN t : i + Len(s) \in DOMAIN (s \o t) /\ (s \o t)[i + Len(s)] = t[i]
  OBVIOUS
<1>4. \A i \in DOMAIN (s \o t) :
         \/ i \in DOMAIN s
         \/ i - Len(s) \in DOMAIN t /\ (s \o t)[i] = t[i - Len(s)]
  OBVIOUS
<1>5. ASSUME NEW x \in InSeq(s \o t) PROVE x \in InSeq(s) \cup InSeq(t)
  <2>1. PICK i \in DOMAIN (s \o t) : x = (s \o t)[i]  BY <1>5 DEF InSeq
  <2>2. CASE i \in DOMAIN s  BY <2>1, <2>2, <1>2 DEF InSeq
  <2>3. CASE i - Len(s) \in DOMAIN t /\ (s \o t)[i] = t[i - Len(s)]
    BY <2>1, <2>3 DEF InSeq
  <2> QED  BY <1>4, <2>2, <2>3
<1>6. ASSUME NEW x \in InSeq(s) PROVE x \in InSeq(s \o t)
  <2>1. PICK i \in DOMAIN s : x = s[i]  BY <1>6 DEF InSeq
  <2> QED  BY <2>1, <1>2 DEF InSeq
<1>7. ASSUME NEW x \in InSeq(t) PROVE x \in InSeq(s \o t)
  <2>1. PICK i \in DOMAIN t : x = t[i]  BY <1>7 DEF InSeq
  <2> QED  BY <2>1, <1>3 DEF InSeq
<1> QED  BY <1>1, <1>5, <1>6, <1>7

\* An order of a set of events is a sequence that lists each of them.
LEMMA OrdersListed ==
    ASSUME NEW S \in SUBSET FlowEvent, NEW s \in Orders(S)
    PROVE  s \in Seq(FlowEvent) /\ InSeq(s) = S
<1>1. Cardinality(S) \in Nat
  BY FlowEventAssumption, FS_Subset, FS_CardinalityType
<1>2. s \in [1..Cardinality(S) -> FlowEvent] /\ InSeq(s) = S  BY DEF Orders
<1> QED  BY <1>1, <1>2

\* Counting one more for the events of a set.
LEMMA CounterBumped ==
    ASSUME NEW f \in [FlowEvent -> Nat], NEW S
    PROVE  [e \in FlowEvent |-> IF e \in S THEN f[e] + 1 ELSE f[e]] \in [FlowEvent -> Nat]
OBVIOUS

-----------------------------------------------------------------------------
(* Type correctness.                                                       *)

LEMMA InitType ==
    ASSUME SenderInit
    PROVE  SenderTypeOK
<1>1. faults \in 0..MaxFaults  BY MaxFaultsAssumption DEF SenderInit
<1>2. stored \in [FlowEvent -> Nat] /\ skipped \subseteq Unreadable  BY DEF SenderInit
<1>3. batch \in Seq(FlowEvent) /\ inflight \in Seq(FlowEvent) /\ toAdd \in Seq(FlowEvent)
  BY DEF SenderInit
<1>4. pc = "loop" /\ post = "none" /\ pc \notin SendStates
  BY DEF SenderInit, SendStates
<1> QED  BY <1>1, <1>2, <1>3, <1>4 DEF SenderInit, SenderTypeOK

LEMMA TakeType ==
    ASSUME SenderTypeOK, NEW S \in SUBSET (FlowEvent \ Known), NEW s \in Orders(S),
           NEW final \in BOOLEAN, Take(s, final)
    PROVE  SenderTypeOK'
<1>1. s \in Seq(FlowEvent)  BY OrdersListed
<1> QED  BY <1>1 DEF Take, SenderTypeOK, SendStates

LEMMA StepType ==
    ASSUME SenderTypeOK, SenderStep
    PROVE  SenderTypeOK'
<1> USE DEF SenderTypeOK, SendStates
<1>1. CASE AddBuffers
  BY <1>1, InSeqHeadTail, InSeqAppend DEF AddBuffers
<1>2. CASE AddFills
  BY <1>2, InSeqHeadTail, InSeqAppend DEF AddFills, Send
<1>3. CASE FlushEmpty
  BY <1>3 DEF FlushEmpty, AfterFlush
<1>4. CASE FlushSends
  BY <1>4 DEF FlushSends, Send
<1>5. CASE SendSucceeds
  BY <1>5 DEF SendSucceeds, AfterFlush
<1>6. CASE SendFails
  <2>1. faults' \in 0..MaxFaults
    BY <1>6, MaxFaultsAssumption DEF SendFails
  <2>2. late' = late \/ late' = late \cup {[nr |-> faults, events |-> inflight]}
    BY <1>6 DEF SendFails
  <2>3. \A r \in late' : r.nr \in Nat /\ r.events \in Seq(FlowEvent)
    BY <2>2
  <2>4. /\ batch' \in Seq(FlowEvent) /\ inflight' \in Seq(FlowEvent)
        /\ pc' \in {"loop", "add", "exited"} \cup SendStates
        /\ post' \in {"none", "sent", "accepted", "rejected"}
        /\ pc' \in SendStates <=> post' # "none"
        /\ pc' \notin SendStates => inflight' = <<>>
        /\ dropped' \subseteq FlowEvent
    <3>1. CASE AddSendFails
      BY <3>1, InSeqSubset DEF AddSendFails
    <3>2. CASE FlushRetries
      BY <3>2 DEF FlushRetries, Send
    <3>3. CASE FlushRequeues
      BY <3>3, InSeqConcat DEF FlushRequeues, AfterFlush
    <3> QED  BY <1>6, <3>1, <3>2, <3>3 DEF SendFails
  <2> QED  BY <1>6, <2>1, <2>3, <2>4 DEF SendFails
<1> QED  BY <1>1, <1>2, <1>3, <1>4, <1>5, <1>6 DEF SenderStep

LEMMA IngestType ==
    ASSUME SenderTypeOK, Ingest
    PROVE  SenderTypeOK'
<1> USE DEF SenderTypeOK
<1>1. CASE IngestAccepts  BY <1>1 DEF IngestAccepts, Store
<1>2. CASE IngestRejects  BY <1>2 DEF IngestRejects
<1>3. CASE IngestLate
  <2>1. PICK r \in late :
            /\ late' = late \ {r}
            /\ Store(r.events) \/ UNCHANGED <<stored, skipped>>
            /\ UNCHANGED <<batch, inflight, toAdd, pc, closing, post, dropped, faults>>
    BY <1>3 DEF IngestLate
  <2>2. stored' \in [FlowEvent -> Nat] /\ skipped' \subseteq Unreadable
    <3>1. CASE Store(r.events)
      <4>1. /\ stored' = [e \in FlowEvent |-> IF e \in InSeq(r.events) \ Unreadable
                                             THEN stored[e] + 1 ELSE stored[e]]
            /\ skipped' = skipped \cup (InSeq(r.events) \cap Unreadable)
        BY <3>1 DEF Store
      <4> QED  BY <4>1, CounterBumped
    <3>2. CASE UNCHANGED <<stored, skipped>>  BY <3>2
    <3> QED  BY <2>1, <3>1, <3>2
  <2> QED  BY <2>1, <2>2
<1> QED  BY <1>1, <1>2, <1>3 DEF Ingest

\* The variables of the sender stay in their types; a POST is under way
\* exactly while the main goroutine waits in send().
THEOREM SenderTypes == SenderSpec => []SenderTypeOK
<1>1. SenderInit => SenderTypeOK  BY InitType
<1>2. SenderTypeOK /\ [SenderNext]_senderVars => SenderTypeOK'
  <2> SUFFICES ASSUME SenderTypeOK, [SenderNext]_senderVars PROVE SenderTypeOK'
    OBVIOUS
  <2>1. CASE Tick
    BY <2>1, TakeType DEF Tick
  <2>2. CASE SenderStep  BY <2>2, StepType
  <2>3. CASE Ingest  BY <2>3, IngestType
  <2>4. CASE UNCHANGED senderVars
    BY <2>4 DEF senderVars, SenderTypeOK
  <2> QED  BY <2>1, <2>2, <2>3, <2>4 DEF SenderNext
<1> QED  BY <1>1, <1>2, PTL DEF SenderSpec

-----------------------------------------------------------------------------
(* The inductive invariant behind the batch limit and the accounting.      *)

\* While the main goroutine waits in the send() of Add the batch is empty;
\* between two ticks no flow waits to be added; a POST is accepted only after
\* its rows are stored, those of the events passed over excepted.
SenderIInv ==
    /\ SenderTypeOK
    /\ BatchBelowLimit
    /\ pc = "addSend" => batch = <<>>
    /\ pc \notin {"add", "addSend"} => toAdd = <<>>
    /\ post = "accepted" => \A e \in InSeq(inflight) : stored[e] > 0 \/ e \in skipped

LEMMA TakeIInv ==
    ASSUME SenderIInv, NEW S \in SUBSET (FlowEvent \ Known), NEW s \in Orders(S),
           NEW final \in BOOLEAN, Take(s, final)
    PROVE  SenderIInv'
<1>1. SenderTypeOK'  BY TakeType DEF SenderIInv
<1> QED  BY <1>1 DEF Take, SenderIInv, BatchBelowLimit, SenderTypeOK, SendStates

LEMMA StepIInv ==
    ASSUME SenderIInv, SenderStep
    PROVE  SenderIInv'
<1>1. SenderTypeOK'  BY StepType DEF SenderIInv
<1> USE BatchSizeAssumption DEF SenderIInv, BatchBelowLimit, SenderTypeOK, SendStates
<1>2. CASE AddBuffers
  BY <1>1, <1>2, InSeqHeadTail, InSeqAppend DEF AddBuffers
<1>3. CASE AddFills
  BY <1>1, <1>3 DEF AddFills, Send
<1>4. CASE FlushEmpty
  BY <1>1, <1>4 DEF FlushEmpty, AfterFlush
<1>5. CASE FlushSends
  BY <1>1, <1>5 DEF FlushSends, Send
<1>6. CASE SendSucceeds
  BY <1>1, <1>6, InSeqEmpty DEF SendSucceeds, AfterFlush
<1>7. CASE SendFails
  <2>1. toAdd' = toAdd /\ stored' = stored /\ skipped' = skipped  BY <1>7 DEF SendFails
  <2>2. CASE AddSendFails
    BY <1>1, <2>1, <2>2 DEF AddSendFails
  <2>3. CASE FlushRetries
    BY <1>1, <2>1, <2>3 DEF FlushRetries, Send
  <2>4. CASE FlushRequeues
    <3>1. inflight \o batch = inflight
      BY <2>4 DEF FlushRequeues
    <3> QED  BY <1>1, <2>1, <2>4, <3>1 DEF FlushRequeues, AfterFlush
  <2> QED  BY <1>7, <2>2, <2>3, <2>4 DEF SendFails
<1> QED  BY <1>2, <1>3, <1>4, <1>5, <1>6, <1>7 DEF SenderStep

LEMMA IngestIInv ==
    ASSUME SenderIInv, Ingest
    PROVE  SenderIInv'
<1>1. SenderTypeOK'  BY IngestType DEF SenderIInv
<1>2. stored \in [FlowEvent -> Nat] /\ stored' \in [FlowEvent -> Nat]
  BY <1>1 DEF SenderIInv, SenderTypeOK
<1>3. CASE IngestAccepts
  <2>1. \A e \in InSeq(inflight) : stored'[e] > 0 \/ e \in skipped'
    <3>1. InSeq(inflight) \subseteq FlowEvent  BY InSeqSubset DEF SenderIInv, SenderTypeOK
    <3>2. \A e \in InSeq(inflight) : stored'[e] = stored[e] + 1 \/ e \in skipped'
      BY <1>3, <3>1 DEF IngestAccepts, Store
    <3> QED  BY <1>2, <3>1, <3>2
  <2> QED  BY <1>1, <1>3, <2>1 DEF IngestAccepts, SenderIInv, BatchBelowLimit
<1>4. CASE IngestRejects
  BY <1>1, <1>4 DEF IngestRejects, SenderIInv, BatchBelowLimit
<1>5. CASE IngestLate
  <2>1. PICK r \in late :
            /\ Store(r.events) \/ UNCHANGED <<stored, skipped>>
            /\ UNCHANGED <<batch, inflight, toAdd, pc, closing, post, dropped, faults>>
    BY <1>5 DEF IngestLate
  <2>2. skipped \subseteq skipped' /\ \A e \in FlowEvent : stored'[e] >= stored[e]
    BY <1>2, <2>1 DEF Store
  <2>3. InSeq(inflight) \subseteq FlowEvent  BY InSeqSubset DEF SenderIInv, SenderTypeOK
  <2>4. InSeq(inflight') = InSeq(inflight)  BY <2>1
  <2>5. post' = "accepted" => \A e \in InSeq(inflight') : stored'[e] > 0 \/ e \in skipped'
    BY <1>2, <2>1, <2>2, <2>3, <2>4 DEF SenderIInv
  <2> QED  BY <1>1, <2>1, <2>5 DEF SenderIInv, BatchBelowLimit
<1> QED  BY <1>3, <1>4, <1>5 DEF Ingest

LEMMA SenderInvariant == SenderSpec => []SenderIInv
<1>1. SenderInit => SenderIInv
  <2> SUFFICES ASSUME SenderInit PROVE SenderIInv  OBVIOUS
  <2>1. SenderTypeOK  BY InitType
  <2> QED  BY <2>1, BatchSizeAssumption DEF SenderInit, SenderIInv, BatchBelowLimit
<1>2. SenderIInv /\ [SenderNext]_senderVars => SenderIInv'
  <2> SUFFICES ASSUME SenderIInv, [SenderNext]_senderVars PROVE SenderIInv'
    OBVIOUS
  <2>1. CASE Tick  BY <2>1, TakeIInv DEF Tick
  <2>2. CASE SenderStep  BY <2>2, StepIInv
  <2>3. CASE Ingest  BY <2>3, IngestIInv
  <2>4. CASE UNCHANGED senderVars
    BY <2>4 DEF senderVars, SenderIInv, SenderTypeOK, BatchBelowLimit
  <2> QED  BY <2>1, <2>2, <2>3, <2>4 DEF SenderNext
<1> QED  BY <1>1, <1>2, PTL DEF SenderSpec

\* The batch stays below BatchSize however many POSTs fail: what Flush puts
\* back had been taken from a batch below the limit, and nothing was added
\* meanwhile.
THEOREM BatchStaysBelowLimit == SenderSpec => []BatchBelowLimit
<1>1. SenderIInv => BatchBelowLimit  BY DEF SenderIInv
<1> QED  BY <1>1, SenderInvariant, PTL

LEMMA KnownKept ==
    ASSUME SenderIInv, [SenderNext]_senderVars
    PROVE  \A e \in Known : e \in Known'
<1> SUFFICES ASSUME NEW e \in Known PROVE e \in Known'  OBVIOUS
<1>1. /\ batch \in Seq(FlowEvent) /\ inflight \in Seq(FlowEvent) /\ toAdd \in Seq(FlowEvent)
      /\ stored \in [FlowEvent -> Nat]
      /\ pc \notin SendStates => inflight = <<>>
      /\ pc \in SendStates <=> post # "none"
  BY DEF SenderIInv, SenderTypeOK
<1>2. CASE Tick
  BY <1>1, <1>2, InSeqEmpty DEF Tick, Take, Known, Held, SenderIInv, SendStates
<1>3. CASE AddBuffers
  BY <1>1, <1>3, InSeqHeadTail, InSeqAppend DEF AddBuffers, Known, Held
<1>4. CASE AddFills
  BY <1>1, <1>4, InSeqHeadTail, InSeqAppend, InSeqEmpty
     DEF AddFills, Send, Known, Held, SendStates
<1>5. CASE FlushEmpty
  BY <1>5 DEF FlushEmpty, Known, Held
<1>6. CASE FlushSends
  BY <1>1, <1>6, InSeqEmpty DEF FlushSends, Send, Known, Held, SendStates
<1>7. CASE SendSucceeds
  <2>1. InSeq(inflight) \subseteq {x \in FlowEvent : stored[x] > 0} \cup skipped
    BY <1>1, <1>7, InSeqSubset DEF SendSucceeds, SenderIInv
  <2> QED  BY <1>7, <2>1, InSeqEmpty DEF SendSucceeds, Known, Held
<1>8. CASE SendFails
  <2>1. toAdd' = toAdd /\ stored' = stored /\ skipped' = skipped  BY <1>8 DEF SendFails
  <2>2. CASE AddSendFails
    BY <2>1, <2>2 DEF AddSendFails, Known, Held
  <2>3. CASE FlushRetries
    BY <2>1, <2>3 DEF FlushRetries, Send, Known, Held
  <2>4. CASE FlushRequeues
    BY <1>1, <2>1, <2>4, InSeqConcat DEF FlushRequeues, Known, Held
  <2> QED  BY <1>8, <2>2, <2>3, <2>4 DEF SendFails
<1>9. CASE Ingest
  <2>1. stored' \in [FlowEvent -> Nat]  BY <1>9, IngestType DEF SenderIInv, SenderTypeOK
  <2>2. skipped \subseteq skipped' /\ \A x \in FlowEvent : stored'[x] >= stored[x]
    BY <1>1, <1>9 DEF Ingest, IngestAccepts, IngestRejects, IngestLate, Store
  <2>3. UNCHANGED <<batch, inflight, toAdd, dropped>>
    BY <1>9 DEF Ingest, IngestAccepts, IngestRejects, IngestLate
  <2> QED  BY <1>1, <2>1, <2>2, <2>3 DEF Known, Held
<1>10. CASE UNCHANGED senderVars
  BY <1>10 DEF senderVars, Known, Held
<1> QED
  BY <1>2, <1>3, <1>4, <1>5, <1>6, <1>7, <1>8, <1>9, <1>10 DEF SenderNext, SenderStep

\* No step of the sender or of the backend makes an event vanish: it stays
\* buffered or in flight until it is stored, an Add drops it, or the handler
\* passes over it because it cannot read it.
THEOREM NothingVanishes == SenderSpec => AccountedFor
<1>1. SenderIInv /\ SenderIInv' /\ [SenderNext]_senderVars =>
        [\A e \in Held :
            \/ e \in Held' \/ stored'[e] > 0 \/ e \in dropped'
            \/ e \in skipped' /\ e \in Unreadable]_senderVars
  <2> SUFFICES ASSUME SenderIInv, SenderIInv', [SenderNext]_senderVars, NEW e \in Held
               PROVE  \/ e \in Held' \/ stored'[e] > 0 \/ e \in dropped'
                      \/ e \in skipped' /\ e \in Unreadable
    OBVIOUS
  <2>1. e \in Known'  BY KnownKept DEF Known
  <2>2. skipped' \subseteq Unreadable  BY DEF SenderIInv, SenderTypeOK
  <2> QED  BY <2>1, <2>2 DEF Known
<1> QED  BY <1>1, SenderInvariant, PTL DEF SenderSpec, AccountedFor

-----------------------------------------------------------------------------
(* The flow engine of the collector.                                       *)

-----------------------------------------------------------------------------
(* The table after an event.                                               *)

\* A flow and its events: the window spans them and the tally counts them.
Window(f) ==
    /\ f.events # {}
    /\ IsFiniteSet(f.events)
    /\ \A a \in Actions : f.tally[a] = Cardinality({e \in f.events : e.action = a})
    /\ \A e \in f.events : f.first <= e.time /\ e.time <= f.last
    /\ \E e \in f.events : e.time = f.first
    /\ \E e \in f.events : e.time = f.last

\* A flow updated by an event stays a flow and its window spans its events,
\* the new one included.
LEMMA TouchedFlow ==
    ASSUME NEW e \in Event, NEW f \in Flow, e \notin f.events,
           Window(f) \/ f = NewFlow(e)
    PROVE  /\ Count(Widen(f, e.time), e) \in Flow
           /\ Count(Widen(f, e.time), e).events = f.events \cup {e}
           /\ Window(Count(Widen(f, e.time), e))
<1> DEFINE w == Widen(f, e.time)
           g == Count(w, e)
<1>1. /\ e.time \in Int /\ e.action \in Actions \cup {"other"}
      /\ e.in \in Nat /\ e.out \in Nat
  BY EventAssumption
<1>2. /\ w \in Flow
      /\ w.events = f.events /\ w.tally = f.tally
      /\ w.first = (IF e.time < f.first THEN e.time ELSE f.first)
      /\ w.last = (IF e.time > f.last THEN e.time ELSE f.last)
  BY <1>1 DEF Widen, Flow
<1>3. /\ g \in Flow /\ g.events = w.events \cup {e}
      /\ g.first = w.first /\ g.last = w.last
      /\ g.tally = Tally(f.tally, e.action)
  <2> HIDE DEF w
  <2>1. Tally(w.tally, e.action) \in [Actions -> Nat]  BY <1>2 DEF Tally, Flow
  <2>2. w.in + e.in \in Nat /\ w.out + e.out \in Nat  BY <1>1, <1>2 DEF Flow
  <2> QED  BY <1>2, <2>1, <2>2 DEF Count, Flow
<1> HIDE DEF g, w
<1>4. /\ IsFiniteSet(f.events)
      /\ \A a \in Actions : f.tally[a] = Cardinality({d \in f.events : d.action = a})
  <2>1. CASE f = NewFlow(e)
    <3>1. f.events = {} /\ \A a \in Actions : f.tally[a] = 0  BY <2>1 DEF NewFlow
    <3>2. \A a \in Actions : {d \in f.events : d.action = a} = {}  BY <3>1
    <3> QED  BY <3>1, <3>2, FS_EmptySet
  <2>2. CASE Window(f)  BY <2>2 DEF Window
  <2> QED  BY <2>1, <2>2
<1>5. IsFiniteSet(g.events)  BY <1>2, <1>3, <1>4, FS_AddElement
<1>6. ASSUME NEW a \in Actions
      PROVE  g.tally[a] = Cardinality({d \in g.events : d.action = a})
  <2> DEFINE old == {d \in f.events : d.action = a}
             new == {d \in g.events : d.action = a}
  <2>1. IsFiniteSet(old) /\ Cardinality(old) \in Nat /\ e \notin old
    BY <1>4, FS_Subset, FS_CardinalityType
  <2>2. g.tally[a] = IF a = e.action THEN f.tally[a] + 1 ELSE f.tally[a]
    BY <1>3 DEF Tally
  <2>3. CASE a = e.action
    <3>1. new = old \cup {e}  BY <1>2, <1>3, <2>3
    <3> HIDE DEF old, new
    <3>2. Cardinality(new) = Cardinality(old) + 1  BY <2>1, <3>1, FS_AddElement
    <3> QED  BY <1>4, <2>2, <2>3, <3>2 DEF old, new
  <2>4. CASE a # e.action
    <3>1. new = old  BY <1>2, <1>3, <2>4
    <3> QED  BY <1>4, <2>2, <2>4, <3>1
  <2> QED  BY <2>3, <2>4
<1>7. /\ \A d \in g.events : g.first <= d.time /\ d.time <= g.last
      /\ \E d \in g.events : d.time = g.first
      /\ \E d \in g.events : d.time = g.last
  <2>1. CASE f = NewFlow(e)
    <3>1. f.events = {} /\ f.first = e.time /\ f.last = e.time  BY <2>1 DEF NewFlow
    <3> QED  BY <1>1, <1>2, <1>3, <3>1
  <2>2. CASE Window(f)
    <3>1. f.first \in Int /\ f.last \in Int /\ f.events \subseteq Event  BY DEF Flow
    <3>2. \A d \in f.events : d.time \in Int  BY <3>1, EventAssumption
    <3>3. \A d \in g.events : g.first <= d.time /\ d.time <= g.last
      BY <1>1, <1>2, <1>3, <2>2, <3>1, <3>2 DEF Window
    <3>4. \E d \in g.events : d.time = g.first
      BY <1>1, <1>2, <1>3, <2>2, <3>1 DEF Window
    <3>5. \E d \in g.events : d.time = g.last
      BY <1>1, <1>2, <1>3, <2>2, <3>1 DEF Window
    <3> QED  BY <3>3, <3>4, <3>5
  <2> QED  BY <2>1, <2>2
<1>8. Window(g)  BY <1>2, <1>3, <1>5, <1>6, <1>7 DEF Window
<1> QED  BY <1>2, <1>3, <1>8 DEF g, w

\* A flow that an event starts is a flow.
LEMMA NewFlowType ==
    ASSUME NEW e \in Event
    PROVE  NewFlow(e) \in Flow /\ NewFlow(e).events = {}
BY EventAssumption DEF NewFlow, Flow

-----------------------------------------------------------------------------
(* The inductive invariant.                                                *)

\* The table is a function on finitely many keys whose flows span their own
\* events, and every event counted anywhere is counted under its key.
IInv ==
    /\ TypeOK
    /\ flows = [k \in DOMAIN flows |-> flows[k]]
    /\ IsFiniteSet(DOMAIN flows)
    /\ \A k \in DOMAIN flows : Window(flows[k]) /\ \A e \in flows[k].events : e.key = k
    /\ \A r \in rows : Window(r.flow)
    /\ CountersAgree

LEMMA InitIInv == Init => IInv
<1> SUFFICES ASSUME Init PROVE IInv  OBVIOUS
<1>1. DOMAIN flows = {} /\ flows = [k \in DOMAIN flows |-> flows[k]]  BY DEF Init
<1>2. IsFiniteSet({}) /\ Cardinality({}) = 0  BY FS_EmptySet
<1>3. clock \in 0..MaxTime  BY ClockAssumption DEF Init
<1> QED  BY <1>1, <1>2, <1>3 DEF Init, IInv, TypeOK, CountersAgree

LEMMA ProcessEventIInv ==
    ASSUME IInv, NEW e \in Event, ProcessEvent(e)
    PROVE  IInv'
<1>1. CASE e.key = NoKey
  BY <1>1 DEF ProcessEvent, IInv, TypeOK, CountersAgree
<1>2. CASE e.key # NoKey
  <2> DEFINE f == FlowFor(flows, e)
  <2>1. /\ f \in Flow /\ (Window(f) \/ f = NewFlow(e))
        /\ e \notin f.events /\ \A d \in f.events : d.key = e.key
    BY NewFlowType DEF FlowFor, IInv, TypeOK, ProcessEvent, Seen
  <2>2. /\ Count(Widen(f, e.time), e) \in Flow
        /\ Count(Widen(f, e.time), e).events = f.events \cup {e}
        /\ Window(Count(Widen(f, e.time), e))
    <3> HIDE DEF f
    <3> QED  BY <2>1, TouchedFlow
  <2>3. /\ flows' = Touch(flows, e)
        /\ created' = IF e.key \in DOMAIN flows THEN created ELSE created + 1
        /\ UNCHANGED <<flushed, rows, clock>>
    BY <1>2 DEF ProcessEvent
  <2>4. /\ DOMAIN flows' = DOMAIN flows \cup {e.key}
        /\ flows' = [k \in DOMAIN flows' |-> flows'[k]]
        /\ flows'[e.key] = Count(Widen(f, e.time), e)
        /\ \A k \in DOMAIN flows : k # e.key => flows'[k] = flows[k]
    BY <2>3 DEF Touch
  <2> HIDE DEF f
  <2>5. \A k \in DOMAIN flows' :
          flows'[k] \in Flow /\ Window(flows'[k]) /\ \A d \in flows'[k].events : d.key = k
    BY <2>1, <2>2, <2>4 DEF IInv, TypeOK
  <2>6. /\ IsFiniteSet(DOMAIN flows')
        /\ e.key \in DOMAIN flows => Cardinality(DOMAIN flows') = Cardinality(DOMAIN flows)
        /\ e.key \notin DOMAIN flows => Cardinality(DOMAIN flows') = Cardinality(DOMAIN flows) + 1
    <3>1. IsFiniteSet(DOMAIN flows)  BY DEF IInv
    <3> QED  BY <2>4, <3>1, FS_AddElement
  <2>7. created' \in Nat /\ CountersAgree'
    <3>1. created \in Nat /\ flushed \in Nat /\ Cardinality(DOMAIN flows) \in Nat
      BY FS_CardinalityType DEF IInv, TypeOK
    <3> QED  BY <2>3, <2>6, <3>1 DEF IInv, CountersAgree
  <2> QED  BY <2>3, <2>4, <2>5, <2>6, <2>7 DEF IInv, TypeOK
<1> QED  BY <1>1, <1>2

\* What a flush takes: the idle flows and, of the others, those that overflow.
LEMMA FlushTakes ==
    ASSUME FlushExpired
    PROVE  \E K \in SUBSET (DOMAIN flows \ Expired(flows, clock)) :
              LET out == Expired(flows, clock) \cup K IN
              /\ out \subseteq DOMAIN flows
              /\ Oldest(Without(flows, Expired(flows, clock)), K)
              /\ DOMAIN flows' = DOMAIN flows \ out
              /\ flows' = [k \in DOMAIN flows' |-> flows'[k]]
              /\ \A k \in DOMAIN flows' : flows'[k] = flows[k]
              /\ flushed' = flushed + Cardinality(out)
              /\ rows' = rows \cup {[key |-> k, flow |-> flows[k]] : k \in out}
              /\ UNCHANGED <<created, clock>>
<1> DEFINE idle == Expired(flows, clock)
           rest == Without(flows, idle)
<1>1. PICK K \in SUBSET DOMAIN rest :
         /\ Oldest(rest, K)
         /\ flows' = Without(rest, K)
         /\ flushed' = flushed + Cardinality(idle \cup K)
         /\ rows' = rows \cup RowsOf(flows, idle \cup K)
         /\ UNCHANGED <<created, clock>>
  BY DEF FlushExpired
<1>2. idle \subseteq DOMAIN flows  BY DEF Expired
<1>3. DOMAIN rest = DOMAIN flows \ idle /\ \A k \in DOMAIN rest : rest[k] = flows[k]
  BY DEF Without
<1> HIDE DEF idle, rest
<1>4. /\ DOMAIN flows' = DOMAIN flows \ (idle \cup K)
      /\ flows' = [k \in DOMAIN flows' |-> flows'[k]]
      /\ \A k \in DOMAIN flows' : flows'[k] = flows[k]
  BY <1>1, <1>3 DEF Without
<1>5. K \in SUBSET (DOMAIN flows \ idle) /\ idle \cup K \subseteq DOMAIN flows
  BY <1>1, <1>2, <1>3
<1>6. rows' = rows \cup {[key |-> k, flow |-> flows[k]] : k \in idle \cup K}
  BY <1>1 DEF RowsOf
<1>7. /\ Oldest(rest, K)
      /\ flushed' = flushed + Cardinality(idle \cup K)
      /\ UNCHANGED <<created, clock>>
  BY <1>1
<1> QED  BY <1>4, <1>5, <1>6, <1>7 DEF idle, rest

LEMMA FlushIInv ==
    ASSUME IInv, FlushExpired
    PROVE  IInv'
<1>1. PICK K \in SUBSET (DOMAIN flows \ Expired(flows, clock)) :
         LET out == Expired(flows, clock) \cup K IN
         /\ out \subseteq DOMAIN flows
         /\ DOMAIN flows' = DOMAIN flows \ out
         /\ flows' = [k \in DOMAIN flows' |-> flows'[k]]
         /\ \A k \in DOMAIN flows' : flows'[k] = flows[k]
         /\ flushed' = flushed + Cardinality(out)
         /\ rows' = rows \cup {[key |-> k, flow |-> flows[k]] : k \in out}
         /\ UNCHANGED <<created, clock>>
  BY FlushTakes
<1> DEFINE out == Expired(flows, clock) \cup K
<1>2. out \subseteq DOMAIN flows  BY <1>1
<1>3. /\ DOMAIN flows' = DOMAIN flows \ out
      /\ flows' = [k \in DOMAIN flows' |-> flows'[k]]
      /\ \A k \in DOMAIN flows' : flows'[k] = flows[k]
      /\ flushed' = flushed + Cardinality(out)
      /\ rows' = rows \cup {[key |-> k, flow |-> flows[k]] : k \in out}
      /\ UNCHANGED <<created, clock>>
  BY <1>1
<1> HIDE DEF out
<1>4. /\ IsFiniteSet(out) /\ IsFiniteSet(DOMAIN flows')
      /\ Cardinality(out) \in Nat
      /\ Cardinality(DOMAIN flows') = Cardinality(DOMAIN flows) - Cardinality(out)
  <2>1. IsFiniteSet(DOMAIN flows)  BY DEF IInv
  <2>2. IsFiniteSet(out) /\ IsFiniteSet(DOMAIN flows \ out)
    BY <1>2, <2>1, FS_Subset
  <2>3. Cardinality(DOMAIN flows \ out) = Cardinality(DOMAIN flows) - Cardinality(DOMAIN flows \cap out)
    BY <2>1, FS_Difference
  <2>4. DOMAIN flows \cap out = out  BY <1>2
  <2> QED  BY <1>3, <2>2, <2>3, <2>4, FS_CardinalityType
<1>5. flushed' \in Nat /\ CountersAgree'
  <2>1. created \in Nat /\ flushed \in Nat /\ Cardinality(DOMAIN flows) \in Nat
    BY FS_CardinalityType DEF IInv, TypeOK
  <2> QED  BY <1>3, <1>4, <2>1 DEF IInv, CountersAgree
<1>6. \A r \in rows' : r.flow \in Flow /\ Window(r.flow)
  BY <1>2, <1>3 DEF IInv, TypeOK
<1>7. \A k \in DOMAIN flows' :
        flows'[k] \in Flow /\ Window(flows'[k]) /\ \A d \in flows'[k].events : d.key = k
  BY <1>3 DEF IInv, TypeOK
<1> QED  BY <1>3, <1>4, <1>5, <1>6, <1>7 DEF IInv, TypeOK

LEMMA InductiveInvariant == Spec => []IInv
<1>1. Init => IInv  BY InitIInv
<1>2. IInv /\ [Next]_vars => IInv'
  <2> SUFFICES ASSUME IInv, [Next]_vars PROVE IInv'  OBVIOUS
  <2>1. CASE \E e \in Event : ProcessEvent(e)  BY <2>1, ProcessEventIInv
  <2>2. CASE FlushExpired  BY <2>2, FlushIInv
  <2>3. CASE ClockTicks
    BY <2>3, ClockAssumption DEF ClockTicks, IInv, TypeOK, CountersAgree
  <2>4. CASE UNCHANGED vars
    BY <2>4 DEF vars, IInv, TypeOK, CountersAgree
  <2> QED  BY <2>1, <2>2, <2>3, <2>4 DEF Next
<1> QED  BY <1>1, <1>2, PTL DEF Spec

-----------------------------------------------------------------------------
(* What follows from it.                                                   *)

\* The variables of the engine stay in their types.
THEOREM FlowTypes == Spec => []TypeOK
<1>1. IInv => TypeOK  BY DEF IInv
<1> QED  BY <1>1, InductiveInvariant, PTL

\* Created flows are flushed or active, also when a flush takes a flow both
\* because it expired and because it is among the oldest.
THEOREM FlowCounters == Spec => []CountersAgree
<1>1. IInv => CountersAgree  BY DEF IInv
<1> QED  BY <1>1, InductiveInvariant, PTL

\* A flush that overflows leaves exactly the capacity; one that does not, no more.
LEMMA FlushLeaves ==
    ASSUME IInv, FlushExpired
    PROVE  \E K \in SUBSET (DOMAIN flows \ Expired(flows, clock)) :
              /\ DOMAIN flows' = (DOMAIN flows \ Expired(flows, clock)) \ K
              /\ \A k \in K : \A l \in DOMAIN flows' : flows[k].last <= flows[l].last
              /\ Cardinality(DOMAIN flows') <= MaxActiveFlows
              /\ K # {} => Cardinality(DOMAIN flows') = MaxActiveFlows
<1> DEFINE kept == DOMAIN flows \ Expired(flows, clock)
           rest == Without(flows, Expired(flows, clock))
<1>1. PICK K \in SUBSET kept :
         Oldest(rest, K) /\ DOMAIN flows' = DOMAIN flows \ (Expired(flows, clock) \cup K)
  BY FlushTakes
<1>2. DOMAIN flows' = kept \ K  BY <1>1
<1>3. DOMAIN rest = kept /\ \A k \in kept : rest[k] = flows[k]  BY DEF Without
<1>4. IsFiniteSet(DOMAIN flows) /\ kept \subseteq DOMAIN flows  BY DEF IInv
<1> HIDE DEF kept, rest
<1>5. \A k \in K : \A l \in DOMAIN flows' : flows[k].last <= flows[l].last
  BY <1>1, <1>2, <1>3 DEF Oldest
<1>6. IsFiniteSet(kept) /\ IsFiniteSet(K)  BY <1>1, <1>4, FS_Subset
<1>7. /\ Cardinality(kept) \in Nat /\ Cardinality(K) \in Nat
      /\ Cardinality(kept \ K) = Cardinality(kept) - Cardinality(K)
  <2>1. kept \cap K = K  BY <1>1
  <2> QED  BY <1>6, <2>1, FS_Difference, FS_CardinalityType
<1>8. /\ Cardinality(K) = IF Cardinality(kept) > MaxActiveFlows
                          THEN Cardinality(kept) - MaxActiveFlows ELSE 0
  BY <1>1, <1>3 DEF Oldest, Overflow
<1>9. K # {} => Cardinality(K) # 0  BY <1>6, FS_EmptySet
<1>10. /\ Cardinality(kept \ K) <= MaxActiveFlows
       /\ K # {} => Cardinality(kept \ K) = MaxActiveFlows
  BY <1>7, <1>8, <1>9, FlowAssumption
<1> QED  BY <1>1, <1>2, <1>5, <1>10 DEF kept

\* A flush brings any table, however far over its capacity, within it.
THEOREM FlushBounds == Spec => FlushBoundsTable
<1>1. IInv /\ [Next]_vars =>
         [flushed' # flushed => Cardinality(DOMAIN flows') <= MaxActiveFlows]_vars
  <2> SUFFICES ASSUME IInv, Next, flushed' # flushed
               PROVE  Cardinality(DOMAIN flows') <= MaxActiveFlows
    BY DEF vars
  <2>1. FlushExpired  BY DEF Next, ProcessEvent, ClockTicks
  <2> QED  BY <2>1, FlushLeaves
<1> QED  BY <1>1, InductiveInvariant, PTL DEF Spec, FlushBoundsTable

\* A flow given up before its timeout is at least as old as every flow kept, and the
\* table is full without it.
THEOREM OldestEvicted == Spec => EvictsOnlyOldest
<1>1. IInv /\ [Next]_vars =>
         [\A k \in DOMAIN flows \ DOMAIN flows' : k \notin Expired(flows, clock) =>
             /\ Cardinality(DOMAIN flows') = MaxActiveFlows
             /\ \A l \in DOMAIN flows' : flows[k].last <= flows[l].last]_vars
  <2> SUFFICES ASSUME IInv, Next, NEW k \in DOMAIN flows \ DOMAIN flows',
                      k \notin Expired(flows, clock)
               PROVE  /\ Cardinality(DOMAIN flows') = MaxActiveFlows
                      /\ \A l \in DOMAIN flows' : flows[k].last <= flows[l].last
    BY DEF vars
  <2>1. FlushExpired
    BY DEF Next, ProcessEvent, ClockTicks, Touch
  <2> QED  BY <2>1, FlushLeaves
<1> QED  BY <1>1, InductiveInvariant, PTL DEF Spec, EvictsOnlyOldest

\* The window of each flow is that of its events and its tally counts them,
\* in whatever order they arrived and whatever their times were.
THEOREM FlowWindows == Spec => []WindowSpansEvents
<1>1. IInv => WindowSpansEvents
  BY DEF IInv, TypeOK, WindowSpansEvents, AllFlows, Window
<1> QED  BY <1>1, InductiveInvariant, PTL

\* Windows and counters agree with the events, and created flows are flushed or open.
THEOREM WindowsCountersAgree == Spec => []WindowsAndCounters
<1>1. TypeOK /\ WindowSpansEvents /\ CountersAgree => WindowsAndCounters
  BY DEF WindowsAndCounters
<1> QED  BY <1>1, FlowTypes, FlowWindows, FlowCounters, PTL

-----------------------------------------------------------------------------
(* The labels.                                                             *)

\* The counters of a flow are natural numbers.
LEMMA CountersAreNat ==
    ASSUME NEW f \in Flow
    PROVE  /\ N(f, "allow") \in Nat /\ N(f, "deny") \in Nat /\ N(f, "drop") \in Nat
           /\ N(f, "reset") \in Nat /\ N(f, "alert") \in Nat
  BY DEF N, Flow, Actions

\* The labels of one flow match, whatever its counters.
LEMMA FlowLabelsMatch ==
    ASSUME NEW f \in Flow
    PROVE  LabelsMatch(f)
<1>1. DeriveState(f) = "reset" <=> N(f, "reset") > 0
  BY CountersAreNat DEF DeriveState
<1>2. DeriveActionSummary(f) = "reset_seen" <=> N(f, "reset") > 0
  BY CountersAreNat DEF DeriveActionSummary
<1>3. FlowType(f) = "unstable" => N(f, "reset") > 0
  BY DEF FlowType, Unstable
<1>4. N(f, "reset") > 0 => FlowType(f) = "unstable" \/ ResetOnly(f)
  BY CountersAreNat DEF FlowType, Unstable, ResetOnly, Scanning, Blocked
<1>5. FlowType(f) \in {"scanning", "blocked"} => DeriveState(f) \in {"denied", "dropped"}
  BY CountersAreNat DEF FlowType, DeriveState, Scanning, Blocked
<1>6. FlowType(f) = "normal" => DeriveState(f) \in {"completed", "expired"} /\ ~Alerted(f)
  BY CountersAreNat
  DEF FlowType, DeriveState, Scanning, Blocked, Unstable, Suspicious, ResetOnly
<1>7. FlowType(f) = "suspicious" /\ ~Alerted(f) => DeriveState(f) = "reset"
  BY <1>1, CountersAreNat
  DEF FlowType, Unstable, Suspicious, ResetOnly, ResetRatioAbove, TotalActions, Summarised
<1>8. DeriveActionSummary(f) = "mostly_deny" => DeriveState(f) = "denied"
  BY CountersAreNat DEF DeriveActionSummary, DeriveState, Summarised
<1>9. DeriveActionSummary(f) = "mostly_allow" => DeriveState(f) = "completed"
  BY CountersAreNat DEF DeriveActionSummary, DeriveState, Summarised
<1> QED  BY <1>1, <1>2, <1>3, <1>4, <1>5, <1>6, <1>7, <1>8, <1>9
         DEF LabelsMatch, ResetOnly

\* The three labels of a flow, open or flushed, never contradict each other.
THEOREM LabelsAlwaysAgree == Spec => []LabelsAgree
<1>1. TypeOK => LabelsAgree
  BY FlowLabelsMatch DEF TypeOK, LabelsAgree, AllFlows
<1> QED  BY <1>1, FlowTypes, PTL

\* Counters that grow change the labels of a flow in the ways of LabelsFollow.
LEMMA LabelsGrow ==
    ASSUME NEW f \in Flow, NEW g \in Flow, \A a \in Actions : N(g, a) >= N(f, a)
    PROVE  LabelsFollow(f, g)
<1>1. /\ N(g, "allow") >= N(f, "allow") /\ N(g, "deny") >= N(f, "deny")
      /\ N(g, "drop") >= N(f, "drop") /\ N(g, "reset") >= N(f, "reset")
  BY DEF Actions
<1>2. /\ DeriveState(f) = "reset" => DeriveState(g) = "reset"
      /\ DeriveState(f) = "completed" => DeriveState(g) \in {"completed", "reset"}
      /\ DeriveState(f) = "denied" => DeriveState(g) # "dropped"
  BY <1>1, CountersAreNat DEF DeriveState
<1>3. FlowType(f) = "unstable" => FlowType(g) = "unstable"
  BY <1>1, CountersAreNat DEF FlowType, Unstable, Scanning, Blocked
<1>4. DeriveState(f) \in {"denied", "dropped"} =>
         \/ DeriveState(g) \in {"denied", "dropped", "reset"}
         \/ DeriveState(g) = "completed" /\ N(g, "allow") > N(f, "allow")
  BY <1>1, CountersAreNat DEF DeriveState
<1> QED  BY <1>2, <1>3, <1>4 DEF LabelsFollow

\* However many events a flow counts and in whatever order, a reset is final, a
\* flow that got through can only be reset, and a refusal is reverted by an allow
\* and by nothing else (_derive_state, classify_flow).
THEOREM LabelsOnlyMoveOn == Spec => LabelsMoveOn
<1>1. IInv /\ IInv' /\ [Next]_vars =>
         [\A k \in DOMAIN flows \cap DOMAIN flows' :
             LabelsFollow(flows[k], flows'[k])]_vars
  <2> SUFFICES ASSUME IInv, IInv', Next, NEW k \in DOMAIN flows \cap DOMAIN flows'
               PROVE  LabelsFollow(flows[k], flows'[k])
    BY DEF vars
  <2>1. flows[k] \in Flow /\ flows'[k] \in Flow
    BY DEF IInv, TypeOK
  <2>2. \A a \in Actions : N(flows'[k], a) >= N(flows[k], a)
    <3>1. CASE flows'[k] = flows[k]
      BY <2>1, <3>1 DEF N, Flow
    <3>2. CASE \E e \in Event : flows'[k] = Count(Widen(flows[k], e.time), e)
      <4>1. PICK e \in Event : flows'[k] = Count(Widen(flows[k], e.time), e)
        BY <3>2
      <4>2. Widen(flows[k], e.time).tally = flows[k].tally /\ Widen(flows[k], e.time) \in Flow
        BY <2>1, EventAssumption DEF Widen, Flow
      <4>3. flows'[k].tally = Tally(flows[k].tally, e.action)
        BY <4>1, <4>2 DEF Count, Flow
      <4> QED  BY <2>1, <4>3 DEF N, Tally, Flow
    <3>3. CASE FlushExpired
      BY <3>1, <3>3, FlushTakes
    <3>4. ASSUME NEW e \in Event, ProcessEvent(e)
          PROVE  flows'[k] = flows[k] \/ flows'[k] = Count(Widen(flows[k], e.time), e)
      BY <3>4 DEF ProcessEvent, Touch, FlowFor
    <3>5. CASE ClockTicks  BY <3>1, <3>5 DEF ClockTicks
    <3> QED  BY <3>1, <3>2, <3>3, <3>4, <3>5 DEF Next
  <2> QED  BY <2>1, <2>2, LabelsGrow
<1> QED  BY <1>1, InductiveInvariant, PTL DEF Spec, LabelsMoveOn

-----------------------------------------------------------------------------
(* The refinement.                                                         *)

Open == UNION {flows[k].events : k \in DOMAIN flows}
Closed == {r.flow.events : r \in rows}

\* The events of the flow of a key are the open events of that key.
LEMMA FlowIsGroup ==
    ASSUME IInv, NEW k \in DOMAIN flows
    PROVE  {e \in Open : KeyOf(e) = k} = flows[k].events
<1>1. \A l \in DOMAIN flows : \A e \in flows[l].events : e.key = l  BY DEF IInv
<1>2. flows[k].events \subseteq Open  BY DEF Open
<1>3. ASSUME NEW e \in Open, e.key = k PROVE e \in flows[k].events
  BY <1>1, <1>3 DEF Open
<1> QED  BY <1>1, <1>2, <1>3 DEF KeyOf

LEMMA ProcessEventRefines ==
    ASSUME IInv, NEW e \in Event, ProcessEvent(e)
    PROVE  Ledger!Observe(e) \/ UNCHANGED <<Open, Closed>>
<1>1. rows' = rows  BY DEF ProcessEvent
<1>2. Closed' = Closed  BY <1>1 DEF Closed
<1>3. CASE e.key = NoKey
  BY <1>2, <1>3 DEF ProcessEvent, Open
<1>4. CASE e.key # NoKey
  <2> DEFINE f == FlowFor(flows, e)
  <2>1. flows' = Touch(flows, e)  BY <1>4 DEF ProcessEvent
  <2>2. f.events = IF e.key \in DOMAIN flows THEN flows[e.key].events ELSE {}
    BY NewFlowType DEF FlowFor
  <2>3. f \in Flow  BY NewFlowType DEF FlowFor, IInv, TypeOK
  <2>4. Count(Widen(f, e.time), e).events = f.events \cup {e}
    <3> HIDE DEF f
    <3>1. Widen(f, e.time).events = f.events /\ Widen(f, e.time) \in Flow
      BY <2>3, EventAssumption DEF Widen, Flow
    <3> QED  BY <3>1 DEF Count, Flow
  <2>5. /\ DOMAIN flows' = DOMAIN flows \cup {e.key}
        /\ flows'[e.key].events = f.events \cup {e}
        /\ \A k \in DOMAIN flows : k # e.key => flows'[k] = flows[k]
    BY <2>1, <2>4 DEF Touch
  <2> HIDE DEF f
  <2>6. Open' = Open \cup {e}  BY <2>2, <2>5 DEF Open
  <2>7. e \notin Open /\ e \notin UNION Closed
    BY DEF ProcessEvent, Seen, Open, Closed
  <2> QED  BY <1>2, <2>6, <2>7 DEF Ledger!Observe, Open, Closed
<1> QED  BY <1>3, <1>4

LEMMA FlushRefines ==
    ASSUME IInv, FlushExpired
    PROVE  \E K \in SUBSET Ledger!Keys(Open) : Ledger!Close(K)
<1>1. PICK K \in SUBSET (DOMAIN flows \ Expired(flows, clock)) :
         LET out == Expired(flows, clock) \cup K IN
         /\ out \subseteq DOMAIN flows
         /\ DOMAIN flows' = DOMAIN flows \ out
         /\ \A k \in DOMAIN flows' : flows'[k] = flows[k]
         /\ rows' = rows \cup {[key |-> k, flow |-> flows[k]] : k \in out}
  BY FlushTakes
<1> DEFINE out == Expired(flows, clock) \cup K
<1>2. out \subseteq DOMAIN flows  BY <1>1
<1>3. /\ DOMAIN flows' = DOMAIN flows \ out
      /\ \A k \in DOMAIN flows' : flows'[k] = flows[k]
      /\ rows' = rows \cup {[key |-> k, flow |-> flows[k]] : k \in out}
  BY <1>1
<1> HIDE DEF out
<1>4. \A k \in out : Ledger!Group(k) = flows[k].events
  BY <1>2, FlowIsGroup DEF Ledger!Group, Open
<1>5. Closed' = Closed \cup {Ledger!Group(k) : k \in out}
  <2>1. Closed' = Closed \cup {flows[k].events : k \in out}
    <3> DEFINE new == {[key |-> k, flow |-> flows[k]] : k \in out}
    <3>1. {r.flow.events : r \in new} = {flows[k].events : k \in out}
      <4>1. \A r \in new : \E k \in out : r.flow.events = flows[k].events
        OBVIOUS
      <4>2. ASSUME NEW k \in out
            PROVE  \E r \in new : r.flow.events = flows[k].events
        <5>1. [key |-> k, flow |-> flows[k]] \in new  OBVIOUS
        <5> QED  BY <5>1
      <4> HIDE DEF new
      <4> QED  BY <4>1, <4>2
    <3>2. rows' = rows \cup new  BY <1>3
    <3> HIDE DEF new
    <3>3. Closed' = Closed \cup {r.flow.events : r \in new}
      BY <3>2 DEF Closed
    <3> QED  BY <3>1, <3>3
  <2>2. {flows[k].events : k \in out} = {Ledger!Group(k) : k \in out}
    BY <1>4
  <2> QED  BY <2>1, <2>2
<1>6. Open' = {e \in Open : KeyOf(e) \notin out}
  <2>1. \A k \in DOMAIN flows : \A e \in flows[k].events : KeyOf(e) = k
    BY DEF IInv, KeyOf
  <2> QED  BY <1>3, <2>1 DEF Open
<1>7. out \subseteq Ledger!Keys(Open)
  <2>1. ASSUME NEW k \in out PROVE k \in {KeyOf(e) : e \in Open}
    <3>1. PICK e \in flows[k].events : TRUE  BY <1>2, <2>1 DEF IInv, Window
    <3>2. e \in Open /\ KeyOf(e) = k  BY <1>2, <3>1 DEF Open, IInv, KeyOf
    <3> QED  BY <3>2
  <2> QED  BY <2>1 DEF Ledger!Keys
<1> QED  BY <1>5, <1>6, <1>7 DEF Ledger!Close, Open, Closed

\* The engine implements the ledger: a flow is closed as a whole, with all
\* the events of its key that were not flushed before, and stays closed.
THEOREM EngineImplementsLedger == Spec => ImplementsLedger
<1>1. Init => Ledger!Init
  BY DEF Init, Ledger!Init
<1>2. IInv /\ [Next]_vars => [Ledger!Next]_<<Open, Closed>>
  <2> SUFFICES ASSUME IInv, [Next]_vars PROVE [Ledger!Next]_<<Open, Closed>>
    OBVIOUS
  <2>1. CASE \E e \in Event : ProcessEvent(e)
    BY <2>1, ProcessEventRefines DEF Ledger!Next
  <2>2. CASE FlushExpired
    BY <2>2, FlushRefines DEF Ledger!Next, Open
  <2>3. CASE ClockTicks  BY <2>3 DEF ClockTicks, Open, Closed
  <2>4. CASE UNCHANGED vars  BY <2>4 DEF vars, Open, Closed
  <2> QED  BY <2>1, <2>2, <2>3, <2>4 DEF Next
<1> QED
  BY <1>1, <1>2, InductiveInvariant, PTL DEF Spec, ImplementsLedger, Ledger!Spec, Open, Closed
=============================================================================
