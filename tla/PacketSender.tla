---------------------------- MODULE PacketSender ----------------------------
(***************************************************************************)
(* The delivery path of the packet engine: sender.Sender (Add, Flush,      *)
(* send) as the main goroutine drives it, the HTTP POST to the backend,    *)
(* and the backend handler that stores one row per event.                  *)
(*                                                                         *)
(* The main goroutine is the only caller of Add and Flush, so the batch    *)
(* has one writer; what makes delivery hard is the network.  A POST whose  *)
(* answer is lost or late fails on the client although the backend stored  *)
(* (or will still store) its rows.                                         *)
(*                                                                         *)
(* Two handlers receive the POST: ingest_packet_events of the Python       *)
(* backend and IngestPacketEvents of the Go backend.  Both store one row   *)
(* per event, commit once, and look for no row they already have.  The     *)
(* Python handler passes over an event it cannot turn into a row, and      *)
(* answers 200 nevertheless.                                               *)
(***************************************************************************)
EXTENDS Naturals, Sequences, FiniteSets

CONSTANTS
    FlowEvent,  \* the completed flows, each one turned into one event
    Unreadable, \* those on which the handler raises (a first_seen that fromisoformat
                \* refuses: before Python 3.11, every time that ends in Z)
    BatchSize,  \* cfg.BatchSize
    MaxFaults   \* bound: how many POSTs may fail in a behaviour

ASSUME FlowEventAssumption == IsFiniteSet(FlowEvent)
ASSUME UnreadableAssumption == Unreadable \subseteq FlowEvent
ASSUME BatchSizeAssumption == BatchSize \in Nat \ {0}
ASSUME MaxFaultsAssumption == MaxFaults \in Nat

VARIABLES
    batch,      \* Sender.batch
    inflight,   \* the local slice `batch' of the running Add or Flush
    toAdd,      \* the rest of `expired', the flows the main loop still adds
    pc,         \* where the main goroutine is
    closing,    \* TRUE once the main goroutine has taken the signal branch
    post,       \* the POST that send() waits for
    late,       \* POSTs given up by the client that may still reach the backend
    stored,     \* number of LiveEvent rows of each event
    dropped,    \* history: events of a full batch whose only POST failed
    skipped,    \* history: events the handler passed over in a POST it stored
    faults      \* number of failed POSTs so far

senderVars == <<batch, inflight, toAdd, pc, closing, post, late, stored,
                dropped, skipped, faults>>

SendStates == {"addSend", "flushSend1", "flushSend2"}
InSeq(s) == {s[i] : i \in DOMAIN s}

\* Events in the hands of the main goroutine, and those it has ever taken from
\* the flow table.
Held == InSeq(batch) \cup InSeq(toAdd) \cup InSeq(inflight)
Known == Held \cup dropped \cup skipped \cup {e \in FlowEvent : stored[e] > 0}

SenderInit ==
    /\ batch = <<>> /\ inflight = <<>> /\ toAdd = <<>>
    /\ pc = "loop"
    /\ closing = FALSE
    /\ post = "none"
    /\ late = {}
    /\ stored = [e \in FlowEvent |-> 0]
    /\ dropped = {} /\ skipped = {}
    /\ faults = 0

-----------------------------------------------------------------------------
(* The main goroutine.                                                     *)

\* The flush tick, or the signal branch: FlushExpired hands over the expired
\* flows in the order of a map iteration, so in any order.
Take(events, final) ==
    /\ pc = "loop"
    /\ toAdd' = events
    /\ closing' = final
    /\ pc' = "add"
    /\ UNCHANGED <<batch, inflight, post, late, stored, dropped, skipped, faults>>

\* send() puts the local slice on the wire.
Send(events, state) ==
    /\ inflight' = events
    /\ pc' = state
    /\ post' = "sent"

\* Add of an event that does not fill the batch.
AddBuffers ==
    /\ pc = "add" /\ toAdd # <<>>
    /\ Len(batch) + 1 < BatchSize
    /\ batch' = Append(batch, Head(toAdd))
    /\ toAdd' = Tail(toAdd)
    /\ UNCHANGED <<inflight, pc, closing, post, late, stored, dropped, skipped, faults>>

\* Add of an event that fills the batch: the batch is taken and sent.
AddFills ==
    /\ pc = "add" /\ toAdd # <<>>
    /\ Len(batch) + 1 >= BatchSize
    /\ toAdd' = Tail(toAdd)
    /\ batch' = <<>>
    /\ Send(Append(batch, Head(toAdd)), "addSend")
    /\ UNCHANGED <<closing, late, stored, dropped, skipped, faults>>

AfterFlush == IF closing THEN "exited" ELSE "loop"

\* Mutant: Flush sends full batches only.
FlushBelowLimitSkips ==
    /\ pc = "add" /\ toAdd = <<>> /\ Len(batch) < BatchSize
    /\ pc' = AfterFlush
    /\ UNCHANGED <<batch, inflight, toAdd, closing, post, late, stored, dropped, skipped, faults>>

\* Flush after the loop over the expired flows: nothing buffered.
FlushEmpty ==
    /\ pc = "add" /\ toAdd = <<>> /\ batch = <<>>
    /\ pc' = AfterFlush
    /\ UNCHANGED <<batch, inflight, toAdd, closing, post, late, stored, dropped, skipped, faults>>

FlushSends ==
    /\ pc = "add" /\ toAdd = <<>> /\ batch # <<>>
    /\ batch' = <<>>
    /\ Send(batch, "flushSend1")
    /\ UNCHANGED <<toAdd, closing, late, stored, dropped, skipped, faults>>

\* send() returns nil: the answer of the backend is below 400.
SendSucceeds ==
    /\ pc \in SendStates /\ post = "accepted"
    /\ inflight' = <<>>
    /\ post' = "none"
    /\ pc' = IF pc = "addSend" THEN "add" ELSE AfterFlush
    /\ UNCHANGED <<batch, toAdd, closing, late, stored, dropped, skipped, faults>>

\* send() returns an error: the backend refused, or no answer came in time.
\* Add only logs it, Flush tries once more and then puts the events back.
AddSendFails ==
    /\ pc = "addSend"
    /\ dropped' = dropped \cup InSeq(inflight)
    /\ inflight' = <<>>
    /\ pc' = "add"
    /\ post' = "none"
    /\ UNCHANGED batch

FlushRetries ==
    /\ pc = "flushSend1"
    /\ Send(inflight, "flushSend2")
    /\ UNCHANGED <<batch, dropped>>

\* Mutant: after the second failure the events are not put back.
FlushForgets ==
    /\ pc = "flushSend2"
    /\ inflight' = <<>>
    /\ pc' = AfterFlush
    /\ post' = "none"
    /\ UNCHANGED <<batch, dropped>>

FlushRequeues ==
    /\ pc = "flushSend2"
    /\ batch' = inflight \o batch
    /\ inflight' = <<>>
    /\ pc' = AfterFlush
    /\ post' = "none"
    /\ UNCHANGED dropped

SendFails ==
    /\ pc \in SendStates
    /\ faults < MaxFaults
    /\ faults' = faults + 1
    /\ late' = IF post = "sent"
                 THEN late \cup {[nr |-> faults, events |-> inflight]}
                 ELSE late
    /\ AddSendFails \/ FlushRetries \/ FlushRequeues
    /\ UNCHANGED <<toAdd, closing, stored, skipped>>

-----------------------------------------------------------------------------
(* The backend: the ingest handler creates the rows of a POST in one       *)
(* transaction and does not look for rows it already has.  An event that   *)
(* raises is left out, the POST is answered all the same.                  *)

Store(events) ==
    /\ stored' = [e \in FlowEvent |-> IF e \in InSeq(events) \ Unreadable
                                     THEN stored[e] + 1 ELSE stored[e]]
    /\ skipped' = skipped \cup (InSeq(events) \cap Unreadable)

IngestAccepts ==
    /\ post = "sent"
    /\ Store(inflight)
    /\ post' = "accepted"
    /\ UNCHANGED <<batch, inflight, toAdd, pc, closing, late, dropped, faults>>

IngestRejects ==
    /\ post = "sent"
    /\ faults < MaxFaults
    /\ post' = "rejected"
    /\ UNCHANGED <<batch, inflight, toAdd, pc, closing, late, stored, dropped, skipped, faults>>

\* A POST the client gave up is lost, refused, or stored after all.
IngestLate ==
    \E r \in late :
        /\ late' = late \ {r}
        /\ Store(r.events) \/ UNCHANGED <<stored, skipped>>
        /\ UNCHANGED <<batch, inflight, toAdd, pc, closing, post, dropped, faults>>

SenderStep == AddBuffers \/ AddFills \/ FlushEmpty \/ FlushSends
                \/ SendSucceeds \/ SendFails
Ingest == IngestAccepts \/ IngestRejects \/ IngestLate

-----------------------------------------------------------------------------
(* The sender alone: a tick hands over any flows not handed over before.   *)

Orders(S) == {s \in [1..Cardinality(S) -> S] : InSeq(s) = S}

Tick ==
    \E S \in SUBSET (FlowEvent \ Known) : \E s \in Orders(S) : \E final \in BOOLEAN :
        Take(s, final)

SenderNext == Tick \/ SenderStep \/ Ingest
SenderSpec == SenderInit /\ [][SenderNext]_senderVars
FairSenderSpec == SenderSpec /\ WF_senderVars(SenderStep) /\ WF_senderVars(IngestAccepts)
                 /\ WF_senderVars(Tick)

-----------------------------------------------------------------------------
(* Properties.                                                             *)

SenderTypeOK ==
    /\ batch \in Seq(FlowEvent) /\ inflight \in Seq(FlowEvent) /\ toAdd \in Seq(FlowEvent)
    /\ pc \in {"loop", "add", "exited"} \cup SendStates
    /\ closing \in BOOLEAN
    /\ post \in {"none", "sent", "accepted", "rejected"}
    /\ pc \in SendStates <=> post # "none"
    /\ pc \notin SendStates => inflight = <<>>
    /\ \A r \in late : r.nr \in Nat /\ r.events \in Seq(FlowEvent)
    /\ stored \in [FlowEvent -> Nat]
    /\ dropped \subseteq FlowEvent /\ skipped \subseteq Unreadable
    /\ faults \in 0..MaxFaults

\* The batch never reaches BatchSize, however long the backend is down: what
\* Flush puts back fits because Add had emptied the batch at the limit.
BatchBelowLimit ==
    /\ Len(batch) < BatchSize
    /\ pc \in {"flushSend1", "flushSend2"} => batch = <<>> /\ Len(inflight) < BatchSize

\* An event the tracker handed over leaves the sender in three ways only: its
\* row is stored, an Add whose POST failed drops it, or the handler cannot read
\* it and answers 200 without a row.
AccountedFor ==
    [][\A e \in Held :
          \/ e \in Held' \/ stored'[e] > 0 \/ e \in dropped'
          \/ e \in skipped' /\ e \in Unreadable]_senderVars

\* Once POSTs stop failing, what is buffered and readable is stored: Flush keeps
\* it over any number of ticks and a later Flush delivers it, unless the process
\* ends first or a full batch is dropped.
BufferedIsStored ==
    \A e \in FlowEvent \ Unreadable :
        e \in InSeq(batch) ~> stored[e] > 0 \/ e \in dropped \/ pc = "exited"
=============================================================================
