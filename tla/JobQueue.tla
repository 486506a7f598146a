------------------------------- MODULE JobQueue -------------------------------
(***************************************************************************)
(* The job queue of the Python backend (backend/jobs/queue.py): analyses   *)
(* are inserted by upload requests and by triggered captures               *)
(* (backend/collector/pcap_trigger.py), claimed by one worker thread, run  *)
(* in a thread of their own under a timeout, and deleted by their owners.  *)
(* Every action is one database transaction, one step under a lock, or one *)
(* system call.                                                            *)
(***************************************************************************)
EXTENDS Integers, FiniteSets, FiniteSetsExt

CONSTANTS
    Job,            \* analyses that may come into being
    Mixes,          \* the sets of jobs that captures, not uploads, may create
    Nobody,         \* the worker has nothing in hand
    KeyOf,          \* KeyOf[j]: addresses and port, when a capture creates j
    NameOf,         \* NameOf[j]: the name of that capture's file
    NStages,        \* progress reports of a run; report NStages + 1 is 100%
    MaxConcurrent,  \* PCAP_TRIGGER_MAX_CONCURRENT
    MaxRuns,        \* bound: threads ever started for one analysis
    MaxFaults       \* bound: times the process dies or the worker fails to write a row

ASSUME JobAssumption ==
    /\ IsFiniteSet(Job) /\ Mixes \subseteq SUBSET Job /\ Nobody \notin Job \X Nat
    /\ Job \subseteq DOMAIN NameOf \intersect DOMAIN KeyOf
    /\ Job \intersect {NameOf[j] : j \in Job} = {}
ASSUME BoundsAssumption ==
    {NStages, MaxConcurrent} \subseteq Nat \ {0} /\ MaxRuns \in Nat \ {0, 1} /\ MaxFaults \in Nat

VARIABLES
    row,       \* AnalysisModel by id
    file,      \* files on disk
    captured,  \* the jobs that captures create, not uploads; it never changes
    maker,     \* where the request or the capture that creates the job is
    active,    \* PcapTrigger._active: the jobs whose tcpdump runs
    worker,    \* AnalysisWorker: the job thread it joins
    run,       \* the job threads: the k-th one of analysis j is <<j, k>>
    deleter,   \* where the request that deletes the job is
    faults,    \* how often the process died, or a step of the worker raised
    seen       \* history: what the properties ask about the past

jobVars == <<row, file, captured, maker, active, worker, run, deleter, faults, seen>>

Finished == {"completed", "failed"}
Status == {"pending", "running"} \union Finished
NoRow == [status |-> "none", staged |-> FALSE, pct |-> 0, second |-> 0]

(***************************************************************************)
(* Rows present, and the one the worker's query returns first: the oldest  *)
(* by created_at, whose resolution is a second.                            *)
(***************************************************************************)
Present == {j \in Job : row[j] # NoRow}
\* Mutant: the worker's query also returns what is running.
Unfinished == {j \in Present : row[j].status \in {"pending", "running"}}

Pending == {j \in Present : row[j].status = "pending"}
Oldest == {j \in Pending : \A k \in Pending : row[j].second <= row[k].second}
Latest == Max({row[j].second : j \in Job})

(***************************************************************************)
(* Threads: not started, running with the next report to make, or ended.   *)
(* What a thread left is kept until the worker has looked at it.           *)
(***************************************************************************)
Thread == Job \X (1 .. MaxRuns)
ThreadState == [state : {"none", "running", "error", "result", "gone"}, next : 1 .. NStages + 1]
Alive == {n \in Thread : run[n].state = "running"}
GivenUp(j) == \E n \in Alive : n[1] = j /\ worker # n
Become(n, state) == [run EXCEPT ![n] = [state |-> state, next |-> 1]]

(***************************************************************************)
(* Uploads are stored under their id, captures under addresses and second. *)
(***************************************************************************)
Path(j) == IF j \in captured THEN NameOf[j] ELSE j

JobInit ==
    /\ row = [j \in Job |-> NoRow]
    /\ file = {}
    /\ captured \in Mixes
    /\ maker = [j \in Job |-> "idle"]
    /\ active = {}
    /\ worker = Nobody
    /\ run = [n \in Thread |-> [state |-> "none", next |-> 1]]
    /\ deleter = [j \in Job |-> "idle"]
    /\ faults = 0
    /\ seen = [requeued |-> {}, orphaned |-> {}]

At(j, p) == maker' = [maker EXCEPT ![j] = p]

(***************************************************************************)
(* create_analysis and _on_capture_complete: write the file, insert a      *)
(* pending row and commit, then enqueue: read the row, and set it pending  *)
(* (a write only when the row read is not pending).                        *)
(***************************************************************************)
SaveUpload(j) ==
    /\ j \notin captured /\ maker[j] = "idle"
    /\ file' = file \union {Path(j)}
    /\ At(j, "saved")
    /\ UNCHANGED <<row, captured, active, worker, run, deleter, faults, seen>>

Insert(j) ==
    /\ maker[j] = "saved"
    /\ \E tie \in {0, 1} :
          row' = [row EXCEPT ![j] = [status |-> "pending", staged |-> FALSE, pct |-> 0,
                                     second |-> IF Present = {} THEN 0 ELSE Latest + tie]]
    /\ At(j, "inserted")
    /\ UNCHANGED <<file, captured, active, worker, run, deleter, faults, seen>>

EnqueueReads(j) ==
    /\ maker[j] = "inserted"
    /\ At(j, IF row[j].status \in {"none", "pending"} THEN "done" ELSE "stale")
    /\ UNCHANGED <<row, file, captured, active, worker, run, deleter, faults, seen>>

EnqueueWrites(j) ==
    /\ maker[j] = "stale"
    /\ IF j \in Present
       THEN /\ row' = [row EXCEPT ![j].status = "pending"]
            /\ seen' = [requeued |-> seen.requeued \union {j}, orphaned |-> seen.orphaned \ {j}]
       ELSE UNCHANGED <<row, seen>>
    /\ At(j, "done")
    /\ UNCHANGED <<file, captured, active, worker, run, deleter, faults>>

(***************************************************************************)
(* PcapTrigger.trigger, under its lock: one tcpdump per key, at most       *)
(* MaxConcurrent; and _monitor, which frees the slot before it looks at    *)
(* the file.                                                               *)
(***************************************************************************)
Trigger(j) ==
    /\ j \in captured /\ maker[j] = "idle"
    /\ \A k \in active : KeyOf[k] # KeyOf[j]
    /\ Cardinality(active) < MaxConcurrent
    /\ active' = active \union {j}
    /\ file' \in {file, file \union {Path(j)}}   \* tcpdump may fail at once
    /\ At(j, "capturing")
    /\ UNCHANGED <<row, captured, worker, run, deleter, faults, seen>>

CaptureEnds(j) ==
    /\ maker[j] = "capturing"
    /\ active' = active \ {j}
    /\ At(j, "captured")
    /\ UNCHANGED <<row, file, captured, worker, run, deleter, faults, seen>>

CaptureComplete(j) ==
    /\ maker[j] = "captured"
    /\ \/ Path(j) \in file /\ At(j, "saved") /\ UNCHANGED file
       \/ Path(j) \in file /\ At(j, "done") /\ file' = file \ {Path(j)}   \* empty
       \/ Path(j) \notin file /\ At(j, "done") /\ UNCHANGED file
    /\ UNCHANGED <<row, captured, active, worker, run, deleter, faults, seen>>

(***************************************************************************)
(* AnalysisWorker._process_one: claim, start a thread, join it with a      *)
(* timeout, and write what came of it. A timeout also assigns 0 to the     *)
(* progress, but the session holds the 0 of the claim for the value of the *)
(* column and leaves it out of the UPDATE: the last report stays.          *)
(***************************************************************************)
Claim ==
    /\ worker = Nobody
    /\ \E j \in Oldest, k \in 1 .. MaxRuns :
          /\ \A i \in 1 .. MaxRuns : i < k <=> run[<<j, i>>].state # "none"
          /\ row' = [row EXCEPT ![j].status = "running", ![j].pct = 0, ![j].staged = TRUE]
          /\ run' = Become(<<j, k>>, "running")
          /\ worker' = <<j, k>>
    /\ UNCHANGED <<file, captured, maker, active, deleter, faults, seen>>

Orphan(S) == seen' = [seen EXCEPT !.orphaned = @ \union {j \in S \intersect Present : row[j].status = "running"}]

(***************************************************************************)
(* run() swallows whatever _process_one raises. Before the commit of the   *)
(* claim that changes nothing; after it the row says "running" and nobody  *)
(* holds it: the row cannot be read again or the thread cannot be started, *)
(* or the outcome cannot be serialised or committed.                       *)
(***************************************************************************)
ClaimIsLost ==
    /\ worker = Nobody /\ faults < MaxFaults
    /\ faults' = faults + 1
    /\ \E j \in Oldest :
          /\ row' = [row EXCEPT ![j].status = "running", ![j].pct = 0, ![j].staged = TRUE]
          /\ seen' = [seen EXCEPT !.orphaned = @ \union {j}]
    /\ UNCHANGED <<file, captured, maker, active, worker, run, deleter>>

OutcomeIsLost ==
    /\ worker # Nobody /\ faults < MaxFaults
    /\ faults' = faults + 1
    /\ Orphan({worker[1]})
    /\ run' = IF run[worker].state \in {"error", "result"} THEN Become(worker, "gone") ELSE run
    /\ worker' = Nobody
    /\ UNCHANGED <<row, file, captured, maker, active, deleter>>

WriteOutcome(status, pct) ==
    LET j == worker[1] IN
    /\ row' = IF j \in Present
              THEN [row EXCEPT ![j].status = status, ![j].pct = pct, ![j].staged = FALSE]
              ELSE row
    /\ worker' = Nobody
    /\ UNCHANGED <<file, captured, maker, active, deleter, faults, seen>>

\* Mutant: the worker waits for its thread without a timeout.
JoinForever == FALSE

\* Mutant: after a timeout the worker keeps the thread it gave up on.
JoinTimesOutAndWaits ==
    /\ worker \in Alive
    /\ row' = [row EXCEPT ![worker[1]] = IF worker[1] \in Present
                                        THEN [@ EXCEPT !.status = "failed"] ELSE @]
    /\ UNCHANGED <<file, captured, maker, active, worker, run, deleter, faults, seen>>

JoinTimesOut ==
    /\ worker \in Alive
    /\ WriteOutcome("failed", row[worker[1]].pct)
    /\ UNCHANGED run

JoinError ==
    /\ worker # Nobody /\ run[worker].state = "error"
    /\ WriteOutcome("failed", row[worker[1]].pct)
    /\ run' = Become(worker, "gone")

JoinResult ==
    /\ worker # Nobody /\ run[worker].state = "result"
    /\ WriteOutcome("completed", NStages + 1)
    /\ run' = Become(worker, "gone")

(***************************************************************************)
(* The job thread: run_pipeline reports its progress between its stages    *)
(* and may raise in any of them; a report that cannot be written is left   *)
(* out. Nobody stops a thread the worker no longer waits for, and nobody   *)
(* looks at what it leaves.                                                *)
(***************************************************************************)

Progress(n) ==
    /\ n \in Alive /\ run[n].next <= NStages
    /\ \/ /\ row' = IF n[1] \in Present
                    THEN [row EXCEPT ![n[1]].staged = TRUE, ![n[1]].pct = run[n].next] ELSE row
          /\ UNCHANGED faults
       \/ /\ faults < MaxFaults /\ faults' = faults + 1
          /\ UNCHANGED row
    /\ run' = [run EXCEPT ![n].next = @ + 1]
    /\ UNCHANGED <<file, captured, maker, active, worker, deleter, seen>>

PipelineEnds(n) ==
    /\ n \in Alive
    /\ \/ run' = Become(n, IF worker = n THEN "error" ELSE "gone")
       \/ /\ run[n].next > NStages
          /\ run' = Become(n, IF worker = n THEN "result" ELSE "gone")
    /\ UNCHANGED <<row, file, captured, maker, active, worker, deleter, faults, seen>>

(***************************************************************************)
(* delete_analysis: unlink the file of the row read, then delete the row.  *)
(***************************************************************************)
DeleteUnlinks(j) ==
    /\ j \in Present /\ deleter[j] = "idle"
    /\ file' = file \ {Path(j)}
    /\ deleter' = [deleter EXCEPT ![j] = "unlinked"]
    /\ UNCHANGED <<row, captured, maker, active, worker, run, faults, seen>>

DeleteCommits(j) ==
    /\ deleter[j] = "unlinked"
    /\ row' = [row EXCEPT ![j] = NoRow]
    /\ deleter' = [deleter EXCEPT ![j] = "done"]
    /\ seen' = [seen EXCEPT !.orphaned = @ \ {j}]
    /\ UNCHANGED <<file, captured, maker, active, worker, run, faults>>

(***************************************************************************)
(* The process dies and the container restarts it: threads, requests and   *)
(* tcpdumps are gone, rows and files stay. startup() starts a new worker   *)
(* and looks at no row.                                                    *)
(***************************************************************************)
Crash ==
    /\ faults < MaxFaults
    /\ faults' = faults + 1
    /\ maker' = [j \in Job |-> IF maker[j] = "idle" THEN maker[j]
                               ELSE "done"]
    /\ active' = {}
    /\ worker' = Nobody
    /\ run' = [n \in Thread |-> IF run[n].state = "none" THEN run[n]
                                ELSE [state |-> "gone", next |-> 1]]
    /\ deleter' = [j \in Job |-> IF deleter[j] = "unlinked" THEN "done" ELSE deleter[j]]
    /\ Orphan(Job)
    /\ UNCHANGED <<row, file, captured>>

Make(j) ==
    \/ SaveUpload(j) \/ Insert(j) \/ EnqueueReads(j) \/ EnqueueWrites(j)
    \/ CaptureEnds(j) \/ CaptureComplete(j)
Work == Claim \/ JoinTimesOut \/ JoinError \/ JoinResult
RunStep(n) == Progress(n) \/ PipelineEnds(n)

JobNext ==
    \/ \E j \in Job : Make(j) \/ Trigger(j) \/ DeleteUnlinks(j) \/ DeleteCommits(j)
    \/ Work \/ ClaimIsLost \/ OutcomeIsLost
    \/ \E n \in Thread : RunStep(n)
    \/ Crash

JobSpec == JobInit /\ [][JobNext]_jobVars

(***************************************************************************)
(* The worker and its threads keep running, and join() returns after its   *)
(* timeout; requests, captures and faults may stay away.                   *)
(***************************************************************************)
FairJobSpec == JobSpec /\ WF_jobVars(Work)

TypeOK ==
    /\ row \in [Job -> [status : Status \union {"none"}, staged : BOOLEAN,
                        pct : 0 .. NStages + 1, second : Nat]]
    /\ file \subseteq {Path(j) : j \in Job}
    /\ maker \in [Job -> {"idle", "capturing", "captured", "saved", "inserted", "stale", "done"}]
    /\ active \subseteq captured /\ captured \subseteq Job
    /\ worker \in Thread \union {Nobody} /\ run \in [Thread -> ThreadState]

\* An analysis is run a second time only when enqueue() overwrote what the worker had
\* written: create_analysis commits a pending row before it calls enqueue.
SecondRunNeedsRequeue ==
    \A j \in Job : run[<<j, 2>>].state # "none" => j \in seen.requeued

\* A row says "running" while the worker holds the analysis, or since the process died or
\* the worker raised during its run: nothing else (a timeout, a failing analysis, a late
\* enqueue, a deletion) leaves it there.
RunningIsHeld ==
    \A j \in Present : row[j].status = "running"
                        => (worker # Nobody /\ worker[1] = j) \/ j \in seen.orphaned

\* What a finished analysis shows changes only by deletion, by a late enqueue(), or, its
\* progress alone, by a thread that the worker gave up on and that nobody stopped.
FinishedStays ==
    [][\A j \in Job : row[j].status \in Finished /\ row'[j] # row[j]
          => \/ row'[j] = NoRow
             \/ maker[j] = "stale" /\ row'[j].status = "pending"
             \/ GivenUp(j) /\ row'[j].status = row[j].status]_jobVars

\* A capture file that an analysis points to disappears with that analysis, unless another
\* capture was given the same name: names have the addresses and the second, not the port.
FileGoneNeedsTwin ==
    \A j \in Present : Path(j) \notin file /\ deleter[j] = "idle"
        => \E k \in Job \ {j} : Path(k) = Path(j) /\ maker[k] # "idle"

\* Every queued analysis comes to an end, whatever its threads do: it is finished, deleted,
\* or the process died or the worker raised while it ran. A run that hangs, or that raises,
\* must not block the ones behind it.
QueuedIsFinished ==
    \A j \in Job : row[j].status = "pending"
                    ~> row[j].status \in Finished \union {"none"} \/ j \in seen.orphaned

\* The row, the runs and the file of an analysis agree at every moment.
RowRunAndFileAgree == TypeOK /\ RunningIsHeld /\ SecondRunNeedsRequeue /\ FileGoneNeedsTwin
===============================================================================
