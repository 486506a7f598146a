--------------------------- MODULE AnalysisProofs ---------------------------
(***************************************************************************)
(* The analysis of a capture from the queue to the exchanges it reads: the *)
(* job queue, for any set of analyses, any number of stages, runs and      *)
(* faults, and how the normalizer pairs questions and answers, for        *)
(* captures of any length, any packets and any order of time.              *)
(***************************************************************************)
EXTENDS JobQueue, Analysis, FiniteSetTheorems, WellFoundedInduction, TLAPS

-----------------------------------------------------------------------------
(* A finite set of naturals has a maximum: Max is a CHOOSE.                *)

\* A family of finite sets has a member that contains no other one.
LEMMA SmallestFiniteSet ==
  ASSUME NEW S, NEW F, F # {}, \A T \in F : T \subseteq S /\ IsFiniteSet(T)
  PROVE  \E T \in F : \A U \in F : ~(U \subseteq T /\ U # T)
<1>1. F \subseteq FiniteSubsetsOf(S)  BY DEF FiniteSubsetsOf
<1>2. IsWellFoundedOn(StrictSubsetOrdering(S), FiniteSubsetsOf(S))  BY FS_StrictSubsetOrderingWellFounded
<1>3. PICK T \in F : \A U \in F : ~(<<U, T>> \in StrictSubsetOrdering(S))  BY <1>1, <1>2, WFMin
<1> QED  BY <1>3 DEF StrictSubsetOrdering

LEMMA MaxOfNaturals ==
  ASSUME NEW S \in SUBSET Nat, IsFiniteSet(S), S # {}
  PROVE  Max(S) \in S /\ \A x \in S : x <= Max(S)
<1> DEFINE F == {T \in SUBSET S : T # {} /\ ~(\E x \in T : \A y \in T : x >= y)}
<1>1. F = {}
  <2> SUFFICES ASSUME F # {}  PROVE FALSE  OBVIOUS
  <2>1. \A T \in F : T \subseteq S  OBVIOUS
  <2>2. \A T \in F : T \subseteq S /\ IsFiniteSet(T)  BY FS_Subset
  <2>3. PICK T \in F : \A U \in F : ~(U \subseteq T /\ U # T)
    <3> HIDE DEF F
    <3> QED  BY <2>2, SmallestFiniteSet
  <2>4. PICK x \in T : TRUE  BY <2>3
  <2>5. x \in Nat /\ T \in SUBSET Nat  BY <2>3, <2>4
  <2>6. T \ {x} \in SUBSET S /\ T \ {x} \notin F  BY <2>1, <2>3, <2>4
  <2>7. T # {x}
    <3>1. x >= x  BY <2>5
    <3> QED  BY <2>3, <3>1
  <2>8. PICK y \in T \ {x} : \A z \in T \ {x} : y >= z  BY <2>4, <2>6, <2>7
  <2>9. \E v \in T : \A z \in T : v >= z
    <3>1. CASE x >= y  BY <2>4, <2>5, <2>8, <3>1
    <3>2. CASE ~(x >= y)  BY <2>4, <2>5, <2>8, <3>2
    <3> QED  BY <3>1, <3>2
  <2> QED  BY <2>3, <2>9
<1>2. \E x \in S : \A y \in S : x >= y  BY <1>1
<1> QED  BY <1>2 DEF Max

-----------------------------------------------------------------------------
(* The inductive invariant.                                                *)

Before == {"idle", "capturing", "captured", "saved"}
OtherTypes ==
  /\ deleter \in [Job -> {"idle", "unlinked", "done"}]
  /\ seen \in [requeued : SUBSET Job, orphaned : SUBSET Job]

\* Until its row is inserted an analysis has neither row nor run.
NotYet ==
  \A j \in Job : maker[j] \in Before =>
    row[j] = NoRow /\ \A k \in 1 .. MaxRuns : run[<<j, k>>].state = "none"

\* A pending analysis that ran before was set pending by a late enqueue().
RerunIsRequeued ==
  \A j \in Job : row[j].status = "pending" /\ run[<<j, 1>>].state # "none" => j \in seen.requeued

\* The worker holds no analysis that is finished: it reports only what it then lets go.
HeldIsUnfinished == worker # Nobody => row[worker[1]].status \notin Finished

\* The file is there from the moment it is saved, not only once the row points to it.
FileOf(j) ==
  (j \in Present \/ maker[j] = "saved") /\ Path(j) \notin file /\ deleter[j] = "idle"
    => \E k \in Job \ {j} : Path(k) = Path(j) /\ maker[k] # "idle"
FilesBacked == \A j \in Job : FileOf(j)

JobIInv ==
  /\ TypeOK /\ OtherTypes
  /\ NotYet /\ RerunIsRequeued /\ HeldIsUnfinished /\ FilesBacked
  /\ RunningIsHeld /\ SecondRunNeedsRequeue

-----------------------------------------------------------------------------
(* Writing a row or the state of a thread.                                 *)

RowType == [status : Status \union {"none"}, staged : BOOLEAN, pct : 0 .. NStages + 1, second : Nat]

LEMMA RowWritten ==
  ASSUME row \in [Job -> RowType], NEW j \in Job, NEW r \in RowType, row' = [row EXCEPT ![j] = r]
  PROVE  row' \in [Job -> RowType] /\ row'[j] = r /\ \A i \in Job \ {j} : row'[i] = row[i]
  OBVIOUS

LEMMA RunWritten ==
  ASSUME run \in [Thread -> ThreadState], NEW n \in Thread, NEW r \in ThreadState,
         run' = [run EXCEPT ![n] = r]
  PROVE  run' \in [Thread -> ThreadState] /\ run'[n] = r /\ \A i \in Thread \ {n} : run'[i] = run[i]
  OBVIOUS

LEMMA MakerMoved ==
  ASSUME TypeOK, NEW j \in Job, NEW p, At(j, p),
         p \in {"idle", "capturing", "captured", "saved", "inserted", "stale", "done"}
  PROVE  /\ maker' \in [Job -> {"idle", "capturing", "captured", "saved", "inserted", "stale", "done"}]
         /\ maker'[j] = p /\ \A i \in Job \ {j} : maker'[i] = maker[i]
  BY DEF At, TypeOK

LEMMA ThreadParts ==
  /\ \A n \in Thread : n[1] \in Job
  /\ \A j \in Job, k \in 1 .. MaxRuns : <<j, k>> \in Thread
  /\ \A j \in Job : <<j, 1>> \in Thread /\ <<j, 2>> \in Thread
  /\ \A n \in Thread : n # Nobody
<1>1. MaxRuns \in Nat /\ MaxRuns >= 2  BY BoundsAssumption
<1>2. \A n \in Thread : n \in Job \X Nat  BY <1>1 DEF Thread
<1> QED  BY <1>1, <1>2, JobAssumption DEF Thread

LEMMA NoRowType == NoRow \in RowType /\ NoRow.status = "none"
  BY BoundsAssumption DEF NoRow, RowType, Status, Finished

-----------------------------------------------------------------------------
(* What keeps each part of the invariant.                                  *)

LEMMA NotYetKept ==
  ASSUME NotYet,
         \A j \in Job : maker'[j] \in Before => maker[j] \in Before /\ row'[j] = row[j],
         \A j \in Job, k \in 1 .. MaxRuns :
            maker[j] \in Before /\ run[<<j, k>>].state = "none" => run'[<<j, k>>].state = "none"
  PROVE  NotYet'
  BY DEF NotYet

LEMMA FilesKept ==
  ASSUME FilesBacked, captured' = captured, file \subseteq file',
         \A j \in Job : j \in Present' => j \in Present \/ maker[j] = "saved",
         \A j \in Job : maker'[j] = "saved" => maker[j] = "saved" \/ Path(j) \in file',
         \A j \in Job : maker[j] # "idle" => maker'[j] # "idle",
         \A j \in Job : deleter'[j] = "idle" => deleter[j] = "idle"
  PROVE  FilesBacked'
<1> SUFFICES ASSUME NEW j \in Job, (j \in Present \/ maker[j] = "saved")', Path(j)' \notin file',
                    deleter'[j] = "idle"
             PROVE  \E k \in Job \ {j} : Path(k)' = Path(j)' /\ maker'[k] # "idle"
  BY DEF FilesBacked, FileOf
<1>1. \A k \in Job : Path(k)' = Path(k)  BY DEF Path
<1>2. \E k \in Job \ {j} : Path(k) = Path(j) /\ maker[k] # "idle"  BY <1>1 DEF FilesBacked, FileOf
<1> QED  BY <1>1, <1>2

LEMMA WritesKept ==
  ASSUME RunningIsHeld, RerunIsRequeued, SecondRunNeedsRequeue, HeldIsUnfinished, TypeOK,
         worker' = worker, run' = run, seen' = seen,
         \A j \in Job : row'[j] # row[j] => row'[j].status \notin {"running", "completed", "failed"},
         \A j \in Job : row'[j] # row[j] /\ row'[j].status = "pending" => run[<<j, 1>>].state = "none"
  PROVE  (RunningIsHeld /\ RerunIsRequeued /\ SecondRunNeedsRequeue /\ HeldIsUnfinished)'
<1>1. worker # Nobody => worker[1] \in Job  BY ThreadParts DEF TypeOK
<1>2. HeldIsUnfinished'  BY <1>1 DEF HeldIsUnfinished, Finished
<1>3. RunningIsHeld'  BY NoRowType DEF RunningIsHeld, Present
<1> QED  BY <1>2, <1>3 DEF RerunIsRequeued, SecondRunNeedsRequeue

-----------------------------------------------------------------------------
(* Requests and captures.                                                  *)

LEMMA SaveUploadKeeps ==
  ASSUME JobIInv, NEW j \in Job, SaveUpload(j)
  PROVE  JobIInv'
<1>1. /\ maker'[j] = "saved" /\ \A i \in Job \ {j} : maker'[i] = maker[i]
      /\ maker' \in [Job -> {"idle", "capturing", "captured", "saved", "inserted", "stale", "done"}]
      /\ UNCHANGED <<row, captured, active, worker, run, deleter, seen>>
      /\ maker[j] = "idle" /\ file' = file \union {Path(j)}
  BY MakerMoved DEF SaveUpload, JobIInv
<1>2. TypeOK' /\ OtherTypes'  BY <1>1 DEF JobIInv, TypeOK, OtherTypes, Path
<1>3. NotYet'  BY <1>1, NotYetKept DEF JobIInv, Before
<1>4. FilesBacked'  BY <1>1, FilesKept DEF JobIInv, Present
<1>5. (RunningIsHeld /\ RerunIsRequeued /\ SecondRunNeedsRequeue /\ HeldIsUnfinished)'
  BY <1>1, WritesKept DEF JobIInv
<1> QED  BY <1>2, <1>3, <1>4, <1>5 DEF JobIInv

\* The new row is pending, and nothing of this analysis ran before.
LEMMA InsertKeeps ==
  ASSUME JobIInv, NEW j \in Job, Insert(j)
  PROVE  JobIInv'
<1>1. /\ maker[j] = "saved" /\ maker'[j] = "inserted" /\ \A i \in Job \ {j} : maker'[i] = maker[i]
      /\ maker' \in [Job -> {"idle", "capturing", "captured", "saved", "inserted", "stale", "done"}]
      /\ UNCHANGED <<file, captured, active, worker, run, deleter, seen>>
  BY MakerMoved DEF Insert, JobIInv
<1>2. PICK tie \in {0, 1} :
        row' = [row EXCEPT ![j] = [status |-> "pending", staged |-> FALSE, pct |-> 0,
                                   second |-> IF Present = {} THEN 0 ELSE Latest + tie]]
  BY DEF Insert
<1> DEFINE r == [status |-> "pending", staged |-> FALSE, pct |-> 0,
                 second |-> IF Present = {} THEN 0 ELSE Latest + tie]
<1>3. Latest \in Nat
  <2>1. {row[i].second : i \in Job} \in SUBSET Nat /\ {row[i].second : i \in Job} # {}
    BY DEF JobIInv, TypeOK
  <2>2. IsFiniteSet({row[i].second : i \in Job})
    <3> DEFINE f == [i \in Job |-> row[i].second]
    <3>1. f \in Surjection(Job, {row[i].second : i \in Job})  BY DEF Surjection
    <3> QED  BY <3>1, FS_Surjection, JobAssumption
  <2> QED  BY <2>1, <2>2, MaxOfNaturals DEF Latest
<1>4. r \in RowType  BY <1>3, BoundsAssumption DEF RowType, Status
<1>5. row' \in [Job -> RowType] /\ row'[j] = r /\ \A i \in Job \ {j} : row'[i] = row[i]
  BY <1>2, <1>4, RowWritten DEF JobIInv, TypeOK, RowType
<1>6. r.status = "pending"  OBVIOUS
<1> HIDE DEF r
<1>7. TypeOK' /\ OtherTypes'  BY <1>1, <1>5 DEF JobIInv, TypeOK, OtherTypes, Path, RowType
<1>8. NotYet'  BY <1>1, <1>5, NotYetKept DEF JobIInv, Before
<1>9. FilesBacked'  BY <1>1, <1>5, FilesKept DEF JobIInv, Present
<1>10. run[<<j, 1>>].state = "none"
  <2>1. 1 \in 1 .. MaxRuns  BY BoundsAssumption
  <2> QED  BY <1>1, <2>1 DEF JobIInv, NotYet, Before
<1>11. (RunningIsHeld /\ RerunIsRequeued /\ SecondRunNeedsRequeue /\ HeldIsUnfinished)'
  BY <1>1, <1>5, <1>6, <1>10, WritesKept DEF JobIInv
<1> QED  BY <1>7, <1>8, <1>9, <1>11 DEF JobIInv

LEMMA EnqueueReadsKeeps ==
  ASSUME JobIInv, NEW j \in Job, EnqueueReads(j)
  PROVE  JobIInv'
<1>1. /\ maker[j] = "inserted" /\ maker'[j] \in {"done", "stale"}
      /\ \A i \in Job \ {j} : maker'[i] = maker[i]
      /\ maker' \in [Job -> {"idle", "capturing", "captured", "saved", "inserted", "stale", "done"}]
      /\ UNCHANGED <<row, file, captured, active, worker, run, deleter, seen>>
  BY MakerMoved DEF EnqueueReads, JobIInv
<1>2. TypeOK' /\ OtherTypes'  BY <1>1 DEF JobIInv, TypeOK, OtherTypes, Path
<1>3. NotYet'  BY <1>1, NotYetKept DEF JobIInv, Before
<1>4. FilesBacked'  BY <1>1, FilesKept DEF JobIInv, Present
<1>5. (RunningIsHeld /\ RerunIsRequeued /\ SecondRunNeedsRequeue /\ HeldIsUnfinished)'
  BY <1>1, WritesKept DEF JobIInv
<1> QED  BY <1>2, <1>3, <1>4, <1>5 DEF JobIInv

\* A late enqueue() sets a row pending that may have run: it is recorded as requeued.
LEMMA EnqueueWritesKeeps ==
  ASSUME JobIInv, NEW j \in Job, EnqueueWrites(j)
  PROVE  JobIInv'
<1>1. /\ maker[j] = "stale" /\ maker'[j] = "done" /\ \A i \in Job \ {j} : maker'[i] = maker[i]
      /\ maker' \in [Job -> {"idle", "capturing", "captured", "saved", "inserted", "stale", "done"}]
      /\ UNCHANGED <<file, captured, active, worker, run, deleter>>
  BY MakerMoved DEF EnqueueWrites, JobIInv
<1>2. CASE j \notin Present
  <2>1. UNCHANGED <<row, seen>>  BY <1>2 DEF EnqueueWrites
  <2>2. TypeOK' /\ OtherTypes'  BY <1>1, <2>1 DEF JobIInv, TypeOK, OtherTypes, Path
  <2>3. NotYet'  BY <1>1, <2>1, NotYetKept DEF JobIInv, Before
  <2>4. FilesBacked'  BY <1>1, <2>1, FilesKept DEF JobIInv, Present
  <2>5. (RunningIsHeld /\ RerunIsRequeued /\ SecondRunNeedsRequeue /\ HeldIsUnfinished)'
    BY <1>1, <2>1, WritesKept DEF JobIInv
  <2> QED  BY <2>2, <2>3, <2>4, <2>5 DEF JobIInv
<1>3. CASE j \in Present
  <2> DEFINE r == [row[j] EXCEPT !.status = "pending"]
  <2>1. row' = [row EXCEPT ![j] = r] /\ seen' = [requeued |-> seen.requeued \union {j}, orphaned |-> seen.orphaned \ {j}]
    BY <1>3 DEF EnqueueWrites
  <2>2. r \in RowType /\ r.status = "pending"  BY DEF JobIInv, TypeOK, RowType, Status
  <2> HIDE DEF r
  <2>3. row' \in [Job -> RowType] /\ row'[j] = r /\ \A i \in Job \ {j} : row'[i] = row[i]
    BY <2>1, <2>2, RowWritten DEF JobIInv, TypeOK, RowType
  <2>4. /\ seen'.requeued = seen.requeued \union {j} /\ seen'.orphaned = seen.orphaned \ {j}
        /\ seen' \in [requeued : SUBSET Job, orphaned : SUBSET Job]
    BY <2>1 DEF JobIInv, OtherTypes
  <2>5. TypeOK' /\ OtherTypes'  BY <1>1, <2>3, <2>4 DEF JobIInv, TypeOK, OtherTypes, Path, RowType
  <2>6. NotYet'  BY <1>1, <2>3, NotYetKept DEF JobIInv, Before
  <2>7. FilesBacked'  BY <1>1, <1>3, <2>3, FilesKept DEF JobIInv, Present
  <2>8. RunningIsHeld'  BY <1>1, <2>2, <2>3, <2>4 DEF JobIInv, RunningIsHeld, Present, NoRow
  <2>9. RerunIsRequeued' /\ SecondRunNeedsRequeue'
    BY <1>1, <2>3, <2>4 DEF JobIInv, RerunIsRequeued, SecondRunNeedsRequeue
  <2>10. HeldIsUnfinished'
    BY <1>1, <2>2, <2>3, ThreadParts DEF JobIInv, HeldIsUnfinished, Finished, TypeOK
  <2> QED  BY <2>5, <2>6, <2>7, <2>8, <2>9, <2>10 DEF JobIInv
<1> QED  BY <1>2, <1>3

LEMMA CaptureEndsKeeps ==
  ASSUME JobIInv, NEW j \in Job, CaptureEnds(j)
  PROVE  JobIInv'
<1>1. /\ maker[j] = "capturing" /\ maker'[j] = "captured" /\ \A i \in Job \ {j} : maker'[i] = maker[i]
      /\ maker' \in [Job -> {"idle", "capturing", "captured", "saved", "inserted", "stale", "done"}]
      /\ UNCHANGED <<row, file, captured, worker, run, deleter, seen>> /\ active' = active \ {j}
  BY MakerMoved DEF CaptureEnds, JobIInv
<1>2. TypeOK' /\ OtherTypes'  BY <1>1 DEF JobIInv, TypeOK, OtherTypes, Path
<1>3. NotYet'  BY <1>1, NotYetKept DEF JobIInv, Before
<1>4. FilesBacked'  BY <1>1, FilesKept DEF JobIInv, Present
<1>5. (RunningIsHeld /\ RerunIsRequeued /\ SecondRunNeedsRequeue /\ HeldIsUnfinished)'
  BY <1>1, WritesKept DEF JobIInv
<1> QED  BY <1>2, <1>3, <1>4, <1>5 DEF JobIInv

\* An empty capture takes its file away, which may be the file of another capture.
LEMMA CaptureCompleteKeeps ==
  ASSUME JobIInv, NEW j \in Job, CaptureComplete(j)
  PROVE  JobIInv'
<1>1. /\ maker[j] = "captured" /\ maker'[j] \in {"saved", "done"}
      /\ \A i \in Job \ {j} : maker'[i] = maker[i]
      /\ maker' \in [Job -> {"idle", "capturing", "captured", "saved", "inserted", "stale", "done"}]
      /\ UNCHANGED <<row, captured, active, worker, run, deleter, seen>>
      /\ file' \in {file, file \ {Path(j)}}
      /\ maker'[j] = "saved" => Path(j) \in file /\ file' = file
  BY MakerMoved DEF CaptureComplete, JobIInv
<1>2. TypeOK' /\ OtherTypes'
  <2>1. \A i \in Job : Path(i)' = Path(i)  BY <1>1 DEF Path
  <2>2. file' \subseteq {Path(i)' : i \in Job}  BY <1>1, <2>1 DEF JobIInv, TypeOK
  <2> QED  BY <1>1, <2>2 DEF JobIInv, TypeOK, OtherTypes
<1>3. NotYet'  BY <1>1, NotYetKept DEF JobIInv, Before
<1>4. FilesBacked'
  <2>1. CASE file' = file  BY <1>1, <2>1, FilesKept DEF JobIInv, Present
  <2>2. CASE file' = file \ {Path(j)} /\ maker'[j] = "done"
    <3> SUFFICES ASSUME NEW i \in Job, (i \in Present \/ maker[i] = "saved")', Path(i)' \notin file',
                        deleter'[i] = "idle"
                 PROVE  \E k \in Job \ {i} : Path(k)' = Path(i)' /\ maker'[k] # "idle"
      BY DEF FilesBacked, FileOf
    <3>1. \A k \in Job : Path(k)' = Path(k)  BY <1>1 DEF Path
    <3>2. i # j  BY <1>1, <2>2 DEF JobIInv, NotYet, Before, Present
    <3>3. CASE Path(i) \in file  BY <1>1, <2>2, <3>1, <3>2, <3>3
    <3>4. CASE Path(i) \notin file
      <4>1. i \in Present \/ maker[i] = "saved"  BY <1>1, <3>2 DEF Present
      <4>2. \E k \in Job \ {i} : Path(k) = Path(i) /\ maker[k] # "idle"
        BY <1>1, <3>4, <4>1 DEF JobIInv, FilesBacked, FileOf
      <4> QED  BY <1>1, <3>1, <4>2
    <3> QED  BY <3>3, <3>4
  <2> QED  BY <1>1, <2>1, <2>2
<1>5. (RunningIsHeld /\ RerunIsRequeued /\ SecondRunNeedsRequeue /\ HeldIsUnfinished)'
  BY <1>1, WritesKept DEF JobIInv
<1> QED  BY <1>2, <1>3, <1>4, <1>5 DEF JobIInv

LEMMA TriggerKeeps ==
  ASSUME JobIInv, NEW j \in Job, Trigger(j)
  PROVE  JobIInv'
<1>1. /\ maker[j] = "idle" /\ maker'[j] = "capturing" /\ \A i \in Job \ {j} : maker'[i] = maker[i]
      /\ maker' \in [Job -> {"idle", "capturing", "captured", "saved", "inserted", "stale", "done"}]
      /\ UNCHANGED <<row, captured, worker, run, deleter, seen>>
      /\ j \in captured /\ active' = active \union {j} /\ file' \in {file, file \union {Path(j)}}
  BY MakerMoved DEF Trigger, JobIInv
<1>2. TypeOK' /\ OtherTypes'  BY <1>1 DEF JobIInv, TypeOK, OtherTypes, Path
<1>3. NotYet'  BY <1>1, NotYetKept DEF JobIInv, Before
<1>4. FilesBacked'  BY <1>1, FilesKept DEF JobIInv, Present
<1>5. (RunningIsHeld /\ RerunIsRequeued /\ SecondRunNeedsRequeue /\ HeldIsUnfinished)'
  BY <1>1, WritesKept DEF JobIInv
<1> QED  BY <1>2, <1>3, <1>4, <1>5 DEF JobIInv

\* A deletion may take the file of another capture; then the two have one name.
LEMMA DeleteUnlinksKeeps ==
  ASSUME JobIInv, NEW j \in Job, DeleteUnlinks(j)
  PROVE  JobIInv'
<1>1. /\ j \in Present /\ file' = file \ {Path(j)} /\ deleter' = [deleter EXCEPT ![j] = "unlinked"]
      /\ UNCHANGED <<row, captured, maker, active, worker, run, seen>>
  BY DEF DeleteUnlinks
<1>2. TypeOK' /\ OtherTypes'  BY <1>1 DEF JobIInv, TypeOK, OtherTypes, Path
<1>3. NotYet'  BY <1>1, NotYetKept DEF JobIInv, Before
<1>4. FilesBacked'
  <2> SUFFICES ASSUME NEW i \in Job, (i \in Present \/ maker[i] = "saved")', Path(i)' \notin file',
                      deleter'[i] = "idle"
               PROVE  \E k \in Job \ {i} : Path(k)' = Path(i)' /\ maker'[k] # "idle"
    BY DEF FilesBacked, FileOf
  <2>1. \A k \in Job : Path(k)' = Path(k)  BY <1>1 DEF Path
  <2>2. maker[j] # "idle"  BY <1>1 DEF JobIInv, NotYet, Before, Present
  <2>3. i # j /\ deleter[i] = "idle"  BY <1>1 DEF JobIInv, OtherTypes
  <2>4. CASE Path(i) \in file  BY <1>1, <2>1, <2>2, <2>3, <2>4
  <2>5. CASE Path(i) \notin file  BY <1>1, <2>1, <2>3, <2>5 DEF JobIInv, FilesBacked, FileOf, Present
  <2> QED  BY <2>4, <2>5
<1>5. (RunningIsHeld /\ RerunIsRequeued /\ SecondRunNeedsRequeue /\ HeldIsUnfinished)'
  BY <1>1, WritesKept DEF JobIInv
<1> QED  BY <1>2, <1>3, <1>4, <1>5 DEF JobIInv

LEMMA DeleteCommitsKeeps ==
  ASSUME JobIInv, NEW j \in Job, DeleteCommits(j)
  PROVE  JobIInv'
<1>1. /\ row' = [row EXCEPT ![j] = NoRow] /\ seen' = [seen EXCEPT !.orphaned = @ \ {j}]
      /\ deleter' = [deleter EXCEPT ![j] = "done"] /\ deleter[j] = "unlinked"
      /\ UNCHANGED <<file, captured, maker, active, worker, run>>
  BY DEF DeleteCommits
<1>2. row' \in [Job -> RowType] /\ row'[j] = NoRow /\ \A i \in Job \ {j} : row'[i] = row[i]
  BY <1>1, RowWritten, NoRowType DEF JobIInv, TypeOK, RowType
<1>3. /\ seen'.requeued = seen.requeued /\ seen'.orphaned = seen.orphaned \ {j}
      /\ seen' \in [requeued : SUBSET Job, orphaned : SUBSET Job]
  BY <1>1 DEF JobIInv, OtherTypes
<1>4. TypeOK' /\ OtherTypes'  BY <1>1, <1>2, <1>3, SMTT(60) DEF JobIInv, TypeOK, OtherTypes, Path, RowType
<1>5. NotYet'  BY <1>1, <1>2 DEF JobIInv, NotYet
<1>6. \A i \in Job : deleter'[i] = "idle" => deleter[i] = "idle"  BY <1>1 DEF JobIInv, OtherTypes
<1>7. FilesBacked'  BY <1>1, <1>2, <1>6, FilesKept DEF JobIInv, Present
<1>8. RunningIsHeld'  BY <1>1, <1>2, <1>3, NoRowType DEF JobIInv, RunningIsHeld, Present
<1>9. RerunIsRequeued' /\ SecondRunNeedsRequeue'
  BY <1>1, <1>2, <1>3, NoRowType DEF JobIInv, RerunIsRequeued, SecondRunNeedsRequeue
<1>10. HeldIsUnfinished'
  BY <1>1, <1>2, NoRowType, ThreadParts DEF JobIInv, HeldIsUnfinished, Finished, TypeOK
<1> QED  BY <1>4, <1>5, <1>7, <1>8, <1>9, <1>10 DEF JobIInv

-----------------------------------------------------------------------------
(* The worker and its threads.                                             *)

\* Only what is pending is claimed, so that an analysis which ran before was requeued.
LEMMA ClaimKeeps ==
  ASSUME JobIInv, Claim
  PROVE  JobIInv'
<1>1. PICK j \in Oldest, k \in 1 .. MaxRuns :
        /\ \A i \in 1 .. MaxRuns : i < k <=> run[<<j, i>>].state # "none"
        /\ row' = [row EXCEPT ![j].status = "running", ![j].pct = 0, ![j].staged = TRUE]
        /\ run' = Become(<<j, k>>, "running") /\ worker' = <<j, k>>
  BY DEF Claim
<1>2. /\ worker = Nobody
      /\ UNCHANGED <<file, captured, maker, active, deleter, seen>>
  BY DEF Claim
<1> DEFINE r == [row[j] EXCEPT !.status = "running", !.pct = 0, !.staged = TRUE]
           t == [state |-> "running", next |-> 1]
<1>3. j \in Job /\ j \in Present /\ row[j].status = "pending"  BY DEF Oldest, Pending, Present
<1>4. NStages \in Nat /\ MaxRuns \in Nat  BY BoundsAssumption
<1>5. r \in RowType /\ r.status = "running"
  <2>1. row[j] \in RowType  BY <1>3 DEF JobIInv, TypeOK, RowType
  <2>2. 0 \in 0 .. NStages + 1 /\ "running" \in Status  BY <1>4 DEF Status
  <2> QED  BY <2>1, <2>2 DEF RowType
<1>6. t \in ThreadState /\ t.state = "running"  BY <1>4 DEF ThreadState
<1>7. row' = [row EXCEPT ![j] = r]  BY <1>1, <1>3 DEF JobIInv, TypeOK
<1>8. <<j, k>> \in Thread /\ run' = [run EXCEPT ![<<j, k>>] = t]  BY <1>1, <1>3, ThreadParts DEF Become
<1> HIDE DEF r, t
<1>9. row' \in [Job -> RowType] /\ row'[j] = r /\ \A i \in Job \ {j} : row'[i] = row[i]
  BY <1>3, <1>5, <1>7, RowWritten DEF JobIInv, TypeOK, RowType
<1>10. run' \in [Thread -> ThreadState] /\ run'[<<j, k>>] = t
       /\ \A i \in Thread \ {<<j, k>>} : run'[i] = run[i]
  BY <1>6, <1>8, RunWritten DEF JobIInv, TypeOK
<1>11. TypeOK' /\ OtherTypes'  BY <1>1, <1>2, <1>8, <1>9, <1>10, SMTT(60) DEF JobIInv, TypeOK, OtherTypes, Path, RowType
<1>12. maker[j] \notin Before  BY <1>3 DEF JobIInv, NotYet, Present
<1>13. \A i \in Job, l \in 1 .. MaxRuns : i # j => run'[<<i, l>>] = run[<<i, l>>]
  BY <1>10, ThreadParts
<1>14. NotYet'
  <2>1. \A i \in Job : maker'[i] \in Before => maker[i] \in Before /\ row'[i] = row[i] /\ i # j
    BY <1>2, <1>9, <1>12
  <2> QED  BY <2>1, <1>13 DEF JobIInv, NotYet
<1>15. FilesBacked'  BY <1>2, <1>3, <1>9, FilesKept DEF JobIInv, Present
<1>16. RunningIsHeld'
  <2>1. worker' # Nobody /\ worker'[1] = j  BY <1>1, <1>8, ThreadParts
  <2> QED  BY <1>2, <1>9, <2>1 DEF JobIInv, RunningIsHeld, Present
<1>17. RerunIsRequeued'
  <2> SUFFICES ASSUME NEW i \in Job, row'[i].status = "pending", run'[<<i, 1>>].state # "none"
               PROVE  i \in seen'.requeued
    BY DEF RerunIsRequeued
  <2>1. i # j  BY <1>5, <1>9
  <2>2. 1 \in 1 .. MaxRuns  BY BoundsAssumption
  <2> QED  BY <1>2, <1>9, <1>13, <2>1, <2>2 DEF JobIInv, RerunIsRequeued
<1>18. SecondRunNeedsRequeue'
  <2> SUFFICES ASSUME NEW i \in Job, run'[<<i, 2>>].state # "none", run[<<i, 2>>].state = "none"
               PROVE  i \in seen.requeued
    BY <1>2 DEF JobIInv, SecondRunNeedsRequeue
  <2>1. 1 \in 1 .. MaxRuns /\ 2 \in 1 .. MaxRuns  BY BoundsAssumption
  <2>2. i = j /\ k = 2  BY <1>10, <2>1, ThreadParts
  <2>3. run[<<j, 1>>].state # "none"  BY <1>1, <2>1, <2>2
  <2> QED  BY <1>3, <2>2, <2>3 DEF JobIInv, RerunIsRequeued
<1>19. HeldIsUnfinished'  BY <1>1, <1>5, <1>9 DEF HeldIsUnfinished, Finished
<1> QED  BY <1>11, <1>14, <1>15, <1>16, <1>17, <1>18, <1>19 DEF JobIInv

\* The worker reports and lets go; the thread is left running or forgotten.
LEMMA ReportKeeps ==
  ASSUME JobIInv, worker # Nobody, NEW status \in Finished, NEW pct \in 0 .. NStages + 1,
         WriteOutcome(status, pct),
         run' = run \/ run' = Become(worker, "gone"),
         run[worker].state # "none"
  PROVE  JobIInv'
<1> DEFINE j == worker[1]
           r == IF j \in Present THEN [row[j] EXCEPT !.status = status, !.pct = pct, !.staged = FALSE]
                ELSE row[j]
<1>1. worker \in Thread /\ j \in Job  BY ThreadParts DEF JobIInv, TypeOK
<1>2. (r \in RowType /\ r.status \notin {"pending", "running"}) \/ (r = row[j] /\ j \notin Present)
  <2>1. row[j] \in RowType  BY <1>1 DEF JobIInv, TypeOK, RowType
  <2>2. status \in Status /\ status \notin {"pending", "running"}  BY DEF Status, Finished
  <2>3. CASE j \in Present  BY <2>1, <2>2, <2>3 DEF RowType
  <2>4. CASE j \notin Present  BY <2>4
  <2> QED  BY <2>3, <2>4
<1>3. row' = [row EXCEPT ![j] = r]  BY <1>1 DEF WriteOutcome, JobIInv, TypeOK
<1>4. r \in RowType  BY <1>1, <1>2 DEF JobIInv, TypeOK, RowType
<1>5. row' \in [Job -> RowType] /\ row'[j] = r /\ \A i \in Job \ {j} : row'[i] = row[i]
  BY <1>1, <1>3, <1>4, RowWritten DEF JobIInv, TypeOK, RowType
<1>6. j \in Present' => j \in Present  BY <1>5 DEF Present
<1> HIDE DEF r
<1>7. worker' = Nobody /\ UNCHANGED <<file, captured, maker, active, deleter, seen>>
  BY DEF WriteOutcome
<1>8. /\ run' \in [Thread -> ThreadState]
      /\ \A n \in Thread : run'[n].state = "none" <=> run[n].state = "none"
  <2> DEFINE t == [state |-> "gone", next |-> 1]
  <2>1. t \in ThreadState /\ t.state # "none"  BY BoundsAssumption DEF ThreadState
  <2>2. CASE run' = run  BY <2>2 DEF JobIInv, TypeOK
  <2>3. CASE run' = Become(worker, "gone")
    <3>1. run' = [run EXCEPT ![worker] = t]  BY <2>3 DEF Become
    <3> HIDE DEF t
    <3> QED  BY <1>1, <2>1, <3>1, RunWritten DEF JobIInv, TypeOK
  <2> QED  BY <2>2, <2>3
<1>9. TypeOK' /\ OtherTypes'  BY <1>5, <1>7, <1>8 DEF JobIInv, TypeOK, OtherTypes, Path, RowType
<1>10. maker[j] \notin Before
  <2>1. worker = <<j, worker[2]>> /\ worker[2] \in 1 .. MaxRuns  BY <1>1 DEF Thread
  <2> QED  BY <1>1, <2>1 DEF JobIInv, NotYet
<1>11. NotYet'  BY <1>5, <1>7, <1>8, <1>10, ThreadParts, NotYetKept DEF JobIInv
<1>12. FilesBacked'  BY <1>5, <1>6, <1>7, FilesKept DEF JobIInv, Present
<1>13. RunningIsHeld'
  BY <1>1, <1>2, <1>5, <1>6, <1>7 DEF JobIInv, RunningIsHeld, Present
<1>14. RerunIsRequeued' /\ SecondRunNeedsRequeue'
  <2>1. \A i \in Job : row'[i].status = "pending" => row[i].status = "pending"
    BY <1>2, <1>5
  <2> QED  BY <1>7, <1>8, <2>1, ThreadParts DEF JobIInv, RerunIsRequeued, SecondRunNeedsRequeue
<1>15. HeldIsUnfinished'  BY <1>7 DEF HeldIsUnfinished
<1> QED  BY <1>9, <1>11, <1>12, <1>13, <1>14, <1>15 DEF JobIInv

LEMMA JoinKeeps ==
  ASSUME JobIInv, JoinTimesOut \/ JoinError \/ JoinResult
  PROVE  JobIInv'
<1>1. NStages + 1 \in 0 .. NStages + 1  BY BoundsAssumption
<1>2. CASE JoinTimesOut
  <2>1. worker \in Thread /\ worker # Nobody /\ worker[1] \in Job /\ run[worker].state # "none"
    BY <1>2, ThreadParts DEF JoinTimesOut, Alive
  <2>2. row[worker[1]].pct \in 0 .. NStages + 1  BY <2>1 DEF JobIInv, TypeOK
  <2> QED  BY <1>2, <2>1, <2>2, ReportKeeps DEF JoinTimesOut, Finished
<1>3. CASE JoinError
  <2>1. worker # Nobody /\ worker[1] \in Job /\ run[worker].state = "error"
    BY <1>3, ThreadParts DEF JoinError, JobIInv, TypeOK
  <2>2. row[worker[1]].pct \in 0 .. NStages + 1  BY <2>1 DEF JobIInv, TypeOK
  <2> QED  BY <1>3, <2>1, <2>2, ReportKeeps DEF JoinError, Finished
<1>4. CASE JoinResult  BY <1>1, <1>4, ReportKeeps DEF JoinResult, Finished
<1> QED  BY <1>2, <1>3, <1>4

\* A claim that is lost after its commit leaves the row running; it is recorded as orphaned.
LEMMA ClaimIsLostKeeps ==
  ASSUME JobIInv, ClaimIsLost
  PROVE  JobIInv'
<1>1. PICK j \in Oldest :
        /\ row' = [row EXCEPT ![j].status = "running", ![j].pct = 0, ![j].staged = TRUE]
        /\ seen' = [seen EXCEPT !.orphaned = @ \union {j}]
  BY DEF ClaimIsLost
<1>2. worker = Nobody /\ UNCHANGED <<file, captured, maker, active, worker, run, deleter>>
  BY DEF ClaimIsLost
<1> DEFINE r == [row[j] EXCEPT !.status = "running", !.pct = 0, !.staged = TRUE]
<1>3. j \in Job /\ j \in Present /\ row[j].status = "pending"  BY DEF Oldest, Pending, Present
<1>4. r \in RowType /\ r.status = "running"
  <2>1. row[j] \in RowType  BY <1>3 DEF JobIInv, TypeOK, RowType
  <2>2. 0 \in 0 .. NStages + 1 /\ "running" \in Status  BY BoundsAssumption DEF Status
  <2> QED  BY <2>1, <2>2 DEF RowType
<1>5. row' = [row EXCEPT ![j] = r]  BY <1>1, <1>3 DEF JobIInv, TypeOK
<1> HIDE DEF r
<1>6. row' \in [Job -> RowType] /\ row'[j] = r /\ \A i \in Job \ {j} : row'[i] = row[i]
  BY <1>3, <1>4, <1>5, RowWritten DEF JobIInv, TypeOK, RowType
<1>7. /\ seen'.requeued = seen.requeued /\ seen'.orphaned = seen.orphaned \union {j}
      /\ seen' \in [requeued : SUBSET Job, orphaned : SUBSET Job]
  BY <1>1, <1>3 DEF JobIInv, OtherTypes
<1>8. TypeOK' /\ OtherTypes'  BY <1>2, <1>6, <1>7, SMTT(60) DEF JobIInv, TypeOK, OtherTypes, Path, RowType
<1>9. maker[j] \notin Before  BY <1>3 DEF JobIInv, NotYet, Present
<1>10. NotYet'  BY <1>2, <1>6, <1>9, NotYetKept DEF JobIInv
<1>11. FilesBacked'  BY <1>2, <1>3, <1>6, FilesKept DEF JobIInv, Present
<1>12. RunningIsHeld'  BY <1>2, <1>6, <1>7 DEF JobIInv, RunningIsHeld, Present
<1>13. RerunIsRequeued' /\ SecondRunNeedsRequeue'
  BY <1>2, <1>4, <1>6, <1>7 DEF JobIInv, RerunIsRequeued, SecondRunNeedsRequeue
<1>14. HeldIsUnfinished'  BY <1>2 DEF HeldIsUnfinished
<1> QED  BY <1>8, <1>10, <1>11, <1>12, <1>13, <1>14 DEF JobIInv

\* An outcome that is lost leaves the row as it is, orphaned if it says "running".
LEMMA OutcomeIsLostKeeps ==
  ASSUME JobIInv, OutcomeIsLost
  PROVE  JobIInv'
<1> DEFINE O == {i \in {worker[1]} \intersect Present : row[i].status = "running"}
           t == [state |-> "gone", next |-> 1]
<1>1. /\ worker # Nobody /\ worker' = Nobody /\ seen' = [seen EXCEPT !.orphaned = @ \union O]
      /\ UNCHANGED <<row, file, captured, maker, active, deleter>>
      /\ \/ run' = run
         \/ run[worker].state \in {"error", "result"} /\ run' = [run EXCEPT ![worker] = t]
  BY DEF OutcomeIsLost, Orphan, Become
<1>2. worker \in Thread /\ worker[1] \in Job  BY <1>1, ThreadParts DEF JobIInv, TypeOK
<1>3. /\ seen'.requeued = seen.requeued /\ seen'.orphaned = seen.orphaned \union O
      /\ seen' \in [requeued : SUBSET Job, orphaned : SUBSET Job]
  BY <1>1, <1>2 DEF JobIInv, OtherTypes
<1>4. t \in ThreadState /\ t.state # "none"  BY BoundsAssumption DEF ThreadState
<1> HIDE DEF t
<1>5. /\ run' \in [Thread -> ThreadState]
      /\ \A n \in Thread : run'[n].state = "none" <=> run[n].state = "none"
  BY <1>1, <1>2, <1>4, RunWritten DEF JobIInv, TypeOK
<1>6. TypeOK' /\ OtherTypes'  BY <1>1, <1>3, <1>5 DEF JobIInv, TypeOK, OtherTypes, Path
<1>7. NotYet'  BY <1>1, <1>5, ThreadParts, NotYetKept DEF JobIInv
<1>8. FilesBacked'  BY <1>1, FilesKept DEF JobIInv, Present
<1>9. RunningIsHeld'  BY <1>1, <1>2, <1>3 DEF JobIInv, RunningIsHeld, Present
<1>10. RerunIsRequeued' /\ SecondRunNeedsRequeue'
  BY <1>1, <1>3, <1>5, ThreadParts DEF JobIInv, RerunIsRequeued, SecondRunNeedsRequeue
<1>11. HeldIsUnfinished'  BY <1>1 DEF HeldIsUnfinished
<1> QED  BY <1>6, <1>7, <1>8, <1>9, <1>10, <1>11 DEF JobIInv

LEMMA ProgressKeeps ==
  ASSUME JobIInv, NEW n \in Thread, Progress(n)
  PROVE  JobIInv'
<1> DEFINE j == n[1]
           w == [row[j] EXCEPT !.staged = TRUE, !.pct = run[n].next]
           t == [run[n] EXCEPT !.next = @ + 1]
<1>1. /\ run[n].state = "running" /\ run[n].next <= NStages
      /\ UNCHANGED <<file, captured, maker, active, worker, deleter, seen>>
  BY DEF Progress, Alive
<1>2. j \in Job /\ row[j] \in RowType /\ run[n] \in ThreadState
  BY ThreadParts DEF JobIInv, TypeOK, RowType
<1>3. NStages \in Nat  BY BoundsAssumption
<1>4. run[n].next \in 0 .. NStages + 1 /\ run[n].next + 1 \in 1 .. NStages + 1
  BY <1>1, <1>2, <1>3 DEF ThreadState
<1>5. w \in RowType /\ w.status = row[j].status  BY <1>2, <1>4 DEF RowType
<1>6. t \in ThreadState /\ t.state = "running"  BY <1>1, <1>2, <1>4 DEF ThreadState
<1>7. \/ j \in Present /\ row' = [row EXCEPT ![j] = w]
      \/ row' = [row EXCEPT ![j] = row[j]]
  BY <1>2 DEF Progress, JobIInv, TypeOK
<1>8. run' = [run EXCEPT ![n] = t]  BY DEF Progress
<1> HIDE DEF w, t
<1>9. PICK r \in RowType :
        row' = [row EXCEPT ![j] = r] /\ r.status = row[j].status /\ (j \in Present \/ r = row[j])
  BY <1>2, <1>5, <1>7
<1>10. row' \in [Job -> RowType] /\ row'[j] = r /\ \A i \in Job \ {j} : row'[i] = row[i]
  BY <1>2, <1>9, RowWritten DEF JobIInv, TypeOK, RowType
<1>11. run' \in [Thread -> ThreadState] /\ run'[n] = t /\ \A i \in Thread \ {n} : run'[i] = run[i]
  BY <1>6, <1>8, RunWritten DEF JobIInv, TypeOK
<1>12. TypeOK' /\ OtherTypes'  BY <1>1, <1>10, <1>11 DEF JobIInv, TypeOK, OtherTypes, Path, RowType
<1>13. \A i \in Job : row'[i].status = row[i].status  BY <1>9, <1>10
<1>14. \A i \in Thread : run'[i].state = run[i].state  BY <1>1, <1>6, <1>11
<1>15. Present' \subseteq Present  BY <1>9, <1>10 DEF Present
<1>16. maker[j] \notin Before
  <2>1. n = <<j, n[2]>> /\ n[2] \in 1 .. MaxRuns  BY DEF Thread
  <2> QED  BY <1>1, <1>2, <2>1 DEF JobIInv, NotYet
<1>17. NotYet'  BY <1>1, <1>10, <1>14, <1>16, ThreadParts, NotYetKept DEF JobIInv
<1>18. FilesBacked'  BY <1>1, <1>15, FilesKept DEF JobIInv
<1>19. RunningIsHeld'  BY <1>1, <1>13, <1>15 DEF JobIInv, RunningIsHeld, Present
<1>20. RerunIsRequeued' /\ SecondRunNeedsRequeue'
  BY <1>1, <1>13, <1>14, ThreadParts DEF JobIInv, RerunIsRequeued, SecondRunNeedsRequeue
<1>21. HeldIsUnfinished'
  <2>1. worker # Nobody => worker[1] \in Job  BY ThreadParts DEF JobIInv, TypeOK
  <2> QED  BY <1>1, <1>13, <2>1 DEF JobIInv, HeldIsUnfinished
<1> QED  BY <1>12, <1>17, <1>18, <1>19, <1>20, <1>21 DEF JobIInv

LEMMA PipelineEndsKeeps ==
  ASSUME JobIInv, NEW n \in Thread, PipelineEnds(n)
  PROVE  JobIInv'
<1>1. /\ run[n].state = "running"
      /\ UNCHANGED <<row, file, captured, maker, active, worker, deleter, seen>>
      /\ \E s \in {"error", "result", "gone"} : run' = [run EXCEPT ![n] = [state |-> s, next |-> 1]]
  BY DEF PipelineEnds, Alive, Become
<1>2. PICK s \in {"error", "result", "gone"} : run' = [run EXCEPT ![n] = [state |-> s, next |-> 1]]
  BY <1>1
<1>3. [state |-> s, next |-> 1] \in ThreadState  BY BoundsAssumption DEF ThreadState
<1>4. run' \in [Thread -> ThreadState] /\ run'[n].state # "none" /\ \A i \in Thread \ {n} : run'[i] = run[i]
  BY <1>2, <1>3, RunWritten DEF JobIInv, TypeOK
<1>5. \A i \in Thread : run'[i].state = "none" <=> run[i].state = "none"  BY <1>1, <1>4
<1>6. TypeOK' /\ OtherTypes'  BY <1>1, <1>4 DEF JobIInv, TypeOK, OtherTypes, Path
<1>7. NotYet'  BY <1>1, <1>5, ThreadParts, NotYetKept DEF JobIInv
<1>8. FilesBacked'  BY <1>1, FilesKept DEF JobIInv, Present
<1>9. RunningIsHeld' /\ HeldIsUnfinished'  BY <1>1 DEF JobIInv, RunningIsHeld, HeldIsUnfinished, Present
<1>10. RerunIsRequeued' /\ SecondRunNeedsRequeue'
  BY <1>1, <1>5, ThreadParts DEF JobIInv, RerunIsRequeued, SecondRunNeedsRequeue
<1> QED  BY <1>6, <1>7, <1>8, <1>9, <1>10 DEF JobIInv

\* What runs when the process dies is recorded as orphaned; rows and files stay.
LEMMA CrashKeeps ==
  ASSUME JobIInv, Crash
  PROVE  JobIInv'
<1>1. /\ maker' = [j \in Job |-> IF maker[j] = "idle" THEN maker[j] ELSE "done"]
      /\ run' = [n \in Thread |-> IF run[n].state = "none" THEN run[n]
                                  ELSE [state |-> "gone", next |-> 1]]
      /\ deleter' = [j \in Job |-> IF deleter[j] = "unlinked" THEN "done" ELSE deleter[j]]
      /\ seen' = [seen EXCEPT !.orphaned = @ \union {j \in Present : row[j].status = "running"}]
      /\ active' = {} /\ worker' = Nobody /\ UNCHANGED <<row, file, captured>>
  BY DEF Crash, Orphan, Present
<1>2. [state |-> "gone", next |-> 1] \in ThreadState  BY BoundsAssumption DEF ThreadState
<1>3. /\ run' \in [Thread -> ThreadState]
      /\ \A n \in Thread : run'[n].state = "none" <=> run[n].state = "none"
  BY <1>1, <1>2 DEF JobIInv, TypeOK
<1>4. /\ seen'.requeued = seen.requeued
      /\ seen'.orphaned = seen.orphaned \union {j \in Present : row[j].status = "running"}
      /\ seen' \in [requeued : SUBSET Job, orphaned : SUBSET Job]
  BY <1>1 DEF JobIInv, OtherTypes, Present
<1>5. TypeOK' /\ OtherTypes'  BY <1>1, <1>3, <1>4 DEF JobIInv, TypeOK, OtherTypes, Path
<1>6. \A j \in Job : /\ maker'[j] \in Before => maker[j] \in Before
                     /\ maker'[j] # "saved" /\ (maker[j] # "idle" => maker'[j] # "idle")
                     /\ deleter'[j] = "idle" => deleter[j] = "idle"
  BY <1>1 DEF Before
<1>7. NotYet'  BY <1>1, <1>3, <1>6, ThreadParts, NotYetKept DEF JobIInv
<1>8. FilesBacked'  BY <1>1, <1>6, FilesKept DEF JobIInv, Present
<1>9. RunningIsHeld' /\ HeldIsUnfinished'  BY <1>1, <1>4 DEF RunningIsHeld, HeldIsUnfinished, Present
<1>10. RerunIsRequeued' /\ SecondRunNeedsRequeue'
  BY <1>1, <1>3, <1>4, ThreadParts DEF JobIInv, RerunIsRequeued, SecondRunNeedsRequeue
<1> QED  BY <1>5, <1>7, <1>8, <1>9, <1>10 DEF JobIInv

-----------------------------------------------------------------------------
(* The invariant, and what it shows.                                       *)

LEMMA InitIInv ==
  ASSUME JobInit  PROVE JobIInv
<1>1. NoRow \in RowType /\ [state |-> "none", next |-> 1] \in ThreadState
  BY NoRowType, BoundsAssumption DEF ThreadState
<1>2. \A j \in Job : row[j] = NoRow /\ row[j].status = "none" /\ maker[j] = "idle"
  BY NoRowType DEF JobInit
<1>3. \A n \in Thread : run[n].state = "none"  BY DEF JobInit
<1>4. captured \subseteq Job  BY JobAssumption DEF JobInit
<1>5. TypeOK /\ OtherTypes  BY <1>1, <1>4 DEF JobInit, TypeOK, OtherTypes, RowType
<1>6. NotYet /\ RerunIsRequeued /\ SecondRunNeedsRequeue /\ HeldIsUnfinished
  BY <1>2, <1>3, ThreadParts DEF JobInit, NotYet, RerunIsRequeued, SecondRunNeedsRequeue, HeldIsUnfinished
<1>7. FilesBacked /\ RunningIsHeld  BY <1>2 DEF FilesBacked, FileOf, RunningIsHeld, Present
<1> QED  BY <1>5, <1>6, <1>7 DEF JobIInv

LEMMA NextIInv ==
  ASSUME JobIInv, [JobNext]_jobVars
  PROVE  JobIInv'
<1>1. CASE UNCHANGED jobVars
  BY <1>1
  DEF jobVars, JobIInv, TypeOK, OtherTypes, NotYet, RerunIsRequeued, HeldIsUnfinished, FilesBacked, FileOf,
      RunningIsHeld, SecondRunNeedsRequeue, Present, Path
<1>2. ASSUME NEW j \in Job, Make(j) \/ Trigger(j) \/ DeleteUnlinks(j) \/ DeleteCommits(j)
      PROVE  JobIInv'
  BY <1>2, SaveUploadKeeps, InsertKeeps, EnqueueReadsKeeps, EnqueueWritesKeeps, CaptureEndsKeeps,
     CaptureCompleteKeeps, TriggerKeeps, DeleteUnlinksKeeps, DeleteCommitsKeeps
  DEF Make
<1>3. CASE Work  BY <1>3, ClaimKeeps, JoinKeeps DEF Work
<1>4. ASSUME NEW n \in Thread, RunStep(n)  PROVE JobIInv'
  BY <1>4, ProgressKeeps, PipelineEndsKeeps DEF RunStep
<1>5. CASE Crash \/ ClaimIsLost \/ OutcomeIsLost
  BY <1>5, CrashKeeps, ClaimIsLostKeeps, OutcomeIsLostKeeps
<1> QED  BY <1>1, <1>2, <1>3, <1>4, <1>5 DEF JobNext

LEMMA QueueInductive == JobSpec => []JobIInv
<1>1. JobInit => JobIInv  BY InitIInv
<1>2. JobIInv /\ [JobNext]_jobVars => JobIInv'  BY NextIInv
<1> QED  BY <1>1, <1>2, PTL DEF JobSpec

\* At every moment: what says "running" is held by the worker or was orphaned by a crash or
\* by an exception of the worker, a second run of an analysis needs a late enqueue(), and
\* the file of an analysis is there unless a capture shares its name. For any number of
\* analyses, runs and faults.
THEOREM RowsRunsFiles == JobSpec => []RowRunAndFileAgree
<1>1. JobIInv => RowRunAndFileAgree
  <2>1. JobIInv => FileGoneNeedsTwin  BY DEF JobIInv, FilesBacked, FileOf, FileGoneNeedsTwin, Present
  <2> QED  BY <2>1 DEF JobIInv, RowRunAndFileAgree
<1> QED  BY <1>1, QueueInductive, PTL

\* What a finished analysis shows stays until it is deleted or enqueued late; a thread that
\* was given up moves its progress only.
THEOREM FinishedRowsStay == JobSpec => FinishedStays
<1> DEFINE A == \A j \in Job : row[j].status \in Finished /\ row'[j] # row[j]
                  => \/ row'[j] = NoRow
                     \/ maker[j] = "stale" /\ row'[j].status = "pending"
                     \/ GivenUp(j) /\ row'[j].status = row[j].status
<1>1. ASSUME JobIInv, [JobNext]_jobVars  PROVE A
  <2> SUFFICES ASSUME NEW j \in Job, row[j].status \in Finished, row'[j] # row[j]
               PROVE  \/ row'[j] = NoRow
                      \/ maker[j] = "stale" /\ row'[j].status = "pending"
                      \/ GivenUp(j) /\ row'[j].status = row[j].status
    OBVIOUS
  <2>1. row \in [Job -> RowType]  BY <1>1 DEF JobIInv, TypeOK, RowType
  <2>2. worker # Nobody => worker \in Thread /\ worker[1] \in Job /\ worker[1] # j
    BY <1>1, ThreadParts DEF JobIInv, TypeOK, HeldIsUnfinished
  <2>3. ASSUME NEW i \in Job, Insert(i)  PROVE FALSE
    <3>1. row[i] = NoRow  BY <1>1, <2>3 DEF Insert, JobIInv, NotYet, Before
    <3> QED  BY <2>1, <2>3, <3>1, NoRowType DEF Insert, Finished
  <2>4. ASSUME NEW i \in Job, EnqueueWrites(i)
        PROVE  maker[j] = "stale" /\ row'[j].status = "pending"
    BY <2>1, <2>4 DEF EnqueueWrites, RowType
  <2>5. ASSUME NEW i \in Job, DeleteCommits(i)  PROVE row'[j] = NoRow
    BY <2>1, <2>5 DEF DeleteCommits
  <2>6. ~Claim /\ ~ClaimIsLost
    BY <2>1 DEF Claim, ClaimIsLost, Oldest, Pending, Present, Finished
  <2>7. ~(JoinTimesOut \/ JoinError \/ JoinResult)
    <3>1. JoinTimesOut => worker # Nobody  BY ThreadParts DEF JoinTimesOut, Alive
    <3> QED  BY <2>1, <2>2, <3>1 DEF JoinTimesOut, JoinError, JoinResult, WriteOutcome
  <2>8. ASSUME NEW n \in Thread, Progress(n)
        PROVE  GivenUp(j) /\ row'[j].status = row[j].status
    <3>1. n[1] = j /\ n \in Alive /\ worker # n
      BY <2>1, <2>2, <2>8, ThreadParts DEF Progress
    <3> QED  BY <2>1, <2>8, <3>1 DEF Progress, GivenUp, RowType
  <2> QED
    BY <1>1, <2>3, <2>4, <2>5, <2>6, <2>7, <2>8
    DEF JobNext, jobVars, Make, Work, RunStep, SaveUpload, EnqueueReads, CaptureEnds, CaptureComplete, Trigger,
        DeleteUnlinks, PipelineEnds, OutcomeIsLost, Crash
<1> HIDE DEF A
<1>2. JobSpec => [][A]_jobVars  BY <1>1, QueueInductive, PTL DEF JobSpec
<1> QED  BY <1>2 DEF A, FinishedStays

-----------------------------------------------------------------------------
(* Lists: sequences of whatever they hold.                                 *)

IsList(s) == s \in Seq(Range(s))

LEMMA LeastNumber ==
  ASSUME NEW S \in SUBSET Nat, NEW m \in S
  PROVE  \E k \in S : \A j \in S : k <= j
<1>1. IsWellFoundedOn(OpToRel(<, Nat), Nat)  BY NatLessThanWellFounded
<1>2. PICK k \in S : \A j \in S : <<j, k>> \notin OpToRel(<, Nat)  BY <1>1, WFMin
<1>3. \A j \in S : ~(j < k)  BY <1>2 DEF OpToRel
<1> QED  BY <1>3

LEMMA ListFacts ==
  ASSUME NEW s, IsList(s)
  PROVE  Len(s) \in Nat /\ DOMAIN s = 1..Len(s)
BY DEF IsList

\* A function on the first naturals is a list.
LEMMA ListOf ==
  ASSUME NEW n \in Nat, NEW s, DOMAIN s = 1..n, s = [i \in 1..n |-> s[i]]
  PROVE  IsList(s) /\ Len(s) = n
<1>1. \A i \in 1..n : s[i] \in Range(s)  BY DEF Range
<1>2. s \in [1..n -> Range(s)]  BY <1>1
<1> QED  BY <1>2 DEF IsList

LEMMA EmptyList == IsList(<<>>) /\ Len(<<>>) = 0 /\ DOMAIN <<>> = {}
BY DEF IsList

LEMMA ListAppend ==
  ASSUME NEW s, IsList(s), NEW e
  PROVE  /\ IsList(Append(s, e)) /\ DOMAIN Append(s, e) = 1..(Len(s) + 1)
         /\ Append(s, e)[Len(s) + 1] = e
         /\ \A i \in DOMAIN s : Append(s, e)[i] = s[i]
<1> DEFINE S == Range(s) \cup {e}
           a == Append(s, e)
<1>1. s \in Seq(S)  BY DEF IsList, Range
<1>2. a \in Seq(S) /\ Len(a) = Len(s) + 1 /\ Len(s) \in Nat  BY <1>1
<1>3. DOMAIN a = 1..(Len(s) + 1) /\ a = [i \in 1..(Len(s) + 1) |-> a[i]]
  <2> HIDE DEF a
  <2> QED  BY <1>2
<1>4. a[Len(s) + 1] = e /\ \A i \in DOMAIN s : a[i] = s[i]  BY <1>1
<1>5. IsList(a)
  <2> HIDE DEF a
  <2> QED  BY <1>2, <1>3, ListOf
<1> QED  BY <1>3, <1>4, <1>5

LEMMA ListReplace ==
  ASSUME NEW s, IsList(s), NEW k \in DOMAIN s, NEW e
  PROVE  /\ IsList(ReplaceAt(s, k, e)) /\ DOMAIN ReplaceAt(s, k, e) = DOMAIN s
         /\ \A i \in DOMAIN s : ReplaceAt(s, k, e)[i] = IF i = k THEN e ELSE s[i]
<1> DEFINE a == ReplaceAt(s, k, e)
<1>1. s = [i \in 1..Len(s) |-> s[i]] /\ DOMAIN s = 1..Len(s) /\ Len(s) \in Nat  BY DEF IsList
<1>2. DOMAIN a = DOMAIN s /\ \A i \in DOMAIN s : a[i] = IF i = k THEN e ELSE s[i]  BY <1>1 DEF ReplaceAt
<1>3. a = [i \in 1..Len(s) |-> a[i]]  BY <1>1 DEF ReplaceAt
<1>4. IsList(a)
  <2>1. DOMAIN a = 1..Len(s)  BY <1>1, <1>2
  <2> HIDE DEF a
  <2> QED  BY <1>1, <1>3, <2>1, ListOf
<1> QED  BY <1>2, <1>4

LEMMA Joined ==
  ASSUME NEW S, NEW a \in Seq(S), NEW b \in Seq(S)
  PROVE  /\ a \o b \in Seq(S) /\ Len(a \o b) = Len(a) + Len(b)
         /\ \A i \in 1..Len(a) : (a \o b)[i] = a[i]
         /\ \A i \in Len(a) + 1..Len(a) + Len(b) : (a \o b)[i] = b[i - Len(a)]
OBVIOUS

\* What is left moves up.
LEMMA ListRemove ==
  ASSUME NEW s, IsList(s), NEW k \in DOMAIN s
  PROVE  /\ IsList(RemoveAt(s, k)) /\ DOMAIN RemoveAt(s, k) = 1..(Len(s) - 1)
         /\ \A i \in 1..(Len(s) - 1) : RemoveAt(s, k)[i] = IF i < k THEN s[i] ELSE s[i + 1]
<1> DEFINE S == Range(s)
           front == SubSeq(s, 1, k - 1)
           back == SubSeq(s, k + 1, Len(s))
           a == RemoveAt(s, k)
<1>1. s \in Seq(S) /\ Len(s) \in Nat /\ DOMAIN s = 1..Len(s)  BY DEF IsList
<1>2. front \in Seq(S) /\ Len(front) = k - 1 /\ \A i \in 1..(k - 1) : front[i] = s[i]  BY <1>1
<1>3. back \in Seq(S) /\ Len(back) = Len(s) - k /\ \A i \in 1..(Len(s) - k) : back[i] = s[k + i]  BY <1>1
<1>4. a = front \o back  BY DEF RemoveAt
<1>5. a \in Seq(S) /\ Len(a) = Len(front) + Len(back)  BY <1>2, <1>3, <1>4, Joined
<1>6. Len(a) = Len(s) - 1  BY <1>1, <1>2, <1>3, <1>5
<1>7. DOMAIN a = 1..(Len(s) - 1) /\ a = [i \in 1..(Len(s) - 1) |-> a[i]]
  <2> HIDE DEF a
  <2> QED  BY <1>5, <1>6
<1>8. \A i \in 1..(Len(s) - 1) : a[i] = IF i < k THEN s[i] ELSE s[i + 1]
  <2> HIDE DEF front, back, S
  <2> SUFFICES ASSUME NEW i \in 1..(Len(s) - 1)  PROVE a[i] = IF i < k THEN s[i] ELSE s[i + 1]
    OBVIOUS
  <2>1. CASE i < k
    <3>1. i \in 1..Len(front)  BY <1>1, <1>2, <2>1
    <3>2. a[i] = front[i]  BY <1>2, <1>3, <1>4, <3>1, Joined
    <3> QED  BY <3>2, <1>1, <1>2, <2>1
  <2>2. CASE ~(i < k)
    <3>1. i \in Len(front) + 1..Len(front) + Len(back)  BY <1>1, <1>2, <1>3, <2>2
    <3>2. \A j \in Len(front) + 1..Len(front) + Len(back) : (front \o back)[j] = back[j - Len(front)]
      BY <1>2, <1>3, Joined
    <3>4. a[i] = back[i - Len(front)]  BY <1>4, <3>1, <3>2
    <3>3. i - (k - 1) \in 1..(Len(s) - k) /\ k + (i - (k - 1)) = i + 1  BY <1>1, <2>2
    <3> QED  BY <3>4, <3>3, <1>2, <1>3, <2>2
  <2> QED  BY <2>1, <2>2
<1>9. IsList(a)
  <2>1. Len(s) - 1 \in Nat  BY <1>1
  <2> HIDE DEF a
  <2> QED  BY <1>7, <2>1, ListOf
<1> QED  BY <1>7, <1>8, <1>9


-----------------------------------------------------------------------------
(* The inductive invariant. An exchange list x pairs questions numbered in *)
(* Q with answers numbered in A.                                           *)

Carrying(ps, kind) == {ps[i].num : i \in {j \in DOMAIN ps : ps[j].app.kind = kind}}

\* Every pending exchange was asked and not answered, every other was answered after it was
\* asked, if at all, and no number is used twice.
PendingSound(x, Q) ==
  /\ IsList(x.pending)
  /\ \A i \in DOMAIN x.pending : x.pending[i].asked \in Q /\ x.pending[i].answered = 0
  /\ \A i, j \in DOMAIN x.pending : i # j => x.pending[i].asked # x.pending[j].asked
DoneSound(x, Q, A) ==
  /\ IsList(x.done)
  /\ \A i \in DOMAIN x.done :
       /\ x.done[i].answered \in A
       /\ x.done[i].asked # 0 => x.done[i].asked \in Q /\ x.done[i].asked < x.done[i].answered
  /\ \A i, j \in DOMAIN x.done : i # j =>
       /\ x.done[i].answered # x.done[j].answered
       /\ x.done[i].asked # 0 => x.done[i].asked # x.done[j].asked
Apart(x) == \A i \in DOMAIN x.pending, j \in DOMAIN x.done : x.pending[i].asked # x.done[j].asked
Paired(x, Q, A) ==
  /\ x = [pending |-> x.pending, done |-> x.done]
  /\ PendingSound(x, Q) /\ DoneSound(x, Q, A) /\ Apart(x)

\* The exchanges of a list.
Held(x) == Range(x.pending) \cup Range(x.done)

PacketsSound ==
  /\ lines = [raw |-> lines.raw, malformed |-> lines.malformed, essential |-> lines.essential]
  /\ lines.raw \in Nat
  /\ IsList(packets)
  /\ \A i \in DOMAIN packets :
       /\ packets[i].num \in 1..lines.raw
       /\ packets[i].app.kind = "dns_query" =>
            packets[i].app = [kind |-> "dns_query", txid |-> packets[i].app.txid, name |-> packets[i].app.name]
  /\ \A i, j \in DOMAIN packets : i < j => packets[i].num < packets[j].num

IsDns(t) ==
  t = [txid |-> t.txid, name |-> t.name, client |-> t.client, server |-> t.server, asked |-> t.asked, at |-> t.at,
       answered |-> t.answered, rcode |-> t.rcode, rtt |-> t.rtt]
IsHttp(t) ==
  t = [stream |-> t.stream, n |-> t.n, client |-> t.client, server |-> t.server, port |-> t.port, asked |-> t.asked,
       at |-> t.at, what |-> t.what, answered |-> t.answered, code |-> t.code, latency |-> t.latency]
IsTls(t) ==
  t = [stream |-> t.stream, client |-> t.client, server |-> t.server, asked |-> t.asked, at |-> t.at,
       offered |-> t.offered, ja3 |-> t.ja3, version |-> t.version, answered |-> t.answered, alert |-> t.alert]

\* A DNS exchange is what its packets say.
AskedBy(t, p) == p.app.txid = t.txid /\ p.app.name = t.name /\ p.src = t.client /\ p.dst = t.server
AnsweredBy(t, p) == p.src = t.server /\ p.dst = t.client
DnsOf(x, ps) ==
  \A t \in Held(x) :
    /\ IsDns(t)
    /\ \A i \in DOMAIN ps : /\ ps[i].num = t.asked => AskedBy(t, ps[i])
                            /\ ps[i].num = t.answered => AnsweredBy(t, ps[i])
    /\ t.asked # 0
\* Of equal questions the last one is listed.
Repeats(p, q) == q.app = p.app /\ q.src = p.src /\ q.dst = p.dst
DnsListed(x, ps) ==
  \A i \in DOMAIN ps : ps[i].app.kind = "dns_query" =>
    \/ \E t \in Held(x) : t.asked = ps[i].num
    \/ \E j \in DOMAIN ps : j > i /\ Repeats(ps[i], ps[j])

DnsSound ==
  /\ Paired(dns, Carrying(packets, "dns_query"), Carrying(packets, "dns_response"))
  /\ DnsOf(dns, packets) /\ DnsListed(dns, packets)
HttpSound ==
  /\ Paired(http, Carrying(packets, "http_request"), Carrying(packets, "http_response"))
  /\ \A t \in Held(http) : IsHttp(t)
TlsSound ==
  /\ Paired(tls, Carrying(packets, "client_hello"), Carrying(packets, "server_hello"))
  /\ \A t \in Held(tls) : IsTls(t)

IInv == PacketsSound /\ DnsSound /\ HttpSound /\ TlsSound


-----------------------------------------------------------------------------
(* What a step does to a list of exchanges.                                *)

LEMMA PairedMore ==
  ASSUME NEW x, NEW Q, NEW A, Paired(x, Q, A), NEW Q2, NEW A2, Q \subseteq Q2, A \subseteq A2
  PROVE  Paired(x, Q2, A2)
BY DEF Paired, PendingSound, DoneSound

Fresh(n, Q, A) == n \in Nat \ {0} /\ \A m \in Q \cup A : m \in Nat \ {0} /\ m < n
Asks(x, tx, y) ==
  \/ y = [x EXCEPT !.pending = Append(x.pending, tx)]
  \/ \E k \in DOMAIN x.pending : y = [x EXCEPT !.pending = ReplaceAt(x.pending, k, tx)]
Answers(x, k, tx, y) ==
  y = [pending |-> RemoveAt(x.pending, k), done |-> Append(x.done, tx)] /\ tx.asked = x.pending[k].asked
Adds(x, tx, y) == y = [x EXCEPT !.done = Append(x.done, tx)] /\ tx.asked = 0

\* A question is pending from now on, in the place of another or after all of them.
LEMMA PairedAsk ==
  ASSUME NEW x, NEW Q, NEW A, Paired(x, Q, A),
         NEW tx, Fresh(tx.asked, Q, A), tx.answered = 0, NEW y, Asks(x, tx, y)
  PROVE  Paired(y, Q \cup {tx.asked}, A) /\ Held(y) \subseteq Held(x) \cup {tx} /\ tx \in Held(y)
<1> DEFINE n == tx.asked
<1>8. n \in Nat \ {0} /\ \A m \in Q \cup A : m \in Nat \ {0} /\ m < n  BY DEF Fresh
<1> HIDE DEF n
<1>1. x = [pending |-> x.pending, done |-> x.done] /\ IsList(x.pending)  BY DEF Paired, PendingSound
<1>2. y = [pending |-> y.pending, done |-> y.done] /\ y.done = x.done  BY <1>1 DEF Asks
<1>3. /\ IsList(y.pending)
      /\ \A i \in DOMAIN y.pending : y.pending[i] = tx \/ (i \in DOMAIN x.pending /\ y.pending[i] = x.pending[i])
      /\ \E i \in DOMAIN y.pending : y.pending[i] = tx
      /\ \A i, j \in DOMAIN y.pending : y.pending[i] = tx /\ y.pending[j] = tx => i = j
  <2>1. \A i \in DOMAIN x.pending : x.pending[i] # tx
    <3>1. \A i \in DOMAIN x.pending : x.pending[i].asked \in Q  BY DEF Paired, PendingSound
    <3> QED  BY <1>8, <3>1 DEF n
  <2>2. CASE y = [x EXCEPT !.pending = Append(x.pending, tx)]
    <3>1. y.pending = Append(x.pending, tx)  BY <1>1, <2>2
    <3>2. DOMAIN x.pending = 1..Len(x.pending) /\ Len(x.pending) \in Nat  BY <1>1, ListFacts
    <3> QED  BY <1>1, <2>1, <3>1, <3>2, ListAppend
  <2>3. ASSUME NEW k \in DOMAIN x.pending, y = [x EXCEPT !.pending = ReplaceAt(x.pending, k, tx)]
        PROVE  <1>3!1 /\ <1>3!2 /\ <1>3!3 /\ <1>3!4
    <3>1. y.pending = ReplaceAt(x.pending, k, tx)  BY <1>1, <2>3
    <3> QED  BY <1>1, <2>1, <2>3, <3>1, ListReplace
  <2> QED  BY <2>2, <2>3 DEF Asks
<1>4. PendingSound(y, Q \cup {n})
  <2>1. \A i \in DOMAIN y.pending : y.pending[i].asked \in Q \cup {n} /\ y.pending[i].answered = 0
    BY <1>3 DEF Paired, PendingSound, n
  <2>2. \A i, j \in DOMAIN y.pending : i # j => y.pending[i].asked # y.pending[j].asked
    <3> SUFFICES ASSUME NEW i \in DOMAIN y.pending, NEW j \in DOMAIN y.pending, i # j
                 PROVE  y.pending[i].asked # y.pending[j].asked
      OBVIOUS
    <3>1. \A k \in DOMAIN x.pending : x.pending[k].asked \in Q /\ x.pending[k].asked # n
      BY <1>8 DEF Paired, PendingSound
    <3> QED  BY <1>3, <3>1 DEF Paired, PendingSound, n
  <2> QED  BY <1>3, <2>1, <2>2 DEF PendingSound
<1>5. DoneSound(y, Q \cup {n}, A)  BY <1>2 DEF Paired, DoneSound
<1>6. Apart(y)
  <2>1. \A j \in DOMAIN x.done : x.done[j].asked # n  BY <1>8 DEF Paired, DoneSound
  <2> QED  BY <1>2, <1>3, <2>1 DEF Paired, Apart, n
<1>7. Held(y) \subseteq Held(x) \cup {tx} /\ tx \in Held(y)  BY <1>2, <1>3 DEF Held, Range
<1> QED  BY <1>2, <1>4, <1>5, <1>6, <1>7 DEF Paired, n

\* A pending question is answered.
LEMMA PairedAnswer ==
  ASSUME NEW x, NEW Q, NEW A, Paired(x, Q, A), NEW k \in DOMAIN x.pending,
         NEW tx, Fresh(tx.answered, Q, A), NEW y, Answers(x, k, tx, y)
  PROVE  /\ Paired(y, Q, A \cup {tx.answered}) /\ Held(y) \subseteq Held(x) \cup {tx}
         /\ \A t \in Held(x) : \E u \in Held(y) : u.asked = t.asked
<1> DEFINE n == tx.answered
<1>0. n \in Nat \ {0} /\ \A m \in Q \cup A : m \in Nat \ {0} /\ m < n  BY DEF Fresh
<1>a. y = [pending |-> RemoveAt(x.pending, k), done |-> Append(x.done, tx)] /\ tx.asked = x.pending[k].asked  BY DEF Answers
<1>1. IsList(x.pending) /\ IsList(x.done)  BY DEF Paired, PendingSound, DoneSound
<1>2. /\ DOMAIN x.pending = 1..Len(x.pending) /\ Len(x.pending) \in Nat
      /\ DOMAIN x.done = 1..Len(x.done) /\ Len(x.done) \in Nat  BY <1>1, ListFacts
<1>3. /\ IsList(y.pending) /\ DOMAIN y.pending = 1..(Len(x.pending) - 1)
      /\ \A i \in DOMAIN y.pending : y.pending[i] = IF i < k THEN x.pending[i] ELSE x.pending[i + 1]
  <2> DEFINE r == RemoveAt(x.pending, k)
  <2>1. /\ IsList(r) /\ DOMAIN r = 1..(Len(x.pending) - 1)
        /\ \A i \in 1..(Len(x.pending) - 1) : r[i] = IF i < k THEN x.pending[i] ELSE x.pending[i + 1]
    BY <1>1, ListRemove
  <2>2. y.pending = r  BY <1>a
  <2> HIDE DEF r
  <2> QED  BY <2>1, <2>2
<1>4. /\ IsList(y.done) /\ DOMAIN y.done = 1..(Len(x.done) + 1)
      /\ y.done[Len(x.done) + 1] = tx /\ \A i \in DOMAIN x.done : y.done[i] = x.done[i]
  BY <1>1, <1>a, ListAppend
<1> DEFINE old(i) == IF i < k THEN i ELSE i + 1
<1>5. /\ \A i \in DOMAIN y.pending : old(i) \in DOMAIN x.pending /\ old(i) # k /\ y.pending[i] = x.pending[old(i)]
      /\ \A i, j \in DOMAIN y.pending : i # j => old(i) # old(j)
  BY <1>2, <1>3
<1>6. \A j \in DOMAIN x.pending : j # k => \E i \in DOMAIN y.pending : old(i) = j
  <2> SUFFICES ASSUME NEW j \in DOMAIN x.pending, j # k  PROVE \E i \in DOMAIN y.pending : old(i) = j
    OBVIOUS
  <2>1. CASE j < k  BY <1>2, <1>3, <2>1
  <2>2. CASE j > k
    <3>1. j - 1 \in DOMAIN y.pending /\ old(j - 1) = j  BY <1>2, <1>3, <2>2
    <3> QED  BY <3>1
  <2> QED  BY <1>2, <2>1, <2>2
<1> HIDE DEF old
<1>7. PendingSound(y, Q)  BY <1>3, <1>5 DEF Paired, PendingSound
<1>8. DoneSound(y, Q, A \cup {n})
  <2>1. \A i \in DOMAIN y.done : i \in DOMAIN x.done \/ i = Len(x.done) + 1  BY <1>2, <1>4
  <2>2. tx.asked \in Q /\ tx.asked < n  BY <1>0, <1>a DEF Paired, PendingSound
  <2>3. \A i \in DOMAIN y.done :
          /\ y.done[i].answered \in A \cup {n}
          /\ y.done[i].asked # 0 => y.done[i].asked \in Q /\ y.done[i].asked < y.done[i].answered
    BY <1>4, <2>1, <2>2 DEF Paired, DoneSound
  <2>4. \A i \in DOMAIN x.done : x.done[i].answered # n /\ x.done[i].asked # tx.asked
    BY <1>0, <1>a DEF Paired, DoneSound, Apart
  <2>5. \A i, j \in DOMAIN y.done : i # j =>
          /\ y.done[i].answered # y.done[j].answered
          /\ y.done[i].asked # 0 => y.done[i].asked # y.done[j].asked
    BY <1>4, <2>1, <2>4 DEF Paired, DoneSound
  <2> QED  BY <1>4, <2>3, <2>5 DEF DoneSound
<1>9. Apart(y)
  <2> SUFFICES ASSUME NEW i \in DOMAIN y.pending, NEW j \in DOMAIN y.done  PROVE y.pending[i].asked # y.done[j].asked
    BY DEF Apart
  <2>1. CASE j \in DOMAIN x.done  BY <1>4, <1>5, <2>1 DEF Paired, Apart
  <2>2. CASE j = Len(x.done) + 1  BY <1>4, <1>5, <1>a, <2>2 DEF Paired, PendingSound
  <2> QED  BY <1>2, <1>4, <2>1, <2>2
<1>10. Held(y) \subseteq Held(x) \cup {tx}
  <2>1. \A j \in DOMAIN y.done : y.done[j] = tx \/ (j \in DOMAIN x.done /\ y.done[j] = x.done[j])  BY <1>2, <1>4
  <2> QED  BY <1>5, <2>1 DEF Held, Range
<1>11. \A t \in Held(x) : \E u \in Held(y) : u.asked = t.asked
  <2> SUFFICES ASSUME NEW t \in Held(x)  PROVE \E u \in Held(y) : u.asked = t.asked
    OBVIOUS
  <2>1. CASE t \in Range(x.done)
    <3>1. DOMAIN x.done \subseteq DOMAIN y.done  BY <1>2, <1>4
    <3> QED  BY <1>4, <2>1, <3>1 DEF Held, Range
  <2>2. CASE t \in Range(x.pending)
    <3>1. PICK j \in DOMAIN x.pending : t = x.pending[j]  BY <2>2 DEF Range
    <3>2. CASE j = k
      <4>1. Len(x.done) + 1 \in DOMAIN y.done  BY <1>2, <1>4
      <4> QED  BY <1>4, <1>a, <3>1, <3>2, <4>1 DEF Held, Range
    <3>3. CASE j # k  BY <1>5, <1>6, <3>1, <3>3 DEF Held, Range
    <3> QED  BY <3>2, <3>3
  <2> QED  BY <2>1, <2>2 DEF Held
<1> QED  BY <1>a, <1>7, <1>8, <1>9, <1>10, <1>11 DEF Paired

\* An answer to nothing that was seen.
LEMMA PairedExtra ==
  ASSUME NEW x, NEW Q, NEW A, Paired(x, Q, A),
         NEW tx, Fresh(tx.answered, Q, A), NEW y, Adds(x, tx, y)
  PROVE  Paired(y, Q, A \cup {tx.answered}) /\ Held(y) \subseteq Held(x) \cup {tx}
<1> DEFINE n == tx.answered
<1>0. n \in Nat \ {0} /\ \A m \in Q \cup A : m \in Nat \ {0} /\ m < n  BY DEF Fresh
<1>a. y = [x EXCEPT !.done = Append(x.done, tx)] /\ tx.asked = 0  BY DEF Adds
<1>1. x = [pending |-> x.pending, done |-> x.done] /\ IsList(x.done)  BY DEF Paired, DoneSound
<1>2. y = [pending |-> y.pending, done |-> y.done] /\ y.pending = x.pending /\ y.done = Append(x.done, tx)  BY <1>1, <1>a
<1>3. DOMAIN x.done = 1..Len(x.done) /\ Len(x.done) \in Nat  BY <1>1, ListFacts
<1>4. /\ IsList(y.done)
      /\ \A i \in DOMAIN y.done : (i = Len(x.done) + 1 /\ y.done[i] = tx) \/ (i \in DOMAIN x.done /\ y.done[i] = x.done[i])
  BY <1>1, <1>2, <1>3, ListAppend
<1>5. DoneSound(y, Q, A \cup {n})
  <2>1. \A i \in DOMAIN y.done :
          /\ y.done[i].answered \in A \cup {n}
          /\ y.done[i].asked # 0 => y.done[i].asked \in Q /\ y.done[i].asked < y.done[i].answered
    BY <1>4, <1>a DEF Paired, DoneSound
  <2>2. \A i \in DOMAIN x.done : x.done[i].answered # n  BY <1>0 DEF Paired, DoneSound
  <2>3. \A i, j \in DOMAIN y.done : i # j =>
          /\ y.done[i].answered # y.done[j].answered
          /\ y.done[i].asked # 0 => y.done[i].asked # y.done[j].asked
    BY <1>4, <1>a, <2>2 DEF Paired, DoneSound
  <2> QED  BY <1>4, <2>1, <2>3 DEF DoneSound
<1>6. PendingSound(y, Q) /\ Apart(y)
  <2>1. \A i \in DOMAIN x.pending : x.pending[i].asked # 0  BY <1>0 DEF Paired, PendingSound
  <2> QED  BY <1>2, <1>4, <1>a, <2>1 DEF Paired, PendingSound, Apart
<1> QED  BY <1>2, <1>4, <1>5, <1>6 DEF Paired, Held, Range

\* What is said of pending questions leaves their numbers alone.
LEMMA PairedTold ==
  ASSUME NEW x, NEW Q, NEW A, Paired(x, Q, A), NEW g, DOMAIN g = DOMAIN x.pending,
         g = [i \in DOMAIN x.pending |-> g[i]],
         \A i \in DOMAIN x.pending : g[i].asked = x.pending[i].asked /\ g[i].answered = x.pending[i].answered,
         NEW y, y = [x EXCEPT !.pending = g]
  PROVE  Paired(y, Q, A)
<1>1. x = [pending |-> x.pending, done |-> x.done] /\ IsList(x.pending)  BY DEF Paired, PendingSound
<1>2. y = [pending |-> y.pending, done |-> y.done] /\ y.pending = g /\ y.done = x.done  BY <1>1
<1>3. IsList(g)  BY <1>1, ListFacts, ListOf
<1> QED  BY <1>2, <1>3 DEF Paired, PendingSound, DoneSound, Apart

\* A question in the place of another leaves the rest.
LEMMA AskKeeps ==
  ASSUME NEW x, IsList(x.pending), x = [pending |-> x.pending, done |-> x.done], NEW tx
  PROVE  /\ Held(x) \subseteq Held([x EXCEPT !.pending = Append(x.pending, tx)])
         /\ \A k \in DOMAIN x.pending :
              Held(x) \subseteq Held([x EXCEPT !.pending = ReplaceAt(x.pending, k, tx)]) \cup {x.pending[k]}
<1>1. Held(x) \subseteq Held([x EXCEPT !.pending = Append(x.pending, tx)])
  <2> DEFINE y == [x EXCEPT !.pending = Append(x.pending, tx)]
  <2>1. y.pending = Append(x.pending, tx) /\ y.done = x.done  OBVIOUS
  <2>2. DOMAIN x.pending = 1..Len(x.pending) /\ Len(x.pending) \in Nat  BY ListFacts
  <2>3. \A i \in DOMAIN x.pending : i \in DOMAIN y.pending /\ y.pending[i] = x.pending[i]
    BY <2>1, <2>2, ListAppend
  <2> QED  BY <2>1, <2>3 DEF Held, Range
<1>2. ASSUME NEW k \in DOMAIN x.pending
      PROVE  Held(x) \subseteq Held([x EXCEPT !.pending = ReplaceAt(x.pending, k, tx)]) \cup {x.pending[k]}
  <2> DEFINE y == [x EXCEPT !.pending = ReplaceAt(x.pending, k, tx)]
  <2>1. y.pending = ReplaceAt(x.pending, k, tx) /\ y.done = x.done  OBVIOUS
  <2>2. \A i \in DOMAIN x.pending : i \in DOMAIN y.pending /\ (i = k \/ y.pending[i] = x.pending[i])
    BY <2>1, ListReplace
  <2> QED  BY <2>1, <2>2 DEF Held, Range
<1> QED  BY <1>1, <1>2


-----------------------------------------------------------------------------
(* The packets read so far.                                                *)

LEMMA Numbers ==
  ASSUME PacketsSound, NEW kind
  PROVE  \A m \in Carrying(packets, kind) : m \in Nat \ {0} /\ m < lines.raw + 1
<1>1. lines.raw \in Nat /\ \A i \in DOMAIN packets : packets[i].num \in 1..lines.raw  BY DEF PacketsSound
<1>2. \A m \in 1..lines.raw : m \in Nat \ {0} /\ m < lines.raw + 1  BY <1>1
<1> QED  BY <1>1, <1>2 DEF Carrying

LEMMA OwnNumber ==
  ASSUME PacketsSound
  PROVE  /\ \A i \in DOMAIN packets : i \in Nat /\ packets[i].num \in Nat \ {0}
         /\ \A i, j \in DOMAIN packets : packets[i].num = packets[j].num => i = j
<1>1. \A i \in DOMAIN packets : packets[i].num \in 1..lines.raw  BY DEF PacketsSound
<1>2. \A m \in 1..lines.raw : m \in Nat \ {0}  BY DEF PacketsSound
<1>3. DOMAIN packets \subseteq Nat  BY ListFacts DEF PacketsSound
<1>4. \A i, j \in DOMAIN packets : i < j => packets[i].num < packets[j].num  BY DEF PacketsSound
<1> QED  BY <1>1, <1>2, <1>3, <1>4

LEMMA CarryingMore ==
  ASSUME NEW ps, IsList(ps), NEW p, NEW kind
  PROVE  Carrying(Append(ps, p), kind) = Carrying(ps, kind) \cup (IF p.app.kind = kind THEN {p.num} ELSE {})
<1> DEFINE qs == Append(ps, p)
<1>1. DOMAIN ps = 1..Len(ps) /\ Len(ps) \in Nat  BY ListFacts
<1>2. /\ DOMAIN qs = DOMAIN ps \cup {Len(ps) + 1} /\ qs[Len(ps) + 1] = p
      /\ \A i \in DOMAIN ps : qs[i] = ps[i]
  BY <1>1, ListAppend
<1> HIDE DEF qs
<1> QED  BY <1>2 DEF Carrying

\* One more packet is read: the last one.
LastRead(p) ==
  /\ p.num = lines.raw + 1
  /\ p.app.kind = "dns_query" => p.app = [kind |-> "dns_query", txid |-> p.app.txid, name |-> p.app.name]
  /\ lines' = [lines EXCEPT !.raw = lines.raw + 1, !.essential = lines.essential + 1]
  /\ packets' = Append(packets, p)

LEMMA PacketsMore ==
  ASSUME PacketsSound, NEW p, LastRead(p)
  PROVE  /\ PacketsSound'
         /\ DOMAIN packets' = DOMAIN packets \cup {Len(packets) + 1} /\ packets'[Len(packets) + 1] = p
         /\ \A i \in DOMAIN packets : packets'[i] = packets[i] /\ i < Len(packets) + 1 /\ packets[i].num < p.num
         /\ \A kind : Carrying(packets', kind) = Carrying(packets, kind) \cup (IF p.app.kind = kind THEN {p.num} ELSE {})
<1>1. IsList(packets) /\ DOMAIN packets = 1..Len(packets) /\ Len(packets) \in Nat  BY ListFacts DEF PacketsSound
<1>2. /\ IsList(packets') /\ DOMAIN packets' = DOMAIN packets \cup {Len(packets) + 1} /\ packets'[Len(packets) + 1] = p
      /\ \A i \in DOMAIN packets : packets'[i] = packets[i]
  BY <1>1, ListAppend DEF LastRead
<1>3. lines' = [raw |-> lines'.raw, malformed |-> lines'.malformed, essential |-> lines'.essential]
      /\ lines'.raw = lines.raw + 1 /\ lines.raw \in Nat
  BY DEF LastRead, PacketsSound
<1>4. \A i \in DOMAIN packets : i < Len(packets) + 1 /\ packets[i].num < p.num
  <2>1. p.num = lines.raw + 1  BY DEF LastRead
  <2>2. \A i \in DOMAIN packets : packets[i].num \in 1..lines.raw  BY DEF PacketsSound
  <2>3. \A m \in 1..lines.raw : m < lines.raw + 1  BY <1>3
  <2> QED  BY <1>1, <2>1, <2>2, <2>3
<1>5. PacketsSound'
  <2>1. \A i \in DOMAIN packets' :
       /\ packets'[i].num \in 1..lines'.raw
       /\ packets'[i].app.kind = "dns_query" =>
            packets'[i].app = [kind |-> "dns_query", txid |-> packets'[i].app.txid, name |-> packets'[i].app.name]
    <3>1. \A i \in DOMAIN packets :
            /\ packets[i].num \in 1..lines.raw
            /\ packets[i].app.kind = "dns_query" =>
                 packets[i].app = [kind |-> "dns_query", txid |-> packets[i].app.txid, name |-> packets[i].app.name]
      BY DEF PacketsSound
    <3>2. p.num \in 1..lines'.raw  BY <1>3 DEF LastRead
    <3>3. p.app.kind = "dns_query" => p.app = [kind |-> "dns_query", txid |-> p.app.txid, name |-> p.app.name]
      BY DEF LastRead
    <3>4. \A n \in 1..lines.raw : n \in 1..lines'.raw  BY <1>3
    <3> TAKE i \in DOMAIN packets'
    <3>5. CASE i \in DOMAIN packets  BY <1>2, <3>1, <3>4, <3>5
    <3>6. CASE i = Len(packets) + 1  BY <1>2, <3>2, <3>3, <3>6
    <3> QED  BY <1>2, <3>5, <3>6
  <2>2. \A i, j \in DOMAIN packets' : i < j => packets'[i].num < packets'[j].num
    <3>1. \A i, j \in DOMAIN packets : i < j => packets[i].num < packets[j].num  BY DEF PacketsSound
    <3>2. ~(Len(packets) + 1 < Len(packets) + 1) /\ \A i \in DOMAIN packets : ~(Len(packets) + 1 < i)  BY <1>1
    <3> QED  BY <1>2, <1>4, <3>1, <3>2
  <2> QED  BY <1>2, <1>3, <2>1, <2>2 DEF PacketsSound
<1>6. \A kind : Carrying(packets', kind) = Carrying(packets, kind) \cup (IF p.app.kind = kind THEN {p.num} ELSE {})
  BY <1>1, CarryingMore DEF LastRead
<1> QED  BY <1>2, <1>4, <1>5, <1>6


-----------------------------------------------------------------------------
(* A packet and the DNS exchanges.                                         *)

\* What the exchanges say of the packets is not changed by a packet of a new number.
LEMMA DnsOfMore ==
  ASSUME PacketsSound, NEW p, LastRead(p), NEW x,
         Paired(x, Carrying(packets, "dns_query"), Carrying(packets, "dns_response")), DnsOf(x, packets)
  PROVE  DnsOf(x, packets')
<1>1. \A t \in Held(x) : t.asked # p.num /\ t.answered # p.num
  <2>1. \A m \in Carrying(packets, "dns_query") \cup Carrying(packets, "dns_response") : m # p.num
    BY Numbers DEF LastRead
  <2>2. p.num # 0  BY DEF LastRead, PacketsSound
  <2> QED  BY <2>1, <2>2 DEF Held, Range, Paired, PendingSound, DoneSound
<1>2. \A i \in DOMAIN packets' : packets'[i] = p \/ (i \in DOMAIN packets /\ packets'[i] = packets[i])
  BY PacketsMore
<1> QED  BY <1>1, <1>2 DEF DnsOf

LEMMA DnsListedMore ==
  ASSUME PacketsSound, NEW p, LastRead(p), NEW x, NEW y,
         \A t \in Held(x) : \/ \E u \in Held(y) : u.asked = t.asked
                            \/ \A i \in DOMAIN packets : packets[i].num = t.asked => Repeats(packets[i], p),
         p.app.kind = "dns_query" => \E u \in Held(y) : u.asked = p.num,
         DnsListed(x, packets)
  PROVE  DnsListed(y, packets')
<1>1. /\ DOMAIN packets' = DOMAIN packets \cup {Len(packets) + 1} /\ packets'[Len(packets) + 1] = p
      /\ \A i \in DOMAIN packets : packets'[i] = packets[i] /\ Len(packets) + 1 > i
  BY PacketsMore
<1> SUFFICES ASSUME NEW i \in DOMAIN packets', packets'[i].app.kind = "dns_query"
             PROVE  \/ \E t \in Held(y) : t.asked = packets'[i].num
                    \/ \E j \in DOMAIN packets' : j > i /\ Repeats(packets'[i], packets'[j])
  BY DEF DnsListed
<1>2. CASE i = Len(packets) + 1  BY <1>1, <1>2
<1>3. CASE i \in DOMAIN packets
  <2>1. CASE \E j \in DOMAIN packets : j > i /\ Repeats(packets[i], packets[j])  BY <1>1, <1>3, <2>1
  <2>2. CASE \E t \in Held(x) : t.asked = packets[i].num  BY <1>1, <1>3, <2>2
  <2> QED  BY <1>1, <1>3, <2>1, <2>2 DEF DnsListed
<1> QED  BY <1>1, <1>2, <1>3

LEMMA DnsAsk ==
  ASSUME PacketsSound, DnsSound, NEW p, LastRead(p), p.app.kind = "dns_query", dns' = WithDns(p)
  PROVE  DnsSound'
<1> DEFINE x == dns
           y == dns'
           n == p.num
           Q == Carrying(packets, "dns_query")
           A == Carrying(packets, "dns_response")
           tx == DnsQuery(p)
           same(t) == <<t.client, t.server, t.txid, t.name>> = <<p.src, p.dst, p.app.txid, p.app.name>>
<1>1. /\ Paired(x, Q, A) /\ DnsOf(x, packets) /\ DnsListed(x, packets)  BY DEF DnsSound
<1>2. \/ y = [x EXCEPT !.pending = Append(x.pending, tx)]
      \/ \E k \in DOMAIN x.pending : same(x.pending[k]) /\ y = [x EXCEPT !.pending = ReplaceAt(x.pending, k, tx)]
  BY DEF WithDns, Ask, Carries
<1>3. IsDns(tx) /\ tx.asked = n /\ tx.answered = 0 /\ AskedBy(tx, p)  BY DEF DnsQuery, IsDns, AskedBy
<1>4. n \in Nat \ {0}  BY DEF LastRead, PacketsSound
<1>5. Fresh(n, Q, A)  BY <1>4, Numbers DEF LastRead, Fresh
<1> HIDE DEF Q, A, tx
<1>6. Paired(y, Q \cup {n}, A) /\ Held(y) \subseteq Held(x) \cup {tx} /\ tx \in Held(y)
  <2>1. Asks(x, tx, y)  BY <1>2 DEF Asks
  <2> HIDE DEF x, y, n
  <2> QED  BY <1>1, <1>3, <1>5, <2>1, PairedAsk
<1>7. Paired(y, Carrying(packets', "dns_query"), Carrying(packets', "dns_response"))
  <2>1. Carrying(packets', "dns_query") = Q \cup {n} /\ Carrying(packets', "dns_response") = A
    BY PacketsMore DEF Q, A
  <2> QED  BY <1>6, <2>1
<1>8. DnsOf(x, packets')  BY <1>1, DnsOfMore DEF Q, A
<1>9. DnsOf(y, packets')
  <2>1. \A i \in DOMAIN packets' : packets'[i].num = n => packets'[i] = p
    BY PacketsMore, <1>4 DEF PacketsSound
  <2>2. \A i \in DOMAIN packets' : packets'[i].num # 0  BY PacketsMore, OwnNumber, <1>4
  <2> QED  BY <1>3, <1>4, <1>6, <1>8, <2>1, <2>2 DEF DnsOf
<1>10. \A t \in Held(x) : \/ \E u \in Held(y) : u.asked = t.asked
                          \/ \A i \in DOMAIN packets : packets[i].num = t.asked => Repeats(packets[i], p)
  <2>1. IsList(x.pending) /\ x = [pending |-> x.pending, done |-> x.done]  BY <1>1 DEF Paired, PendingSound
  <2>2. CASE y = [x EXCEPT !.pending = Append(x.pending, tx)]  BY <2>1, <2>2, AskKeeps
  <2>3. ASSUME NEW k \in DOMAIN x.pending, same(x.pending[k]), y = [x EXCEPT !.pending = ReplaceAt(x.pending, k, tx)]
        PROVE  <1>10
    <3>1. Held(x) \subseteq Held(y) \cup {x.pending[k]}  BY <2>1, <2>3, AskKeeps
    <3>2. x.pending[k].asked \in Q  BY <1>1 DEF Paired, PendingSound
    <3>3. x.pending[k] \in Held(x)  BY DEF Held, Range
    <3>4. ASSUME NEW i \in DOMAIN packets, packets[i].num = x.pending[k].asked
          PROVE  Repeats(packets[i], p)
      <4>1. AskedBy(x.pending[k], packets[i])  BY <1>1, <3>3, <3>4 DEF DnsOf
      <4>2. PICK j \in DOMAIN packets : packets[j].app.kind = "dns_query" /\ packets[j].num = x.pending[k].asked
        BY <3>2 DEF Q, Carrying
      <4>3. i = j  BY <3>4, <4>2, OwnNumber
      <4>4. packets[i].app = [kind |-> "dns_query", txid |-> packets[i].app.txid, name |-> packets[i].app.name]
        BY <4>2, <4>3 DEF PacketsSound
      <4>5. p.app = [kind |-> "dns_query", txid |-> p.app.txid, name |-> p.app.name]  BY DEF LastRead
      <4> QED  BY <2>3, <4>1, <4>4, <4>5 DEF AskedBy, Repeats
    <3> QED  BY <3>1, <3>4
  <2> QED  BY <1>2, <2>2, <2>3
<1>11. DnsListed(y, packets')  BY <1>1, <1>3, <1>6, <1>10, DnsListedMore
<1> QED  BY <1>7, <1>9, <1>11 DEF DnsSound


LEMMA DnsAnswer ==
  ASSUME PacketsSound, DnsSound, NEW p, LastRead(p), p.app.kind = "dns_response", dns' = WithDns(p)
  PROVE  DnsSound'
<1> DEFINE x == dns
           y == dns'
           n == p.num
           Q == Carrying(packets, "dns_query")
           A == Carrying(packets, "dns_response")
           fits(t) == <<t.txid, t.server, t.client>> = <<p.app.txid, p.src, p.dst>>
           told(t) == [t EXCEPT !.answered = p.num, !.rcode = p.app.rcode, !.rtt = p.ts - t.at]
           Fit == {i \in DOMAIN x.pending : fits(x.pending[i])}
           k == CHOOSE i \in Fit : \A j \in Fit : i <= j
           tx == told(x.pending[k])
<1>1. /\ Paired(x, Q, A) /\ DnsOf(x, packets) /\ DnsListed(x, packets)  BY DEF DnsSound
<1>2. y = IF Fit = {} THEN x ELSE [pending |-> RemoveAt(x.pending, k), done |-> Append(x.done, tx)]
  BY DEF WithDns, Answer, Carries
<1>4. n \in Nat \ {0}  BY DEF LastRead, PacketsSound
<1>5. Fresh(n, Q, A)  BY <1>4, Numbers DEF LastRead, Fresh
<1>6. Carrying(packets', "dns_query") = Q /\ Carrying(packets', "dns_response") = A \cup {n}  BY PacketsMore
<1>7. DnsOf(x, packets')  BY <1>1, DnsOfMore
<1>8. CASE Fit = {}
  <2> HIDE DEF Q, A, Fit, k, tx
  <2>1. y = x  BY <1>2, <1>8
  <2>2. Paired(y, Q, A \cup {n})  BY <1>1, <2>1, PairedMore
  <2>3. DnsListed(y, packets')  BY <1>1, <2>1, DnsListedMore
  <2> QED  BY <1>6, <1>7, <2>1, <2>2, <2>3 DEF DnsSound
<1>9. CASE Fit # {}
  <2>1. k \in Fit
    <3>1. Fit \subseteq Nat /\ \E m \in Fit : TRUE  BY <1>1, <1>9, ListFacts DEF Paired, PendingSound
    <3>2. \E m \in Fit : \A j \in Fit : m <= j  BY <3>1, LeastNumber
    <3> HIDE DEF Fit
    <3> QED  BY <3>2
  <2>2. k \in DOMAIN x.pending /\ fits(x.pending[k])  BY <2>1
  <2>3. y = [pending |-> RemoveAt(x.pending, k), done |-> Append(x.done, tx)]  BY <1>2, <1>9
  <2> HIDE DEF Q, A, Fit, k
  <2>4. x.pending[k] \in Held(x)  BY <2>2 DEF Held, Range
  <2>5. IsDns(x.pending[k]) /\ x.pending[k].asked \in Q  BY <1>1, <2>2, <2>4 DEF DnsOf, Paired, PendingSound
  <2>6. IsDns(tx) /\ tx.asked = x.pending[k].asked /\ tx.answered = n /\ AnsweredBy(tx, p)
        /\ tx.txid = x.pending[k].txid /\ tx.name = x.pending[k].name
        /\ tx.client = x.pending[k].client /\ tx.server = x.pending[k].server
    <3> DEFINE t == x.pending[k]
    <3>1. t = [txid |-> t.txid, name |-> t.name, client |-> t.client, server |-> t.server, asked |-> t.asked, at |-> t.at,
               answered |-> t.answered, rcode |-> t.rcode, rtt |-> t.rtt]
      BY <2>5 DEF IsDns
    <3>2. p.src = t.server /\ p.dst = t.client  BY <2>2
    <3>3. tx = told(t) /\ x.pending[k] = t  BY DEF tx
    <3> HIDE DEF t, tx
    <3> QED  BY <3>1, <3>2, <3>3 DEF IsDns, AnsweredBy
  <2> HIDE DEF tx
  <2>7. /\ Paired(y, Q, A \cup {n}) /\ Held(y) \subseteq Held(x) \cup {tx}
        /\ \A t \in Held(x) : \E u \in Held(y) : u.asked = t.asked
    <3>1. Answers(x, k, tx, y)  BY <2>3, <2>6 DEF Answers
    <3>2. Fresh(tx.answered, Q, A)  BY <1>5, <2>6
    <3>3. k \in DOMAIN x.pending  BY <2>2
    <3>4. Paired(x, Q, A)  BY <1>1
    <3> HIDE DEF x, y, n
    <3>5. /\ Paired(y, Q, A \cup {tx.answered}) /\ Held(y) \subseteq Held(x) \cup {tx}
          /\ \A t \in Held(x) : \E u \in Held(y) : u.asked = t.asked
      BY <3>1, <3>2, <3>3, <3>4, PairedAnswer
    <3> QED  BY <3>5, <2>6
  <2>8. DnsOf(y, packets')
    <3>1. \A i \in DOMAIN packets' : packets'[i].num = n => packets'[i] = p  BY PacketsMore, OwnNumber, <1>4
    <3>2. \A i \in DOMAIN packets' : packets'[i].num = tx.asked => AskedBy(tx, packets'[i])
      BY <1>7, <2>4, <2>6 DEF DnsOf, AskedBy
    <3>3. tx.asked # 0  BY <1>7, <2>4, <2>6 DEF DnsOf
    <3> QED  BY <1>7, <2>6, <2>7, <3>1, <3>2, <3>3 DEF DnsOf
  <2>9. DnsListed(y, packets')  BY <1>1, <2>7, DnsListedMore
  <2> QED  BY <1>6, <2>7, <2>8, <2>9 DEF DnsSound
<1> QED  BY <1>8, <1>9

LEMMA DnsOther ==
  ASSUME PacketsSound, DnsSound, NEW p, LastRead(p), p.app.kind \notin {"dns_query", "dns_response"}, dns' = dns
  PROVE  DnsSound'
<1>1. Paired(dns, Carrying(packets, "dns_query"), Carrying(packets, "dns_response"))
      /\ DnsOf(dns, packets) /\ DnsListed(dns, packets)  BY DEF DnsSound
<1>2. Paired(dns, Carrying(packets', "dns_query"), Carrying(packets', "dns_response"))
  BY <1>1, PacketsMore, PairedMore
<1>3. DnsOf(dns, packets')  BY <1>1, DnsOfMore
<1>4. DnsListed(dns, packets')  BY <1>1, DnsListedMore
<1> QED  BY <1>2, <1>3, <1>4 DEF DnsSound


LEMMA DnsStep ==
  ASSUME PacketsSound, DnsSound, NEW p, LastRead(p), dns' = WithDns(p)
  PROVE  DnsSound'
<1>1. CASE p.app.kind = "dns_query"  BY <1>1, DnsAsk
<1>2. CASE p.app.kind = "dns_response"  BY <1>2, DnsAnswer
<1>3. CASE p.app.kind \notin {"dns_query", "dns_response"}
  <2>1. dns' = dns  BY <1>3 DEF WithDns, Carries
  <2> QED  BY <1>3, <2>1, DnsOther
<1> QED  BY <1>1, <1>2, <1>3

-----------------------------------------------------------------------------
(* A packet and the HTTP exchanges.                                        *)

LEMMA HttpStep ==
  ASSUME PacketsSound, HttpSound, NEW p, LastRead(p), http' = WithHttp(p)
  PROVE  HttpSound'
<1> DEFINE x == http
           y == http'
           n == p.num
           Q == Carrying(packets, "http_request")
           A == Carrying(packets, "http_response")
           same(t) == t.stream = p.stream /\ t.n = p.app.n
           Fit == {i \in DOMAIN x.pending : same(x.pending[i])}
           k == CHOOSE i \in Fit : \A j \in Fit : i <= j
           told(t) == [t EXCEPT !.answered = p.num, !.code = p.app.code, !.latency = p.ts - t.at]
<1>1. Paired(x, Q, A) /\ \A t \in Held(x) : IsHttp(t)  BY DEF HttpSound
<1>2. Fresh(n, Q, A)
  <2>1. n \in Nat \ {0}  BY DEF LastRead, PacketsSound
  <2> QED  BY <2>1, Numbers DEF LastRead, Fresh
<1>3. /\ Carrying(packets', "http_request") = Q \cup (IF p.app.kind = "http_request" THEN {n} ELSE {})
      /\ Carrying(packets', "http_response") = A \cup (IF p.app.kind = "http_response" THEN {n} ELSE {})
  BY PacketsMore
<1>4. CASE p.app.kind = "http_request"
  <2> DEFINE tx == HttpRequest(p)
  <2>1. Asks(x, tx, y)  BY <1>4 DEF WithHttp, Ask, Carries, Asks
  <2>2. IsHttp(tx) /\ tx.asked = n /\ tx.answered = 0  BY DEF HttpRequest, IsHttp
  <2> HIDE DEF x, y, n, tx, Q, A
  <2>3. Paired(y, Q \cup {n}, A) /\ Held(y) \subseteq Held(x) \cup {tx}  BY <1>1, <1>2, <2>1, <2>2, PairedAsk
  <2>4. Paired(y, Carrying(packets', "http_request"), Carrying(packets', "http_response"))
    <3>1. Carrying(packets', "http_request") = Q \cup {n} /\ Carrying(packets', "http_response") = A  BY <1>3, <1>4
    <3> QED  BY <2>3, <3>1
  <2> QED  BY <1>1, <2>2, <2>3, <2>4 DEF HttpSound, y
<1>5. CASE p.app.kind = "http_response" /\ Fit # {}
  <2> DEFINE tx == told(x.pending[k])
  <2>1. y = [pending |-> RemoveAt(x.pending, k), done |-> Append(x.done, tx)]
    BY <1>5 DEF WithHttp, Answer, Carries
  <2>2. k \in DOMAIN x.pending
    <3>1. Fit \subseteq Nat  BY <1>1, ListFacts DEF Paired, PendingSound
    <3>2. \E m \in Fit : \A j \in Fit : m <= j  BY <1>5, <3>1, LeastNumber
    <3>3. Fit \subseteq DOMAIN x.pending  OBVIOUS
    <3> HIDE DEF Fit
    <3> QED  BY <3>2, <3>3
  <2> HIDE DEF k
  <2>3. IsHttp(x.pending[k])  BY <1>1, <2>2 DEF Held, Range
  <2>4. IsHttp(tx) /\ tx.asked = x.pending[k].asked /\ tx.answered = n
    <3> DEFINE t == x.pending[k]
    <3>1. t = [stream |-> t.stream, n |-> t.n, client |-> t.client, server |-> t.server, port |-> t.port, asked |-> t.asked,
               at |-> t.at, what |-> t.what, answered |-> t.answered, code |-> t.code, latency |-> t.latency]
      BY <2>3 DEF IsHttp
    <3>2. tx = told(t) /\ x.pending[k] = t  OBVIOUS
    <3> HIDE DEF t, tx
    <3> QED  BY <3>1, <3>2 DEF IsHttp
  <2> HIDE DEF tx
  <2>5. Answers(x, k, tx, y)  BY <2>1, <2>4 DEF Answers
  <2>6. Fresh(tx.answered, Q, A)  BY <1>2, <2>4
  <2> HIDE DEF x, y, n, Q, A
  <2>7. Paired(y, Q, A \cup {tx.answered}) /\ Held(y) \subseteq Held(x) \cup {tx}
    BY <1>1, <2>2, <2>5, <2>6, PairedAnswer
  <2>8. Paired(y, Carrying(packets', "http_request"), Carrying(packets', "http_response"))
    <3>1. Carrying(packets', "http_request") = Q /\ Carrying(packets', "http_response") = A \cup {n}  BY <1>3, <1>5
    <3> QED  BY <2>4, <2>7, <3>1
  <2> QED  BY <1>1, <2>4, <2>7, <2>8 DEF HttpSound, y
<1>6. CASE p.app.kind = "http_response" /\ Fit = {}
  <2> DEFINE tx == Unasked(p)
  <2>1. \A i \in DOMAIN http.pending : ~(http.pending[i].stream = p.stream /\ http.pending[i].n = p.app.n)  BY <1>6
  <2>2. y = [x EXCEPT !.done = Append(x.done, tx)]  BY <1>6, <2>1 DEF WithHttp, Carries
  <2>3. IsHttp(tx) /\ tx.asked = 0 /\ tx.answered = n  BY DEF Unasked, IsHttp
  <2> HIDE DEF x, y, n, tx, Q, A
  <2>4. Fresh(tx.answered, Q, A) /\ Adds(x, tx, y)  BY <1>2, <2>2, <2>3 DEF Adds
  <2>5. Paired(y, Q, A \cup {tx.answered}) /\ Held(y) \subseteq Held(x) \cup {tx}
    BY <1>1, <2>4, PairedExtra
  <2>6. Paired(y, Carrying(packets', "http_request"), Carrying(packets', "http_response"))
    <3>1. Carrying(packets', "http_request") = Q /\ Carrying(packets', "http_response") = A \cup {n}  BY <1>3, <1>6
    <3> QED  BY <2>3, <2>5, <3>1
  <2> QED  BY <1>1, <2>3, <2>5, <2>6 DEF HttpSound, y
<1>7. CASE p.app.kind \notin {"http_request", "http_response"}
  <2>1. y = x  BY <1>7 DEF WithHttp, Carries
  <2>2. Paired(x, Carrying(packets', "http_request"), Carrying(packets', "http_response"))
    BY <1>1, <1>3, PairedMore
  <2> QED  BY <1>1, <2>1, <2>2 DEF HttpSound
<1> QED  BY <1>4, <1>5, <1>6, <1>7

-----------------------------------------------------------------------------
(* A packet and the TLS handshakes.                                        *)

LEMMA HelloStep ==
  ASSUME PacketsSound, TlsSound, NEW p, LastRead(p)
  PROVE  /\ Paired(WithHello(p), Carrying(packets', "client_hello"), Carrying(packets', "server_hello"))
         /\ \A t \in Held(WithHello(p)) : IsTls(t)
<1> DEFINE x == tls
           y == WithHello(p)
           n == p.num
           Q == Carrying(packets, "client_hello")
           A == Carrying(packets, "server_hello")
           Fit == {i \in DOMAIN x.pending : x.pending[i].stream = p.stream}
           k == CHOOSE i \in Fit : \A j \in Fit : i <= j
           told(t) == [t EXCEPT !.answered = p.num, !.version = p.app.version]
<1>1. Paired(x, Q, A) /\ \A t \in Held(x) : IsTls(t)  BY DEF TlsSound
<1>2. Fresh(n, Q, A)
  <2>1. n \in Nat \ {0}  BY DEF LastRead, PacketsSound
  <2> QED  BY <2>1, Numbers DEF LastRead, Fresh
<1>3. /\ Carrying(packets', "client_hello") = Q \cup (IF p.app.kind = "client_hello" THEN {n} ELSE {})
      /\ Carrying(packets', "server_hello") = A \cup (IF p.app.kind = "server_hello" THEN {n} ELSE {})
  BY PacketsMore
<1>4. CASE p.app.kind = "client_hello"
  <2> DEFINE tx == ClientHello(p)
  <2>1. Asks(x, tx, y)  BY <1>4 DEF WithHello, Ask, Carries, Asks
  <2>2. IsTls(tx) /\ tx.asked = n /\ tx.answered = 0  BY DEF ClientHello, IsTls
  <2> HIDE DEF x, y, n, tx, Q, A
  <2>3. Paired(y, Q \cup {n}, A) /\ Held(y) \subseteq Held(x) \cup {tx}  BY <1>1, <1>2, <2>1, <2>2, PairedAsk
  <2>4. Carrying(packets', "client_hello") = Q \cup {n} /\ Carrying(packets', "server_hello") = A  BY <1>3, <1>4
  <2>5. Paired(y, Carrying(packets', "client_hello"), Carrying(packets', "server_hello"))  BY <2>3, <2>4
  <2>6. \A t \in Held(y) : IsTls(t)  BY <1>1, <2>2, <2>3
  <2> QED  BY <2>5, <2>6 DEF y
<1>5. CASE p.app.kind = "server_hello" /\ Fit # {}
  <2> DEFINE tx == told(x.pending[k])
  <2>1. y = [pending |-> RemoveAt(x.pending, k), done |-> Append(x.done, tx)]
    BY <1>5 DEF WithHello, Answer, Carries
  <2>2. k \in DOMAIN x.pending
    <3>1. Fit \subseteq Nat  BY <1>1, ListFacts DEF Paired, PendingSound
    <3>2. \E m \in Fit : \A j \in Fit : m <= j  BY <1>5, <3>1, LeastNumber
    <3>3. Fit \subseteq DOMAIN x.pending  OBVIOUS
    <3> HIDE DEF Fit
    <3> QED  BY <3>2, <3>3
  <2> HIDE DEF k
  <2>3. IsTls(x.pending[k])  BY <1>1, <2>2 DEF Held, Range
  <2>4. IsTls(tx) /\ tx.asked = x.pending[k].asked /\ tx.answered = n
    <3> DEFINE t == x.pending[k]
    <3>1. t = [stream |-> t.stream, client |-> t.client, server |-> t.server, asked |-> t.asked, at |-> t.at,
               offered |-> t.offered, ja3 |-> t.ja3, version |-> t.version, answered |-> t.answered, alert |-> t.alert]
      BY <2>3 DEF IsTls
    <3>2. tx = told(t) /\ x.pending[k] = t  OBVIOUS
    <3> HIDE DEF t, tx
    <3> QED  BY <3>1, <3>2 DEF IsTls
  <2> HIDE DEF tx
  <2>5. Answers(x, k, tx, y)  BY <2>1, <2>4 DEF Answers
  <2>6. Fresh(tx.answered, Q, A)  BY <1>2, <2>4
  <2> HIDE DEF x, y, n, Q, A
  <2>7. Paired(y, Q, A \cup {tx.answered}) /\ Held(y) \subseteq Held(x) \cup {tx}
    BY <1>1, <2>2, <2>5, <2>6, PairedAnswer
  <2>8. Carrying(packets', "client_hello") = Q /\ Carrying(packets', "server_hello") = A \cup {n}  BY <1>3, <1>5
  <2>9. Paired(y, Carrying(packets', "client_hello"), Carrying(packets', "server_hello"))  BY <2>4, <2>7, <2>8
  <2>10. \A t \in Held(y) : IsTls(t)  BY <1>1, <2>4, <2>7
  <2> QED  BY <2>9, <2>10 DEF y
<1>6. CASE p.app.kind \notin {"client_hello", "server_hello"} \/ (p.app.kind = "server_hello" /\ Fit = {})
  <2>1. y = x  BY <1>6 DEF WithHello, Answer, Carries
  <2>2. Q \subseteq Carrying(packets', "client_hello") /\ A \subseteq Carrying(packets', "server_hello")  BY <1>3
  <2> HIDE DEF x, y, Q, A, Fit
  <2>3. Paired(x, Carrying(packets', "client_hello"), Carrying(packets', "server_hello"))  BY <1>1, <2>2, PairedMore
  <2> QED  BY <1>1, <2>1, <2>3 DEF y
<1> QED  BY <1>4, <1>5, <1>6

LEMMA TlsStep ==
  ASSUME PacketsSound, TlsSound, NEW p, LastRead(p), tls' = WithTls(p)
  PROVE  TlsSound'
<1> DEFINE Q == Carrying(packets', "client_hello")
           A == Carrying(packets', "server_hello")
<1>1. CASE tls' = tls
  <2>1. Carrying(packets, "client_hello") \subseteq Q /\ Carrying(packets, "server_hello") \subseteq A  BY PacketsMore
  <2>2. Paired(tls, Q, A)  BY <2>1, PairedMore DEF TlsSound
  <2> QED  BY <1>1, <2>2 DEF TlsSound
<1>2. CASE tls' # tls
  <2> DEFINE x == WithHello(p)
             y == tls'
             told(t) == IF t.stream = p.stream THEN [t EXCEPT !.alert = t.alert \/ p.app.alert] ELSE t
             g == [i \in DOMAIN x.pending |-> told(x.pending[i])]
  <2>1. y = [x EXCEPT !.pending = g]  BY <1>2 DEF WithTls
  <2>2. Paired(x, Q, A) /\ \A t \in Held(x) : IsTls(t)  BY HelloStep
  <2> HIDE DEF x
  <2>3. ASSUME NEW t, IsTls(t)
        PROVE  IsTls(told(t)) /\ told(t).asked = t.asked /\ told(t).answered = t.answered
    <3>1. t = [stream |-> t.stream, client |-> t.client, server |-> t.server, asked |-> t.asked, at |-> t.at,
               offered |-> t.offered, ja3 |-> t.ja3, version |-> t.version, answered |-> t.answered, alert |-> t.alert]
      BY <2>3 DEF IsTls
    <3> QED  BY <3>1 DEF IsTls
  <2> HIDE DEF told
  <2>4. \A i \in DOMAIN x.pending : /\ IsTls(g[i]) /\ g[i].asked = x.pending[i].asked
                                    /\ g[i].answered = x.pending[i].answered
    BY <2>2, <2>3 DEF Held, Range
  <2>5. DOMAIN g = DOMAIN x.pending /\ g = [i \in DOMAIN x.pending |-> g[i]]  OBVIOUS
  <2> HIDE DEF g, y, Q, A
  <2>6. Paired(y, Q, A)  BY <2>1, <2>2, <2>4, <2>5, PairedTold
  <2>7. y.pending = g /\ y.done = x.done
    <3>1. x = [pending |-> x.pending, done |-> x.done]  BY <2>2 DEF Paired
    <3> QED  BY <2>1, <3>1
  <2>8. \A t \in Held(y) : IsTls(t)  BY <2>2, <2>4, <2>5, <2>7 DEF Held, Range
  <2> QED  BY <2>6, <2>8 DEF TlsSound, y, Q, A
<1> QED  BY <1>1, <1>2


-----------------------------------------------------------------------------
(* The invariant is kept.                                                  *)

LEMMA IInvStart == Init => IInv
<1> SUFFICES ASSUME Init  PROVE IInv
  OBVIOUS
<1>1. packets = <<>> /\ lines = [raw |-> 0, malformed |-> 0, essential |-> 0]
      /\ dns = Empty /\ http = Empty /\ tls = Empty
  BY DEF Init, CaptureInit
<1>2. PacketsSound  BY <1>1, EmptyList DEF PacketsSound
<1>3. \A Q, A : Paired(Empty, Q, A)
  BY EmptyList DEF Empty, Paired, PendingSound, DoneSound, Apart
<1>4. Held(Empty) = {}  BY EmptyList DEF Held, Range, Empty
<1>5. DnsOf(Empty, packets) /\ DnsListed(Empty, packets)  BY <1>1, <1>4, EmptyList DEF DnsOf, DnsListed
<1> QED  BY <1>1, <1>2, <1>3, <1>4, <1>5 DEF IInv, DnsSound, HttpSound, TlsSound

\* A line read counts.
LEMMA IInvLine ==
  ASSUME IInv, lines' = [lines EXCEPT !.raw = lines.raw + 1] \/ lines' = [lines EXCEPT !.raw = lines.raw + 1, !.malformed = lines.malformed + 1],
         UNCHANGED <<packets, dns, http, tls>>
  PROVE  IInv'
<1>1. /\ lines' = [raw |-> lines'.raw, malformed |-> lines'.malformed, essential |-> lines'.essential]
      /\ lines'.raw = lines.raw + 1 /\ lines.raw \in Nat
  BY DEF IInv, PacketsSound
<1>2. PacketsSound'
  <2>1. \A n \in 1..lines.raw : n \in 1..lines'.raw  BY <1>1
  <2>2. lines'.raw \in Nat  BY <1>1
  <2>3. PacketsSound  BY DEF IInv
  <2> HIDE DEF IInv
  <2> QED  BY <1>1, <2>1, <2>2, <2>3 DEF PacketsSound
<1> QED  BY <1>2 DEF IInv, DnsSound, HttpSound, TlsSound

LEMMA IInvSame ==
  ASSUME IInv, UNCHANGED <<lines, packets, dns, http, tls>>
  PROVE  IInv'
BY DEF IInv, PacketsSound, DnsSound, HttpSound, TlsSound

LEMMA IInvPacket ==
  ASSUME IInv, NEW raw \in Packet, NEW gap \in Gap, ReadPacket(raw, gap)
  PROVE  IInv'
<1> DEFINE p == [num |-> lines.raw + 1, ts |-> clock', src |-> raw.src, dst |-> raw.dst, sport |-> raw.sport,
                 dport |-> raw.dport, proto |-> raw.proto, stream |-> raw.stream, flags |-> raw.flags,
                 signs |-> raw.signs, app |-> raw.app]
<1>1. dns' = WithDns(p) /\ http' = WithHttp(p) /\ tls' = WithTls(p)  BY DEF ReadPacket
<1>2. LastRead(p)
  <2>1. p.num = lines.raw + 1 /\ p.app = raw.app  OBVIOUS
  <2>2. packets' = Append(packets, p)  BY DEF ReadPacket
  <2>3. lines' = [lines EXCEPT !.raw = lines.raw + 1, !.essential = lines.essential + 1]  BY DEF ReadPacket
  <2>4. p.app.kind = "dns_query" => p.app = [kind |-> "dns_query", txid |-> p.app.txid, name |-> p.app.name]
    BY <2>1, PacketAssumption
  <2> HIDE DEF p
  <2> QED  BY <2>1, <2>2, <2>3, <2>4 DEF LastRead
<1> HIDE DEF p
<1>3. PacketsSound'  BY <1>2, PacketsMore DEF IInv
<1>4. DnsSound'  BY <1>1, <1>2, DnsStep DEF IInv
<1>5. HttpSound'  BY <1>1, <1>2, HttpStep DEF IInv
<1>6. TlsSound'  BY <1>1, <1>2, TlsStep DEF IInv
<1> QED  BY <1>3, <1>4, <1>5, <1>6 DEF IInv

LEMMA IInvStep == IInv /\ [Next]_vars => IInv'
<1> SUFFICES ASSUME IInv, [Next]_vars  PROVE IInv'
  OBVIOUS
<1>1. CASE ReadMalformed  BY <1>1, IInvLine DEF ReadMalformed
<1>2. CASE ReadUnnumbered  BY <1>2, IInvLine DEF ReadUnnumbered
<1>3. CASE \E p \in Packet, g \in Gap : ReadPacket(p, g)  BY <1>3, IInvPacket
<1>4. CASE RefuseFields \/ GiveUp \/ Extract \/ EndOfFile
  BY <1>4, IInvSame DEF RefuseFields, GiveUp, Extract, EndOfFile, Unread
<1>5. CASE Analyze  BY <1>5, IInvSame DEF Analyze
<1>6. ASSUME NEW s, NEW w, Finish(s, w)  PROVE IInv'  BY <1>6, IInvSame DEF Finish
<1>7. CASE NextCapture  BY <1>7, IInvSame DEF NextCapture
<1>8. CASE UNCHANGED vars  BY <1>8, IInvSame DEF vars, captureVars
<1> QED  BY <1>1, <1>2, <1>3, <1>4, <1>5, <1>6, <1>7, <1>8 DEF Next, Normalize, CaptureNext, Read

-----------------------------------------------------------------------------
(* What the invariant says of all exchanges together.                      *)

LEMMA AllHeld ==
  ASSUME NEW x, NEW Q, NEW A, Paired(x, Q, A)
  PROVE  Range(All(x)) = Held(x)
<1>1. IsList(x.pending) /\ IsList(x.done)  BY DEF Paired, PendingSound, DoneSound
<1> DEFINE S == Held(x)
           a == x.done
           b == x.pending
           c == All(x)
<1>2. a \in Seq(S) /\ b \in Seq(S)  BY <1>1 DEF IsList, Held, Range
<1>3. /\ c \in Seq(S) /\ Len(c) = Len(a) + Len(b)
      /\ \A i \in 1..Len(a) : c[i] = a[i]
      /\ \A i \in Len(a) + 1..Len(a) + Len(b) : c[i] = b[i - Len(a)]
  <2> HIDE DEF S, a, b
  <2>1. (a \o b) = c  BY DEF All, a, b
  <2>2. /\ a \o b \in Seq(S) /\ Len(a \o b) = Len(a) + Len(b)
        /\ \A i \in 1..Len(a) : (a \o b)[i] = a[i]
        /\ \A i \in Len(a) + 1..Len(a) + Len(b) : (a \o b)[i] = b[i - Len(a)]
    BY <1>2, Joined
  <2> HIDE DEF c
  <2> QED  BY <2>1, <2>2
<1>4. DOMAIN a = 1..Len(a) /\ DOMAIN b = 1..Len(b) /\ Len(a) \in Nat /\ Len(b) \in Nat  BY <1>1, ListFacts
<1> HIDE DEF a, b, c
<1>5. DOMAIN c = 1..Len(a) + Len(b)  BY <1>3
<1>6. \A i \in DOMAIN c : c[i] \in S  BY <1>3
<1>7. \A i \in DOMAIN a : i \in DOMAIN c /\ c[i] = a[i]  BY <1>3, <1>4, <1>5
<1>8. \A i \in DOMAIN b : i + Len(a) \in DOMAIN c /\ c[i + Len(a)] = b[i]
  <2> TAKE i \in DOMAIN b
  <2>1. i + Len(a) \in Len(a) + 1..Len(a) + Len(b) /\ (i + Len(a)) - Len(a) = i  BY <1>4
  <2>2. i + Len(a) \in DOMAIN c  BY <1>4, <1>5, <2>1
  <2> QED  BY <1>3, <2>1, <2>2
<1>9. S = Range(a) \cup Range(b)  BY DEF Held, a, b
<1>10. Range(c) = S
  <2>1. Range(c) \subseteq S  BY <1>6 DEF Range
  <2>2. Range(a) \subseteq Range(c)  BY <1>7 DEF Range
  <2>3. Range(b) \subseteq Range(c)
    <3> SUFFICES ASSUME NEW i \in DOMAIN b  PROVE b[i] \in Range(c)
      BY DEF Range
    <3> QED  BY <1>8 DEF Range
  <2> QED  BY <1>9, <2>1, <2>2, <2>3
<1> QED  BY <1>10 DEF c

\* No number is used twice in a list, and an answer follows its question.
LEMMA PairedNumbers ==
  ASSUME NEW x, NEW Q, NEW A, Paired(x, Q, A), 0 \notin Q \cup A
  PROVE  /\ \A t \in Held(x) : /\ t.asked \in Q \cup {0} /\ t.answered \in A \cup {0}
                               /\ t.asked # 0 /\ t.answered # 0 => t.asked < t.answered
         /\ \A s, t \in Held(x) : s # t => /\ s.asked = 0 \/ s.asked # t.asked
                                           /\ s.answered = 0 \/ s.answered # t.answered
<1>1. /\ \A i \in DOMAIN x.pending : x.pending[i].asked \in Q /\ x.pending[i].answered = 0
      /\ \A i, j \in DOMAIN x.pending : i # j => x.pending[i].asked # x.pending[j].asked
      /\ \A i \in DOMAIN x.done :
           /\ x.done[i].answered \in A
           /\ x.done[i].asked # 0 => x.done[i].asked \in Q /\ x.done[i].asked < x.done[i].answered
      /\ \A i, j \in DOMAIN x.done : i # j =>
           /\ x.done[i].answered # x.done[j].answered
           /\ x.done[i].asked # 0 => x.done[i].asked # x.done[j].asked
      /\ \A i \in DOMAIN x.pending, j \in DOMAIN x.done : x.pending[i].asked # x.done[j].asked
  BY DEF Paired, PendingSound, DoneSound, Apart
<1>2. Held(x) = {x.pending[i] : i \in DOMAIN x.pending} \cup {x.done[i] : i \in DOMAIN x.done}  BY DEF Held, Range
<1>3. \A t \in Held(x) : /\ t.asked \in Q \cup {0} /\ t.answered \in A \cup {0}
                         /\ t.asked # 0 /\ t.answered # 0 => t.asked < t.answered
  BY <1>1, <1>2
<1>4. \A s, t \in Held(x) : s # t => /\ s.asked = 0 \/ s.asked # t.asked
                                     /\ s.answered = 0 \/ s.answered # t.answered
  <2> SUFFICES ASSUME NEW s \in Held(x), NEW t \in Held(x), s # t
               PROVE  (s.asked = 0 \/ s.asked # t.asked) /\ (s.answered = 0 \/ s.answered # t.answered)
    OBVIOUS
  <2>1. CASE s \in Range(x.pending) /\ t \in Range(x.pending)  BY <1>1, <2>1 DEF Range
  <2>2. CASE s \in Range(x.pending) /\ t \in Range(x.done)  BY <1>1, <2>2 DEF Range
  <2>3. CASE s \in Range(x.done) /\ t \in Range(x.pending)  BY <1>1, <2>3 DEF Range
  <2>4. CASE s \in Range(x.done) /\ t \in Range(x.done)  BY <1>1, <2>4 DEF Range
  <2> QED  BY <2>1, <2>2, <2>3, <2>4 DEF Held
<1> QED  BY <1>3, <1>4

LEMMA IInvPairs == IInv => ExchangesPaired
<1> SUFFICES ASSUME IInv  PROVE ExchangesPaired
  OBVIOUS
<1> DEFINE C(kind) == Carrying(packets, kind)
<1>0. PacketsSound  BY DEF IInv
<1>1. /\ Paired(dns, C("dns_query"), C("dns_response")) /\ Paired(http, C("http_request"), C("http_response"))
      /\ Paired(tls, C("client_hello"), C("server_hello"))
      /\ DnsOf(dns, packets) /\ DnsListed(dns, packets)
  BY DEF IInv, DnsSound, HttpSound, TlsSound
<1>2. Exchanges = Held(dns) \cup Held(http) \cup Held(tls) /\ Range(All(dns)) = Held(dns)  BY <1>1, AllHeld DEF Exchanges
<1>3. \A kind : 0 \notin C(kind)  BY <1>0, Numbers
<1>4. \A k1, k2 : k1 # k2 => C(k1) \cap C(k2) = {}  BY <1>0, OwnNumber DEF Carrying
<1>5. \A i \in DOMAIN packets : PacketOf(packets[i].num) = packets[i]  BY <1>0, OwnNumber DEF PacketOf
<1>6. /\ \A t \in Held(dns) : t.asked \in C("dns_query") \cup {0} /\ t.answered \in C("dns_response") \cup {0}
      /\ \A t \in Held(http) : t.asked \in C("http_request") \cup {0} /\ t.answered \in C("http_response") \cup {0}
      /\ \A t \in Held(tls) : t.asked \in C("client_hello") \cup {0} /\ t.answered \in C("server_hello") \cup {0}
      /\ \A t \in Exchanges : t.asked # 0 /\ t.answered # 0 => t.asked < t.answered
  <2> HIDE DEF C
  <2> QED  BY <1>1, <1>2, <1>3, PairedNumbers
<1>7. \A t \in Exchanges : t.asked # 0 /\ t.answered # 0 =>
       /\ t.asked < t.answered
       /\ Carries(PacketOf(t.answered), {"dns_response"}) =>
            PacketOf(t.asked).src = PacketOf(t.answered).dst /\ PacketOf(t.asked).dst = PacketOf(t.answered).src
  <2> SUFFICES ASSUME NEW t \in Exchanges, t.asked # 0, t.answered # 0, PacketOf(t.answered).app.kind = "dns_response"
               PROVE  PacketOf(t.asked).src = PacketOf(t.answered).dst /\ PacketOf(t.asked).dst = PacketOf(t.answered).src
    BY <1>6 DEF Carries
  <2>1. t \in Held(dns)
    <3>1. CASE t \in Held(http)  BY <1>5, <1>6, <3>1 DEF Carrying
    <3>2. CASE t \in Held(tls)  BY <1>5, <1>6, <3>2 DEF Carrying
    <3> QED  BY <1>2, <3>1, <3>2
  <2>2. PICK i \in DOMAIN packets : packets[i].num = t.asked  BY <1>6, <2>1 DEF Carrying
  <2>3. PICK j \in DOMAIN packets : packets[j].num = t.answered  BY <1>6, <2>1 DEF Carrying
  <2>4. AskedBy(t, packets[i]) /\ AnsweredBy(t, packets[j])  BY <1>1, <2>1, <2>2, <2>3 DEF DnsOf
  <2>5. PacketOf(t.asked) = packets[i] /\ PacketOf(t.answered) = packets[j]  BY <1>5, <2>2, <2>3
  <2> QED  BY <2>4, <2>5 DEF AskedBy, AnsweredBy
<1>8. \A s, t \in Exchanges : s # t => (s.asked = 0 \/ s.asked # t.asked) /\ (s.answered = 0 \/ s.answered # t.answered)
  <2> SUFFICES ASSUME NEW s \in Exchanges, NEW t \in Exchanges, s # t
               PROVE  (s.asked = 0 \/ s.asked # t.asked) /\ (s.answered = 0 \/ s.answered # t.answered)
    OBVIOUS
  <2> HIDE DEF C
  <2>1. CASE \E x \in {dns, http, tls} : s \in Held(x) /\ t \in Held(x)  BY <1>1, <1>3, <2>1, PairedNumbers
  <2>2. CASE ~\E x \in {dns, http, tls} : s \in Held(x) /\ t \in Held(x)  BY <1>2, <1>4, <1>6, <2>2
  <2> QED  BY <2>1, <2>2
<1>9. \A i \in DOMAIN packets : Carries(packets[i], {"dns_query"}) =>
       \/ \E t \in Range(All(dns)) : t.asked = packets[i].num
       \/ \E j \in DOMAIN packets : j > i /\ packets[j].app = packets[i].app /\ packets[j].src = packets[i].src /\ packets[j].dst = packets[i].dst
  BY <1>1, <1>2 DEF DnsListed, Repeats, Carries
<1> QED  BY <1>7, <1>8, <1>9 DEF ExchangesPaired

\* Every answer of a capture joins, once, a question that went the other way before it, and
\* every DNS question not repeated since is listed (pipeline.py:319): for any packets, in any
\* order of time, with any reuse of identifiers, over captures of any length.
THEOREM AnswersFindQuestions == Spec => []ExchangesPaired
<1>1. Spec => []IInv  BY IInvStart, IInvStep, PTL DEF Spec
<1> QED  BY <1>1, IInvPairs, PTL
=============================================================================
