------------------------------ MODULE Workflow ------------------------------
(***************************************************************************)
(* The investigation workflow of analyses: its states and assignees, the   *)
(* feedback of analysts, the triage of findings, notifications and the     *)
(* work queue.                                                             *)
(*                                                                         *)
(* A handler reads the analysis and checks the rights of its user against  *)
(* what it read; it writes in one transaction later. SQLAlchemy writes the *)
(* columns whose value differs from the copy, and fails when the row it    *)
(* updates is gone. Every handler runs in a thread of its own.             *)
(***************************************************************************)
EXTENDS Integers, FiniteSets

CONSTANTS
  User, Admin,       \* the users, and those with is_admin
  Analysis, Finding, \* analyses, finding keys of one analysis
  Request,           \* bound: requests ever made
  State, Verdict,    \* the states and verdicts requests ask for
  AlertLimit,        \* recent_feedback_limit of the queue
  Nobody, Gone       \* no assignee; no row

States == {"new", "in_progress", "needs_review", "resolved", "dismissed"}
Verdicts == {"correct", "partially_correct", "incorrect"}
Types == {"assignment", "review_required", "resolved", "feedback_alert"}
Ops == {"state", "assign", "feedback", "triage", "delete"}
Args == States \cup Verdicts \cup User \cup Finding \cup {Nobody}
Row == [owner : User, state : States, assignee : User \cup {Nobody}, completed : BOOLEAN]

ASSUME WorkflowAssumption ==
  /\ Admin \subseteq User /\ Nobody \notin User /\ Gone \notin Row
  /\ State \subseteq States /\ Verdict \subseteq Verdicts

VARIABLES
  rows,       \* the table of analyses
  triage,     \* how many rows a finding has in finding_triage
  feedback,   \* the verdict of a user on an analysis and its turn, or Gone
  notices,    \* notifications: [to, type, analysis, read]
  rq,         \* per request its step, what it asks for and its copy
  made, writes, moved, selfTaken, turn
  \* history: analyses ever created, writes to a row and the one that last changed its
  \* state, who assigned himself; turn orders the feedback

ghosts == <<made, writes, moved, selfTaken>>
vars == <<rows, triage, feedback, notices, rq, turn, ghosts>>

Idle == [step |-> "idle"]
Init ==
  /\ rows = [a \in Analysis |-> Gone]
  /\ triage = [k \in Analysis \X Finding |-> 0]
  /\ feedback = [k \in Analysis \X User |-> Gone]
  /\ notices = {} /\ rq = [r \in Request |-> Idle] /\ turn = 0
  /\ made = {} /\ selfTaken = {}
  /\ writes = [a \in Analysis |-> 0] /\ moved = [a \in Analysis |-> 0]

\* The row was written, and its state with it if that is another one now.
NewState(a) == rows'[a] # Gone /\ (rows[a] = Gone \/ rows'[a].state # rows[a].state)
Written(a) ==
  /\ writes' = [writes EXCEPT ![a] = @ + 1]
  /\ moved' = IF NewState(a) THEN [moved EXCEPT ![a] = writes[a] + 1] ELSE moved

CreateAnalysis(u, a) ==
  /\ a \notin made
  /\ made' = made \cup {a}
  /\ rows' = [rows EXCEPT ![a] = [owner |-> u, state |-> "new", assignee |-> Nobody, completed |-> FALSE]]
  /\ Written(a)
  /\ UNCHANGED <<triage, feedback, notices, rq, turn, selfTaken>>

\* The worker finishes the analysis; no handler of the workflow looks at that.
CompleteAnalysis(a) ==
  /\ rows[a] # Gone
  /\ ~rows[a].completed
  /\ rows' = [rows EXCEPT ![a].completed = TRUE]
  /\ UNCHANGED <<triage, feedback, notices, rq, turn, ghosts>>

-----------------------------------------------------------------------------
(* What a handler reads, and whom it lets in.                              *)

\* _get_analysis_for_workflow
CanView(u, row) == row.owner = u \/ row.assignee = u \/ u \in Admin
\* Mutant: whoever may work on an analysis may reassign it.
CanReassignOrView(u, row) == CanView(u, row)
CanReassign(u, row) == row.owner = u \/ u \in Admin
Owns(u, row) == row.owner = u

Read(r, u, a, op, arg) ==
  /\ rq[r].step = "idle" /\ rows[a] # Gone
  /\ rq' = [rq EXCEPT ![r] = [step |-> op, user |-> u, analysis |-> a, arg |-> arg,
                              copy |-> rows[a], seen |-> writes[a],
                              found |-> op = "triage" /\ triage[<<a, arg>>] > 0]]
  /\ UNCHANGED <<rows, triage, feedback, notices, turn, ghosts>>

ReadForState(r, u, a, s) == Read(r, u, a, "state", s) /\ CanView(u, rows[a])
ReadForAssignee(r, u, a, v) == Read(r, u, a, "assign", v) /\ CanReassign(u, rows[a])
ReadForFeedback(r, u, a, v) == Read(r, u, a, "feedback", v) /\ CanView(u, rows[a])
ReadForTriage(r, u, a, f) == Read(r, u, a, "triage", f) /\ Owns(u, rows[a])
ReadForDelete(r, u, a) == Read(r, u, a, "delete", Nobody) /\ Owns(u, rows[a])

-----------------------------------------------------------------------------
(* What it writes.                                                         *)

\* _notify: nobody is told of what he did himself.
Told(Users, type, a, actor) ==
  {[to |-> v, type |-> type, analysis |-> a, read |-> FALSE] : v \in Users \ {actor, Nobody}}

\* _emit_state_change_notifications, for the row as the handler read it.
StateNotices(q, state) ==
  CASE state = "needs_review" -> Told({q.copy.owner, q.copy.assignee}, "review_required", q.analysis, q.user)
    [] state = "resolved" -> Told({q.copy.owner}, "resolved", q.analysis, q.user)
    [] OTHER -> {}

Finish(r) == rq' = [rq EXCEPT ![r] = [step |-> "done"]]
Fail(r) == Finish(r) /\ UNCHANGED <<rows, triage, feedback, notices, turn, ghosts>>

\* Only what differs from the copy is written.
SetState(row, copy, s) == IF s = copy.state THEN row ELSE [row EXCEPT !.state = s]
SetAssignee(row, copy, v) == IF v = copy.assignee THEN row ELSE [row EXCEPT !.assignee = v]

UpdateState(r) ==
  LET q == rq[r] a == q.analysis IN
  /\ q.step = "state"
  /\ \/ rows[a] = Gone /\ Fail(r)
     \/ /\ rows[a] # Gone
        /\ rows' = [rows EXCEPT ![a] = SetState(@, q.copy, q.arg)]
        /\ notices' = notices \cup (IF q.arg = q.copy.state THEN {} ELSE StateNotices(q, q.arg))
        /\ Finish(r) /\ Written(a)
        /\ UNCHANGED <<triage, feedback, turn, made, selfTaken>>

\* Mutant: a new assignee hears of it only when there was one before.
AssigneeNoticesOfChange(q) ==
  IF q.copy.assignee \in {Nobody, q.arg} THEN {} ELSE Told({q.arg}, "assignment", q.analysis, q.user)
AssigneeNotices(q) ==
  IF q.copy.assignee = q.arg THEN {} ELSE Told({q.arg}, "assignment", q.analysis, q.user)

UpdateAssignee(r) ==
  LET q == rq[r] a == q.analysis IN
  /\ q.step = "assign"
  /\ \/ rows[a] = Gone /\ Fail(r)
     \/ /\ rows[a] # Gone
        /\ rows' = [rows EXCEPT ![a] = SetAssignee(@, q.copy, q.arg)]
        /\ notices' = notices \cup AssigneeNotices(q)
        /\ selfTaken' = IF q.arg = q.user THEN selfTaken \cup {<<q.user, a>>} ELSE selfTaken
        /\ Finish(r) /\ Written(a)
        /\ UNCHANGED <<triage, feedback, turn, made>>

\* Mutant: a verdict moves whatever is not dismissed.
AutoStateOfAny(copy, verdict) ==
  IF copy.state = "dismissed" THEN Nobody ELSE IF verdict = "incorrect" THEN "needs_review" ELSE "resolved"
\* The state a verdict moves an open analysis to.
AutoState(copy, verdict) ==
  IF copy.state \notin {"new", "in_progress"} THEN Nobody
  ELSE IF verdict = "incorrect" THEN "needs_review" ELSE "resolved"

\* upsert_path_feedback; without a change of state the analysis is not looked at again.
UpsertFeedback(r) ==
  LET q == rq[r] a == q.analysis auto == AutoState(q.copy, q.arg)
      alert == IF q.arg = "incorrect"
               THEN Told({q.copy.owner, q.copy.assignee}, "feedback_alert", a, q.user) ELSE {}
  IN /\ q.step = "feedback"
     /\ \/ rows[a] = Gone /\ auto # Nobody /\ Fail(r)
        \/ /\ rows[a] # Gone \/ auto = Nobody
           /\ feedback' = [feedback EXCEPT ![<<a, q.user>>] = [verdict |-> q.arg, turn |-> turn]]
           /\ turn' = turn + 1
           /\ IF auto = Nobody
              THEN /\ notices' = notices \cup alert
                   /\ UNCHANGED <<rows, writes, moved>>
              ELSE /\ notices' = notices \cup alert \cup StateNotices(q, auto)
                   /\ rows' = [rows EXCEPT ![a] = SetState(@, q.copy, auto)]
                   /\ Written(a)
           /\ Finish(r)
           /\ UNCHANGED <<triage, made, selfTaken>>

\* upsert_triage: a second row when another request created one meanwhile; an
\* update of a row deleted meanwhile fails.
UpsertTriage(r) ==
  LET q == rq[r] k == <<q.analysis, q.arg>> IN
  /\ q.step = "triage"
  /\ triage' = IF q.found THEN triage ELSE [triage EXCEPT ![k] = @ + 1]
  /\ Finish(r)
  /\ UNCHANGED <<rows, feedback, notices, turn, ghosts>>

\* delete_analysis: triage and notifications go with the row, feedback stays. To delete
\* a row that is gone already is only warned of.
Spared(a) == {n \in notices : n.analysis # a}

DeleteAnalysis(r) ==
  LET a == rq[r].analysis IN
  /\ rq[r].step = "delete"
  /\ rows' = [rows EXCEPT ![a] = Gone]
  /\ triage' = [k \in Analysis \X Finding |-> IF k[1] = a THEN 0 ELSE triage[k]]
  /\ notices' = Spared(a)
  /\ Finish(r) /\ Written(a)
  /\ UNCHANGED <<feedback, turn, made, selfTaken>>

\* mark_notifications_read, with ids or all=true: of others' it marks none.
MarkRead(u, N) ==
  /\ N \subseteq {n \in notices : n.to = u /\ ~n.read} /\ N # {}
  /\ notices' = (notices \ N) \cup {[n EXCEPT !.read = TRUE] : n \in N}
  /\ UNCHANGED <<rows, triage, feedback, rq, turn, ghosts>>

-----------------------------------------------------------------------------
(* What users are shown.                                                   *)

\* list_analyses
Listed(u, assignedToMe) ==
  {a \in Analysis : rows[a] # Gone /\ (rows[a].owner = u \/ (assignedToMe /\ rows[a].assignee = u))}

Completed(u) == {a \in Listed(u, TRUE) : rows[a].completed}
OfState(A, S) == {a \in A : rows[a].state \in S}

\* Turns of the feedback that calls an analysis incorrect.
Alarms(a) == {feedback[<<a, u>>].turn : u \in {v \in User : /\ feedback[<<a, v>>] # Gone
                                                            /\ feedback[<<a, v>>].verdict = "incorrect"}}
Newer(a, b) == \E t \in Alarms(a) : \A s \in Alarms(b) : t > s

\* Mutant: what is assigned to me and new is left to its owner.
MineOf(u, A) == OfState({a \in A : rows[a].assignee = u}, {"in_progress"})
Mine(u, A) == {a \in A : rows[a].assignee = u} \ OfState(A, {"needs_review", "resolved", "dismissed"})

\* get_work_queue
Queue(u) ==
  LET all == Completed(u)
      review == OfState(all, {"needs_review"})
      alarmed == {a \in all \ review : Alarms(a) # {}}
      alerts == {a \in alarmed : Cardinality({b \in alarmed : Newer(b, a)}) < AlertLimit}
      mine == Mine(u, all \ (review \cup alerts))
      rest == {a \in all \ (review \cup alerts \cup mine) : rows[a].owner = u}
  IN [needs_review |-> review, recent_feedback_alerts |-> alerts, assigned_to_me |-> mine,
      new_analyses |-> OfState(rest, {"new"}), unresolved_owned |-> OfState(rest, {"in_progress"}),
      recent_resolved |-> OfState(all, {"resolved", "dismissed"})]

\* dashboard_summary: an administrator's counts are of all analyses.
Dashboard(u) ==
  LET seen == IF u \in Admin THEN {a \in Analysis : rows[a] # Gone /\ rows[a].completed} ELSE Completed(u)
      count(S) == Cardinality(OfState(seen, S))
  IN [total_open |-> count({"new", "in_progress", "needs_review"}),
      needs_review |-> count({"needs_review"}), new_analyses |-> count({"new"})]

-----------------------------------------------------------------------------
Requests(r) ==
  \/ \E u \in User, a \in Analysis :
       \/ \E s \in State : ReadForState(r, u, a, s)
       \/ \E v \in User \cup {Nobody} : ReadForAssignee(r, u, a, v)
       \/ \E v \in Verdict : ReadForFeedback(r, u, a, v)
       \/ \E f \in Finding : ReadForTriage(r, u, a, f)
       \/ ReadForDelete(r, u, a)
  \/ UpdateState(r) \/ UpdateAssignee(r) \/ UpsertFeedback(r) \/ UpsertTriage(r) \/ DeleteAnalysis(r)

Next ==
  \/ \E u \in User, a \in Analysis : CreateAnalysis(u, a)
  \/ \E a \in Analysis : CompleteAnalysis(a)
  \/ \E r \in Request : Requests(r)
  \/ \E u \in User : \E N \in SUBSET notices : MarkRead(u, N)

Spec == Init /\ [][Next]_vars

-----------------------------------------------------------------------------
(* Properties.                                                             *)

Asked == [step : Ops, user : User, analysis : Analysis, arg : Args, copy : Row, seen : Nat,
          found : BOOLEAN]

TypeOK ==
  /\ rows \in [Analysis -> Row \cup {Gone}]
  /\ triage \in [Analysis \X Finding -> Nat]
  /\ feedback \in [Analysis \X User -> [verdict : Verdicts, turn : Nat] \cup {Gone}]
  /\ notices \subseteq [to : User, type : Types, analysis : Analysis, read : BOOLEAN]
  /\ rq \in [Request -> {Idle, [step |-> "done"]} \cup Asked]
  /\ made \subseteq Analysis /\ {writes, moved} \subseteq [Analysis -> Nat] /\ selfTaken \subseteq User \X Analysis
  /\ turn \in Nat

\* The request of r writes in this step.
Writes(r) == rq[r].step \in Ops /\ rq'[r] # rq[r] /\ <<rows, triage, feedback>>' # <<rows, triage, feedback>>
\* Somebody wrote the row of the analysis after r had read it.
Overlapped(r) == rq[r].seen # writes[rq[r].analysis]

\* Nobody changes an analysis, or what hangs on it, without the right to, and nothing
\* is hung on a deleted one, unless the request had read the row before it changed
\* (main.py:1079, main.py:5306).
StaleRightsNeedOverlap ==
  [][\A r \in Request :
       LET row == rows[rq[r].analysis] u == rq[r].user IN
       Writes(r) /\ ~Overlapped(r) =>
         /\ row # Gone
         /\ rq[r].step \in {"state", "feedback"} => CanView(u, row)
         /\ rq[r].step = "assign" => u = row.owner \/ u \in Admin
         /\ rq[r].step \in {"triage", "delete"} => u = row.owner]_vars

\* A verdict moves an analysis out of needs_review, resolved or dismissed only if it was
\* brought there between the request's read and its write, where main.py:2360 says never;
\* a write in between that leaves the state, an assignment, is no excuse. And the state an
\* analyst asked for is the one that stands, unless another was set in that time: what
\* differs from the row but not from the copy is answered, and not written.
DecisionsStand ==
  [][\A r \in Request :
       LET q == rq[r] a == q.analysis IN
       /\ (/\ q.step = "feedback" /\ rq'[r] # q /\ rows'[a] # rows[a]
           /\ rows[a].state \notin {"new", "in_progress"}) => moved[a] > q.seen
       /\ (/\ q.step = "state" /\ rq'[r] # q /\ rows'[a] # Gone
           /\ rows'[a].state # q.arg) => moved[a] > q.seen]_vars

\* Whoever an analysis is assigned to was told so, or took it himself, in whatever
\* order the requests that change and delete it are handled (main.py:608).
AssigneeWasTold ==
  \A a \in Analysis :
    rows[a] # Gone => \/ rows[a].assignee = Nobody
                      \/ <<rows[a].assignee, a>> \in selfTaken
                      \/ \E n \in notices : /\ n.to = rows[a].assignee
                                            /\ n.type = "assignment" /\ n.analysis = a

\* No notification links to an analysis that is gone, except an alert of feedback that
\* was handled while the analysis was deleted (main.py:1036).
NoticesLeadSomewhere ==
  \A n \in notices : n.type # "feedback_alert" => rows[n.analysis] # Gone

\* Every analysis a user can see that is completed and not closed waits in exactly one
\* section of his queue before the last one, and the dashboard of a user who is no
\* administrator counts just these (get_work_queue, dashboard_summary).
OpenWorkIsQueued ==
  \A u \in User :
    LET q == Queue(u)
        open == {a \in Completed(u) : rows[a].state \notin {"resolved", "dismissed"}}
    IN /\ \A a \in open : Cardinality({k \in DOMAIN q \ {"recent_resolved"} : a \in q[k]}) = 1
       /\ u \notin Admin => Dashboard(u).total_open = Cardinality(open)
=============================================================================
