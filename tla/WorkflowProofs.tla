--------------------------- MODULE WorkflowProofs ---------------------------
(***************************************************************************)
(* The handlers of the analysis workflow, for any number of requests,      *)
(* users and analyses.                                                     *)
(***************************************************************************)
EXTENDS Workflow, FiniteSetTheorems, TLAPS

Done == [step |-> "done"]

LEMMA AskedByStep ==
  ASSUME NEW q \in {Idle, Done} \cup Asked
  PROVE  /\ q.step \in Ops => q \in Asked
         /\ q.step = "idle" => q = Idle
  BY DEF Asked, Idle, Done, Ops

\* A request that ends carries nothing.
LEMMA Finished ==
  ASSUME rq \in [Request -> {Idle, Done} \cup Asked], NEW r \in Request, Finish(r)
  PROVE  /\ rq' \in [Request -> {Idle, Done} \cup Asked]
         /\ rq'[r] = Done
         /\ \A s \in Request \ {r} : rq'[s] = rq[s]
  BY DEF Finish, Done

LEMMA Counted ==
  ASSUME writes \in [Analysis -> Nat], moved \in [Analysis -> Nat], NEW a \in Analysis, Written(a)
  PROVE  /\ writes' \in [Analysis -> Nat] /\ moved' \in [Analysis -> Nat]
         /\ writes'[a] = writes[a] + 1
         /\ moved'[a] = IF NewState(a) THEN writes[a] + 1 ELSE moved[a]
         /\ \A b \in Analysis \ {a} : writes'[b] = writes[b] /\ moved'[b] = moved[b]
  BY DEF Written

LEMMA ToldTypes ==
  ASSUME NEW Users \in SUBSET (User \cup {Nobody}), NEW type \in Types, NEW a \in Analysis, NEW u
  PROVE  Told(Users, type, a, u) \subseteq
           [to : User, type : {type}, analysis : {a}, read : {FALSE}]
<1>1. ASSUME NEW v \in Users \ {u, Nobody}
      PROVE  [to |-> v, type |-> type, analysis |-> a, read |-> FALSE]
               \in [to : User, type : {type}, analysis : {a}, read : {FALSE}]
  OBVIOUS
<1> QED  BY <1>1 DEF Told

Notice == [to : User, type : Types, analysis : Analysis, read : BOOLEAN]

LEMMA StateNoticesTypes ==
  ASSUME NEW q \in Asked, NEW s
  PROVE  StateNotices(q, s) \subseteq [to : User, type : {"review_required", "resolved"},
                                       analysis : {q.analysis}, read : {FALSE}]
<1>1. /\ q.copy.owner \in User /\ q.copy.assignee \in User \cup {Nobody}
      /\ q.analysis \in Analysis
  BY DEF Asked, Row
<1>2. CASE s = "needs_review"
  <2>1. Told({q.copy.owner, q.copy.assignee}, "review_required", q.analysis, q.user)
          \subseteq [to : User, type : {"review_required"}, analysis : {q.analysis}, read : {FALSE}]
    BY <1>1, ToldTypes, ZenonT(60) DEF Types
  <2> QED  BY <1>2, <2>1 DEF StateNotices
<1>3. CASE s = "resolved"
  <2>1. Told({q.copy.owner}, "resolved", q.analysis, q.user)
          \subseteq [to : User, type : {"resolved"}, analysis : {q.analysis}, read : {FALSE}]
    BY <1>1, ToldTypes, ZenonT(60) DEF Types
  <2> QED  BY <1>3, <2>1 DEF StateNotices
<1> QED  BY <1>2, <1>3 DEF StateNotices

LEMMA NoticeSubsets ==
  ASSUME NEW types \in SUBSET Types, NEW a \in Analysis
  PROVE  [to : User, type : types, analysis : {a}, read : {FALSE}] \subseteq Notice
  BY DEF Notice

LEMMA AssigneeNoticesTypes ==
  ASSUME NEW q \in Asked, q.step = "assign", q.arg \in User \cup {Nobody}
  PROVE  AssigneeNotices(q) \subseteq [to : User, type : {"assignment"}, analysis : {q.analysis},
                                       read : {FALSE}]
<1>1. q.analysis \in Analysis /\ {q.arg} \in SUBSET (User \cup {Nobody})  BY DEF Asked
<1>2. Told({q.arg}, "assignment", q.analysis, q.user)
        \subseteq [to : User, type : {"assignment"}, analysis : {q.analysis}, read : {FALSE}]
  BY <1>1, ToldTypes DEF Types
<1> QED  BY <1>2 DEF AssigneeNotices

\* What a request asks for fits its step.
ArgsFit ==
  \A r \in Request :
    /\ rq[r].step = "state" => rq[r].arg \in States
    /\ rq[r].step = "assign" => rq[r].arg \in User \cup {Nobody}
    /\ rq[r].step = "feedback" => rq[r].arg \in Verdicts
    /\ rq[r].step = "triage" => rq[r].arg \in Finding

\* What a request read is still so unless the row was written since, apart from the
\* worker's mark, and its user had the right it needs.
CopyIsFresh(r) ==
  LET q == rq[r] row == rows[rq[r].analysis] IN
  q.seen = writes[q.analysis] =>
    /\ row # Gone
    /\ row.owner = q.copy.owner /\ row.state = q.copy.state /\ row.assignee = q.copy.assignee
\* Its state is the one that was read unless it moved since.
StateIsKnown(r) ==
  LET q == rq[r] row == rows[rq[r].analysis] IN
  row # Gone => row.state = q.copy.state \/ moved[q.analysis] > q.seen
HadTheRight(r) ==
  LET q == rq[r] IN
  /\ q.step \in {"state", "feedback"} => CanView(q.user, q.copy)
  /\ q.step = "assign" => q.user = q.copy.owner \/ q.user \in Admin
  /\ q.step \in {"triage", "delete"} => q.user = q.copy.owner
Checked ==
  \A r \in Request : rq[r].step \in Ops =>
    /\ rq[r].seen <= writes[rq[r].analysis]
    /\ CopyIsFresh(r) /\ StateIsKnown(r) /\ HadTheRight(r)

Assigned(a) ==
  rows[a] # Gone => \/ rows[a].assignee = Nobody
                    \/ <<rows[a].assignee, a>> \in selfTaken
                    \/ \E n \in notices : /\ n.to = rows[a].assignee
                                          /\ n.type = "assignment" /\ n.analysis = a

IInv == TypeOK /\ ArgsFit /\ Checked /\ AssigneeWasTold /\ NoticesLeadSomewhere

-----------------------------------------------------------------------------
(* What every answered request leaves as it was.                           *)

LEMMA OthersChecked ==
  ASSUME TypeOK, Checked, NEW r \in Request, Finish(r),
         \/ UNCHANGED <<rows, writes, moved>>
         \/ \E a \in Analysis : Written(a) /\ \A b \in Analysis \ {a} : rows'[b] = rows[b]
  PROVE  Checked'
<1> SUFFICES ASSUME NEW s \in Request, rq'[s].step \in Ops
             PROVE  /\ rq'[s].seen <= writes'[rq'[s].analysis]
                    /\ CopyIsFresh(s)' /\ StateIsKnown(s)' /\ HadTheRight(s)'
  BY DEF Checked
<1>1. s # r /\ rq'[s] = rq[s] /\ rq[s] \in Asked
  <2>1. rq \in [Request -> {Idle, Done} \cup Asked]  BY DEF TypeOK, Done
  <2>2. rq'[r].step \notin Ops  BY <2>1, Finished DEF Done, Ops
  <2>3. s # r  BY <2>2
  <2>4. rq'[s] = rq[s]  BY <2>1, <2>3, Finished
  <2> QED  BY <2>1, <2>3, <2>4, AskedByStep
<1>2. /\ rq[s].analysis \in Analysis /\ rq[s].seen \in Nat
      /\ rq[s].seen <= writes[rq[s].analysis] /\ CopyIsFresh(s) /\ StateIsKnown(s) /\ HadTheRight(s)
  BY <1>1 DEF Checked, Asked
<1>3. HadTheRight(s)'  BY <1>1, <1>2 DEF HadTheRight, CanView
<1>4. CASE UNCHANGED <<rows, writes, moved>>  BY <1>1, <1>2, <1>3, <1>4 DEF CopyIsFresh, StateIsKnown
<1>5. ASSUME NEW a \in Analysis, Written(a), \A b \in Analysis \ {a} : rows'[b] = rows[b]
      PROVE  rq'[s].seen <= writes'[rq'[s].analysis] /\ CopyIsFresh(s)' /\ StateIsKnown(s)'
  <2>1. writes \in [Analysis -> Nat] /\ moved \in [Analysis -> Nat]  BY DEF TypeOK
  <2>2. CASE rq[s].analysis = a
    <3>1. /\ writes'[a] = writes[a] + 1 /\ writes[a] \in Nat
          /\ moved'[a] = IF NewState(a) THEN writes[a] + 1 ELSE moved[a]
      BY <2>1, <1>5, Counted
    <3>2. rq[s].seen <= writes'[a] /\ CopyIsFresh(s)'  BY <1>1, <1>2, <2>2, <3>1 DEF CopyIsFresh
    <3>3. StateIsKnown(s)'
      <4>1. CASE NewState(a)  BY <1>1, <1>2, <2>2, <3>1, <4>1 DEF StateIsKnown
      <4>2. CASE ~NewState(a)  BY <1>1, <1>2, <2>2, <3>1, <4>2 DEF StateIsKnown, NewState
      <4> QED  BY <4>1, <4>2
    <3> QED  BY <1>1, <2>2, <3>2, <3>3
  <2>3. CASE rq[s].analysis # a
    <3>1. /\ writes'[rq[s].analysis] = writes[rq[s].analysis] /\ rows'[rq[s].analysis] = rows[rq[s].analysis]
          /\ moved'[rq[s].analysis] = moved[rq[s].analysis]
      BY <1>2, <1>5, <2>1, <2>3, Counted
    <3> QED  BY <1>1, <1>2, <3>1 DEF CopyIsFresh, StateIsKnown
  <2> QED  BY <2>2, <2>3
<1> QED  BY <1>3, <1>4, <1>5

LEMMA OthersFit ==
  ASSUME TypeOK, ArgsFit, NEW r \in Request, Finish(r)
  PROVE  ArgsFit'
<1>1. rq \in [Request -> {Idle, Done} \cup Asked]  BY DEF TypeOK, Done
<1>2. /\ rq'[r].step = "done"
      /\ \A s \in Request \ {r} : rq'[s] = rq[s]
  BY <1>1, Finished DEF Done
<1> QED  BY <1>2 DEF ArgsFit

\* A failed request only ends.
LEMMA FailKept == ASSUME IInv, NEW r \in Request, Fail(r) PROVE IInv'
<1> USE DEF IInv
<1>1. Finish(r) /\ UNCHANGED <<rows, triage, feedback, notices, turn, ghosts>>  BY DEF Fail
<1>2. ArgsFit' /\ Checked'  BY <1>1, OthersFit, OthersChecked DEF ghosts
<1>3. TypeOK'
  <2>1. rq \in [Request -> {Idle, Done} \cup Asked]  BY DEF TypeOK, Done
  <2>2. rq' \in [Request -> {Idle, Done} \cup Asked]  BY <1>1, <2>1, Finished
  <2> QED  BY <1>1, <2>2 DEF TypeOK, ghosts, Done
<1>4. AssigneeWasTold' /\ NoticesLeadSomewhere'
  BY <1>1 DEF AssigneeWasTold, NoticesLeadSomewhere, ghosts
<1> QED  BY <1>2, <1>3, <1>4

\* A handler that read and checked carries what it needs.
LEMMA ReadKept ==
  ASSUME IInv, NEW r \in Request, NEW u \in User, NEW a \in Analysis, NEW op \in Ops,
         NEW arg \in Args, Read(r, u, a, op, arg),
         /\ op = "state" => arg \in States
         /\ op = "assign" => arg \in User \cup {Nobody}
         /\ op = "feedback" => arg \in Verdicts
         /\ op = "triage" => arg \in Finding,
         /\ op \in {"state", "feedback"} => CanView(u, rows[a])
         /\ op = "assign" => u = rows[a].owner \/ u \in Admin
         /\ op \in {"triage", "delete"} => u = rows[a].owner
  PROVE  IInv'
<1> USE DEF IInv
<1> DEFINE q == [step |-> op, user |-> u, analysis |-> a, arg |-> arg, copy |-> rows[a],
                 seen |-> writes[a], found |-> op = "triage" /\ triage[<<a, arg>>] > 0]
<1>1. /\ rows[a] # Gone /\ rq' = [rq EXCEPT ![r] = q]
      /\ UNCHANGED <<rows, triage, feedback, notices, turn, ghosts>>
  BY DEF Read
<1>2. rows[a] \in Row /\ writes[a] \in Nat  BY <1>1 DEF TypeOK
<1>3. (op = "triage" /\ triage[<<a, arg>>] > 0) \in BOOLEAN  OBVIOUS
<1>4. q \in Asked  BY <1>2, <1>3 DEF Asked
<1> HIDE DEF q
<1>5. rq'[r] = q /\ \A s \in Request \ {r} : rq'[s] = rq[s]  BY <1>1 DEF TypeOK
<1>6. TypeOK'
  <2>1. rq' \in [Request -> {Idle, [step |-> "done"]} \cup Asked]  BY <1>1, <1>4 DEF TypeOK
  <2> QED  BY <1>1, <2>1 DEF TypeOK, ghosts
<1>7. ArgsFit'
  <2>1. q.step = op /\ q.arg = arg  BY DEF q
  <2> QED  BY <1>5, <2>1 DEF ArgsFit
<1>8. Checked'
  <2> SUFFICES ASSUME NEW s \in Request, rq'[s].step \in Ops
               PROVE  /\ rq'[s].seen <= writes'[rq'[s].analysis]
                      /\ CopyIsFresh(s)' /\ StateIsKnown(s)' /\ HadTheRight(s)'
    BY DEF Checked
  <2>1. rows' = rows /\ writes' = writes /\ moved' = moved  BY <1>1 DEF ghosts
  <2>2. CASE s = r
    <3>1. /\ q.step = op /\ q.user = u /\ q.analysis = a /\ q.copy = rows[a] /\ q.seen = writes[a]
      BY DEF q
    <3> QED  BY <1>1, <1>2, <1>5, <2>1, <2>2, <3>1 DEF CopyIsFresh, StateIsKnown, HadTheRight
  <2>3. CASE s # r
    <3>1. rq'[s] = rq[s]  BY <1>5, <2>3
    <3> QED  BY <2>1, <3>1 DEF Checked, StateIsKnown, CopyIsFresh, HadTheRight
  <2> QED  BY <2>2, <2>3
<1>9. AssigneeWasTold' /\ NoticesLeadSomewhere'
  BY <1>1 DEF AssigneeWasTold, NoticesLeadSomewhere, ghosts
<1> QED  BY <1>6, <1>7, <1>8, <1>9

-----------------------------------------------------------------------------
(* The answered requests.                                                  *)

\* What a request carries when it answers.
LEMMA Carried ==
  ASSUME IInv, NEW r \in Request, rq[r].step \in Ops
  PROVE  /\ rq[r] \in Asked /\ rq[r].analysis \in Analysis /\ rq[r].user \in User
         /\ rq \in [Request -> {Idle, Done} \cup Asked]
<1>1. rq \in [Request -> {Idle, Done} \cup Asked]  BY DEF IInv, TypeOK, Done
<1>2. rq[r] \in Asked  BY <1>1, AskedByStep
<1> QED  BY <1>1, <1>2 DEF Asked

\* A row that changes its state or assignee stays a row.
LEMMA RowKept ==
  ASSUME NEW row \in Row, NEW copy, NEW s \in States
  PROVE  SetState(row, copy, s) \in Row /\ SetState(row, copy, s).assignee = row.assignee
  BY DEF SetState, Row

LEMMA AssigneeSet ==
  ASSUME NEW row \in Row, NEW copy, NEW v \in User \cup {Nobody}
  PROVE  /\ SetAssignee(row, copy, v) \in Row
         /\ SetAssignee(row, copy, v).assignee \in {row.assignee, v}
         /\ v = copy.assignee => SetAssignee(row, copy, v).assignee = row.assignee
  BY DEF SetAssignee, Row

\* More notifications, and the same assignees.
LEMMA ToldStays ==
  ASSUME AssigneeWasTold, notices \subseteq notices', selfTaken \subseteq selfTaken',
         \A a \in Analysis : rows'[a] # Gone => rows[a] # Gone /\ rows'[a].assignee = rows[a].assignee
  PROVE  AssigneeWasTold'
<1> SUFFICES ASSUME NEW a \in Analysis, rows'[a] # Gone
             PROVE  \/ rows'[a].assignee = Nobody
                    \/ <<rows'[a].assignee, a>> \in selfTaken'
                    \/ \E n \in notices' : /\ n.to = rows'[a].assignee
                                           /\ n.type = "assignment" /\ n.analysis = a
  BY DEF AssigneeWasTold
<1>1. rows[a] # Gone /\ rows'[a].assignee = rows[a].assignee  OBVIOUS
<1> QED  BY <1>1 DEF AssigneeWasTold

LEMMA LinksStay ==
  ASSUME NoticesLeadSomewhere, NEW a, NEW new, notices' = notices \cup new,
         \A n \in new : n.analysis = a \/ n.type = "feedback_alert",
         rows'[a] # Gone \/ \A n \in new : n.type = "feedback_alert",
         \A n \in notices : rows[n.analysis] # Gone => rows'[n.analysis] # Gone
  PROVE  NoticesLeadSomewhere'
  BY DEF NoticesLeadSomewhere

LEMMA StateKept == ASSUME IInv, NEW r \in Request, UpdateState(r) PROVE IInv'
<1> USE DEF IInv
<1> DEFINE q == rq[r] a == q.analysis
           new == IF q.arg = q.copy.state THEN {} ELSE StateNotices(q, q.arg)
<1>1. q.step = "state" /\ q.step \in Ops  BY DEF UpdateState, Ops
<1>2. q \in Asked /\ a \in Analysis /\ rq \in [Request -> {Idle, Done} \cup Asked]
  BY <1>1, Carried
<1>3. CASE rows[a] = Gone /\ Fail(r)  BY <1>3, FailKept
<1>4. CASE /\ rows[a] # Gone
           /\ rows' = [rows EXCEPT ![a] = SetState(@, q.copy, q.arg)]
           /\ notices' = notices \cup new
           /\ Finish(r) /\ Written(a)
           /\ UNCHANGED <<triage, feedback, turn, made, selfTaken>>
  <2>1. q.arg \in States  BY <1>1 DEF ArgsFit
  <2>2. rows[a] \in Row  BY <1>2, <1>4 DEF TypeOK
  <2>3. /\ rows'[a] = SetState(rows[a], q.copy, q.arg)
        /\ \A b \in Analysis \ {a} : rows'[b] = rows[b]
    BY <1>2, <1>4 DEF TypeOK
  <2>4. rows'[a] \in Row /\ rows'[a].assignee = rows[a].assignee  BY <2>1, <2>2, <2>3, RowKept
  <2>5. new \subseteq [to : User, type : {"review_required", "resolved"}, analysis : {a}, read : {FALSE}]
    BY <1>2, StateNoticesTypes
  <2>6. new \subseteq Notice  BY <1>2, <2>5, NoticeSubsets DEF Types
  <2>7. Gone \notin Row  BY WorkflowAssumption
  <2>8. TypeOK'
    <3>1. rows' \in [Analysis -> Row \cup {Gone}]  BY <1>2, <1>4, <2>3, <2>4 DEF TypeOK
    <3>2. {writes', moved'} \subseteq [Analysis -> Nat]  BY <1>2, <1>4, Counted DEF TypeOK
    <3>3. rq' \in [Request -> {Idle, [step |-> "done"]} \cup Asked]  BY <1>2, <1>4, Finished DEF Done
    <3>4. notices' \subseteq Notice
      <4>1. notices \subseteq Notice  BY DEF TypeOK, Notice
      <4> QED  BY <1>4, <2>6, <4>1
    <3> QED  BY <1>4, <3>1, <3>2, <3>3, <3>4 DEF TypeOK, Notice
  <2>9. ArgsFit'  BY <1>4, OthersFit
  <2>10. Checked'  BY <1>2, <1>4, <2>3, OthersChecked
  <2>11. AssigneeWasTold'
    <3>1. \A b \in Analysis : rows'[b] # Gone => rows[b] # Gone /\ rows'[b].assignee = rows[b].assignee
      BY <1>4, <2>3, <2>4
    <3> QED  BY <1>4, <3>1, ToldStays
  <2>12. NoticesLeadSomewhere'
    <3>1. \A n \in new : n.analysis = a  BY <2>5
    <3>2. \A n \in notices : n.analysis \in Analysis  BY DEF TypeOK
    <3>3. \A n \in notices : rows[n.analysis] # Gone => rows'[n.analysis] # Gone
      BY <2>3, <2>4, <2>7, <3>2
    <3>4. rows'[a] # Gone  BY <2>4, <2>7
    <3> HIDE DEF new, a
    <3> QED  BY <1>4, <3>1, <3>3, <3>4 DEF NoticesLeadSomewhere
  <2> QED  BY <2>8, <2>9, <2>10, <2>11, <2>12
<1> QED  BY <1>3, <1>4 DEF UpdateState

LEMMA AssigneeKept == ASSUME IInv, NEW r \in Request, UpdateAssignee(r) PROVE IInv'
<1> USE DEF IInv
<1> DEFINE q == rq[r] a == q.analysis
           new == AssigneeNotices(q)
<1>1. q.step = "assign" /\ q.step \in Ops  BY DEF UpdateAssignee, Ops
<1>2. /\ q \in Asked /\ a \in Analysis /\ q.user \in User
      /\ rq \in [Request -> {Idle, Done} \cup Asked]
  BY <1>1, Carried
<1>3. CASE rows[a] = Gone /\ Fail(r)  BY <1>3, FailKept
<1>4. CASE /\ rows[a] # Gone
           /\ rows' = [rows EXCEPT ![a] = SetAssignee(@, q.copy, q.arg)]
           /\ notices' = notices \cup new
           /\ selfTaken' = IF q.arg = q.user THEN selfTaken \cup {<<q.user, a>>} ELSE selfTaken
           /\ Finish(r) /\ Written(a)
           /\ UNCHANGED <<triage, feedback, turn, made>>
  <2>1. q.arg \in User \cup {Nobody}  BY <1>1 DEF ArgsFit
  <2>2. rows[a] \in Row  BY <1>2, <1>4 DEF TypeOK
  <2>3. /\ rows'[a] = SetAssignee(rows[a], q.copy, q.arg)
        /\ \A b \in Analysis \ {a} : rows'[b] = rows[b]
    BY <1>2, <1>4 DEF TypeOK
  <2>4. /\ rows'[a] \in Row /\ rows'[a].assignee \in {rows[a].assignee, q.arg}
        /\ q.arg = q.copy.assignee => rows'[a].assignee = rows[a].assignee
    BY <2>1, <2>2, <2>3, AssigneeSet
  <2>5. new \subseteq [to : User, type : {"assignment"}, analysis : {a}, read : {FALSE}]
    BY <1>1, <1>2, <2>1, AssigneeNoticesTypes
  <2>6. new \subseteq Notice  BY <1>2, <2>5, NoticeSubsets DEF Types
  <2>7. Gone \notin Row  BY WorkflowAssumption
  <2>8. TypeOK'
    <3>1. rows' \in [Analysis -> Row \cup {Gone}]  BY <1>2, <1>4, <2>3, <2>4 DEF TypeOK
    <3>2. {writes', moved'} \subseteq [Analysis -> Nat]  BY <1>2, <1>4, Counted DEF TypeOK
    <3>3. rq' \in [Request -> {Idle, [step |-> "done"]} \cup Asked]  BY <1>2, <1>4, Finished DEF Done
    <3>4. notices' \subseteq Notice
      <4>1. notices \subseteq Notice  BY DEF TypeOK, Notice
      <4> QED  BY <1>4, <2>6, <4>1
    <3>5. selfTaken' \subseteq User \X Analysis  BY <1>2, <1>4 DEF TypeOK
    <3> QED  BY <1>4, <3>1, <3>2, <3>3, <3>4, <3>5 DEF TypeOK, Notice
  <2>9. ArgsFit'  BY <1>4, OthersFit
  <2>10. Checked'  BY <1>2, <1>4, <2>3, OthersChecked
  <2>11. AssigneeWasTold'
    <3> SUFFICES ASSUME NEW b \in Analysis, rows'[b] # Gone PROVE Assigned(b)'
      BY DEF AssigneeWasTold, Assigned
    <3>1. rows[b] # Gone /\ Assigned(b)  BY <1>4, <2>3 DEF AssigneeWasTold, Assigned
    <3>2. CASE rows'[b].assignee = rows[b].assignee
      BY <1>4, <3>1, <3>2 DEF Assigned
    <3>3. CASE rows'[b].assignee # rows[b].assignee
      <4>1. b = a /\ rows'[a].assignee = q.arg /\ q.arg # q.copy.assignee  BY <2>3, <2>4, <3>3
      <4>2. CASE q.arg = q.user
        <5>1. <<q.arg, a>> \in selfTaken'  BY <1>4, <4>2
        <5> QED  BY <4>1, <5>1 DEF Assigned
      <4>3. CASE q.arg = Nobody  BY <4>1, <4>3 DEF Assigned
      <4>4. CASE q.arg \notin {q.user, Nobody}
        <5>1. [to |-> q.arg, type |-> "assignment", analysis |-> a, read |-> FALSE] \in new
          BY <4>1, <4>4 DEF AssigneeNotices, Told
        <5> QED  BY <1>4, <4>1, <5>1 DEF Assigned
      <4> QED  BY <4>2, <4>3, <4>4
    <3> QED  BY <3>2, <3>3
  <2>12. NoticesLeadSomewhere'
    <3>1. \A n \in new : n.analysis = a  BY <2>5
    <3>2. \A n \in notices : n.analysis \in Analysis  BY DEF TypeOK
    <3>3. \A n \in notices : rows[n.analysis] # Gone => rows'[n.analysis] # Gone
      BY <2>3, <2>4, <2>7, <3>2
    <3>4. rows'[a] # Gone  BY <2>4, <2>7
    <3> HIDE DEF new, a
    <3> QED  BY <1>4, <3>1, <3>3, <3>4 DEF NoticesLeadSomewhere
  <2> QED  BY <2>8, <2>9, <2>10, <2>11, <2>12
<1> QED  BY <1>3, <1>4 DEF UpdateAssignee

LEMMA AlertTypes ==
  ASSUME NEW q \in Asked
  PROVE  Told({q.copy.owner, q.copy.assignee}, "feedback_alert", q.analysis, q.user)
           \subseteq [to : User, type : {"feedback_alert"}, analysis : {q.analysis}, read : {FALSE}]
<1>1. {q.copy.owner, q.copy.assignee} \in SUBSET (User \cup {Nobody}) /\ q.analysis \in Analysis
  BY DEF Asked, Row
<1> QED  BY <1>1, ToldTypes DEF Types

LEMMA FeedbackKept == ASSUME IInv, NEW r \in Request, UpsertFeedback(r) PROVE IInv'
<1> USE DEF IInv
<1> DEFINE q == rq[r] a == q.analysis auto == AutoState(q.copy, q.arg)
           alert == IF q.arg = "incorrect"
                    THEN Told({q.copy.owner, q.copy.assignee}, "feedback_alert", a, q.user) ELSE {}
<1>1. q.step = "feedback" /\ q.step \in Ops  BY DEF UpsertFeedback, Ops
<1>2. /\ q \in Asked /\ a \in Analysis /\ q.user \in User
      /\ rq \in [Request -> {Idle, Done} \cup Asked]
  BY <1>1, Carried
<1>3. q.arg \in Verdicts  BY <1>1 DEF ArgsFit
<1>4. alert \subseteq [to : User, type : {"feedback_alert"}, analysis : {a}, read : {FALSE}]
  BY <1>2, AlertTypes
<1>5. alert \subseteq Notice  BY <1>2, <1>4, NoticeSubsets DEF Types
<1>6. Gone \notin Row  BY WorkflowAssumption
<1>7. CASE rows[a] = Gone /\ auto # Nobody /\ Fail(r)  BY <1>7, FailKept
<1>8. CASE /\ rows[a] # Gone \/ auto = Nobody
           /\ feedback' = [feedback EXCEPT ![<<a, q.user>>] = [verdict |-> q.arg, turn |-> turn]]
           /\ turn' = turn + 1
           /\ IF auto = Nobody
              THEN /\ notices' = notices \cup alert
                   /\ UNCHANGED <<rows, writes, moved>>
              ELSE /\ notices' = notices \cup alert \cup StateNotices(q, auto)
                   /\ rows' = [rows EXCEPT ![a] = SetState(@, q.copy, auto)]
                   /\ Written(a)
           /\ Finish(r)
           /\ UNCHANGED <<triage, made, selfTaken>>
  <2>1. turn' \in Nat /\ feedback' \in [Analysis \X User -> [verdict : Verdicts, turn : Nat] \cup {Gone}]
    <3>1. [verdict |-> q.arg, turn |-> turn] \in [verdict : Verdicts, turn : Nat]
      BY <1>3 DEF TypeOK
    <3>2. turn' \in Nat  BY <1>8 DEF TypeOK
    <3>3. <<a, q.user>> \in Analysis \X User  BY <1>2
    <3> HIDE DEF a
    <3> QED  BY <1>8, <3>1, <3>2, <3>3 DEF TypeOK
  <2>2. rq' \in [Request -> {Idle, [step |-> "done"]} \cup Asked]  BY <1>2, <1>8, Finished DEF Done
  <2>3. ArgsFit'  BY <1>8, OthersFit
  <2>4. notices \subseteq Notice  BY DEF TypeOK, Notice
  <2>5. \A n \in notices : n.analysis \in Analysis  BY DEF TypeOK
  <2>6. CASE auto = Nobody
    <3>1. notices' = notices \cup alert /\ UNCHANGED <<rows, writes, moved>>  BY <1>8, <2>6
    <3>2. notices' \subseteq Notice  BY <1>5, <2>4, <3>1
    <3>3. TypeOK'  BY <1>8, <2>1, <2>2, <3>1, <3>2 DEF TypeOK, Notice
    <3>4. Checked'  BY <1>8, <3>1, OthersChecked
    <3>5. AssigneeWasTold'  BY <1>8, <3>1, ToldStays
    <3>6. NoticesLeadSomewhere'  BY <1>4, <3>1 DEF NoticesLeadSomewhere
    <3> QED  BY <2>3, <3>3, <3>4, <3>5, <3>6
  <2>7. CASE auto # Nobody
    <3>0. auto \in States  BY <2>7 DEF AutoState, States
    <3> HIDE DEF auto
    <3>1. /\ notices' = notices \cup alert \cup StateNotices(q, auto)
          /\ rows' = [rows EXCEPT ![a] = SetState(@, q.copy, auto)]
          /\ Written(a) /\ rows[a] # Gone
      BY <1>8, <2>7
    <3>2. rows[a] \in Row  BY <1>2, <3>1 DEF TypeOK
    <3>3. /\ rows'[a] = SetState(rows[a], q.copy, auto)
          /\ \A b \in Analysis \ {a} : rows'[b] = rows[b]
      BY <1>2, <3>1 DEF TypeOK
    <3>4. rows'[a] \in Row /\ rows'[a].assignee = rows[a].assignee  BY <3>0, <3>2, <3>3, RowKept
    <3>5. StateNotices(q, auto) \subseteq [to : User, type : {"review_required", "resolved"},
                                          analysis : {a}, read : {FALSE}]
      BY <1>2, StateNoticesTypes
    <3>6. notices' \subseteq Notice
      <4>1. StateNotices(q, auto) \subseteq Notice  BY <1>2, <3>5, NoticeSubsets DEF Types
      <4> QED  BY <1>5, <2>4, <3>1, <4>1
    <3>7. TypeOK'
      <4>1. rows' \in [Analysis -> Row \cup {Gone}]  BY <1>2, <3>1, <3>3, <3>4 DEF TypeOK
      <4>2. {writes', moved'} \subseteq [Analysis -> Nat]  BY <1>2, <3>1, Counted DEF TypeOK
      <4> QED  BY <1>8, <2>1, <2>2, <3>6, <4>1, <4>2 DEF TypeOK, Notice
    <3>8. Checked'  BY <1>2, <1>8, <3>1, <3>3, OthersChecked
    <3>9. AssigneeWasTold'
      <4>1. \A b \in Analysis : rows'[b] # Gone => rows[b] # Gone /\ rows'[b].assignee = rows[b].assignee
        BY <3>1, <3>3, <3>4
      <4> QED  BY <1>8, <3>1, <4>1, ToldStays
    <3>10. NoticesLeadSomewhere'
      <4>1. \A n \in alert \cup StateNotices(q, auto) : n.analysis = a  BY <1>4, <3>5
      <4>2. \A n \in notices : rows[n.analysis] # Gone => rows'[n.analysis] # Gone
        BY <1>6, <2>5, <3>3, <3>4
      <4>3. rows'[a] # Gone  BY <1>6, <3>4
      <4>4. notices' = notices \cup (alert \cup StateNotices(q, auto))  BY <3>1
      <4> QED  BY <4>1, <4>2, <4>3, <4>4, LinksStay
    <3> QED  BY <2>3, <3>7, <3>8, <3>9, <3>10
  <2> QED  BY <2>6, <2>7
<1> QED  BY <1>7, <1>8 DEF UpsertFeedback

LEMMA TriageKept == ASSUME IInv, NEW r \in Request, UpsertTriage(r) PROVE IInv'
<1> USE DEF IInv
<1> DEFINE q == rq[r] k == <<q.analysis, q.arg>>
<1>1. q.step = "triage" /\ q.step \in Ops  BY DEF UpsertTriage, Ops
<1>2. q \in Asked /\ rq \in [Request -> {Idle, Done} \cup Asked]  BY <1>1, Carried
<1>3. k \in Analysis \X Finding  BY <1>1, <1>2 DEF ArgsFit, Asked
<1> HIDE DEF k
<1>4. /\ triage' = IF q.found THEN triage ELSE [triage EXCEPT ![k] = @ + 1]
      /\ Finish(r) /\ UNCHANGED <<rows, feedback, notices, turn, ghosts>>
  BY DEF UpsertTriage, k
<1>5. triage' \in [Analysis \X Finding -> Nat]  BY <1>3, <1>4 DEF TypeOK
<1>6. rq' \in [Request -> {Idle, [step |-> "done"]} \cup Asked]  BY <1>2, <1>4, Finished DEF Done
<1>7. TypeOK'  BY <1>4, <1>5, <1>6 DEF TypeOK, ghosts
<1>8. ArgsFit' /\ Checked'  BY <1>4, OthersFit, OthersChecked DEF ghosts
<1>9. AssigneeWasTold' /\ NoticesLeadSomewhere'
  BY <1>4 DEF AssigneeWasTold, NoticesLeadSomewhere, ghosts
<1> QED  BY <1>7, <1>8, <1>9

LEMMA DeleteKept == ASSUME IInv, NEW r \in Request, DeleteAnalysis(r) PROVE IInv'
<1> USE DEF IInv
<1> DEFINE a == rq[r].analysis
<1>1. rq[r].step = "delete" /\ rq[r].step \in Ops  BY DEF DeleteAnalysis, Ops
<1>2. a \in Analysis /\ rq \in [Request -> {Idle, Done} \cup Asked]  BY <1>1, Carried
<1>3. /\ rows' = [rows EXCEPT ![a] = Gone]
      /\ triage' = [k \in Analysis \X Finding |-> IF k[1] = a THEN 0 ELSE triage[k]]
      /\ notices' = Spared(a)
      /\ Finish(r) /\ Written(a)
      /\ UNCHANGED <<feedback, turn, made, selfTaken>>
  BY DEF DeleteAnalysis
<1> HIDE DEF a
<1>4. rows'[a] = Gone /\ \A b \in Analysis \ {a} : rows'[b] = rows[b]
  BY <1>2, <1>3 DEF TypeOK
<1>5. TypeOK'
  <2>1. rows' \in [Analysis -> Row \cup {Gone}]  BY <1>3 DEF TypeOK
  <2>2. {writes', moved'} \subseteq [Analysis -> Nat]  BY <1>2, <1>3, Counted DEF TypeOK
  <2>3. rq' \in [Request -> {Idle, [step |-> "done"]} \cup Asked]  BY <1>2, <1>3, Finished DEF Done
  <2>4. triage' \in [Analysis \X Finding -> Nat]  BY <1>3 DEF TypeOK
  <2>5. notices' \subseteq notices  BY <1>3 DEF Spared
  <2> QED  BY <1>3, <2>1, <2>2, <2>3, <2>4, <2>5 DEF TypeOK
<1>6. ArgsFit'  BY <1>3, OthersFit
<1>7. Checked'  BY <1>2, <1>3, <1>4, OthersChecked
<1>8. AssigneeWasTold'
  <2> SUFFICES ASSUME NEW b \in Analysis, rows'[b] # Gone PROVE Assigned(b)'
    BY DEF AssigneeWasTold, Assigned
  <2>1. b # a /\ rows'[b] = rows[b] /\ Assigned(b)  BY <1>4 DEF AssigneeWasTold, Assigned
  <2>2. \A n \in notices : n.analysis = b => n \in notices'  BY <1>3, <2>1 DEF Spared
  <2> QED  BY <1>3, <2>1, <2>2 DEF Assigned
<1>9. NoticesLeadSomewhere'
  <2>1. \A n \in notices' : n \in notices /\ n.analysis \in Analysis \ {a}
    BY <1>3 DEF Spared, TypeOK
  <2> QED  BY <1>4, <2>1 DEF NoticesLeadSomewhere
<1> QED  BY <1>5, <1>6, <1>7, <1>8, <1>9

-----------------------------------------------------------------------------
(* The other steps.                                                        *)

\* The requests, while none is answered.
LEMMA StillChecked ==
  ASSUME IInv, UNCHANGED rq,
         \A r \in Request : LET a == rq[r].analysis IN rq[r].step \in Ops =>
           \/ writes'[a] = writes[a] + 1 /\ moved'[a] = IF NewState(a) THEN writes[a] + 1 ELSE moved[a]
           \/ /\ writes'[a] = writes[a] /\ moved'[a] = moved[a]
              /\ rows'[a] # Gone => rows[a] # Gone
              /\ rows[a] # Gone => /\ rows'[a] # Gone /\ rows'[a].owner = rows[a].owner
                                   /\ rows'[a].state = rows[a].state
                                   /\ rows'[a].assignee = rows[a].assignee
  PROVE  ArgsFit' /\ Checked'
<1> SUFFICES ASSUME NEW r \in Request, rq[r].step \in Ops
             PROVE  rq[r].seen <= writes'[rq[r].analysis] /\ CopyIsFresh(r)' /\ StateIsKnown(r)' /\ HadTheRight(r)'
  BY DEF IInv, ArgsFit, Checked
<1>1. rq[r] \in Asked  BY Carried
<1>2. /\ rq[r].seen \in Nat /\ rq[r].analysis \in Analysis /\ writes[rq[r].analysis] \in Nat
      /\ rq[r].seen <= writes[rq[r].analysis] /\ CopyIsFresh(r) /\ StateIsKnown(r) /\ HadTheRight(r)
  BY <1>1 DEF IInv, Checked, TypeOK, Asked
<1>3. HadTheRight(r)'  BY <1>2 DEF HadTheRight, CanView
<1>4. CASE /\ writes'[rq[r].analysis] = writes[rq[r].analysis] + 1
           /\ moved'[rq[r].analysis] = IF NewState(rq[r].analysis) THEN writes[rq[r].analysis] + 1
                                       ELSE moved[rq[r].analysis]
  <2>1. rq[r].seen <= writes'[rq[r].analysis] /\ CopyIsFresh(r)'  BY <1>2, <1>4 DEF CopyIsFresh
  <2>2. StateIsKnown(r)'
    <3>1. CASE NewState(rq[r].analysis)  BY <1>2, <1>4, <3>1 DEF StateIsKnown
    <3>2. CASE ~NewState(rq[r].analysis)  BY <1>2, <1>4, <3>2 DEF StateIsKnown, NewState
    <3> QED  BY <3>1, <3>2
  <2> QED  BY <1>3, <2>1, <2>2
<1>5. CASE /\ writes'[rq[r].analysis] = writes[rq[r].analysis]
           /\ moved'[rq[r].analysis] = moved[rq[r].analysis]
           /\ rows'[rq[r].analysis] # Gone => rows[rq[r].analysis] # Gone
           /\ rows[rq[r].analysis] # Gone =>
                 /\ rows'[rq[r].analysis] # Gone
                 /\ rows'[rq[r].analysis].owner = rows[rq[r].analysis].owner
                 /\ rows'[rq[r].analysis].state = rows[rq[r].analysis].state
                 /\ rows'[rq[r].analysis].assignee = rows[rq[r].analysis].assignee
  BY <1>2, <1>3, <1>5 DEF CopyIsFresh, StateIsKnown
<1> QED  BY <1>4, <1>5

LEMMA CreateKept ==
  ASSUME IInv, NEW u \in User, NEW a \in Analysis, CreateAnalysis(u, a)
  PROVE  IInv'
<1> USE DEF IInv
<1> DEFINE row == [owner |-> u, state |-> "new", assignee |-> Nobody, completed |-> FALSE]
<1>1. row \in Row /\ Gone \notin Row  BY WorkflowAssumption DEF Row, States
<1>2. /\ rows' = [rows EXCEPT ![a] = row] /\ Written(a) /\ made' = made \cup {a}
      /\ UNCHANGED <<triage, feedback, notices, rq, turn, selfTaken>>
  BY DEF CreateAnalysis
<1>3. rows'[a].assignee = Nobody  BY <1>2 DEF TypeOK
<1> HIDE DEF row
<1>4. /\ rows' \in [Analysis -> Row \cup {Gone}] /\ rows'[a] # Gone
      /\ \A b \in Analysis \ {a} : rows'[b] = rows[b]
  BY <1>1, <1>2 DEF TypeOK
<1>5. /\ {writes', moved'} \subseteq [Analysis -> Nat] /\ writes'[a] = writes[a] + 1
      /\ moved'[a] = IF NewState(a) THEN writes[a] + 1 ELSE moved[a]
      /\ \A b \in Analysis \ {a} : writes'[b] = writes[b] /\ moved'[b] = moved[b]
  BY <1>2, Counted DEF TypeOK
<1>6. TypeOK'  BY <1>2, <1>4, <1>5 DEF TypeOK
<1>7. ArgsFit' /\ Checked'
  <2>1. \A r \in Request : rq[r].step \in Ops => rq[r].analysis \in Analysis  BY Carried
  <2> QED  BY <1>2, <1>4, <1>5, <2>1, StillChecked
<1>8. AssigneeWasTold'
  <2> SUFFICES ASSUME NEW b \in Analysis, rows'[b] # Gone PROVE Assigned(b)'
    BY DEF AssigneeWasTold, Assigned
  <2>1. CASE b = a  BY <1>3, <2>1 DEF Assigned
  <2>2. CASE b # a
    <3>1. rows'[b] = rows[b] /\ Assigned(b)  BY <1>4, <2>2 DEF AssigneeWasTold, Assigned
    <3> QED  BY <1>2, <3>1 DEF Assigned
  <2> QED  BY <2>1, <2>2
<1>9. NoticesLeadSomewhere'
  <2>1. \A n \in notices : n.analysis \in Analysis  BY DEF TypeOK
  <2> QED  BY <1>2, <1>4, <2>1 DEF NoticesLeadSomewhere
<1> QED  BY <1>6, <1>7, <1>8, <1>9

LEMMA CompleteKept == ASSUME IInv, NEW a \in Analysis, CompleteAnalysis(a) PROVE IInv'
<1> USE DEF IInv
<1>1. /\ rows[a] # Gone /\ rows' = [rows EXCEPT ![a].completed = TRUE]
      /\ UNCHANGED <<triage, feedback, notices, rq, turn, ghosts>>
  BY DEF CompleteAnalysis
<1>2. rows[a] \in Row  BY <1>1 DEF TypeOK
<1>3. rows'[a] = [rows[a] EXCEPT !.completed = TRUE]  BY <1>1 DEF TypeOK
<1>4. /\ rows'[a] \in Row
      /\ rows'[a].owner = rows[a].owner /\ rows'[a].state = rows[a].state
      /\ rows'[a].assignee = rows[a].assignee
  BY <1>2, <1>3 DEF Row
<1>5. rows'[a] # Gone /\ \A b \in Analysis \ {a} : rows'[b] = rows[b]
  BY <1>1, <1>4, WorkflowAssumption DEF TypeOK
<1>6. TypeOK'
  <2>1. rows' \in [Analysis -> Row \cup {Gone}]  BY <1>1, <1>4, <1>5 DEF TypeOK
  <2> QED  BY <1>1, <2>1 DEF TypeOK, ghosts
<1>7. ArgsFit' /\ Checked'
  <2>1. \A r \in Request : rq[r].step \in Ops => rq[r].analysis \in Analysis  BY Carried
  <2> QED  BY <1>1, <1>4, <1>5, <2>1, StillChecked DEF ghosts
<1>8. AssigneeWasTold'
  <2>1. \A b \in Analysis : rows'[b] # Gone => rows[b] # Gone /\ rows'[b].assignee = rows[b].assignee
    BY <1>1, <1>4, <1>5
  <2> QED  BY <1>1, <2>1, ToldStays DEF ghosts
<1>9. NoticesLeadSomewhere'
  <2>1. \A n \in notices : n.analysis \in Analysis  BY DEF TypeOK
  <2> QED  BY <1>1, <1>5, <2>1 DEF NoticesLeadSomewhere
<1> QED  BY <1>6, <1>7, <1>8, <1>9

LEMMA MarkReadKept == ASSUME IInv, NEW u \in User, NEW N, MarkRead(u, N) PROVE IInv'
<1> USE DEF IInv
<1>1. /\ N \subseteq notices /\ UNCHANGED <<rows, triage, feedback, rq, turn, ghosts>>
      /\ notices' = (notices \ N) \cup {[n EXCEPT !.read = TRUE] : n \in N}
  BY DEF MarkRead
<1>2. \A n \in notices : n \in Notice  BY DEF TypeOK, Notice
<1>3. \A n \in Notice : /\ [n EXCEPT !.read = TRUE] \in Notice
                        /\ [n EXCEPT !.read = TRUE].to = n.to
                        /\ [n EXCEPT !.read = TRUE].type = n.type
                        /\ [n EXCEPT !.read = TRUE].analysis = n.analysis
  BY DEF Notice
<1>4. \A n \in notices : \E m \in notices' : m.to = n.to /\ m.type = n.type /\ m.analysis = n.analysis
  <2> TAKE n \in notices
  <2>1. CASE n \in N  BY <1>1, <1>2, <1>3, <2>1
  <2>2. CASE n \notin N  BY <1>1, <2>2
  <2> QED  BY <2>1, <2>2
<1>5. \A m \in notices' : m \in Notice /\ \E n \in notices : m.type = n.type /\ m.analysis = n.analysis
  <2> SUFFICES ASSUME NEW m \in notices'
               PROVE m \in Notice /\ \E n \in notices : m.type = n.type /\ m.analysis = n.analysis
    OBVIOUS
  <2>1. CASE m \in notices  BY <1>2, <2>1
  <2>2. CASE m \notin notices
    <3>1. PICK n \in N : m = [n EXCEPT !.read = TRUE]  BY <1>1, <2>2
    <3>2. n \in notices /\ n \in Notice  BY <1>1, <1>2
    <3> QED  BY <1>3, <3>1, <3>2
  <2> QED  BY <2>1, <2>2
<1>6. TypeOK'
  <2>1. notices' \subseteq Notice  BY <1>5
  <2> QED  BY <1>1, <2>1 DEF TypeOK, ghosts, Notice
<1>7. ArgsFit' /\ Checked'
  BY <1>1 DEF ArgsFit, Checked, CopyIsFresh, StateIsKnown, HadTheRight, CanView, ghosts
<1>8. AssigneeWasTold'
  <2> SUFFICES ASSUME NEW b \in Analysis, rows'[b] # Gone PROVE Assigned(b)'
    BY DEF AssigneeWasTold, Assigned
  <2>1. rows'[b] = rows[b] /\ selfTaken' = selfTaken /\ Assigned(b)
    BY <1>1 DEF AssigneeWasTold, Assigned, ghosts
  <2> QED  BY <1>4, <2>1 DEF Assigned
<1>9. NoticesLeadSomewhere'  BY <1>1, <1>5 DEF NoticesLeadSomewhere
<1> QED  BY <1>6, <1>7, <1>8, <1>9

-----------------------------------------------------------------------------
LEMMA InvariantKept == ASSUME IInv, [Next]_vars PROVE IInv'
<1>1. CASE UNCHANGED vars
  BY <1>1 DEF vars, ghosts, IInv, TypeOK, ArgsFit, Checked, CopyIsFresh, StateIsKnown, HadTheRight, CanView,
     AssigneeWasTold, NoticesLeadSomewhere
<1>2. ASSUME NEW r \in Request, Requests(r) PROVE IInv'
  <2>1. ASSUME NEW u \in User, NEW a \in Analysis, NEW s \in State, ReadForState(r, u, a, s)
        PROVE  IInv'
    <3>1. s \in States /\ s \in Args /\ "state" \in Ops  BY WorkflowAssumption DEF Args, Ops
    <3> QED  BY <2>1, <3>1, ReadKept DEF ReadForState
  <2>2. ASSUME NEW u \in User, NEW a \in Analysis, NEW v \in User \cup {Nobody},
               ReadForAssignee(r, u, a, v)
        PROVE  IInv'
    <3>1. v \in Args /\ "assign" \in Ops  BY DEF Args, Ops
    <3> QED  BY <2>2, <3>1, ReadKept DEF ReadForAssignee, CanReassign
  <2>3. ASSUME NEW u \in User, NEW a \in Analysis, NEW v \in Verdict, ReadForFeedback(r, u, a, v)
        PROVE  IInv'
    <3>1. v \in Verdicts /\ v \in Args /\ "feedback" \in Ops  BY WorkflowAssumption DEF Args, Ops
    <3> QED  BY <2>3, <3>1, ReadKept DEF ReadForFeedback
  <2>4. ASSUME NEW u \in User, NEW a \in Analysis, NEW f \in Finding, ReadForTriage(r, u, a, f)
        PROVE  IInv'
    <3>1. f \in Args /\ "triage" \in Ops  BY DEF Args, Ops
    <3> QED  BY <2>4, <3>1, ReadKept DEF ReadForTriage, Owns
  <2>5. ASSUME NEW u \in User, NEW a \in Analysis, ReadForDelete(r, u, a) PROVE IInv'
    <3>1. Nobody \in Args /\ "delete" \in Ops  BY DEF Args, Ops
    <3> QED  BY <2>5, <3>1, ReadKept DEF ReadForDelete, Owns
  <2> QED
    BY <1>2, <2>1, <2>2, <2>3, <2>4, <2>5, StateKept, AssigneeKept, FeedbackKept, TriageKept, DeleteKept
    DEF Requests
<1>3. ASSUME NEW u \in User, NEW N, MarkRead(u, N) PROVE IInv'  BY <1>3, MarkReadKept
<1> QED  BY <1>1, <1>2, <1>3, CreateKept, CompleteKept DEF Next

LEMMA InvariantStarts == ASSUME Init PROVE IInv
<1>1. \A r \in Request : rq[r] = Idle  BY DEF Init
<1>2. \A r \in Request : rq[r].step = "idle"  BY <1>1 DEF Idle
<1> QED
  BY <1>1, <1>2 DEF Init, IInv, TypeOK, ArgsFit, Checked, AssigneeWasTold, NoticesLeadSomewhere, Ops

LEMMA InvariantHolds == Spec => []IInv
<1>1. Init => IInv  BY InvariantStarts
<1>2. IInv /\ [Next]_vars => IInv'  BY InvariantKept
<1> QED  BY <1>1, <1>2, PTL DEF Spec

\* Every table holds rows, whatever the handlers do (main.py:528).
THEOREM WorkflowTypes == Spec => []TypeOK
<1>1. IInv => TypeOK  BY DEF IInv
<1> QED  BY <1>1, InvariantHolds, PTL

\* Whoever is in charge was told, or took the analysis himself (main.py:608).
THEOREM AssigneesTold == Spec => []AssigneeWasTold
<1>1. IInv => AssigneeWasTold  BY DEF IInv
<1> QED  BY <1>1, InvariantHolds, PTL

\* Only alerts of feedback outlive their analysis (main.py:1036): one that is handled while
\* the analysis is deleted is told of it afterwards.
THEOREM NoticesLead == Spec => []NoticesLeadSomewhere
<1>1. IInv => NoticesLeadSomewhere  BY DEF IInv
<1> QED  BY <1>1, InvariantHolds, PTL

\* A request that writes after nobody else wrote has the rights its user had when it
\* read (main.py:1079): the copy it was checked against is the row.
THEOREM StaleRights == Spec => StaleRightsNeedOverlap
<1> DEFINE Fits(r) == LET row == rows[rq[r].analysis] u == rq[r].user IN
         Writes(r) /\ ~Overlapped(r) =>
           /\ row # Gone
           /\ rq[r].step \in {"state", "feedback"} => CanView(u, row)
           /\ rq[r].step = "assign" => u = row.owner \/ u \in Admin
           /\ rq[r].step \in {"triage", "delete"} => u = row.owner
<1>1. ASSUME IInv, NEW r \in Request PROVE Fits(r)
  <2> SUFFICES ASSUME rq[r].step \in Ops, ~Overlapped(r)
               PROVE  LET row == rows[rq[r].analysis] u == rq[r].user IN
                      /\ row # Gone
                      /\ rq[r].step \in {"state", "feedback"} => CanView(u, row)
                      /\ rq[r].step = "assign" => u = row.owner \/ u \in Admin
                      /\ rq[r].step \in {"triage", "delete"} => u = row.owner
    BY DEF Writes
  <2>1. CopyIsFresh(r) /\ HadTheRight(r)  BY <1>1 DEF IInv, Checked
  <2>2. rq[r].seen = writes[rq[r].analysis]  BY DEF Overlapped
  <2> QED  BY <2>1, <2>2 DEF CopyIsFresh, HadTheRight, CanView
<1>2. IInv => [\A r \in Request : Fits(r)]_vars  BY <1>1
<1> QED  BY <1>2, InvariantHolds, PTL DEF StaleRightsNeedOverlap

\* Only the write of a state or a verdict ends its request.
LEMMA OnlyItsStep ==
  ASSUME [Next]_vars, TypeOK, NEW r \in Request, rq[r].step \in {"state", "feedback"}, rq'[r] # rq[r]
  PROVE  (rq[r].step = "state" /\ UpdateState(r)) \/ (rq[r].step = "feedback" /\ UpsertFeedback(r))
<1>1. Next  BY DEF vars
<1>2. PICK s \in Request : Requests(s)
  BY <1>1 DEF Next, CreateAnalysis, CompleteAnalysis, MarkRead
<1>3. CASE s = r
  BY <1>2, <1>3, ZenonT(60) DEF Requests, ReadForState, ReadForAssignee, ReadForFeedback, ReadForTriage, ReadForDelete,
     Read, UpdateState, UpdateAssignee, UpsertFeedback, UpsertTriage, DeleteAnalysis
<1>4. CASE s # r
  <2> DEFINE Moves == \E x : rq' = [rq EXCEPT ![s] = x]
  <2>1. ASSUME NEW u, NEW a, NEW op, NEW arg, Read(s, u, a, op, arg) PROVE Moves
    BY <2>1 DEF Read
  <2>2. Finish(s) => Moves  BY DEF Finish
  <2>3. Moves
    <3>1. CASE \E u \in User, a \in Analysis :
                 \/ \E x \in State : ReadForState(s, u, a, x)
                 \/ \E v \in User \cup {Nobody} : ReadForAssignee(s, u, a, v)
                 \/ \E v \in Verdict : ReadForFeedback(s, u, a, v)
                 \/ \E f \in Finding : ReadForTriage(s, u, a, f)
                 \/ ReadForDelete(s, u, a)
      <4> HIDE DEF Moves
      <4> QED
        BY <2>1, <3>1 DEF ReadForState, ReadForAssignee, ReadForFeedback, ReadForTriage, ReadForDelete
    <3>2. CASE \/ UpdateState(s) \/ UpdateAssignee(s) \/ UpsertFeedback(s) \/ UpsertTriage(s)
               \/ DeleteAnalysis(s)
      <4> HIDE DEF Moves
      <4> QED
        BY <2>2, <3>2 DEF UpdateState, UpdateAssignee, UpsertFeedback, UpsertTriage, DeleteAnalysis, Fail
    <3> QED  BY <1>2, <3>1, <3>2 DEF Requests
  <2>4. \A x : [rq EXCEPT ![s] = x][r] = rq[r]  BY <1>4 DEF TypeOK
  <2> QED  BY <2>3, <2>4
<1> QED  BY <1>3, <1>4

\* A verdict moves only an analysis that was open when it was read, and what was asked for
\* stands, unless the state moved between the request's read and its write (main.py:2360).
THEOREM Decisions == Spec => DecisionsStand
<1> DEFINE Stands(r) ==
      LET q == rq[r] a == q.analysis IN
       /\ (/\ q.step = "feedback" /\ rq'[r] # q /\ rows'[a] # rows[a]
           /\ rows[a].state \notin {"new", "in_progress"}) => moved[a] > q.seen
       /\ (/\ q.step = "state" /\ rq'[r] # q /\ rows'[a] # Gone
           /\ rows'[a].state # q.arg) => moved[a] > q.seen
<1>1. ASSUME IInv, [Next]_vars, NEW r \in Request PROVE Stands(r)
  <2> DEFINE q == rq[r] a == q.analysis
  <2>1. ASSUME q.step = "feedback", rq'[r] # q, rows'[a] # rows[a],
               rows[a].state \notin {"new", "in_progress"}
        PROVE  moved[a] > q.seen
    <3>1. UpsertFeedback(r)  BY <1>1, <2>1, OnlyItsStep DEF IInv
    <3>2. /\ rows[a] # Gone /\ q.copy.state \in {"new", "in_progress"}
      BY <2>1, <3>1 DEF UpsertFeedback, AutoState, Fail
    <3>3. StateIsKnown(r)  BY <1>1, <2>1 DEF IInv, Checked, Ops
    <3> QED  BY <2>1, <3>2, <3>3 DEF StateIsKnown
  <2>2. ASSUME q.step = "state", rq'[r] # q, rows'[a] # Gone, rows'[a].state # q.arg
        PROVE  moved[a] > q.seen
    <3>1. UpdateState(r)  BY <1>1, <2>2, OnlyItsStep DEF IInv
    <3>2. /\ rq[r].step \in Ops /\ StateIsKnown(r)  BY <1>1, <2>2 DEF IInv, Checked, Ops
    <3>3. a \in Analysis  BY <1>1, <3>2, Carried
    <3>4. rows[a] # Gone /\ rows' = [rows EXCEPT ![a] = SetState(@, q.copy, q.arg)]
      BY <2>2, <3>1 DEF UpdateState, Fail
    <3>5. rows[a] \in Row /\ rows'[a] = SetState(rows[a], q.copy, q.arg)  BY <1>1, <3>3, <3>4 DEF IInv, TypeOK
    <3>6. q.arg = q.copy.state /\ rows[a].state # q.arg  BY <2>2, <3>5 DEF SetState, Row
    <3> QED  BY <3>2, <3>4, <3>6 DEF StateIsKnown
  <2> QED  BY <2>1, <2>2
<1>2. IInv /\ [Next]_vars => [\A r \in Request : Stands(r)]_vars  BY <1>1
<1> QED  BY <1>2, InvariantHolds, PTL DEF DecisionsStand, Spec

\* The sections of a queue: every open analysis that the user sees is in one, and in no other.
LEMMA OneSection ==
  ASSUME TypeOK, NEW u \in User, NEW a \in Completed(u), rows[a].state \notin {"resolved", "dismissed"}
  PROVE  \E k : {s \in DOMAIN Queue(u) \ {"recent_resolved"} : a \in Queue(u)[s]} = {k}
<1> DEFINE all == Completed(u)
           review == OfState(all, {"needs_review"})
           alarmed == {b \in all \ review : Alarms(b) # {}}
           alerts == {b \in alarmed : Cardinality({c \in alarmed : Newer(c, b)}) < AlertLimit}
           left == all \ (review \cup alerts)
           mine == Mine(u, left)
           rest == {b \in all \ (review \cup alerts \cup mine) : rows[b].owner = u}
           q == Queue(u)
           In(s) == a \in q[s]
<1>1. /\ DOMAIN q = {"needs_review", "recent_feedback_alerts", "assigned_to_me", "new_analyses",
                     "unresolved_owned", "recent_resolved"}
      /\ q["needs_review"] = review /\ q["recent_feedback_alerts"] = alerts /\ q["assigned_to_me"] = mine
      /\ q["new_analyses"] = OfState(rest, {"new"}) /\ q["unresolved_owned"] = OfState(rest, {"in_progress"})
  BY DEF Queue
<1>2. /\ a \in all /\ rows[a].state \in {"new", "in_progress", "needs_review"}
      /\ rows[a].owner = u \/ rows[a].assignee = u
  BY DEF TypeOK, Row, States, Completed, Listed
<1> HIDE DEF all, q
<1>3. a \in review <=> rows[a].state = "needs_review"  BY <1>2 DEF OfState
<1>4. a \in alerts => a \notin review  OBVIOUS
<1> HIDE DEF review, alerts
<1>5. a \in mine <=> a \in left /\ rows[a].assignee = u
  <2>1. ASSUME a \in left  PROVE rows[a].state \in {"new", "in_progress"}  BY <1>2, <1>3, <2>1
  <2> QED  BY <2>1 DEF Mine, OfState
<1>6. a \in left <=> a \notin review /\ a \notin alerts  BY <1>2
<1> HIDE DEF left, mine
<1>7. a \in rest <=> a \notin review /\ a \notin alerts /\ a \notin mine /\ rows[a].owner = u
  BY <1>2
<1> HIDE DEF rest
<1>8. /\ a \in OfState(rest, {"new"}) <=> a \in rest /\ rows[a].state = "new"
      /\ a \in OfState(rest, {"in_progress"}) <=> a \in rest /\ rows[a].state = "in_progress"
  BY DEF OfState
<1>9. \E k \in DOMAIN q \ {"recent_resolved"} : \A s \in DOMAIN q \ {"recent_resolved"} : In(s) <=> s = k
  <2>1. CASE a \in review
    <3>1. a \notin alerts /\ a \notin mine /\ a \notin rest  BY <1>4, <1>5, <1>6, <1>7, <2>1
    <3> QED  BY <1>1, <1>8, <2>1, <3>1
  <2>2. CASE a \in alerts
    <3>1. a \notin review /\ a \notin mine /\ a \notin rest  BY <1>4, <1>5, <1>6, <1>7, <2>2
    <3> QED  BY <1>1, <1>8, <2>2, <3>1
  <2>3. CASE a \in mine
    <3>1. a \notin review /\ a \notin alerts /\ a \notin rest  BY <1>5, <1>6, <1>7, <2>3
    <3> QED  BY <1>1, <1>8, <2>3, <3>1
  <2>4. CASE a \notin review /\ a \notin alerts /\ a \notin mine
    <3>1. a \in rest /\ rows[a].state \in {"new", "in_progress"}
      BY <1>2, <1>3, <1>5, <1>6, <1>7, <2>4
    <3>2. CASE rows[a].state = "new"  BY <1>1, <1>8, <2>4, <3>1, <3>2
    <3>3. CASE rows[a].state = "in_progress"  BY <1>1, <1>8, <2>4, <3>1, <3>3
    <3> QED  BY <3>1, <3>2, <3>3
  <2> QED  BY <2>1, <2>2, <2>3, <2>4
<1>10. PICK k : {s \in DOMAIN q \ {"recent_resolved"} : In(s)} = {k}  BY <1>9
<1> QED  BY <1>10 DEF q

\* Every analysis that is completed and open waits in exactly one section of the queue of
\* whoever sees it, and the dashboard counts just these (get_work_queue, dashboard_summary).
THEOREM OpenWorkQueued == Spec => []OpenWorkIsQueued
<1>1. TypeOK => OpenWorkIsQueued
  <2> SUFFICES ASSUME TypeOK, NEW u \in User
               PROVE  LET q == Queue(u)
                          open == {a \in Completed(u) : rows[a].state \notin {"resolved", "dismissed"}}
                      IN /\ \A a \in open : Cardinality({k \in DOMAIN q \ {"recent_resolved"} : a \in q[k]}) = 1
                         /\ u \notin Admin => Dashboard(u).total_open = Cardinality(open)
    BY DEF OpenWorkIsQueued
  <2> DEFINE q == Queue(u)
             open == {a \in Completed(u) : rows[a].state \notin {"resolved", "dismissed"}}
             In(a) == {k \in DOMAIN q \ {"recent_resolved"} : a \in q[k]}
  <2>1. ASSUME NEW a \in open  PROVE Cardinality(In(a)) = 1
    <3>1. PICK k : In(a) = {k}  BY OneSection
    <3> HIDE DEF In
    <3> QED  BY <3>1, FS_Singleton
  <2>2. ASSUME u \notin Admin  PROVE Dashboard(u).total_open = Cardinality(open)
    <3>1. Dashboard(u).total_open = Cardinality(OfState(Completed(u), {"new", "in_progress", "needs_review"}))
      BY <2>2 DEF Dashboard
    <3>2. OfState(Completed(u), {"new", "in_progress", "needs_review"}) = open
      BY DEF OfState, Completed, Listed, TypeOK, Row, States
    <3> QED  BY <3>1, <3>2
  <2> QED  BY <2>1, <2>2
<1> QED  BY <1>1, WorkflowTypes, PTL
=============================================================================
