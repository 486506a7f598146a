------------------------------ MODULE Sharing ------------------------------
(***************************************************************************)
(* What analysts share: role presets, saved queries, investigation notes,  *)
(* suppression rules and correlation rules; who may see them, and how they *)
(* are created, changed and deleted.                                       *)
(*                                                                         *)
(* A handler checks the rights of its user against the row it read, and    *)
(* writes the columns that then differ from what it read. The id of a      *)
(* deleted row is given to the next one that is created.                   *)
(***************************************************************************)
EXTENDS Naturals, FiniteSets

CONSTANTS
  User, Admin, Team,  \* users, those with is_admin, team of a user or None
  Item,               \* bound: ids of rows
  Request,            \* bound: requests ever made
  Investigator,       \* the owner of the analysis that notes are about
  None, Gone

Shared == {"preset", "query"}
Rules == {"suppression", "correlation"}
Kind == Shared \cup Rules \cup {"note"}
Scopes(kind) ==
  CASE kind \in Shared      -> {"private", "team", "global"}
    [] kind = "note"        -> {"private", "team"}
    [] kind = "suppression" -> {"user", "global", "analysis"}
    [] kind = "correlation" -> {"user", "global"}
Teams == {Team[u] : u \in User}
Row == [kind : Kind, owner : User, scope : UNION {Scopes(k) : k \in Kind}, team : Teams \cup {None},
        by : User, active : BOOLEAN]

ASSUME SharingAssumption ==
  /\ Admin \subseteq User /\ Investigator \in User /\ DOMAIN Team = User /\ Gone \notin Row

VARIABLES
  rows,   \* the row of every id, of whichever table
  rq,     \* per request its step, user, id, what it asks for and what it read
  writes, born, mistaken, crossed, byAdmin
  \* history: writes to an id, and those there were when its row was created; the ids that a
  \* request wrote which had read an earlier row; those whose scope an update changed past
  \* another's change; those whose scope an administrator changed

marks == <<born, mistaken, crossed, byAdmin>>
vars == <<rows, rq, writes, marks>>

Init ==
  /\ rows = [i \in Item |-> Gone]
  /\ rq = [r \in Request |-> [step |-> "idle"]]
  /\ writes = [i \in Item |-> 0] /\ born = [i \in Item |-> 0]
  /\ mistaken = {} /\ crossed = {} /\ byAdmin = {}

-----------------------------------------------------------------------------
(* sharing.py                                                              *)

InTeam(u) == Team[u] # None
IsAdmin(u) == u \in Admin

CheckCanCreate(u, scope) == /\ scope = "team" => InTeam(u)
                            /\ scope = "global" => IsAdmin(u)
\* Mutant: the team of a row that leaves its team stays.
TeamKept(u, scope) == Team[u]
ResolveTeamId(u, scope) == IF scope = "team" THEN Team[u] ELSE None

\* Mutant: team rows are listed to everyone who has a team.
VisibleToTeams(u, row) ==
  \/ IsAdmin(u) \/ row.scope = "global"
  \/ row.scope = "private" /\ row.owner = u
  \/ InTeam(u) /\ row.scope = "team"
\* The filter of the lists of presets and queries.
VisibleFilter(u, row) ==
  \/ IsAdmin(u) \/ row.scope = "global"
  \/ row.scope = "private" /\ row.owner = u
  \/ InTeam(u) /\ row.scope = "team" /\ row.team = Team[u]

CanView(u, row) ==
  CASE IsAdmin(u) \/ row.scope = "global" -> TRUE
    [] ~IsAdmin(u) /\ row.scope = "private" -> row.owner = u
    [] ~IsAdmin(u) /\ row.scope = "team"    -> InTeam(u) /\ row.team = Team[u]

\* Mutant: the author of a row that an administrator made global goes on editing it.
AuthorCanEdit(u, row) == IsAdmin(u) \/ row.owner = u
CanEdit(u, row) == IsAdmin(u) \/ (row.scope # "global" /\ row.owner = u)

-----------------------------------------------------------------------------
(* Rights of notes and rules.                                              *)

NoteCanCreate(u, scope) == u = Investigator /\ (scope = "team" => InTeam(u))
\* A suppression of scope "analysis" may name no analysis, so anyone may create one.
RuleCanCreate(u, scope) == scope = "global" => IsAdmin(u)

\* update_investigation_note looks at the author; that he sees the note follows.
NoteCanEdit(u, row) == IsAdmin(u) \/ row.owner = u
RuleCanEdit(u, row) == IsAdmin(u) \/ row.owner = u

\* _note_visible, of the notes of an analysis that only its owner may list.
NoteListed(u, row) ==
  /\ u = Investigator
  /\ row.owner = u \/ IsAdmin(u) \/ (InTeam(u) /\ row.scope = "team" /\ row.team = Team[u])
RuleListed(u, row) == IsAdmin(u) \/ row.scope = "global" \/ row.owner = u

MayCreate(u, kind, scope) ==
  CASE kind \in Shared      -> CheckCanCreate(u, scope)
    [] kind = "note"        -> NoteCanCreate(u, scope)
    [] kind \in Rules       -> RuleCanCreate(u, scope)

MayEdit(u, row) ==
  CASE row.kind \in Shared -> CanView(u, row) /\ CanEdit(u, row)
    [] row.kind = "note"   -> NoteCanEdit(u, row)
    [] row.kind \in Rules  -> RuleCanEdit(u, row)

\* The check of a scope that an update asks for; a note goes to the user's team too.
MayRescope(u, row, scope) ==
  CASE row.kind \in Shared -> CheckCanCreate(u, scope)
    [] row.kind = "note"   -> scope = "team" => InTeam(u)
    [] row.kind \in Rules  -> scope = "global" => IsAdmin(u)

Listed(u, row) ==
  CASE row.kind \in Shared -> VisibleFilter(u, row)
    [] row.kind = "note"   -> NoteListed(u, row)
    [] row.kind \in Rules  -> RuleListed(u, row)

-----------------------------------------------------------------------------
(* Handlers.                                                               *)

Wrote(i) == writes' = [writes EXCEPT ![i] = @ + 1]
Finish(r) == rq' = [rq EXCEPT ![r] = [step |-> "done"]]

\* A request that creates takes a turn of its own.
Create(r, u, i, kind, scope) ==
  /\ rq[r].step = "idle" /\ rows[i] = Gone
  /\ MayCreate(u, kind, scope)
  /\ rows' = [rows EXCEPT ![i] = [kind |-> kind, owner |-> u, scope |-> scope, by |-> u, active |-> TRUE,
                                  team |-> IF kind \in Rules THEN None ELSE ResolveTeamId(u, scope)]]
  /\ Finish(r) /\ Wrote(i)
  /\ born' = [born EXCEPT ![i] = writes[i] + 1]
  /\ mistaken' = mistaken \ {i} /\ crossed' = crossed \ {i} /\ byAdmin' = byAdmin \ {i}

Read(r, u, i, step, scope) ==
  /\ rq[r].step = "idle" /\ rows[i] # Gone
  /\ MayEdit(u, rows[i])
  /\ rq' = [rq EXCEPT ![r] = [step |-> step, user |-> u, item |-> i, scope |-> scope,
                              copy |-> rows[i], seen |-> writes[i]]]
  /\ UNCHANGED <<rows, writes, marks>>

\* The scopes an update takes: CorrelationRuleUpdate takes any text.
Asked(kind) == Scopes(kind) \cup (IF kind = "correlation" THEN {"other"} ELSE {})
\* An update that leaves the scope alone asks for the scope of the row.
ReadForUpdate(r, u, i, scope) ==
  /\ rows[i] # Gone /\ rows[i].kind # "suppression" /\ scope \in Asked(rows[i].kind)
  /\ scope # rows[i].scope => MayRescope(u, rows[i], scope)
  /\ Read(r, u, i, "update", scope)
ReadForToggle(r, u, i) == rows[i] # Gone /\ rows[i].kind \in Rules /\ Read(r, u, i, "toggle", rows[i].scope)
ReadForDelete(r, u, i) == rows[i] # Gone /\ Read(r, u, i, "delete", rows[i].scope)

\* Fields of the row that a session writes: those that differ from its copy.
Merged(row, copy, new) == [f \in DOMAIN row |-> IF new[f] = copy[f] THEN row[f] ELSE new[f]]

\* What the handler makes of its copy: the team goes with a change of scope.
Rescoped(q) ==
  IF q.copy.kind \in Rules THEN [q.copy EXCEPT !.scope = q.scope]
  ELSE [q.copy EXCEPT !.scope = q.scope, !.by = q.user,
                      !.team = IF q.scope = q.copy.scope THEN @ ELSE ResolveTeamId(q.user, q.scope)]

\* The table of the row is the one the request read; an id of another table is another row.
Fails(r) ==
  LET q == rq[r] IN rows[q.item] = Gone \/ (rows[q.item] # Gone /\ rows[q.item].kind # q.copy.kind)
Overlapped(r) == rq[r].seen # writes[rq[r].item]
Mistaken(r) == rq[r].seen < born[rq[r].item]
Changes(q) == q.step = "update" /\ q.scope # q.copy.scope
\* A change between private and global writes no team: it crosses one that made the row a team's.
Crosses(q, row) == Changes(q) /\ {q.scope, q.copy.scope} = {"private", "global"} /\ row.scope = "team"
With(S, i, cond) == IF cond THEN S \cup {i} ELSE S

Save(r, new) ==
  LET q == rq[r] i == q.item IN
  /\ Finish(r)
  /\ IF Fails(r) THEN UNCHANGED <<rows, writes, marks>>
     ELSE /\ rows' = [rows EXCEPT ![i] = Merged(@, q.copy, new)]
          /\ Wrote(i)
          /\ mistaken' = With(mistaken, i, Mistaken(r))
          /\ crossed' = With(crossed, i, Crosses(q, rows[i]))
          /\ byAdmin' = With(byAdmin, i, Changes(q) /\ IsAdmin(q.user))
          /\ UNCHANGED born

Update(r) == rq[r].step = "update" /\ Save(r, Rescoped(rq[r]))
Toggle(r) == rq[r].step = "toggle" /\ Save(r, [rq[r].copy EXCEPT !.active = ~@])

\* Deleting what is gone is no error.
Delete(r) ==
  LET i == rq[r].item IN
  /\ rq[r].step = "delete"
  /\ Finish(r) /\ UNCHANGED marks
  /\ IF Fails(r) THEN UNCHANGED <<rows, writes>> ELSE rows' = [rows EXCEPT ![i] = Gone] /\ Wrote(i)

Next ==
  \E r \in Request :
    \/ \E u \in User, i \in Item :
         \/ \E kind \in Kind : \E scope \in Scopes(kind) : Create(r, u, i, kind, scope)
         \/ \E scope \in {"private", "team", "global", "user", "other"} : ReadForUpdate(r, u, i, scope)
         \/ ReadForToggle(r, u, i) \/ ReadForDelete(r, u, i)
    \/ Update(r) \/ Toggle(r) \/ Delete(r)

Spec == Init /\ [][Next]_vars

-----------------------------------------------------------------------------
(* Properties.                                                             *)

Present(i) == rows[i] # Gone
SharedItems == {i \in Item : Present(i) /\ rows[i].kind \in Shared}

\* The lists, which filter in SQL, show a user exactly the presets and queries he may
\* open one by one, whoever changed their scope (sharing.py:63, sharing.py:91).
ListedIsReadable == \A i \in SharedItems, u \in User : VisibleFilter(u, rows[i]) <=> CanView(u, rows[i])

\* A row is of a team exactly when its scope is. Of two racing updates each writes only the
\* columns it changed (main.py:3190): one between private and global that crosses one to
\* "team" leaves the team on the row, and no other race does, of notes and rules none. A
\* request may also write the row that took the id of the one it had read.
ScopeAndTeamAgree ==
  \A i \in Item \ mistaken :
    Present(i) => (rows[i].scope = "team" <=> rows[i].team # None) \/ i \in crossed

\* The author of a preset or query cannot open it any more only when an administrator
\* changed its scope, whatever else overlapped: the team is then the administrator's
\* (main.py:3189), though sharing.py:8 says the owner's.
AuthorLosesOnlyByAdmin ==
  \A i \in SharedItems \ mistaken : CanView(rows[i].owner, rows[i]) \/ i \in byAdmin

\* Only administrators change or delete what is global, unless the row became global
\* after the request had read it (sharing.py:9).
GlobalByAdmins ==
  [][\A i \in SharedItems : rows[i].scope = "global" /\ rows'[i] # rows[i] =>
       \E r \in Request : rq'[r] # rq[r] /\ (Overlapped(r) \/ rq[r].user \in Admin)]_vars

\* A scope means what it says, but for the races named above: a row has a team exactly when
\* its scope is "team", and only an administrator takes a row away from its author.
ScopesAreSound == ScopeAndTeamAgree /\ AuthorLosesOnlyByAdmin
=============================================================================
