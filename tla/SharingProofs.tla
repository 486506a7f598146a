---------------------------- MODULE SharingProofs ----------------------------
(***************************************************************************)
(* Who sees and changes what analysts share, for any number of users,      *)
(* teams, rows and overlapping requests.                                   *)
(***************************************************************************)
EXTENDS Sharing, TLAPS

AnyScope == {"private", "team", "global", "user", "analysis", "other"}
Fields == {"kind", "owner", "scope", "team", "by", "active"}
AnyRow == [kind : Kind, owner : User, scope : AnyScope, team : Teams \cup {None}, by : User,
           active : BOOLEAN]
Idle == [step |-> "idle"]
Done == [step |-> "done"]
Ops == {"update", "toggle", "delete"}
Pending == [step : Ops, user : User, item : Item, scope : AnyScope, copy : AnyRow, seen : Nat]

Types ==
  /\ rows \in [Item -> AnyRow \cup {Gone}]
  /\ rq \in [Request -> {Idle, Done} \cup Pending]
  /\ writes \in [Item -> Nat] /\ born \in [Item -> Nat]
  /\ mistaken \subseteq Item /\ crossed \subseteq Item /\ byAdmin \subseteq Item

\* The scope is one of the row's kind; only what analysts share, and notes, have a team.
WellScoped(row) == row.scope \in Asked(row.kind) /\ (row.kind \in Rules => row.team = None)
ScopesFit == \A i \in Item : Present(i) => WellScoped(rows[i])

\* What a handler had checked on the row it read.
HadTheRight(q) ==
  /\ WellScoped(q.copy) /\ MayEdit(q.user, q.copy)
  /\ q.step = "update" => /\ q.scope \in Asked(q.copy.kind)
                          /\ q.scope # q.copy.scope => MayRescope(q.user, q.copy, q.scope)
  /\ q.step = "toggle" => q.copy.kind \in Rules

\* What the properties say of one row.
TeamAgrees(row) == row.scope = "team" <=> row.team # None
AuthorSees(row) == row.kind \in Shared => CanView(row.owner, row)

\* The row is still the one a request read unless somebody wrote it since; what it read of a
\* row that is still there agreed unless its id is marked, and has the row's author.
Checked ==
  \A r \in Request : rq[r].step \in Ops =>
    /\ rq[r].seen <= writes[rq[r].item]
    /\ ~Overlapped(r) => rows[rq[r].item] = rq[r].copy
    /\ HadTheRight(rq[r])
    /\ ~Mistaken(r) =>
         /\ TeamAgrees(rq[r].copy) \/ rq[r].item \in crossed \cup mistaken
         /\ Present(rq[r].item) => rows[rq[r].item].owner = rq[r].copy.owner

\* Only an administrator's change crosses another; nothing was written before it was created.
Marks == crossed \subseteq byAdmin /\ \A i \in Item : born[i] <= writes[i]

\* What the properties say of the row at an id.
RowSound(i) ==
  Present(i) /\ i \notin mistaken =>
    /\ TeamAgrees(rows[i]) \/ i \in crossed
    /\ AuthorSees(rows[i]) \/ i \in byAdmin
Sound == \A i \in Item : RowSound(i)

IInv == Types /\ ScopesFit /\ Checked /\ Marks /\ Sound

-----------------------------------------------------------------------------
(* Rows.                                                                   *)

LEMMA PendingByStep ==
  ASSUME NEW q \in {Idle, Done} \cup Pending
  PROVE  /\ q.step \in Ops => q \in Pending
         /\ q.step = "idle" => q = Idle
  BY DEF Pending, Idle, Done, Ops

LEMMA KindsApart ==
  ASSUME NEW kind \in Kind
  PROVE  /\ kind \in Shared => kind # "note" /\ kind \notin Rules
         /\ kind \in Rules => kind # "note"
         /\ kind \in Shared \/ kind = "note" \/ kind \in Rules
  BY DEF Kind, Shared, Rules

LEMMA ScopesOf ==
  ASSUME NEW kind \in Kind
  PROVE  /\ Scopes(kind) \subseteq Asked(kind) /\ Asked(kind) \subseteq AnyScope
         /\ kind \in Shared => Asked(kind) = {"private", "team", "global"}
         /\ kind \in Rules => "team" \notin Asked(kind)
<1>1. CASE kind \in Shared
  BY <1>1 DEF Asked, Scopes, Shared, Rules, AnyScope
<1>2. CASE kind = "note"
  BY <1>2 DEF Asked, Scopes, Shared, Rules, AnyScope
<1>3. CASE kind = "suppression"
  BY <1>3 DEF Asked, Scopes, Shared, Rules, AnyScope
<1>4. CASE kind = "correlation"
  BY <1>4 DEF Asked, Scopes, Shared, Rules, AnyScope
<1> QED  BY <1>1, <1>2, <1>3, <1>4 DEF Kind, Rules

LEMMA TeamTypes ==
  ASSUME NEW u \in User, NEW scope
  PROVE  ResolveTeamId(u, scope) \in Teams \cup {None}
  BY DEF ResolveTeamId, Teams

\* A user who may edit a preset or query sees it, and is its author or an administrator.
LEMMA EditorSees ==
  ASSUME NEW u \in User, NEW row \in AnyRow, row.kind \in Shared, MayEdit(u, row)
  PROVE  /\ CanView(u, row)
         /\ u \in Admin \/ (row.owner = u /\ row.scope # "global")
<1>1. row.kind \in Kind /\ row.kind # "note" /\ row.kind \notin Rules  BY KindsApart DEF AnyRow
<1> QED  BY <1>1 DEF MayEdit, CanEdit, IsAdmin

\* An update writes a row that fits, and keeps all but scope, team and editor.
LEMMA RescopedTypes ==
  ASSUME NEW q \in Pending, q.step = "update", HadTheRight(q)
  PROVE  /\ Rescoped(q) \in AnyRow
         /\ Rescoped(q).kind = q.copy.kind /\ Rescoped(q).owner = q.copy.owner
         /\ Rescoped(q).scope = q.scope
         /\ Rescoped(q).active = q.copy.active
         /\ q.copy.kind \in Rules => Rescoped(q).team = q.copy.team /\ Rescoped(q).by = q.copy.by
         /\ q.copy.kind \notin Rules =>
              /\ Rescoped(q).by = q.user
              /\ Rescoped(q).team = IF q.scope = q.copy.scope THEN q.copy.team
                                    ELSE ResolveTeamId(q.user, q.scope)
<1>1. q.copy \in AnyRow /\ q.user \in User /\ q.scope \in AnyScope  BY DEF Pending
<1>2. ResolveTeamId(q.user, q.scope) \in Teams \cup {None}  BY <1>1, TeamTypes
<1> QED  BY <1>1, <1>2 DEF Rescoped, AnyRow

\* Of two rows of one kind, the merge has the kind; its fields are the row's or the new ones.
LEMMA MergedTypes ==
  ASSUME NEW row \in AnyRow, NEW copy \in AnyRow, NEW new \in AnyRow
  PROVE  /\ Merged(row, copy, new) \in AnyRow
         /\ \A f \in Fields : Merged(row, copy, new)[f] = IF new[f] = copy[f] THEN row[f] ELSE new[f]
<1>1. DOMAIN row = Fields  BY DEF AnyRow, Fields
<1>2. Merged(row, copy, new) = [f \in Fields |-> IF new[f] = copy[f] THEN row[f] ELSE new[f]]
  BY <1>1 DEF Merged
<1>3. Merged(row, copy, new) =
        [kind |-> IF new.kind = copy.kind THEN row.kind ELSE new.kind,
         owner |-> IF new.owner = copy.owner THEN row.owner ELSE new.owner,
         scope |-> IF new.scope = copy.scope THEN row.scope ELSE new.scope,
         team |-> IF new.team = copy.team THEN row.team ELSE new.team,
         by |-> IF new.by = copy.by THEN row.by ELSE new.by,
         active |-> IF new.active = copy.active THEN row.active ELSE new.active]
  BY <1>2 DEF Fields
<1>4. Merged(row, copy, new) \in AnyRow  BY <1>3 DEF AnyRow
<1> QED  BY <1>2, <1>4

\* Merged into the row it was made from, the new row is written as it is.
LEMMA MergedFresh ==
  ASSUME NEW copy \in AnyRow, NEW new \in AnyRow
  PROVE  Merged(copy, copy, new) = new
<1>1. DOMAIN copy = Fields /\ DOMAIN new = Fields  BY DEF AnyRow, Fields
<1>2. new = [f \in Fields |-> new[f]]  BY <1>1 DEF AnyRow, Fields
<1>3. Merged(copy, copy, new) = [f \in Fields |-> IF new[f] = copy[f] THEN copy[f] ELSE new[f]]
  BY <1>1 DEF Merged
<1> QED  BY <1>2, <1>3

-----------------------------------------------------------------------------
(* One row, soundly scoped.                                                *)

\* What a user creates belongs to the scope he asks for, and he sees it.
LEMMA CreatedSound ==
  ASSUME SharingAssumption, NEW u \in User, NEW kind \in Kind, NEW scope \in Scopes(kind),
         MayCreate(u, kind, scope),
         NEW row, row = [kind |-> kind, owner |-> u, scope |-> scope, by |-> u, active |-> TRUE,
                         team |-> IF kind \in Rules THEN None ELSE ResolveTeamId(u, scope)]
  PROVE  row \in AnyRow /\ WellScoped(row) /\ TeamAgrees(row) /\ AuthorSees(row)
<1>1. scope \in Asked(kind) /\ scope \in AnyScope  BY ScopesOf
<1>2. ResolveTeamId(u, scope) \in Teams \cup {None}  BY TeamTypes
<1>3. row \in AnyRow /\ WellScoped(row)  BY <1>1, <1>2 DEF AnyRow, WellScoped
<1>4. TeamAgrees(row)
  <2>1. CASE kind \in Rules  BY <2>1, <1>1, ScopesOf DEF TeamAgrees
  <2>2. CASE kind \notin Rules
    <3>1. scope = "team" => InTeam(u)
      BY <2>2, KindsApart DEF MayCreate, CheckCanCreate, NoteCanCreate
    <3> QED  BY <3>1, <2>2 DEF TeamAgrees, ResolveTeamId, InTeam
  <2> QED  BY <2>1, <2>2
<1>5. AuthorSees(row)
  <2> SUFFICES ASSUME kind \in Shared  PROVE CanView(u, row)  BY DEF AuthorSees
  <2>1. kind \notin Rules /\ scope \in {"private", "team", "global"}  BY <1>1, ScopesOf, KindsApart
  <2>2. CheckCanCreate(u, scope)  BY KindsApart DEF MayCreate
  <2> QED  BY <2>1, <2>2 DEF CanView, CheckCanCreate, ResolveTeamId, InTeam, IsAdmin
<1> QED  BY <1>3, <1>4, <1>5

\* An update keeps a row's team in agreement with its scope unless it crosses another's change.
LEMMA UpdateAgrees ==
  ASSUME SharingAssumption, NEW q \in Pending, q.step = "update", HadTheRight(q), TeamAgrees(q.copy),
         NEW old \in AnyRow, old.kind = q.copy.kind, WellScoped(old), TeamAgrees(old),
         ~Crosses(q, old)
  PROVE  TeamAgrees(Merged(old, q.copy, Rescoped(q)))
<1> DEFINE row == Merged(old, q.copy, Rescoped(q))
<1>1. q.copy \in AnyRow /\ q.user \in User /\ q.copy.kind \in Kind  BY DEF Pending, AnyRow
<1>2. q.scope \in Asked(q.copy.kind) /\ q.copy.scope \in Asked(q.copy.kind)
  BY DEF HadTheRight, WellScoped
<1>3. /\ row.scope = IF q.scope = q.copy.scope THEN old.scope ELSE q.scope
      /\ row.team = IF Rescoped(q).team = q.copy.team THEN old.team ELSE Rescoped(q).team
  BY <1>1, RescopedTypes, MergedTypes DEF Fields
<1> SUFFICES TeamAgrees(row)  OBVIOUS
<1> HIDE DEF row
<1>4. CASE q.copy.kind \in Rules
  <2>1. q.scope # "team" /\ old.scope # "team" /\ q.copy.team = None /\ old.team = None
    BY <1>1, <1>2, <1>4, ScopesOf DEF HadTheRight, WellScoped
  <2>2. Rescoped(q).team = None  BY <2>1, <1>4, RescopedTypes
  <2> QED  BY <1>3, <2>1, <2>2 DEF TeamAgrees
<1>5. CASE q.copy.kind \notin Rules /\ q.scope = q.copy.scope
  <2>1. Rescoped(q).team = q.copy.team  BY <1>5, RescopedTypes
  <2> QED  BY <1>3, <1>5, <2>1 DEF TeamAgrees
<1>6. CASE q.copy.kind \notin Rules /\ q.scope # q.copy.scope
  <2>1. q.scope = "team" => InTeam(q.user)
    BY <1>1, <1>6, KindsApart DEF HadTheRight, MayRescope, CheckCanCreate
  <2>2. Rescoped(q).team = ResolveTeamId(q.user, q.scope) /\ row.scope = q.scope
    BY <1>3, <1>6, RescopedTypes
  <2>3. CASE q.scope = "team"
    <3>1. q.copy.team = None /\ Rescoped(q).team # None
      BY <1>6, <2>1, <2>2, <2>3 DEF TeamAgrees, ResolveTeamId, InTeam
    <3> QED  BY <1>3, <2>2, <2>3, <3>1 DEF TeamAgrees
  <2>4. CASE q.scope # "team" /\ q.copy.scope = "team"
    BY <1>3, <2>2, <2>4 DEF TeamAgrees, ResolveTeamId
  <2>5. CASE q.scope # "team" /\ q.copy.scope # "team"
    <3>1. q.copy.kind \in Shared
      <4>1. CASE q.copy.kind = "note"
        BY <4>1, <1>2, <1>6, <2>5 DEF Asked, Scopes, Shared, Rules
      <4> QED  BY <4>1, <1>1, <1>6, KindsApart
    <3>2. {q.scope, q.copy.scope} = {"private", "global"}  BY <3>1, <1>1, <1>2, <1>6, <2>5, ScopesOf
    <3>3. old.scope # "team"  BY <3>2, <1>6 DEF Crosses, Changes
    <3> QED  BY <1>3, <2>2, <2>5, <3>3 DEF TeamAgrees, ResolveTeamId
  <2> QED  BY <2>3, <2>4, <2>5
<1> QED  BY <1>4, <1>5, <1>6

\* Only an administrator takes a row away from its author.
LEMMA UpdateShows ==
  ASSUME SharingAssumption, NEW q \in Pending, q.step = "update", HadTheRight(q), TeamAgrees(q.copy),
         NEW old \in AnyRow, old.kind = q.copy.kind, old.owner = q.copy.owner, AuthorSees(old),
         ~(Changes(q) /\ IsAdmin(q.user))
  PROVE  AuthorSees(Merged(old, q.copy, Rescoped(q)))
<1> DEFINE row == Merged(old, q.copy, Rescoped(q))
<1>1. q.copy \in AnyRow /\ q.user \in User /\ q.copy.kind \in Kind  BY DEF Pending, AnyRow
<1>2. q.scope \in Asked(q.copy.kind) /\ q.copy.scope \in Asked(q.copy.kind)
  BY DEF HadTheRight, WellScoped
<1>3. /\ row.scope = IF q.scope = q.copy.scope THEN old.scope ELSE q.scope
      /\ row.team = IF Rescoped(q).team = q.copy.team THEN old.team ELSE Rescoped(q).team
      /\ row.kind = old.kind /\ row.owner = old.owner
  BY <1>1, RescopedTypes, MergedTypes DEF Fields
<1> HIDE DEF row
<1> SUFFICES ASSUME q.copy.kind \in Shared  PROVE CanView(old.owner, row)
  BY <1>3 DEF AuthorSees, row
<1>4. q.copy.kind \notin Rules /\ CanView(old.owner, old)  BY <1>1, KindsApart DEF AuthorSees
<1>5. CASE q.scope = q.copy.scope
  <2>1. Rescoped(q).team = q.copy.team  BY <1>4, <1>5, RescopedTypes
  <2> QED  BY <1>3, <1>4, <1>5, <2>1 DEF CanView
<1>6. CASE q.scope # q.copy.scope
  <2>1. q.user \notin Admin  BY <1>6 DEF Changes, IsAdmin
  <2>2. q.user = old.owner /\ CheckCanCreate(q.user, q.scope)
    BY <1>1, <1>6, <2>1, EditorSees, KindsApart DEF HadTheRight, MayRescope
  <2>3. q.scope \in {"private", "team"}
    BY <1>1, <1>2, <2>1, <2>2, ScopesOf DEF CheckCanCreate, IsAdmin
  <2>4. row.scope = q.scope /\ Rescoped(q).team = ResolveTeamId(q.user, q.scope)
    BY <1>3, <1>4, <1>6, RescopedTypes
  <2>5. CASE q.scope = "private"  BY <1>3, <2>4, <2>5 DEF CanView
  <2>6. CASE q.scope = "team"
    <3>1. q.copy.team = None /\ Team[q.user] # None
      BY <1>6, <2>2, <2>6 DEF TeamAgrees, CheckCanCreate, InTeam
    <3>2. row.team = Team[q.user]  BY <1>3, <2>4, <2>6, <3>1 DEF ResolveTeamId
    <3> QED  BY <2>2, <2>4, <2>6, <3>1, <3>2 DEF CanView, InTeam
  <2> QED  BY <2>3, <2>5, <2>6
<1> QED  BY <1>5, <1>6

\* A change between private and global is an administrator's.
LEMMA CrossedByAdmin ==
  ASSUME NEW q \in Pending, q.step = "update", HadTheRight(q), NEW row, Crosses(q, row)
  PROVE  Changes(q) /\ IsAdmin(q.user)
<1>1. q.copy \in AnyRow /\ q.user \in User /\ q.copy.kind \in Kind  BY DEF Pending, AnyRow
<1>2. q.scope # q.copy.scope /\ {q.scope, q.copy.scope} = {"private", "global"}
  BY DEF Crosses, Changes
<1>3. q.copy.kind \in Shared
  <2>1. ~(q.copy.kind = "note")
    BY <1>2 DEF HadTheRight, WellScoped, Asked, Scopes, Shared, Rules
  <2>2. ~(q.copy.kind \in Rules)
    BY <1>2 DEF HadTheRight, WellScoped, Asked, Scopes, Shared, Rules
  <2> QED  BY <1>1, <2>1, <2>2, KindsApart
<1>4. CASE q.copy.scope = "global"
  BY <1>1, <1>3, <1>4, EditorSees DEF HadTheRight, Crosses, IsAdmin
<1>5. CASE q.scope = "global"
  BY <1>1, <1>2, <1>3, <1>5, KindsApart DEF HadTheRight, MayRescope, CheckCanCreate, Crosses
<1> QED  BY <1>2, <1>4, <1>5

-----------------------------------------------------------------------------
(* Requests.                                                               *)

LEMMA Finished ==
  ASSUME Types, NEW r \in Request, Finish(r)
  PROVE  /\ rq' \in [Request -> {Idle, Done} \cup Pending]
         /\ rq'[r] = Done
         /\ \A s \in Request \ {r} : rq'[s] = rq[s]
  BY DEF Types, Finish, Done

LEMMA Counted ==
  ASSUME Types, NEW i \in Item, Wrote(i)
  PROVE  /\ writes' \in [Item -> Nat] /\ writes'[i] = writes[i] + 1 /\ writes[i] \in Nat
         /\ \A j \in Item \ {i} : writes'[j] = writes[j]
  BY DEF Types, Wrote

\* The row of an id is the same as before, or there was none and is none.
SameRow(i) ==
  /\ born'[i] = born[i] /\ (i \in crossed \cup mistaken => i \in (crossed \cup mistaken)')
  /\ rows'[i] # Gone => rows[i] # Gone /\ rows'[i].owner = rows[i].owner

\* A request that ends, having written one row or none, leaves the others as they were:
\* theirs is the same row, or one created after they had read.
LEMMA OthersChecked ==
  ASSUME Types, Checked, NEW r \in Request, Finish(r),
         \/ UNCHANGED <<rows, writes>>
         \/ \E i \in Item : Wrote(i) /\ \A j \in Item \ {i} : rows'[j] = rows[j],
         born' \in [Item -> Nat], \A i \in Item : SameRow(i) \/ born'[i] > writes[i]
  PROVE  Checked'
<1> SUFFICES ASSUME NEW s \in Request, rq'[s].step \in Ops
             PROVE  /\ rq'[s].seen <= writes'[rq'[s].item]
                    /\ rq'[s].seen = writes'[rq'[s].item] => rows'[rq'[s].item] = rq'[s].copy
                    /\ HadTheRight(rq'[s])
                    /\ ~(rq'[s].seen < born'[rq'[s].item]) =>
                         /\ TeamAgrees(rq'[s].copy) \/ rq'[s].item \in (crossed \cup mistaken)'
                         /\ rows'[rq'[s].item] # Gone => rows'[rq'[s].item].owner = rq'[s].copy.owner
  BY DEF Checked, Overlapped, Mistaken, Present
<1>1. s # r /\ rq'[s] = rq[s]  BY Finished DEF Done, Ops
<1>2. rq[s] \in Pending  BY <1>1, PendingByStep DEF Types
<1>3. /\ rq[s].item \in Item /\ rq[s].seen \in Nat /\ rq[s].seen <= writes[rq[s].item]
      /\ rq[s].seen = writes[rq[s].item] => rows[rq[s].item] = rq[s].copy
      /\ HadTheRight(rq[s])
      /\ ~(rq[s].seen < born[rq[s].item]) =>
           /\ TeamAgrees(rq[s].copy) \/ rq[s].item \in crossed \cup mistaken
           /\ rows[rq[s].item] # Gone => rows[rq[s].item].owner = rq[s].copy.owner
  BY <1>1, <1>2 DEF Checked, Pending, Overlapped, Mistaken, Present
<1>5. ASSUME NEW i \in Item, Wrote(i), \A j \in Item \ {i} : rows'[j] = rows[j]
      PROVE  /\ rq[s].seen <= writes'[rq[s].item]
             /\ rq[s].seen = writes'[rq[s].item] => rows'[rq[s].item] = rq[s].copy
  BY <1>3, <1>5, Counted
<1>6. /\ rq[s].seen <= writes'[rq[s].item]
      /\ rq[s].seen = writes'[rq[s].item] => rows'[rq[s].item] = rq[s].copy
  BY <1>1, <1>3, <1>5
<1>7. ~(rq[s].seen < born'[rq[s].item]) =>
         /\ TeamAgrees(rq[s].copy) \/ rq[s].item \in (crossed \cup mistaken)'
         /\ rows'[rq[s].item] # Gone => rows'[rq[s].item].owner = rq[s].copy.owner
  <2>1. CASE SameRow(rq[s].item)  BY <1>3, <2>1 DEF SameRow
  <2>2. CASE born'[rq[s].item] > writes[rq[s].item]
    <3>1. writes[rq[s].item] \in Nat /\ born'[rq[s].item] \in Nat  BY <1>3 DEF Types
    <3> QED  BY <1>3, <2>2, <3>1
  <2> QED  BY <1>3, <2>1, <2>2
<1> QED  BY <1>1, <1>3, <1>6, <1>7

LEMMA CreateKeeps ==
  ASSUME SharingAssumption, IInv, NEW r \in Request, NEW u \in User, NEW i \in Item,
         NEW kind \in Kind, NEW scope \in Scopes(kind), Create(r, u, i, kind, scope)
  PROVE  IInv'
<1> DEFINE row == [kind |-> kind, owner |-> u, scope |-> scope, by |-> u, active |-> TRUE,
                   team |-> IF kind \in Rules THEN None ELSE ResolveTeamId(u, scope)]
<1>1. /\ Finish(r) /\ Wrote(i) /\ MayCreate(u, kind, scope)
      /\ rows' = [rows EXCEPT ![i] = row] /\ born' = [born EXCEPT ![i] = writes[i] + 1]
      /\ mistaken' = mistaken \ {i} /\ crossed' = crossed \ {i} /\ byAdmin' = byAdmin \ {i}
  BY DEF Create
<1>2. row \in AnyRow /\ WellScoped(row) /\ TeamAgrees(row) /\ AuthorSees(row)  BY <1>1, CreatedSound
<1>3. Types /\ ScopesFit /\ Checked /\ Marks /\ Sound  BY DEF IInv
<1> HIDE DEF row
<1>4. /\ rows' \in [Item -> AnyRow \cup {Gone}] /\ rows'[i] = row
      /\ \A j \in Item \ {i} : rows'[j] = rows[j]
  BY <1>1, <1>2, <1>3 DEF Types
<1>5. /\ writes[i] \in Nat /\ born' \in [Item -> Nat] /\ born'[i] = writes[i] + 1
      /\ \A j \in Item \ {i} : born'[j] = born[j]
  BY <1>1, <1>3 DEF Types
<1>6. Types'  BY <1>1, <1>3, <1>4, <1>5, Finished, Counted DEF Types
<1>7. ScopesFit'  BY <1>2, <1>3, <1>4 DEF ScopesFit, Present
<1>8. Checked'
  <2>1. born'[i] > writes[i]  BY <1>5
  <2>2. \A j \in Item \ {i} : SameRow(j)  BY <1>1, <1>4, <1>5 DEF SameRow, Present
  <2> QED  BY <1>1, <1>3, <1>4, <1>5, <2>1, <2>2, OthersChecked
<1>9. Marks'  BY <1>1, <1>3, <1>5, Counted DEF Marks
<1>10. Sound'
  BY <1>1, <1>2, <1>3, <1>4 DEF Sound, RowSound, Present
<1> QED  BY <1>6, <1>7, <1>8, <1>9, <1>10 DEF IInv

LEMMA ReadKeeps ==
  ASSUME IInv, NEW r \in Request, NEW u \in User, NEW i \in Item, NEW step \in Ops,
         NEW scope \in AnyScope, Read(r, u, i, step, scope),
         step = "update" => /\ scope \in Asked(rows[i].kind)
                            /\ scope # rows[i].scope => MayRescope(u, rows[i], scope),
         step = "toggle" => rows[i].kind \in Rules
  PROVE  IInv'
<1> DEFINE q == [step |-> step, user |-> u, item |-> i, scope |-> scope, copy |-> rows[i],
                 seen |-> writes[i]]
<1>1. /\ rows[i] # Gone /\ MayEdit(u, rows[i]) /\ rq' = [rq EXCEPT ![r] = q]
      /\ UNCHANGED <<rows, writes, born, mistaken, crossed, byAdmin>>
  BY DEF Read, marks
<1>2. Types /\ ScopesFit /\ Checked /\ Marks /\ Sound  BY DEF IInv
<1>3. q \in Pending /\ HadTheRight(q)
  BY <1>1, <1>2 DEF Types, Pending, HadTheRight, ScopesFit, Present
<1>4. /\ q.item = i /\ q.seen = writes[i] /\ q.copy = rows[i] /\ writes[i] \in Nat
  BY <1>2 DEF Types
<1>a. TeamAgrees(rows[i]) \/ i \in crossed \cup mistaken
  BY <1>1, <1>2 DEF Sound, RowSound, Present, TeamAgrees, AuthorSees
<1> HIDE DEF q
<1>5. /\ rq' \in [Request -> {Idle, Done} \cup Pending] /\ rq'[r] = q
      /\ \A s \in Request \ {r} : rq'[s] = rq[s]
  BY <1>1, <1>2, <1>3 DEF Types
<1>6. Types'  BY <1>1, <1>2, <1>5 DEF Types
<1>7. Checked'
  <2> SUFFICES ASSUME NEW s \in Request, rq'[s].step \in Ops
               PROVE  /\ rq'[s].seen <= writes'[rq'[s].item]
                      /\ rq'[s].seen = writes'[rq'[s].item] => rows[rq'[s].item] = rq'[s].copy
                      /\ HadTheRight(rq'[s])
                      /\ ~(rq'[s].seen < born[rq'[s].item]) =>
                           /\ TeamAgrees(rq'[s].copy) \/ rq'[s].item \in crossed \cup mistaken
                           /\ Present(rq'[s].item) => rows[rq'[s].item].owner = rq'[s].copy.owner
    BY <1>1 DEF Checked, Overlapped, Mistaken, Present
  <2>1. CASE s = r  BY <1>1, <1>3, <1>4, <1>a, <1>5, <2>1
  <2>2. CASE s # r  BY <1>1, <1>2, <1>5, <2>2 DEF Checked, Overlapped, Mistaken
  <2> QED  BY <2>1, <2>2
<1>8. ScopesFit' /\ Marks' /\ Sound'
  BY <1>1, <1>2 DEF ScopesFit, Present, Marks, Sound, RowSound
<1> QED  BY <1>6, <1>7, <1>8 DEF IInv

\* An update or a toggle that does not fail: what it makes of its copy fits.
Sane(q, new) == new \in AnyRow /\ new.kind = q.copy.kind /\ new.owner = q.copy.owner /\ WellScoped(new)

LEMMA RescopedSane ==
  ASSUME NEW q \in Pending, q.step = "update", HadTheRight(q)
  PROVE  Sane(q, Rescoped(q))
<1>1. q.copy.kind \in Rules => q.copy.team = None  BY DEF HadTheRight, WellScoped
<1>2. WellScoped(Rescoped(q))  BY <1>1, RescopedTypes DEF HadTheRight, WellScoped
<1> QED  BY <1>2, RescopedTypes DEF Sane

LEMMA ToggledSane ==
  ASSUME NEW q \in Pending, HadTheRight(q)
  PROVE  LET new == [q.copy EXCEPT !.active = ~@]
         IN  Sane(q, new) /\ new.scope = q.copy.scope /\ new.team = q.copy.team
<1>1. q.copy \in AnyRow  BY DEF Pending
<1> QED  BY <1>1 DEF Sane, AnyRow, WellScoped, HadTheRight

\* A row that a request writes stays sound, whatever was written since it read: what it
\* writes into the row is merged by the lemmas above.
LEMMA SavedSound ==
  ASSUME SharingAssumption, IInv, NEW r \in Request, Update(r) \/ Toggle(r), ~Fails(r), ~Mistaken(r),
         NEW new, new = IF Update(r) THEN Rescoped(rq[r]) ELSE [rq[r].copy EXCEPT !.active = ~@],
         NEW i, i = rq[r].item, i \notin mistaken,
         NEW row, row = Merged(rows[i], rq[r].copy, new)
  PROVE  /\ TeamAgrees(row) \/ i \in crossed \/ Crosses(rq[r], rows[i])
         /\ AuthorSees(row) \/ i \in byAdmin \/ (Changes(rq[r]) /\ IsAdmin(rq[r].user))
<1> DEFINE q == rq[r]
           old == rows[i]
<1>1. Types /\ ScopesFit /\ Checked /\ Marks /\ Sound  BY DEF IInv
<1>2. q \in Pending /\ q.step \in Ops /\ i \in Item /\ q.copy \in AnyRow
  BY <1>1, PendingByStep DEF Types, Pending, Update, Toggle, Ops
<1>3. old # Gone /\ old \in AnyRow /\ old.kind = q.copy.kind
  BY <1>1, <1>2 DEF Fails, Types
<1>4. HadTheRight(q) /\ old.owner = q.copy.owner /\ (TeamAgrees(q.copy) \/ i \in crossed)
  BY <1>1, <1>2, <1>3 DEF Checked, Present
<1>5. WellScoped(old) /\ (TeamAgrees(old) \/ i \in crossed) /\ (AuthorSees(old) \/ i \in byAdmin)
  <2>1. RowSound(i) /\ WellScoped(rows[i])  BY <1>1, <1>2, <1>3 DEF ScopesFit, Sound, Present
  <2> QED  BY <1>3, <2>1 DEF RowSound, Present, TeamAgrees, AuthorSees
<1>6. i \in crossed => i \in byAdmin  BY <1>1 DEF Marks
<1> HIDE DEF q, old
<1>7. CASE Update(r)
  <2>1. q.step = "update" /\ row = Merged(old, q.copy, Rescoped(q))  BY <1>7 DEF Update, q, old
  <2>2. TeamAgrees(row) \/ i \in crossed \/ Crosses(q, old)
    BY <1>2, <1>3, <1>4, <1>5, <2>1, UpdateAgrees
  <2>3. AuthorSees(row) \/ i \in byAdmin \/ (Changes(q) /\ IsAdmin(q.user))
    BY <1>2, <1>3, <1>4, <1>5, <1>6, <2>1, UpdateShows
  <2> QED  BY <2>2, <2>3 DEF q, old
<1>8. CASE ~Update(r)
  <2>1. /\ Sane(q, new) /\ new.scope = q.copy.scope /\ new.team = q.copy.team
        /\ row = Merged(old, q.copy, new)
    BY <1>2, <1>4, <1>8, ToggledSane DEF q, old
  <2>2. row.scope = old.scope /\ row.team = old.team /\ row.kind = old.kind /\ row.owner = old.owner
    <3>1. new \in AnyRow /\ new.kind = q.copy.kind /\ new.owner = q.copy.owner  BY <2>1 DEF Sane
    <3>2. \A f \in Fields : row[f] = IF new[f] = q.copy[f] THEN old[f] ELSE new[f]
      BY <1>2, <1>3, <2>1, <3>1, MergedTypes
    <3> QED  BY <2>1, <3>1, <3>2 DEF Fields
  <2>3. TeamAgrees(old) => TeamAgrees(row)  BY <2>2 DEF TeamAgrees
  <2>4. AuthorSees(old) => AuthorSees(row)  BY <2>2 DEF AuthorSees, CanView
  <2> QED  BY <1>5, <2>3, <2>4
<1> QED  BY <1>7, <1>8

LEMMA SaveKeeps ==
  ASSUME SharingAssumption, IInv, NEW r \in Request, Update(r) \/ Toggle(r)
  PROVE  IInv'
<1> DEFINE q == rq[r]
           i == rq[r].item
           new == IF Update(r) THEN Rescoped(q) ELSE [q.copy EXCEPT !.active = ~@]
<1>1. Types /\ ScopesFit /\ Checked /\ Marks /\ Sound  BY DEF IInv
<1>2. q \in Pending /\ q.step \in Ops /\ i \in Item /\ q.copy \in AnyRow
  BY <1>1, PendingByStep DEF Types, Pending, Update, Toggle, Ops
<1>3. Save(r, new) /\ Finish(r)  BY DEF Update, Toggle, Save
<1>4. HadTheRight(q)  BY <1>1, <1>2 DEF Checked
<1>5. Sane(q, new)
  <2>1. CASE Update(r)  BY <1>2, <1>4, <2>1, RescopedSane DEF Update
  <2>2. CASE ~Update(r)  BY <1>2, <1>4, <2>2, ToggledSane
  <2> QED  BY <2>1, <2>2
<1>6. new = IF Update(r) THEN Rescoped(rq[r]) ELSE [rq[r].copy EXCEPT !.active = ~@]  OBVIOUS
<1> HIDE DEF new
<1>7. CASE Fails(r)
  <2>1. UNCHANGED <<rows, writes, born, mistaken, crossed, byAdmin>>  BY <1>3, <1>7 DEF Save, marks
  <2>2. Types'  BY <1>1, <1>3, <2>1, Finished DEF Types
  <2>3. born' \in [Item -> Nat] /\ \A j \in Item : SameRow(j)
    BY <1>1, <2>1 DEF SameRow, Present, Types
  <2>4. Checked'  BY <1>1, <1>3, <2>1, <2>3, OthersChecked
  <2> QED  BY <1>1, <2>1, <2>2, <2>4 DEF IInv, ScopesFit, Present, Marks, Sound, RowSound
<1>8. CASE ~Fails(r)
  <2> DEFINE row == Merged(rows[i], q.copy, new)
  <2>1. /\ rows' = [rows EXCEPT ![i] = row] /\ Wrote(i) /\ UNCHANGED born
        /\ mistaken' = With(mistaken, i, Mistaken(r))
        /\ crossed' = With(crossed, i, Crosses(q, rows[i]))
        /\ byAdmin' = With(byAdmin, i, Changes(q) /\ IsAdmin(q.user))
    BY <1>3, <1>8 DEF Save
  <2>2. rows[i] # Gone /\ rows[i] \in AnyRow /\ rows[i].kind = q.copy.kind
    BY <1>1, <1>2, <1>8 DEF Fails, Types
  <2>3. WellScoped(rows[i])  BY <1>1, <1>2, <2>2 DEF ScopesFit, Present
  <2>4. /\ row \in AnyRow /\ row.kind = q.copy.kind /\ row.owner = rows[i].owner
        /\ row.scope = rows[i].scope \/ row.scope = new.scope
        /\ row.team = rows[i].team \/ row.team = new.team
    BY <1>2, <1>5, <2>2, MergedTypes DEF Fields, Sane
  <2>5. WellScoped(row)  BY <1>5, <2>2, <2>3, <2>4 DEF WellScoped, Sane
  <2>6. ~Mistaken(r) /\ i \notin mistaken =>
          /\ TeamAgrees(row) \/ i \in crossed \/ Crosses(q, rows[i])
          /\ AuthorSees(row) \/ i \in byAdmin \/ (Changes(q) /\ IsAdmin(q.user))
    BY <1>6, <1>8, SavedSound
  <2>7. Crosses(q, rows[i]) => Changes(q) /\ IsAdmin(q.user)
    BY <1>2, <1>4, CrossedByAdmin DEF Crosses, Changes
  <2> HIDE DEF row, q
  <2>8. /\ rows' \in [Item -> AnyRow \cup {Gone}] /\ rows'[i] = row
        /\ \A j \in Item \ {i} : rows'[j] = rows[j]
    BY <1>1, <1>2, <2>1, <2>4 DEF Types
  <2>9. mistaken' \subseteq Item /\ crossed' \subseteq Item /\ byAdmin' \subseteq Item
    BY <1>1, <1>2, <2>1 DEF Types, With
  <2>10. Types'  BY <1>1, <1>2, <1>3, <2>1, <2>8, <2>9, Finished, Counted DEF Types
  <2>11. ScopesFit'  BY <1>1, <1>2, <2>5, <2>8 DEF ScopesFit, Present
  <2>12. Checked'
    <3>1. \A j \in Item : SameRow(j)
      BY <2>1, <2>2, <2>4, <2>8 DEF SameRow, Present, With
    <3> QED  BY <1>1, <1>2, <1>3, <2>1, <2>8, <2>10, <3>1, OthersChecked DEF Types
  <2>13. Marks'
    <3>1. crossed' \subseteq byAdmin'  BY <1>1, <2>1, <2>7 DEF Marks, With
    <3>2. \A j \in Item : born'[j] <= writes'[j]
      BY <1>1, <1>2, <2>1, Counted DEF Marks, Types
    <3> QED  BY <3>1, <3>2 DEF Marks
  <2>14. Sound'
    <3> SUFFICES ASSUME NEW j \in Item, rows'[j] # Gone, j \notin mistaken'
                 PROVE  /\ TeamAgrees(rows'[j]) \/ j \in crossed'
                        /\ AuthorSees(rows'[j]) \/ j \in byAdmin'
      BY DEF Sound, RowSound, Present, TeamAgrees, AuthorSees, CanView, IsAdmin, InTeam
    <3>1. CASE j = i  BY <2>1, <2>6, <2>8, <3>1 DEF With
    <3>2. CASE j # i  BY <1>1, <2>1, <2>8, <3>2
        DEF Sound, RowSound, Present, With, TeamAgrees, AuthorSees
    <3> QED  BY <3>1, <3>2
  <2> QED  BY <2>10, <2>11, <2>12, <2>13, <2>14 DEF IInv
<1> QED  BY <1>7, <1>8

LEMMA DeleteKeeps ==
  ASSUME IInv, NEW r \in Request, Delete(r)
  PROVE  IInv'
<1> DEFINE i == rq[r].item
<1>1. Types /\ ScopesFit /\ Checked /\ Marks /\ Sound  BY DEF IInv
<1>2. rq[r] \in Pending /\ i \in Item  BY <1>1, PendingByStep DEF Types, Pending, Delete, Ops
<1>3. Finish(r) /\ UNCHANGED <<born, mistaken, crossed, byAdmin>>  BY DEF Delete, marks
<1>4. \/ UNCHANGED <<rows, writes>>
      \/ rows' = [rows EXCEPT ![i] = Gone] /\ Wrote(i)
  BY DEF Delete
<1>5. /\ rows' \in [Item -> AnyRow \cup {Gone}] /\ rows'[i] \in {rows[i], Gone}
      /\ \A j \in Item \ {i} : rows'[j] = rows[j]
  BY <1>1, <1>2, <1>4 DEF Types
<1>6. Types'  BY <1>1, <1>2, <1>3, <1>4, <1>5, Finished, Counted DEF Types
<1>7. Checked'
  <2>1. \A j \in Item : SameRow(j)  BY <1>3, <1>5 DEF SameRow, Present
  <2> QED  BY <1>1, <1>2, <1>3, <1>4, <1>5, <1>6, <2>1, OthersChecked DEF Types
<1>8. ScopesFit' /\ Sound'  BY <1>1, <1>3, <1>5 DEF ScopesFit, Present, Sound, RowSound
<1>9. Marks'
  <2>1. \A j \in Item : writes[j] <= writes'[j] /\ writes[j] \in Nat /\ writes'[j] \in Nat /\ born[j] \in Nat
    BY <1>1, <1>2, <1>4, Counted DEF Types
  <2> QED  BY <1>1, <1>3, <2>1 DEF Marks
<1> QED  BY <1>6, <1>7, <1>8, <1>9 DEF IInv

-----------------------------------------------------------------------------
(* The invariant, and what it shows.                                       *)

LEMMA InitIInv ==
  ASSUME Init  PROVE IInv
<1>1. \A r \in Request : rq[r].step = "idle"  BY DEF Init
<1>2. Types  BY DEF Init, Types, Idle
<1>3. Checked  BY <1>1 DEF Checked, Ops
<1> QED
  BY <1>2, <1>3
  DEF Init, IInv, ScopesFit, Present, Marks, Sound, RowSound

LEMMA NextIInv ==
  ASSUME SharingAssumption, IInv, [Next]_vars
  PROVE  IInv'
<1>1. CASE UNCHANGED vars
  BY <1>1
  DEF vars, marks, IInv, Types, ScopesFit, Present, Checked, Overlapped, Mistaken, Marks, Sound, RowSound
<1>2. ASSUME NEW r \in Request, NEW u \in User, NEW i \in Item,
             NEW kind \in Kind, NEW scope \in Scopes(kind), Create(r, u, i, kind, scope)
      PROVE  IInv'
  BY <1>2, CreateKeeps
<1>3. ASSUME NEW r \in Request, NEW u \in User, NEW i \in Item,
             NEW scope \in {"private", "team", "global", "user", "other"}, ReadForUpdate(r, u, i, scope)
      PROVE  IInv'
  BY <1>3, ReadKeeps DEF ReadForUpdate, AnyScope, Ops
<1>4. ASSUME NEW r \in Request, NEW u \in User, NEW i \in Item,
             ReadForToggle(r, u, i) \/ ReadForDelete(r, u, i)
      PROVE  IInv'
  <2>1. rows[i] # Gone /\ rows[i].scope \in AnyScope
    BY <1>4 DEF ReadForToggle, ReadForDelete, IInv, Types, AnyRow
  <2> QED  BY <1>4, <2>1, ReadKeeps DEF ReadForToggle, ReadForDelete, Ops
<1>5. ASSUME NEW r \in Request, Update(r) \/ Toggle(r)
      PROVE  IInv'
  BY <1>5, SaveKeeps
<1>6. ASSUME NEW r \in Request, Delete(r)  PROVE IInv'
  BY <1>6, DeleteKeeps
<1> QED  BY <1>1, <1>2, <1>3, <1>4, <1>5, <1>6 DEF Next

LEMMA SharingInductive == Spec => []IInv
<1>1. Init => IInv  BY InitIInv
<1>2. IInv /\ [Next]_vars => IInv'  BY SharingAssumption, NextIInv
<1> QED  BY <1>1, <1>2, PTL DEF Spec

\* Every row and every request of every table has its type, and every scope is one of its
\* row's kind, whichever requests overlap.
THEOREM SharingTypes == Spec => [](Types /\ ScopesFit)
<1>1. IInv => Types /\ ScopesFit  BY DEF IInv
<1> QED  BY <1>1, SharingInductive, PTL

\* The lists show a user exactly the presets and queries that he may open: the SQL filter
\* and the check of one row agree on every row that the handlers can write.
THEOREM ListsReadable == Spec => []ListedIsReadable
<1>1. IInv => ListedIsReadable
  <2> SUFFICES ASSUME IInv, NEW i \in SharedItems, NEW u \in User
               PROVE  VisibleFilter(u, rows[i]) <=> CanView(u, rows[i])
    BY DEF ListedIsReadable
  <2>1. rows[i] \in AnyRow /\ rows[i].scope \in Asked(rows[i].kind) /\ rows[i].kind \in Shared
    BY DEF IInv, Types, ScopesFit, WellScoped, SharedItems, Present
  <2>2. rows[i].scope \in {"private", "team", "global"}  BY <2>1, ScopesOf DEF AnyRow
  <2> QED  BY <2>2 DEF VisibleFilter, CanView
<1> QED  BY <1>1, SharingInductive, PTL

\* However many requests overlap, a row has a team exactly when its scope is "team", unless an
\* administrator's change between private and global crossed one to "team"; and only an
\* administrator's change of scope takes a preset or a query away from its author. Rows written
\* by a request that had read an earlier row of the same id are excepted.
THEOREM ScopesSound == Spec => []ScopesAreSound
<1>1. IInv => ScopesAreSound
  <2> SUFFICES ASSUME IInv  PROVE ScopesAreSound  OBVIOUS
  <2>1. \A i \in Item : RowSound(i)  BY DEF IInv, Sound
  <2>2. ScopeAndTeamAgree  BY <2>1 DEF RowSound, ScopeAndTeamAgree, TeamAgrees, AuthorSees, Present
  <2>3. AuthorLosesOnlyByAdmin
    BY <2>1 DEF RowSound, AuthorLosesOnlyByAdmin, SharedItems, Present, AuthorSees
  <2> QED  BY <2>2, <2>3 DEF ScopesAreSound
<1> QED  BY <1>1, SharingInductive, PTL

\* Only administrators change or delete a global preset or query, unless it became global
\* after the request had read it.
THEOREM GlobalChanges == Spec => GlobalByAdmins
<1> DEFINE A == \A i \in SharedItems : rows[i].scope = "global" /\ rows'[i] # rows[i] =>
                  \E r \in Request : rq'[r] # rq[r] /\ (Overlapped(r) \/ rq[r].user \in Admin)
<1>1. ASSUME IInv, [Next]_vars  PROVE A
  <2> SUFFICES ASSUME NEW i \in SharedItems, rows[i].scope = "global", rows'[i] # rows[i]
               PROVE  \E r \in Request : rq'[r] # rq[r] /\ (Overlapped(r) \/ rq[r].user \in Admin)
    OBVIOUS
  <2>1. i \in Item /\ rows[i] # Gone /\ rows[i].kind \in Shared  BY DEF SharedItems, Present
  <2>2. rows \in [Item -> AnyRow \cup {Gone}]  BY <1>1 DEF IInv, Types
  <2>3. PICK r \in Request : Update(r) \/ Toggle(r) \/ Delete(r)
    BY <1>1, <2>1, <2>2 DEF Next, vars, Create, Read, ReadForUpdate, ReadForToggle, ReadForDelete
  <2>4. rq[r].step \in Ops /\ Finish(r)  BY <2>3 DEF Update, Toggle, Delete, Save, Ops
  <2>5. rq[r] \in Pending /\ rq[r].copy \in AnyRow /\ rq[r].user \in User
    BY <1>1, <2>4, PendingByStep DEF IInv, Types, Pending
  <2>6. rq'[r] # rq[r]  BY <1>1, <2>4, Finished DEF IInv, Done, Ops
  <2>7. rq[r].item = i /\ ~Fails(r)
    <3>1. ~Fails(r) /\ \E row : rows' = [rows EXCEPT ![rq[r].item] = row]
      BY <2>3 DEF Update, Toggle, Delete, Save
    <3> QED  BY <2>1, <2>2, <3>1
  <2>8. rows[i].kind = rq[r].copy.kind  BY <2>1, <2>7 DEF Fails
  <2>9. ~Overlapped(r) => rows[i] = rq[r].copy /\ MayEdit(rq[r].user, rows[i])
    BY <1>1, <2>4, <2>7 DEF IInv, Checked, HadTheRight
  <2>10. Overlapped(r) \/ rq[r].user \in Admin  BY <2>1, <2>5, <2>9, EditorSees
  <2> QED  BY <2>6, <2>10
<1> HIDE DEF A
<1>2. Spec => [][A]_vars  BY <1>1, SharingInductive, PTL DEF Spec
<1> QED  BY <1>2 DEF A, GlobalByAdmins
=============================================================================
