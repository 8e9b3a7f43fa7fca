----------------------------- MODULE IdentityTree -----------------------------
(***************************************************************************)
(* The registry of identities (profiles/services.py, scope_service.py): a  *)
(* tree of groups and members with a materialised path per row, and the    *)
(* permission cascade, which stores with every row what its own settings   *)
(* and those of its ancestors amount to.                                   *)
(*                                                                         *)
(* A request is one transaction in READ COMMITTED without locks on what it *)
(* reads: it reads the committed rows, works out what it will write, and   *)
(* its writes appear when it commits.  The ORM writes the columns whose    *)
(* value differs from the one that was loaded, and no others.              *)
(***************************************************************************)
EXTENDS Naturals, Sequences

S == INSTANCE SequencesExt

\* The operators of the module TLC, which the provers do not know.
k :> v == [x \in {k} |-> v]
f @@ g == [x \in DOMAIN f \cup DOMAIN g |-> IF x \in DOMAIN f THEN f[x] ELSE g[x]]

CONSTANTS
  Groups, Members,  \* ids: a member is a leaf
  Tools,            \* tool keys of one cascading slot of the registry
  Top,              \* rights range over 0..Top, booleans and ranked scopes alike
  RootRight,        \* ROOT_DEFAULTS
  Inherit, Nobody,  \* NULL in an own_ column, NULL in parent_id
  Office,           \* the identity of the client who is signed in
  Born,             \* paths of the rows there are at the start
  Requests          \* bound: the requests

Ids == Groups \cup Members
Rights == 0..Top
Cascading == {"create", "set", "select", "default", "move"}
Ops == Cascading \cup {"deactivate", "rotate"}

ASSUME TreeAssumption ==
  /\ Groups \cap Members = {} /\ Nobody \notin Ids
  /\ Top \in Nat /\ RootRight \in Rights /\ Inherit \notin Rights \cup Tools /\ Tools # {}
  /\ DOMAIN Born \subseteq Groups /\ Office \in DOMAIN Born
  /\ \A n \in DOMAIN Born :
       /\ Born[n] \in Seq(Ids) /\ Born[n] # <<>> /\ S!Last(Born[n]) = n
       /\ S!Front(Born[n]) \in {<<>>} \cup {Born[m] : m \in DOMAIN Born}

VARIABLES
  db,     \* the committed rows, a function of the id for each column
  req,    \* where each request is, what it has read and what it will write
  clash,  \* history: the pairs of operations of which one committed during the other
  grafts  \* history: the rows staff have put below a deactivated group

vars == <<db, req, clash, grafts>>

\* The columns of a row that this module follows; the slot's global selection.
RowColumns == {"parent", "path", "active", "invite", "ownRight", "effRight", "ownTool", "effTool"}
Columns == RowColumns \cup {"default"}

Fresh == [pc |-> "new", op |-> "none", node |-> Nobody, to |-> Nobody, by |-> "client",
          onto |-> <<>>, from |-> <<>>, w |-> <<>>, over |-> {}]
Done == [Fresh EXCEPT !.pc = "done"]

Rows(d) == DOMAIN d.parent

---------------------------------------------------------------------------
(* Merging one identity's settings with what its parent's amount to.       *)

\* Mutant: an identity's own setting wins over its parent's.
NarrowedNot(own, up, root) == IF own = Inherit THEN up ELSE own

\* _merge_bool, _merge_scope and the caps: AND and MIN.
Narrowed(own, up, root) ==
  CASE own = Inherit -> up
    [] own # Inherit /\ root -> own
    [] OTHER -> IF own < up THEN own ELSE up

\* _merge_config: the nearest choice wins.
Chosen(own, up) == IF own = Inherit THEN up ELSE own

\* _compute_effective, from the parent's effective values.
RightFrom(d, n, up) ==
  LET root == d.parent[n] = Nobody
  IN  Narrowed(d.ownRight[n], IF root THEN RootRight ELSE up[d.parent[n]], root)

ToolFrom(d, n, up) ==
  Chosen(d.ownTool[n], IF d.parent[n] = Nobody THEN d.default["slot"] ELSE up[d.parent[n]])

\* path LIKE root.path || '.%', or the path itself.
Below(d, n) == {m \in Rows(d) : S!IsPrefix(d.path[n], d.path[m])}

\* Mutant: the pass reads every parent as it was loaded.
RecomputedFromLoaded(d, top) ==
  [effRight |-> [n \in Below(d, top) |-> RightFrom(d, n, d.effRight)],
   effTool |-> [n \in Below(d, top) |-> ToolFrom(d, n, d.effTool)]]

\* recompute_cascade: one pass over the subtree in the order of the paths, a
\* parent read as the pass has just left it when its path comes earlier.
Recomputed(d, top) ==
  LET ids == Below(d, top)
      Seen(n) == d.parent[n] \in ids /\ S!IsStrictPrefix(d.path[d.parent[n]], d.path[n])
      right[n \in ids] == RightFrom(d, n, IF Seen(n) THEN right ELSE d.effRight)
      tool[n \in ids] == ToolFrom(d, n, IF Seen(n) THEN tool ELSE d.effTool)
  IN  [effRight |-> right, effTool |-> tool]

\* The cascade of a global selection: a pass from every root.
RecomputedFromRoots(d) ==
  LET of == [n \in {m \in Rows(d) : d.parent[m] = Nobody} |-> Recomputed(d, n)]
      roots(m) == {n \in DOMAIN of : m \in Below(d, n)}
      ids == {m \in Rows(d) : roots(m) # {}}
      Root(m) == CHOOSE n \in roots(m) : TRUE
  IN  [effRight |-> [m \in ids |-> of[Root(m)].effRight[m]],
       effTool |-> [m \in ids |-> of[Root(m)].effTool[m]]]

\* Columns overlaid with pending writes; the writes that change what was loaded.
Overlaid(d, w) == [c \in Columns |-> IF c \in DOMAIN w THEN w[c] @@ d[c] ELSE d[c]]

Changes(d, w) ==
  [c \in DOMAIN w |-> S!Restrict(w[c], {n \in DOMAIN w[c] : n \notin DOMAIN d[c] \/ w[c][n] # d[c][n]})]

\* A write w of settings with the cascade below n that follows from it.
WithCascade(w, n) == w @@ Recomputed(Overlaid(db, w), n)

---------------------------------------------------------------------------

Init ==
  /\ db = [parent   |-> [n \in DOMAIN Born |-> IF Len(Born[n]) = 1 THEN Nobody ELSE S!Last(S!Front(Born[n]))],
           path     |-> Born,
           active   |-> [n \in DOMAIN Born |-> TRUE],
           invite   |-> [n \in DOMAIN Born |-> FALSE],
           ownRight |-> [n \in DOMAIN Born |-> Inherit],
           effRight |-> [n \in DOMAIN Born |-> RootRight],
           ownTool  |-> [n \in DOMAIN Born |-> Inherit],
           effTool  |-> [n \in DOMAIN Born |-> CHOOSE t \in Tools : TRUE],
           default  |-> [s \in {"slot"} |-> CHOOSE t \in Tools : TRUE]]
  /\ req = [r \in Requests |-> Fresh]
  /\ clash = {} /\ grafts = {}

Begin(r, new) == req[r].pc = "new" /\ req' = [req EXCEPT ![r] = new @@ Fresh]
Ready(r, op, n, w) == Begin(r, [pc |-> "ready", op |-> op, node |-> n, w |-> Changes(db, w)])
Reads == UNCHANGED <<db, clash, grafts>>

\* require_identity_scope: below the client's own identity, and not deactivated.
InScope(n) == n \in Below(db, Office) /\ db.active[n]
May(by, n) == by = "staff" \/ (by = "client" /\ InScope(n))

\* The row that create_identity inserts, with the settings it is given.
NewRow(n, p, right, open) ==
  LET base == [parent |-> n :> p,
               path |-> n :> Append(IF p = Nobody THEN <<>> ELSE db.path[p], n),
               active |-> n :> TRUE, invite |-> n :> open,
               ownRight |-> n :> right, ownTool |-> n :> Inherit]
      d == Overlaid(db, base)
  IN  base @@ [effRight |-> n :> RightFrom(d, n, db.effRight),
               effTool |-> n :> ToolFrom(d, n, db.effTool)]

Unused(n) == n \notin Rows(db) /\ \A r \in Requests : req[r].node # n
GroupRow(p) == p \in Rows(db) \ Members
Create(r, n, by, row) ==
  Unused(n) /\ Begin(r, [pc |-> "ready", op |-> "create", node |-> n, by |-> by, w |-> row]) /\ Reads

\* create_client_org_identity, and approve_client_registration: a root.
CreateOrg(r, n) == n \in Groups /\ Create(r, n, "staff", NewRow(n, Nobody, Inherit, FALSE))

\* POST /identities: staff create a group or a member below any group.
CreateByStaff(r, n, p) == GroupRow(p) /\ Create(r, n, "staff", NewRow(n, p, Inherit, FALSE))

\* create_ilc_group_identity sets own_connected and own_auto_respond at once.
OpenedRow(n, p) == NewRow(n, p, Top, TRUE)

\* POST /client/communities: a group, opened, and with an invite.
CreateCommunity(r, n, p) ==
  n \in Groups /\ GroupRow(p) /\ InScope(p) /\ Create(r, n, "client", OpenedRow(n, p))

\* POST /client/communities/{group_id}/members: the client adds a member.
AddMember(r, n, p) ==
  n \in Members /\ GroupRow(p) /\ InScope(p) /\ Create(r, n, "client", NewRow(n, p, Inherit, FALSE))

\* get_invite_by_token: an active invite of an active group.
Invites(p) == GroupRow(p) /\ db.invite[p] /\ db.active[p]

\* POST /public/invite/{token}/register: a member registers.
RegisterMember(r, n, p) ==
  n \in Members /\ Invites(p) /\ Create(r, n, "client", NewRow(n, p, Inherit, FALSE))

\* update_own_permission, on a route that cannot set a field back to NULL.
Set(r, n, v, by) ==
  /\ n \in Rows(db) /\ May(by, n)
  /\ Ready(r, "set", n, WithCascade([ownRight |-> n :> v], n)) /\ Reads

\* set_own_selection: a tool of the catalog, or the inherited one again.
Select(r, n, t, by) ==
  /\ n \in Rows(db) /\ May(by, n)
  /\ Ready(r, "select", n, WithCascade([ownTool |-> n :> t], n)) /\ Reads

\* set_global_selection: every root is recomputed with all that is below it.
SetDefault(r, t) ==
  LET w == [default |-> "slot" :> t]
  IN  Ready(r, "default", Nobody, w @@ RecomputedFromRoots(Overlaid(db, w))) /\ Reads

\* Mutant: a member is accepted as the new parent.
MoveCheckAnyKind(r, n, p) ==
  /\ {n, p} \subseteq Rows(db) /\ p \notin Below(db, n)
  /\ Begin(r, [pc |-> "checked", op |-> "move", node |-> n, by |-> "staff", to |-> p, onto |-> db.path[p]])
  /\ Reads

\* move_subtree: the rows and the cycle check, then reparent_subtree's read of
\* the old path, then its UPDATE, the new parent_id and the cascade.
MoveCheck(r, n, p) ==
  /\ {n, p} \subseteq Rows(db) /\ p \notin Members /\ p \notin Below(db, n)
  /\ Begin(r, [pc |-> "checked", op |-> "move", node |-> n, by |-> "staff", to |-> p, onto |-> db.path[p]])
  /\ Reads

MoveLocate(r) ==
  /\ req[r].pc = "checked"
  /\ req' = [req EXCEPT ![r].pc = "located", ![r].from = db.path[req[r].node]]
  /\ Reads

\* Rows whose path another transaction has rewritten and not yet committed.
LockedFor(r) == UNION {DOMAIN req[q].w.path : q \in {s \in Requests \ {r} : "path" \in DOMAIN req[s].w}}

\* Mutant: the rows below the moved one keep their old paths.
MoveRewriteOne(r) ==
  LET n == req[r].node
      paths == n :> Append(req[r].onto, n)
      w == [path |-> paths, parent |-> n :> req[r].to]
  IN  /\ req[r].pc = "located" /\ n \notin LockedFor(r)
      /\ req' = [req EXCEPT ![r].pc = "ready", ![r].w = [Changes(db, WithCascade(w, n)) EXCEPT !.path = paths]]
      /\ Reads

MoveRewrite(r) ==
  LET n == req[r].node
      old == req[r].from
      moved == {m \in Rows(db) : S!IsPrefix(old, db.path[m])}
      paths == [m \in moved |-> Append(req[r].onto, n) \o SubSeq(db.path[m], Len(old) + 1, Len(db.path[m]))]
      w == [path |-> paths, parent |-> n :> req[r].to]
  IN  /\ req[r].pc = "located" /\ moved \cap LockedFor(r) = {}
      /\ req' = [req EXCEPT ![r].pc = "ready", ![r].w = [Changes(db, WithCascade(w, n)) EXCEPT !.path = paths]]
      /\ Reads

\* The two DELETE routes of a client's communities: never its own identity.
MayDelete(n) == n \in Rows(db) \ {Office} /\ InScope(n)

\* Mutant: only the row itself is deactivated.
DeactivateOne(r, n) ==
  /\ MayDelete(n)
  /\ Ready(r, "deactivate", n, [active |-> n :> FALSE, invite |-> n :> FALSE])
  /\ Reads

\* deactivate_identity: the rows below, as the paths tell, and the group's invite.
Deactivate(r, n) ==
  /\ MayDelete(n)
  /\ Ready(r, "deactivate", n,
           [active |-> [m \in Below(db, n) |-> FALSE], invite |-> n :> FALSE])
  /\ Reads

\* create_or_rotate_group_invite; the old invite's row is left out.
Rotate(r, n) ==
  /\ GroupRow(n) /\ InScope(n)
  /\ Ready(r, "rotate", n, [invite |-> n :> TRUE]) /\ Reads

\* The commit of the route: the writes become visible to the others.
Commit(r) ==
  LET q == req[r]
      Parent(n) == Overlaid(db, q.w).parent[n]
  IN  /\ q.pc = "ready"
      /\ db' = Overlaid(db, q.w)
      /\ req' = [s \in Requests |->
                   IF s = r THEN Done
                   ELSE IF req[s].pc \in {"new", "done"} THEN req[s]
                   ELSE [req[s] EXCEPT !.over = @ \cup {q.op}]]
      /\ clash' = clash \cup {{q.op, o} : o \in q.over}
      /\ grafts' = grafts \cup
           {n \in {q.node} : /\ q.by = "staff" /\ q.op \in {"create", "move"}
                             /\ Parent(n) # Nobody /\ ~db.active[Parent(n)]}

\* An exception, a lost connection, a unique key: get_db rolls back.
Fail(r) ==
  /\ req[r].pc \notin {"new", "done"}
  /\ req' = [req EXCEPT ![r] = Done]
  /\ Reads

Next == \E r \in Requests :
  \/ \E n \in Groups : CreateOrg(r, n)
  \/ \E n \in Ids, p \in Groups : CreateByStaff(r, n, p)
  \/ \E n, p \in Groups : CreateCommunity(r, n, p)
  \/ \E n \in Members, p \in Groups : AddMember(r, n, p) \/ RegisterMember(r, n, p)
  \/ \E n \in Ids, by \in {"staff", "client"} :
       \/ \E v \in Rights : Set(r, n, v, by)
       \/ \E t \in Tools \cup {Inherit} : Select(r, n, t, by)
  \/ \E t \in Tools : SetDefault(r, t)
  \/ \E n, p \in Ids : MoveCheck(r, n, p)
  \/ \E n \in Ids : Deactivate(r, n)
  \/ \E n \in Groups : Rotate(r, n)
  \/ MoveLocate(r)
  \/ MoveRewrite(r)
  \/ Commit(r)
  \/ Fail(r)

Spec == Init /\ [][Next]_vars

---------------------------------------------------------------------------
(* Properties.                                                             *)

\* The rows are a forest of identities with settings of the right kinds, and
\* a request holds writes to known columns only.
TypeOK ==
  /\ DOMAIN db = Columns
  /\ Rows(db) \subseteq Ids
  /\ \A c \in RowColumns : DOMAIN db[c] = Rows(db)
  /\ \A n \in Rows(db) :
       /\ db.parent[n] \in (Rows(db) \ Members) \cup {Nobody}
       /\ db.path[n] \in Seq(Ids)
       /\ db.active[n] \in BOOLEAN /\ db.invite[n] \in BOOLEAN
       /\ db.ownRight[n] \in Rights \cup {Inherit} /\ db.effRight[n] \in Rights
       /\ db.ownTool[n] \in Tools \cup {Inherit} /\ db.effTool[n] \in Tools
  /\ db.default["slot"] \in Tools
  /\ \A r \in Requests : DOMAIN req[r].w \subseteq Columns /\ req[r].over \subseteq Ops
  /\ grafts \subseteq Ids

\* The pairs of overlapping requests that may leave an effective value behind
\* its cause, and those that may leave a path behind.
CascadeRaces == {{a, b} : a, b \in Cascading} \ {{"create"}}
PathRaces == {{"move"}, {"move", "create"}}
StrayRaces == {{"deactivate", "create"}, {"deactivate", "move"}} \cup PathRaces

\* What the settings along a path amount to: the least of them, the nearest choice.
Least(n) ==
  S!Min({IF db.ownRight[m] # Inherit THEN db.ownRight[m]
       ELSE IF m = Head(db.path[n]) THEN RootRight ELSE Top : m \in S!Range(db.path[n])})

Nearest(n) ==
  LET path == db.path[n]
      choosing == {i \in DOMAIN path : db.ownTool[path[i]] # Inherit}
  IN  IF choosing = {} THEN db.default["slot"] ELSE db.ownTool[path[S!Max(choosing)]]

\* The promise of the permission cascade (profiles/services.py:1-11, 178-191):
\* nobody has more than the least right among its own and its ancestors'
\* settings, and everybody the nearest tool chosen above it, unless two
\* requests that cascade, other than two creations, have overlapped; whatever
\* deactivations and invites run beside them.
Cascaded ==
  clash \cap CascadeRaces = {} =>
    \A n \in Rows(db) : db.effRight[n] = Least(n) /\ db.effTool[n] = Nearest(n)

\* The path column and the parent column tell the same tree (scope_service.py),
\* with no cycle in it, unless a move has overlapped with a move or a creation.
PathsFollowParents ==
  clash \cap PathRaces = {} =>
    \A n \in Rows(db) :
      db.path[n] = Append(IF db.parent[n] = Nobody THEN <<>> ELSE db.path[db.parent[n]], n)

\* Below a deactivated group nothing is active (profiles/services.py:434-473),
\* but for rows that staff put there and for those that were created or moved
\* there while the deactivation ran.
StraysHaveACause ==
  clash \cap StrayRaces = {} =>
    \A n \in Rows(db) \ grafts :
      db.active[n] /\ db.parent[n] # Nobody => db.active[db.parent[n]]

\* A row agrees with its own settings and with its parent's row.
InStep(d, n) == d.effRight[n] = RightFrom(d, n, d.effRight) /\ d.effTool[n] = ToolFrom(d, n, d.effTool)

\* A change of settings that nothing overlapped leaves everything below it in
\* step, whatever earlier races have left there, as long as the paths are right.
RecomputeHeals == [][
  \A r \in Requests :
    /\ req[r].op \in {"set", "select"} /\ req[r].pc = "ready" /\ req'[r].pc = "done"
    /\ db' # db /\ req[r].over = {} /\ clash \cap PathRaces = {}
    => \A n \in Below(db, req[r].node) : InStep(db', n)]_vars

=============================================================================
