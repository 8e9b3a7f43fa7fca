------------------------------- MODULE Accounts -------------------------------
(***************************************************************************)
(* How people get in.  Clients and orgs apply and are approved or rejected *)
(* (profiles/services.py, orgs/services.py); accounts are opened, switched *)
(* off, and signed in to (auth/router.py, profiles/router.py,              *)
(* orgs/router.py, token_service.py); members of a community claim a       *)
(* number of its roster, by the public form or through their client, and   *)
(* those of an org's group just register; the form is behind a link that   *)
(* can be regenerated.                                                     *)
(*                                                                         *)
(* A request is one transaction in READ COMMITTED: it reads, checks, and   *)
(* its writes appear when it commits, over whatever has been committed in  *)
(* the meantime.  Only the unique keys of the tables stop two requests     *)
(* that have both checked.                                                 *)
(***************************************************************************)
EXTENDS Naturals, FiniteSets

CONSTANTS
  Emails,       \* the addresses, as normalised to lower case
  Numbers,      \* registration numbers of the community
  Phones,       \* normalised phone numbers
  Issued,       \* the numbers on the roster at the start
  Filed,        \* applications there are at the start
  FiledFor,     \* the account that each of them asks for
  Opened,       \* accounts there are at the start
  SessionOf,    \* the accounts of the refresh tokens there are at the start
  Invite,       \* the registration link that the community was created with
  MaxAttempts,  \* settings.login_max_attempts
  None,
  Requests      \* bound: the requests

\* The operators of the module TLC, which the provers do not know.
k :> v == [x \in {k} |-> v]
f @@ g == [x \in DOMAIN f \cup DOMAIN g |-> IF x \in DOMAIN f THEN f[x] ELSE g[x]]

Audiences == {"staff", "client", "client_staff", "org"}
AccountKeys == Audiences \X Emails   \* each table's e-mail address is unique

\* A request creates one row of each kind at most, which takes its name.
Apps == Filed \cup Requests
Sessions == DOMAIN SessionOf
Tokens == Sessions \cup Requests
Members == Requests
Links == {Invite} \cup Requests

ASSUME AccountsAssumption ==
  /\ Filed \cap Requests = {} /\ Sessions \cap Requests = {} /\ None \notin Requests
  /\ Invite \notin Requests /\ None \notin AccountKeys
  /\ Issued \subseteq Numbers /\ Opened \subseteq AccountKeys
  /\ \A s \in Sessions : SessionOf[s] \in Opened \ ({"staff"} \X Emails)
  /\ FiledFor \in [Filed -> {"client", "org"} \X Emails]
  /\ MaxAttempts \in Nat

VARIABLES
  db,     \* the committed rows, a function of the key for each column
  fails,  \* the failed attempts in the lockout window, by address
  stale,  \* tokens whose expires_at has passed
  req,    \* the requests
  mixed   \* history: <<column, key>> written by requests that overlapped

vars == <<db, fails, stale, req, mixed>>

\* What is asked for, the status, and the account that it created.
Application == {"asks", "status", "made"}

\* Accounts that are switched on or off; the roster, who claimed each number;
\* how a member was registered, under which number; whose a phone number is.
Account == {"active"}
Roster == {"claim"}
Profile == {"via", "number"}
PhoneLink == {"link"}

\* Refresh tokens, with the token that each was rotated from (replaced_by_id,
\* the other way round).
Token == {"live", "owner", "from"}

\* Registration links, and the group of each: the community or the org's group.
GroupInvite == {"open", "group"}
Groups == {"community", "group"}

\* The link that a member registered by (an org's member does not keep it), and
\* whose a number is in the room of the orgs.
OrgMember == {"by", "orgLink"}

Columns ==
  Application \cup Account \cup Roster \cup Profile \cup PhoneLink \cup Token \cup GroupInvite \cup OrgMember

Fresh == [pc |-> "new", w |-> <<>>, ins |-> {}, forgets |-> {}, fails |-> {}, over |-> {}]
Done == [Fresh EXCEPT !.pc = "done"]

Init ==
  /\ \E staffed \in {Opened, Opened \ ({"staff"} \X Emails)} :
       db = [asks   |-> FiledFor,
             status |-> [k \in Filed |-> "pending"],
             made   |-> [k \in Filed |-> None],
             active |-> [a \in staffed |-> TRUE],
             claim  |-> [n \in Issued |-> None],
             via    |-> <<>>, number |-> <<>>, link |-> <<>>,
             live   |-> [s \in Sessions |-> TRUE],
             owner  |-> SessionOf,
             from   |-> [s \in Sessions |-> None],
             open   |-> Invite :> TRUE, group |-> Invite :> "community",
             by     |-> <<>>, orgLink |-> <<>>]
  /\ fails = [e \in Emails |-> {}]
  /\ stale = {}
  /\ req = [r \in Requests |-> Fresh]
  /\ mixed = {}

---------------------------------------------------------------------------
(* What a request writes: w overlays columns, ins are the unique keys it   *)
(* inserts.                                                                *)

Begin(r, new) ==
  /\ req[r].pc = "new"
  /\ req' = [req EXCEPT ![r] = new @@ [pc |-> "open"] @@ Fresh]
  /\ UNCHANGED <<db, fails, stale, mixed>>

Writes(r, w, ins) == Begin(r, [w |-> w, ins |-> ins])

Exists(a) == a \in DOMAIN db.active

\* get_current_staff_user, on every route of the staff: the account is looked
\* up for every request, whatever the access token says.
ActiveStaff == \E a \in DOMAIN db.active : a[1] = "staff" /\ db.active[a]

\* get_current_client_actor: an owner, or one of an owner's employees.
ActiveClient == \E a \in DOMAIN db.active : a[1] \in {"client", "client_staff"} /\ db.active[a]

\* require_client_owner: the token of an employee is not for this audience.
ActiveOwner == \E a \in DOMAIN db.active : a[1] = "client" /\ db.active[a]

\* get_current_org_user, and require_org_owner: an org's first account is its
\* owner's, and stays active.
ActiveOrgOwner == \E a \in DOMAIN db.active : a[1] = "org" /\ db.active[a]

---------------------------------------------------------------------------
(* Applications.                                                           *)

Pending(k) == k \in DOMAIN db.status /\ db.status[k] = "pending"

Submit(r, a) ==
  /\ ~Exists(a) /\ ~\E k \in DOMAIN db.status : Pending(k) /\ db.asks[k] = a
  /\ Writes(r, [asks |-> r :> a, status |-> r :> "pending", made |-> r :> None], {})

\* submit_client_registration and submit_org_registration
SubmitClient(r, e) == Submit(r, <<"client", e>>)
SubmitOrg(r, e) == Submit(r, <<"org", e>>)

\* The account, with its identity or org: one transaction with the verdict.
Approve(r, k) ==
  /\ ActiveStaff /\ Pending(k) /\ ~Exists(db.asks[k])
  /\ Writes(r, [status |-> k :> "approved", made |-> k :> db.asks[k], active |-> db.asks[k] :> TRUE],
            {<<"active", db.asks[k]>>})

\* approve_client_registration and approve_org_registration
ApproveClient(r, k) == k \in DOMAIN db.asks /\ db.asks[k][1] = "client" /\ Approve(r, k)
ApproveOrg(r, k) == k \in DOMAIN db.asks /\ db.asks[k][1] = "org" /\ Approve(r, k)

\* Mutant: an application that has had its verdict is rejected again.
RejectAny(r, k) ==
  k \in DOMAIN db.status /\ ActiveStaff /\ Writes(r, [status |-> k :> "rejected"], {})

Reject(r, k) == ActiveStaff /\ Pending(k) /\ Writes(r, [status |-> k :> "rejected"], {})

\* reject_client_registration and reject_org_registration
RejectClient(r, k) == k \in DOMAIN db.asks /\ db.asks[k][1] = "client" /\ Reject(r, k)
RejectOrg(r, k) == k \in DOMAIN db.asks /\ db.asks[k][1] = "org" /\ Reject(r, k)

---------------------------------------------------------------------------
(* Accounts without an application.                                        *)

Open(r, a) == ~Exists(a) /\ Writes(r, [active |-> a :> TRUE], {<<"active", a>>})

\* POST /identities/{identity_id}/client-account, by staff.
OpenClient(r, e) == ActiveStaff /\ Open(r, <<"client", e>>)

\* POST /client/staff: no owner has the address either.
OpenEmployee(r, e) == ActiveOwner /\ ~Exists(<<"client", e>>) /\ Open(r, <<"client_staff", e>>)

\* create_org_user
OpenOrgUser(r, e) == ActiveOrgOwner /\ Open(r, <<"org", e>>)

\* POST /staff
OpenStaff(r, e) == ActiveStaff /\ Open(r, <<"staff", e>>)

NewToken(r, a) == [live |-> r :> TRUE, owner |-> r :> a, from |-> r :> None]

\* POST /bootstrap, as long as there is no staff account; it signs in as well.
Bootstrap(r, e) ==
  LET a == <<"staff", e>>
  IN  /\ \A b \in DOMAIN db.active : b[1] # "staff"
      /\ Writes(r, [active |-> a :> TRUE] @@ NewToken(r, a), {<<"active", a>>})

Switch(r, a, on) == Exists(a) /\ Writes(r, [active |-> a :> on], {})

\* PATCH /client/staff/{client_staff_id}, and update_staff.
SwitchEmployee(r, e, on) == ActiveOwner /\ Switch(r, <<"client_staff", e>>, on)
SwitchStaff(r, e, on) == ActiveStaff /\ Switch(r, <<"staff", e>>, on)

---------------------------------------------------------------------------
(* Sign-in.                                                                *)

\* is_locked_out: by address, whatever the audience.
LockedOut(e) == Cardinality(fails[e]) >= MaxAttempts

\* record_login_attempt: a success deletes the failures it sees in the window.
SignIn(r, a) ==
  /\ Exists(a) /\ db.active[a] /\ ~LockedOut(a[2])
  /\ Begin(r, [w |-> NewToken(r, a), forgets |-> fails[a[2]]])

\* A wrong password, an unknown address or an account that is switched off:
\* committed before the answer.
Refuse(r, e) == ~LockedOut(e) /\ Begin(r, [fails |-> {e}])

\* The same handler for each audience; only two of them refresh old hashes.
LoginStaff(r, e) == SignIn(r, <<"staff", e>>) \/ Refuse(r, e)
LoginClient(r, e) == SignIn(r, <<"client", e>>) \/ Refuse(r, e)
LoginEmployee(r, e) == SignIn(r, <<"client_staff", e>>) \/ Refuse(r, e)
LoginOrg(r, e) == SignIn(r, <<"org", e>>) \/ Refuse(r, e)

LiveOf(a) == {t \in DOMAIN db.live : db.live[t] /\ db.owner[t] = a}

\* _revoke_all_for_subject: the live tokens as they are read.
RevokeAll(r, a) == Writes(r, [live |-> [t \in LiveOf(a) |-> FALSE]], {})

\* Mutant: the old token stays live.
RotateKeeping(r, t) == Writes(r, [live |-> r :> TRUE, owner |-> r :> db.owner[t], from |-> r :> t], {})

Rotate(r, t) ==
  Writes(r, [live |-> r :> TRUE @@ t :> FALSE, owner |-> r :> db.owner[t], from |-> r :> t], {})

\* rotate_refresh_token, on the route of an audience.  A token of another
\* audience or of an account that is switched off is refused after it has been
\* rotated, without a commit: nothing of it stays.
Refresh(r, t, audience) ==
  /\ t \in DOMAIN db.live
  /\ IF ~db.live[t] THEN RevokeAll(r, db.owner[t])
     ELSE /\ t \notin stale
          /\ db.owner[t][1] = audience /\ db.active[db.owner[t]]
          /\ Rotate(r, t)

RefreshStaff(r, t) == Refresh(r, t, "staff")
RefreshClient(r, t) == Refresh(r, t, "client")
RefreshEmployee(r, t) == Refresh(r, t, "client_staff")
RefreshOrg(r, t) == Refresh(r, t, "org")

\* revoke_refresh_token
Logout(r, t) ==
  t \in DOMAIN db.live /\ db.live[t] /\ Writes(r, [live |-> t :> FALSE], {})

---------------------------------------------------------------------------
(* Members and their numbers.                                              *)

\* add_roster_numbers: those that are there already are skipped.
AddToRoster(r, ns) ==
  LET more == ns \ DOMAIN db.claim
  IN  ActiveClient /\ Writes(r, [claim |-> [n \in more |-> None]], {<<"claim", n>> : n \in more})

\* Mutant: a number is recognised, claimed or not.
ClaimableAny(n) == n \in DOMAIN db.claim

\* create_member_profile: recognised, and not claimed.
Claimable(n) == n \in DOMAIN db.claim /\ db.claim[n] = None

\* link_phone_number: a number that is linked already goes over to the member.
Linked(p, m) == [link |-> p :> m]
NewLink(p) == {<<"link", p>>} \ ({"link"} \X DOMAIN db.link)

JoinBy(r, n, p, via, ins, by) ==
  Writes(r, by @@ [claim |-> n :> r, via |-> r :> via, number |-> r :> n] @@ Linked(p, r), ins \cup NewLink(p))

Join(r, n, p, via, ins) == JoinBy(r, n, p, via, ins, <<>>)

\* client_create_member: a number that is not on the roster is issued at once.
AddMember(r, n, p) ==
  /\ ActiveClient
  /\ \/ n \notin DOMAIN db.claim /\ Join(r, n, p, "client_added", {<<"claim", n>>})
     \/ Claimable(n) /\ Join(r, n, p, "client_added", {})

\* register_member, of a number that its client has taken for the member.
Confirm(r, n, p) ==
  /\ n \in DOMAIN db.claim /\ db.claim[n] # None /\ db.via[db.claim[n]] = "client_added"
  /\ Writes(r, [via |-> db.claim[n] :> "public_form"] @@ Linked(p, db.claim[n]), NewLink(p))

LinksOf(g) == {i \in DOMAIN db.open : db.open[i] /\ db.group[i] = g}

\* Mutant: a link that has been regenerated is still good.
OpenLinkEver(g, i) == i \in DOMAIN db.open /\ db.group[i] = g

\* get_invite_by_token
OpenLink(g, i) == i \in LinksOf(g)

\* POST /public/invite/{token}/register
Register(r, i, n, p) ==
  /\ OpenLink("community", i)
  /\ \/ Confirm(r, n, p)
     \/ Claimable(n) /\ JoinBy(r, n, p, "public_form", {}, [by |-> r :> i])

\* The same route of the orgs: there is no roster.
OrgRegister(r, i, p) ==
  /\ OpenLink("group", i)
  /\ Writes(r, [by |-> r :> i, orgLink |-> p :> r], {<<"orgLink", p>>} \ ({"orgLink"} \X DOMAIN db.orgLink))

\* create_or_rotate_group_invite and create_group_invite
RotateLink(r, g) ==
  Writes(r, [open |-> r :> TRUE @@ [i \in LinksOf(g) |-> FALSE], group |-> r :> g], {})

RegenerateInvite(r) == ActiveClient /\ RotateLink(r, "community")
CreateGroupInvite(r) == ActiveOrgOwner /\ RotateLink(r, "group")

---------------------------------------------------------------------------

\* A group has one link that is open: another request has opened one.
SecondLink(r) ==
  /\ "group" \in DOMAIN req[r].w
  /\ \E i \in LinksOf(req[r].w.group[r]) : i \notin DOMAIN req[r].w.open

\* A unique key that another request has inserted: IntegrityError.
Collides(r) == SecondLink(r) \/ \E k \in req[r].ins : k[2] \in DOMAIN db[k[1]]

Written(w) == UNION {{c} \X DOMAIN w[c] : c \in DOMAIN w}

Commit(r) ==
  LET q == req[r]
  IN  /\ q.pc = "open" /\ ~Collides(r)
      /\ db' = [c \in Columns |-> IF c \in DOMAIN q.w THEN q.w[c] @@ db[c] ELSE db[c]]
      /\ fails' = [e \in Emails |-> (fails[e] \ q.forgets) \cup (IF e \in q.fails THEN {r} ELSE {})]
      /\ mixed' = mixed \cup (Written(q.w) \cap q.over)
      /\ req' = [s \in Requests |->
                   IF s = r THEN Done
                   ELSE IF req[s].pc = "open" THEN [req[s] EXCEPT !.over = @ \cup Written(q.w)]
                   ELSE req[s]]
      /\ UNCHANGED stale

\* A collision, or any other failure: get_db rolls back.
Fail(r) ==
  /\ req[r].pc = "open"
  /\ req' = [req EXCEPT ![r] = Done]
  /\ UNCHANGED <<db, fails, stale, mixed>>

\* Time: the lockout window passes, a token expires.
Lapse(e) == fails[e] # {} /\ fails' = [fails EXCEPT ![e] = {}] /\ UNCHANGED <<db, stale, req, mixed>>
Expire(t) == t \notin stale /\ stale' = stale \cup {t} /\ UNCHANGED <<db, fails, req, mixed>>

Ready == {r \in Requests : req[r].pc = "new"}

Next ==
  \/ \E r \in Ready, e \in Emails :
       \/ SubmitClient(r, e) \/ SubmitOrg(r, e)
       \/ OpenClient(r, e) \/ OpenEmployee(r, e) \/ OpenOrgUser(r, e) \/ OpenStaff(r, e) \/ Bootstrap(r, e)
       \/ \E on \in BOOLEAN : SwitchEmployee(r, e, on) \/ SwitchStaff(r, e, on)
       \/ LoginStaff(r, e) \/ LoginClient(r, e) \/ LoginEmployee(r, e) \/ LoginOrg(r, e)
  \/ \E r \in Ready, k \in Apps :
       ApproveClient(r, k) \/ ApproveOrg(r, k) \/ RejectClient(r, k) \/ RejectOrg(r, k)
  \/ \E r \in Ready, t \in Tokens :
       \/ RefreshStaff(r, t) \/ RefreshClient(r, t) \/ RefreshEmployee(r, t) \/ RefreshOrg(r, t)
       \/ Logout(r, t)
  \/ \E r \in Ready, ns \in SUBSET Numbers : AddToRoster(r, ns)
  \/ \E r \in Ready, p \in Phones :
       \/ \E n \in Numbers : AddMember(r, n, p) \/ \E i \in Links : Register(r, i, n, p)
       \/ \E i \in Links : OrgRegister(r, i, p)
  \/ \E r \in Ready : RegenerateInvite(r) \/ CreateGroupInvite(r)
  \/ \E r \in Requests : Commit(r) \/ Fail(r)
  \/ \E e \in Emails : Lapse(e)
  \/ \E t \in Sessions : Expire(t)

Spec == Init /\ [][Next]_vars

---------------------------------------------------------------------------
(* Properties.                                                             *)

\* An account comes from one application at most, and an application is approved
\* exactly when it has created one (core/models/client.py, "atomically"), unless
\* two reviews of it have overlapped: then a rejection may cover an approval.
VerdictsStand ==
  \A k \in DOMAIN db.status :
    /\ <<"status", k>> \notin mixed => (db.status[k] = "approved" <=> db.made[k] # None)
    /\ db.made[k] # None =>
         db.made[k] = db.asks[k] /\ \A j \in DOMAIN db.status \ {k} : db.made[j] # db.made[k]

\* A number of the roster is one member's ("only one confirmation per number",
\* profiles/services.py:798): no two members have it, and who has it is who
\* claimed it, unless two requests that both found it unclaimed have overlapped.
NumbersClaimedOnce ==
  \A m \in DOMAIN db.number :
    <<"claim", db.number[m]>> \notin mixed => db.claim[db.number[m]] = m

\* The community has one open link at any time and a group of an org one since its
\* first; a member comes by a link that is open, or that was regenerated only
\* after the member's request had begun ("a leaked old link goes cold",
\* profiles/services.py:638-640).
LinksGoCold ==
  [][/\ Cardinality(LinksOf("community")') = 1 /\ (LinksOf("group") # {} => Cardinality(LinksOf("group")') = 1)
     /\ \A m \in DOMAIN db'.by \ DOMAIN db.by :
          db.open[db'.by[m]] \/ <<"open", db'.by[m]>> \in req[m].over]_vars

\* A refresh token has one successor, and is not live any more when it has
\* (token_service.py, "rotated on every use"), unless two rotations overlapped.
SessionsDescend ==
  \A t, u \in DOMAIN db.from :
    db.from[u] = t /\ t # None /\ <<"live", t>> \notin mixed =>
      ~db.live[t] /\ \A v \in DOMAIN db.from \ {u} : db.from[v] # t

=============================================================================
