---------------------------- MODULE AccountsProofs ----------------------------
(***************************************************************************)
(* What the verdicts, the numbers, the sessions and the links come to, for *)
(* any number of requests, with proofs.                                    *)
(*                                                                         *)
(* Every invariant has a part about the requests that are still open: what *)
(* one of them is going to write was right when it began, and is right     *)
(* still, unless another request has written the same row since.           *)
(***************************************************************************)
EXTENDS Accounts, FiniteSetTheorems, TLAPS

LEMMA WrittenIs ==
  ASSUME NEW w, NEW c, NEW x
  PROVE  <<c, x>> \in Written(w) <=> c \in DOMAIN w /\ x \in DOMAIN w[c]
BY DEF Written

-----------------------------------------------------------------------------
(* What a request is going to write, by what it asked for.                 *)

Submission(r, w) ==
  \E a \in AccountKeys : w = [asks |-> r :> a, status |-> r :> "pending", made |-> r :> None]

Approval(k, w, ins) ==
  /\ w = [status |-> k :> "approved", made |-> k :> db.asks[k], active |-> db.asks[k] :> TRUE]
  /\ ins = {<<"active", db.asks[k]>>}

Rejection(k, w) == w = [status |-> k :> "rejected"]

SwitchOnly(w) == DOMAIN w = {"active"}

SignedIn(r, w) ==
  /\ DOMAIN w \ {"active"} = Token
  /\ w.live = r :> TRUE /\ w.from = r :> None /\ DOMAIN w.owner = {r}

Revocation(w) ==
  /\ DOMAIN w = {"live"}
  /\ \A t \in DOMAIN w.live : t \in DOMAIN db.live /\ w.live[t] = FALSE

Rotation(r, t, w) ==
  /\ DOMAIN w = Token
  /\ w.live = r :> TRUE @@ t :> FALSE /\ w.from = r :> t /\ DOMAIN w.owner = {r}

Supply(w, ins) == DOMAIN w = {"claim"} /\ \A n \in DOMAIN w.claim : <<"claim", n>> \in ins

Joining(r, n, w) ==
  /\ DOMAIN w \ {"by"} = {"claim", "via", "number", "link"}
  /\ w.claim = n :> r /\ w.number = r :> n

Confirmation(w) == DOMAIN w = {"via", "link"}

OrgJoining(r, i, w) == DOMAIN w = {"by", "orgLink"} /\ w.by = r :> i

Relinking(r, g, w) ==
  /\ DOMAIN w = GroupInvite
  /\ w.open = r :> TRUE @@ [i \in LinksOf(g) |-> FALSE] /\ w.group = r :> g

Plan(r, w, ins) ==
  \/ Submission(r, w)
  \/ \E k \in DOMAIN db.status : Pending(k) /\ (Approval(k, w, ins) \/ Rejection(k, w))
  \/ SwitchOnly(w) \/ DOMAIN w = {} \/ SignedIn(r, w) \/ Revocation(w)
  \/ \E t \in DOMAIN db.live : db.live[t] /\ Rotation(r, t, w)
  \/ Supply(w, ins)
  \/ \E n : /\ Joining(r, n, w) /\ (Claimable(n) \/ <<"claim", n>> \in ins)
            /\ "by" \in DOMAIN w => \E i : OpenLink("community", i) /\ w.by = r :> i
  \/ Confirmation(w)
  \/ \E i : OpenLink("group", i) /\ OrgJoining(r, i, w)
  \/ \E g \in Groups : Relinking(r, g, w)

Starts(r) ==
  /\ req[r].pc = "new" /\ DOMAIN req' = Requests
  /\ req'[r].pc = "open" /\ req'[r].over = {} /\ "over" \in DOMAIN req'[r]
  /\ \A s \in Requests \ {r} : req'[s] = req[s]
  /\ UNCHANGED <<db, mixed>>
  /\ Plan(r, req'[r].w, req'[r].ins)

\* The record that a request begins as.
LEMMA BeginIs ==
  ASSUME DOMAIN req = Requests, NEW r \in Requests, NEW new,
         "w" \in DOMAIN new, "pc" \notin DOMAIN new, "over" \notin DOMAIN new, Begin(r, new)
  PROVE  /\ req[r].pc = "new" /\ DOMAIN req' = Requests
         /\ req'[r].w = new.w /\ ("ins" \in DOMAIN new => req'[r].ins = new.ins)
         /\ req'[r].pc = "open" /\ req'[r].over = {} /\ "over" \in DOMAIN req'[r]
         /\ \A s \in Requests \ {r} : req'[s] = req[s]
         /\ UNCHANGED <<db, mixed>>
<1> DEFINE q == new @@ [pc |-> "open"] @@ Fresh
<1>1. /\ q.w = new.w /\ ("ins" \in DOMAIN new => q.ins = new.ins)
      /\ q.pc = "open" /\ q.over = {} /\ "over" \in DOMAIN q
  BY DEF @@, Fresh
<1>2. req[r].pc = "new" /\ req' = [req EXCEPT ![r] = q] /\ UNCHANGED <<db, mixed>>
  BY DEF Begin
<1> HIDE DEF q
<1> QED
  BY <1>1, <1>2

LEMMA Planned ==
  ASSUME DOMAIN req = Requests, NEW r \in Requests, NEW w, NEW ins, Writes(r, w, ins), Plan(r, w, ins)
  PROVE  Starts(r)
<1> DEFINE new == [w |-> w, ins |-> ins]
<1>1. DOMAIN new = {"w", "ins"} /\ new.w = w /\ new.ins = ins /\ Begin(r, new)
  BY DEF Writes
<1> HIDE DEF new
<1>2. /\ req[r].pc = "new" /\ DOMAIN req' = Requests
      /\ req'[r].w = w /\ req'[r].ins = ins
      /\ req'[r].pc = "open" /\ req'[r].over = {} /\ "over" \in DOMAIN req'[r]
      /\ \A s \in Requests \ {r} : req'[s] = req[s]
      /\ UNCHANGED <<db, mixed>>
  BY <1>1, BeginIs
<1> QED
  BY <1>2 DEF Starts

LEMMA ApplicationPlans ==
  ASSUME DOMAIN req = Requests, NEW r \in Requests
  PROVE  /\ \A e \in Emails : SubmitClient(r, e) \/ SubmitOrg(r, e) => Starts(r)
         /\ \A k : ApproveClient(r, k) \/ ApproveOrg(r, k) \/ RejectClient(r, k) \/ RejectOrg(r, k) => Starts(r)
<1>1. ASSUME NEW a \in AccountKeys, Submit(r, a) PROVE Starts(r)
  <2> DEFINE w == [asks |-> r :> a, status |-> r :> "pending", made |-> r :> None]
  <2>1. Writes(r, w, {}) /\ Submission(r, w)
    BY <1>1 DEF Submit, Submission
  <2> QED
    BY <2>1, Planned DEF Plan
<1>2. ASSUME NEW k, Approve(r, k) PROVE Starts(r)
  <2> DEFINE w == [status |-> k :> "approved", made |-> k :> db.asks[k], active |-> db.asks[k] :> TRUE]
  <2> DEFINE ins == {<<"active", db.asks[k]>>}
  <2>1. Writes(r, w, ins) /\ Pending(k) /\ k \in DOMAIN db.status /\ Approval(k, w, ins)
    BY <1>2 DEF Approve, Approval, Pending
  <2> HIDE DEF w, ins
  <2> QED
    BY <2>1, Planned DEF Plan
<1>3. ASSUME NEW k, Reject(r, k) PROVE Starts(r)
  <2> DEFINE w == [status |-> k :> "rejected"]
  <2>1. Writes(r, w, {}) /\ Pending(k) /\ k \in DOMAIN db.status /\ Rejection(k, w)
    BY <1>3 DEF Reject, Rejection, Pending
  <2> HIDE DEF w
  <2> QED
    BY <2>1, Planned DEF Plan
<1> QED
  BY <1>1, <1>2, <1>3 DEF SubmitClient, SubmitOrg, ApproveClient, ApproveOrg, RejectClient, RejectOrg,
                          AccountKeys, Audiences

LEMMA AccountPlans ==
  ASSUME DOMAIN req = Requests, NEW r \in Requests, NEW e \in Emails
  PROVE  /\ OpenClient(r, e) \/ OpenEmployee(r, e) \/ OpenOrgUser(r, e) \/ OpenStaff(r, e) => Starts(r)
         /\ Bootstrap(r, e) => Starts(r)
         /\ \A on : SwitchEmployee(r, e, on) \/ SwitchStaff(r, e, on) => Starts(r)
<1>1. ASSUME NEW a, NEW on, NEW ins, Writes(r, [active |-> a :> on], ins) PROVE Starts(r)
  <2> DEFINE w == [active |-> a :> on]
  <2>1. SwitchOnly(w) /\ Writes(r, w, ins)
    BY <1>1 DEF SwitchOnly
  <2> HIDE DEF w
  <2> QED
    BY <2>1, Planned DEF Plan
<1>2. ASSUME Bootstrap(r, e) PROVE Starts(r)
  <2> DEFINE a == <<"staff", e>>
  <2> DEFINE w == [active |-> a :> TRUE] @@ NewToken(r, a)
  <2> DEFINE ins == {<<"active", a>>}
  <2>1. Writes(r, w, ins)
    BY <1>2 DEF Bootstrap
  <2>2. SignedIn(r, w)
    BY DEF SignedIn, NewToken, Token, @@, :>
  <2> HIDE DEF w, ins
  <2> QED
    BY <2>1, <2>2, Planned DEF Plan
<1> QED
  BY <1>1, <1>2 DEF OpenClient, OpenEmployee, OpenOrgUser, OpenStaff, Open, SwitchEmployee, SwitchStaff, Switch

LEMMA SessionPlans ==
  ASSUME DOMAIN req = Requests, NEW r \in Requests
  PROVE  /\ \A e : LoginStaff(r, e) \/ LoginClient(r, e) \/ LoginEmployee(r, e) \/ LoginOrg(r, e) => Starts(r)
         /\ \A t : \/ RefreshStaff(r, t) \/ RefreshClient(r, t) \/ RefreshEmployee(r, t) \/ RefreshOrg(r, t)
                 \/ Logout(r, t)
                 => Starts(r)
<1>1. ASSUME NEW a, SignIn(r, a) PROVE Starts(r)
  <2> DEFINE new == [w |-> NewToken(r, a), forgets |-> fails[a[2]]]
  <2>1. Begin(r, new) /\ DOMAIN new = {"w", "forgets"} /\ new.w = NewToken(r, a)
    BY <1>1 DEF SignIn
  <2>2. SignedIn(r, new.w)
    BY <2>1 DEF SignedIn, NewToken, Token, :>
  <2> HIDE DEF new
  <2> QED
    BY <2>1, <2>2, BeginIs DEF Starts, Plan
<1>2. ASSUME NEW e, Refuse(r, e) PROVE Starts(r)
  <2> DEFINE q == [fails |-> {e}] @@ [pc |-> "open"] @@ Fresh
  <2>1. DOMAIN q.w = {} /\ q.pc = "open" /\ q.over = {} /\ "over" \in DOMAIN q
    BY DEF @@, Fresh
  <2>2. req[r].pc = "new" /\ req' = [req EXCEPT ![r] = q] /\ UNCHANGED <<db, mixed>>
    BY <1>2 DEF Refuse, Begin
  <2> HIDE DEF q
  <2>3. req'[r] = q /\ DOMAIN req' = Requests /\ \A s \in Requests \ {r} : req'[s] = req[s]
    BY <2>2
  <2> QED
    BY <2>1, <2>2, <2>3 DEF Starts, Plan
<1>3. ASSUME NEW S \in SUBSET DOMAIN db.live, Writes(r, [live |-> [t \in S |-> FALSE]], {}) PROVE Starts(r)
  <2> DEFINE w == [live |-> [t \in S |-> FALSE]]
  <2>1. Writes(r, w, {}) /\ Revocation(w)
    BY <1>3 DEF Revocation
  <2> HIDE DEF w
  <2> QED
    BY <2>1, Planned DEF Plan
<1>4. ASSUME NEW t \in DOMAIN db.live, db.live[t], Rotate(r, t) PROVE Starts(r)
  <2> DEFINE w == [live |-> r :> TRUE @@ t :> FALSE, owner |-> r :> db.owner[t], from |-> r :> t]
  <2>1. Writes(r, w, {})
    BY <1>4 DEF Rotate
  <2>2. Rotation(r, t, w)
    BY DEF Rotation, Token, :>
  <2> HIDE DEF w
  <2> QED
    BY <1>4, <2>1, <2>2, Planned DEF Plan
<1>5. ASSUME NEW t, NEW audience, Refresh(r, t, audience) PROVE Starts(r)
  <2>1. CASE db.live[t]
    BY <1>4, <1>5, <2>1 DEF Refresh
  <2>2. CASE ~db.live[t]
    BY <1>3, <1>5, <2>2 DEF Refresh, RevokeAll, LiveOf
  <2> QED
    BY <2>1, <2>2
<1>6. ASSUME NEW t, Logout(r, t) PROVE Starts(r)
  <2>1. t :> FALSE = [u \in {t} |-> FALSE] /\ {t} \in SUBSET DOMAIN db.live
    BY <1>6 DEF Logout, :>
  <2> QED
    BY <1>3, <1>6, <2>1 DEF Logout
<1>7. \A e : LoginStaff(r, e) \/ LoginClient(r, e) \/ LoginEmployee(r, e) \/ LoginOrg(r, e) => Starts(r)
  BY <1>1, <1>2 DEF LoginStaff, LoginClient, LoginEmployee, LoginOrg
<1> QED
  BY <1>5, <1>6, <1>7 DEF RefreshStaff, RefreshClient, RefreshEmployee, RefreshOrg

LEMMA MemberPlans ==
  ASSUME DOMAIN req = Requests, NEW r \in Requests
  PROVE  /\ \A ns : AddToRoster(r, ns) => Starts(r)
         /\ \A n, p : AddMember(r, n, p) => Starts(r)
         /\ \A i, n, p : Register(r, i, n, p) => Starts(r)
         /\ \A i, p : OrgRegister(r, i, p) => Starts(r)
         /\ RegenerateInvite(r) \/ CreateGroupInvite(r) => Starts(r)
<1>1. ASSUME NEW ns, AddToRoster(r, ns) PROVE Starts(r)
  <2>1. PICK more : Writes(r, [claim |-> [n \in more |-> None]], {<<"claim", n>> : n \in more})
    BY <1>1 DEF AddToRoster
  <2> DEFINE w == [claim |-> [n \in more |-> None]]
  <2> DEFINE ins == {<<"claim", n>> : n \in more}
  <2>2. Writes(r, w, ins) /\ Supply(w, ins)
    BY <2>1 DEF Supply
  <2> HIDE DEF w, ins
  <2> QED
    BY <2>2, Planned DEF Plan
<1>2. ASSUME NEW n, NEW p, NEW via, NEW ins, NEW by, NEW i,
             JoinBy(r, n, p, via, ins, by), Claimable(n) \/ <<"claim", n>> \in ins,
             by = <<>> \/ (by = [by |-> r :> i] /\ OpenLink("community", i))
      PROVE  Starts(r)
  <2> DEFINE w == by @@ [claim |-> n :> r, via |-> r :> via, number |-> r :> n] @@ Linked(p, r)
  <2>1. Writes(r, w, ins \cup NewLink(p))
    BY <1>2 DEF JoinBy
  <2>2. (DOMAIN by = {} \/ DOMAIN by = {"by"}) /\ ("by" \in DOMAIN by => by.by = r :> i)
    BY <1>2
  <2>3. Joining(r, n, w)
    BY <2>2 DEF Joining, Linked, @@
  <2>4. "by" \in DOMAIN w => OpenLink("community", i) /\ w.by = r :> i
    BY <1>2, <2>2 DEF Linked, @@
  <2> HIDE DEF w
  <2> QED
    BY <1>2, <2>1, <2>3, <2>4, Planned DEF Plan
<1>3. ASSUME NEW n, NEW p, AddMember(r, n, p) PROVE Starts(r)
  BY <1>2, <1>3 DEF AddMember, Join
<1>4. ASSUME NEW n, NEW p, Confirm(r, n, p) PROVE Starts(r)
  <2> DEFINE w == [via |-> db.claim[n] :> "public_form"] @@ Linked(p, db.claim[n])
  <2>1. Writes(r, w, NewLink(p))
    BY <1>4 DEF Confirm
  <2>2. Confirmation(w)
    BY DEF Confirmation, Linked, @@
  <2> HIDE DEF w
  <2> QED
    BY <2>1, <2>2, Planned DEF Plan
<1>5. ASSUME NEW i, NEW n, NEW p, Register(r, i, n, p) PROVE Starts(r)
  BY <1>2, <1>4, <1>5 DEF Register
<1>6. ASSUME NEW i, NEW p, OrgRegister(r, i, p) PROVE Starts(r)
  <2> DEFINE w == [by |-> r :> i, orgLink |-> p :> r]
  <2>1. PICK ins : Writes(r, w, ins)
    BY <1>6 DEF OrgRegister
  <2>2. OrgJoining(r, i, w) /\ OpenLink("group", i)
    BY <1>6 DEF OrgJoining, OrgRegister
  <2> HIDE DEF w
  <2> QED
    BY <2>1, <2>2, Planned DEF Plan
<1>7. ASSUME NEW g \in Groups, RotateLink(r, g) PROVE Starts(r)
  <2> DEFINE w == [open |-> r :> TRUE @@ [i \in LinksOf(g) |-> FALSE], group |-> r :> g]
  <2>1. Writes(r, w, {})
    BY <1>7 DEF RotateLink
  <2>2. Relinking(r, g, w)
    BY DEF Relinking, GroupInvite
  <2> HIDE DEF w
  <2> QED
    BY <2>1, <2>2, Planned DEF Plan
<1> QED
  BY <1>1, <1>3, <1>5, <1>6, <1>7 DEF RegenerateInvite, CreateGroupInvite, Groups

\* Every step begins a request, ends one, or is the clock's.
LEMMA StepCases ==
  ASSUME DOMAIN req = Requests, [Next]_vars
  PROVE  \/ \E r \in Requests : Starts(r) \/ Commit(r) \/ Fail(r)
         \/ UNCHANGED <<db, req, mixed>>
<1>1. ASSUME NEW r \in Ready, NEW e \in Emails,
             \/ SubmitClient(r, e) \/ SubmitOrg(r, e)
             \/ OpenClient(r, e) \/ OpenEmployee(r, e) \/ OpenOrgUser(r, e) \/ OpenStaff(r, e) \/ Bootstrap(r, e)
             \/ \E on \in BOOLEAN : SwitchEmployee(r, e, on) \/ SwitchStaff(r, e, on)
             \/ LoginStaff(r, e) \/ LoginClient(r, e) \/ LoginEmployee(r, e) \/ LoginOrg(r, e)
      PROVE  r \in Requests /\ Starts(r)
  <2>1. r \in Requests
    BY DEF Ready
  <2>2. SubmitClient(r, e) \/ SubmitOrg(r, e) => Starts(r)
    BY <2>1, ApplicationPlans
  <2>3. /\ OpenClient(r, e) \/ OpenEmployee(r, e) \/ OpenOrgUser(r, e) \/ OpenStaff(r, e) \/ Bootstrap(r, e) => Starts(r)
        /\ \A on \in BOOLEAN : SwitchEmployee(r, e, on) \/ SwitchStaff(r, e, on) => Starts(r)
    BY <2>1, AccountPlans
  <2>4. LoginStaff(r, e) \/ LoginClient(r, e) \/ LoginEmployee(r, e) \/ LoginOrg(r, e) => Starts(r)
    BY <2>1, SessionPlans
  <2> QED
    BY <1>1, <2>1, <2>2, <2>3, <2>4
<1>2. ASSUME NEW r \in Ready, NEW k \in Apps,
             ApproveClient(r, k) \/ ApproveOrg(r, k) \/ RejectClient(r, k) \/ RejectOrg(r, k)
      PROVE  r \in Requests /\ Starts(r)
  <2>1. r \in Requests
    BY DEF Ready
  <2> QED
    BY <1>2, <2>1, ApplicationPlans
<1>3. ASSUME NEW r \in Ready, NEW t \in Tokens,
             \/ RefreshStaff(r, t) \/ RefreshClient(r, t) \/ RefreshEmployee(r, t) \/ RefreshOrg(r, t)
             \/ Logout(r, t)
      PROVE  r \in Requests /\ Starts(r)
  <2>1. r \in Requests
    BY DEF Ready
  <2> QED
    BY <1>3, <2>1, SessionPlans
<1>4. ASSUME NEW r \in Ready,
             \/ \E ns \in SUBSET Numbers : AddToRoster(r, ns)
             \/ \E p \in Phones :
                   \/ \E n \in Numbers : AddMember(r, n, p) \/ \E i \in Links : Register(r, i, n, p)
                   \/ \E i \in Links : OrgRegister(r, i, p)
             \/ RegenerateInvite(r) \/ CreateGroupInvite(r)
      PROVE  r \in Requests /\ Starts(r)
  <2>1. r \in Requests
    BY DEF Ready
  <2> QED
    BY <1>4, <2>1, MemberPlans
<1>5. ASSUME (\E e \in Emails : Lapse(e)) \/ (\E t \in Sessions : Expire(t)) \/ UNCHANGED vars
      PROVE  UNCHANGED <<db, req, mixed>>
  BY <1>5 DEF Lapse, Expire, vars
<1> QED
  BY <1>1, <1>2, <1>3, <1>4, <1>5 DEF Next

-----------------------------------------------------------------------------
(* A commit.                                                               *)

LEMMA Lands ==
  ASSUME NEW r \in Requests, Commit(r), NEW c \in Columns
  PROVE  /\ c \notin DOMAIN req[r].w => db'[c] = db[c]
         /\ c \in DOMAIN req[r].w =>
              /\ DOMAIN db'[c] = DOMAIN db[c] \cup DOMAIN req[r].w[c]
              /\ \A x \in DOMAIN req[r].w[c] : db'[c][x] = req[r].w[c][x]
              /\ \A x \in DOMAIN db[c] \ DOMAIN req[r].w[c] : db'[c][x] = db[c][x]
<1> DEFINE w == req[r].w
<1>1. db'[c] = IF c \in DOMAIN w THEN w[c] @@ db[c] ELSE db[c]
  BY DEF Commit
<1> HIDE DEF w
<1>2. CASE c \in DOMAIN w
  <2>1. /\ DOMAIN db'[c] = DOMAIN db[c] \cup DOMAIN w[c]
        /\ \A x \in DOMAIN w[c] : db'[c][x] = w[c][x]
        /\ \A x \in DOMAIN db[c] \ DOMAIN w[c] : db'[c][x] = db[c][x]
    BY <1>1, <1>2 DEF @@
  <2> QED
    BY <1>2, <2>1 DEF w
<1>3. CASE c \notin DOMAIN w
  BY <1>1, <1>3 DEF w
<1> QED
  BY <1>2, <1>3

\* What it means for a request that is still open afterwards.
LEMMA Remains ==
  ASSUME NEW r \in Requests, Commit(r), \A s \in Requests : "over" \in DOMAIN req[s]
  PROVE  /\ req[r].pc = "open" /\ req'[r].pc = "done" /\ DOMAIN req' = Requests /\ ~Collides(r)
         /\ mixed' = mixed \cup (Written(req[r].w) \cap req[r].over)
         /\ \A s \in Requests \ {r} :
              /\ req'[s].pc = req[s].pc /\ req'[s].w = req[s].w /\ req'[s].ins = req[s].ins
              /\ req'[s].pc = "open" => req'[s].over = req[s].over \cup Written(req[r].w)
         /\ \A s \in Requests : "over" \in DOMAIN req'[s]
<1>1. /\ req[r].pc = "open" /\ ~Collides(r)
      /\ mixed' = mixed \cup (Written(req[r].w) \cap req[r].over)
  BY DEF Commit
<1>2. req' = [s \in Requests |->
                IF s = r THEN Done
                ELSE IF req[s].pc = "open" THEN [req[s] EXCEPT !.over = @ \cup Written(req[r].w)]
                ELSE req[s]]
  BY DEF Commit
<1>3. req'[r] = Done /\ Done.pc = "done" /\ "over" \in DOMAIN Done
  BY <1>2 DEF Done, Fresh
<1>4. ASSUME NEW s \in Requests \ {r}
      PROVE  /\ req'[s].pc = req[s].pc /\ req'[s].w = req[s].w /\ req'[s].ins = req[s].ins
             /\ req'[s].pc = "open" => req'[s].over = req[s].over \cup Written(req[r].w)
             /\ "over" \in DOMAIN req'[s]
  <2>1. CASE req[s].pc = "open"
    <3>1. req'[s] = [req[s] EXCEPT !.over = @ \cup Written(req[r].w)]
      BY <1>2, <1>4, <2>1
    <3> QED
      BY <3>1
  <2>2. CASE req[s].pc # "open"
    <3>1. req'[s] = req[s]
      BY <1>2, <1>4, <2>2
    <3> QED
      BY <2>2, <3>1
  <2> QED
    BY <2>1, <2>2
<1> QED
  BY <1>1, <1>2, <1>3, <1>4

-----------------------------------------------------------------------------
(* The rows.  Each table's columns have the same rows, a row that is named *)
(* after a request appears when that request commits.                      *)

Named == Application \cup Token \cup GroupInvite \cup {"number", "by"}

SameRows ==
  /\ DOMAIN db.status = DOMAIN db.asks /\ DOMAIN db.made = DOMAIN db.asks
  /\ DOMAIN db.owner = DOMAIN db.live /\ DOMAIN db.from = DOMAIN db.live
  /\ DOMAIN db.group = DOMAIN db.open

OwnRows(r) ==
  LET w == req[r].w IN
  /\ \A c \in DOMAIN w \cap Named : DOMAIN w[c] \subseteq DOMAIN db[c] \cup {r}
  /\ \A F \in {Application, Token, GroupInvite} : \A c, d \in F :
       c \in DOMAIN w /\ r \in DOMAIN w[c] => d \in DOMAIN w /\ r \in DOMAIN w[d]

Rows ==
  /\ DOMAIN req = Requests /\ \A r \in Requests : "over" \in DOMAIN req[r]
  /\ SameRows
  /\ \A r \in Requests, c \in Named : r \in DOMAIN db[c] => req[r].pc = "done"
  /\ \A r \in Requests : req[r].pc = "open" => OwnRows(r)

LEMMA PlanRows ==
  ASSUME NEW r \in Requests, Starts(r), SameRows, \A c \in Named : r \notin DOMAIN db[c]
  PROVE  OwnRows(r)'
<1> DEFINE w == req'[r].w
<1> DEFINE ins == req'[r].ins
<1> DEFINE Rowed == /\ \A c \in DOMAIN w \cap Named : DOMAIN w[c] \subseteq DOMAIN db[c] \cup {r}
                    /\ \A F \in {Application, Token, GroupInvite} : \A c, d \in F :
                         c \in DOMAIN w /\ r \in DOMAIN w[c] => d \in DOMAIN w /\ r \in DOMAIN w[d]
<1>0. UNCHANGED db /\ Plan(r, w, ins)
  BY DEF Starts
<1>s. SUFFICES Rowed
  BY <1>0 DEF OwnRows
<1> HIDE DEF w, ins
<1>1. ASSUME Submission(r, w) PROVE Rowed
  BY <1>1 DEF Submission, Named, Application, Token, GroupInvite, :>
<1>2. ASSUME NEW k \in DOMAIN db.status, Approval(k, w, ins) \/ Rejection(k, w) PROVE Rowed
  <2>1. DOMAIN w \subseteq {"status", "made", "active"} /\ \A c \in DOMAIN w \cap Application : DOMAIN w[c] = {k}
    BY <1>2 DEF Approval, Rejection, Application, :>
  <2>2. k # r /\ k \in DOMAIN db.made
    BY DEF SameRows, Named, Application
  <2> QED
    BY <2>1, <2>2 DEF Named, Application, Token, GroupInvite
<1>3. ASSUME SwitchOnly(w) \/ DOMAIN w = {} \/ Supply(w, ins) \/ Confirmation(w) PROVE Rowed
  BY <1>3 DEF SwitchOnly, Supply, Confirmation, Named, Application, Token, GroupInvite
<1>4. ASSUME SignedIn(r, w) PROVE Rowed
  BY <1>4 DEF SignedIn, Named, Application, Token, GroupInvite, :>
<1>5. ASSUME Revocation(w) PROVE Rowed
  BY <1>5 DEF Revocation, Named, Application, Token, GroupInvite
<1>6. ASSUME NEW t \in DOMAIN db.live, Rotation(r, t, w) PROVE Rowed
  <2>1. /\ DOMAIN w = Token
        /\ DOMAIN w.live = {r, t} /\ DOMAIN w.from = {r} /\ DOMAIN w.owner = {r}
    BY <1>6 DEF Rotation, :>, @@
  <2> QED
    BY <2>1 DEF Named, Application, Token, GroupInvite
<1>7. ASSUME NEW n, Joining(r, n, w), "by" \in DOMAIN w => \E i : w.by = r :> i PROVE Rowed
  BY <1>7 DEF Joining, Named, Application, Token, GroupInvite, :>
<1>8. ASSUME NEW i, OrgJoining(r, i, w) PROVE Rowed
  BY <1>8 DEF OrgJoining, Named, Application, Token, GroupInvite, :>
<1>9. ASSUME NEW g, Relinking(r, g, w) PROVE Rowed
  <2>1. LinksOf(g) \subseteq DOMAIN db.open
    BY DEF LinksOf
  <2>2. DOMAIN w = GroupInvite /\ DOMAIN w.open = {r} \cup LinksOf(g) /\ DOMAIN w.group = {r}
    BY <1>9 DEF Relinking, :>, @@
  <2> QED
    BY <2>1, <2>2 DEF Named, Application, Token, GroupInvite
<1> HIDE DEF Rowed
<1> QED
  BY <1>0, <1>1, <1>2, <1>3, <1>4, <1>5, <1>6, <1>7, <1>8, <1>9 DEF Plan

\* What a commit adds to a column of such rows: its own row, or none.
LEMMA NewRow ==
  ASSUME Rows, NEW r \in Requests, Commit(r), NEW c \in Named
  PROVE  /\ DOMAIN db'[c] = DOMAIN db[c] \cup {x \in {r} : c \in DOMAIN req[r].w /\ r \in DOMAIN req[r].w[c]}
         /\ r \notin DOMAIN db[c]
<1>1. c \in Columns /\ req[r].pc = "open"
  BY DEF Commit, Named, Columns, Application, Token, GroupInvite, Profile, OrgMember
<1>2. r \notin DOMAIN db[c]
  BY <1>1 DEF Rows
<1>3. c \in DOMAIN req[r].w => DOMAIN req[r].w[c] \subseteq DOMAIN db[c] \cup {r}
  BY <1>1 DEF Rows, OwnRows
<1>4. CASE c \in DOMAIN req[r].w
  <2>1. DOMAIN db'[c] = DOMAIN db[c] \cup DOMAIN req[r].w[c]
    BY <1>1, <1>4, Lands
  <2> QED
    BY <1>2, <1>3, <1>4, <2>1
<1>5. CASE c \notin DOMAIN req[r].w
  BY <1>1, <1>2, <1>5, Lands
<1> QED
  BY <1>4, <1>5

LEMMA RowsInit == Init => Rows
<1> SUFFICES ASSUME Init PROVE Rows
  OBVIOUS
<1>1. req = [r \in Requests |-> Fresh] /\ Fresh.pc = "new" /\ "over" \in DOMAIN Fresh
  BY DEF Init, Fresh
<1>2. /\ DOMAIN db.asks = Filed /\ DOMAIN db.status = Filed /\ DOMAIN db.made = Filed
      /\ DOMAIN db.live = Sessions /\ DOMAIN db.owner = Sessions /\ DOMAIN db.from = Sessions
      /\ DOMAIN db.open = {Invite} /\ DOMAIN db.group = {Invite}
      /\ DOMAIN db.number = {} /\ DOMAIN db.by = {}
  BY AccountsAssumption DEF Init, Sessions, :>
<1> QED
  BY <1>1, <1>2, AccountsAssumption DEF Rows, SameRows, Named, Application, Token, GroupInvite

LEMMA RowsStep == ASSUME Rows, [Next]_vars PROVE Rows'
<1>1. ASSUME NEW r \in Requests, Starts(r) PROVE Rows'
  <2>1. \A c \in Named : r \notin DOMAIN db[c]
    BY <1>1 DEF Rows, Starts
  <2>2. OwnRows(r)'
    BY <1>1, <2>1, PlanRows DEF Rows
  <2>3. ASSUME NEW s \in Requests \ {r}, req'[s].pc = "open" PROVE OwnRows(s)'
    BY <1>1, <2>3 DEF Rows, Starts, OwnRows
  <2>4. \A s \in Requests, c \in Named : s \in DOMAIN db'[c] => req'[s].pc = "done"
    BY <1>1, <2>1 DEF Rows, Starts
  <2>5. UNCHANGED db /\ DOMAIN req' = Requests /\ \A s \in Requests : "over" \in DOMAIN req'[s]
    BY <1>1 DEF Rows, Starts
  <2> QED
    BY <2>2, <2>3, <2>4, <2>5 DEF Rows, SameRows
<1>2. ASSUME NEW r \in Requests, Commit(r) PROVE Rows'
  <2> DEFINE W == {c \in DOMAIN req[r].w : r \in DOMAIN req[r].w[c]}
  <2>1. /\ req[r].pc = "open" /\ req'[r].pc = "done" /\ DOMAIN req' = Requests
        /\ \A s \in Requests \ {r} : req'[s].pc = req[s].pc /\ req'[s].w = req[s].w
        /\ \A s \in Requests : "over" \in DOMAIN req'[s]
    BY <1>2, Remains DEF Rows
  <2>2. \A c \in Named : DOMAIN db'[c] = DOMAIN db[c] \cup {x \in {r} : c \in W}
    BY <1>2, NewRow
  <2>3. \A F \in {Application, Token, GroupInvite} : \A c, d \in F : c \in W => d \in W
    BY <2>1 DEF Rows, OwnRows
  <2> HIDE DEF W
  <2>4. SameRows'
    BY <2>2, <2>3 DEF Rows, SameRows, Named, Application, Token, GroupInvite
  <2>5. ASSUME NEW s \in Requests, NEW c \in Named, s \in DOMAIN db'[c] PROVE req'[s].pc = "done"
    BY <2>1, <2>2, <2>5 DEF Rows
  <2>6. ASSUME NEW s \in Requests, req'[s].pc = "open" PROVE OwnRows(s)'
    <3>1. s # r /\ req'[s].w = req[s].w /\ OwnRows(s)
      BY <2>1, <2>6 DEF Rows
    <3>2. \A c \in Named : DOMAIN db[c] \subseteq DOMAIN db'[c]
      BY <2>2
    <3> QED
      BY <3>1, <3>2 DEF OwnRows
  <2> QED
    BY <2>1, <2>4, <2>5, <2>6 DEF Rows
<1>3. ASSUME NEW r \in Requests, Fail(r) PROVE Rows'
  <2>1. /\ req'[r].pc = "done" /\ "over" \in DOMAIN req'[r] /\ DOMAIN req' = Requests
        /\ \A s \in Requests \ {r} : req'[s] = req[s]
        /\ UNCHANGED db
    BY <1>3 DEF Fail, Done, Fresh, Rows
  <2>2. SameRows'
    BY <2>1 DEF Rows, SameRows
  <2>3. \A s \in Requests : req'[s].pc = "open" => OwnRows(s)'
    BY <2>1 DEF Rows, OwnRows
  <2> QED
    BY <2>1, <2>2, <2>3 DEF Rows
<1>4. CASE UNCHANGED <<db, req, mixed>>
  BY <1>4 DEF Rows, SameRows, OwnRows
<1> QED
  BY <1>1, <1>2, <1>3, <1>4, StepCases DEF Rows

\* In every reachable state the tables are whole, and what an open request is
\* going to insert is named after it.
THEOREM RowsHold == Spec => []Rows
<1>1. Rows /\ [Next]_vars => Rows'
  BY RowsStep
<1> QED
  BY <1>1, RowsInit, PTL DEF Spec

-----------------------------------------------------------------------------
(* Verdicts.                                                               *)

Undecided(r, k) == db.status[k] = "pending" \/ <<"status", k>> \in req[r].over

VerdictPlan(r) ==
  \/ Submission(r, req[r].w)
  \/ \E k \in DOMAIN db.status :
       Undecided(r, k) /\ (Approval(k, req[r].w, req[r].ins) \/ Rejection(k, req[r].w))
  \/ DOMAIN req[r].w \cap Application = {}

\* The account of an application is one that can be asked for, and exists when
\* the application says that it created it.
Created ==
  \A k \in DOMAIN db.status :
    db.asks[k] \in AccountKeys /\ (db.made[k] # None => db.made[k] \in DOMAIN db.active)

VerdictInv ==
  /\ \A r \in Requests : req[r].pc = "open" => VerdictPlan(r)
  /\ Created /\ VerdictsStand

LEMMA VerdictInit == Init => VerdictInv
<1> SUFFICES ASSUME Init PROVE VerdictInv
  OBVIOUS
<1>1. /\ db.asks = FiledFor /\ db.status = [k \in Filed |-> "pending"] /\ db.made = [k \in Filed |-> None]
      /\ \A r \in Requests : req[r].pc = "new"
  BY DEF Init, Fresh
<1>2. \A k \in Filed : FiledFor[k] \in AccountKeys
  BY AccountsAssumption DEF AccountKeys, Audiences
<1> QED
  BY <1>1, <1>2 DEF VerdictInv, Created, VerdictsStand

LEMMA VerdictBegins ==
  ASSUME Rows, VerdictInv, NEW r \in Requests, Starts(r)
  PROVE  VerdictInv'
<1>0. UNCHANGED <<db, mixed>> /\ Plan(r, req'[r].w, req'[r].ins)
  BY DEF Starts
<1>1. VerdictPlan(r)'
  <2> DEFINE w == req'[r].w
  <2> DEFINE ins == req'[r].ins
  <2>1. \/ Submission(r, w)
        \/ \E k \in DOMAIN db.status : Pending(k) /\ (Approval(k, w, ins) \/ Rejection(k, w))
        \/ DOMAIN w \cap Application = {}
    <3> HIDE DEF w, ins
    <3>1. ASSUME \/ SwitchOnly(w) \/ DOMAIN w = {} \/ SignedIn(r, w) \/ Revocation(w) \/ Supply(w, ins)
                 \/ Confirmation(w)
          PROVE  DOMAIN w \cap Application = {}
      BY <3>1 DEF SwitchOnly, SignedIn, Revocation, Supply, Confirmation, Application, Token
    <3>2. ASSUME NEW x, Rotation(r, x, w) \/ Joining(r, x, w) \/ OrgJoining(r, x, w) \/ Relinking(r, x, w)
          PROVE  DOMAIN w \cap Application = {}
      BY <3>2 DEF Rotation, Joining, OrgJoining, Relinking, Application, Token, GroupInvite
    <3>3. Plan(r, w, ins)
      BY <1>0 DEF w, ins
    <3> QED
      BY <3>1, <3>2, <3>3 DEF Plan
  <2>2. CASE Submission(r, w)
    BY <2>2 DEF VerdictPlan, Submission
  <2>3. ASSUME NEW k \in DOMAIN db.status, Pending(k), Approval(k, w, ins) \/ Rejection(k, w)
        PROVE  VerdictPlan(r)'
    BY <1>0, <2>3 DEF VerdictPlan, Approval, Rejection, Pending, Undecided
  <2>4. CASE DOMAIN w \cap Application = {}
    BY <2>4 DEF VerdictPlan
  <2> QED
    BY <2>1, <2>2, <2>3, <2>4
<1>2. ASSUME NEW s \in Requests \ {r}, req'[s].pc = "open" PROVE VerdictPlan(s)'
  <2>1. req'[s] = req[s] /\ VerdictPlan(s)
    BY <1>2 DEF Starts, VerdictInv
  <2> QED
    BY <1>0, <2>1 DEF VerdictPlan, Submission, Approval, Rejection, Undecided
<1> QED
  BY <1>0, <1>1, <1>2 DEF VerdictInv, Created, VerdictsStand

\* A commit writes the columns of the applications in one of three ways.
LEMMA VerdictLands ==
  ASSUME Rows, VerdictInv, NEW r \in Requests, Commit(r)
  PROVE  /\ VerdictsStand' /\ Created'
         /\ \A k \in DOMAIN db.status :
              /\ k \in DOMAIN db'.status /\ db'.asks[k] = db.asks[k]
              /\ db'.status[k] = db.status[k] \/ <<"status", k>> \in Written(req[r].w)
<1> DEFINE w == req[r].w
<1>0. /\ "over" \in DOMAIN req[r] /\ req[r].pc = "open" /\ ~Collides(r)
      /\ mixed' = mixed \cup (Written(w) \cap req[r].over)
      /\ VerdictPlan(r) /\ Created /\ VerdictsStand
  BY Remains DEF Rows, VerdictInv
<1>s. DOMAIN db.status = DOMAIN db.asks /\ DOMAIN db.made = DOMAIN db.asks
  BY DEF Rows, SameRows
<1>c. {"asks", "status", "made", "active"} \subseteq Columns
  BY DEF Columns, Application, Account
<1>a. DOMAIN db.active \subseteq DOMAIN db'.active
  BY <1>c, Lands
<1>n. r \notin DOMAIN db.asks
  BY <1>0 DEF Rows, Named, Application
<1>1. CASE Submission(r, w)
  <2>1. PICK a \in AccountKeys : w = [asks |-> r :> a, status |-> r :> "pending", made |-> r :> None]
    BY <1>1 DEF Submission
  <2>2. /\ DOMAIN w = {"asks", "status", "made"}
        /\ DOMAIN w.asks = {r} /\ w.asks[r] = a /\ DOMAIN w.status = {r} /\ w.status[r] = "pending"
        /\ DOMAIN w.made = {r} /\ w.made[r] = None
    BY <2>1 DEF :>
  <2> HIDE DEF w
  <2>3. /\ DOMAIN db'.status = DOMAIN db.asks \cup {r}
        /\ db'.status[r] = "pending" /\ db'.asks[r] = a /\ db'.made[r] = None
        /\ \A k \in DOMAIN db.asks :
             db'.status[k] = db.status[k] /\ db'.asks[k] = db.asks[k] /\ db'.made[k] = db.made[k]
    BY <1>c, <1>n, <1>s, <2>2, Lands DEF w
  <2> QED
    BY <1>0, <1>a, <1>n, <1>s, <2>3 DEF VerdictsStand, Created
<1>2. ASSUME NEW k \in DOMAIN db.status, Undecided(r, k), Approval(k, w, req[r].ins) PROVE
        /\ VerdictsStand' /\ Created'
        /\ \A j \in DOMAIN db.status :
             /\ j \in DOMAIN db'.status /\ db'.asks[j] = db.asks[j]
             /\ db'.status[j] = db.status[j] \/ <<"status", j>> \in Written(w)
  <2>1. /\ DOMAIN w = {"status", "made", "active"} /\ <<"active", db.asks[k]>> \in req[r].ins
        /\ DOMAIN w.status = {k} /\ w.status[k] = "approved" /\ DOMAIN w.made = {k} /\ w.made[k] = db.asks[k]
        /\ DOMAIN w.active = {db.asks[k]} /\ k \in DOMAIN db.status
    BY <1>2 DEF Approval, :>
  <2>2. <<"status", k>> \in Written(w)
    BY <2>1, WrittenIs
  <2>3. db.asks[k] \notin DOMAIN db.active
    BY <1>0, <2>1 DEF Collides
  <2> HIDE DEF w
  <2>4. /\ DOMAIN db'.status = DOMAIN db.status /\ db'.asks = db.asks
        /\ db'.status[k] = "approved" /\ db'.made[k] = db.asks[k]
        /\ \A j \in DOMAIN db.status \ {k} : db'.status[j] = db.status[j] /\ db'.made[j] = db.made[j]
        /\ db.asks[k] \in DOMAIN db'.active
    <3>1. "status" \in Columns /\ "made" \in Columns /\ "active" \in Columns /\ "asks" \in Columns
      BY <1>c
    <3>2. /\ DOMAIN db'.status = DOMAIN db.status \cup {k} /\ db'.status[k] = "approved"
          /\ \A j \in DOMAIN db.status \ {k} : db'.status[j] = db.status[j]
      BY <2>1, <3>1, Lands DEF w
    <3>3. db'.made[k] = db.asks[k] /\ \A j \in DOMAIN db.made \ {k} : db'.made[j] = db.made[j]
      BY <2>1, <3>1, Lands DEF w
    <3>4. db'.asks = db.asks /\ db.asks[k] \in DOMAIN db'.active
      BY <2>1, <3>1, Lands DEF w
    <3> QED
      BY <1>s, <2>1, <3>2, <3>3, <3>4
  <2>5. db.asks[k] # None /\ \A j \in DOMAIN db.status \ {k} : db.made[j] # db.asks[k]
    BY <1>0, <2>3, AccountsAssumption DEF Created
  <2>6. VerdictsStand'
    <3>1. ASSUME NEW j \in DOMAIN db.status \ {k}, <<"status", j>> \notin mixed'
          PROVE  db'.status[j] = "approved" <=> db'.made[j] # None
      BY <1>0, <2>4, <3>1 DEF VerdictsStand
    <3>2. ASSUME NEW j \in DOMAIN db.status \ {k}, db'.made[j] # None
          PROVE  db'.made[j] = db'.asks[j] /\ \A i \in DOMAIN db.status \ {j} : db'.made[i] # db'.made[j]
      BY <1>0, <2>4, <2>5, <3>2 DEF VerdictsStand
    <3>3. /\ db'.status[k] = "approved" /\ db'.made[k] # None /\ db'.made[k] = db'.asks[k]
          /\ \A i \in DOMAIN db.status \ {k} : db'.made[i] # db'.made[k]
      BY <2>4, <2>5
    <3>4. ASSUME NEW j \in DOMAIN db.status, <<"status", j>> \notin mixed'
          PROVE  db'.status[j] = "approved" <=> db'.made[j] # None
      BY <3>1, <3>3, <3>4
    <3>5. ASSUME NEW j \in DOMAIN db.status, db'.made[j] # None
          PROVE  db'.made[j] = db'.asks[j] /\ \A i \in DOMAIN db.status \ {j} : db'.made[i] # db'.made[j]
      BY <3>2, <3>3, <3>5
    <3>6. DOMAIN db'.status = DOMAIN db.status
      BY <2>4
    <3> QED
      BY <3>4, <3>5, <3>6 DEF VerdictsStand
  <2>7. Created'
    BY <1>0, <1>a, <2>4 DEF Created
  <2> QED
    BY <2>2, <2>4, <2>6, <2>7
<1>3. ASSUME NEW k \in DOMAIN db.status, Undecided(r, k), Rejection(k, w) PROVE
        /\ VerdictsStand' /\ Created'
        /\ \A j \in DOMAIN db.status :
             /\ j \in DOMAIN db'.status /\ db'.asks[j] = db.asks[j]
             /\ db'.status[j] = db.status[j] \/ <<"status", j>> \in Written(w)
  <2>1. DOMAIN w = {"status"} /\ DOMAIN w.status = {k} /\ w.status[k] = "rejected" /\ k \in DOMAIN db.status
    BY <1>3 DEF Rejection, :>
  <2>2. <<"status", k>> \in Written(w)
    BY <2>1, WrittenIs
  <2> HIDE DEF w
  <2>3. /\ DOMAIN db'.status = DOMAIN db.status /\ db'.asks = db.asks /\ db'.made = db.made
        /\ db'.status[k] = "rejected"
        /\ \A j \in DOMAIN db.status \ {k} : db'.status[j] = db.status[j]
    <3>1. "status" \in Columns /\ "made" \in Columns /\ "asks" \in Columns
      BY <1>c
    <3>2. /\ DOMAIN db'.status = DOMAIN db.status \cup {k} /\ db'.status[k] = "rejected"
          /\ \A j \in DOMAIN db.status \ {k} : db'.status[j] = db.status[j]
      BY <2>1, <3>1, Lands DEF w
    <3>3. db'.asks = db.asks /\ db'.made = db.made
      BY <2>1, <3>1, Lands DEF w
    <3> QED
      BY <2>1, <3>2, <3>3
  <2>4. <<"status", k>> \notin mixed' => <<"status", k>> \notin mixed /\ db.status[k] = "pending"
    BY <1>0, <1>3, <2>2 DEF Undecided
  <2>5. VerdictsStand'
    <3>1. ASSUME NEW j \in DOMAIN db.status, <<"status", j>> \notin mixed'
          PROVE  db'.status[j] = "approved" <=> db'.made[j] # None
      <4>1. CASE j = k
        BY <1>0, <2>3, <2>4, <3>1, <4>1 DEF VerdictsStand
      <4>2. CASE j # k
        BY <1>0, <2>3, <3>1, <4>2 DEF VerdictsStand
      <4> QED
        BY <4>1, <4>2
    <3>2. ASSUME NEW j \in DOMAIN db.status, db.made[j] # None
          PROVE  db.made[j] = db.asks[j] /\ \A i \in DOMAIN db.status \ {j} : db.made[i] # db.made[j]
      BY <1>0, <3>2 DEF VerdictsStand
    <3> QED
      BY <2>3, <3>1, <3>2 DEF VerdictsStand
  <2>6. Created'
    BY <1>0, <1>a, <2>3 DEF Created
  <2> QED
    BY <2>2, <2>3, <2>5, <2>6
<1>4. CASE DOMAIN w \cap Application = {}
  <2>1. db'.asks = db.asks /\ db'.status = db.status /\ db'.made = db.made
    BY <1>4, <1>c, Lands DEF Application
  <2> QED
    BY <1>0, <1>a, <2>1 DEF VerdictsStand, Created
<1> QED
  BY <1>0, <1>1, <1>2, <1>3, <1>4 DEF VerdictPlan

LEMMA VerdictStep == ASSUME Rows, VerdictInv, [Next]_vars PROVE VerdictInv'
<1>1. ASSUME NEW r \in Requests, Commit(r) PROVE VerdictInv'
  <2>1. ASSUME NEW s \in Requests, req'[s].pc = "open" PROVE VerdictPlan(s)'
    <3>1. /\ req[s].pc = "open" /\ req'[s].w = req[s].w /\ req'[s].ins = req[s].ins
          /\ req'[s].over = req[s].over \cup Written(req[r].w)
      BY <1>1, <2>1, Remains DEF Rows
    <3>2. VerdictPlan(s)
      BY <3>1 DEF VerdictInv
    <3>3. ASSUME NEW k \in DOMAIN db.status, Undecided(s, k),
                 Approval(k, req[s].w, req[s].ins) \/ Rejection(k, req[s].w)
          PROVE  VerdictPlan(s)'
      <4>1. /\ k \in DOMAIN db'.status /\ db'.asks[k] = db.asks[k]
            /\ db'.status[k] = db.status[k] \/ <<"status", k>> \in Written(req[r].w)
        BY <1>1, VerdictLands
      <4>2. Undecided(s, k)'
        BY <3>1, <3>3, <4>1 DEF Undecided
      <4> QED
        BY <3>1, <3>3, <4>1, <4>2 DEF VerdictPlan, Approval, Rejection
    <3> QED
      BY <3>1, <3>2, <3>3 DEF VerdictPlan, Submission
  <2> QED
    BY <1>1, <2>1, VerdictLands DEF VerdictInv
<1>2. ASSUME NEW r \in Requests, Fail(r) PROVE VerdictInv'
  <2>1. /\ UNCHANGED <<db, mixed>> /\ req'[r].pc = "done"
        /\ \A s \in Requests \ {r} : req'[s] = req[s]
    BY <1>2 DEF Fail, Done, Fresh, Rows
  <2>2. ASSUME NEW s \in Requests, req'[s].pc = "open" PROVE VerdictPlan(s)'
    BY <2>1, <2>2 DEF VerdictInv, VerdictPlan, Submission, Approval, Rejection, Undecided
  <2> QED
    BY <2>1, <2>2 DEF VerdictInv, Created, VerdictsStand
<1>3. CASE UNCHANGED <<db, req, mixed>>
  BY <1>3 DEF VerdictInv, VerdictPlan, Submission, Approval, Rejection, Undecided, Created, VerdictsStand
<1> QED
  BY <1>1, <1>2, <1>3, VerdictBegins, StepCases DEF Rows

\* However the reviews of an application interleave, no two applications have
\* made one account, and approved are just those that have made one, unless two
\* reviews of the application overlapped (profiles/services.py:972-1045).
THEOREM VerdictsHold == Spec => []VerdictsStand
<1>1. Rows /\ VerdictInv /\ [Next]_vars => VerdictInv'
  BY VerdictStep
<1>2. VerdictInv => VerdictsStand
  BY DEF VerdictInv
<1> QED
  BY <1>1, <1>2, RowsHold, VerdictInit, PTL DEF Spec

-----------------------------------------------------------------------------
(* Numbers.                                                                *)

Unclaimed(r, n) == n \in DOMAIN db.claim /\ (db.claim[n] = None \/ <<"claim", n>> \in req[r].over)

NumberPlan(r) ==
  \/ \E n : Joining(r, n, req[r].w) /\ (Unclaimed(r, n) \/ <<"claim", n>> \in req[r].ins)
  \/ Supply(req[r].w, req[r].ins)
  \/ DOMAIN req[r].w \cap {"claim", "number"} = {}

\* A member's number is on the roster; a member is named after its request.
OnRoster == \A m \in DOMAIN db.number : m \in Requests /\ db.number[m] \in DOMAIN db.claim

NumberInv ==
  /\ \A r \in Requests : req[r].pc = "open" => NumberPlan(r)
  /\ OnRoster /\ NumbersClaimedOnce

LEMMA NumberInit == Init => NumberInv
<1> SUFFICES ASSUME Init PROVE NumberInv
  OBVIOUS
<1>1. DOMAIN db.number = {} /\ \A r \in Requests : req[r].pc = "new"
  BY DEF Init, Fresh
<1> QED
  BY <1>1 DEF NumberInv, OnRoster, NumbersClaimedOnce

LEMMA NumberBegins ==
  ASSUME Rows, NumberInv, NEW r \in Requests, Starts(r)
  PROVE  NumberInv'
<1>0. UNCHANGED <<db, mixed>> /\ Plan(r, req'[r].w, req'[r].ins)
  BY DEF Starts
<1>1. NumberPlan(r)'
  <2> DEFINE w == req'[r].w
  <2> DEFINE ins == req'[r].ins
  <2>1. \/ \E n : Joining(r, n, w) /\ (Claimable(n) \/ <<"claim", n>> \in ins)
        \/ Supply(w, ins)
        \/ DOMAIN w \cap {"claim", "number"} = {}
    <3> HIDE DEF w, ins
    <3>1. ASSUME \/ Submission(r, w) \/ SwitchOnly(w) \/ DOMAIN w = {} \/ SignedIn(r, w) \/ Revocation(w)
                 \/ Confirmation(w)
          PROVE  DOMAIN w \cap {"claim", "number"} = {}
      BY <3>1 DEF Submission, SwitchOnly, SignedIn, Revocation, Confirmation, Token
    <3>2. ASSUME NEW x, \/ Approval(x, w, ins) \/ Rejection(x, w) \/ Rotation(r, x, w)
                        \/ OrgJoining(r, x, w) \/ Relinking(r, x, w)
          PROVE  DOMAIN w \cap {"claim", "number"} = {}
      BY <3>2 DEF Approval, Rejection, Rotation, OrgJoining, Relinking, Token, GroupInvite
    <3>3. Plan(r, w, ins)
      BY <1>0 DEF w, ins
    <3> QED
      BY <3>1, <3>2, <3>3 DEF Plan
  <2>2. ASSUME NEW n, Joining(r, n, w), Claimable(n) \/ <<"claim", n>> \in ins
        PROVE  NumberPlan(r)'
    BY <1>0, <2>2 DEF NumberPlan, Joining, Claimable, Unclaimed
  <2>3. CASE Supply(w, ins) \/ DOMAIN w \cap {"claim", "number"} = {}
    BY <2>3 DEF NumberPlan, Supply
  <2> QED
    BY <2>1, <2>2, <2>3
<1>2. ASSUME NEW s \in Requests \ {r}, req'[s].pc = "open" PROVE NumberPlan(s)'
  <2>1. req'[s] = req[s] /\ NumberPlan(s)
    BY <1>2 DEF Starts, NumberInv
  <2> QED
    BY <1>0, <2>1 DEF NumberPlan, Joining, Supply, Unclaimed
<1> QED
  BY <1>0, <1>1, <1>2 DEF NumberInv, OnRoster, NumbersClaimedOnce

LEMMA NumberLands ==
  ASSUME Rows, NumberInv, NEW r \in Requests, Commit(r)
  PROVE  /\ NumbersClaimedOnce' /\ OnRoster'
         /\ \A n \in DOMAIN db.claim :
              n \in DOMAIN db'.claim /\ (db'.claim[n] = db.claim[n] \/ <<"claim", n>> \in Written(req[r].w))
<1> DEFINE w == req[r].w
<1>0. /\ "over" \in DOMAIN req[r] /\ req[r].pc = "open" /\ ~Collides(r)
      /\ mixed' = mixed \cup (Written(w) \cap req[r].over)
      /\ NumberPlan(r) /\ OnRoster /\ NumbersClaimedOnce
  BY Remains DEF Rows, NumberInv
<1>c. "claim" \in Columns /\ "number" \in Columns
  BY DEF Columns, Roster, Profile
<1>n. r \notin DOMAIN db.number
  BY <1>0 DEF Rows, Named
\* Inserted, not overlaid: nobody can have a number that is new to the roster.
<1>i. ASSUME NEW n, <<"claim", n>> \in req[r].ins
      PROVE  n \notin DOMAIN db.claim /\ \A m \in DOMAIN db.number : db.number[m] # n
  <2>1. n \notin DOMAIN db.claim
    BY <1>0, <1>i DEF Collides
  <2> QED
    BY <1>0, <2>1 DEF OnRoster
<1>1. ASSUME NEW n, Joining(r, n, w), Unclaimed(r, n) \/ <<"claim", n>> \in req[r].ins PROVE
        /\ NumbersClaimedOnce' /\ OnRoster'
        /\ \A i \in DOMAIN db.claim :
             i \in DOMAIN db'.claim /\ (db'.claim[i] = db.claim[i] \/ <<"claim", i>> \in Written(w))
  <2>1. /\ {"claim", "number"} \subseteq DOMAIN w
        /\ DOMAIN w.claim = {n} /\ w.claim[n] = r /\ DOMAIN w.number = {r} /\ w.number[r] = n
    BY <1>1 DEF Joining, :>
  <2>2. <<"claim", n>> \in Written(w)
    BY <2>1, WrittenIs
  <2> HIDE DEF w
  <2>3. /\ DOMAIN db'.claim = DOMAIN db.claim \cup {n} /\ db'.claim[n] = r
        /\ \A i \in DOMAIN db.claim \ {n} : db'.claim[i] = db.claim[i]
    BY <1>c, <2>1, Lands DEF w
  <2>4. /\ DOMAIN db'.number = DOMAIN db.number \cup {r} /\ db'.number[r] = n
        /\ \A m \in DOMAIN db.number : db'.number[m] = db.number[m]
    BY <1>c, <1>n, <2>1, Lands DEF w
  <2>5. ASSUME NEW m \in DOMAIN db.number, db.number[m] = n PROVE <<"claim", n>> \in mixed'
    <3>1. Unclaimed(r, n)
      BY <1>1, <1>i, <2>5
    <3>2. CASE <<"claim", n>> \in req[r].over
      BY <1>0, <2>2, <3>2
    <3>3. CASE db.claim[n] = None
      <4>1. db.claim[n] # m
        BY <1>0, <2>5, <3>3, AccountsAssumption DEF OnRoster
      <4> QED
        BY <1>0, <2>5, <4>1 DEF NumbersClaimedOnce
    <3> QED
      BY <3>1, <3>2, <3>3 DEF Unclaimed
  <2>6. ASSUME NEW m \in DOMAIN db.number, <<"claim", db.number[m]>> \notin mixed'
        PROVE  db'.claim[db.number[m]] = m
    <3>1. db.number[m] # n /\ db.number[m] \in DOMAIN db.claim /\ db.claim[db.number[m]] = m
      BY <1>0, <2>5, <2>6 DEF OnRoster, NumbersClaimedOnce
    <3> QED
      BY <2>3, <3>1
  <2>7. NumbersClaimedOnce'
    BY <2>3, <2>4, <2>6 DEF NumbersClaimedOnce
  <2>8. OnRoster'
    BY <1>0, <2>3, <2>4 DEF OnRoster
  <2> QED
    BY <2>2, <2>3, <2>7, <2>8
<1>2. CASE Supply(w, req[r].ins)
  <2>1. "claim" \in DOMAIN w /\ "number" \notin DOMAIN w
    BY <1>2 DEF Supply
  <2>2. \A n \in DOMAIN w.claim : n \notin DOMAIN db.claim
    BY <1>2, <1>i DEF Supply
  <2> HIDE DEF w
  <2>3. DOMAIN db'.claim = DOMAIN db.claim \cup DOMAIN w.claim /\ db'.number = db.number
    BY <1>c, <2>1, Lands DEF w
  <2>4. \A n \in DOMAIN db.claim : db'.claim[n] = db.claim[n]
    BY <1>c, <2>1, <2>2, Lands DEF w
  <2>5. NumbersClaimedOnce'
    BY <1>0, <2>3, <2>4 DEF NumbersClaimedOnce, OnRoster
  <2>6. OnRoster'
    BY <1>0, <2>3 DEF OnRoster
  <2> QED
    BY <2>3, <2>4, <2>5, <2>6
<1>3. CASE DOMAIN w \cap {"claim", "number"} = {}
  <2>1. db'.claim = db.claim /\ db'.number = db.number
    BY <1>3, <1>c, Lands
  <2> QED
    BY <1>0, <2>1 DEF NumbersClaimedOnce, OnRoster
<1> QED
  BY <1>0, <1>1, <1>2, <1>3 DEF NumberPlan

LEMMA NumberStep == ASSUME Rows, NumberInv, [Next]_vars PROVE NumberInv'
<1>1. ASSUME NEW r \in Requests, Commit(r) PROVE NumberInv'
  <2>1. ASSUME NEW s \in Requests, req'[s].pc = "open" PROVE NumberPlan(s)'
    <3>1. /\ req[s].pc = "open" /\ req'[s].w = req[s].w /\ req'[s].ins = req[s].ins
          /\ req'[s].over = req[s].over \cup Written(req[r].w)
      BY <1>1, <2>1, Remains DEF Rows
    <3>2. NumberPlan(s)
      BY <3>1 DEF NumberInv
    <3>3. ASSUME NEW n, Unclaimed(s, n) PROVE Unclaimed(s, n)'
      <4>1. n \in DOMAIN db'.claim /\ (db'.claim[n] = db.claim[n] \/ <<"claim", n>> \in Written(req[r].w))
        BY <1>1, <3>3, NumberLands DEF Unclaimed
      <4> QED
        BY <3>1, <3>3, <4>1 DEF Unclaimed
    <3> QED
      BY <3>1, <3>2, <3>3 DEF NumberPlan, Joining, Supply
  <2> QED
    BY <1>1, <2>1, NumberLands DEF NumberInv
<1>2. ASSUME NEW r \in Requests, Fail(r) PROVE NumberInv'
  <2>1. /\ UNCHANGED <<db, mixed>> /\ req'[r].pc = "done"
        /\ \A s \in Requests \ {r} : req'[s] = req[s]
    BY <1>2 DEF Fail, Done, Fresh, Rows
  <2>2. ASSUME NEW s \in Requests, req'[s].pc = "open" PROVE NumberPlan(s)'
    BY <2>1, <2>2 DEF NumberInv, NumberPlan, Joining, Supply, Unclaimed
  <2> QED
    BY <2>1, <2>2 DEF NumberInv, OnRoster, NumbersClaimedOnce
<1>3. CASE UNCHANGED <<db, req, mixed>>
  BY <1>3 DEF NumberInv, NumberPlan, Joining, Supply, Unclaimed, OnRoster, NumbersClaimedOnce
<1> QED
  BY <1>1, <1>2, <1>3, NumberBegins, StepCases DEF Rows

\* However registrations interleave, the member who has a number is the one who
\* claimed it, and so the only one, unless two requests that both found the
\* number unclaimed overlapped (profiles/services.py:743-774).
THEOREM NumbersHold == Spec => []NumbersClaimedOnce
<1>1. Rows /\ NumberInv /\ [Next]_vars => NumberInv'
  BY NumberStep
<1>2. NumberInv => NumbersClaimedOnce
  BY DEF NumberInv
<1> QED
  BY <1>1, <1>2, RowsHold, NumberInit, PTL DEF Spec

-----------------------------------------------------------------------------
(* Sessions.                                                               *)

Alive(r, t) == t \in DOMAIN db.live /\ (db.live[t] \/ <<"live", t>> \in req[r].over)

SessionPlan(r) ==
  \/ SignedIn(r, req[r].w) \/ Revocation(req[r].w)
  \/ \E t : Alive(r, t) /\ Rotation(r, t, req[r].w)
  \/ DOMAIN req[r].w \cap {"live", "from"} = {}

\* A token was rotated from a token that there is.
FromTokens == \A u \in DOMAIN db.from : db.from[u] \in DOMAIN db.live \cup {None}

SessionInv ==
  /\ \A r \in Requests : req[r].pc = "open" => SessionPlan(r)
  /\ FromTokens /\ SessionsDescend

LEMMA SessionInit == Init => SessionInv
<1> SUFFICES ASSUME Init PROVE SessionInv
  OBVIOUS
<1>1. /\ db.from = [s \in Sessions |-> None] /\ DOMAIN db.live = Sessions
      /\ \A r \in Requests : req[r].pc = "new"
  BY DEF Init, Fresh
<1> QED
  BY <1>1 DEF SessionInv, FromTokens, SessionsDescend

LEMMA SessionBegins ==
  ASSUME Rows, SessionInv, NEW r \in Requests, Starts(r)
  PROVE  SessionInv'
<1>0. UNCHANGED <<db, mixed>> /\ Plan(r, req'[r].w, req'[r].ins)
  BY DEF Starts
<1>1. SessionPlan(r)'
  <2> DEFINE w == req'[r].w
  <2> DEFINE ins == req'[r].ins
  <2>1. \/ SignedIn(r, w) \/ Revocation(w)
        \/ \E t \in DOMAIN db.live : db.live[t] /\ Rotation(r, t, w)
        \/ DOMAIN w \cap {"live", "from"} = {}
    <3> HIDE DEF w, ins
    <3>1. ASSUME \/ Submission(r, w) \/ SwitchOnly(w) \/ DOMAIN w = {} \/ Supply(w, ins) \/ Confirmation(w)
          PROVE  DOMAIN w \cap {"live", "from"} = {}
      BY <3>1 DEF Submission, SwitchOnly, Supply, Confirmation
    <3>2. ASSUME NEW x, \/ Approval(x, w, ins) \/ Rejection(x, w) \/ Joining(r, x, w)
                        \/ OrgJoining(r, x, w) \/ Relinking(r, x, w)
          PROVE  DOMAIN w \cap {"live", "from"} = {}
      BY <3>2 DEF Approval, Rejection, Joining, OrgJoining, Relinking, GroupInvite
    <3>3. Plan(r, w, ins)
      BY <1>0 DEF w, ins
    <3> QED
      BY <3>1, <3>2, <3>3 DEF Plan
  <2>2. CASE SignedIn(r, w) \/ Revocation(w)
    BY <1>0, <2>2 DEF SessionPlan, SignedIn, Revocation
  <2>3. ASSUME NEW t \in DOMAIN db.live, db.live[t], Rotation(r, t, w) PROVE SessionPlan(r)'
    BY <1>0, <2>3 DEF SessionPlan, Rotation, Alive
  <2>4. CASE DOMAIN w \cap {"live", "from"} = {}
    BY <2>4 DEF SessionPlan
  <2> QED
    BY <2>1, <2>2, <2>3, <2>4
<1>2. ASSUME NEW s \in Requests \ {r}, req'[s].pc = "open" PROVE SessionPlan(s)'
  <2>1. req'[s] = req[s] /\ SessionPlan(s)
    BY <1>2 DEF Starts, SessionInv
  <2> QED
    BY <1>0, <2>1 DEF SessionPlan, SignedIn, Revocation, Rotation, Alive
<1> QED
  BY <1>0, <1>1, <1>2 DEF SessionInv, FromTokens, SessionsDescend

LEMMA SessionLands ==
  ASSUME Rows, SessionInv, NEW r \in Requests, Commit(r)
  PROVE  /\ SessionsDescend' /\ FromTokens'
         /\ \A t \in DOMAIN db.live :
              t \in DOMAIN db'.live /\ (db'.live[t] = db.live[t] \/ <<"live", t>> \in Written(req[r].w))
<1> DEFINE w == req[r].w
<1>0. /\ "over" \in DOMAIN req[r] /\ req[r].pc = "open"
      /\ mixed' = mixed \cup (Written(w) \cap req[r].over)
      /\ SessionPlan(r) /\ FromTokens /\ SessionsDescend
  BY Remains DEF Rows, SessionInv
<1>c. "live" \in Columns /\ "from" \in Columns
  BY DEF Columns, Token
<1>n. r \notin DOMAIN db.live /\ r \notin DOMAIN db.from /\ r # None
  BY <1>0, AccountsAssumption DEF Rows, Named, Token
\* A new token: nothing was rotated from it.
<1>1. CASE SignedIn(r, w)
  <2>1. /\ {"live", "from"} \subseteq DOMAIN w
        /\ DOMAIN w.live = {r} /\ DOMAIN w.from = {r} /\ w.from[r] = None
    BY <1>1 DEF SignedIn, Token, :>
  <2> HIDE DEF w
  <2>2. /\ DOMAIN db'.live = DOMAIN db.live \cup {r}
        /\ \A t \in DOMAIN db.live : db'.live[t] = db.live[t]
    BY <1>c, <1>n, <2>1, Lands DEF w
  <2>3. /\ DOMAIN db'.from = DOMAIN db.from \cup {r} /\ db'.from[r] = None
        /\ \A u \in DOMAIN db.from : db'.from[u] = db.from[u]
    BY <1>c, <1>n, <2>1, Lands DEF w
  <2>4. FromTokens'
    BY <1>0, <2>2, <2>3 DEF FromTokens
  <2>5. ASSUME NEW t \in DOMAIN db'.from, NEW u \in DOMAIN db'.from, db'.from[u] = t, t # None,
               <<"live", t>> \notin mixed'
        PROVE  ~db'.live[t] /\ \A v \in DOMAIN db'.from \ {u} : db'.from[v] # t
    <3>1. u \in DOMAIN db.from /\ db.from[u] = t /\ t \in DOMAIN db.live
      BY <1>0, <2>3, <2>5 DEF FromTokens
    <3>2. t \in DOMAIN db.from
      BY <3>1 DEF Rows, SameRows
    <3>3. ~db.live[t] /\ \A v \in DOMAIN db.from \ {u} : db.from[v] # t
      BY <1>0, <2>5, <3>1, <3>2 DEF SessionsDescend
    <3> QED
      BY <2>2, <2>3, <2>5, <3>1, <3>3
  <2> QED
    BY <2>2, <2>4, <2>5 DEF SessionsDescend
<1>2. CASE Revocation(w)
  <2>1. /\ "live" \in DOMAIN w /\ "from" \notin DOMAIN w
        /\ DOMAIN w.live \subseteq DOMAIN db.live /\ \A t \in DOMAIN w.live : w.live[t] = FALSE
    BY <1>2 DEF Revocation
  <2>w. \A t \in DOMAIN w.live : <<"live", t>> \in Written(w)
    BY <2>1, WrittenIs
  <2> HIDE DEF w
  <2>2. /\ DOMAIN db'.live = DOMAIN db.live /\ db'.from = db.from
        /\ \A t \in DOMAIN w.live : db'.live[t] = FALSE
        /\ \A t \in DOMAIN db.live \ DOMAIN w.live : db'.live[t] = db.live[t]
    BY <1>c, <2>1, Lands DEF w
  <2>3. FromTokens'
    BY <1>0, <2>2 DEF FromTokens
  <2>4. DOMAIN db.from = DOMAIN db.live
    BY DEF Rows, SameRows
  <2>5. SessionsDescend'
    BY <1>0, <2>2, <2>4 DEF SessionsDescend
  <2> QED
    BY <2>w, <2>2, <2>3, <2>5 DEF w
\* A rotation of a token that is live still has no rival.
<1>3. ASSUME NEW o, Alive(r, o), Rotation(r, o, w) PROVE
        /\ SessionsDescend' /\ FromTokens'
        /\ \A t \in DOMAIN db.live :
             t \in DOMAIN db'.live /\ (db'.live[t] = db.live[t] \/ <<"live", t>> \in Written(w))
  <2>1. o \in DOMAIN db.live /\ o # r
    BY <1>3, <1>n DEF Alive
  <2>2. /\ {"live", "from"} \subseteq DOMAIN w
        /\ DOMAIN w.live = {r, o} /\ w.live[o] = FALSE /\ DOMAIN w.from = {r} /\ w.from[r] = o
    BY <1>3, <2>1 DEF Rotation, Token, :>, @@
  <2>3. <<"live", o>> \in Written(w)
    BY <2>2, WrittenIs
  <2> HIDE DEF w
  <2>4. /\ DOMAIN db'.live = DOMAIN db.live \cup {r} /\ db'.live[o] = FALSE
        /\ \A t \in DOMAIN db.live \ {o} : db'.live[t] = db.live[t]
    BY <1>c, <1>n, <2>1, <2>2, Lands DEF w
  <2>5. /\ DOMAIN db'.from = DOMAIN db.from \cup {r} /\ db'.from[r] = o
        /\ \A u \in DOMAIN db.from : db'.from[u] = db.from[u]
    BY <1>c, <1>n, <2>2, Lands DEF w
  <2>6. FromTokens'
    BY <1>0, <2>1, <2>4, <2>5 DEF FromTokens
  <2>7. ASSUME NEW u \in DOMAIN db.from, db.from[u] = o, o # None PROVE <<"live", o>> \in mixed'
    <3>1. o \in DOMAIN db.from
      BY <2>1 DEF Rows, SameRows
    <3>2. <<"live", o>> \in mixed \/ ~db.live[o]
      BY <1>0, <2>7, <3>1 DEF SessionsDescend
    <3> QED
      BY <1>0, <1>3, <2>3, <3>2 DEF Alive
  <2>8. ASSUME NEW t \in DOMAIN db'.from, NEW u \in DOMAIN db'.from, db'.from[u] = t, t # None,
               <<"live", t>> \notin mixed'
        PROVE  ~db'.live[t] /\ \A v \in DOMAIN db'.from \ {u} : db'.from[v] # t
    <3>1. CASE t = o
      BY <2>4, <2>5, <2>7, <2>8, <3>1
    <3>2. CASE t # o
      <4>1. u \in DOMAIN db.from /\ db.from[u] = t /\ t \in DOMAIN db.live
        BY <1>0, <2>5, <2>8, <3>2 DEF FromTokens
      <4>2. t \in DOMAIN db.from
        BY <4>1 DEF Rows, SameRows
      <4>3. ~db.live[t] /\ \A v \in DOMAIN db.from \ {u} : db.from[v] # t
        BY <1>0, <2>8, <4>1, <4>2 DEF SessionsDescend
      <4> QED
        BY <2>4, <2>5, <3>2, <4>1, <4>3
    <3> QED
      BY <3>1, <3>2
  <2> QED
    BY <2>3, <2>4, <2>6, <2>8 DEF SessionsDescend
<1>4. CASE DOMAIN w \cap {"live", "from"} = {}
  <2>1. db'.live = db.live /\ db'.from = db.from
    BY <1>4, <1>c, Lands
  <2> QED
    BY <1>0, <2>1 DEF SessionsDescend, FromTokens
<1> QED
  BY <1>0, <1>1, <1>2, <1>3, <1>4 DEF SessionPlan

LEMMA SessionStep == ASSUME Rows, SessionInv, [Next]_vars PROVE SessionInv'
<1>1. ASSUME NEW r \in Requests, Commit(r) PROVE SessionInv'
  <2>1. ASSUME NEW s \in Requests, req'[s].pc = "open" PROVE SessionPlan(s)'
    <3>1. /\ req[s].pc = "open" /\ req'[s].w = req[s].w
          /\ req'[s].over = req[s].over \cup Written(req[r].w)
      BY <1>1, <2>1, Remains DEF Rows
    <3>2. SessionPlan(s)
      BY <3>1 DEF SessionInv
    <3>3. \A t \in DOMAIN db.live :
            t \in DOMAIN db'.live /\ (db'.live[t] = db.live[t] \/ <<"live", t>> \in Written(req[r].w))
      BY <1>1, SessionLands
    <3>4. ASSUME NEW t, Alive(s, t) PROVE Alive(s, t)'
      BY <3>1, <3>3, <3>4 DEF Alive
    <3>5. CASE \E t : Alive(s, t) /\ Rotation(s, t, req[s].w)
      BY <3>1, <3>4, <3>5 DEF SessionPlan, Rotation
    <3>6. CASE SignedIn(s, req[s].w) \/ Revocation(req[s].w) \/ DOMAIN req[s].w \cap {"live", "from"} = {}
      BY <3>1, <3>3, <3>6 DEF SessionPlan, SignedIn, Revocation
    <3> QED
      BY <3>2, <3>5, <3>6 DEF SessionPlan
  <2> QED
    BY <1>1, <2>1, SessionLands DEF SessionInv
<1>2. ASSUME NEW r \in Requests, Fail(r) PROVE SessionInv'
  <2>1. /\ UNCHANGED <<db, mixed>> /\ req'[r].pc = "done"
        /\ \A s \in Requests \ {r} : req'[s] = req[s]
    BY <1>2 DEF Fail, Done, Fresh, Rows
  <2>2. ASSUME NEW s \in Requests, req'[s].pc = "open" PROVE SessionPlan(s)'
    BY <2>1, <2>2 DEF SessionInv, SessionPlan, SignedIn, Revocation, Rotation, Alive
  <2> QED
    BY <2>1, <2>2 DEF SessionInv, FromTokens, SessionsDescend
<1>3. CASE UNCHANGED <<db, req, mixed>>
  BY <1>3 DEF SessionInv, SessionPlan, SignedIn, Revocation, Rotation, Alive, FromTokens, SessionsDescend
<1> QED
  BY <1>1, <1>2, <1>3, SessionBegins, StepCases DEF Rows

\* However refreshes, sign-ins and revocations interleave, a refresh token is
\* rotated once and is not live after, unless two requests that both read it
\* live overlapped (token_service.py:67-112).
THEOREM SessionsHold == Spec => []SessionsDescend
<1>1. Rows /\ SessionInv /\ [Next]_vars => SessionInv'
  BY SessionStep
<1>2. SessionInv => SessionsDescend
  BY DEF SessionInv
<1> QED
  BY <1>1, <1>2, RowsHold, SessionInit, PTL DEF Spec

-----------------------------------------------------------------------------
(* Links.                                                                  *)

\* A link that is going to be opened closes links of its group only, and the
\* link that a member is going to be registered by was open.
Opening(r, g, w) ==
  /\ DOMAIN w = GroupInvite /\ w.group = r :> g
  /\ r \in DOMAIN w.open /\ w.open[r] = TRUE
  /\ \A i \in DOMAIN w.open \ {r} : i \in DOMAIN db.open /\ db.group[i] = g /\ w.open[i] = FALSE

Invited(r, i) == i \in DOMAIN db.open /\ (db.open[i] \/ <<"open", i>> \in req[r].over)

ByLink(r, i, w) == DOMAIN w \cap GroupInvite = {} /\ "by" \in DOMAIN w /\ w.by = r :> i

LinkPlan(r) ==
  \/ \E g \in Groups : Opening(r, g, req[r].w)
  \/ \E i : Invited(r, i) /\ ByLink(r, i, req[r].w)
  \/ DOMAIN req[r].w \cap {"open", "group", "by"} = {}

OneLink ==
  /\ \E i : LinksOf("community") = {i}
  /\ LinksOf("group") # {} => \E i : LinksOf("group") = {i}

LinkInv == OneLink /\ \A r \in Requests : req[r].pc = "open" => LinkPlan(r)

LEMMA LinkInit == Init => LinkInv
<1> SUFFICES ASSUME Init PROVE LinkInv
  OBVIOUS
<1>1. /\ db.open = [i \in {Invite} |-> TRUE] /\ db.group = [i \in {Invite} |-> "community"]
      /\ \A r \in Requests : req[r].pc = "new"
  BY DEF Init, Fresh, :>
<1>2. LinksOf("community") = {Invite} /\ LinksOf("group") = {}
  BY <1>1 DEF LinksOf
<1> QED
  BY <1>1, <1>2 DEF LinkInv, OneLink

LEMMA LinkBegins ==
  ASSUME Rows, LinkInv, NEW r \in Requests, Starts(r)
  PROVE  LinkInv'
<1>0. UNCHANGED db /\ Plan(r, req'[r].w, req'[r].ins)
  BY DEF Starts
<1>1. LinkPlan(r)'
  <2> DEFINE w == req'[r].w
  <2> DEFINE ins == req'[r].ins
  <2>1. \/ \E g \in Groups : Opening(r, g, w)
        \/ \E i : i \in DOMAIN db.open /\ db.open[i] /\ ByLink(r, i, w)
        \/ DOMAIN w \cap {"open", "group", "by"} = {}
    <3> HIDE DEF w, ins
    <3>1. ASSUME \/ Submission(r, w) \/ SwitchOnly(w) \/ DOMAIN w = {} \/ SignedIn(r, w) \/ Revocation(w)
                 \/ Supply(w, ins) \/ Confirmation(w)
          PROVE  DOMAIN w \cap {"open", "group", "by"} = {}
      BY <3>1 DEF Submission, SwitchOnly, SignedIn, Revocation, Supply, Confirmation, Token
    <3>2. ASSUME NEW x, Approval(x, w, ins) \/ Rejection(x, w) \/ Rotation(r, x, w)
          PROVE  DOMAIN w \cap {"open", "group", "by"} = {}
      BY <3>2 DEF Approval, Rejection, Rotation, Token
    <3>3. ASSUME NEW n, Joining(r, n, w), "by" \in DOMAIN w => \E i : OpenLink("community", i) /\ w.by = r :> i
          PROVE  \/ \E i : i \in DOMAIN db.open /\ db.open[i] /\ ByLink(r, i, w)
                 \/ DOMAIN w \cap {"open", "group", "by"} = {}
      <4>1. DOMAIN w \cap GroupInvite = {}
        BY <3>3 DEF Joining, GroupInvite
      <4>2. CASE "by" \in DOMAIN w
        BY <3>3, <4>1, <4>2 DEF OpenLink, LinksOf, ByLink
      <4>3. CASE "by" \notin DOMAIN w
        BY <4>1, <4>3 DEF GroupInvite
      <4> QED
        BY <4>2, <4>3
    <3>4. ASSUME NEW i, OpenLink("group", i), OrgJoining(r, i, w)
          PROVE  i \in DOMAIN db.open /\ db.open[i] /\ ByLink(r, i, w)
      BY <3>4 DEF OpenLink, LinksOf, OrgJoining, ByLink, GroupInvite
    <3>5. ASSUME NEW g \in Groups, Relinking(r, g, w) PROVE Opening(r, g, w)
      BY <3>5 DEF Relinking, Opening, LinksOf, GroupInvite, :>, @@
    <3>6. Plan(r, w, ins)
      BY <1>0 DEF w, ins
    <3> QED
      BY <3>1, <3>2, <3>3, <3>4, <3>5, <3>6 DEF Plan
  <2>2. ASSUME NEW g \in Groups, Opening(r, g, w) PROVE LinkPlan(r)'
    BY <1>0, <2>2 DEF LinkPlan, Opening
  <2>3. ASSUME NEW i \in DOMAIN db.open, db.open[i], ByLink(r, i, w) PROVE LinkPlan(r)'
    BY <1>0, <2>3 DEF LinkPlan, ByLink, Invited
  <2>4. CASE DOMAIN w \cap {"open", "group", "by"} = {}
    BY <2>4 DEF LinkPlan
  <2> QED
    BY <2>1, <2>2, <2>3, <2>4
<1>2. ASSUME NEW s \in Requests \ {r}, req'[s].pc = "open" PROVE LinkPlan(s)'
  <2>1. req'[s] = req[s] /\ LinkPlan(s)
    BY <1>2 DEF Starts, LinkInv
  <2> QED
    BY <1>0, <2>1 DEF LinkPlan, Opening, ByLink, Invited
<1> QED
  BY <1>0, <1>1, <1>2 DEF LinkInv, OneLink, LinksOf

LEMMA LinkLands ==
  ASSUME Rows, LinkInv, NEW r \in Requests, Commit(r)
  PROVE  /\ OneLink' /\ (LinksOf("group") # {} => LinksOf("group")' # {})
         /\ \A m \in DOMAIN db'.by \ DOMAIN db.by :
              db.open[db'.by[m]] \/ <<"open", db'.by[m]>> \in req[m].over
         /\ \A i \in DOMAIN db.open :
              /\ i \in DOMAIN db'.open /\ db'.group[i] = db.group[i]
              /\ db'.open[i] = db.open[i] \/ <<"open", i>> \in Written(req[r].w)
<1> DEFINE w == req[r].w
<1>0. /\ "over" \in DOMAIN req[r] /\ req[r].pc = "open" /\ ~Collides(r) /\ LinkPlan(r) /\ OneLink
  BY Remains DEF Rows, LinkInv
<1>c. "open" \in Columns /\ "group" \in Columns /\ "by" \in Columns
  BY DEF Columns, GroupInvite, OrgMember
<1>n. r \notin DOMAIN db.open /\ DOMAIN db.group = DOMAIN db.open
  BY <1>0 DEF Rows, SameRows, Named, GroupInvite
\* The new link, and no other link of its group: the index sees to that.
<1>1. ASSUME NEW g \in Groups, Opening(r, g, w) PROVE
        /\ OneLink' /\ (LinksOf("group") # {} => LinksOf("group")' # {})
        /\ db'.by = db.by
        /\ \A i \in DOMAIN db.open :
             /\ i \in DOMAIN db'.open /\ db'.group[i] = db.group[i]
             /\ db'.open[i] = db.open[i] \/ <<"open", i>> \in Written(w)
  <2>1. /\ DOMAIN w = {"open", "group"} /\ DOMAIN w.group = {r} /\ w.group[r] = g
        /\ r \in DOMAIN w.open /\ w.open[r] = TRUE
        /\ \A i \in DOMAIN w.open \ {r} : i \in DOMAIN db.open /\ db.group[i] = g /\ w.open[i] = FALSE
    BY <1>1 DEF Opening, GroupInvite, :>
  <2>2. \A i \in LinksOf(g) : i \in DOMAIN w.open
    BY <1>0, <2>1 DEF Collides, SecondLink
  <2>w. \A i \in DOMAIN w.open : <<"open", i>> \in Written(w)
    BY <2>1, WrittenIs
  <2> HIDE DEF w
  <2>3. /\ DOMAIN db'.open = DOMAIN db.open \cup {r} /\ db'.open[r] = TRUE
        /\ \A i \in DOMAIN w.open \ {r} : db'.open[i] = FALSE
        /\ \A i \in DOMAIN db.open \ DOMAIN w.open : db'.open[i] = db.open[i]
    BY <1>c, <2>1, Lands DEF w
  <2>4. /\ db'.group[r] = g /\ \A i \in DOMAIN db.open : db'.group[i] = db.group[i]
        /\ db'.by = db.by
    BY <1>c, <1>n, <2>1, Lands DEF w
  <2>5. LinksOf(g)' = {r}
    BY <2>1, <2>2, <2>3, <2>4 DEF LinksOf
  <2>6. ASSUME NEW h, h # g PROVE LinksOf(h)' = LinksOf(h)
    <3>1. ASSUME NEW i \in DOMAIN db'.open, db'.group[i] = h
          PROVE  i \in DOMAIN db.open /\ db.group[i] = h /\ db'.open[i] = db.open[i]
      BY <2>1, <2>3, <2>4, <2>6, <3>1
    <3>2. ASSUME NEW i \in DOMAIN db.open, db.group[i] = h
          PROVE  i \in DOMAIN db'.open /\ db'.group[i] = h /\ db'.open[i] = db.open[i]
      BY <2>1, <2>3, <2>4, <2>6, <3>2
    <3> QED
      BY <3>1, <3>2 DEF LinksOf
  <2>7. OneLink' /\ (LinksOf("group") # {} => LinksOf("group")' # {})
    <3>1. CASE g = "group"
      <4>1. LinksOf("community")' = LinksOf("community")
        BY <2>6, <3>1
      <4> QED
        BY <1>0, <2>5, <3>1, <4>1 DEF OneLink
    <3>2. CASE g = "community"
      <4>1. LinksOf("group")' = LinksOf("group")
        BY <2>6, <3>2
      <4> QED
        BY <1>0, <2>5, <3>2, <4>1 DEF OneLink
    <3> QED
      BY <3>1, <3>2 DEF Groups
  <2> QED
    BY <2>w, <2>3, <2>4, <2>7
<1>2. ASSUME NEW i, Invited(r, i), ByLink(r, i, w) PROVE
        /\ UNCHANGED <<db.open, db.group>>
        /\ \A m \in DOMAIN db'.by \ DOMAIN db.by :
             db.open[db'.by[m]] \/ <<"open", db'.by[m]>> \in req[m].over
  <2>1. /\ "open" \notin DOMAIN w /\ "group" \notin DOMAIN w /\ "by" \in DOMAIN w
        /\ DOMAIN w.by = {r} /\ w.by[r] = i
    BY <1>2 DEF ByLink, GroupInvite, :>
  <2> HIDE DEF w
  <2>2. UNCHANGED <<db.open, db.group>>
    BY <1>c, <2>1, Lands DEF w
  <2>3. DOMAIN db'.by = DOMAIN db.by \cup {r} /\ db'.by[r] = i
    BY <1>c, <2>1, Lands DEF w
  <2> QED
    BY <1>2, <2>2, <2>3 DEF Invited
<1>3. CASE DOMAIN w \cap {"open", "group", "by"} = {}
  <2>1. UNCHANGED <<db.open, db.group, db.by>>
    BY <1>3, <1>c, Lands
  <2> QED
    BY <1>0, <2>1 DEF OneLink, LinksOf
<1>4. ASSUME UNCHANGED <<db.open, db.group>>
      PROVE  /\ OneLink' /\ (LinksOf("group") # {} => LinksOf("group")' # {})
             /\ \A i \in DOMAIN db.open :
                  /\ i \in DOMAIN db'.open /\ db'.group[i] = db.group[i]
                  /\ db'.open[i] = db.open[i] \/ <<"open", i>> \in Written(w)
  BY <1>0, <1>4 DEF OneLink, LinksOf
<1>5. CASE \E g \in Groups : Opening(r, g, w)
  BY <1>1, <1>5
<1>6. CASE \E i : Invited(r, i) /\ ByLink(r, i, w)
  BY <1>2, <1>4, <1>6
<1> QED
  BY <1>0, <1>3, <1>5, <1>6 DEF LinkPlan

LEMMA LinkStep == ASSUME Rows, LinkInv, [Next]_vars PROVE LinkInv'
<1>1. ASSUME NEW r \in Requests, Commit(r) PROVE LinkInv'
  <2>1. ASSUME NEW s \in Requests, req'[s].pc = "open" PROVE LinkPlan(s)'
    <3>1. /\ req[s].pc = "open" /\ req'[s].w = req[s].w
          /\ req'[s].over = req[s].over \cup Written(req[r].w)
      BY <1>1, <2>1, Remains DEF Rows
    <3>2. LinkPlan(s)
      BY <3>1 DEF LinkInv
    <3>3. \A i \in DOMAIN db.open :
            /\ i \in DOMAIN db'.open /\ db'.group[i] = db.group[i]
            /\ db'.open[i] = db.open[i] \/ <<"open", i>> \in Written(req[r].w)
      BY <1>1, LinkLands
    <3>4. ASSUME NEW i, Invited(s, i) PROVE Invited(s, i)'
      BY <3>1, <3>3, <3>4 DEF Invited
    <3>5. CASE \E g \in Groups : Opening(s, g, req[s].w)
      <4>1. PICK g \in Groups : Opening(s, g, req[s].w)
        BY <3>5
      <4>2. Opening(s, g, req[s].w)'
        BY <3>1, <3>3, <4>1 DEF Opening
      <4> QED
        BY <4>2 DEF LinkPlan
    <3>6. CASE \E i : Invited(s, i) /\ ByLink(s, i, req[s].w)
      BY <3>1, <3>4, <3>6 DEF LinkPlan, ByLink
    <3>7. CASE DOMAIN req[s].w \cap {"open", "group", "by"} = {}
      BY <3>1, <3>7 DEF LinkPlan
    <3> QED
      BY <3>2, <3>5, <3>6, <3>7 DEF LinkPlan
  <2> QED
    BY <1>1, <2>1, LinkLands DEF LinkInv
<1>2. ASSUME NEW r \in Requests, Fail(r) PROVE LinkInv'
  <2>1. UNCHANGED db /\ req'[r].pc = "done" /\ \A s \in Requests \ {r} : req'[s] = req[s]
    BY <1>2 DEF Fail, Done, Fresh, Rows
  <2>2. ASSUME NEW s \in Requests, req'[s].pc = "open" PROVE LinkPlan(s)'
    BY <2>1, <2>2 DEF LinkInv, LinkPlan, Opening, ByLink, Invited
  <2> QED
    BY <2>1, <2>2 DEF LinkInv, OneLink, LinksOf
<1>3. CASE UNCHANGED <<db, req, mixed>>
  BY <1>3 DEF LinkInv, LinkPlan, Opening, ByLink, Invited, OneLink, LinksOf
<1> QED
  BY <1>1, <1>2, <1>3, LinkBegins, StepCases DEF Rows

LEMMA LinksStep ==
  ASSUME Rows, LinkInv, LinkInv', [Next]_vars
  PROVE  /\ Cardinality(LinksOf("community")') = 1
         /\ LinksOf("group") # {} => Cardinality(LinksOf("group")') = 1
         /\ \A m \in DOMAIN db'.by \ DOMAIN db.by :
              db.open[db'.by[m]] \/ <<"open", db'.by[m]>> \in req[m].over
<1>1. /\ LinksOf("group") # {} => LinksOf("group")' # {}
      /\ \A m \in DOMAIN db'.by \ DOMAIN db.by :
           db.open[db'.by[m]] \/ <<"open", db'.by[m]>> \in req[m].over
  <2>1. ASSUME UNCHANGED db PROVE LinksOf("group")' = LinksOf("group") /\ DOMAIN db'.by = DOMAIN db.by
    BY <2>1 DEF LinksOf
  <2> QED
    BY <2>1, StepCases, LinkLands DEF Rows, Starts, Fail
<1>2. (\E i : LinksOf("community")' = {i}) /\ (LinksOf("group")' # {} => \E i : LinksOf("group")' = {i})
  BY DEF LinkInv, OneLink
<1>3. \A i : Cardinality({i}) = 1
  BY FS_Singleton
<1> QED
  BY <1>1, <1>2, <1>3

\* However regenerations and registrations interleave, a group has one open link,
\* and a member comes by a link that was open when the member's request began
\* (profiles/services.py:635-671).
THEOREM LinksCold == Spec => LinksGoCold
<1>1. Rows /\ LinkInv /\ [Next]_vars => LinkInv'
  BY LinkStep
<1>2. Rows /\ LinkInv /\ LinkInv' /\ [Next]_vars =>
        [/\ Cardinality(LinksOf("community")') = 1
         /\ LinksOf("group") # {} => Cardinality(LinksOf("group")') = 1
         /\ \A m \in DOMAIN db'.by \ DOMAIN db.by :
              db.open[db'.by[m]] \/ <<"open", db'.by[m]>> \in req[m].over]_vars
  BY LinksStep
<1> QED
  BY <1>1, <1>2, RowsHold, LinkInit, PTL DEF Spec, LinksGoCold

=============================================================================
