-------------------------------- MODULE Credits --------------------------------
(***************************************************************************)
(* Credit: the profile accounts of the identities, from which groups fund  *)
(* what is below them and paid actions are charged (profiles/services.py,  *)
(* gate_service.py), and the accounts of rooms and their agents, which     *)
(* show what the platform itself spends (spend_service.py).  Every change  *)
(* of a balance is also an entry of the append-only ledger.                *)
(*                                                                         *)
(* A request is one transaction in READ COMMITTED: it loads balances       *)
(* without a lock, changes them in memory and writes the results at a      *)
(* flush, which locks the rows it writes until the commit.                 *)
(***************************************************************************)
EXTENDS Integers, FiniteSets

CONSTANTS
  Profiles,   \* accounts of identities
  Below,      \* the pairs of them of which the second is the first or under it
  Office,     \* the account of the client who is signed in
  Caps,       \* effective_credit_cap, where there is one
  Rooms,      \* accounts of rooms
  Agents,     \* sub-accounts of agents
  RoomOf,     \* the room of each agent
  Rank,       \* the order in which a flush writes rows
  Opening,    \* balances at the start, each explained by the ledger
  Amounts,    \* bound: amounts of one operation
  Spends,     \* bound: spends of one transaction
  Requests    \* bound: the requests

Accounts == Profiles \cup Rooms \cup Agents

ASSUME CreditsAssumption ==
  /\ Profiles \cap Rooms = {} /\ Profiles \cap Agents = {} /\ Rooms \cap Agents = {}
  /\ Below \subseteq Profiles \X Profiles /\ Office \in Profiles /\ DOMAIN Caps \subseteq Profiles
  /\ \A a \in DOMAIN Caps : Caps[a] \in Nat
  /\ RoomOf \in [Agents -> Rooms]
  /\ Rank \in [Accounts -> Nat] /\ \A a, b \in Accounts : Rank[a] = Rank[b] => a = b
  /\ Opening \in [Profiles -> Nat]
  /\ Amounts \subseteq Nat /\ Spends \in Nat

VARIABLES
  rows,     \* committed: the accounts that have a row
  balance,  \* committed: their balances
  entered,  \* committed: the sum of each account's ledger entries
  req,      \* the requests
  mixed     \* history: accounts written by one request while another had them loaded

creditsVars == <<rows, balance, entered, req, mixed>>

Zero == [a \in Accounts |-> 0]

\* seen: balances as loaded; delta: what it has added to them; posts: the sums
\* of its ledger entries; fresh: rows it inserts; need, held: rows it has yet to
\* write, and those it has locked; left: spends still to come; over: accounts
\* that others have written since it began.
Idle == [pc |-> "new", seen |-> Zero, delta |-> Zero, posts |-> Zero, fresh |-> {},
         need |-> {}, held |-> {}, left |-> 0, over |-> {}]
Ended == [Idle EXCEPT !.pc = "done"]

CreditsInit ==
  /\ rows = Profiles
  /\ balance = [a \in Accounts |-> IF a \in Profiles THEN Opening[a] ELSE 0]
  /\ entered = [a \in Accounts |-> IF a \in Profiles THEN Opening[a] ELSE 0]
  /\ req = [r \in Requests |-> Idle]
  /\ mixed = {}

Changed(d) == {a \in Accounts : d[a] # 0}

\* ensure_room_account and ensure_agent_sub_account: the rows it has to insert.
Missing(d) == Changed(d) \ rows

\* An operation that changes the loaded balances by d in memory and writes
\* entries that come to e; more: the spends that may still follow.
Begin(r, d, e, more) ==
  /\ req[r].pc = "new"
  /\ req' = [req EXCEPT ![r] = [Idle EXCEPT !.pc = "open", !.seen = balance, !.delta = d,
                                            !.posts = e, !.fresh = Missing(d),
                                            !.need = Changed(d), !.left = more]]
  /\ UNCHANGED <<rows, balance, entered, mixed>>

Added(d, a, n) == [d EXCEPT ![a] = @ + n]

\* fund_identity
Fund(r, a, n) == n > 0 /\ Begin(r, Added(Zero, a, n), Added(Zero, a, n), 0)

\* From one account to another; to itself it changes nothing, because the
\* session has one object per row.
Moved(a, b, n) == Added(Added(Zero, a, -n), b, n)

Transferable(a, b, n) ==
  /\ n > 0 /\ <<a, b>> \in Below
  /\ balance[a] >= n
  /\ b \in DOMAIN Caps => balance[b] + n <= Caps[b]

\* Mutant: only the recipient's entry is written.
TransferOneEntry(r, a, b, n) == Transferable(a, b, n) /\ Begin(r, Moved(a, b, n), Added(Zero, b, n), 0)

\* transfer_credit, with an entry for either side.
Transfer(r, a, b, n) == Transferable(a, b, n) /\ Begin(r, Moved(a, b, n), Moved(a, b, n), 0)

\* Mutant: no look at the balance.
ChargeBlindly(r, a, n) == Begin(r, Added(Zero, a, -n), Added(Zero, a, -n), 0)

\* check_and_charge, for an identity that is registered: free at no cost.
Charge(r, a, n) == balance[a] >= n /\ Begin(r, Added(Zero, a, -n), Added(Zero, a, -n), 0)

\* An account without a row starts with a balance of 0, which is what balance is
\* for it.  Nothing in the code calls fund_room_account.
FundRoom(r, m, n) == n > 0 /\ Begin(r, Added(Zero, m, n), Added(Zero, m, n), 0)

\* record_spend, whose one entry names the agent and its room.
Spent(d, g, n) == Added(Added(d, g, -n), RoomOf[g], -n)

\* The first spend of a transaction, with up to more of them to come: a webhook
\* request records one for every message of its payload that it answers.
Spend(r, g, n, more) == n > 0 /\ Begin(r, Spent(Zero, g, n), Spent(Zero, g, n), more)

Again(r, g, n, e) ==
  /\ req[r].pc = "open" /\ req[r].need = {} /\ req[r].left > 0
  /\ n > 0 /\ req[r].delta[g] # 0
  /\ req' = [req EXCEPT ![r].delta = Spent(@, g, n), ![r].posts = e, ![r].left = @ - 1]
  /\ UNCHANGED <<rows, balance, entered, mixed>>

\* Mutant: a request writes the entry of its first spend only.
SpendAgainUnposted(r, g, n) == Again(r, g, n, req[r].posts)

\* A further one: the session holds the two rows already.
SpendAgain(r, g, n) == Again(r, g, n, Spent(req[r].posts, g, n))

\* Mutant: rows are written in any order.
FollowingAny(r) == req[r].need

\* Inserts are flushed when an account is looked up, before the updates; each
\* flush writes its rows one after the other, in the order of their keys.
Following(r) ==
  LET now == IF req[r].need \cap req[r].fresh # {} THEN req[r].need \cap req[r].fresh ELSE req[r].need
  IN  {a \in now : \A b \in now : Rank[a] <= Rank[b]}

\* Mutant: nothing is locked.
FreeAlways(r, a) == TRUE

Free(r, a) == \A q \in Requests \ {r} : a \notin req[q].held

Write(r) ==
  /\ \E a \in Following(r) :
       /\ Free(r, a) /\ ~(a \in req[r].fresh /\ a \in rows)
       /\ req' = [req EXCEPT ![r].need = @ \ {a}, ![r].held = @ \cup {a}]
  /\ UNCHANGED <<rows, balance, entered, mixed>>

RollBack(r) ==
  /\ req' = [req EXCEPT ![r] = Ended]
  /\ UNCHANGED <<rows, balance, entered, mixed>>

\* The row it inserts has been inserted in the meantime: IntegrityError.
Collide(r) == (\E a \in Following(r) : Free(r, a) /\ a \in req[r].fresh /\ a \in rows) /\ RollBack(r)

\* The route's commit: the rows it wrote and its entries.
Commit(r) ==
  LET q == req[r]
      wrote == Changed(q.delta)
  IN  /\ q.pc = "open" /\ q.need = {}
      /\ rows' = rows \cup wrote
      /\ balance' = [a \in Accounts |-> IF a \in wrote THEN q.seen[a] + q.delta[a] ELSE balance[a]]
      /\ entered' = [a \in Accounts |-> entered[a] + q.posts[a]]
      /\ mixed' = mixed \cup (wrote \cap q.over)
      /\ req' = [s \in Requests |->
                   CASE s = r -> Ended
                     [] s # r /\ req[s].pc = "open" -> [req[s] EXCEPT !.over = @ \cup wrote]
                     [] OTHER -> req[s]]

\* Any failure before the commit.
Fail(r) == req[r].pc = "open" /\ RollBack(r)

\* The routes of the staff.
ByStaff(r) == \E n \in Amounts, a \in Profiles :
  Fund(r, a, n) \/ \E b \in Profiles : Transfer(r, a, b, n)

\* The routes of a client: both ends are in the client's scope.
ByClient(r) == \E n \in Amounts, a \in {x \in Profiles : <<Office, x>> \in Below} :
  Fund(r, a, n) \/ \E b \in {x \in Profiles : <<Office, x>> \in Below} : Transfer(r, a, b, n)

\* The gate before an action, and the records of what an agent has spent.
ByAgent(r) == \E n \in Amounts :
  \/ \E a \in Profiles : Charge(r, a, n)
  \/ \E g \in Agents, more \in 0..Spends : Spend(r, g, n, more)
  \/ \E g \in Agents : SpendAgain(r, g, n)

Progress(r) == Write(r) \/ Collide(r) \/ Commit(r)

CreditsNext == \E r \in Requests :
  \/ ByStaff(r)
  \/ ByClient(r)
  \/ ByAgent(r)
  \/ \E m \in Rooms, n \in Amounts : FundRoom(r, m, n)
  \/ Progress(r)
  \/ Fail(r)

\* The server goes on with a request that it has begun.
CreditsSpec == CreditsInit /\ [][CreditsNext]_creditsVars /\ \A r \in Requests : WF_creditsVars(Progress(r))

---------------------------------------------------------------------------

Request == [pc : {"new", "open", "done"}, seen : [Accounts -> Int], delta : [Accounts -> Int],
            posts : [Accounts -> Int], fresh : SUBSET Accounts, need : SUBSET Accounts, held : SUBSET Accounts,
            left : Nat, over : SUBSET Accounts]

\* The balances and sums are numbers for every account, and a request never
\* holds a row that another one holds.
CreditsTypeOK ==
  /\ rows \subseteq Accounts /\ mixed \subseteq Accounts
  /\ balance \in [Accounts -> Int] /\ entered \in [Accounts -> Int]
  /\ req \in [Requests -> Request]
  /\ \A r, s \in Requests : r # s => req[r].held \cap req[s].held = {}

\* "Every token movement writes one row" (core/models/ledger.py): the entries
\* of an account explain its balance, unless two requests that changed it have
\* overlapped (profiles/services.py:542, spend_service.py:84).
Explained == \A a \in Accounts \ mixed : balance[a] = entered[a]

\* No overlap drives an identity's balance below 0: the check before a charge
\* or a transfer and the value it writes come from the same load.
NeverNegative == \A a \in Profiles : balance[a] >= 0

\* Overlapping spends lose some of each other, and never invent any: an agent's
\* account shows at most what its entries say was spent.
SpendIsNeverOverstated == \A g \in Agents : balance[g] >= entered[g]

\* Rows are written in one order everywhere, so requests wait for each other's
\* rows but not in a circle: whatever has begun ends.
RequestsEnd == \A r \in Requests : req[r].pc = "open" ~> req[r].pc = "done"

=============================================================================
