---------------------------- MODULE MemberPipeline ----------------------------
(***************************************************************************)
(* The WhatsApp pipeline of registered members: the webhook claims a       *)
(* message and queues a job (meeting_room/router.py), worker processes run *)
(* the jobs (worker.py, whatsapp/orchestrator.py), each in one database    *)
(* transaction that it commits at the end.  The module follows one org.    *)
(*                                                                         *)
(* What the database makes jobs wait for is explicit: a row that another   *)
(* transaction has inserted under the same unique key and not yet          *)
(* committed.  The concurrency slots are the semaphore of OrgSlots, the    *)
(* member's token counter (ReplyCaps) an input.  arq is external: a job    *)
(* that raised, or whose worker stopped, runs again or is given up.        *)
(***************************************************************************)
EXTENDS Integers, FiniteSets

CONSTANTS
  Messages,   \* messages of the org's members, with non-empty provider ids
  Members,    \* members of the org with a linked phone number
  From,       \* the member that sent each message
  Active,     \* the members that are active
  Jobs,       \* arq jobs
  About,      \* the message that each of them is about
  Slots,      \* max_concurrent_llm_calls_per_org
  Sends,      \* max_concurrent_whatsapp_sends_per_org
  Cap,        \* whatsapp_org_daily_llm_spend_cap_usd, in reservations
  MaxTries,   \* how often arq starts a job
  MaxFaults   \* bound: failures from outside

ASSUME PipelineAssumption ==
  /\ IsFiniteSet(Jobs)
  /\ From \in [Messages -> Members] /\ About \in [Jobs -> Messages] /\ Active \subseteq Members
  /\ Slots \in Nat \ {0} /\ Sends \in Nat \ {0}
  /\ Cap \in Nat /\ MaxTries \in Nat \ {0} /\ MaxFaults \in Nat

VARIABLES
  seen,     \* the claims in Redis (whatsapp:seen:...)
  hooks,    \* messages a webhook request has claimed and not yet queued
  pc,       \* where each job is
  mode,     \* what its cap checks allow: "reply", "over" (token cap) or "skip"
  made,     \* whether its transaction has inserted the conversation
  said,     \* whether it has sent its answer
  tries,    \* how often it was started
  convs,    \* committed: the members with a conversation
  rows,     \* committed: the messages with an inbound row
  sent,     \* answers sent to each message
  lost,     \* those of them whose transaction was rolled back
  spend,    \* whatsapp:spend:{org}:{today}, in reservations
  ran,      \* Gemini call sequences begun today
  carried,  \* jobs that were about to begin theirs at midnight
  faults    \* failures from outside so far

redis == <<seen, spend>>
job == <<pc, mode, made, said, tries>>
db == <<convs, rows>>
wire == <<sent, lost>>
calls == <<ran, carried>>
vars == <<redis, hooks, job, db, wire, calls, faults>>

Modes == {"reply", "over", "skip"}

\* Waiting for a slot, inside it, and the pc after it.
Waiting == {"clarify", "generate", "send"}
Inside(p) == CASE p = "clarify" -> "clarifying" [] p = "generate" -> "generating" [] p = "send" -> "sending"
InLlm == {"clarifying", "generating"}

Recorded == {"notice", "generate", "generating", "send", "sending", "commit"}
Working == {"create", "reserve", "clarify", "clarifying", "record"} \cup Recorded
PCs == {"idle", "queued", "acked", "dropped"} \cup Working

Init ==
  /\ seen = {} /\ hooks = {} /\ spend = 0
  /\ pc = [j \in Jobs |-> "idle"]
  /\ mode = [j \in Jobs |-> "skip"] /\ tries = [j \in Jobs |-> 0]
  /\ made = [j \in Jobs |-> FALSE] /\ said = [j \in Jobs |-> FALSE]
  /\ convs = {} /\ rows = {}
  /\ sent = [m \in Messages |-> 0] /\ lost = [m \in Messages |-> 0]
  /\ ran = 0 /\ carried = 0 /\ faults = 0

Goto(j, p) == pc' = [pc EXCEPT ![j] = p]
Fault == faults < MaxFaults /\ faults' = faults + 1

-----------------------------------------------------------------------------
(* The webhook.                                                            *)

\* SET NX: a message that is already claimed is answered "duplicate".
Claim(m) ==
  /\ m \notin seen
  /\ seen' = seen \cup {m} /\ hooks' = hooks \cup {m}
  /\ UNCHANGED <<spend, job, db, wire, calls, faults>>

Enqueue(m, j) ==
  /\ m \in hooks /\ About[j] = m /\ pc[j] = "idle"
  /\ hooks' = hooks \ {m}
  /\ Goto(j, "queued")
  /\ UNCHANGED <<redis, mode, made, said, tries, db, wire, calls, faults>>

\* The request fails before the job is queued; the claim stays.
HookFails(m) ==
  /\ m \in hooks /\ Fault
  /\ hooks' = hooks \ {m}
  /\ UNCHANGED <<redis, job, db, wire, calls>>

\* whatsapp_idempotency_ttl_seconds after the claim, long after its request.
ClaimExpires(m) ==
  /\ m \in seen \ hooks
  /\ seen' = seen \ {m}
  /\ UNCHANGED <<hooks, spend, job, db, wire, calls, faults>>

-----------------------------------------------------------------------------
(* A job.                                                                  *)

\* The job is Bounced, which ends it, or get_or_create_conversation reads the
\* committed conversations.
Begin(j) ==
  LET w == From[About[j]] IN
  /\ pc[j] = "queued" /\ tries[j] < MaxTries
  /\ tries' = [tries EXCEPT ![j] = @ + 1]
  /\ Goto(j, IF w \notin Active THEN "acked" ELSE IF w \in convs THEN "reserve" ELSE "create")
  /\ UNCHANGED <<redis, hooks, mode, made, said, db, wire, calls, faults>>

\* Mutant: a rolled-back message gives its reservation back, though its calls
\* were made.
MRefund(j) ==
  /\ \E p \in {"queued", "dropped"} : Goto(j, p)
  /\ lost' = IF said[j] THEN [lost EXCEPT ![About[j]] = @ + 1] ELSE lost
  /\ made' = [made EXCEPT ![j] = FALSE] /\ said' = [said EXCEPT ![j] = FALSE]
  /\ spend' = IF mode[j] = "reply" /\ spend > 0 THEN spend - 1 ELSE spend
  /\ UNCHANGED <<seen, hooks, mode, tries, db, sent, calls>>

\* The transaction is rolled back.  arq runs the job again, or not.
RollBack(j) ==
  /\ \E p \in {"queued", "dropped"} : Goto(j, p)
  /\ lost' = IF said[j] THEN [lost EXCEPT ![About[j]] = @ + 1] ELSE lost
  /\ made' = [made EXCEPT ![j] = FALSE] /\ said' = [said EXCEPT ![j] = FALSE]
  /\ UNCHANGED <<redis, hooks, mode, tries, db, sent, calls>>

\* An insert of a conversation waits for a transaction that has inserted one
\* for the same member, and raises IntegrityError if that committed.
CreateConversation(j) ==
  LET w == From[About[j]] IN
  /\ pc[j] = "create" /\ \A k \in Jobs \ {j} : made[k] => From[About[k]] # w
  /\ w \notin convs
  /\ made' = [made EXCEPT ![j] = TRUE] /\ Goto(j, "reserve")
  /\ UNCHANGED <<redis, hooks, mode, said, tries, db, wire, calls, faults>>

Collide(j) ==
  /\ pc[j] = "create" /\ From[About[j]] \in convs
  /\ RollBack(j) /\ UNCHANGED faults

\* Mutant: the reservation itself is not counted in the check.
MRoomInSpend == spend <= Cap

RoomInSpend == spend + 1 <= Cap

\* reserve_org_spend, a Lua script, and then the token check.  A message of a
\* member over the token cap keeps its reservation.
Reserve(j) ==
  /\ pc[j] = "reserve"
  /\ spend' = IF RoomInSpend THEN spend + 1 ELSE spend
  /\ \E over \in BOOLEAN :
       LET m == IF over THEN "over" ELSE IF RoomInSpend THEN "reply" ELSE "skip" IN
         /\ mode' = [mode EXCEPT ![j] = m]
         /\ Goto(j, IF m = "reply" THEN "clarify" ELSE "record")
  /\ UNCHANGED <<seen, hooks, made, said, tries, db, wire, calls, faults>>

Free(p) ==
  IF p = "send" THEN Cardinality({k \in Jobs : pc[k] = "sending"}) < Sends
                ELSE Cardinality({k \in Jobs : pc[k] \in InLlm}) < Slots

EnterSlot(j) ==
  /\ pc[j] \in Waiting /\ Free(pc[j])
  /\ Goto(j, Inside(pc[j]))
  /\ ran' = IF pc[j] = "clarify" THEN ran + 1 ELSE ran
  /\ UNCHANGED <<redis, hooks, mode, made, said, tries, db, wire, carried, faults>>

\* OrgConcurrencyTimeout, which nothing catches on the way to the worker.
SlotTimeout(j) ==
  /\ pc[j] \in Waiting /\ ~Free(pc[j])
  /\ RollBack(j) /\ UNCHANGED faults

\* Clarification and tone, or reply and translation: a ProviderError is
\* caught inside the slot.
LeaveLlm(j) ==
  /\ pc[j] \in InLlm
  /\ Goto(j, IF pc[j] = "clarifying" THEN "record" ELSE "send")
  /\ UNCHANGED <<redis, hooks, mode, made, said, tries, db, wire, calls, faults>>

\* Mutant: a rolled-back transaction keeps its locks.
MHolds(j, m) == About[j] = m /\ pc[j] \in Recorded \cup {"dropped"}

\* The transaction of j holds the uncommitted inbound row of m.
Holds(j, m) == About[j] = m /\ pc[j] \in Recorded

\* append_message for the inbound row, and what follows.
Insert(j) ==
  /\ pc[j] = "record"
  /\ Goto(j, CASE mode[j] = "over" -> "notice" [] mode[j] = "reply" -> "generate" [] OTHER -> "commit")
  /\ UNCHANGED <<redis, hooks, mode, made, said, tries, db, wire, calls, faults>>

\* Mutant: no unique index on provider_message_id.
MRecord(j) == Insert(j)

\* Under its unique index, an insert waits for a transaction that has inserted
\* the same row, and raises IntegrityError if that committed.
Record(j) ==
  /\ \A k \in Jobs \ {j} : ~Holds(k, About[j])
  /\ About[j] \notin rows
  /\ Insert(j)

Duplicate(j) ==
  /\ pc[j] = "record" /\ About[j] \in rows
  /\ RollBack(j) /\ UNCHANGED faults

\* The session-limit notice, or the generated reply from inside its slot, and
\* its outbound row.
Send(j) ==
  /\ pc[j] \in {"notice", "sending"}
  /\ Goto(j, "commit")
  /\ sent' = [sent EXCEPT ![About[j]] = @ + 1] /\ said' = [said EXCEPT ![j] = TRUE]
  /\ UNCHANGED <<redis, hooks, mode, made, tries, db, lost, calls, faults>>

\* The commit, after which arq hears that the job is done: or does not, the
\* worker having stopped, and runs it again.
Commit(j) ==
  /\ pc[j] = "commit"
  /\ rows' = rows \cup {About[j]}
  /\ convs' = IF made[j] THEN convs \cup {From[About[j]]} ELSE convs
  /\ made' = [made EXCEPT ![j] = FALSE] /\ said' = [said EXCEPT ![j] = FALSE]
  /\ \/ Goto(j, "acked") /\ UNCHANGED faults
     \/ Goto(j, "queued") /\ Fault
  /\ UNCHANGED <<redis, hooks, mode, tries, wire, calls>>

\* A database or Redis error, or a worker that stops.
Crash(j) == pc[j] \in Working /\ Fault /\ RollBack(j)

\* arq does not start a job more often than this.
GiveUp(j) ==
  /\ pc[j] = "queued" /\ tries[j] = MaxTries
  /\ Goto(j, "dropped")
  /\ UNCHANGED <<redis, hooks, mode, made, said, tries, db, wire, calls, faults>>

\* Jobs with a reservation that have not made their first call.
Pending == {j \in Jobs : pc[j] = "clarify"}

\* window_date moves on: the counter of the new day is 0.
Midnight ==
  /\ spend' = 0 /\ ran' = 0 /\ carried' = Cardinality(Pending)
  /\ UNCHANGED <<seen, hooks, job, db, wire, faults>>

Step(j) ==
  \/ Begin(j) \/ CreateConversation(j) \/ Collide(j)
  \/ Reserve(j) \/ EnterSlot(j) \/ SlotTimeout(j) \/ LeaveLlm(j) \/ Record(j) \/ Duplicate(j)
  \/ Send(j) \/ Commit(j) \/ GiveUp(j)

Next ==
  \/ \E m \in Messages : Claim(m) \/ HookFails(m) \/ ClaimExpires(m) \/ \E j \in Jobs : Enqueue(m, j)
  \/ \E j \in Jobs : Step(j) \/ Crash(j)
  \/ Midnight

Spec == Init /\ [][Next]_vars

\* arq's workers keep running their jobs.
FairSpec == Spec /\ \A j \in Jobs : WF_vars(Step(j))

-----------------------------------------------------------------------------
TypeOK ==
  /\ seen \subseteq Messages /\ hooks \subseteq seen
  /\ pc \in [Jobs -> PCs] /\ mode \in [Jobs -> Modes]
  /\ made \in [Jobs -> BOOLEAN] /\ said \in [Jobs -> BOOLEAN]
  /\ tries \in [Jobs -> 0 .. MaxTries]
  /\ convs \subseteq Members /\ rows \subseteq Messages
  /\ sent \in [Messages -> Nat] /\ lost \in [Messages -> Nat]
  /\ spend \in 0 .. Cap /\ ran \in Nat /\ carried \in Nat /\ faults \in 0 .. MaxFaults

\* However often a message is delivered, claimed, queued and retried, every
\* answer to it beyond the first replaces one whose transaction was rolled
\* back after the send.
RepeatsOnlyLostAnswers == \A m \in Messages : sent[m] <= 1 + lost[m]

\* The call sequences of a day are at most the cap and those that had their
\* reservation, and had not begun, when the day began.
DailyCalls == ran <= Cap + carried

\* Every job that is queued comes to an end: jobs that wait for each other's
\* rows and slots do not wait forever.
JobsEnd == \A j \in Jobs : pc[j] = "queued" ~> pc[j] \in {"acked", "dropped"}

=============================================================================
