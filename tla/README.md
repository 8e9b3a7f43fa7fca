# Unific: a verification development

TLA+ modules, TLC configurations and TLAPS proofs about the backend of Unific
(`src/platform/backend/app`, called `app/` below): a FastAPI process, an arq
worker, Postgres and Redis, behind a WhatsApp community agent and a meeting
room with live translation.  The reference is the code; where its comments or
docs promise something the code does not do, section 4 lists the sentence.

## 1. Inventory

| Component | Code (under `app/`) | State | Operations | Hard behaviour |
|---|---|---|---|---|
| WhatsApp community session | `agents/whatsapp_community/session_store.py`, `flush_service.py`, `scheduler.py` | Redis: session hash, turn list, `wa:pending_flush`, key expiries; Postgres: `Message` rows | ensure_session, append_turn, append_turn_if_session_active, flush_identity, flush_all_sessions, clear_session | every Redis command is an await; the nightly and the admin flush run beside webhook handlers; crash between commit and clear; keys that expire while a flush is due |
| Daily caps of the community agent | `agents/whatsapp_community/orchestrator.py`, `providers/gemini_*.py` | Redis counters per identity and UTC date | receive_inbound_message, generate_and_send_reply, the Gemini calls | a counter is read, acted on, and only then incremented; midnight changes the key in between |
| Webhook | `meeting_room/router.py:72-185` | Redis claim per provider message id, webhook log | claim, dispatch to the old or the new pipeline | the claim is taken before the work is done; redelivery after a failure |
| New WhatsApp pipeline | `whatsapp/`, `worker.py` | arq queue, Redis org spend counter and slots, `whatsapp.message` rows | process_inbound_whatsapp_message, reserve_org_spend, org_concurrency_slot | jobs that fail or restart after a send; a budget reserved up front; a semaphore with expiring holders |
| Meetings (identity tree) | `meeting_room/services.py:425-1133` | `meeting`, participant and invite rows, LiveKit rooms | schedule, add participant, join (staff, client, public, open invite), retry translation, end, delete | joins and ends read the row, await, and write; invitations leave before the commit; the translation agent is process memory |
| Meetings (orgs) | `meetings/` | `meetings.meeting` rows, Redis zset of active sessions | as above, with entitlement and a global slot | a slot reserved by a TTL shorter than a meeting can be; two joins that both see `scheduled` |
| Conversations | `meeting_room/services.py:62-399` | conversation, message, report and link rows | initiate_comms_room, send_manual_reply, generate_report, link_phone_number | a reply is sent, and mirrored to Redis, before its row is committed; nothing in the database makes a conversation unique |
| Live translation agents | `meeting_room/live_agents/` | `_running`, one task per meeting, caption sessions, dubbing pipelines, the participants' attributes | start_for_meeting, stop_for_meeting, crash callback, the room's callbacks, supervision, relay, reports | a task that dies by itself; a stop that waits; callbacks between any two awaits and during the teardown; shared semaphores |
| Credits ledger, gate, spend | `core/services/spend_service.py`, `gate_service.py`, `profiles/services.py:478-624` | balances of identities, rooms and agents, append-only ledger rows | charge, fund, transfer, record_spend | read-modify-write without a lock; row locks held over calls to the outside |
| Identity tree and permissions | `profiles/services.py:65-477`, `core/services/scope_service.py`, `tools_service.py` | identities with materialised paths, own and effective settings | create, move, deactivate, update own permission, select a tool, recompute | narrowing must survive every move; concurrent recomputes |
| Registration, accounts, sign-in | `profiles/services.py:635-1045`, `orgs/services.py`, `auth/router.py`, `core/services/token_service.py` | applications, accounts, rosters, members, registration links, refresh tokens, login attempts | submit, approve, reject, open, switch, sign in, refresh, log out, register, regenerate | requests that have both checked; rotation of tokens and links |
| Plugins, archive, tasking, audit, webhook log | `plugins/`, `core/services/*`, `tasking/` | rows | grant, record, submit | single-row writes |
| Accounts room | `accounts/` | records kept by hand | create, list | not concurrent |
| Providers, rate limiting | `core/providers/`, `core/rate_limit.py` | none | calls to outside services | external |
| Frontend | `src/platform/frontend` | browser state | views | outside this development |

What makes each of them correct, in a line: sessions keep a turn
for as long as they say and insert it once per flush at most; caps are overrun by a known amount at most; a message is answered
once, or its second answer is explained; slots hold a limit whatever dies; an
agent lives exactly as long as its meeting, and its sessions follow who is in
the room; what people were told is what is written down; balances equal the
sum of their ledger rows; an effective permission is never wider than the
parent's; an application has one verdict, a number one member, a token one
successor, a link that was regenerated lets nobody in.

## 2. Plan

Done, in this order: `CommunitySession`, `ReplyCaps`, `Semaphore` and
`OrgSlots`, `MemberPipeline`, `LiveMeetings`, each with its proofs;
`IdentityTree`; `Credits`, with its proofs; `Accounts`, `AgentRoom` and `Desk`,
which were model-checked first like `IdentityTree`; then the proofs about
`Accounts` and about `IdentityTree` (its paths, its deactivations, and last the
permission cascade), those of what the flushes may lose and of the slots
that ended meetings keep, those about `AgentRoom`, and those about `Desk`.

Left: what section 7 lists as left out of the modelled components, as far as it
has a protocol: the bridge between the active speaker and the dubbing pipelines.

## 3. Modules and code

| Module | Code (under `app/`) | Its state | Its actions |
|---|---|---|---|
| `CommunitySession` | `agents/whatsapp_community/session_store.py`, `flush_service.py`, `scheduler.py`, and what the handlers of `orchestrator.py` and `send_manual_reply` append | the Redis keys with their expiries (`sess`, `msgs`, `pending`), committed `rows`, the program point of every writer and flush | one per Redis command or commit |
| `ReplyCaps` | `agents/whatsapp_community/orchestrator.py`, `providers/gemini_*.py` | the two counters of an identity and day, each handler's point and `over_token_cap` | one per call that is metered or counted |
| `Semaphore` | what `config.py` promises of `max_concurrent_*_per_org` | who is inside | `Enter`, `Leave` |
| `OrgSlots` | `whatsapp/session_store.py:114-183` | the sorted set with the ages of its holders and the key's expiry; each job's phase and timer | the Lua script (`Acquire`, `Refused`), the finally block (`Release`), `Die`, `Tick` |
| `MemberPipeline` | `meeting_room/router.py:118-185`, `worker.py`, `whatsapp/orchestrator.py`, `services.py`, `models.py`, the claim and the spend counter of `session_store.py` | claims and the spend counter in Redis; each job's point, mode and uncommitted rows; committed rows; answers sent and those whose transaction was lost | one per await that another actor can see |
| `LiveMeetings` | `meeting_room/services.py:816-1133`, `meetings/services.py:217-410`, `meetings/session_store.py`, `live_agents/orchestrator.py:255-329`, `status.py` | the committed row of each meeting, `_running`, the slots, crash reports on their way, and what each request has read | from one await of a request to the next |
| `IdentityTree` | `profiles/services.py:65-477`, `core/services/scope_service.py`, `core/services/tools_service.py`, the routes of `profiles/router.py` | the committed columns of `identity`, `permission` and the selections, as functions of the id (`db`); what each request will write (`req`) | one per request up to its writes, one for its commit; a move in three steps, as its reads and its UPDATE are apart |
| `Credits` | `profiles/services.py:478-624`, `core/services/gate_service.py`, `spend_service.py`, `core/models/ledger.py`, `room_account.py` | committed balances and the sums of their ledger rows; each request's loaded balances, changes, rows to insert, rows it has locked | begin and further spends, the write of one row, the commit, a rollback |
| `Accounts` | `profiles/services.py:635-1045` and its routes, `orgs/services.py`, `auth/router.py`, `core/services/token_service.py`, `core/security/`, `staff_directory/services.py` | the committed rows of applications, accounts, rosters, members, links and tokens; failed sign-ins; what each request will write | one per route, its commit or its failure, and time |
| `AgentRoom` | `meeting_room/live_agents/` but for the registry | who is in the room with which attributes; every session and pipeline there has been; semaphores; report tasks; one text on its way | one per callback of the room and per stretch between two awaits |
| `Desk` | `meeting_room/services.py`, `meeting_room/router.py`, `meetings/services.py`, and their models | the committed rows of meetings, participants, invites, events, conversations, messages, reports, links; LiveKit rooms; what was handed to WhatsApp | a request's reads and checks, its inserts and calls, its commit, its refusal by the database, its failure |

How they fit: `MemberPipeline` uses the slots as the semaphore that `OrgSlots`
is shown to implement for holders within their TTL (one that overruns it adds to
the jobs inside and to nothing else that the pipeline's properties mention), and
the member's token counter, whose behaviour is `ReplyCaps`, as an input.  `CommunitySession` leaves
open whether a reply is sent, which `ReplyCaps` decides.  The two pipelines meet
only in the claim of the webhook.  `Desk` has the rows of meetings and
conversations; `LiveMeetings` has the agent that joins and ends start and stop,
`AgentRoom` what it does between the two, and `CommunitySession` the turns that a
manual reply and a flush have in common.  `Accounts` and `Credits` take the tree
and its paths as given, and `IdentityTree` takes of the links only whether a
group has one.

Points where the models take care:

* *Awaits.*  The backend is one event loop: what happens between two awaits is
  one step, every awaited Redis command, provider call and commit is a point
  where another handler can run.
* *Transactions.*  Webhook and job commit once, at the end; an exception rolls
  back what they did in Postgres and nothing of what they did in Redis or sent.
  Postgres makes an insert wait for an uncommitted row under the same unique key
  (`CreateConversation`, `Record`), and fail when that row commits (`Collide`,
  `Duplicate`).
* *ORM.*  `LiveMeetings` keeps the row a request has read (`was`, `wasActive`):
  SQLAlchemy's UPDATE sets the columns the request changed, as compared with
  what it had read, and no others.
* *Requests over the database.*  In `IdentityTree`, `Credits`, `Accounts` and
  `Desk` a request reads and checks in one step and its writes appear in another,
  over whatever has been committed in between (READ COMMITTED, no
  SELECT ... FOR UPDATE anywhere in the code).  Two reads of one request between
  which another commits are not told apart, but where a move is concerned, whose
  two reads of a path matter.  Unique keys, foreign keys and locks of rows that
  were written are what stops a request: `Collides`, `Clashes`, `Stale`, `Free`,
  `HeldBy`.
* *History.*  Overlaps are recorded (`clash`, `mixed`, `muddled`), and a property
  that only holds without one names it: what is left is a statement about every
  request that does not overlap, and about every pair that does and yet is safe.
* *Clocks.*  `OrgSlots` compares scores written by one worker's clock with the
  time of another's: `Offset`, at most `Skew`.
* *External.*  arq is modelled by what `worker.py` expects of it: a job that
  raised or whose worker stopped is run again, up to `MaxTries` times, or is
  given up.  Which of the two it does to a job that raised is left open; a job
  whose worker is shut down is run again by arq in any case.

## 4. Runs

Passing:

| Run | What it shows | Bounds, and why they are enough |
|---|---|---|
| `SessionFlush` | duplicates are bounded by overlapping flushes and failures; mirrored manual replies are never inserted by a flush; only a failure strands turns; a turn without a row is lost before its promised expiry only by trimming, or in the window between a flush's read and its clear | a handler with both its turns, a manual reply, the nightly and an admin flush, one failure: every pair of the module's actors, and two flushes that overlap; `FlushAt = Buffer`, as by the code's defaults; three turns against `Keep = 2`, so that lists are trimmed: 3.2 million states |
| `SessionDrains` | every mark is taken off again | the same without the admin's flush, which may never come |
| `ReplyCaps` | the reply cap is overrun by at most the handlers at work but one, and one per failure; the token cap by at most the calls of one message per handler | three handlers and a cap of one: all but one overrun it |
| `Slots` | however long holders overrun and whoever dies, the sorted set is a semaphore whose places are kept for the TTL less the skew; every wait ends, dead holders' slots return | four jobs for two slots, two clocks a tick apart, TTL 3, a job that stays for the whole TTL and is pruned |
| `Pipeline` | an answer is repeated only when an earlier one was rolled back; a day's call sequences are within the cap; jobs that wait for each other's rows and slots all end | the first message of a member, queued twice, so that conversation and message both collide; two tries of each job, two failures, one slot, cap 1 |
| `MeetingsApart` | where requests about a meeting do not overlap, no agent outlives it | one meeting of each room, two requests at once, one failure of any kind |
| `MeetingsSlots` | admitted agents are within the limit; each slot kept by an ended meeting cost a failure | two org meetings for one slot, two requests, one failure |
| `Tree` | rights and tools go wrong only after two cascading requests other than two creations have overlapped; paths only after a move has overlapped with a move or a creation; activity only after those or a deactivation; an update alone puts right what is below it | a tree of three groups and a member, rights 0 and 1, two tools, three requests: a race of two and a third that reads what it left |
| `Credits` | a balance is not the sum of its entries only after an overlap; none of an identity goes below 0, no spend is overstated in any case; requests that wait for rows all end | a group, its member, a room and its agent, amounts 0 and 1, up to two spends in a request, three requests: rows of rooms and agents that do not exist yet, and a circle of two would show |
| `Accounts` | verdicts, claims and rotations are wrong only where two requests about the same row overlap; a link that was regenerated lets in nobody who comes later | two addresses in four audiences, one application, two sessions, a link, two numbers and two phones, three requests; with or without a staff account |
| `AgentRoom` | sessions and pipelines follow the participants, reports follow the sessions, texts reach each reader once, slots come back, but for the cases that are named | two participants, two languages of which one has a provider, one slot of each semaphore, three events or failures, three sessions or pipelines, two reports at a time: 2 million states |
| `Desk` | what people were told is what is recorded; every participant can come in; a meeting is live when it is used, and a room exists as long as it can be joined; an identity has one conversation | a meeting of each room, a conversation, two numbers, three requests of every kind: 750 thousand states |

Symmetry is used only in runs without liveness properties.  Counters that grow
without end are bounded by guards named in the modules (`MaxFaults`, `MaxTries`,
`TokenBound`, `MaxHold`, `AgeBound`): `AgeBound` is the age from which every
process takes a holder for stale, so nothing distinguishes greater ages.
`LiveMeetings` and `MemberPipeline` need no bound on requests or messages beyond
their finite sets; in `LiveMeetings` each request is used again and again.
Deadlock is checked except in the meeting runs, where nothing is left to do when
every meeting has been deleted, and in the five runs above with a bounded number
of requests or events, which end.

Sentences of the repository that the code does not keep show in the passing
properties, as the exceptions they make, or in the modules' actions:

* `session_store.py:33-35`, trimming "never affects behavior, only memory":
  `flush_identity` inserts what the trimmed list holds, so turns of a day beyond
  `_MESSAGES_KEEP` never reach Postgres (`KeptAsPromised` excepts a turn that
  `Keep` others have followed).
* `flush_service.py:43-46`, "idempotent/resumable rather than lossy": turns
  appended between the flush's read and its clear are deleted (`late`, which
  `KeptAsPromised` leaves out).
* `session_store.py:195-198`, "so a retried flush never double-inserts": a
  failure after the commit does (`DuplicateBound` counts `faults`).
* `services.py:283-285`, the mirrored reply's row "is already committed": the
  route commits it after the mirror (`MirrorReply`, `CommitManual`); the flush
  never inserts the copy, so a request that fails in between loses the reply.
* `session_store.py:6-8`, no session key "ever outlives the UTC day" by more than
  a buffer: one whose handler stops between HSET and EXPIREAT has no expiry
  (`Receive`, `WriterFails`).
* `orchestrator.py:16-21`, past the token cap "every further Gemini call" is
  skipped: up to four per message begun are not (`StaleCalls`).
* `session_store.py:165-168`, "excess queues rather than all running at once": a
  job that stays for the TTL is pruned like a dead one (`SpanBound` is what
  remains of the limit).
* `config.py:271-274`, reservations are "trued up via adjust_org_spend": nothing
  calls it, and a message over the token cap keeps a reservation it never used
  (`Reserve`; `DailyCalls` only bounds calls from above).
* `live_agents/orchestrator.py:8`, "One bot identity per meeting": the registry
  forgets an agent before it has stopped, so of two retries the second starts
  another beside it (`Stop`, `Wait`).
* `config.py:289-292`, the limit on sessions "this backend replica hosts":
  agents of the identity tree's meetings take no slot (`AdmittedWithinLimit` is
  about the orgs' meetings).
* `meeting_room/models.py:144-149`, `translation_active` is "flipped back to
  False by a full agent crash": not for an org's meeting, which the report does
  not find, and not when the join that started the agent commits after the
  report (`Report`, `Commit`).
* `session_store.py:38-39`, keys outlive midnight so that a flush "that runs a few
  minutes late ... still finds everything": they outlive it by 600 s less the
  part of a second that `_touch_expiry` cuts off, so they are gone at the second
  before 00:10:00, for which the cron is set (`config.py:258-259`).  By these
  defaults the nightly flush finds only the lists that were written to after
  midnight, and it is the admin's flush that keeps a day's turns.  `Tick` has it
  so: the keys go first, then the job fires.  No property claims what the code
  does not do here: `KeptAsPromised` is about the time until the expiry.
* `worker.py:39-41`, idempotency is "already guaranteed" by the claim: a job that
  fails after its send is run again and sends again (`RepeatsOnlyLostAnswers`
  allows for it).
* `whatsapp/session_store.py:132-134`, a timeout is to be treated "like a
  `ProviderError`-shaped degrade (log, don't crash)": nothing catches it before
  the worker, whose rollback takes the inbound row with it (`SlotTimeout`).
* `meeting_room/services.py:1063-1066`, `_assert_joinable` "already rejects every
  join/redeem path" of a meeting that has ended: a join that has read the meeting
  before overwrites `completed` with `live` (`LiveWhenJoined`, `mixed`).
* `meeting_room/services.py:863-864`, "stop whatever's currently running ..., then
  start fresh": the first retry after a crash awaits the crashed task, and fails
  with its exception (`CrashesStopping`).
* `profiles/services.py:1-11`, "even a bad write can't produce an effective value
  wider than the parent allows": two requests that overlap can (`Cascaded`).
* `profiles/services.py:321-328`, a community is opened "with no separate manual
  step": below a root whose default is not connected it is not (`OpenedRow`).
* `profiles/services.py:798`, "only one confirmation per number", and
  `core/models/client.py`, an approval is atomic: not for two that overlap
  (`NumbersClaimedOnce`, `VerdictsStand`).
* `captions.py:320-322`, one session "per active speaker": a camera or a shared
  screen that stops ends the microphone's session, and nothing starts another
  (`OtherUnsubscribed`, `misled`).
* `captions.py:152-157`, "not an expected path": those who are there when the agent
  connects have no track yet; their session ends in silence, and when the track
  comes `add_speaker` finds it and returns (`StartSession` at "mute").
* `dubbed_audio.py`, the pipeline is stopped "instead of leaking it": one that a
  callback adds during `stop_all` is not (`late`).
* Two sessions of one speaker can run side by side, both added by callbacks during
  the teardown, when the dictionary is cleared between them: then the first one's
  recovery hides that the second is down.  The attempt to prove `DegradedIsShown`
  without the condition `Alone` found it; it takes five events, more than the
  run allows, and TLC confirms it with one participant.
* `live_agents/orchestrator.py:317`, "Bounded wait": a cancel that a `stop()`
  swallows is waited for on (`Cut`).
* `status.py`: a stream that opens and fails at once resets the count of failures
  and is never reported (`Opens`); one column holds the error of every session,
  so the recovery of one clears another's (`wrote`); a session that is being
  stopped may report over its successor (`muddled`).

## 5. Fairness

* `CommunitySession!FairSpec`: time passes, APScheduler runs the nightly job
  when it is due, and a task of the event loop that can go on does.  Nobody has
  to send a message or call the admin's flush.
* `OrgSlots!FairSpec`: time passes, a waiting job polls, a job inside its slot
  leaves it or dies.  Weak fairness of a poll is what the code gives: a job that
  polls may always find the slot taken, so `EveryWaitEnds` rests on its timeout.
* `MemberPipeline!FairSpec`: workers keep running the jobs they have.  Crashes
  and midnight are not fair.
* `CreditsSpec`: the server goes on with a request that it has begun: weak
  fairness, for each request, of its next write, its collision or its commit.
  A row it needs is free once who has locked it ends, so a wait that never ends
  would be a circle.
* `LiveMeetings`, `IdentityTree`, `Accounts`, `AgentRoom` and `Desk` have no
  liveness property: a request may stay in an await of a provider for as long as
  it likes, and a participant in a room.

## 6. Proofs

Each theorem holds for every value of the constants that the module's `ASSUME`
allows: finite sets of actors, positive limits, and nothing about the relation of
limits, costs, TTLs and the number of actors unless the theorem says so.

| Module | Theorem | Argument |
|---|---|---|
| `CommunitySessionProofs` | `SessionTypeOK`, `NothingStranded` | inductive as they are, given the type |
| | `ManualOnce`, `DuplicatesBounded` | `SessionInv`: what is held or in a snapshot was written by its owner (`HeldInv`, `SnapInv`); a writer pushes each turn once (`OnceInv`); a turn still held was inserted only by flushes about to clear it, or by failures (`DupInv`).  The bound alone is not inductive: it does not say that the flushes that have inserted a turn are the ones that are about to clear it |
| | `PromisesKept` | with failures, overlapping flushes and trimming, and for any relation of `FlushAt`, `Buffer` and `Keep`: what a flush is about to clear is what it has read, has a row by now, or was appended in its window (`WindowInv`); only written turns that are owed a row have a promise (`PromiseInv`), and their list expires no earlier than that (`ExpiryInv`); a turn that is owed a row has been followed by all those behind it in the list, so that a trim which reaches it finds `Keep` of them (`OrderInv`).  The property alone is not inductive: it does not say that a list outlives what was promised of its turns |
| `LimitsProofs` | `CapsAreTyped`, `TokenOvershoot`, `ReplyCapOvershoot` | `CallInv` counts the calls a handler has left; `CountInv` counts handlers in flight against the counter they will increment |
| | `SlotsTypeOK`, `SlotsPerSpan` | `HolderInv`: a job that entered less than a TTL less the skew ago is in the sorted set, with its age, and the key has not expired |
| | `SlotsImplementSemaphore` | the places are those of the jobs that entered less than a TTL less the skew ago, whom no clock finds stale: the script's step is `Enter`; releases, deaths and ticks are `Leave` or nothing |
| | `CreditsType` | inductive as it is; every operation that begins a request is a change of balances that the loaded ones allow (`Opens`) |
| | `LedgerExplains`, `NoDebts`, `SpendsNotInvented` | `LoadedInv`: what an open request has loaded is still what is committed, unless another has written the account since; its entries are its changes; they leave no identity that it has loaded below 0; and they only take from agents, of which it has loaded no less than their entries come to.  The three properties alone are not inductive: they say nothing of what an open request is about to write |
| `MemberPipelineProofs` | `PipelineType`, `AnswersRepeatOnlyWhenLost`, `DailyCallsBounded` | among jobs of a message at most one has its row uncommitted, and none beside a committed one; an answer that counts is held by that job or that row.  Calls begun and reservations waiting are together within what was spent and carried over |
| `LiveMeetingsProofs` | `MeetingsType`, `NoOrphans` | `ApartInv`: a request that is alone with its meeting has read the row as it still is, and the agent that it has stopped stays stopped |
| | `AdmittedBounded` | `SlotInv`: an agent of an org's meeting, or a request about to start one, has a slot that is in the set or expired |
| | `SlotsLeakOnFailure` | `OwedInv`: meetings that hold a slot although they have ended, or although a request that is past its release is about to end them, are never more than the failures |
| `AgentRoomProofs` | `SessionsFollow` | `RoomInv`: an entry of a dictionary is of its key, and what nobody has stopped has its entry unless it was added during a teardown (`AgentInv`); what a teardown has not stopped it still has before it (`Ahead`); while the agent serves, the entries are those the attributes ask for (`AllFollow`), which every operator on the dictionaries keeps (`Launch`, `Drop`, `Sync`, ...) |
| | `TextsReach` | `TextInv`: the groups still to be served are disjoint and without the author; who is owed the text is in one of them or has it once, and nobody in one of them has it.  The property alone is not inductive: it does not say that a later group cannot hold a reader of an earlier one |
| | `DegradedShown` | `ShownInv`, for a subject nothing has happened to: its last report on the way, or else what the room was told, says whether it is down; a subject that is down was reported; and only the first of its reports may have been written into the row |
| `AccountsProofs` | `RowsHold` | what every route is going to write, in one formula (`Plan`); a request inserts whole rows under its own name, and columns of one kind keep the same rows |
| | `VerdictsHold`, `NumbersHold`, `SessionsHold`, `LinksCold` | each with the part of the plans that it is about (`VerdictPlan`, `NumberPlan`, ...): what an open request has read of the row it writes is still so, or the row is in its `over`.  Accounts and numbers that are inserted rest on the unique keys (`Collides`) |
| `IdentityTreeProofs` | `PathsHold` | `OpenInv`: an open creation has the path its parent still has, an open move the paths of all that is still below it, unless its `over` names a move (or, for a move, a creation).  Then a move's UPDATE makes a straight tree of a straight tree (`MovedTree`), by what a prefix of a path is (`BelowIsInherited`, `RebasedLonger`) |
| | `StraysAreCaused` | with the same invariant: an open deactivation covers everything that is still active below it, a client's creation has an active parent |
| | `TypesHold` | `TypedInv`: what a request is going to write fits the columns, for the rows it names and those that it inserts |
| | `RecomputesHeal` | `HealInv`: the rows that an open change of settings would leave are in step below it as long as its `over` is empty, which takes paths that are right and nothing else of the rows |
| | `CascadeHolds` | `CascadeInv`: every row is in step with its parent (`InStep`), and a request that cascades would leave all of them so if it committed now, unless its `over` names another; two creations leave each other's rows alone (`CascadePlanStays`).  Rows that are all in step have what the settings along their paths amount to (`InStepAmounts`) |
| `DeskProofs` | `DeskHolds` | whatever route it came by, an open request has a plan: what it is going to write, insert, send and end fits together (`Plan`), and what it has read is still so unless its `over` names the row (`Reads`); it is about meetings that are committed (`Known`), so that no two requests found the same.  What has been flushed clashes with no row and no other flush (`FlushInv`); a room that stands while its meeting can be joined, or the other way round, has a request about it on the way (`RoomsInv`); what has been sent is in the plan of its request until that is over (`MessagesInv`) |

`DeskIsInOrder` is not inductive: it says nothing of requests on the way.
`DeskInv` is; every route is first shown to start with a plan (`StepCases`), after
which a step is one of five: a start, the calls, a commit, a refusal, a failure.
The constants' assumption says besides what each set is for that no name stands
for two: staff and users of an org are not people with links, and a row that a
request creates is none that was there.

`Cascaded` is not inductive: it says nothing of what an open request is about to
write, and it speaks of paths where a step only knows parents.  `TreeInv` is the
inductive one: `RowsInv`, `OpenInv` and `PathInv` for the paths, `TypedInv`,
`CascadeInv` and `HealInv` for what the rows say.  `recompute_cascade` walks a
subtree in the order of its paths, and is a recursive function here
(`Recomputed`).  Nothing can be said of such a function before it is known that
one exists which fits its definition, and that is an induction over the length
of paths.  It is done by a minimal counterexample: the length of a path is a
natural number, so a set of rows each of which has another, with a shorter path,
is empty (`NoLowest`, from `WFMin`); from it follow that the function exists
(`RecursionExists`), that what it gives puts every row below its top in step
(`SubtreeRecomputed`), and that all rows in step amount to `Cascaded`
(`NoOddRows`).

`Accounts`, `IdentityTree` and `Desk` define `:>` and `@@` themselves, as the
module `TLC` does: the provers do not know that module's.

Every invariant that the runs check, and the refinement of `Semaphore`, is stated by
one of these theorems.  Only model-checked:

* liveness (`EveryWaitEnds`, `SelfHeals`, `PendingDrains`, `JobsEnd`,
  `RequestsEnd`), which rests on fairness and ENABLED;
* that `Recomputed` and the other operators compute what they do on data of every
  size, as far as that is not what a theorem above says of them.

## 7. Not modelled

Wording, prompts and formatting; the parsing and the signature of webhooks;
passwords, hashes and signatures; providers, whose calls succeed, fail or take
their time; audit rows and the webhook log, written in the caller's transaction
and never read; the browser side.  By module:

* `CommunitySession`: the cached translation role and the two daily counters.
* `LiveMeetings`: meetings without live translation or without the plugin, which
  never have an agent; `translation_error`, which is in `AgentRoom`.
* `AgentRoom`: the two messages of a failure's report, to everybody and to the
  staff, are sent in one step (`TellRoom`); captions are switched on in the configuration
  (`live_agents_captions_enabled`); the bridge that follows the active speaker and
  feeds the pipelines (`dubbed_audio.py:300-399`), the merging of transcript
  fragments, the translator's semaphore, which every call gives back, and the
  rows kept of a translation.  There is one text at a time, since texts share
  nothing but the participants.
* `IdentityTree`: one right and one cascading tool stand for the columns of their
  kind, which are merged alike; caps and scopes are ranked like rights.
* `Credits`: nothing in the code calls `fund_room_account` today, and the charges
  of today's callers are 0; both are modelled for the amounts they accept.
* `Accounts`: consents, groups of an org and their settings, which are single
  inserts or updates; an org's direct link, whose `group_id` is NULL.  The unique
  index (`orgs/models.py:182-188`) takes two NULLs for different, so two
  regenerations of it that overlap can leave two links open, which `SecondLink`
  excludes for links that have a group.  `create_group_invite` accepts such a
  link, but no route asks for one.
* `Desk`: language, tone and character of a conversation; expiry of a link, after
  which a request is refused and changes nothing; a WhatsApp send that fails,
  which changes nothing either.  `ConversationStatus.archived` and
  `MeetingStatus.cancelled` are never set.  A request without calls to the
  outside that fails leaves nothing, so `Breaks` is for the others.  No route
  shows or sends the personal links of an org's members.
* Plugin grants, archive records, tasks and their submissions, the accounts
  room's records: single-row writes that no property relates to anything else.
* The manual reply and the phone links of the new pipeline, which are
  transactions like those of `Desk` over tables of their own.
