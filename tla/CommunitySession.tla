-------------------------- MODULE CommunitySession --------------------------
(***************************************************************************)
(* The same-day session of the WhatsApp community agent: the Redis keys of *)
(* agents/whatsapp_community/session_store.py, the webhook handlers and    *)
(* staff replies that append turns to them, and the flush of               *)
(* flush_service.py that moves the turns to Postgres rows.                 *)
(*                                                                         *)
(* Every Redis command the code awaits is a step of its own, so handlers,  *)
(* staff replies, the nightly flush and the admin flush interleave as they *)
(* do in the event loop.  What a turn says and whether the agent answers   *)
(* are left open here; the caps that decide the latter are ReplyCaps.      *)
(***************************************************************************)
EXTENDS Integers, Sequences, FiniteSets, SequencesExt

CONSTANTS
  Identities,   \* WhatsApp-linked identities
  Inbound,      \* webhook handlers, one per claimed inbound message
  Manual,       \* staff or client replies sent by hand
  Owner,        \* the identity each of them is about
  Cron,         \* the scheduled flush job
  Admins,       \* concurrent calls of the admin flush route
  Keep,         \* _MESSAGES_KEEP
  DayLen,       \* ticks in a UTC day
  Buffer,       \* _FLUSH_BUFFER_SECONDS, in ticks
  FlushAt,      \* tick of the day at which the scheduled flush fires
  MaxFaults     \* bound on handlers and flushes that fail midway

Writers  == Inbound \cup Manual
Flushers == Admins \cup {Cron}

ASSUME SessionAssumption ==
  /\ IsFiniteSet(Admins) /\ Cron \notin Admins
  /\ Inbound \cap Manual = {}
  /\ Owner \in [Writers -> Identities]
  /\ Identities # {} /\ Keep \in Nat \ {0} /\ DayLen \in Nat \ {0} /\ Buffer \in Nat \ {0}
  /\ FlushAt \in 0 .. DayLen - 1
  /\ MaxFaults \in Nat

\* The turns a run can produce: what the member wrote, the agent's answer, and
\* the context-only mirror of a manual reply (already_persisted).
Turns == (Inbound \X {"in", "out"}) \cup (Manual \X {"manual"})
MFlushAll(t) == TRUE    \* mutant: the already_persisted filter is forgotten
Flushable(t) == t[2] # "manual"

VARIABLES
  sess,      \* identities whose session hash exists
  msgs,      \* the message list of each identity, oldest first
  pending,   \* wa:pending_flush
  sessTtl, msgsTtl,  \* ticks until the key expires; 0: no expiry is set
  tod,       \* tick of the UTC day
  cronDue,   \* the scheduler has fired and the job has not started
  rows,      \* committed Message rows per turn
  step, op,  \* where each writer is, and its unfinished Redis operation
  fpc, ftodo, fcur, fsnap,  \* each flush: position, ids left, id, rows to add
  faults,    \* failures so far
  written,   \* history: turns RPUSHed so far
  \* Histories of the turns that the flush has yet to insert:
  late,      \* those RPUSHed between a flush's LRANGE and its clear
  after,     \* how many turns were RPUSHed to its list after a turn
  kept       \* ticks for which the last EXPIREAT has promised a turn

store   == <<sess, msgs, pending, sessTtl, msgsTtl>>
clock   == <<tod, cronDue>>
writers == <<step, op>>
flush   == <<fpc, ftodo, fcur, fsnap>>
history == <<written, late, after, kept>>
vars == <<store, clock, rows, writers, flush, faults, history>>

Held(i) == ToSet(msgs[i])
Owed(t) == Flushable(t) /\ rows[t] = 0

Init ==
  /\ sess = {} /\ pending = {}
  /\ msgs = [i \in Identities |-> <<>>]
  /\ sessTtl = [i \in Identities |-> 0]
  /\ msgsTtl = [i \in Identities |-> 0]
  /\ tod = 0 /\ cronDue = FALSE
  /\ rows = [t \in Turns |-> 0]
  /\ step = [w \in Writers |-> "new"]
  /\ op = [w \in Writers |-> "idle"]
  /\ fpc = [f \in Flushers |-> "idle"]
  /\ ftodo = [f \in Flushers |-> {}]
  /\ fcur = [f \in Flushers |-> CHOOSE i \in Identities : TRUE]
  /\ fsnap = [f \in Flushers |-> {}]
  /\ faults = 0 /\ written = {} /\ late = {}
  /\ after = [t \in Turns |-> 0] /\ kept = [t \in Turns |-> 0]

-----------------------------------------------------------------------------
(* The Redis commands.  A writer whose op is not "idle" is in the middle   *)
(* of ensure_session, append_turn or a counter's _touch_expiry.            *)

\* Mutant: a timestamp shifted by the host's UTC offset.
MShiftedTicks == (DayLen - tod) + Buffer - 3

\* The instant _touch_expiry computes: the next midnight plus the buffer.
TicksLeft == (DayLen - tod) + Buffer

SAdd(w) ==
  /\ op[w] = "sadd"
  /\ pending' = pending \cup {Owner[w]}
  /\ op' = [op EXCEPT ![w] = "touch"]
  /\ UNCHANGED <<sess, msgs, sessTtl, msgsTtl, clock, rows, step, flush, faults, history>>

\* EXPIREAT only acts on a key that exists.  History: what the list holds for
\* the flush is promised to outlive the next midnight by Buffer ticks.
Touch(w) ==
  LET i == Owner[w] IN
  /\ op[w] = "touch"
  /\ sessTtl' = IF i \in sess THEN [sessTtl EXCEPT ![i] = TicksLeft] ELSE sessTtl
  /\ msgsTtl' = IF msgs[i] # <<>> THEN [msgsTtl EXCEPT ![i] = TicksLeft] ELSE msgsTtl
  /\ op' = [op EXCEPT ![w] = "idle"]
  /\ kept' = [t \in Turns |-> IF t \in Held(i) /\ Owed(t) THEN (DayLen - tod) + Buffer ELSE kept[t]]
  /\ UNCHANGED <<sess, msgs, pending, clock, rows, step, flush, faults, written, late, after>>

LastTurns(s) == IF Len(s) > Keep THEN SubSeq(s, Len(s) - Keep + 1, Len(s)) ELSE s

\* Mutant: append_turn does not mark the identity, ensure_session having done so.
MTrimWithoutMark(w) ==
  /\ op[w] = "trim"
  /\ msgs' = [msgs EXCEPT ![Owner[w]] = LastTurns(@)]
  /\ op' = [op EXCEPT ![w] = "touch"]
  /\ UNCHANGED <<sess, pending, sessTtl, msgsTtl, clock, rows, step, flush, faults, history>>

Trim(w) ==
  /\ op[w] = "trim"
  /\ msgs' = [msgs EXCEPT ![Owner[w]] = LastTurns(@)]
  /\ op' = [op EXCEPT ![w] = "sadd"]
  /\ UNCHANGED <<sess, pending, sessTtl, msgsTtl, clock, rows, step, flush, faults, history>>

\* append_turn starts: the RPUSH.
Push(w, t) ==
  /\ msgs' = [msgs EXCEPT ![Owner[w]] = Append(@, t)]
  /\ op' = [op EXCEPT ![w] = "trim"]
  /\ written' = written \cup {t}
  /\ late' = IF \E f \in Flushers : fcur[f] = Owner[w] /\ fpc[f] \in {"commit", "clear"}
             THEN late \cup {t} ELSE late
  /\ after' = [u \in Turns |-> IF u \in written /\ Owed(u) /\ Owner[u[1]] = Owner[w]
                                 THEN after[u] + 1 ELSE after[u]]
  /\ UNCHANGED <<sess, pending, sessTtl, msgsTtl, kept>>

Goto(w, from, to) == op[w] = "idle" /\ step[w] = from /\ step' = [step EXCEPT ![w] = to]

-----------------------------------------------------------------------------
(* receive_inbound_message, after the gate: ensure_session, the Gemini     *)
(* calls (whose usage counters touch the expiry), the turns.               *)

Receive(w) ==
  /\ w \in Inbound /\ Goto(w, "new", "clarify")
  /\ sess' = sess \cup {Owner[w]}
  /\ op' = [op EXCEPT ![w] = "sadd"]
  /\ UNCHANGED <<msgs, pending, sessTtl, msgsTtl, clock, rows, flush, faults, history>>

\* A Gemini call that reports tokens increments a counter and touches the
\* expiry; one that fails before that, or is skipped over the cap, does not.
Gemini(w) ==
  \E spent \in {"touch", "idle"} :
    /\ \/ w \in Inbound /\ Goto(w, "clarify", "inbound")
       \/ w \in Inbound /\ Goto(w, "generate", "reply")
       \/ w \in Manual /\ Goto(w, "new", "mirror")
    /\ op' = [op EXCEPT ![w] = spent]
    /\ UNCHANGED <<store, clock, rows, flush, faults, history>>

AppendInbound(w) ==
  /\ w \in Inbound
  /\ \/ Goto(w, "inbound", "generate")
     \/ Goto(w, "inbound", "done")    \* passive, manual mode, or capped
  /\ Push(w, <<w, "in">>)
  /\ UNCHANGED <<clock, rows, flush, faults>>

AppendReply(w) ==
  /\ w \in Inbound /\ Goto(w, "reply", "done")
  /\ Push(w, <<w, "out">>)
  /\ UNCHANGED <<clock, rows, flush, faults>>

(* send_manual_reply: the row is added to the request's session, mirrored  *)
(* into a live session, and committed by the route when all is done.       *)

CheckSession(w) ==
  /\ w \in Manual
  /\ \/ Owner[w] \in sess /\ Goto(w, "mirror", "append")
     \/ Owner[w] \notin sess /\ Goto(w, "mirror", "commit")
  /\ UNCHANGED <<store, clock, rows, op, flush, faults, history>>

MirrorReply(w) ==
  /\ w \in Manual /\ Goto(w, "append", "commit")
  /\ Push(w, <<w, "manual">>)
  /\ UNCHANGED <<clock, rows, flush, faults>>

CommitManual(w) ==
  /\ w \in Manual /\ Goto(w, "commit", "done")
  /\ rows' = [rows EXCEPT ![<<w, "manual">>] = @ + 1]
  /\ UNCHANGED <<store, clock, op, flush, faults, history>>

\* In append_turn_if_session_active, whose failures send_manual_reply swallows.
Mirroring(w) ==
  /\ w \in Manual
  /\ \/ step[w] \in {"mirror", "append"} /\ op[w] = "idle"
     \/ step[w] = "commit" /\ op[w] # "idle"

\* The handler raises, or the process stops: its transaction is rolled back
\* and what it wrote to Redis stays.  A redelivered message is a duplicate.  Or
\* it is a mirror that fails, and the reply goes on to its commit without it.
WriterFails(w) ==
  /\ faults < MaxFaults /\ step[w] \notin {"new", "dead"}
  /\ step[w] # "done" \/ op[w] # "idle"
  /\ \/ step' = [step EXCEPT ![w] = "dead"]
     \/ Mirroring(w) /\ step' = [step EXCEPT ![w] = "commit"]
  /\ op' = [op EXCEPT ![w] = "idle"]
  /\ faults' = faults + 1
  /\ UNCHANGED <<store, clock, rows, flush, history>>

-----------------------------------------------------------------------------
(* flush_all_sessions and flush_identity.                                  *)

FlushStart(f) ==
  /\ fpc[f] = "idle" /\ (f = Cron => cronDue)
  /\ cronDue' = (cronDue /\ f # Cron)
  /\ ftodo' = [ftodo EXCEPT ![f] = pending]
  /\ fpc' = [fpc EXCEPT ![f] = "next"]
  /\ UNCHANGED <<store, tod, rows, writers, fcur, fsnap, faults, history>>

\* Mutant: the read is limited as it is for a prompt, here to one turn.
MReadForPrompt(f) ==
  /\ fpc[f] = "next"
  /\ \E i \in ftodo[f] :
       LET snap == {t \in {msgs[i][k] : k \in {Len(msgs[i])} \ {0}} : Flushable(t)} IN
       /\ ftodo' = [ftodo EXCEPT ![f] = @ \ {i}]
       /\ fcur' = [fcur EXCEPT ![f] = i]
       /\ fsnap' = [fsnap EXCEPT ![f] = snap]
       /\ fpc' = [fpc EXCEPT ![f] = IF snap = {} THEN "clear" ELSE "commit"]
  /\ UNCHANGED <<store, clock, rows, writers, faults, history>>

\* get_recent_turns(limit=None): what is not already persisted is to insert;
\* with nothing to insert the session is cleared at once.
FlushRead(f) ==
  /\ fpc[f] = "next"
  /\ \E i \in ftodo[f] :
       LET snap == {t \in Held(i) : Flushable(t)} IN
       /\ ftodo' = [ftodo EXCEPT ![f] = @ \ {i}]
       /\ fcur' = [fcur EXCEPT ![f] = i]
       /\ fsnap' = [fsnap EXCEPT ![f] = snap]
       /\ fpc' = [fpc EXCEPT ![f] = IF snap = {} THEN "clear" ELSE "commit"]
  /\ UNCHANGED <<store, clock, rows, writers, faults, history>>

FlushCommit(f) ==
  /\ fpc[f] = "commit"
  /\ rows' = [t \in Turns |-> IF t \in fsnap[f] THEN rows[t] + 1 ELSE rows[t]]
  /\ fpc' = [fpc EXCEPT ![f] = "clear"]
  /\ late' = late \ fsnap[f]
  /\ after' = [t \in Turns |-> IF t \in fsnap[f] THEN 0 ELSE after[t]]
  /\ kept' = [t \in Turns |-> IF t \in fsnap[f] THEN 0 ELSE kept[t]]
  /\ UNCHANGED <<store, clock, writers, ftodo, fcur, fsnap, faults, written>>

\* Mutants: the clear forgets the message list, or the mark.
MKeepList(f) ==
  LET i == fcur[f] IN
  /\ fpc[f] = "clear"
  /\ sess' = sess \ {i} /\ pending' = pending \ {i}
  /\ sessTtl' = [sessTtl EXCEPT ![i] = 0]
  /\ fsnap' = [fsnap EXCEPT ![f] = {}]
  /\ fpc' = [fpc EXCEPT ![f] = "next"]
  /\ UNCHANGED <<msgs, msgsTtl, clock, rows, writers, ftodo, fcur, faults, history>>

MKeepMark(f) ==
  LET i == fcur[f] IN
  /\ fpc[f] = "clear"
  /\ sess' = sess \ {i}
  /\ msgs' = [msgs EXCEPT ![i] = <<>>]
  /\ sessTtl' = [sessTtl EXCEPT ![i] = 0]
  /\ msgsTtl' = [msgsTtl EXCEPT ![i] = 0]
  /\ fsnap' = [fsnap EXCEPT ![f] = {}]
  /\ fpc' = [fpc EXCEPT ![f] = "next"]
  /\ UNCHANGED <<pending, clock, rows, writers, ftodo, fcur, faults, history>>

\* clear_session: one MULTI/EXEC deletes the hash, the list and the mark.
FlushClear(f) ==
  LET i == fcur[f] IN
  /\ fpc[f] = "clear"
  /\ sess' = sess \ {i} /\ pending' = pending \ {i}
  /\ msgs' = [msgs EXCEPT ![i] = <<>>]
  /\ sessTtl' = [sessTtl EXCEPT ![i] = 0]
  /\ msgsTtl' = [msgsTtl EXCEPT ![i] = 0]
  /\ fsnap' = [fsnap EXCEPT ![f] = {}]
  /\ fpc' = [fpc EXCEPT ![f] = "next"]
  /\ UNCHANGED <<clock, rows, writers, ftodo, fcur, faults, history>>

FlushEnd(f) ==
  /\ fpc[f] = "next" /\ ftodo[f] = {}
  /\ fpc' = [fpc EXCEPT ![f] = "idle"]
  /\ UNCHANGED <<store, clock, rows, writers, ftodo, fcur, fsnap, faults, history>>

\* An exception leaves this identity for a later run and goes on with the
\* next one; a stopped process forgets the rest of the batch too.
FlushFails(f) ==
  /\ faults < MaxFaults /\ fpc[f] # "idle"
  /\ faults' = faults + 1
  /\ \E to \in {"next", "idle"} : fpc' = [fpc EXCEPT ![f] = to]
  /\ fsnap' = [fsnap EXCEPT ![f] = {}]
  /\ UNCHANGED <<store, clock, rows, writers, ftodo, fcur, history>>

-----------------------------------------------------------------------------
(* Time.  A tick ends with the keys whose time has come being gone, and    *)
(* then the scheduler, which never runs two instances of its job, firing:  *)
(* _touch_expiry cuts "now" and the time left to midnight to whole seconds *)
(* apart, so keys expire at the second before the flush of the instant.    *)

Tick ==
  LET Aged(ttl) == [i \in Identities |-> IF ttl[i] > 0 THEN ttl[i] - 1 ELSE 0] IN
  /\ ~cronDue
  /\ tod' = (tod + 1) % DayLen
  /\ cronDue' = (tod' = FlushAt /\ fpc[Cron] = "idle")
  /\ sess' = {i \in sess : sessTtl[i] # 1}
  /\ msgs' = [i \in Identities |-> IF msgsTtl[i] = 1 THEN <<>> ELSE msgs[i]]
  /\ sessTtl' = Aged(sessTtl) /\ msgsTtl' = Aged(msgsTtl)
  /\ kept' = [t \in Turns |-> IF kept[t] > 0 THEN kept[t] - 1 ELSE 0]
  /\ UNCHANGED <<pending, rows, writers, flush, faults, written, late, after>>

-----------------------------------------------------------------------------
WriterStep(w) ==
  \/ SAdd(w) \/ Touch(w) \/ Trim(w)
  \/ Receive(w) \/ Gemini(w) \/ AppendInbound(w) \/ AppendReply(w)
  \/ CheckSession(w) \/ MirrorReply(w) \/ CommitManual(w)

FlushStep(f) == FlushRead(f) \/ FlushCommit(f) \/ FlushClear(f) \/ FlushEnd(f)

Next ==
  \/ \E w \in Writers : WriterStep(w) \/ WriterFails(w)
  \/ \E f \in Flushers : FlushStart(f) \/ FlushStep(f) \/ FlushFails(f)
  \/ Tick

Spec == Init /\ [][Next]_vars

\* Time passes, the scheduler's job runs when due, and every task the event
\* loop holds goes on; no admin has to call the flush route.
FairSpec ==
  /\ Spec /\ WF_vars(Tick) /\ WF_vars(FlushStart(Cron))
  /\ \A w \in Writers : WF_vars(WriterStep(w))
  /\ \A f \in Flushers : WF_vars(FlushStep(f))

-----------------------------------------------------------------------------
(* Properties.                                                             *)

TypeOK ==
  /\ sess \subseteq Identities /\ pending \subseteq Identities
  /\ msgs \in [Identities -> Seq(Turns)]
  /\ sessTtl \in [Identities -> Nat] /\ msgsTtl \in [Identities -> Nat]
  /\ tod \in 0 .. DayLen - 1 /\ cronDue \in BOOLEAN
  /\ rows \in [Turns -> Nat]
  /\ step \in [Writers -> {"new", "clarify", "inbound", "generate", "reply",
                           "mirror", "append", "commit", "done", "dead"}]
  /\ op \in [Writers -> {"idle", "trim", "sadd", "touch"}]
  /\ fpc \in [Flushers -> {"idle", "next", "commit", "clear"}]
  /\ ftodo \in [Flushers -> SUBSET Identities]
  /\ fcur \in [Flushers -> Identities]
  /\ fsnap \in [Flushers -> SUBSET Turns]
  /\ faults \in 0 .. MaxFaults
  /\ written \subseteq Turns /\ late \subseteq written
  /\ after \in [Turns -> Nat] /\ kept \in [Turns -> Nat]

\* A manual reply is inserted by its own request and by nothing else: no
\* flush re-inserts the mirrored copy it finds in the list.
ManualReplyOnce == \A m \in Manual : rows[<<m, "manual">>] <= 1

\* How often one turn can be inserted: flushes that overlap may each insert
\* it once, and each failure between a commit and its clear adds one more.
DuplicateBound == \A t \in Turns : rows[t] <= Cardinality(Flushers) + faults

\* A list with turns in it is marked for the flush, or the append that is
\* still running will mark it: no interleaving of appends and clears strands
\* turns where no flush looks.  Only a writer that dies midway can.
StrandedOnlyByFailure ==
  faults = 0 => \A i \in Identities :
    msgs[i] # <<>> => i \in pending \/ \E w \in Writers : Owner[w] = i /\ op[w] \in {"trim", "sadd"}

\* For as long as its EXPIREAT has promised, a turn that has no row yet is in
\* its list, whatever flushes overlap and whatever fails: only LTRIM takes it
\* away, when Keep turns have come after it, or a clear, when it was appended
\* in the window of a flush.
KeptAsPromised ==
  \A t \in written \ late :
    Owed(t) /\ kept[t] > 0 => t \in Held(Owner[t[1]]) \/ after[t] >= Keep

\* Every mark is taken off again, also after failures: what one night's flush
\* leaves in wa:pending_flush, a later one finds.
PendingDrains == \A i \in Identities : []<>(i \notin pending)

=============================================================================
