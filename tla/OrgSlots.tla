------------------------------- MODULE OrgSlots -------------------------------
(***************************************************************************)
(* The per-org concurrency slots of whatsapp/session_store.py: a Redis     *)
(* sorted set of holders that worker processes join and leave, scored with *)
(* the clock of the process that joined.  A holder that is older than the  *)
(* TTL counts as crashed and is pruned by the next process that asks.      *)
(* The module follows one org and one kind of slot ("llm" or "send").      *)
(*                                                                         *)
(* A job stands for one use of a slot, with one holder_id; it is used      *)
(* again, as a job with a fresh id, when no trace of it is left in Redis.  *)
(***************************************************************************)
EXTENDS Integers, FiniteSets

CONSTANTS
  Jobs,     \* jobs of the org, over all worker processes
  Limit,    \* max_concurrent_llm_calls_per_org, ..._whatsapp_sends_per_org
  Ttl,      \* whatsapp_concurrency_slot_ttl_seconds, in ticks
  MaxWait,  \* max_wait_seconds, in ticks
  MaxHold,  \* the longest a job stays inside its slot, in ticks
  Skew,     \* how far apart the clocks of the worker processes may be
  Offset    \* the clock of the process that runs each job, relative to Redis

ASSUME SlotsAssumption ==
  /\ IsFiniteSet(Jobs)
  /\ Limit \in Nat \ {0} /\ Ttl \in Nat \ {0}
  /\ MaxWait \in Nat /\ MaxHold \in Nat /\ Skew \in Nat
  /\ Offset \in [Jobs -> 0 .. Skew]

VARIABLES
  slots,   \* the holders in the sorted set
  age,     \* ticks since each of them was added, 0 for the others
  keyTtl,  \* ticks until Redis expires the whole set
  phase,   \* where each job is
  timer    \* ticks it has spent there

vars == <<slots, age, keyTtl, phase, timer>>

Running == {j \in Jobs : phase[j] = "running"}

Init ==
  /\ slots = {} /\ age = [j \in Jobs |-> 0] /\ keyTtl = 0
  /\ phase = [j \in Jobs |-> "idle"]
  /\ timer = [j \in Jobs |-> 0]

Goto(j, p) == phase' = [phase EXCEPT ![j] = p] /\ timer' = [timer EXCEPT ![j] = 0]

\* The sorted set becomes S, which adds nobody older than now; an empty set
\* is no key.
Keep(S) ==
  /\ slots' = S
  /\ age' = [k \in Jobs |-> IF k \in S \cap slots THEN age[k] ELSE 0]

Ask(j) ==
  /\ phase[j] = "idle" /\ j \notin slots
  /\ Goto(j, "waiting")
  /\ UNCHANGED <<slots, age, keyTtl>>

\* Mutants: nobody is pruned; a holder is pruned at half its time.
MNeverStale(j) == {}
MHalfStale(j)  == {k \in slots : 2 * (age[k] + Offset[j] - Offset[k]) >= Ttl}

\* ZREMRANGEBYSCORE up to now - ttl, both by the clock of the one who asks
\* and against scores by the clocks of those who hold.
Stale(j) == {k \in slots : age[k] + Offset[j] - Offset[k] >= Ttl}

MRoomForOneMore(j) == Cardinality(slots \ Stale(j)) <= Limit
Room(j) == Cardinality(slots \ Stale(j)) < Limit

\* The Lua script is atomic: it prunes, counts and adds.
Acquire(j) ==
  /\ phase[j] = "waiting" /\ Room(j)
  /\ Keep((slots \ Stale(j)) \cup {j})
  /\ keyTtl' = Ttl
  /\ Goto(j, "running")

\* Mutant: the deadline is never looked at.
MPollForever(j) ==
  /\ phase[j] = "waiting" /\ ~Room(j)
  /\ Keep(slots \ Stale(j))
  /\ UNCHANGED <<keyTtl, phase, timer>>

\* A refused job polls again, or raises OrgConcurrencyTimeout once its wait
\* has reached the deadline.
Refused(j) ==
  /\ phase[j] = "waiting" /\ ~Room(j)
  /\ Keep(slots \ Stale(j))
  /\ UNCHANGED keyTtl
  /\ IF timer[j] >= MaxWait THEN Goto(j, "idle") ELSE UNCHANGED <<phase, timer>>

\* Mutant: the key's expiry outlives its last holder.
MReleaseKeepsTtl(j) ==
  /\ phase[j] = "running"
  /\ Keep(slots \ {j})
  /\ UNCHANGED keyTtl
  /\ Goto(j, "idle")

\* The finally block, also when the body raised.
Release(j) ==
  /\ phase[j] = "running"
  /\ Keep(slots \ {j})
  /\ keyTtl' = IF slots \ {j} = {} THEN 0 ELSE keyTtl
  /\ Goto(j, "idle")

\* The process stops before its finally block has reached Redis.
Die(j) ==
  /\ phase[j] # "idle"
  /\ Goto(j, "idle")
  /\ UNCHANGED <<slots, age, keyTtl>>

\* Bound on the age that is kept: at this age every process counts the holder
\* as stale, and the set it is alone in has expired.
AgeBound == 2 * Ttl + Skew

\* A tick passes; no job stays inside longer than MaxHold, and EXPIRE deletes
\* the set when nobody has joined it for the TTL.
Tick ==
  /\ \A j \in Running : timer[j] < MaxHold
  /\ slots' = IF keyTtl = 1 THEN {} ELSE slots
  /\ age' = [j \in Jobs |-> IF j \notin slots' THEN 0
                           ELSE IF age[j] < AgeBound THEN age[j] + 1 ELSE AgeBound]
  /\ keyTtl' = IF keyTtl > 0 THEN keyTtl - 1 ELSE 0
  /\ timer' = [j \in Jobs |-> IF phase[j] = "running" \/ (phase[j] = "waiting" /\ timer[j] < MaxWait)
                              THEN timer[j] + 1 ELSE timer[j]]
  /\ UNCHANGED phase

Next ==
  \/ \E j \in Jobs : Ask(j) \/ Acquire(j) \/ Refused(j) \/ Release(j) \/ Die(j)
  \/ Tick

Spec == Init /\ [][Next]_vars

\* Time passes, a waiting job polls, a job inside its slot leaves it.
FairSpec ==
  /\ Spec /\ WF_vars(Tick)
  /\ \A j \in Jobs : WF_vars(Acquire(j) \/ Refused(j)) /\ WF_vars(Release(j))

-----------------------------------------------------------------------------
TypeOK ==
  /\ slots \subseteq Jobs
  /\ age \in [Jobs -> 0 .. AgeBound] /\ \A j \in Jobs \ slots : age[j] = 0
  /\ keyTtl \in 0 .. Ttl /\ (keyTtl = 0 <=> slots = {})
  /\ phase \in [Jobs -> {"idle", "waiting", "running"}]
  /\ timer \in [Jobs -> 0 .. MaxHold + MaxWait]

\* A slot is taken from its holder no sooner than Ttl - Skew after it joined:
\* of the jobs that entered within any such span, however long ago, at most
\* Limit are still inside, so that an overrun to MaxHold leaves at most
\* Limit * (MaxHold \div Fresh + 1) inside at once.
Fresh == Ttl - Skew
Entered(a) == {j \in Running : a <= timer[j] /\ timer[j] < a + Fresh}
SpanBound == \A a \in 0 .. MaxHold : Cardinality(Entered(a)) <= Limit

\* The sorted set, its scores, its pruning and its expiry are a semaphore whose
\* places are the caller's for Fresh ticks.
Recent == Entered(0)
Sem == INSTANCE Semaphore WITH inside <- Recent
ImplementsSemaphore == Sem!Spec

\* Every wait ends, with a slot or with OrgConcurrencyTimeout.
EveryWaitEnds == \A j \in Jobs : phase[j] = "waiting" ~> phase[j] # "waiting"

\* The slot of a holder that died "self-heals rather than permanently
\* occupying a slot", whatever the other jobs do.
SelfHeals == \A j \in Jobs : j \in slots /\ phase[j] # "running" ~> j \notin slots

=============================================================================
