---------------------------- MODULE LimitsProofs ----------------------------
(***************************************************************************)
(* Proofs about what is counted and limited: slots and caps in Redis,      *)
(* credits in Postgres.                                                    *)
(*                                                                         *)
(* OrgSlots, for every number of jobs, every limit, time to live and clock *)
(* skew.  The argument: a job that joined less than Ttl - Skew ago is      *)
(* still in the sorted set, because nobody's clock finds it stale yet, and *)
(* the sorted set never holds more than Limit.                             *)
(*                                                                         *)
(* ReplyCaps, for any number of handlers and any caps: how far the reply   *)
(* cap and the token cap can be overrun.                                   *)
(*                                                                         *)
(* Credits, for any accounts, amounts and number of requests: the ledger   *)
(* explains every balance that no overlap has touched, and even an overlap *)
(* neither takes an identity below 0 nor invents a spend.                  *)
(***************************************************************************)
EXTENDS OrgSlots, ReplyCaps, Credits, FiniteSetTheorems, TLAPS

-----------------------------------------------------------------------------
(* The slots of an org: its holders, counted.                              *)

LEMMA SubsetCard ==
  ASSUME NEW S, NEW T \in SUBSET S, IsFiniteSet(S)
  PROVE  /\ IsFiniteSet(T) /\ Cardinality(T) \in Nat /\ Cardinality(S) \in Nat
         /\ Cardinality(T) <= Cardinality(S)
  BY FS_Subset, FS_CardinalityType

LEMMA JobSets ==
  ASSUME NEW S \in SUBSET Jobs
  PROVE  /\ IsFiniteSet(S) /\ Cardinality(S) \in Nat
         /\ Cardinality(S) = 0 <=> S = {}
<1>1. IsFiniteSet(S)
  BY SubsetCard, SlotsAssumption
<1> QED
  BY <1>1, FS_CardinalityType, FS_EmptySet

LEMMA AddOne ==
  ASSUME NEW S \in SUBSET Jobs, NEW j \in Jobs
  PROVE  Cardinality(S \cup {j}) \in Nat /\ Cardinality(S \cup {j}) <= Cardinality(S) + 1
<1>1. S \cup {j} \in SUBSET Jobs
  OBVIOUS
<1>2. IsFiniteSet(S) /\ Cardinality(S) \in Nat
  BY JobSets
<1>5. Cardinality(S \cup {j}) \in Nat
  BY <1>1, JobSets
<1>3. CASE j \in S
  <2>1. S \cup {j} = S
    BY <1>3
  <2>2. Cardinality(S \cup {j}) = Cardinality(S)
    BY <2>1
  <2> QED
    BY <1>2, <1>5, <2>2
<1>4. CASE j \notin S
  <2>1. Cardinality(S \cup {j}) = Cardinality(S) + 1
    BY <1>2, <1>4, FS_AddElement
  <2> QED
    BY <1>2, <1>5, <2>1
<1> QED
  BY <1>3, <1>4

-----------------------------------------------------------------------------
(* Type correctness.                                                       *)

LEMMA TypeStep == TypeOK /\ [Next]_vars => TypeOK'
<1> SUFFICES ASSUME TypeOK, [Next]_vars PROVE TypeOK'
  OBVIOUS
<1> USE SlotsAssumption
<1>0. Jobs \in SUBSET Jobs /\ slots \in SUBSET Jobs
  BY DEF TypeOK
<1>1. ASSUME NEW j \in Jobs, Ask(j) PROVE TypeOK'
  BY <1>1 DEF TypeOK, Ask, Goto, AgeBound
<1>2. ASSUME NEW j \in Jobs, Acquire(j) PROVE TypeOK'
  <2>1. slots' \subseteq Jobs /\ slots' # {} /\ keyTtl' = Ttl
    BY <1>2 DEF TypeOK, Acquire, Keep
  <2>2. age' \in [Jobs -> 0 .. AgeBound] /\ \A k \in Jobs \ slots' : age'[k] = 0
    BY <1>2 DEF TypeOK, Acquire, Keep, AgeBound
  <2>3. phase' \in [Jobs -> {"idle", "waiting", "running"}] /\ timer' \in [Jobs -> 0 .. MaxHold + MaxWait]
    BY <1>2 DEF TypeOK, Acquire, Goto
  <2> QED
    BY <2>1, <2>2, <2>3 DEF TypeOK
<1>3. ASSUME NEW j \in Jobs, Refused(j) PROVE TypeOK'
  <2>1. slots' = slots \ Stale(j) /\ keyTtl' = keyTtl
    BY <1>3 DEF Refused, Keep
  <2>2. slots \ Stale(j) # {} /\ slots # {}
    <3>1. Cardinality(slots \ Stale(j)) # 0
      BY <1>0, <1>3, JobSets DEF Refused, Room
    <3> QED
      BY <1>0, <3>1, JobSets
  <2>3. age' \in [Jobs -> 0 .. AgeBound] /\ \A k \in Jobs \ slots' : age'[k] = 0
    BY <1>3 DEF TypeOK, Refused, Keep, AgeBound
  <2>4. phase' \in [Jobs -> {"idle", "waiting", "running"}] /\ timer' \in [Jobs -> 0 .. MaxHold + MaxWait]
    BY <1>3 DEF TypeOK, Refused, Goto
  <2> QED
    BY <2>1, <2>2, <2>3, <2>4 DEF TypeOK
<1>4. ASSUME NEW j \in Jobs, Release(j) PROVE TypeOK'
  <2>1. slots' = slots \ {j} /\ keyTtl' = IF slots \ {j} = {} THEN 0 ELSE keyTtl
    BY <1>4 DEF Release, Keep
  <2>2. age' \in [Jobs -> 0 .. AgeBound] /\ \A k \in Jobs \ slots' : age'[k] = 0
    BY <1>4 DEF TypeOK, Release, Keep, AgeBound
  <2>3. phase' \in [Jobs -> {"idle", "waiting", "running"}] /\ timer' \in [Jobs -> 0 .. MaxHold + MaxWait]
    BY <1>4 DEF TypeOK, Release, Goto
  <2> QED
    BY <2>1, <2>2, <2>3 DEF TypeOK
<1>5. ASSUME NEW j \in Jobs, Die(j) PROVE TypeOK'
  BY <1>5 DEF TypeOK, Die, Goto, AgeBound
<1>6. CASE Tick
  <2>1. slots' \subseteq Jobs /\ keyTtl' \in 0 .. Ttl /\ (keyTtl' = 0 <=> slots' = {})
    BY <1>6 DEF TypeOK, Tick
  <2>2. age' \in [Jobs -> 0 .. AgeBound] /\ \A k \in Jobs \ slots' : age'[k] = 0
    BY <1>6 DEF TypeOK, Tick, AgeBound
  <2>3. timer' \in [Jobs -> 0 .. MaxHold + MaxWait]
    BY <1>6 DEF TypeOK, Tick, Running
  <2> QED
    BY <1>6, <2>1, <2>2, <2>3 DEF TypeOK, Tick
<1>7. CASE UNCHANGED vars
  BY <1>7 DEF TypeOK, vars
<1> QED
  BY <1>1, <1>2, <1>3, <1>4, <1>5, <1>6, <1>7 DEF Next

\* Type correctness of the slots.
THEOREM SlotsTypeOK == Spec => []TypeOK
<1>1. Init => TypeOK
  BY SlotsAssumption DEF Init, TypeOK, AgeBound
<1> QED
  BY <1>1, TypeStep, PTL DEF Spec

-----------------------------------------------------------------------------
(* The sorted set stays within the limit, and keeps everyone who joined    *)
(* less than Fresh ago.                                                    *)

HolderInv ==
  /\ Cardinality(slots) <= Limit
  /\ \A j \in Running : timer[j] < Fresh => j \in slots /\ age[j] = timer[j]
  /\ \A j \in slots : keyTtl + age[j] >= Ttl
  /\ \A j \in slots : phase[j] # "waiting"

\* No process's clock finds a holder stale that joined less than Fresh ago.
LEMMA FreshIsNotStale ==
  ASSUME TypeOK, HolderInv, NEW j \in Jobs, NEW k \in Running, timer[k] < Fresh
  PROVE  k \in slots \ Stale(j) /\ age[k] = timer[k]
<1>1. k \in Jobs /\ k \in slots /\ age[k] = timer[k]
  BY DEF HolderInv, Running
<1>2. Offset[j] \in 0 .. Skew /\ Offset[k] \in 0 .. Skew /\ age[k] \in Nat
  BY <1>1, SlotsAssumption DEF TypeOK, AgeBound
<1>3. age[k] + Offset[j] - Offset[k] < Ttl
  BY <1>1, <1>2, SlotsAssumption DEF Fresh
<1> QED
  BY <1>1, <1>2, <1>3, SlotsAssumption DEF Stale

LEMMA HolderStep == TypeOK /\ HolderInv /\ [Next]_vars => HolderInv'
<1> SUFFICES ASSUME TypeOK, HolderInv, [Next]_vars PROVE HolderInv'
  OBVIOUS
<1> USE SlotsAssumption
<1>0. /\ slots \in SUBSET Jobs /\ IsFiniteSet(slots)
      /\ Ttl \in Nat /\ Fresh \in Int /\ Fresh <= Ttl
      /\ \A j \in Jobs : timer[j] \in Nat /\ age[j] \in Nat
  BY JobSets DEF TypeOK, Fresh, AgeBound
<1>1. ASSUME NEW j \in Jobs, Ask(j) PROVE HolderInv'
  BY <1>1 DEF TypeOK, HolderInv, Ask, Goto, Running, Fresh
<1>2. ASSUME NEW j \in Jobs, Acquire(j) PROVE HolderInv'
  <2> DEFINE left == slots \ Stale(j)
  <2>1. /\ slots' = left \cup {j} /\ keyTtl' = Ttl
        /\ \A k \in Jobs : age'[k] = IF k \in (left \cup {j}) \cap slots THEN age[k] ELSE 0
        /\ phase' = [phase EXCEPT ![j] = "running"] /\ timer' = [timer EXCEPT ![j] = 0]
        /\ phase[j] = "waiting"
    BY <1>2 DEF Acquire, Keep, Goto
  <2>2. Cardinality(slots') <= Limit
    <3>1. left \in SUBSET Jobs /\ Cardinality(left) < Limit
      BY <1>0, <1>2 DEF Acquire, Room
    <3>2. Cardinality(left) \in Nat
      BY <3>1, JobSets
    <3>3. Cardinality(left \cup {j}) \in Nat /\ Cardinality(left \cup {j}) <= Cardinality(left) + 1
      BY <3>1, AddOne
    <3> QED
      BY <2>1, <3>1, <3>2, <3>3
  <2>3. j \notin slots /\ timer'[j] = 0 /\ age'[j] = 0
    BY <1>0, <2>1 DEF HolderInv, TypeOK
  <2>4. ASSUME NEW k \in Running', timer'[k] < Fresh
        PROVE  k \in slots' /\ age'[k] = timer'[k]
    <3>1. CASE k = j
      BY <2>1, <2>3, <3>1
    <3>2. CASE k # j
      <4>1. k \in Running /\ timer'[k] = timer[k]
        BY <2>1, <3>2 DEF Running, TypeOK
      <4>2. k \in left /\ age[k] = timer[k]
        BY <2>4, <4>1, FreshIsNotStale
      <4> QED
        BY <2>1, <4>1, <4>2 DEF Running
    <3> QED
      BY <3>1, <3>2
  <2>5. ASSUME NEW k \in slots' PROVE keyTtl' + age'[k] >= Ttl /\ phase'[k] # "waiting"
    BY <1>0, <2>1, <2>3 DEF HolderInv, TypeOK
  <2> QED
    BY <2>2, <2>4, <2>5 DEF HolderInv, Fresh
<1>3. ASSUME NEW j \in Jobs, Refused(j) PROVE HolderInv'
  <2> DEFINE left == slots \ Stale(j)
  <2>1. /\ slots' = left /\ keyTtl' = keyTtl /\ phase[j] = "waiting"
        /\ \A k \in Jobs : age'[k] = IF k \in left THEN age[k] ELSE 0
        /\ \A k \in Jobs \ {j} : phase'[k] = phase[k] /\ timer'[k] = timer[k]
        /\ phase'[j] \in {"idle", "waiting"}
    BY <1>3 DEF TypeOK, Refused, Keep, Goto
  <2>2. Cardinality(slots') <= Limit
    <3>1. Cardinality(left) <= Cardinality(slots) /\ Cardinality(left) \in Nat /\ Cardinality(slots) \in Nat
      BY <1>0, SubsetCard
    <3> QED
      BY <2>1, <3>1 DEF HolderInv
  <2>3. ASSUME NEW k \in Running', timer'[k] < Fresh
        PROVE  k \in slots' /\ age'[k] = timer'[k]
    <3>1. k \in Running /\ timer'[k] = timer[k]
      BY <2>1 DEF Running
    <3>2. k \in left /\ age[k] = timer[k]
      BY <2>3, <3>1, FreshIsNotStale
    <3> QED
      BY <2>1, <3>1, <3>2 DEF Running
  <2>4. ASSUME NEW k \in slots' PROVE keyTtl' + age'[k] >= Ttl /\ phase'[k] # "waiting"
    BY <1>0, <2>1 DEF HolderInv
  <2> QED
    BY <2>2, <2>3, <2>4 DEF HolderInv, Fresh
<1>4. ASSUME NEW j \in Jobs, Release(j) PROVE HolderInv'
  <2>1. /\ slots' = slots \ {j} /\ (slots' # {} => keyTtl' = keyTtl)
        /\ \A k \in slots' : age'[k] = age[k]
        /\ phase' = [phase EXCEPT ![j] = "idle"] /\ timer' = [timer EXCEPT ![j] = 0]
    BY <1>0, <1>4 DEF Release, Keep, Goto
  <2>2. Cardinality(slots') <= Limit
    <3>1. Cardinality(slots \ {j}) <= Cardinality(slots) /\ Cardinality(slots) \in Nat
          /\ Cardinality(slots \ {j}) \in Nat
      BY <1>0, SubsetCard
    <3> QED
      BY <2>1, <3>1 DEF HolderInv
  <2>3. ASSUME NEW k \in Running', timer'[k] < Fresh
        PROVE  k \in slots' /\ age'[k] = timer'[k]
    BY <1>0, <2>1, <2>3 DEF TypeOK, HolderInv, Running
  <2>4. ASSUME NEW k \in slots' PROVE keyTtl' + age'[k] >= Ttl /\ phase'[k] # "waiting"
    BY <1>0, <2>1 DEF TypeOK, HolderInv
  <2> QED
    BY <2>2, <2>3, <2>4 DEF HolderInv, Fresh
<1>5. ASSUME NEW j \in Jobs, Die(j) PROVE HolderInv'
  BY <1>5 DEF TypeOK, HolderInv, Die, Goto, Running, Fresh
<1>6. CASE Tick
  <2>1. /\ slots' = IF keyTtl = 1 THEN {} ELSE slots
        /\ slots' # {} => keyTtl' = keyTtl - 1
        /\ phase' = phase
        /\ \A k \in slots' : age'[k] = IF age[k] < AgeBound THEN age[k] + 1 ELSE AgeBound
        /\ \A k \in Running : timer'[k] = timer[k] + 1
    BY <1>0, <1>6 DEF Tick, TypeOK, Running
  <2>2. Cardinality(slots') <= Limit
    <3>1. Cardinality({}) = 0
      BY FS_EmptySet
    <3> QED
      BY <2>1, <3>1 DEF HolderInv
  <2>3. ASSUME NEW k \in Running', timer'[k] < Fresh
        PROVE  k \in slots' /\ age'[k] = timer'[k]
    <3>1. k \in Running /\ k \in Jobs /\ timer[k] < Fresh /\ timer[k] \in Nat /\ timer'[k] = timer[k] + 1
      BY <1>0, <2>1, <2>3 DEF Running
    <3>2. k \in slots /\ age[k] = timer[k]
      BY <3>1 DEF HolderInv
    <3>3. keyTtl # 1
      <4>1. keyTtl + age[k] >= Ttl
        BY <3>2 DEF HolderInv
      <4> QED
        BY <1>0, <2>3, <3>1, <3>2, <4>1
    <3>4. age[k] < AgeBound
      BY <1>0, <3>1, <3>2 DEF AgeBound
    <3> QED
      BY <2>1, <3>1, <3>2, <3>3, <3>4
  <2>4. ASSUME NEW k \in slots' PROVE keyTtl' + age'[k] >= Ttl /\ phase'[k] # "waiting"
    <3>1. k \in slots /\ keyTtl + age[k] >= Ttl /\ phase[k] # "waiting" /\ keyTtl' = keyTtl - 1
      BY <2>1 DEF HolderInv
    <3>2. keyTtl \in Nat /\ keyTtl # 0 /\ age[k] \in 0 .. AgeBound
      BY <3>1 DEF TypeOK
    <3> QED
      BY <1>0, <2>1, <3>1, <3>2 DEF AgeBound
  <2> QED
    BY <2>2, <2>3, <2>4 DEF HolderInv, Fresh
<1>7. CASE UNCHANGED vars
  BY <1>7 DEF HolderInv, vars, Running, Fresh
<1> QED
  BY <1>1, <1>2, <1>3, <1>4, <1>5, <1>6, <1>7 DEF Next

LEMMA HolderInvHolds == Spec => []HolderInv
<1>1. Init => HolderInv
  BY SlotsAssumption, FS_EmptySet DEF Init, HolderInv, Running
<1> QED
  BY <1>1, HolderStep, SlotsTypeOK, PTL DEF Spec

-----------------------------------------------------------------------------
(* Of the jobs that entered within Fresh ticks of each other at most Limit *)
(* are still inside: when the youngest of them entered, all had a slot.    *)

SpanInv == \A a \in Nat : Cardinality(Entered(a)) <= Limit

LEMMA SpanStep == TypeOK /\ HolderInv /\ HolderInv' /\ TypeOK' /\ SpanInv /\ [Next]_vars => SpanInv'
<1> SUFFICES ASSUME TypeOK, HolderInv, HolderInv', TypeOK', SpanInv, [Next]_vars, NEW a \in Nat
             PROVE  Cardinality(Entered(a)') <= Limit
  BY DEF SpanInv
<1> USE SlotsAssumption
<1>0. /\ \A j \in Jobs : timer[j] \in Nat /\ timer'[j] \in Nat
      /\ Fresh \in Int /\ Fresh' = Fresh
      /\ Entered(a)' \in SUBSET Jobs
  BY DEF TypeOK, Fresh, Entered, Running
<1>1. ASSUME NEW b \in Nat, Entered(a)' \subseteq Entered(b)
      PROVE  Cardinality(Entered(a)') <= Limit
  <2>1. Entered(b) \in SUBSET Jobs
    BY DEF Entered, Running
  <2>2. IsFiniteSet(Entered(b)) /\ Cardinality(Entered(b)) \in Nat
    BY <2>1, JobSets
  <2>3. Cardinality(Entered(a)') <= Cardinality(Entered(b)) /\ Cardinality(Entered(a)') \in Nat
    BY <1>0, <1>1, <2>2, JobSets, FS_Subset
  <2> QED
    BY <2>2, <2>3 DEF SpanInv
<1>2. CASE a = 0
  <2>1. Entered(a)' \in SUBSET slots'
    BY <1>0, <1>2 DEF Entered, HolderInv
  <2>2. slots' \in SUBSET Jobs /\ IsFiniteSet(slots') /\ Cardinality(slots') \in Nat
    BY JobSets DEF TypeOK
  <2>3. Cardinality(Entered(a)') <= Cardinality(slots') /\ Cardinality(Entered(a)') \in Nat
    BY <1>0, <2>1, <2>2, JobSets, FS_Subset
  <2> QED
    BY <2>2, <2>3 DEF HolderInv
<1>3. CASE a # 0
  <2>1. ASSUME \A j \in Running' : timer'[j] = 0 \/ (j \in Running /\ timer'[j] = timer[j])
        PROVE  Cardinality(Entered(a)') <= Limit
    <3>1. Entered(a)' \subseteq Entered(a)
      BY <1>0, <1>3, <2>1 DEF Entered, Running
    <3> QED
      BY <1>1, <3>1
  <2>2. ASSUME NEW j \in Jobs, Ask(j) \/ Acquire(j) \/ Refused(j) \/ Release(j) \/ Die(j)
        PROVE  Cardinality(Entered(a)') <= Limit
    <3>1. \/ phase' = phase /\ timer' = timer
          \/ \E p \in {"idle", "waiting", "running"} : Goto(j, p)
      BY <2>2 DEF Ask, Acquire, Refused, Release, Die
    <3>2. \A k \in Running' : timer'[k] = 0 \/ (k \in Running /\ timer'[k] = timer[k])
      BY <3>1 DEF Goto, Running, TypeOK
    <3> QED
      BY <2>1, <3>2
  <2>3. CASE Tick
    <3>1. a - 1 \in Nat
      BY <1>3
    <3>2. \A k \in Running' : k \in Running /\ timer'[k] = timer[k] + 1
      BY <2>3 DEF Tick, Running
    <3>3. Entered(a)' \subseteq Entered(a - 1)
      BY <1>0, <3>1, <3>2 DEF Entered, Running
    <3> QED
      BY <1>1, <3>1, <3>3
  <2>4. CASE UNCHANGED vars
    BY <2>1, <2>4 DEF vars, Running
  <2> QED
    BY <2>2, <2>3, <2>4 DEF Next
<1> QED
  BY <1>2, <1>3

\* At most Limit jobs per generation of slots are inside, for every limit,
\* time to live and skew, however long jobs stay.
THEOREM SlotsPerSpan == Spec => []SpanBound
<1>1. Init => SpanInv
  <2> SUFFICES ASSUME Init, NEW a \in Nat PROVE Cardinality(Entered(a)) <= Limit
    BY DEF SpanInv
  <2>1. Entered(a) = {}
    BY DEF Init, Entered, Running
  <2> QED
    BY <2>1, FS_EmptySet, SlotsAssumption
<1>2. SpanInv => SpanBound
  BY SlotsAssumption DEF SpanInv, SpanBound
<1> QED
  BY <1>1, <1>2, SpanStep, HolderInvHolds, SlotsTypeOK, PTL DEF Spec

-----------------------------------------------------------------------------
(* The refinement: joining enters, and whoever leaves the slot, dies in it *)
(* or has been in it for Fresh ticks leaves.                               *)

LEMMA EnterStep ==
  ASSUME TypeOK, HolderInv, NEW j \in Jobs, Acquire(j)
  PROVE  Sem!Enter(j) \/ UNCHANGED Recent
<1>1. Running' = Running \cup {j} /\ j \notin Running
  BY DEF Acquire, Goto, Running, TypeOK
<1>2. timer' = [timer EXCEPT ![j] = 0] /\ j \in DOMAIN timer
  BY DEF Acquire, Goto, TypeOK
<1>3. Fresh \in Int /\ Fresh' = Fresh
  BY SlotsAssumption DEF Fresh
<1>4. CASE Fresh <= 0
  <2>1. Recent = {} /\ Recent' = {}
    BY <1>3, <1>4, SlotsAssumption DEF Recent, Entered, Running, TypeOK, Acquire, Goto
  <2> QED
    BY <2>1
<1>5. CASE Fresh > 0
  <2>1. j \notin Recent /\ Recent' = Recent \cup {j}
    BY <1>1, <1>2, <1>3, <1>5 DEF Recent, Entered, Running
  <2>2. Recent \in SUBSET (slots \ Stale(j)) /\ slots \ Stale(j) \in SUBSET Jobs
    <3>1. ASSUME NEW k \in Recent PROVE k \in slots \ Stale(j)
      <4>1. k \in Running /\ timer[k] < Fresh
        BY <1>3, <3>1, SlotsAssumption DEF Recent, Entered, Running, TypeOK
      <4> QED
        BY <4>1, FreshIsNotStale
    <3>2. slots \ Stale(j) \in SUBSET Jobs
      BY DEF TypeOK
    <3> QED
      BY <3>1, <3>2
  <2>3. Cardinality(Recent) \in Nat /\ Cardinality(slots \ Stale(j)) \in Nat
        /\ Cardinality(Recent) <= Cardinality(slots \ Stale(j))
    BY <2>2, JobSets, SubsetCard
  <2>4. Cardinality(slots \ Stale(j)) < Limit
    BY DEF Acquire, Room
  <2>5. Cardinality(Recent) < Limit
    BY <2>3, <2>4, SlotsAssumption
  <2> QED
    BY <2>1, <2>5 DEF Sem!Enter, Sem!Cardinality, Sem!IsFiniteSet, Cardinality
<1> QED
  BY <1>3, <1>4, <1>5

LEMMA LeaveStep ==
  ASSUME Recent' \subseteq Recent
  PROVE  Sem!Next \/ UNCHANGED Recent
<1> DEFINE gone == Recent \ Recent'
<1>1. gone \in SUBSET Recent /\ Recent' = Recent \ gone
  OBVIOUS
<1>2. CASE gone = {}
  BY <1>1, <1>2
<1>3. CASE gone # {}
  <2>1. Sem!Leave(gone)
    BY <1>1, <1>3 DEF Sem!Leave
  <2> QED
    BY <1>1, <2>1 DEF Sem!Next
<1> QED
  BY <1>2, <1>3

\* For every number of jobs, limit, time to live, clock skew and length of
\* stay, the sorted set, its polling and its expiries implement a semaphore
\* whose places are kept for Ttl - Skew ticks.
THEOREM SlotsImplementSemaphore == Spec => ImplementsSemaphore
<1>1. Init => Recent = {}
  BY DEF Init, Recent, Entered, Running
<1>2. TypeOK /\ HolderInv /\ [Next]_vars => [Sem!Next]_Recent
  <2> SUFFICES ASSUME TypeOK, HolderInv, [Next]_vars
               PROVE  Sem!Next \/ UNCHANGED Recent
    OBVIOUS
  <2>1. ASSUME NEW j \in Jobs, Acquire(j) PROVE Sem!Next \/ UNCHANGED Recent
    BY <2>1, EnterStep DEF Sem!Next
  <2>2. ASSUME NEW j \in Jobs, Ask(j) \/ Refused(j) \/ Release(j) \/ Die(j)
        PROVE  Sem!Next \/ UNCHANGED Recent
    <3>1. \A k \in Running' : k \in Running /\ timer'[k] = timer[k]
      BY <2>2 DEF Ask, Refused, Release, Die, Goto, Running, TypeOK
    <3>2. Recent' \subseteq Recent
      BY <3>1 DEF Recent, Entered, Fresh
    <3> QED
      BY <3>2, LeaveStep
  <2>3. CASE Tick
    <3>1. \A k \in Running' : k \in Running /\ timer'[k] = timer[k] + 1 /\ timer[k] \in Nat
      BY <2>3, SlotsAssumption DEF Tick, Running, TypeOK
    <3>2. Recent' \subseteq Recent
      BY <3>1, SlotsAssumption DEF Recent, Entered, Fresh
    <3> QED
      BY <3>2, LeaveStep
  <2>4. CASE UNCHANGED vars
    BY <2>4 DEF vars, Recent, Entered, Running, Fresh
  <2> QED
    BY <2>1, <2>2, <2>3, <2>4 DEF Next
<1>3. Recent = {} => Sem!Init
  BY DEF Sem!Init
<1> QED
  BY <1>1, <1>2, <1>3, SlotsTypeOK, HolderInvHolds, PTL DEF Spec, ImplementsSemaphore, Sem!Spec

-----------------------------------------------------------------------------
(* The daily caps of an identity: what is counted, and what is not yet.    *)

\* Handlers that have passed the reply cap, and those that have sent too.
InFlight == {t \in Tasks : step[t] \in {"generate", "translate", "send", "count"}}
Uncounted == {t \in Tasks : step[t] = "count"}

\* How many Gemini calls a handler's message can still make.
CallsLeft(s) == CASE s = "clarify" -> 4
                  [] s = "tone" -> 3
                  [] s \in {"record", "generate"} -> 2
                  [] s = "translate" -> 1
                  [] OTHER -> 0

CountInv ==
  /\ sent <= replies + Cardinality(Uncounted) + uncounted
  /\ replies + Cardinality(InFlight) <= ReplyCap + Cardinality(Tasks) - 1
  /\ ReplyCap = 0 => InFlight = {}

CallInv ==
  /\ tokens < TokenCap => \A t \in Tasks : overCalls[t] = 0
  /\ \A t \in Tasks :
       /\ overCalls[t] <= 4
       /\ over[t] => step[t] \in {"idle", "record"}
       /\ ~over[t] => overCalls[t] + CallsLeft(step[t]) <= 4 \/ step[t] = "idle"

-----------------------------------------------------------------------------
\* A handler's step leaves the other handlers where they are.
TaskNext(t) ==
  \/ Arrive(t) \/ Clarify(t) \/ Tone(t) \/ Record(t)
  \/ Generate(t) \/ Translate(t) \/ Send(t) \/ CountReply(t) \/ Fails(t)

LEMMA CapsNextCases ==
  CapsNext <=> (\E t \in Tasks : TaskNext(t)) \/ ManualReply \/ Midnight
  BY DEF CapsNext, TaskNext

\* The type invariant: every counter stays a natural number and every handler
\* at one of the steps of receive_inbound_message.
THEOREM CapsAreTyped == CapsSpec => []CapsTypeOK
<1>1. CapsInit => CapsTypeOK
  BY DEF CapsInit, CapsTypeOK
<1>2. CapsTypeOK /\ [CapsNext]_capsVars => CapsTypeOK'
  <2> SUFFICES ASSUME CapsTypeOK, [CapsNext]_capsVars PROVE CapsTypeOK'
    OBVIOUS
  <2> USE CapsAssumption
  <2>1. ASSUME NEW t \in Tasks, Arrive(t) PROVE CapsTypeOK'
    BY <2>1 DEF CapsTypeOK, Arrive, Moves
  <2>2. ASSUME NEW t \in Tasks, Clarify(t) PROVE CapsTypeOK'
    BY <2>2 DEF CapsTypeOK, Clarify, Call, Moves
  <2>3. ASSUME NEW t \in Tasks, Tone(t) \/ Generate(t) \/ Translate(t) PROVE CapsTypeOK'
    BY <2>3 DEF CapsTypeOK, Tone, Generate, Translate, Call, Moves
  <2>4. ASSUME NEW t \in Tasks, Record(t) PROVE CapsTypeOK'
    BY <2>4 DEF CapsTypeOK, Record, Moves
  <2>5. ASSUME NEW t \in Tasks, Send(t) \/ CountReply(t) PROVE CapsTypeOK'
    BY <2>5 DEF CapsTypeOK, Send, CountReply, Moves
  <2>6. ASSUME NEW t \in Tasks, Fails(t) PROVE CapsTypeOK'
    BY <2>6 DEF CapsTypeOK, Fails
  <2>7. CASE ManualReply
    BY <2>7 DEF CapsTypeOK, ManualReply
  <2>8. CASE Midnight
    BY <2>8 DEF CapsTypeOK, Midnight
  <2>9. CASE UNCHANGED capsVars
    BY <2>9 DEF CapsTypeOK, capsVars
  <2> QED
    BY <2>1, <2>2, <2>3, <2>4, <2>5, <2>6, <2>7, <2>8, <2>9, CapsNextCases DEF TaskNext
<1> QED
  BY <1>1, <1>2, PTL DEF CapsSpec

-----------------------------------------------------------------------------
\* What the token counter's stale reads allow, handler by handler.
LEMMA CallInvStep == CapsTypeOK /\ CallInv /\ [CapsNext]_capsVars => CallInv'
<1> SUFFICES ASSUME CapsTypeOK, CallInv, [CapsNext]_capsVars PROVE CallInv'
  OBVIOUS
<1> USE CapsAssumption
<1>1. ASSUME NEW t \in Tasks, Arrive(t) PROVE CallInv'
  <2>1. CASE tokens >= TokenCap
    <3>1. step' = [step EXCEPT ![t] = "record"] /\ UNCHANGED <<tokens, overCalls>>
          /\ over' = [over EXCEPT ![t] = TRUE]
      BY <1>1, <2>1 DEF Arrive, Moves
    <3>2. \A u \in Tasks \ {t} : over'[u] = over[u] /\ step'[u] = step[u]
      BY <3>1 DEF CapsTypeOK
    <3>3. over'[t] /\ step'[t] = "record"
      BY <3>1 DEF CapsTypeOK
    <3>4. ASSUME NEW u \in Tasks
          PROVE /\ overCalls'[u] <= 4
                /\ over'[u] => step'[u] \in {"idle", "record"}
                /\ ~over'[u] => overCalls'[u] + CallsLeft(step'[u]) <= 4 \/ step'[u] = "idle"
      <4>1. CASE u = t
        BY <4>1, <3>1, <3>3 DEF CallInv
      <4>2. CASE u # t
        BY <4>2, <3>1, <3>2 DEF CallInv
      <4> QED
        BY <4>1, <4>2
    <3> QED
      BY <3>1, <3>4 DEF CallInv
  <2>2. CASE tokens < TokenCap
    <3>1. overCalls'[t] = 0 /\ step' = [step EXCEPT ![t] = "clarify"]
          /\ over' = [over EXCEPT ![t] = FALSE] /\ UNCHANGED <<tokens, overCalls>>
      <4>1. (tokens >= TokenCap) = FALSE
        BY <2>2 DEF CapsTypeOK
      <4>2. overCalls[t] = 0
        BY <2>2 DEF CallInv
      <4> QED
        BY <1>1, <4>1, <4>2 DEF Arrive, Moves
    <3> QED
      BY <3>1, <2>2 DEF CapsTypeOK, CallInv, CallsLeft
  <2> QED
    BY <2>1, <2>2 DEF CapsTypeOK
<1>2. ASSUME NEW t \in Tasks, Call(t), step[t] # "idle", ~over[t],
             NEW to \in {"tone", "record", "translate", "send"},
             step' = [step EXCEPT ![t] = to], CallsLeft(to) < CallsLeft(step[t])
      PROVE CallInv'
  <2>1. tokens \in Nat /\ tokens' \in Nat /\ tokens <= tokens'
    BY <1>2 DEF CapsTypeOK, Call
  <2>2. overCalls' = [overCalls EXCEPT ![t] = IF tokens >= TokenCap THEN @ + 1 ELSE @]
        /\ over' = over
    BY <1>2 DEF Call
  <2>3. (tokens < TokenCap)' => \A u \in Tasks : overCalls'[u] = 0
    BY <2>1, <2>2 DEF CapsTypeOK, CallInv
  <2>4. \A s : CallsLeft(s) \in 0 .. 4
    BY DEF CallsLeft
  <2>5. overCalls'[t] + CallsLeft(to) <= 4 /\ overCalls'[t] <= 4
    BY <1>2, <2>2, <2>4 DEF CapsTypeOK, CallInv
  <2> QED
    BY <1>2, <2>2, <2>3, <2>5 DEF CapsTypeOK, CallInv
<1>3. ASSUME NEW t \in Tasks, Clarify(t) PROVE CallInv'
  <2>1. step[t] = "clarify" /\ ~over[t] /\ Call(t)
    BY <1>3 DEF Clarify, Moves, CallInv
  <2>2. PICK to \in {"tone", "record"} : step' = [step EXCEPT ![t] = to]
    BY <1>3 DEF Clarify, Moves
  <2>3. CallsLeft(to) < CallsLeft(step[t])
    BY <2>1 DEF CallsLeft
  <2> QED
    BY <1>2, <2>1, <2>2, <2>3
<1>4. ASSUME NEW t \in Tasks, Tone(t) \/ Generate(t) \/ Translate(t) PROVE CallInv'
  <2>1. step[t] \in {"tone", "generate", "translate"} /\ ~over[t] /\ Call(t)
    BY <1>4 DEF Tone, Generate, Translate, Moves, CallInv
  <2>2. PICK to \in {"record", "translate", "send"} :
          step' = [step EXCEPT ![t] = to] /\ CallsLeft(to) < CallsLeft(step[t])
    BY <1>4 DEF Tone, Generate, Translate, Moves, CallsLeft
  <2> QED
    BY <1>2, <2>1, <2>2
<1>5. ASSUME NEW t \in Tasks, Record(t) PROVE CallInv'
  BY <1>5 DEF CapsTypeOK, CallInv, Record, Moves, CallsLeft
<1>6. ASSUME NEW t \in Tasks, Send(t) \/ CountReply(t) PROVE CallInv'
  BY <1>6 DEF CapsTypeOK, CallInv, Send, CountReply, Moves, CallsLeft
<1>7. ASSUME NEW t \in Tasks, Fails(t) PROVE CallInv'
  BY <1>7 DEF CapsTypeOK, CallInv, Fails, CallsLeft
<1>8. CASE ManualReply
  BY <1>8 DEF CapsTypeOK, CallInv, ManualReply
<1>9. CASE Midnight
  <2>1. \A s : CallsLeft(s) \in 0 .. 4
    BY DEF CallsLeft
  <2> QED
    BY <1>9, <2>1 DEF CapsTypeOK, CallInv, Midnight
<1>10. CASE UNCHANGED capsVars
  BY <1>10 DEF CallInv, capsVars
<1> QED
  BY <1>1, <1>3, <1>4, <1>5, <1>6, <1>7, <1>8, <1>9, <1>10, CapsNextCases DEF TaskNext

\* However many handlers run, none begins more than the four Gemini calls of
\* one message after the day's token cap has been reached.
THEOREM TokenOvershoot == CapsSpec => []StaleCalls
<1>1. CapsInit => CallInv
  BY CapsAssumption DEF CapsInit, CallInv
<1>2. CallInv => StaleCalls
  BY DEF CallInv, StaleCalls
<1> QED
  BY <1>1, <1>2, CallInvStep, CapsAreTyped, PTL DEF CapsSpec

-----------------------------------------------------------------------------
\* A handler in flight stands for one reply that is not counted yet.
LEMMA FlightFinite ==
  /\ IsFiniteSet(InFlight) /\ IsFiniteSet(InFlight')
  /\ IsFiniteSet(Uncounted) /\ IsFiniteSet(Uncounted')
  /\ Cardinality(InFlight) \in Nat /\ Cardinality(InFlight') \in Nat
  /\ Cardinality(Uncounted) \in Nat /\ Cardinality(Uncounted') \in Nat
  /\ Cardinality(Uncounted) <= Cardinality(InFlight)
  /\ Cardinality(InFlight) <= Cardinality(Tasks)
  /\ Cardinality(InFlight') <= Cardinality(Tasks)
  /\ Cardinality(Tasks) \in Nat \ {0}
<1>1. IsFiniteSet(Tasks) /\ Cardinality(Tasks) \in Nat \ {0}
  BY CapsAssumption, FS_CardinalityType, FS_EmptySet
<1>2. InFlight \in SUBSET Tasks /\ InFlight' \in SUBSET Tasks /\ Uncounted' \in SUBSET Tasks
  BY DEF InFlight, Uncounted
<1>3. Uncounted \in SUBSET InFlight
  BY DEF InFlight, Uncounted
<1>4. IsFiniteSet(InFlight) /\ IsFiniteSet(InFlight') /\ IsFiniteSet(Uncounted')
  BY <1>1, <1>2, FS_Subset
<1> QED
  BY <1>1, <1>2, <1>3, <1>4, FS_Subset, FS_CardinalityType

\* A handler whose move changes neither set, counter nor fault keeps the balance.
LEMMA CountInvStep == CapsTypeOK /\ CountInv /\ [CapsNext]_capsVars => CountInv'
<1> SUFFICES ASSUME CapsTypeOK, CountInv, [CapsNext]_capsVars PROVE CountInv'
  OBVIOUS
<1> USE CapsAssumption, FlightFinite
<1>1. ASSUME InFlight' \in SUBSET InFlight, Uncounted' = Uncounted,
             UNCHANGED <<replies, sent, uncounted>>
      PROVE CountInv'
  BY <1>1, FS_Subset DEF CapsTypeOK, CountInv
<1>2. ASSUME NEW t \in Tasks, NEW to, step[t] # "count", to # "count",
             step' = [step EXCEPT ![t] = to],
             to \in {"generate", "translate", "send"} =>
               step[t] \in {"generate", "translate", "send"},
             UNCHANGED <<replies, sent, uncounted>>
      PROVE CountInv'
  <2>1. InFlight' \in SUBSET InFlight /\ Uncounted' = Uncounted
    BY <1>2 DEF CapsTypeOK, InFlight, Uncounted
  <2> QED
    BY <1>1, <1>2, <2>1
<1>3. ASSUME NEW t \in Tasks, Arrive(t) \/ Clarify(t) PROVE CountInv'
  <2>1. PICK to \in {"record", "clarify", "tone"} : step' = [step EXCEPT ![t] = to]
    BY <1>3 DEF Arrive, Clarify, Moves
  <2>2. step[t] \in {"idle", "clarify"} /\ UNCHANGED <<replies, sent, uncounted>>
    BY <1>3 DEF Arrive, Clarify, Call, Moves
  <2>3. to # "count" /\ to \notin {"generate", "translate", "send"} /\ step[t] # "count"
    BY <2>1, <2>2
  <2> HIDE CapsAssumption, FlightFinite
  <2> QED
    BY <2>1, <2>2, <2>3, <1>2
<1>4. ASSUME NEW t \in Tasks, Tone(t) \/ Generate(t) \/ Translate(t) PROVE CountInv'
  BY <1>4, <1>2 DEF Tone, Generate, Translate, Call, Moves
<1>5. ASSUME NEW t \in Tasks, Record(t) PROVE CountInv'
  <2>1. CASE Moves(t, "record", "idle")
    BY <1>5, <2>1, <1>2 DEF Record, Moves
  <2>2. CASE replies < ReplyCap /\ Moves(t, "record", "generate")
    <3>1. Uncounted' = Uncounted
      BY <2>2 DEF CapsTypeOK, Uncounted, Moves
    <3>2. UNCHANGED <<replies, sent, uncounted>>
      BY <1>5 DEF Record
    <3> QED
      BY <2>2, <3>1, <3>2 DEF CapsTypeOK, CountInv
  <2> QED
    BY <1>5, <2>1, <2>2 DEF Record
<1>6. ASSUME NEW t \in Tasks, Send(t) PROVE CountInv'
  <2>1. InFlight' = InFlight /\ Uncounted' = Uncounted \cup {t} /\ t \notin Uncounted
    BY <1>6 DEF CapsTypeOK, Send, Moves, InFlight, Uncounted
  <2>2. Cardinality(Uncounted') = Cardinality(Uncounted) + 1
    BY <2>1, FS_AddElement
  <2> QED
    BY <1>6, <2>1, <2>2 DEF CapsTypeOK, CountInv, Send
<1>7. ASSUME NEW t \in Tasks, step[t] = "count", step' = [step EXCEPT ![t] = "idle"]
      PROVE /\ Cardinality(InFlight') = Cardinality(InFlight) - 1
            /\ Cardinality(Uncounted') = Cardinality(Uncounted) - 1
            /\ InFlight # {}
  <2>1. /\ InFlight' = InFlight \ {t} /\ t \in InFlight
        /\ Uncounted' = Uncounted \ {t} /\ t \in Uncounted
    BY <1>7 DEF CapsTypeOK, InFlight, Uncounted
  <2> QED
    BY <2>1, FS_RemoveElement
<1>8. ASSUME NEW t \in Tasks, CountReply(t) PROVE CountInv'
  <2>1. step[t] = "count" /\ step' = [step EXCEPT ![t] = "idle"]
        /\ replies' = replies + 1 /\ UNCHANGED <<sent, uncounted>>
    BY <1>8 DEF CountReply, Moves
  <2>2. /\ Cardinality(InFlight') = Cardinality(InFlight) - 1
        /\ Cardinality(Uncounted') = Cardinality(Uncounted) - 1
        /\ InFlight # {}
    BY <2>1, <1>7
  <2> HIDE FlightFinite
  <2>3. Cardinality(InFlight) \in Nat /\ Cardinality(Uncounted) \in Nat
        /\ Cardinality(Tasks) \in Nat
    BY FlightFinite
  <2> QED
    BY <2>1, <2>2, <2>3 DEF CapsTypeOK, CountInv
<1>9. ASSUME NEW t \in Tasks, Fails(t) PROVE CountInv'
  <2>1. CASE step[t] = "count"
    <3>1. uncounted' = uncounted + 1 /\ UNCHANGED <<replies, sent>>
          /\ step' = [step EXCEPT ![t] = "idle"]
      BY <1>9, <2>1 DEF Fails
    <3>2. /\ Cardinality(InFlight') = Cardinality(InFlight) - 1
          /\ Cardinality(Uncounted') = Cardinality(Uncounted) - 1
          /\ InFlight # {}
      BY <2>1, <3>1, <1>7
    <3> HIDE FlightFinite
    <3>3. Cardinality(InFlight) \in Nat /\ Cardinality(Uncounted) \in Nat
          /\ Cardinality(Tasks) \in Nat
      BY FlightFinite
    <3> QED
      BY <3>1, <3>2, <3>3 DEF CapsTypeOK, CountInv
  <2>2. CASE step[t] # "count"
    BY <1>9, <2>2, <1>2 DEF Fails
  <2> QED
    BY <2>1, <2>2
<1>10. CASE ManualReply
  BY <1>10, <1>1 DEF ManualReply, InFlight, Uncounted
<1>11. CASE Midnight
  <2>1. InFlight' = InFlight /\ Uncounted' = Uncounted
    BY <1>11 DEF Midnight, InFlight, Uncounted
  <2>2. ReplyCap = 0 => Cardinality(InFlight) = 0
    BY FS_EmptySet DEF CountInv
  <2> QED
    BY <1>11, <2>1, <2>2 DEF CapsTypeOK, CountInv, Midnight
<1>12. CASE UNCHANGED capsVars
  BY <1>12, <1>1 DEF capsVars, InFlight, Uncounted
<1>13. ASSUME NEW t \in Tasks, TaskNext(t) PROVE CountInv'
  BY <1>13, <1>3, <1>4, <1>5, <1>6, <1>8, <1>9 DEF TaskNext
<1> HIDE CapsAssumption, FlightFinite
<1> QED
  BY <1>10, <1>11, <1>12, <1>13, CapsNextCases

\* Across any interleaving of handlers, failures and midnights, the replies a
\* member gets in a day exceed the cap by at most the handlers that run beside
\* the last one and those that died between the send and the count.
THEOREM ReplyCapOvershoot == CapsSpec => []ReplyOvershoot
<1>1. CapsInit => CountInv
  <2> SUFFICES ASSUME CapsInit PROVE CountInv
    OBVIOUS
  <2>1. InFlight = {} /\ Uncounted = {}
    BY DEF CapsInit, InFlight, Uncounted
  <2> QED
    BY <2>1, FS_EmptySet, FlightFinite, CapsAssumption DEF CapsInit, CountInv, CapsTypeOK
<1>2. CapsTypeOK /\ CountInv => ReplyOvershoot
  BY FlightFinite, CapsAssumption DEF CapsTypeOK, CountInv, ReplyOvershoot
<1> QED
  BY <1>1, <1>2, CountInvStep, CapsAreTyped, PTL DEF CapsSpec

-----------------------------------------------------------------------------
(* The credits: what a request has loaded against what is committed.       *)

\* A request begins with an operation that the loaded balances allow.
Allowed(d) ==
  /\ \A a \in Profiles : d[a] >= 0 \/ balance[a] + d[a] >= 0
  /\ \A g \in Agents : d[g] <= 0

Opens(r) == \E d \in [Accounts -> Int], more \in Nat : Allowed(d) /\ Begin(r, d, d, more)

\* What a request has loaded is still what is committed, unless another has
\* written it since; its entries are its changes; what it will write leaves no
\* identity below 0; it takes from an agent, and has loaded no less than the
\* agent's entries come to.
Loaded(q) ==
  /\ q.posts = q.delta
  /\ \A a \in Accounts \ q.over : q.seen[a] = balance[a]
  /\ \A a \in Profiles : q.seen[a] >= 0 /\ q.seen[a] + q.delta[a] >= 0
  /\ \A g \in Agents : q.delta[g] <= 0 /\ q.seen[g] >= entered[g]

LoadedInv == \A r \in Requests : req[r].pc = "open" => Loaded(req[r])

CreditInv == Explained /\ NeverNegative /\ SpendIsNeverOverstated /\ LoadedInv

-----------------------------------------------------------------------------
(* The operations.                                                         *)

LEMMA ZeroType == Zero \in [Accounts -> Int] /\ \A a \in Accounts : Zero[a] = 0
  BY DEF Zero

\* Added changes one account and keeps the type.
LEMMA AddedIs ==
  ASSUME NEW d \in [Accounts -> Int], NEW a \in Accounts, NEW n \in Int
  PROVE  /\ Added(d, a, n) \in [Accounts -> Int]
         /\ Added(d, a, n)[a] = d[a] + n
         /\ \A b \in Accounts \ {a} : Added(d, a, n)[b] = d[b]
  BY DEF Added

LEMMA FundOpens ==
  ASSUME NEW r \in Requests, NEW a \in Profiles, NEW n \in Nat, Fund(r, a, n), CreditsTypeOK
  PROVE  Opens(r)
<1> DEFINE d == Added(Zero, a, n)
<1>0. a \in Accounts /\ \A g \in Agents : g \in Accounts /\ g # a
  BY CreditsAssumption DEF Accounts
<1>1. d \in [Accounts -> Int] /\ \A b \in Accounts : d[b] = IF b = a THEN n ELSE 0
  BY <1>0, ZeroType, AddedIs
<1>2. Allowed(d)
  BY <1>0, <1>1 DEF Allowed, Accounts
<1>3. Begin(r, d, d, 0)
  BY DEF Fund
<1> QED
  BY <1>1, <1>2, <1>3 DEF Opens

LEMMA TransferOpens ==
  ASSUME NEW r \in Requests, NEW a \in Profiles, NEW b \in Profiles, NEW n \in Nat,
         Transfer(r, a, b, n), CreditsTypeOK
  PROVE  Opens(r)
<1> DEFINE e == Added(Zero, a, -n)
           d == Moved(a, b, n)
<1>0. a \in Accounts /\ b \in Accounts /\ n \in Int /\ -n \in Int
  BY DEF Accounts
<1>1. e \in [Accounts -> Int] /\ e[a] = -n /\ \A c \in Accounts \ {a} : e[c] = 0
  BY <1>0, ZeroType, AddedIs
<1>2. d = Added(e, b, n)
  BY DEF Moved
<1>3. balance[a] >= n /\ balance[a] \in Int /\ Begin(r, d, d, 0)
  BY <1>0 DEF Transfer, Transferable, CreditsTypeOK
<1> HIDE DEF e, d
<1>4. d \in [Accounts -> Int] /\ d[b] = e[b] + n /\ \A c \in Accounts \ {b} : d[c] = e[c]
  <2>1. /\ Added(e, b, n) \in [Accounts -> Int] /\ Added(e, b, n)[b] = e[b] + n
        /\ \A c \in Accounts \ {b} : Added(e, b, n)[c] = e[c]
    BY <1>0, <1>1, AddedIs
  <2> QED
    BY <1>2, <2>1
<1>5. \A g \in Agents : d[g] = 0
  <2>1. \A g \in Agents : g \in Accounts /\ g # a /\ g # b
    BY CreditsAssumption DEF Accounts
  <2> QED
    BY <1>1, <1>4, <2>1
<1>6. ASSUME NEW c \in Profiles PROVE d[c] >= 0 \/ balance[c] + d[c] >= 0
  <2>1. c \in Accounts
    BY DEF Accounts
  <2>2. CASE c # a
    <3>1. e[c] = 0
      BY <1>1, <2>1, <2>2
    <3> QED
      BY <1>4, <2>1, <3>1
  <2>3. CASE c = a /\ c = b
    BY <1>1, <1>4, <2>3
  <2>4. CASE c = a /\ c # b
    BY <1>0, <1>1, <1>4, <1>3, <2>4
  <2> QED
    BY <2>2, <2>3, <2>4
<1>7. Allowed(d)
  BY <1>5, <1>6 DEF Allowed
<1> QED
  BY <1>4, <1>3, <1>7 DEF Opens

LEMMA ChargeOpens ==
  ASSUME NEW r \in Requests, NEW a \in Profiles, NEW n \in Nat, Charge(r, a, n), CreditsTypeOK
  PROVE  Opens(r)
<1> DEFINE d == Added(Zero, a, -n)
<1>0. a \in Accounts /\ \A g \in Agents : g \in Accounts /\ g # a
  BY CreditsAssumption DEF Accounts
<1>1. d \in [Accounts -> Int] /\ \A c \in Accounts : d[c] = IF c = a THEN -n ELSE 0
  BY <1>0, ZeroType, AddedIs, -n \in Int
<1>2. balance[a] >= n /\ balance[a] \in Int /\ Begin(r, d, d, 0)
  BY <1>0 DEF Charge, CreditsTypeOK
<1>3. Allowed(d)
  BY <1>0, <1>1, <1>2 DEF Allowed, Accounts
<1> QED
  BY <1>1, <1>2, <1>3 DEF Opens

LEMMA FundRoomOpens ==
  ASSUME NEW r \in Requests, NEW m \in Rooms, NEW n \in Nat, FundRoom(r, m, n), CreditsTypeOK
  PROVE  Opens(r)
<1> DEFINE d == Added(Zero, m, n)
<1>0. m \in Accounts /\ \A g \in Agents : g \in Accounts /\ g # m
  BY CreditsAssumption DEF Accounts
<1>1. d \in [Accounts -> Int] /\ \A b \in Accounts : d[b] = IF b = m THEN n ELSE 0
  BY <1>0, ZeroType, AddedIs
<1>2. Allowed(d)
  BY <1>0, <1>1 DEF Allowed, Accounts
<1>3. Begin(r, d, d, 0)
  BY DEF FundRoom
<1> QED
  BY <1>1, <1>2, <1>3 DEF Opens

\* A spend lowers the agent and its room, and leaves the identities alone.
LEMMA SpentIs ==
  ASSUME NEW d \in [Accounts -> Int], NEW g \in Agents, NEW n \in Nat
  PROVE  /\ Spent(d, g, n) \in [Accounts -> Int]
         /\ \A a \in Profiles : Spent(d, g, n)[a] = d[a]
         /\ \A h \in Agents : Spent(d, g, n)[h] <= d[h]
<1>0. g \in Accounts /\ RoomOf[g] \in Rooms /\ RoomOf[g] \in Accounts /\ -n \in Int
  BY CreditsAssumption DEF Accounts
<1> DEFINE e == Added(d, g, -n)
<1>1. e \in [Accounts -> Int] /\ e[g] = d[g] + (-n) /\ \A b \in Accounts \ {g} : e[b] = d[b]
  BY <1>0, AddedIs
<1>2. /\ Spent(d, g, n) \in [Accounts -> Int]
      /\ \A b \in Accounts \ {RoomOf[g]} : Spent(d, g, n)[b] = e[b]
  BY <1>0, <1>1, AddedIs DEF Spent
<1>3. \A a \in Profiles : a \in Accounts /\ a # g /\ a # RoomOf[g]
  BY <1>0, CreditsAssumption DEF Accounts
<1>4. \A h \in Agents : h \in Accounts /\ h # RoomOf[g]
  BY <1>0, CreditsAssumption DEF Accounts
<1> QED
  BY <1>1, <1>2, <1>3, <1>4

LEMMA SpendOpens ==
  ASSUME NEW r \in Requests, NEW g \in Agents, NEW n \in Nat, NEW more \in Nat,
         Spend(r, g, n, more), CreditsTypeOK
  PROVE  Opens(r)
<1> DEFINE d == Spent(Zero, g, n)
<1>1. /\ d \in [Accounts -> Int]
      /\ \A a \in Profiles : d[a] = Zero[a]
      /\ \A h \in Agents : d[h] <= Zero[h]
  BY ZeroType, SpentIs
<1>2. Allowed(d)
  BY <1>1, ZeroType DEF Allowed, Accounts
<1>3. Begin(r, d, d, more)
  BY DEF Spend
<1> QED
  BY <1>1, <1>2, <1>3 DEF Opens

LEMMA NextCases ==
  ASSUME CreditsTypeOK, CreditsNext
  PROVE  \E r \in Requests :
           \/ Opens(r)
           \/ \E n \in Nat, g \in Agents : SpendAgain(r, g, n)
           \/ Write(r)
           \/ Commit(r)
           \/ RollBack(r)
<1>0. Amounts \subseteq Nat /\ 0..Spends \subseteq Nat
  BY CreditsAssumption
<1>1. PICK r \in Requests :
        \/ ByStaff(r) \/ ByClient(r) \/ ByAgent(r)
        \/ \E m \in Rooms, n \in Amounts : FundRoom(r, m, n)
        \/ Progress(r) \/ Fail(r)
  BY DEF CreditsNext
<1>2. CASE ByStaff(r)
  BY <1>0, <1>2, FundOpens, TransferOpens DEF ByStaff
<1>3. CASE ByClient(r)
  BY <1>0, <1>3, FundOpens, TransferOpens DEF ByClient
<1>4. CASE ByAgent(r)
  BY <1>0, <1>4, ChargeOpens, SpendOpens DEF ByAgent
<1>5. CASE \E m \in Rooms, n \in Amounts : FundRoom(r, m, n)
  BY <1>0, <1>5, FundRoomOpens
<1>6. CASE Progress(r)
  BY <1>6 DEF Progress, Collide
<1>7. CASE Fail(r)
  BY <1>7 DEF Fail
<1> QED
  BY <1>1, <1>2, <1>3, <1>4, <1>5, <1>6, <1>7

-----------------------------------------------------------------------------
(* The types.                                                              *)

\* A request that a step replaces by another one that holds what it held, or
\* less, leaves no row with two holders.
LEMMA ReplaceType ==
  ASSUME CreditsTypeOK, NEW r \in Requests, NEW q \in Request, req' = [req EXCEPT ![r] = q],
         \A s \in Requests \ {r} : q.held \cap req[s].held = {},
         UNCHANGED <<rows, balance, entered, mixed>>
  PROVE  CreditsTypeOK'
<1>1. req' \in [Requests -> Request]
  BY DEF CreditsTypeOK
<1>2. ASSUME NEW s \in Requests, NEW t \in Requests, s # t
      PROVE  req'[s].held \cap req'[t].held = {}
  <2>1. \A u \in Requests : req'[u] = IF u = r THEN q ELSE req[u]
    BY DEF CreditsTypeOK
  <2>2. CASE s = r
    BY <1>2, <2>1, <2>2
  <2>3. CASE t = r
    BY <1>2, <2>1, <2>3
  <2>4. CASE s # r /\ t # r
    BY <1>2, <2>1, <2>4 DEF CreditsTypeOK
  <2> QED
    BY <2>2, <2>3, <2>4
<1> QED
  BY <1>1, <1>2 DEF CreditsTypeOK

LEMMA IdleType == Idle \in Request /\ Ended \in Request /\ Idle.held = {} /\ Ended.held = {}
  BY ZeroType DEF Idle, Ended, Request

LEMMA CreditsTypeStep ==
  ASSUME CreditsTypeOK, [CreditsNext]_creditsVars
  PROVE  CreditsTypeOK'
<1>1. CASE UNCHANGED creditsVars
  BY <1>1 DEF CreditsTypeOK, creditsVars
<1>2. CASE CreditsNext
  <2>0. PICK r \in Requests :
          \/ Opens(r)
          \/ \E n \in Nat, g \in Agents : SpendAgain(r, g, n)
          \/ Write(r)
          \/ Commit(r)
          \/ RollBack(r)
    BY <1>2, NextCases
  <2>t. req[r] \in Request
    BY DEF CreditsTypeOK
  <2>1. CASE Opens(r)
    <3>1. PICK d \in [Accounts -> Int], more \in Nat : Begin(r, d, d, more)
      BY <2>1 DEF Opens
    <3> DEFINE q == [Idle EXCEPT !.pc = "open", !.seen = balance, !.delta = d, !.posts = d,
                                 !.fresh = Missing(d), !.need = Changed(d), !.left = more]
    <3>2. q \in Request /\ q.held = {}
      BY IdleType DEF Request, Missing, Changed, CreditsTypeOK, Idle
    <3>3. req' = [req EXCEPT ![r] = q] /\ UNCHANGED <<rows, balance, entered, mixed>>
      BY <3>1 DEF Begin
    <3> HIDE DEF q
    <3> QED
      BY <3>2, <3>3, ReplaceType
  <2>2. CASE \E n \in Nat, g \in Agents : SpendAgain(r, g, n)
    <3>1. PICK n \in Nat, g \in Agents : SpendAgain(r, g, n)
      BY <2>2
    <3> DEFINE q == [req[r] EXCEPT !.delta = Spent(@, g, n), !.posts = Spent(req[r].posts, g, n),
                                   !.left = @ - 1]
    <3>2. Spent(req[r].delta, g, n) \in [Accounts -> Int] /\ Spent(req[r].posts, g, n) \in [Accounts -> Int]
      BY <2>t, SpentIs DEF Request
    <3>3. req[r].left > 0 /\ req[r].left \in Nat
      BY <3>1, <2>t DEF SpendAgain, Again, Request
    <3>4. req[r].left - 1 \in Nat
      BY <3>3
    <3>5. q \in Request /\ q.held = req[r].held
      BY <2>t, <3>2, <3>4 DEF Request
    <3>6. req' = [req EXCEPT ![r] = q] /\ UNCHANGED <<rows, balance, entered, mixed>>
      BY <3>1 DEF SpendAgain, Again
    <3>7. \A s \in Requests \ {r} : q.held \cap req[s].held = {}
      BY <3>5 DEF CreditsTypeOK
    <3> HIDE DEF q
    <3> QED
      BY <3>5, <3>6, <3>7, ReplaceType
  <2>3. CASE Write(r)
    <3>1. PICK a \in Following(r) :
            /\ Free(r, a)
            /\ req' = [req EXCEPT ![r].need = @ \ {a}, ![r].held = @ \cup {a}]
      BY <2>3 DEF Write
    <3>2. a \in Accounts
      BY <2>t DEF Following, Request
    <3> DEFINE q == [req[r] EXCEPT !.need = @ \ {a}, !.held = @ \cup {a}]
    <3>3. q \in Request /\ q.held = req[r].held \cup {a}
      BY <2>t, <3>2 DEF Request
    <3>4. \A s \in Requests \ {r} : q.held \cap req[s].held = {}
      BY <3>1, <3>3 DEF CreditsTypeOK, Free
    <3>5. req' = [req EXCEPT ![r] = q] /\ UNCHANGED <<rows, balance, entered, mixed>>
      BY <2>3, <3>1 DEF Write
    <3> HIDE DEF q
    <3> QED
      BY <3>3, <3>4, <3>5, ReplaceType
  <2>4. CASE RollBack(r)
    BY <2>4, IdleType, ReplaceType DEF RollBack
  <2>5. CASE Commit(r)
    <3> DEFINE wrote == Changed(req[r].delta)
    <3>0. wrote \subseteq Accounts
      BY DEF Changed
    <3>1. req' = [s \in Requests |->
                    CASE s = r -> Ended
                      [] s # r /\ req[s].pc = "open" -> [req[s] EXCEPT !.over = @ \cup wrote]
                      [] OTHER -> req[s]]
      BY <2>5 DEF Commit
    <3>2. /\ rows' = rows \cup wrote /\ mixed' = mixed \cup (wrote \cap req[r].over)
          /\ balance' = [a \in Accounts |-> IF a \in wrote THEN req[r].seen[a] + req[r].delta[a] ELSE balance[a]]
          /\ entered' = [a \in Accounts |-> entered[a] + req[r].posts[a]]
      BY <2>5 DEF Commit
    <3> HIDE DEF wrote
    <3>3. ASSUME NEW s \in Requests
          PROVE  req'[s] \in Request /\ (req'[s].held = {} \/ req'[s].held = req[s].held)
      <4>0. req[s] \in Request
        BY DEF CreditsTypeOK
      <4>1. CASE s = r
        BY <3>1, <4>1, IdleType
      <4>2. CASE s # r /\ req[s].pc = "open"
        <5>1. req'[s] = [req[s] EXCEPT !.over = @ \cup wrote]
          BY <3>1, <4>2
        <5> QED
          BY <3>0, <4>0, <5>1 DEF Request
      <4>3. CASE s # r /\ req[s].pc # "open"
        <5>1. req'[s] = req[s]
          BY <3>1, <4>3
        <5> QED
          BY <4>0, <5>1
      <4> QED
        BY <4>1, <4>2, <4>3
    <3>4. req' \in [Requests -> Request]
      <4>1. req' = [s \in Requests |-> req'[s]]
        BY <3>1
      <4> QED
        BY <3>3, <4>1
    <3>5. \A s, t \in Requests : s # t => req'[s].held \cap req'[t].held = {}
      BY <3>3 DEF CreditsTypeOK
    <3>6. balance' \in [Accounts -> Int]
      BY <2>t, <3>2 DEF CreditsTypeOK, Request
    <3>7. entered' \in [Accounts -> Int]
      BY <2>t, <3>2 DEF CreditsTypeOK, Request
    <3>8. rows' \subseteq Accounts /\ mixed' \subseteq Accounts
      BY <3>0, <3>2 DEF CreditsTypeOK
    <3> QED
      BY <3>4, <3>5, <3>6, <3>7, <3>8 DEF CreditsTypeOK
  <2> QED
    BY <2>0, <2>1, <2>2, <2>3, <2>4, <2>5
<1> QED
  BY <1>1, <1>2

LEMMA TypeInit == CreditsInit => CreditsTypeOK
<1> SUFFICES ASSUME CreditsInit PROVE CreditsTypeOK
  OBVIOUS
<1>1. balance \in [Accounts -> Int] /\ entered \in [Accounts -> Int]
  BY CreditsAssumption DEF CreditsInit
<1>2. req \in [Requests -> Request] /\ \A r \in Requests : req[r].held = {}
  BY IdleType DEF CreditsInit
<1>3. rows \subseteq Accounts /\ mixed \subseteq Accounts
  BY DEF CreditsInit, Accounts
<1> QED
  BY <1>1, <1>2, <1>3 DEF CreditsTypeOK

\* Balances and sums stay numbers, and no row is ever locked by two requests,
\* for any accounts and any number of requests (profiles/services.py:542).
THEOREM CreditsType == CreditsSpec => []CreditsTypeOK
  BY TypeInit, CreditsTypeStep, PTL DEF CreditsSpec

-----------------------------------------------------------------------------
(* The balances and the ledger.                                            *)

\* A step that commits nothing and replaces one request needs a look at that
\* request only.
LEMMA ReplaceKeeps ==
  ASSUME CreditsTypeOK, CreditInv, NEW r \in Requests, NEW q, req' = [req EXCEPT ![r] = q],
         q.pc = "open" => Loaded(q),
         UNCHANGED <<rows, balance, entered, mixed>>
  PROVE  CreditInv'
<1>1. Explained' /\ NeverNegative' /\ SpendIsNeverOverstated'
  BY DEF CreditInv, Explained, NeverNegative, SpendIsNeverOverstated
<1>2. ASSUME NEW s \in Requests, req'[s].pc = "open" PROVE Loaded(req[s])'
  <2>1. Loaded(req'[s])
    <3>1. CASE s = r
      BY <1>2, <3>1 DEF CreditsTypeOK
    <3>2. CASE s # r
      BY <1>2, <3>2 DEF CreditsTypeOK, CreditInv, LoadedInv
    <3> QED
      BY <3>1, <3>2
  <2> QED
    BY <2>1 DEF Loaded
<1> QED
  BY <1>1, <1>2 DEF CreditInv, LoadedInv

\* A request that begins has loaded what is committed.
LEMMA OpensKeeps ==
  ASSUME CreditsTypeOK, CreditInv, NEW r \in Requests, Opens(r)
  PROVE  CreditInv'
<1>1. PICK d \in [Accounts -> Int], more \in Nat : Allowed(d) /\ Begin(r, d, d, more)
  BY DEF Opens
<1> DEFINE q == [Idle EXCEPT !.pc = "open", !.seen = balance, !.delta = d, !.posts = d,
                             !.fresh = Missing(d), !.need = Changed(d), !.left = more]
<1>2. q.seen = balance /\ q.delta = d /\ q.posts = d
  BY DEF Idle
<1>3. req' = [req EXCEPT ![r] = q] /\ UNCHANGED <<rows, balance, entered, mixed>>
  BY <1>1 DEF Begin
<1> HIDE DEF q
<1>4. ASSUME NEW a \in Profiles PROVE balance[a] >= 0 /\ balance[a] + d[a] >= 0
  <2>1. balance[a] \in Int /\ d[a] \in Int
    BY DEF CreditsTypeOK, Accounts
  <2>2. balance[a] >= 0
    BY DEF CreditInv, NeverNegative
  <2>3. d[a] >= 0 \/ balance[a] + d[a] >= 0
    BY <1>1 DEF Allowed
  <2> QED
    BY <2>1, <2>2, <2>3
<1>5. \A g \in Agents : d[g] <= 0 /\ balance[g] >= entered[g]
  BY <1>1 DEF Allowed, CreditInv, SpendIsNeverOverstated
<1>6. Loaded(q)
  BY <1>2, <1>4, <1>5 DEF Loaded
<1> QED
  BY <1>3, <1>6, ReplaceKeeps

\* A further spend changes the entries and the balances alike.
LEMMA SpendAgainKeeps ==
  ASSUME CreditsTypeOK, CreditInv, NEW r \in Requests, NEW n \in Nat, NEW g \in Agents, SpendAgain(r, g, n)
  PROVE  CreditInv'
<1> DEFINE q == [req[r] EXCEPT !.delta = Spent(@, g, n), !.posts = Spent(req[r].posts, g, n),
                               !.left = @ - 1]
<1>1. req[r] \in Request /\ req[r].pc = "open" /\ Loaded(req[r])
  BY DEF CreditsTypeOK, CreditInv, LoadedInv, SpendAgain, Again
<1>2. /\ q.delta = Spent(req[r].delta, g, n) /\ q.posts = Spent(req[r].posts, g, n)
      /\ q.seen = req[r].seen /\ q.over = req[r].over
  BY <1>1 DEF Request
<1>3. req' = [req EXCEPT ![r] = q] /\ UNCHANGED <<rows, balance, entered, mixed>>
  BY DEF SpendAgain, Again
<1> HIDE DEF q
<1>4. /\ \A a \in Profiles : q.delta[a] = req[r].delta[a]
      /\ \A h \in Agents : q.delta[h] <= req[r].delta[h]
      /\ q.delta \in [Accounts -> Int]
  BY <1>1, <1>2, SpentIs DEF Request
<1>5. ASSUME NEW h \in Agents PROVE q.delta[h] <= 0
  <2>1. q.delta[h] \in Int /\ req[r].delta[h] \in Int
    BY <1>1, <1>4 DEF Accounts, Request
  <2>2. req[r].delta[h] <= 0
    BY <1>1 DEF Loaded
  <2> QED
    BY <1>4, <2>1, <2>2
<1>6. q.posts = q.delta
  BY <1>1, <1>2 DEF Loaded
<1>7. Loaded(q)
  BY <1>1, <1>2, <1>4, <1>5, <1>6 DEF Loaded
<1> QED
  BY <1>3, <1>7, ReplaceKeeps

\* A commit writes what was loaded, plus the entries: for an account that no one
\* else has written since, that is what is committed, plus the entries.
LEMMA CommitKeeps ==
  ASSUME CreditsTypeOK, CreditInv, NEW r \in Requests, Commit(r)
  PROVE  CreditInv'
<1> DEFINE q == req[r]
           wrote == Changed(req[r].delta)
<1>1. q \in Request /\ q.pc = "open" /\ Loaded(q)
  BY DEF CreditsTypeOK, CreditInv, LoadedInv, Commit
<1>2. /\ \A a \in Accounts : balance'[a] = IF a \in wrote THEN q.seen[a] + q.delta[a] ELSE balance[a]
      /\ \A a \in Accounts : entered'[a] = entered[a] + q.posts[a]
      /\ mixed' = mixed \cup (wrote \cap q.over)
  BY DEF Commit
<1>3. req' = [s \in Requests |->
                CASE s = r -> Ended
                  [] s # r /\ req[s].pc = "open" -> [req[s] EXCEPT !.over = @ \cup wrote]
                  [] OTHER -> req[s]]
  BY DEF Commit
<1>4. q.posts = q.delta
  BY <1>1 DEF Loaded
<1>5. \A a \in Accounts : a \notin wrote => q.delta[a] = 0
  BY DEF Changed
<1>6. \A a \in Accounts : /\ balance[a] \in Int /\ entered[a] \in Int
                          /\ q.seen[a] \in Int /\ q.delta[a] \in Int
  BY <1>1 DEF CreditsTypeOK, Request
<1>7. \A a \in Profiles \cup Agents : a \in Accounts
  BY DEF Accounts
<1>8. wrote \subseteq Accounts
  BY DEF Changed
<1> HIDE DEF q, wrote
<1>9. ASSUME NEW a \in Accounts \ mixed' PROVE balance'[a] = entered'[a]
  <2>1. balance[a] = entered[a]
    BY <1>2 DEF CreditInv, Explained
  <2>2. CASE a \in wrote
    <3>1. q.seen[a] = balance[a]
      BY <1>1, <1>2, <2>2 DEF Loaded
    <3> QED
      BY <1>2, <1>4, <2>1, <2>2, <3>1
  <2>3. CASE a \notin wrote
    BY <1>2, <1>4, <1>5, <1>6, <2>1, <2>3
  <2> QED
    BY <2>2, <2>3
<1>10. ASSUME NEW a \in Profiles PROVE balance'[a] >= 0
  <2>1. balance[a] >= 0
    BY DEF CreditInv, NeverNegative
  <2>2. q.seen[a] + q.delta[a] >= 0
    BY <1>1 DEF Loaded
  <2> QED
    BY <1>2, <1>7, <2>1, <2>2
<1>11. ASSUME NEW g \in Agents PROVE balance'[g] >= entered'[g] /\ entered'[g] <= entered[g]
  <2>1. balance[g] >= entered[g]
    BY DEF CreditInv, SpendIsNeverOverstated
  <2>2. q.delta[g] <= 0 /\ q.seen[g] >= entered[g]
    BY <1>1 DEF Loaded
  <2>3. /\ balance[g] \in Int /\ entered[g] \in Int /\ q.seen[g] \in Int /\ q.delta[g] \in Int
        /\ entered'[g] = entered[g] + q.delta[g]
    BY <1>2, <1>4, <1>6, <1>7
  <2>4. CASE g \in wrote
    <3>1. balance'[g] = q.seen[g] + q.delta[g]
      BY <1>2, <1>7, <2>4
    <3> QED
      BY <2>2, <2>3, <3>1
  <2>5. CASE g \notin wrote
    <3>1. balance'[g] = balance[g] /\ q.delta[g] = 0
      BY <1>2, <1>5, <1>7, <2>5
    <3> QED
      BY <2>1, <2>3, <3>1
  <2> QED
    BY <2>4, <2>5
<1>12. ASSUME NEW s \in Requests, req'[s].pc = "open" PROVE Loaded(req[s])'
  <2>0. s # r
    BY <1>3, <1>12 DEF Ended
  <2>1. req[s].pc = "open" /\ req'[s] = [req[s] EXCEPT !.over = @ \cup wrote]
    <3>1. CASE req[s].pc = "open"
      BY <1>3, <2>0, <3>1
    <3>2. CASE req[s].pc # "open"
      <4>1. req'[s] = req[s]
        BY <1>3, <2>0, <3>2
      <4> QED
        BY <1>12, <3>2, <4>1
    <3> QED
      BY <3>1, <3>2
  <2>2. req[s] \in Request /\ Loaded(req[s])
    BY <2>1 DEF CreditsTypeOK, CreditInv, LoadedInv
  <2>3. /\ req'[s].posts = req[s].posts /\ req'[s].delta = req[s].delta
        /\ req'[s].seen = req[s].seen /\ req'[s].over = req[s].over \cup wrote
    BY <2>1, <2>2 DEF Request
  <2>4. \A a \in Accounts \ req'[s].over : req'[s].seen[a] = balance'[a]
    BY <1>2, <2>2, <2>3 DEF Loaded
  <2>5. ASSUME NEW g \in Agents PROVE req'[s].seen[g] >= entered'[g]
    <3>1. req[s].seen[g] \in Int /\ entered[g] \in Int /\ q.delta[g] \in Int
      BY <1>6, <1>7, <2>2 DEF Request
    <3>2. entered'[g] = entered[g] + q.delta[g]
      BY <1>2, <1>4, <1>7
    <3>3. req[s].seen[g] >= entered[g]
      BY <2>2 DEF Loaded
    <3> QED
      BY <1>11, <2>3, <3>1, <3>2, <3>3
  <2> QED
    BY <2>2, <2>3, <2>4, <2>5 DEF Loaded
<1> QED
  BY <1>9, <1>10, <1>11, <1>12
     DEF CreditInv, Explained, NeverNegative, SpendIsNeverOverstated, LoadedInv

LEMMA CreditStep ==
  ASSUME CreditsTypeOK, CreditInv, [CreditsNext]_creditsVars
  PROVE  CreditInv'
<1>1. CASE UNCHANGED creditsVars
  BY <1>1 DEF creditsVars, CreditInv, Explained, NeverNegative, SpendIsNeverOverstated, LoadedInv, Loaded
<1>2. CASE CreditsNext
  <2>0. PICK r \in Requests :
          \/ Opens(r)
          \/ \E n \in Nat, g \in Agents : SpendAgain(r, g, n)
          \/ Write(r)
          \/ Commit(r)
          \/ RollBack(r)
    BY <1>2, NextCases
  <2>1. CASE Write(r)
    <3>1. PICK a : req' = [req EXCEPT ![r].need = @ \ {a}, ![r].held = @ \cup {a}]
      BY <2>1 DEF Write
    <3> DEFINE q == [req[r] EXCEPT !.need = @ \ {a}, !.held = @ \cup {a}]
    <3>2. req' = [req EXCEPT ![r] = q] /\ UNCHANGED <<rows, balance, entered, mixed>>
      BY <2>1, <3>1 DEF Write
    <3>3. q.pc = "open" => Loaded(q)
      BY DEF CreditsTypeOK, Request, CreditInv, LoadedInv, Loaded
    <3> HIDE DEF q
    <3> QED
      BY <3>2, <3>3, ReplaceKeeps
  <2>2. CASE RollBack(r)
    <3>1. Ended.pc # "open"
      BY DEF Ended, Idle
    <3> QED
      BY <2>2, <3>1, ReplaceKeeps DEF RollBack
  <2> QED
    BY <2>0, <2>1, <2>2, OpensKeeps, SpendAgainKeeps, CommitKeeps
<1> QED
  BY <1>1, <1>2

LEMMA CreditInvInit == CreditsInit => CreditInv
<1> SUFFICES ASSUME CreditsInit PROVE CreditInv
  OBVIOUS
<1>1. LoadedInv
  BY DEF CreditsInit, Idle, LoadedInv
<1>2. \A a \in Accounts : balance[a] = entered[a]
  BY DEF CreditsInit
<1>3. \A a \in Profiles : balance[a] \in Nat
  BY CreditsAssumption DEF CreditsInit, Accounts
<1>4. \A g \in Agents : balance[g] = 0 /\ entered[g] = 0
  BY CreditsAssumption DEF CreditsInit, Accounts
<1> QED
  BY <1>1, <1>2, <1>3, <1>4 DEF CreditInv, Explained, NeverNegative, SpendIsNeverOverstated

LEMMA CreditHolds == CreditsSpec => []CreditInv
  BY CreditsType, CreditInvInit, CreditStep, PTL DEF CreditsSpec

\* Every balance is the sum of the account's ledger entries, as the ledger's
\* docstring has it, except where two requests that changed it have overlapped
\* (core/models/ledger.py, profiles/services.py:542).
THEOREM LedgerExplains == CreditsSpec => []Explained
  BY CreditHolds, PTL DEF CreditInv

\* Charges and transfers never drive an identity below 0, however they overlap
\* (gate_service.py, profiles/services.py:542).
THEOREM NoDebts == CreditsSpec => []NeverNegative
  BY CreditHolds, PTL DEF CreditInv

\* However spends overlap, an agent's account shows at most what its entries say
\* was spent (spend_service.py:84).
THEOREM SpendsNotInvented == CreditsSpec => []SpendIsNeverOverstated
  BY CreditHolds, PTL DEF CreditInv
================================================================================
