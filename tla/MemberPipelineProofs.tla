------------------------- MODULE MemberPipelineProofs -------------------------
(***************************************************************************)
(* What a job repeats and what a day costs, for any number of messages and *)
(* jobs, with proofs.                                                      *)
(***************************************************************************)
EXTENDS MemberPipeline, FiniteSetTheorems, TLAPS

\* Every step is one of these, of one job or of the webhook or the clock.
Rolls(j) ==
  /\ RollBack(j)
  /\ pc[j] \in Working
  /\ faults' \in Nat /\ (faults' = faults \/ Fault)

LEMMA StepCases ==
  ASSUME TypeOK, [Next]_vars,
         NEW ACTION P,
         \A m \in Messages : Claim(m) => P,
         \A m \in Messages, j \in Jobs : Enqueue(m, j) => P,
         \A m \in Messages : HookFails(m) => P,
         \A m \in Messages : ClaimExpires(m) => P,
         \A j \in Jobs : Begin(j) => P,
         \A j \in Jobs : CreateConversation(j) => P,
         \A j \in Jobs : Rolls(j) => P,
         \A j \in Jobs : Reserve(j) => P,
         \A j \in Jobs : EnterSlot(j) => P,
         \A j \in Jobs : LeaveLlm(j) => P,
         \A j \in Jobs : Record(j) => P,
         \A j \in Jobs : Send(j) => P,
         \A j \in Jobs : Commit(j) => P,
         \A j \in Jobs : GiveUp(j) => P,
         Midnight => P,
         UNCHANGED vars => P
  PROVE P
<1>1. ASSUME NEW j \in Jobs, Collide(j) \/ SlotTimeout(j) \/ Duplicate(j) \/ Crash(j)
      PROVE Rolls(j)
  BY <1>1, PipelineAssumption
  DEF Rolls, Collide, SlotTimeout, Duplicate, Crash, Working, Recorded, Waiting, Fault, TypeOK
<1>2. QED
  BY <1>1 DEF Next, Step

LEMMA TypeInit == Init => TypeOK
  BY PipelineAssumption DEF PipelineAssumption, Init, TypeOK, PCs, Modes

LEMMA TypeStep == ASSUME TypeOK, [Next]_vars PROVE TypeOK'
<1> USE PipelineAssumption DEF PipelineAssumption, TypeOK, redis, job, db, wire, calls, Goto
<1>1. ASSUME NEW m \in Messages, Claim(m) PROVE TypeOK'
  BY <1>1 DEF Claim
<1>2. ASSUME NEW m \in Messages, NEW j \in Jobs, Enqueue(m, j) PROVE TypeOK'
  BY <1>2 DEF Enqueue, PCs
<1>3. ASSUME NEW m \in Messages, HookFails(m) PROVE TypeOK'
  BY <1>3 DEF HookFails, Fault
<1>4. ASSUME NEW m \in Messages, ClaimExpires(m) PROVE TypeOK'
  BY <1>4 DEF ClaimExpires
<1>5. ASSUME NEW j \in Jobs, Begin(j) PROVE TypeOK'
  BY <1>5 DEF Begin, PCs, Working
<1>6. ASSUME NEW j \in Jobs, CreateConversation(j) PROVE TypeOK'
  BY <1>6 DEF CreateConversation, PCs, Working
<1>7. ASSUME NEW j \in Jobs, Rolls(j) PROVE TypeOK'
  BY <1>7 DEF Rolls, RollBack, Fault, PCs
<1>8. ASSUME NEW j \in Jobs, Reserve(j) PROVE TypeOK'
  BY <1>8 DEF Reserve, RoomInSpend, PCs, Working, Modes
<1>9. ASSUME NEW j \in Jobs, EnterSlot(j) PROVE TypeOK'
  BY <1>9 DEF EnterSlot, Inside, Waiting, PCs, Working, Recorded
<1>10. ASSUME NEW j \in Jobs, LeaveLlm(j) PROVE TypeOK'
  BY <1>10 DEF LeaveLlm, PCs, Working, Recorded
<1>11. ASSUME NEW j \in Jobs, Record(j) PROVE TypeOK'
  BY <1>11 DEF Record, Insert, PCs, Working, Recorded
<1>12. ASSUME NEW j \in Jobs, Send(j) PROVE TypeOK'
  BY <1>12 DEF Send, PCs, Working, Recorded
<1>13. ASSUME NEW j \in Jobs, Commit(j) PROVE TypeOK'
  BY <1>13 DEF Commit, Fault, PCs
<1>14. ASSUME NEW j \in Jobs, GiveUp(j) PROVE TypeOK'
  BY <1>14 DEF GiveUp, PCs
<1>15. ASSUME Midnight PROVE TypeOK'
  <2>1. IsFiniteSet(Pending)
    BY FS_Subset DEF Pending
  <2>2. QED
    BY <1>15, <2>1, FS_CardinalityType DEF Midnight
<1>16. ASSUME UNCHANGED vars PROVE TypeOK'
  BY <1>16 DEF vars
<1> QED
  BY <1>1, <1>2, <1>3, <1>4, <1>5, <1>6, <1>7, <1>8, <1>9, <1>10, <1>11, <1>12, <1>13,
     <1>14, <1>15, <1>16, StepCases

\* Every reachable state of the pipeline is well typed; in particular the spend
\* counter never passes the cap.
THEOREM PipelineType == Spec => []TypeOK
  BY TypeInit, TypeStep, PTL DEF Spec

-----------------------------------------------------------------------------
(* Answers.                                                                *)

\* The unique index: one transaction at a time holds a message's row.
OneHolder == \A j, k \in Jobs, m \in Messages : Holds(j, m) /\ Holds(k, m) => j = k
HeldIsNew == \A j \in Jobs, m \in Messages : Holds(j, m) => m \notin rows

\* Only a transaction about to commit has sent an answer.
SaidLast == \A j \in Jobs : said[j] => pc[j] = "commit"

\* A message with no row, and no answer on its way, has only lost answers.
Unanswered(m) == m \notin rows /\ \A j \in Jobs : About[j] = m => ~said[j]
LostBefore == \A m \in Messages : Unanswered(m) => sent[m] <= lost[m]

AnswerInv ==
  /\ TypeOK /\ OneHolder /\ HeldIsNew /\ SaidLast /\ LostBefore
  /\ RepeatsOnlyLostAnswers

\* Steps that leave the rows, the sends and the answers alone, and put no job
\* among those that hold a row without the unique index.
Quiet ==
  /\ UNCHANGED <<rows, sent, lost, said>>
  /\ \A j \in Jobs : pc'[j] \in Recorded => pc[j] \in Recorded
  /\ \A j \in Jobs : said[j] => pc'[j] = pc[j]

LEMMA QuietKeeps == AnswerInv /\ Quiet /\ TypeOK' => AnswerInv'
  BY PipelineAssumption
  DEF PipelineAssumption, AnswerInv, Quiet, OneHolder, HeldIsNew, SaidLast, LostBefore, Unanswered,
      RepeatsOnlyLostAnswers, Holds, TypeOK

LEMMA AnswerStep == ASSUME AnswerInv, [Next]_vars PROVE AnswerInv'
<1>1. TypeOK /\ TypeOK'
  BY TypeStep DEF AnswerInv
<1> USE <1>1, PipelineAssumption
    DEF PipelineAssumption, redis, job, db, wire, calls, Goto
<1>2. ASSUME NEW m \in Messages, Claim(m) \/ HookFails(m) \/ ClaimExpires(m) PROVE Quiet
  BY <1>2 DEF Claim, HookFails, ClaimExpires, Quiet
<1>3. ASSUME NEW m \in Messages, NEW j \in Jobs, Enqueue(m, j) PROVE Quiet
  BY <1>3 DEF Enqueue, Quiet, Recorded, TypeOK, AnswerInv, SaidLast
<1>4. ASSUME NEW j \in Jobs, Begin(j) \/ CreateConversation(j) \/ Reserve(j) \/ LeaveLlm(j) \/ GiveUp(j)
      PROVE Quiet
  BY <1>4 DEF Begin, CreateConversation, Reserve, LeaveLlm, InLlm, GiveUp, Quiet, Recorded, TypeOK,
              AnswerInv, SaidLast
<1>5. ASSUME NEW j \in Jobs, EnterSlot(j) PROVE Quiet
  BY <1>5 DEF EnterSlot, Inside, Waiting, Quiet, Recorded, TypeOK, AnswerInv, SaidLast
<1>6. ASSUME NEW j \in Jobs, Rolls(j) PROVE AnswerInv'
  BY <1>6 DEF Rolls, RollBack, Recorded, AnswerInv, OneHolder, HeldIsNew, SaidLast, LostBefore, Unanswered,
              RepeatsOnlyLostAnswers, Holds, TypeOK
<1>7. ASSUME NEW j \in Jobs, Record(j) PROVE AnswerInv'
  BY <1>7 DEF Record, Insert, Recorded, AnswerInv, OneHolder, HeldIsNew, SaidLast, LostBefore, Unanswered,
              RepeatsOnlyLostAnswers, Holds, TypeOK
<1>8. ASSUME NEW j \in Jobs, Send(j) PROVE AnswerInv'
  <2>1. Unanswered(About[j])
    BY <1>8 DEF Send, Recorded, AnswerInv, OneHolder, HeldIsNew, SaidLast, Holds, TypeOK, Unanswered
  <2>2. sent[About[j]] <= lost[About[j]]
    BY <2>1 DEF AnswerInv, LostBefore
  <2>3. QED
    BY <1>8, <2>1, <2>2 DEF Send, Recorded, AnswerInv, OneHolder, HeldIsNew, SaidLast, LostBefore, Unanswered,
              RepeatsOnlyLostAnswers, Holds, TypeOK
<1>9. ASSUME NEW j \in Jobs, Commit(j) PROVE AnswerInv'
  BY <1>9 DEF Commit, Recorded, AnswerInv, OneHolder, HeldIsNew, SaidLast, LostBefore, Unanswered,
              RepeatsOnlyLostAnswers, Holds, TypeOK
<1>10. Midnight \/ UNCHANGED vars => Quiet
  BY DEF Midnight, vars, Quiet
<1>11. QED
  BY <1>2, <1>3, <1>4, <1>5, <1>6, <1>7, <1>8, <1>9, <1>10, QuietKeeps, StepCases DEF AnswerInv

\* An answer beyond the first replaces one whose transaction was rolled back
\* after the send, however often the message is delivered and its jobs run.
THEOREM AnswersRepeatOnlyWhenLost == Spec => []RepeatsOnlyLostAnswers
<1>1. Init => AnswerInv
  BY TypeInit, PipelineAssumption
  DEF PipelineAssumption, Init, AnswerInv, OneHolder, HeldIsNew, SaidLast, LostBefore, RepeatsOnlyLostAnswers,
      Holds, Recorded
<1>2. AnswerInv => RepeatsOnlyLostAnswers
  BY DEF AnswerInv
<1>3. QED
  BY <1>1, <1>2, AnswerStep, PTL DEF Spec

-----------------------------------------------------------------------------
(* Calls.                                                                  *)

\* A reservation of today backs each call sequence that was begun today and
\* each that is about to begin, except the carried ones.
Backed == ran + Cardinality(Pending) <= spend + carried

CallsInv == TypeOK /\ Backed

LEMMA PendingFinite == IsFiniteSet(Pending) /\ Cardinality(Pending) \in Nat
  BY PipelineAssumption, FS_Subset, FS_CardinalityType DEF PipelineAssumption, Pending

LEMMA PendingJoin ==
  ASSUME NEW j \in Jobs, Pending' = Pending \cup {j}, j \notin Pending
  PROVE  Cardinality(Pending') = Cardinality(Pending) + 1
  BY PendingFinite, FS_AddElement

LEMMA PendingLeave ==
  ASSUME NEW j \in Jobs, Pending' = Pending \ {j}, j \in Pending
  PROVE  Cardinality(Pending') = Cardinality(Pending) - 1
  BY PendingFinite, FS_RemoveElement

LEMMA PendingShrink ==
  ASSUME NEW j \in Jobs, Pending' = Pending \ {j}
  PROVE  Cardinality(Pending') <= Cardinality(Pending) /\ Cardinality(Pending') \in Nat
<1>1. IsFiniteSet(Pending \ {j}) /\ Cardinality(Pending \ {j}) <= Cardinality(Pending)
  BY PendingFinite, FS_Subset
<1>2. QED
  BY <1>1, FS_CardinalityType

LEMMA CallsStep == ASSUME CallsInv, [Next]_vars PROVE CallsInv'
<1>1. TypeOK /\ TypeOK'
  BY TypeStep DEF CallsInv
<1> USE <1>1 DEF redis, job, db, wire, calls, Goto
<1> DEFINE Known == /\ spend \in Int /\ ran \in Int /\ carried \in Int /\ Cardinality(Pending) \in Int
                    /\ ran + Cardinality(Pending) <= spend + carried
<1>0. Known
  BY PendingFinite, PipelineAssumption DEF PipelineAssumption, CallsInv, Backed, TypeOK
<1>2. ASSUME UNCHANGED <<spend, calls>>, NEW j \in Jobs, Pending' = Pending \ {j} PROVE Backed'
  <2>1. Cardinality(Pending') <= Cardinality(Pending) /\ Cardinality(Pending') \in Nat
    BY <1>2, PendingShrink
  <2>2. QED
    BY <1>0, <1>2, <2>1 DEF Backed
<1>3. ASSUME UNCHANGED <<spend, calls, pc>> PROVE Backed'
  <2>1. Pending' = Pending
    BY <1>3 DEF Pending
  <2>2. QED
    BY <1>3, <2>1 DEF CallsInv, Backed
<1>4. ASSUME NEW m \in Messages, Claim(m) \/ HookFails(m) \/ ClaimExpires(m) PROVE Backed'
  BY <1>3, <1>4 DEF Claim, HookFails, ClaimExpires
<1>5. ASSUME NEW m \in Messages, NEW j \in Jobs, Enqueue(m, j) PROVE Backed'
  <2>1. Pending' = Pending \ {j}
    BY <1>5 DEF Enqueue, Pending, TypeOK
  <2>2. QED
    BY <1>2, <1>5, <2>1 DEF Enqueue
<1>6. ASSUME NEW j \in Jobs,
             Begin(j) \/ CreateConversation(j) \/ LeaveLlm(j) \/ GiveUp(j) \/ Rolls(j) \/ Record(j)
               \/ Send(j) \/ Commit(j)
      PROVE Backed'
  <2>1. Pending' = Pending \ {j}
    BY <1>6 DEF Begin, CreateConversation, LeaveLlm, InLlm, GiveUp, Rolls, RollBack, Record, Insert, Send,
                Commit, Pending, TypeOK
  <2>2. UNCHANGED <<spend, calls>>
    BY <1>6 DEF Begin, CreateConversation, LeaveLlm, GiveUp, Rolls, RollBack, Record, Insert, Send, Commit
  <2>3. QED
    BY <1>2, <2>1, <2>2
<1>7. ASSUME NEW j \in Jobs, Reserve(j) PROVE Backed'
  <2>1. CASE pc'[j] = "clarify"
    <3>1. spend' = spend + 1 /\ UNCHANGED calls
      BY <1>7, <2>1 DEF Reserve, TypeOK
    <3>2. Pending' = Pending \cup {j} /\ j \notin Pending
      BY <1>7, <2>1 DEF Reserve, Pending, TypeOK
    <3>3. QED
      <4>1. Cardinality(Pending') = Cardinality(Pending) + 1
        BY <3>2, PendingJoin
      <4>2. QED
        BY <1>0, <3>1, <4>1 DEF Backed
  <2>2. CASE pc'[j] # "clarify"
    <3>1. spend' >= spend /\ UNCHANGED calls
      BY <1>7 DEF Reserve, TypeOK
    <3>2. Pending' = Pending \ {j}
      BY <1>7, <2>2 DEF Reserve, Pending, TypeOK
    <3>3. Cardinality(Pending') <= Cardinality(Pending) /\ Cardinality(Pending') \in Nat
      BY <3>2, PendingShrink
    <3>4. spend' \in Int
      BY PipelineAssumption DEF PipelineAssumption, TypeOK
    <3>5. QED
      BY <1>0, <3>1, <3>3, <3>4 DEF Backed
  <2>3. QED
    BY <2>1, <2>2
<1>8. ASSUME NEW j \in Jobs, EnterSlot(j) PROVE Backed'
  <2>1. Pending' = Pending \ {j}
    BY <1>8 DEF EnterSlot, Inside, Waiting, Pending, TypeOK
  <2>2. CASE pc[j] = "clarify"
    <3>1. ran' = ran + 1 /\ UNCHANGED <<spend, carried>> /\ j \in Pending
      BY <1>8, <2>2 DEF EnterSlot, Pending
    <3>2. QED
      BY <1>0, <2>1, <3>1, PendingLeave DEF Backed
  <2>3. CASE pc[j] # "clarify"
    BY <1>2, <1>8, <2>1, <2>3 DEF EnterSlot
  <2>4. QED
    BY <2>2, <2>3
<1>9. ASSUME Midnight PROVE Backed'
  <2>1. Pending' = Pending /\ spend' = 0 /\ ran' = 0 /\ carried' = Cardinality(Pending)
    BY <1>9 DEF Midnight, Pending
  <2>2. QED
    BY <2>1, PendingFinite DEF Backed
<1>10. UNCHANGED vars => Backed'
  BY <1>3 DEF vars
<1>11. QED
  BY <1>4, <1>5, <1>6, <1>7, <1>8, <1>9, <1>10, StepCases DEF CallsInv

\* The Gemini call sequences begun on a day are at most the cap's worth of
\* reservations and those that midnight found between reserving and calling.
THEOREM DailyCallsBounded == Spec => []DailyCalls
<1>1. Init => CallsInv
  <2>1. Init => Pending = {}
    BY DEF Init, Pending
  <2>2. QED
    BY <2>1, TypeInit, FS_EmptySet DEF Init, CallsInv, Backed
<1>2. CallsInv => DailyCalls
  BY PendingFinite, PipelineAssumption DEF PipelineAssumption, CallsInv, Backed, DailyCalls, TypeOK
<1>3. QED
  BY <1>1, <1>2, CallsStep, PTL DEF Spec

=============================================================================
