----------------------- MODULE CommunitySessionProofs -----------------------
(***************************************************************************)
(* What CommunitySession promises for any number of identities, handlers,  *)
(* replies and flushes: no list of turns is stranded without a failure, a  *)
(* manual reply is one row, a turn is inserted at most once per flush and  *)
(* failure, and until its list may expire it is lost to LTRIM or to a      *)
(* flush's window only.                                                    *)
(***************************************************************************)
EXTENDS CommunitySession, SequenceTheorems, FiniteSetTheorems, TLAPS

-----------------------------------------------------------------------------
(* What the Redis list commands do to the set of turns held.               *)

LEMMA AppendHeld ==
  ASSUME NEW s \in Seq(Turns), NEW t \in Turns
  PROVE  /\ Append(s, t) \in Seq(Turns) /\ Append(s, t) # <<>>
         /\ ToSet(Append(s, t)) = ToSet(s) \cup {t}
  BY AppendProperties DEF ToSet

LEMMA LastTurnsHeld ==
  ASSUME NEW s \in Seq(Turns)
  PROVE  /\ LastTurns(s) \in Seq(Turns) /\ ToSet(LastTurns(s)) \subseteq ToSet(s)
         /\ s = <<>> => LastTurns(s) = <<>>
<1>1. CASE Len(s) > Keep
  <2>0. Len(s) - Keep + 1 \in 1 .. Len(s) /\ Keep \in Nat \ {0} /\ Len(s) \in Nat
    BY <1>1, SessionAssumption, LenProperties
  <2> DEFINE r == SubSeq(s, Len(s) - Keep + 1, Len(s))
  <2>1. r \in Seq(Turns) /\ Len(r) = Keep
        /\ \A k \in 1 .. Keep : r[k] = s[Len(s) - Keep + k]
    BY <2>0, SubSeqProperties
  <2>2. \A k \in 1 .. Keep : Len(s) - Keep + k \in 1 .. Len(s)
    BY <1>1, <2>0
  <2>3. ToSet(r) \subseteq ToSet(s)
    BY <2>1, <2>2, LenProperties DEF ToSet
  <2>4. s # <<>>
    BY <1>1, <2>0, EmptySeq
  <2> QED
    BY <1>1, <2>1, <2>3, <2>4 DEF LastTurns
<1>2. CASE ~(Len(s) > Keep)
  BY <1>2 DEF LastTurns
<1> QED
  BY <1>1, <1>2

LEMMA EmptyHeld == ToSet(<<>>) = {}
  BY DEF ToSet

-----------------------------------------------------------------------------
LEMMA NextCases ==
  [Next]_vars <=>
    \/ \E w \in Writers : WriterStep(w) \/ WriterFails(w)
    \/ \E f \in Flushers : FlushStart(f) \/ FlushStep(f) \/ FlushFails(f)
    \/ Tick
    \/ UNCHANGED vars
  BY DEF Next

\* The three actions that RPUSH a turn, as one.
PushTurn(w, t) ==
  /\ Push(w, t) /\ op[w] = "idle"
  /\ UNCHANGED <<clock, rows, flush, faults>>
  /\ \/ /\ w \in Inbound /\ t = <<w, "in">> /\ step[w] = "inbound"
        /\ \E to \in {"generate", "done"} : step' = [step EXCEPT ![w] = to]
     \/ /\ w \in Inbound /\ t = <<w, "out">> /\ step[w] = "reply"
        /\ step' = [step EXCEPT ![w] = "done"]
     \/ /\ w \in Manual /\ t = <<w, "manual">> /\ step[w] = "append"
        /\ step' = [step EXCEPT ![w] = "commit"]

LEMMA PushCases ==
  ASSUME NEW w \in Writers, AppendInbound(w) \/ AppendReply(w) \/ MirrorReply(w)
  PROVE  \E t \in Turns : PushTurn(w, t)
<1>1. CASE AppendInbound(w)
  <2>1. <<w, "in">> \in Turns /\ PushTurn(w, <<w, "in">>)
    BY <1>1 DEF AppendInbound, Goto, PushTurn, Turns
  <2> QED
    BY <2>1
<1>2. CASE AppendReply(w)
  <2>1. <<w, "out">> \in Turns /\ PushTurn(w, <<w, "out">>)
    BY <1>2 DEF AppendReply, Goto, PushTurn, Turns
  <2> QED
    BY <2>1
<1>3. CASE MirrorReply(w)
  <2>1. <<w, "manual">> \in Turns /\ PushTurn(w, <<w, "manual">>)
    BY <1>3 DEF MirrorReply, Goto, PushTurn, Turns
  <2> QED
    BY <2>1
<1> QED
  BY <1>1, <1>2, <1>3

-----------------------------------------------------------------------------
\* The type invariant, action by action.
LEMMA TypeStep == TypeOK /\ [Next]_vars => TypeOK'
<1> SUFFICES ASSUME TypeOK, [Next]_vars PROVE TypeOK'
  OBVIOUS
<1> USE SessionAssumption
<1>t. TicksLeft \in Nat
  <2>1. tod \in 0 .. DayLen - 1
    BY DEF TypeOK
  <2> QED
    BY <2>1 DEF TicksLeft
<1>1. ASSUME NEW w \in Writers, SAdd(w) PROVE TypeOK'
  BY <1>1 DEF TypeOK, SAdd, clock, flush, history
<1>2. ASSUME NEW w \in Writers, Touch(w) PROVE TypeOK'
  BY <1>2, <1>t DEF TypeOK, Touch, clock, flush, history
<1>3. ASSUME NEW w \in Writers, Trim(w) PROVE TypeOK'
  <2>1. msgs' \in [Identities -> Seq(Turns)]
    BY <1>3, LastTurnsHeld DEF TypeOK, Trim
  <2> QED
    BY <1>3, <2>1 DEF TypeOK, Trim, clock, flush, history
<1>4. ASSUME NEW w \in Writers, Receive(w) PROVE TypeOK'
  BY <1>4 DEF TypeOK, Receive, Goto, clock, flush, history
<1>5. ASSUME NEW w \in Writers, Gemini(w) PROVE TypeOK'
  <2>1. op' \in [Writers -> {"idle", "trim", "sadd", "touch"}]
    BY <1>5 DEF TypeOK, Gemini
  <2>2. \E to \in {"inbound", "reply", "mirror"} : step' = [step EXCEPT ![w] = to]
    BY <1>5 DEF Gemini, Goto
  <2>3. UNCHANGED <<store, clock, rows, flush, faults, history>>
    BY <1>5 DEF Gemini
  <2> QED
    BY <2>1, <2>2, <2>3 DEF TypeOK, store, clock, flush, history
<1>6. ASSUME NEW w \in Writers, AppendInbound(w) \/ AppendReply(w) \/ MirrorReply(w)
      PROVE TypeOK'
  <2>1. PICK t \in Turns : PushTurn(w, t)
    BY <1>6, PushCases
  <2>2. msgs' \in [Identities -> Seq(Turns)]
    BY <2>1, AppendHeld DEF TypeOK, PushTurn, Push
  <2>3. step' \in [Writers -> {"new", "clarify", "inbound", "generate", "reply",
                              "mirror", "append", "commit", "done", "dead"}]
    BY <2>1 DEF TypeOK, PushTurn
  <2>4. after' \in [Turns -> Nat] /\ late' \subseteq written'
    BY <2>1 DEF TypeOK, PushTurn, Push
  <2> QED
    BY <2>1, <2>2, <2>3, <2>4 DEF TypeOK, PushTurn, Push, clock, flush
<1>7. ASSUME NEW w \in Writers, CheckSession(w) PROVE TypeOK'
  BY <1>7 DEF TypeOK, CheckSession, Goto, store, clock, flush, history
<1>8. ASSUME NEW w \in Writers, CommitManual(w) PROVE TypeOK'
  <2>1. <<w, "manual">> \in Turns
    BY <1>8 DEF CommitManual, Turns
  <2> QED
    BY <1>8, <2>1 DEF TypeOK, CommitManual, Goto, store, clock, flush, history
<1>9. ASSUME NEW w \in Writers, WriterFails(w) PROVE TypeOK'
  <2>1. step' \in [Writers -> {"new", "clarify", "inbound", "generate", "reply",
                               "mirror", "append", "commit", "done", "dead"}]
    BY <1>9 DEF TypeOK, WriterFails
  <2> QED
    BY <1>9, <2>1 DEF TypeOK, WriterFails, store, clock, flush, history
<1>10. ASSUME NEW f \in Flushers, FlushStart(f) PROVE TypeOK'
  BY <1>10 DEF TypeOK, FlushStart, store, writers, history
<1>11. ASSUME NEW f \in Flushers, FlushRead(f) PROVE TypeOK'
  <2>1. PICK i \in ftodo[f] :
          /\ ftodo' = [ftodo EXCEPT ![f] = @ \ {i}]
          /\ fcur' = [fcur EXCEPT ![f] = i]
          /\ fsnap' = [fsnap EXCEPT ![f] = {t \in Held(i) : Flushable(t)}]
          /\ fpc' = [fpc EXCEPT ![f] = IF {t \in Held(i) : Flushable(t)} = {} THEN "clear" ELSE "commit"]
    BY <1>11 DEF FlushRead
  <2>2. i \in Identities /\ Held(i) \subseteq Turns
    BY <2>1 DEF TypeOK, Held, ToSet
  <2>3. /\ ftodo' \in [Flushers -> SUBSET Identities]
        /\ fcur' \in [Flushers -> Identities]
        /\ fsnap' \in [Flushers -> SUBSET Turns]
        /\ fpc' \in [Flushers -> {"idle", "next", "commit", "clear"}]
    BY <2>1, <2>2 DEF TypeOK
  <2> QED
    BY <1>11, <2>3 DEF TypeOK, FlushRead, store, clock, writers, history
<1>12. ASSUME NEW f \in Flushers, FlushCommit(f) PROVE TypeOK'
  BY <1>12 DEF TypeOK, FlushCommit, store, clock, writers, history
<1>13. ASSUME NEW f \in Flushers, FlushClear(f) PROVE TypeOK'
  <2>1. msgs' \in [Identities -> Seq(Turns)]
    BY <1>13 DEF TypeOK, FlushClear
  <2> QED
    BY <1>13, <2>1 DEF TypeOK, FlushClear, clock, writers, history
<1>14. ASSUME NEW f \in Flushers, FlushEnd(f) PROVE TypeOK'
  BY <1>14 DEF TypeOK, FlushEnd, store, clock, writers, history
<1>15. ASSUME NEW f \in Flushers, FlushFails(f) PROVE TypeOK'
  BY <1>15 DEF TypeOK, FlushFails, store, clock, writers, history
<1>16. CASE Tick
  <2>1. tod' \in 0 .. DayLen - 1
    BY <1>16 DEF TypeOK, Tick
  <2>2. msgs' \in [Identities -> Seq(Turns)]
    BY <1>16 DEF TypeOK, Tick
  <2>3. sessTtl' \in [Identities -> Nat] /\ msgsTtl' \in [Identities -> Nat]
    BY <1>16 DEF TypeOK, Tick
  <2>4. cronDue' \in BOOLEAN /\ sess' \subseteq Identities
    BY <1>16 DEF TypeOK, Tick
  <2> QED
    BY <1>16, <2>1, <2>2, <2>3, <2>4 DEF TypeOK, Tick, writers, flush, history
<1>17. CASE UNCHANGED vars
  BY <1>17 DEF TypeOK, vars, store, clock, writers, flush, history
<1>18. ASSUME NEW w \in Writers, WriterStep(w) PROVE TypeOK'
  BY <1>18, <1>1, <1>2, <1>3, <1>4, <1>5, <1>6, <1>7, <1>8 DEF WriterStep
<1>19. ASSUME NEW f \in Flushers, FlushStep(f) PROVE TypeOK'
  BY <1>19, <1>11, <1>12, <1>13, <1>14 DEF FlushStep
<1> HIDE SessionAssumption
<1> QED
  BY <1>9, <1>10, <1>15, <1>16, <1>17, <1>18, <1>19, NextCases

\* Every key, row, handler and flush keeps its type in every run.
THEOREM SessionTypeOK == Spec => []TypeOK
<1>1. Init => TypeOK
  <2> SUFFICES ASSUME Init PROVE TypeOK
    OBVIOUS
  <2>1. (CHOOSE i \in Identities : TRUE) \in Identities
    BY SessionAssumption
  <2>2. <<>> \in Seq(Turns)
    BY EmptySeq
  <2>3. 0 \in 0 .. DayLen - 1 /\ 0 \in 0 .. MaxFaults
    BY SessionAssumption
  <2> QED
    BY <2>1, <2>2, <2>3 DEF Init, TypeOK
<1> QED
  BY <1>1, TypeStep, PTL DEF Spec

-----------------------------------------------------------------------------
\* Writers of i that are between their RPUSH and their SADD.
Marking(i) == \E w \in Writers : Owner[w] = i /\ op[w] \in {"trim", "sadd"}

LEMMA StrandedStep ==
  TypeOK /\ StrandedOnlyByFailure /\ [Next]_vars => StrandedOnlyByFailure'
<1> SUFFICES ASSUME TypeOK, StrandedOnlyByFailure, [Next]_vars, (faults = 0)',
                    NEW i \in Identities, msgs'[i] # <<>>
             PROVE  i \in pending' \/ Marking(i)'
  BY DEF StrandedOnlyByFailure, Marking
\* Before the step: what holds of a list that has turns already.
<1>0. faults = 0 /\ msgs[i] # <<>> => i \in pending \/ Marking(i)
  BY DEF StrandedOnlyByFailure, Marking
\* A step that adds no turn to an empty list, unmarks nothing and completes no
\* mark leaves i as it is.
<1>1. ASSUME faults = 0, msgs[i] # <<>>, pending \subseteq pending',
             \A w \in Writers : op[w] \in {"trim", "sadd"} => op'[w] \in {"trim", "sadd"}
      PROVE  i \in pending' \/ Marking(i)'
  BY <1>0, <1>1 DEF Marking
<1>2. ASSUME NEW w \in Writers, SAdd(w) PROVE i \in pending' \/ Marking(i)'
  <2>1. CASE Owner[w] = i
    BY <1>2, <2>1 DEF SAdd
  <2>2. CASE Owner[w] # i
    <3>1. faults = 0 /\ msgs[i] # <<>> /\ pending \subseteq pending'
      BY <1>2 DEF SAdd
    <3>2. \A u \in Writers \ {w} : op'[u] = op[u]
      BY <1>2 DEF SAdd, TypeOK
    <3> QED
      BY <1>0, <2>2, <3>1, <3>2 DEF Marking
  <2> QED
    BY <2>1, <2>2
<1>3. ASSUME NEW w \in Writers, Touch(w) PROVE i \in pending' \/ Marking(i)'
  BY <1>1, <1>3 DEF TypeOK, Touch
<1>4. ASSUME NEW w \in Writers, Trim(w) PROVE i \in pending' \/ Marking(i)'
  <2>1. msgs[i] # <<>>
    <3>1. msgs[i] = <<>> => msgs'[i] = <<>>
      BY <1>4, LastTurnsHeld DEF TypeOK, Trim
    <3> QED
      BY <3>1
  <2>2. faults = 0 /\ pending \subseteq pending'
    BY <1>4 DEF Trim
  <2>3. \A u \in Writers : op[u] \in {"trim", "sadd"} => op'[u] \in {"trim", "sadd"}
    BY <1>4 DEF TypeOK, Trim
  <2> QED
    BY <1>1, <2>1, <2>2, <2>3
<1>5. ASSUME NEW w \in Writers, Receive(w) PROVE i \in pending' \/ Marking(i)'
  BY <1>1, <1>5 DEF TypeOK, Receive, Goto
<1>6. ASSUME NEW w \in Writers, Gemini(w) PROVE i \in pending' \/ Marking(i)'
  <2>1. op[w] = "idle" /\ UNCHANGED <<store, faults>>
        /\ \E spent \in {"touch", "idle"} : op' = [op EXCEPT ![w] = spent]
    BY <1>6 DEF Gemini, Goto
  <2> QED
    BY <1>1, <2>1 DEF TypeOK, store
<1>7. ASSUME NEW w \in Writers, AppendInbound(w) \/ AppendReply(w) \/ MirrorReply(w)
      PROVE i \in pending' \/ Marking(i)'
  <2>1. PICK t \in Turns : PushTurn(w, t)
    BY <1>7, PushCases
  <2>2. CASE Owner[w] = i
    BY <2>1, <2>2 DEF TypeOK, PushTurn, Push, Marking
  <2>3. CASE Owner[w] # i
    BY <1>1, <2>1, <2>3 DEF TypeOK, PushTurn, Push
  <2> QED
    BY <2>2, <2>3
<1>8. ASSUME NEW w \in Writers, CheckSession(w) \/ CommitManual(w)
      PROVE i \in pending' \/ Marking(i)'
  BY <1>1, <1>8 DEF CheckSession, CommitManual, store
<1>9. ASSUME NEW w \in Writers, WriterFails(w) PROVE FALSE
  BY <1>9, SessionAssumption DEF TypeOK, WriterFails
<1>10. ASSUME NEW f \in Flushers,
              FlushStart(f) \/ FlushRead(f) \/ FlushCommit(f) \/ FlushEnd(f)
       PROVE i \in pending' \/ Marking(i)'
  BY <1>1, <1>10 DEF FlushStart, FlushRead, FlushCommit, FlushEnd, store, writers
<1>11. ASSUME NEW f \in Flushers, FlushClear(f) PROVE i \in pending' \/ Marking(i)'
  <2>1. fcur[f] # i
    BY <1>11 DEF TypeOK, FlushClear
  <2>2. msgs'[i] = msgs[i] /\ (i \in pending => i \in pending') /\ faults = 0 /\ op' = op
    BY <1>11, <2>1 DEF TypeOK, FlushClear, writers
  <2> QED
    BY <1>0, <2>2 DEF Marking
<1>12. ASSUME NEW f \in Flushers, FlushFails(f) PROVE FALSE
  BY <1>12, SessionAssumption DEF TypeOK, FlushFails
<1>13. CASE Tick
  <2>1. msgs[i] # <<>> /\ faults = 0 /\ UNCHANGED <<pending, op>>
    BY <1>13 DEF Tick, writers
  <2> QED
    BY <1>1, <2>1
<1>14. CASE UNCHANGED vars
  BY <1>1, <1>14 DEF vars, store, writers
<1>15. ASSUME NEW w \in Writers, WriterStep(w) PROVE i \in pending' \/ Marking(i)'
  BY <1>15, <1>2, <1>3, <1>4, <1>5, <1>6, <1>7, <1>8 DEF WriterStep
<1>16. ASSUME NEW f \in Flushers, FlushStep(f) PROVE i \in pending' \/ Marking(i)'
  BY <1>16, <1>10, <1>11 DEF FlushStep
<1> QED
  BY <1>9, <1>10, <1>12, <1>13, <1>14, <1>15, <1>16, NextCases

\* As long as nothing has failed, no interleaving of appends and clears leaves
\* turns in a list that is not marked for the flush and will not be.
THEOREM NothingStranded == Spec => []StrandedOnlyByFailure
<1>1. Init => StrandedOnlyByFailure
  BY DEF Init, StrandedOnlyByFailure
<1> QED
  BY <1>1, StrandedStep, SessionTypeOK, PTL DEF Spec

-----------------------------------------------------------------------------
\* Each turn is pushed once, lies in the list of its owner, and is in a
\* flush's snapshot only for the identity that flush is working on.
OnceInv ==
  /\ \A w \in Inbound : <<w, "in">> \in written =>
                          step[w] \in {"generate", "reply", "done", "dead"}
  /\ \A w \in Inbound : <<w, "out">> \in written => step[w] \in {"done", "dead"}

HeldInv == \A i \in Identities : \A t \in Held(i) : t \in written /\ Owner[t[1]] = i

SnapInv == \A f \in Flushers : \A t \in fsnap[f] :
             t \in written /\ Owner[t[1]] = fcur[f] /\ Flushable(t)

\* What a step can do to what is held: at most one turn is new, the one that a
\* writer pushes.
LEMMA HeldGrows ==
  ASSUME TypeOK, [Next]_vars
  PROVE  \/ /\ \A i \in Identities : Held(i)' \subseteq Held(i)
            /\ written' = written
         \/ \E w \in Writers, t \in Turns :
              /\ PushTurn(w, t)
              /\ written' = written \cup {t}
              /\ Held(Owner[w])' = Held(Owner[w]) \cup {t}
              /\ \A i \in Identities \ {Owner[w]} : Held(i)' = Held(i)
<1> DEFINE Same == /\ \A i \in Identities : Held(i)' \subseteq Held(i)
                   /\ written' = written
<1>1. ASSUME NEW w \in Writers, AppendInbound(w) \/ AppendReply(w) \/ MirrorReply(w)
      PROVE  \E t \in Turns :
               /\ PushTurn(w, t)
               /\ written' = written \cup {t}
               /\ Held(Owner[w])' = Held(Owner[w]) \cup {t}
               /\ \A i \in Identities \ {Owner[w]} : Held(i)' = Held(i)
  <2>1. PICK t \in Turns : PushTurn(w, t)
    BY <1>1, PushCases
  <2>2. written' = written \cup {t} /\ msgs' = [msgs EXCEPT ![Owner[w]] = Append(@, t)]
    BY <2>1 DEF PushTurn, Push
  <2>3. Owner[w] \in Identities
    BY SessionAssumption
  <2>4. msgs'[Owner[w]] = Append(msgs[Owner[w]], t)
        /\ \A i \in Identities \ {Owner[w]} : msgs'[i] = msgs[i]
    BY <2>2, <2>3 DEF TypeOK
  <2> QED
    BY <2>1, <2>2, <2>3, <2>4, AppendHeld DEF TypeOK, Held
<1>2. ASSUME NEW w \in Writers, Trim(w) PROVE Same
  <2>1. \A i \in Identities : ToSet(msgs'[i]) \subseteq ToSet(msgs[i])
    BY <1>2, LastTurnsHeld DEF TypeOK, Trim
  <2> QED
    BY <1>2, <2>1 DEF Trim, history, Held
<1>3. ASSUME NEW w \in Writers, WriterStep(w) \/ WriterFails(w),
             ~AppendInbound(w), ~AppendReply(w), ~MirrorReply(w), ~Trim(w)
      PROVE Same
  BY <1>3 DEF WriterStep, WriterFails, SAdd, Touch, Receive, Gemini, CheckSession,
              CommitManual, Held, history, store
<1>4. ASSUME NEW f \in Flushers, FlushClear(f) PROVE Same
  <2>1. \A i \in Identities : msgs'[i] = msgs[i] \/ msgs'[i] = <<>>
    BY <1>4 DEF TypeOK, FlushClear
  <2> QED
    BY <1>4, <2>1, EmptyHeld DEF FlushClear, history, Held
<1>5. ASSUME NEW f \in Flushers,
             FlushStart(f) \/ FlushRead(f) \/ FlushCommit(f) \/ FlushEnd(f) \/ FlushFails(f)
      PROVE Same
  BY <1>5 DEF FlushStart, FlushRead, FlushCommit, FlushEnd, FlushFails, Held, history, store
<1>6. CASE Tick
  <2>1. \A i \in Identities : msgs'[i] = msgs[i] \/ msgs'[i] = <<>>
    BY <1>6 DEF Tick
  <2> QED
    BY <1>6, <2>1, EmptyHeld DEF Tick, history, Held
<1>7. CASE UNCHANGED vars
  BY <1>7 DEF vars, store, history, Held
<1> QED
  BY <1>1, <1>2, <1>3, <1>4, <1>5, <1>6, <1>7, NextCases DEF FlushStep

LEMMA OnceStep == TypeOK /\ OnceInv /\ [Next]_vars => OnceInv'
<1> SUFFICES ASSUME TypeOK, OnceInv, [Next]_vars PROVE OnceInv'
  OBVIOUS
<1>1. ASSUME written' = written, UNCHANGED step PROVE OnceInv'
  BY <1>1 DEF OnceInv
<1>2. ASSUME NEW w \in Writers, NEW t \in Turns, PushTurn(w, t), written' = written \cup {t}
      PROVE  OnceInv'
  <2>1. CASE t = <<w, "in">> /\ w \in Inbound
    <3>1. step[w] = "inbound" /\ \E to \in {"generate", "done"} : step' = [step EXCEPT ![w] = to]
      BY <1>2, <2>1, SessionAssumption DEF PushTurn
    <3> QED
      BY <1>2, <2>1, <3>1 DEF TypeOK, OnceInv
  <2>2. CASE t = <<w, "out">> /\ w \in Inbound
    <3>1. step[w] = "reply" /\ step' = [step EXCEPT ![w] = "done"]
      BY <1>2, <2>2, SessionAssumption DEF PushTurn
    <3> QED
      BY <1>2, <2>2, <3>1 DEF TypeOK, OnceInv
  <2>3. CASE t = <<w, "manual">> /\ w \in Manual
    <3>1. \E to \in {"commit"} : step' = [step EXCEPT ![w] = to]
      BY <1>2, <2>3, SessionAssumption DEF PushTurn
    <3>2. w \notin Inbound
      BY <2>3, SessionAssumption
    <3> QED
      BY <1>2, <2>3, <3>1, <3>2 DEF TypeOK, OnceInv
  <2> QED
    BY <1>2, <2>1, <2>2, <2>3 DEF PushTurn
<1>3. ASSUME NEW w \in Writers, SAdd(w) \/ Touch(w) \/ Trim(w) PROVE OnceInv'
  BY <1>1, <1>3 DEF SAdd, Touch, Trim, history
<1>4. ASSUME NEW w \in Writers, NEW to, written' = written, step' = [step EXCEPT ![w] = to],
             \/ w \in Manual
             \/ step[w] \in {"new", "clarify"}
             \/ step[w] = "generate" /\ to = "reply"
             \/ to = "dead"
      PROVE  OnceInv'
  <2>1. \A u \in Inbound \ {w} : step'[u] = step[u]
    BY <1>4 DEF TypeOK
  <2>2. ASSUME w \in Inbound PROVE step'[w] = to /\ w \notin Manual
    BY <1>4, <2>2, SessionAssumption DEF TypeOK
  <2> QED
    BY <1>4, <2>1, <2>2 DEF OnceInv
<1>5. ASSUME NEW w \in Writers, Receive(w) \/ Gemini(w) \/ CheckSession(w) \/ CommitManual(w)
      PROVE OnceInv'
  <2>1. CASE Receive(w)
    BY <2>1, <1>4 DEF Receive, Goto, history
  <2>2. CASE Gemini(w)
    BY <2>2, <1>4 DEF Gemini, Goto, history
  <2>3. CASE CheckSession(w) \/ CommitManual(w)
    BY <2>3, <1>4 DEF CheckSession, CommitManual, Goto, history
  <2> QED
    BY <1>5, <2>1, <2>2, <2>3
<1>6. ASSUME NEW w \in Writers, WriterFails(w) PROVE OnceInv'
  <2>1. \A v \in Inbound : step'[v] = step[v] \/ step'[v] = "dead"
    BY <1>6, SessionAssumption DEF TypeOK, WriterFails, Mirroring, Writers
  <2> QED
    BY <1>6, <2>1 DEF OnceInv, WriterFails, history
<1>7. ASSUME NEW w \in Writers, AppendInbound(w) \/ AppendReply(w) \/ MirrorReply(w)
      PROVE OnceInv'
  <2>1. PICK t \in Turns : PushTurn(w, t)
    BY <1>7, PushCases
  <2> QED
    BY <1>2, <2>1 DEF PushTurn, Push
<1>8. ASSUME NEW w \in Writers, WriterStep(w) PROVE OnceInv'
  BY <1>3, <1>5, <1>7, <1>8 DEF WriterStep
<1>9. ASSUME NEW f \in Flushers, FlushStart(f) \/ FlushStep(f) \/ FlushFails(f) PROVE OnceInv'
  BY <1>1, <1>9 DEF FlushStart, FlushStep, FlushRead, FlushCommit, FlushClear, FlushEnd,
                    FlushFails, writers, history
<1>10. CASE Tick \/ UNCHANGED vars
  BY <1>1, <1>10 DEF Tick, vars, writers, history
<1> QED
  BY <1>6, <1>8, <1>9, <1>10, NextCases

-----------------------------------------------------------------------------
LEMMA HeldStep == TypeOK /\ HeldInv /\ [Next]_vars => HeldInv'
<1> SUFFICES ASSUME TypeOK, HeldInv, [Next]_vars PROVE HeldInv'
  OBVIOUS
<1>1. CASE /\ \A i \in Identities : Held(i)' \subseteq Held(i)
           /\ written' = written
  BY <1>1 DEF HeldInv
<1>2. ASSUME NEW w \in Writers, NEW t \in Turns, PushTurn(w, t), written' = written \cup {t},
             Held(Owner[w])' = Held(Owner[w]) \cup {t},
             \A i \in Identities \ {Owner[w]} : Held(i)' = Held(i)
      PROVE  HeldInv'
  <2>1. t[1] = w
    BY <1>2 DEF PushTurn
  <2> QED
    BY <1>2, <2>1 DEF HeldInv
<1> QED
  BY <1>1, <1>2, HeldGrows

\* A flush's bookkeeping in a step that is not its own stays as it is.
LEMMA SnapStep == TypeOK /\ HeldInv /\ SnapInv /\ [Next]_vars => SnapInv'
<1> SUFFICES ASSUME TypeOK, HeldInv, SnapInv, [Next]_vars PROVE SnapInv'
  OBVIOUS
<1>0. written \subseteq written'
  BY HeldGrows
<1>1. ASSUME UNCHANGED <<fcur, fsnap>> PROVE SnapInv'
  BY <1>0, <1>1 DEF SnapInv
<1>2. ASSUME NEW f \in Flushers, fcur' = fcur, fsnap' = [fsnap EXCEPT ![f] = {}] PROVE SnapInv'
  <2>1. \A g \in Flushers : fsnap'[g] \subseteq fsnap[g]
    BY <1>2 DEF TypeOK
  <2> QED
    BY <1>0, <1>2, <2>1 DEF SnapInv
<1>3. ASSUME NEW f \in Flushers, FlushRead(f) PROVE SnapInv'
  <2>1. PICK i \in ftodo[f] :
          /\ fcur' = [fcur EXCEPT ![f] = i]
          /\ fsnap' = [fsnap EXCEPT ![f] = {t \in Held(i) : Flushable(t)}]
    BY <1>3 DEF FlushRead
  <2>2. i \in Identities
    BY <2>1 DEF TypeOK
  <2>3. fcur'[f] = i /\ fsnap'[f] = {t \in Held(i) : Flushable(t)}
    BY <2>1 DEF TypeOK
  <2>4. \A g \in Flushers \ {f} : fcur'[g] = fcur[g] /\ fsnap'[g] = fsnap[g]
    BY <2>1 DEF TypeOK
  <2> QED
    BY <1>0, <2>2, <2>3, <2>4 DEF SnapInv, HeldInv
<1>4. ASSUME NEW f \in Flushers, FlushStart(f) \/ FlushCommit(f) \/ FlushEnd(f) PROVE SnapInv'
  BY <1>1, <1>4 DEF FlushStart, FlushCommit, FlushEnd
<1>5. ASSUME NEW f \in Flushers, FlushClear(f) \/ FlushFails(f) PROVE SnapInv'
  BY <1>2, <1>5 DEF FlushClear, FlushFails
<1>6. ASSUME NEW w \in Writers, WriterStep(w) \/ WriterFails(w) PROVE SnapInv'
  <2>1. UNCHANGED flush
    BY <1>6 DEF WriterStep, WriterFails, SAdd, Touch, Trim, Receive, Gemini, CheckSession,
                CommitManual, AppendInbound, AppendReply, MirrorReply
  <2> QED
    BY <1>1, <2>1 DEF flush
<1>7. CASE Tick \/ UNCHANGED vars
  BY <1>1, <1>7 DEF Tick, vars, flush
<1> QED
  BY <1>3, <1>4, <1>5, <1>6, <1>7, NextCases DEF FlushStep

-----------------------------------------------------------------------------
\* The flushes that are about to insert t, and those that have inserted it and
\* are about to clear it.
Inserting(t) == {f \in Flushers : fpc[f] = "commit" /\ t \in fsnap[f]}
Clearing(t)  == {f \in Flushers : fpc[f] = "clear" /\ t \in fsnap[f]}

\* While t is in the list, each of its rows belongs to a failure or to a flush
\* that will still clear it; once it is gone, only flushes that had already
\* read it can insert it again.
DupInv ==
  \A t \in Turns : Flushable(t) =>
    /\ t \notin written => rows[t] = 0
    /\ t \in Held(Owner[t[1]]) => rows[t] <= faults + Cardinality(Clearing(t))
    /\ rows[t] + Cardinality(Inserting(t)) <= faults + Cardinality(Flushers)

LEMMA FlushersFinite ==
  ASSUME NEW X \in SUBSET Flushers, NEW Y \in SUBSET Flushers, X \cap Y = {}
  PROVE  /\ IsFiniteSet(X) /\ Cardinality(X) \in Nat
         /\ IsFiniteSet(Y) /\ Cardinality(Y) \in Nat
         /\ Cardinality(X) + Cardinality(Y) <= Cardinality(Flushers)
         /\ Cardinality(Flushers) \in Nat \ {0}
<1>1. IsFiniteSet(Flushers) /\ Cron \in Flushers
  BY SessionAssumption, FS_AddElement DEF Flushers
<1>2. IsFiniteSet(X) /\ IsFiniteSet(Y) /\ X \cup Y \in SUBSET Flushers
  BY <1>1, FS_Subset
<1>3. Cardinality(X) \in Nat /\ Cardinality(Y) \in Nat /\ Cardinality(X \cap Y) = 0
  BY <1>2, FS_CardinalityType, FS_EmptySet
<1>4. Cardinality(X \cup Y) = Cardinality(X) + Cardinality(Y) - Cardinality(X \cap Y)
  BY <1>2, FS_Union
<1>5. Cardinality(X \cup Y) <= Cardinality(Flushers)
  BY <1>1, <1>2, FS_Subset
<1>6. Cardinality(Flushers) \in Nat \ {0}
  BY <1>1, FS_CardinalityType, FS_EmptySet
<1> QED
  BY <1>2, <1>3, <1>4, <1>5, <1>6

LEMMA DupStep ==
  /\ TypeOK /\ OnceInv /\ HeldInv /\ SnapInv /\ DupInv /\ [Next]_vars
  => DupInv'
<1> SUFFICES ASSUME TypeOK, OnceInv, HeldInv, SnapInv, DupInv, [Next]_vars,
                    NEW t \in Turns, Flushable(t)
             PROVE  /\ t \notin written' => rows'[t] = 0
                    /\ t \in Held(Owner[t[1]])' => rows'[t] <= faults' + Cardinality(Clearing(t)')
                    /\ rows'[t] + Cardinality(Inserting(t)') <= faults' + Cardinality(Flushers)
  BY DEF DupInv, Clearing, Inserting
<1> DEFINE Goal ==
      /\ t \notin written' => rows'[t] = 0
      /\ t \in Held(Owner[t[1]])' => rows'[t] <= faults' + Cardinality(Clearing(t)')
      /\ rows'[t] + Cardinality(Inserting(t)') <= faults' + Cardinality(Flushers)
<1> DEFINE hold == t \in Held(Owner[t[1]])
<1> HIDE DEF Goal, hold
<1>0. /\ t \notin written => rows[t] = 0
      /\ hold => rows[t] <= faults + Cardinality(Clearing(t))
      /\ rows[t] + Cardinality(Inserting(t)) <= faults + Cardinality(Flushers)
      /\ rows[t] \in Nat /\ faults \in Nat
  BY SessionAssumption DEF DupInv, TypeOK, hold
<1>n. /\ Cardinality(Clearing(t)) \in Nat /\ Cardinality(Inserting(t)) \in Nat
      /\ Cardinality(Clearing(t)') \in Nat /\ Cardinality(Inserting(t)') \in Nat
      /\ Cardinality(Flushers) \in Nat \ {0}
      /\ Cardinality(Inserting(t)') + Cardinality(Clearing(t)') <= Cardinality(Flushers)
      /\ Cardinality(Inserting(t)) + Cardinality(Clearing(t)) <= Cardinality(Flushers)
  <2>1. /\ Clearing(t) \in SUBSET Flushers /\ Inserting(t) \in SUBSET Flushers
        /\ Clearing(t)' \in SUBSET Flushers /\ Inserting(t)' \in SUBSET Flushers
        /\ Inserting(t) \cap Clearing(t) = {} /\ Inserting(t)' \cap Clearing(t)' = {}
    BY DEF Clearing, Inserting
  <2> QED
    BY <2>1, FlushersFinite
<1>f. IsFiniteSet(Inserting(t)) /\ IsFiniteSet(Clearing(t))
  BY FlushersFinite DEF Clearing, Inserting
\* A step that inserts no row, leaves the flushes of t alone and can only take
\* t out of the list keeps the balance.
<1>1. ASSUME rows'[t] = rows[t], faults <= faults', faults' \in Nat, hold' => hold,
             written \subseteq written',
             Clearing(t)' = Clearing(t), Inserting(t)' = Inserting(t)
      PROVE  Goal
  BY <1>0, <1>1, <1>n DEF Goal, hold
<1>2. written \subseteq written'
  BY HeldGrows
<1>3. t[1] \in Writers /\ Owner[t[1]] \in Identities
  BY SessionAssumption DEF Turns, Writers
\* The only step that puts t into the list is its own RPUSH, and then it has no
\* row and is in no snapshot.
<1>4. (hold' => hold) \/ (t \notin written /\ hold')
  <2>1. CASE \A i \in Identities : Held(i)' \subseteq Held(i)
    BY <2>1, <1>3 DEF hold
  <2>2. ASSUME NEW w \in Writers, NEW u \in Turns, PushTurn(w, u),
               Held(Owner[w])' = Held(Owner[w]) \cup {u},
               \A i \in Identities \ {Owner[w]} : Held(i)' = Held(i)
        PROVE  (hold' => hold) \/ (t \notin written /\ hold')
    <3>1. CASE u = t
      <4>1. t \notin written
        BY <2>2, <3>1 DEF PushTurn, OnceInv, Flushable
      <4>2. hold'
        BY <2>2, <3>1 DEF PushTurn, hold
      <4> QED
        BY <4>1, <4>2
    <3>2. CASE u # t
      BY <2>2, <3>2, <1>3 DEF hold
    <3> QED
      BY <3>1, <3>2
  <2> QED
    BY <2>1, <2>2, HeldGrows
<1>5. ASSUME rows'[t] = rows[t], UNCHANGED flush, faults <= faults', faults' \in Nat
      PROVE  Goal
  <2>1. Clearing(t)' = Clearing(t) /\ Inserting(t)' = Inserting(t)
    BY <1>5 DEF flush, Clearing, Inserting
  <2>2. CASE hold' => hold
    BY <1>1, <1>2, <1>5, <2>1, <2>2
  <2>3. CASE t \notin written /\ hold'
    BY <1>0, <1>2, <1>5, <1>n, <2>1, <2>3 DEF Goal, hold
  <2> QED
    BY <1>4, <2>2, <2>3
<1>6. ASSUME NEW w \in Writers, WriterStep(w) \/ WriterFails(w) PROVE Goal
  <2>1. rows'[t] = rows[t]
    <3>1. CASE CommitManual(w)
      <4>1. t # <<w, "manual">>
        BY DEF Flushable
      <4> QED
        BY <3>1, <4>1 DEF TypeOK, CommitManual
    <3>2. CASE ~CommitManual(w)
      BY <1>6, <3>2 DEF WriterStep, WriterFails, SAdd, Touch, Trim, Receive, Gemini, CheckSession,
                        AppendInbound, AppendReply, MirrorReply
    <3> QED
      BY <3>1, <3>2
  <2>2. UNCHANGED flush
    BY <1>6 DEF WriterStep, WriterFails, SAdd, Touch, Trim, Receive, Gemini, CheckSession,
                CommitManual, AppendInbound, AppendReply, MirrorReply
  <2>3. faults' = faults \/ faults' = faults + 1
    BY <1>6 DEF WriterStep, WriterFails, SAdd, Touch, Trim, Receive, Gemini, CheckSession,
                CommitManual, AppendInbound, AppendReply, MirrorReply
  <2> QED
    BY <1>0, <1>5, <2>1, <2>2, <2>3
<1>7. ASSUME Tick \/ UNCHANGED vars PROVE Goal
  BY <1>0, <1>5, <1>7 DEF Tick, vars
<1>8. ASSUME NEW f \in Flushers, FlushStart(f) \/ FlushEnd(f) PROVE Goal
  <2>1. UNCHANGED <<rows, faults, fsnap>>
    BY <1>8 DEF FlushStart, FlushEnd
  <2>2. fpc[f] \in {"idle", "next"} /\ fpc'[f] \in {"idle", "next"}
        /\ \A g \in Flushers \ {f} : fpc'[g] = fpc[g]
    BY <1>8 DEF TypeOK, FlushStart, FlushEnd
  <2>3. Clearing(t)' = Clearing(t) /\ Inserting(t)' = Inserting(t)
    BY <2>1, <2>2 DEF Clearing, Inserting
  <2>4. hold' => hold
    BY <1>8 DEF FlushStart, FlushEnd, store, hold, Held
  <2> QED
    BY <1>0, <1>1, <1>2, <2>1, <2>3, <2>4
\* A flush that reads t while it is in the list is one more that can insert it.
<1>9. ASSUME NEW f \in Flushers, FlushRead(f) PROVE Goal
  <2>1. PICK i \in ftodo[f] :
          /\ fsnap' = [fsnap EXCEPT ![f] = {u \in Held(i) : Flushable(u)}]
          /\ fpc' = [fpc EXCEPT ![f] = IF {u \in Held(i) : Flushable(u)} = {} THEN "clear" ELSE "commit"]
    BY <1>9 DEF FlushRead
  <2>2. UNCHANGED <<rows, faults, msgs, written>> /\ fpc[f] = "next"
    BY <1>9 DEF FlushRead, store, history
  <2>3. i \in Identities
    BY <2>1 DEF TypeOK
  <2>4. fsnap'[f] = {u \in Held(i) : Flushable(u)}
        /\ fpc'[f] = (IF fsnap'[f] = {} THEN "clear" ELSE "commit")
        /\ \A g \in Flushers \ {f} : fsnap'[g] = fsnap[g] /\ fpc'[g] = fpc[g]
    BY <2>1 DEF TypeOK
  <2>5. Clearing(t)' = Clearing(t)
    BY <2>2, <2>4 DEF Clearing
  <2>6. hold' = hold
    BY <2>2 DEF hold, Held
  <2>7. CASE hold
    BY <1>0, <1>n, <2>2, <2>5, <2>6, <2>7 DEF Goal, hold
  <2>8. CASE ~hold
    <3>1. t \notin fsnap'[f]
      BY <2>3, <2>4, <2>8 DEF HeldInv, hold
    <3>2. Inserting(t)' = Inserting(t)
      BY <2>2, <2>4, <3>1 DEF Inserting
    <3> QED
      BY <1>0, <1>1, <1>2, <2>2, <2>5, <2>6, <3>2
  <2> QED
    BY <2>7, <2>8
\* Its commit turns it from one that can insert t into one that will clear it.
<1>10. ASSUME NEW f \in Flushers, FlushCommit(f) PROVE Goal
  <2>1. /\ fpc[f] = "commit" /\ UNCHANGED <<fsnap, faults, msgs, written>>
        /\ fpc'[f] = "clear" /\ \A g \in Flushers \ {f} : fpc'[g] = fpc[g]
        /\ rows'[t] = IF t \in fsnap[f] THEN rows[t] + 1 ELSE rows[t]
    BY <1>10 DEF TypeOK, FlushCommit, store, history
  <2>2. hold' = hold
    BY <2>1 DEF hold, Held
  <2>3. CASE t \in fsnap[f]
    <3>1. /\ Clearing(t)' = Clearing(t) \cup {f} /\ f \notin Clearing(t)
          /\ Inserting(t)' = Inserting(t) \ {f} /\ f \in Inserting(t)
      BY <2>1, <2>3 DEF Clearing, Inserting
    <3>2. /\ Cardinality(Clearing(t)') = Cardinality(Clearing(t)) + 1
          /\ Cardinality(Inserting(t)') = Cardinality(Inserting(t)) - 1
      <4>1. Cardinality(Clearing(t) \cup {f}) = Cardinality(Clearing(t)) + 1
        BY <3>1, <1>f, FS_AddElement
      <4>2. Cardinality(Inserting(t) \ {f}) = Cardinality(Inserting(t)) - 1
        BY <3>1, <1>f, FS_RemoveElement
      <4> QED
        BY <3>1, <4>1, <4>2
    <3>3. t \in written
      BY <2>3 DEF SnapInv
    <3> QED
      BY <1>0, <1>n, <2>1, <2>2, <2>3, <3>2, <3>3 DEF Goal, hold
  <2>4. CASE t \notin fsnap[f]
    <3>1. Clearing(t)' = Clearing(t) /\ Inserting(t)' = Inserting(t)
      BY <2>1, <2>4 DEF Clearing, Inserting
    <3> QED
      BY <1>0, <1>1, <2>1, <2>2, <2>4, <3>1
  <2> QED
    BY <2>3, <2>4
\* The clear of t's owner takes t out of the list; any other clear is not of t.
<1>11. ASSUME NEW f \in Flushers, FlushClear(f) PROVE Goal
  <2>1. /\ fpc[f] = "clear" /\ UNCHANGED <<rows, faults, written>>
        /\ fpc'[f] = "next" /\ fsnap'[f] = {}
        /\ \A g \in Flushers \ {f} : fpc'[g] = fpc[g] /\ fsnap'[g] = fsnap[g]
        /\ msgs' = [msgs EXCEPT ![fcur[f]] = <<>>]
    BY <1>11 DEF TypeOK, FlushClear, history
  <2>2. Inserting(t)' = Inserting(t)
    BY <2>1 DEF Inserting
  <2>3. CASE Owner[t[1]] = fcur[f]
    <3>1. ~hold'
      BY <1>3, <2>1, <2>3, EmptyHeld DEF TypeOK, hold, Held
    <3> QED
      BY <1>0, <2>1, <2>2, <3>1 DEF Goal, hold
  <2>4. CASE Owner[t[1]] # fcur[f]
    <3>1. t \notin fsnap[f]
      BY <2>4 DEF SnapInv
    <3>2. Clearing(t)' = Clearing(t)
      BY <2>1, <3>1 DEF Clearing
    <3>3. hold' = hold
      BY <1>3, <2>1, <2>4 DEF TypeOK, hold, Held
    <3> QED
      BY <1>0, <1>1, <2>1, <2>2, <3>2, <3>3
  <2> QED
    BY <2>3, <2>4
\* A failure can leave one more row behind without its clear.
<1>12. ASSUME NEW f \in Flushers, FlushFails(f) PROVE Goal
  <2>1. /\ UNCHANGED <<rows, msgs, written>> /\ faults' = faults + 1
        /\ fpc'[f] \in {"next", "idle"}
        /\ \A g \in Flushers \ {f} : fpc'[g] = fpc[g] /\ fsnap'[g] = fsnap[g]
    BY <1>12 DEF TypeOK, FlushFails, store, history
  <2>2. hold' = hold
    BY <2>1 DEF hold, Held
  <2>3. Inserting(t)' \in SUBSET Inserting(t)
    BY <2>1 DEF Inserting
  <2>4. Clearing(t)' = Clearing(t) \ {f}
    BY <2>1 DEF Clearing
  <2>5. Cardinality(Inserting(t)') <= Cardinality(Inserting(t))
        /\ Cardinality(Clearing(t)') >= Cardinality(Clearing(t)) - 1
    BY <1>f, <1>n, <2>3, <2>4, FS_Subset, FS_RemoveElement
  <2> QED
    BY <1>0, <1>n, <2>1, <2>2, <2>5 DEF Goal, hold
<1>13. Goal
  <2>1. ASSUME NEW f \in Flushers, FlushStep(f) PROVE Goal
    BY <2>1, <1>8, <1>9, <1>10, <1>11 DEF FlushStep
  <2> QED
    BY <2>1, <1>6, <1>7, <1>8, <1>12, NextCases
<1> QED
  BY <1>13 DEF Goal

-----------------------------------------------------------------------------
\* The row of a manual reply is the one its own request commits.
ManualInv ==
  \A m \in Manual : \/ rows[<<m, "manual">>] = 0
                    \/ rows[<<m, "manual">>] = 1 /\ step[m] \in {"done", "dead"}

LEMMA ManualStep == TypeOK /\ SnapInv /\ ManualInv /\ [Next]_vars => ManualInv'
<1> SUFFICES ASSUME TypeOK, SnapInv, ManualInv, [Next]_vars, NEW m \in Manual
             PROVE  \/ rows'[<<m, "manual">>] = 0
                    \/ rows'[<<m, "manual">>] = 1 /\ step'[m] \in {"done", "dead"}
  BY DEF ManualInv
<1> DEFINE t == <<m, "manual">>
<1>0. /\ t \in Turns /\ m \in Writers
      /\ rows[t] = 0 \/ (rows[t] = 1 /\ step[m] \in {"done", "dead"})
  <2>1. t \in Turns /\ m \in Writers
    BY DEF Turns, Writers
  <2>2. rows[t] = 0 \/ (rows[t] = 1 /\ step[m] \in {"done", "dead"})
    BY DEF ManualInv
  <2> QED
    BY <2>1, <2>2
<1>1. ASSUME rows'[t] = rows[t], step[m] \in {"done", "dead"} => step'[m] \in {"done", "dead"}
      PROVE  rows'[t] = 0 \/ (rows'[t] = 1 /\ step'[m] \in {"done", "dead"})
  BY <1>0, <1>1
<1>2. ASSUME NEW w \in Writers, WriterStep(w) \/ WriterFails(w), ~CommitManual(w)
      PROVE  rows'[t] = 0 \/ (rows'[t] = 1 /\ step'[m] \in {"done", "dead"})
  <2>1. rows' = rows
    BY <1>2 DEF WriterStep, WriterFails, SAdd, Touch, Trim, Receive, Gemini, CheckSession,
                AppendInbound, AppendReply, MirrorReply
  <2>2. step[m] \in {"done", "dead"} => step'[m] \in {"done", "dead"}
    <3>1. \/ step' = step
          \/ step[w] \notin {"done", "dead"} /\ \A u \in Writers \ {w} : step'[u] = step[u]
          \/ step' = [step EXCEPT ![w] = "dead"]
      BY <1>2 DEF TypeOK, WriterStep, WriterFails, Mirroring, SAdd, Touch, Trim, Receive, Gemini,
                  CheckSession, AppendInbound, AppendReply, MirrorReply, Goto
    <3> QED
      BY <1>0, <3>1 DEF TypeOK
  <2> QED
    BY <1>1, <2>1, <2>2
<1>3. ASSUME NEW w \in Writers, CommitManual(w)
      PROVE  rows'[t] = 0 \/ (rows'[t] = 1 /\ step'[m] \in {"done", "dead"})
  <2>1. CASE w = m
    <3>1. rows[t] = 0 /\ step' = [step EXCEPT ![m] = "done"]
          /\ rows' = [rows EXCEPT ![t] = @ + 1]
      BY <1>0, <1>3, <2>1 DEF CommitManual, Goto
    <3> QED
      BY <1>0, <3>1 DEF TypeOK
  <2>2. CASE w # m
    BY <1>0, <1>1, <1>3, <2>2 DEF TypeOK, CommitManual, Goto
  <2> QED
    BY <2>1, <2>2
<1>4. ASSUME NEW f \in Flushers, FlushStart(f) \/ FlushStep(f) \/ FlushFails(f)
      PROVE  rows'[t] = 0 \/ (rows'[t] = 1 /\ step'[m] \in {"done", "dead"})
  <2>1. step' = step
    BY <1>4 DEF FlushStart, FlushStep, FlushRead, FlushCommit, FlushClear, FlushEnd, FlushFails, writers
  <2>2. rows'[t] = rows[t]
    <3>1. t \notin fsnap[f]
      BY DEF SnapInv, Flushable
    <3> QED
      BY <1>0, <1>4, <3>1 DEF FlushStart, FlushStep, FlushRead, FlushCommit, FlushClear, FlushEnd, FlushFails
  <2> QED
    BY <1>1, <2>1, <2>2
<1>5. CASE Tick \/ UNCHANGED vars
  BY <1>1, <1>5 DEF Tick, vars, writers
<1> QED
  BY <1>2, <1>3, <1>4, <1>5, NextCases

-----------------------------------------------------------------------------
SessionInv == OnceInv /\ HeldInv /\ SnapInv /\ DupInv /\ ManualInv

LEMMA SessionInvHolds == Spec => []SessionInv
<1>1. Init => SessionInv
  <2> SUFFICES ASSUME Init PROVE SessionInv
    OBVIOUS
  <2>1. \A i \in Identities : Held(i) = {}
    BY EmptyHeld DEF Init, Held
  <2>2. \A t : Inserting(t) = {}
    BY DEF Init, Inserting
  <2>3. \A m \in Manual : <<m, "manual">> \in Turns
    BY DEF Turns
  <2>4. Cardinality(Flushers) \in Nat \ {0} /\ Cardinality({}) = 0
    <3>1. {} \in SUBSET Flushers
      OBVIOUS
    <3> QED
      BY <3>1, FlushersFinite, FS_EmptySet
  <2>5. \A t \in Turns : Owner[t[1]] \in Identities
    BY SessionAssumption DEF Turns, Writers
  <2>6. DupInv
    <3> SUFFICES ASSUME NEW t \in Turns, Flushable(t)
                 PROVE  /\ t \notin written => rows[t] = 0
                        /\ t \in Held(Owner[t[1]]) => rows[t] <= faults + Cardinality(Clearing(t))
                        /\ rows[t] + Cardinality(Inserting(t)) <= faults + Cardinality(Flushers)
      BY DEF DupInv
    <3>1. rows[t] = 0 /\ faults = 0
      BY DEF Init
    <3>2. t \notin Held(Owner[t[1]])
      BY <2>1, <2>5
    <3>3. Cardinality(Inserting(t)) = 0
      BY <2>2, <2>4
    <3>4. 0 + 0 <= 0 + Cardinality(Flushers)
      BY <2>4
    <3> QED
      BY <3>1, <3>2, <3>3, <3>4
  <2> QED
    BY <2>1, <2>3, <2>6 DEF Init, SessionInv, OnceInv, HeldInv, SnapInv, ManualInv
<1>2. TypeOK /\ SessionInv /\ [Next]_vars => SessionInv'
  BY OnceStep, HeldStep, SnapStep, DupStep, ManualStep DEF SessionInv
<1> QED
  BY <1>1, <1>2, SessionTypeOK, PTL DEF Spec

\* A manual reply is one row at most, whatever flushes find its mirror.
THEOREM ManualOnce == Spec => []ManualReplyOnce
<1>1. SessionInv => ManualReplyOnce
  <2> SUFFICES ASSUME ManualInv, NEW m \in Manual PROVE rows[<<m, "manual">>] <= 1
    BY DEF SessionInv, ManualReplyOnce
  <2> QED
    BY DEF ManualInv
<1> QED
  BY <1>1, SessionInvHolds, PTL

\* A turn is inserted at most once per concurrent flush and once more per
\* failure, however long the system runs.
THEOREM DuplicatesBounded == Spec => []DuplicateBound
<1>1. TypeOK /\ SessionInv => DuplicateBound
  <2> SUFFICES ASSUME TypeOK, SessionInv, NEW t \in Turns
               PROVE  rows[t] <= Cardinality(Flushers) + faults
    BY DEF DuplicateBound
  <2>1. faults \in Nat /\ rows[t] \in Nat
    BY SessionAssumption DEF TypeOK
  <2>2. Cardinality(Flushers) \in Nat \ {0} /\ Cardinality(Inserting(t)) \in Nat
    <3>1. Inserting(t) \in SUBSET Flushers /\ {} \in SUBSET Flushers
      BY DEF Inserting
    <3> QED
      BY <3>1, FlushersFinite
  <2>3. CASE Flushable(t)
    BY <2>1, <2>2, <2>3 DEF SessionInv, DupInv
  <2>4. CASE ~Flushable(t)
    <3>1. \E m \in Manual : t = <<m, "manual">>
      BY <2>4 DEF Turns, Flushable
    <3> QED
      BY <2>1, <2>2, <3>1 DEF SessionInv, ManualInv
  <2> QED
    BY <2>3, <2>4
<1> QED
  BY <1>1, SessionInvHolds, SessionTypeOK, PTL

-----------------------------------------------------------------------------
(* No turn is lost but in a flush's window.                                *)

\* A flush that has read a list has in its snapshot what is in the list still,
\* but for late turns, and clears only what it has inserted.
Covers(f) ==
  /\ \A t \in Held(fcur[f]) \ late : Owed(t) => t \in fsnap[f]
  /\ fpc[f] = "clear" => \A t \in fsnap[f] : rows[t] >= 1
WindowInv == \A f \in Flushers : fpc[f] \in {"commit", "clear"} => Covers(f)

\* Rows are never taken back, and a late turn stays late until it has a row.
LEMMA RowsGrow ==
  ASSUME TypeOK, [Next]_vars
  PROVE  /\ \A t \in Turns : rows[t] \in Nat /\ rows'[t] \in Nat /\ rows'[t] >= rows[t]
         /\ \A t \in Turns : t \in late \ late' => rows'[t] >= 1
         /\ faults \in Nat /\ faults' \in Nat /\ faults' >= faults
<1>0. TypeOK'
  BY TypeStep
<1>1. /\ \A t \in Turns : rows[t] \in Nat /\ rows'[t] \in Nat
      /\ faults \in Nat /\ faults' \in Nat
  BY <1>0, SessionAssumption DEF TypeOK
<1>2. /\ \A t \in Turns : t \in late \ late' => rows'[t] = rows[t] + 1
      /\ faults' = faults \/ faults' = faults + 1
      /\ \A t \in Turns : rows'[t] = rows[t] \/ rows'[t] = rows[t] + 1
  <2>1. ASSUME NEW w \in Writers, WriterStep(w) \/ WriterFails(w), ~CommitManual(w) PROVE <1>2
    BY <2>1 DEF WriterStep, WriterFails, SAdd, Touch, Trim, Receive, Gemini, CheckSession,
                AppendInbound, AppendReply, MirrorReply, Push, history
  <2>2. ASSUME NEW w \in Writers, CommitManual(w) PROVE <1>2
    BY <2>2 DEF CommitManual, history, TypeOK
  <2>3. ASSUME NEW f \in Flushers, FlushCommit(f) PROVE <1>2
    BY <2>3 DEF FlushCommit, TypeOK
  <2>4. ASSUME NEW f \in Flushers, FlushStart(f) \/ FlushStep(f) \/ FlushFails(f), ~FlushCommit(f) PROVE <1>2
    BY <2>4 DEF FlushStart, FlushStep, FlushRead, FlushClear, FlushEnd, FlushFails, history
  <2>5. ASSUME Tick \/ UNCHANGED vars PROVE <1>2
    BY <2>5 DEF Tick, vars, history
  <2> QED
    BY <2>1, <2>2, <2>3, <2>4, <2>5, NextCases DEF FlushStep, WriterStep
<1> QED
  BY <1>1, <1>2

LEMMA WindowStep ==
  ASSUME TypeOK, SnapInv, WindowInv, [Next]_vars
  PROVE  WindowInv'
<1> SUFFICES ASSUME NEW f \in Flushers, fpc'[f] \in {"commit", "clear"} PROVE Covers(f)'
  BY DEF WindowInv
<1>0. /\ \A t \in Turns : rows[t] \in Nat /\ rows'[t] \in Nat /\ rows'[t] >= rows[t]
      /\ \A t \in Turns : t \in late \ late' => rows'[t] >= 1
  BY RowsGrow
<1>o. \A t \in Turns : Owed(t)' => Owed(t)
  BY <1>0 DEF Owed
<1>t. fcur[f] \in Identities /\ fsnap[f] \subseteq Turns
  BY DEF TypeOK
\* A flush that stays where it is: a turn that is new in its list is late.
<1>1. ASSUME fpc'[f] = fpc[f], fcur'[f] = fcur[f], fsnap'[f] = fsnap[f]
      PROVE  Covers(f)'
  <2>1. Covers(f) /\ fpc[f] \in {"commit", "clear"}
    BY <1>1 DEF WindowInv
  <2>i. PICK i \in Identities : i = fcur[f] /\ i = fcur'[f]
    BY <1>t, <1>1
  <2>2. ASSUME NEW t \in Held(i)' \ late', Owed(t)' PROVE t \in fsnap[f]
    <3>1. CASE t \in Held(i)
      <4>1. t \in Turns
        BY <3>1 DEF TypeOK, Held, ToSet
      <4>2. Owed(t) /\ t \notin late
        BY <1>0, <1>o, <2>2, <4>1 DEF Owed
      <4> QED
        BY <2>1, <2>i, <3>1, <4>2 DEF Covers
    <3>2. CASE t \notin Held(i)
      <4>1. PICK w \in Writers, u \in Turns :
              /\ PushTurn(w, u)
              /\ Held(Owner[w])' = Held(Owner[w]) \cup {u}
              /\ \A j \in Identities \ {Owner[w]} : Held(j)' = Held(j)
        BY <2>2, <3>2, HeldGrows
      <4>2. i = Owner[w] /\ t = u
        BY <2>2, <3>2, <4>1
      <4>3. u \in late'
        BY <2>1, <2>i, <4>1, <4>2 DEF PushTurn, Push
      <4> QED
        BY <2>2, <4>2, <4>3
    <3> QED
      BY <3>1, <3>2
  <2>3. ASSUME fpc[f] = "clear", NEW t \in fsnap[f] PROVE rows'[t] >= 1
    <3>1. t \in Turns /\ rows[t] >= 1
      BY <1>t, <2>1, <2>3 DEF Covers
    <3> QED
      BY <1>0, <3>1
  <2> QED
    BY <1>1, <2>i, <2>2, <2>3 DEF Covers, Held
<1>2. ASSUME NEW w \in Writers, WriterStep(w) \/ WriterFails(w) PROVE Covers(f)'
  <2>1. UNCHANGED flush
    BY <1>2 DEF WriterStep, WriterFails, SAdd, Touch, Trim, Receive, Gemini, CheckSession,
                CommitManual, AppendInbound, AppendReply, MirrorReply
  <2> QED
    BY <1>1, <2>1 DEF flush
<1>3. CASE Tick \/ UNCHANGED vars
  BY <1>1, <1>3 DEF Tick, vars, flush
<1>4. ASSUME NEW g \in Flushers \ {f}, FlushStart(g) \/ FlushStep(g) \/ FlushFails(g) PROVE Covers(f)'
  <2>1. fpc'[f] = fpc[f] /\ fcur'[f] = fcur[f] /\ fsnap'[f] = fsnap[f]
    BY <1>4 DEF TypeOK, FlushStart, FlushStep, FlushRead, FlushCommit, FlushClear, FlushEnd, FlushFails
  <2> QED
    BY <1>1, <2>1
<1>5. CASE FlushRead(f)
  <2>1. PICK i \in ftodo[f] : /\ fcur' = [fcur EXCEPT ![f] = i]
                              /\ fsnap' = [fsnap EXCEPT ![f] = {t \in Held(i) : Flushable(t)}]
                              /\ fpc' = [fpc EXCEPT ![f] = IF {t \in Held(i) : Flushable(t)} = {} THEN "clear"
                                                                                                  ELSE "commit"]
    BY <1>5 DEF FlushRead
  <2>2. fcur'[f] = i /\ fsnap'[f] = {t \in Held(i) : Flushable(t)} /\ (fpc'[f] = "clear" => fsnap'[f] = {})
    BY <2>1 DEF TypeOK
  <2>3. \A j : Held(j)' = Held(j)
    BY <1>5 DEF FlushRead, store, Held
  <2> QED
    BY <2>2, <2>3 DEF Covers, Held, Owed
<1>6. CASE FlushCommit(f)
  <2>1. /\ fpc[f] = "commit" /\ fcur' = fcur /\ fsnap' = fsnap /\ UNCHANGED msgs
        /\ late' = late \ fsnap[f]
        /\ \A t \in Turns : t \in fsnap[f] => rows'[t] = rows[t] + 1
    BY <1>6 DEF FlushCommit, store
  <2>2. Covers(f)
    BY <2>1 DEF WindowInv
  <2>3. \A t \in fsnap[f] : rows'[t] >= 1
    BY <1>0, <1>t, <2>1
  <2>4. ASSUME NEW t \in Held(fcur[f]) \ late', Owed(t)' PROVE t \in fsnap[f]
    <3>1. t \in Turns
      BY <1>t, <2>4 DEF TypeOK, Held, ToSet
    <3> QED
      BY <1>o, <2>1, <2>2, <2>4, <3>1 DEF Covers
  <2> QED
    BY <2>1, <2>3, <2>4 DEF Covers, Held
<1>7. CASE FlushStart(f) \/ FlushClear(f) \/ FlushEnd(f) \/ FlushFails(f)
  BY <1>7 DEF FlushStart, FlushClear, FlushEnd, FlushFails, TypeOK
<1> QED
  BY <1>2, <1>3, <1>4, <1>5, <1>6, <1>7, NextCases DEF FlushStep

-----------------------------------------------------------------------------
(* What EXPIREAT has promised.                                             *)

\* Only of turns that are written and owed a row is anything promised.
PromiseInv == \A t \in Turns : kept[t] # 0 => t \in written /\ Owed(t)

\* A list expires no earlier than was promised of each turn that it holds.
ExpiryInv == \A i \in Identities : \A t \in Held(i) : msgsTtl[i] = 0 \/ msgsTtl[i] >= kept[t]

\* A turn that is owed a row has been followed by all those behind it.
OrderInv ==
  \A i \in Identities : \A k \in 1 .. Len(msgs[i]) :
    Owed(msgs[i][k]) => after[msgs[i][k]] >= Len(msgs[i]) - k

LEMMA OwedShrinks ==
  ASSUME TypeOK, [Next]_vars, NEW t \in Turns, Owed(t)'
  PROVE  Owed(t) /\ (t \notin late' => t \notin late)
<1>1. rows[t] \in Nat /\ rows'[t] \in Nat /\ rows'[t] >= rows[t]
      /\ (t \in late \ late' => rows'[t] >= 1)
  BY RowsGrow
<1> QED
  BY <1>1 DEF Owed

\* The steps that touch a list, its expiry or the histories of its turns.
LEMMA ListSteps ==
  ASSUME TypeOK, [Next]_vars
  PROVE  \/ /\ UNCHANGED <<msgs, msgsTtl, written, after, kept>>
            /\ \A t \in Turns : Owed(t) => Owed(t)'
         \/ \E w \in Writers : Touch(w) \/ Trim(w) \/ \E t \in Turns : PushTurn(w, t)
         \/ \E f \in Flushers : FlushCommit(f) \/ FlushClear(f)
         \/ Tick
<1> DEFINE Quiet == /\ UNCHANGED <<msgs, msgsTtl, written, after, kept>>
                    /\ \A t \in Turns : Owed(t) => Owed(t)'
<1>1. ASSUME NEW w \in Writers, AppendInbound(w) \/ AppendReply(w) \/ MirrorReply(w)
      PROVE  \E t \in Turns : PushTurn(w, t)
  BY <1>1, PushCases
<1>2. ASSUME NEW w \in Writers,
             SAdd(w) \/ Receive(w) \/ Gemini(w) \/ CheckSession(w) \/ WriterFails(w)
      PROVE  Quiet
  BY <1>2 DEF SAdd, Receive, Gemini, CheckSession, WriterFails, store, history, Owed
<1>5. ASSUME NEW w \in Writers, CommitManual(w) PROVE Quiet
  <2>1. \A t \in Turns : Flushable(t) => t # <<w, "manual">>
    BY DEF Flushable
  <2>2. \A t \in Turns : Flushable(t) => rows'[t] = rows[t]
    BY <1>5, <2>1 DEF CommitManual, TypeOK
  <2> QED
    BY <1>5, <2>2 DEF CommitManual, store, history, Owed
<1>3. ASSUME NEW f \in Flushers, FlushStart(f) \/ FlushRead(f) \/ FlushEnd(f) \/ FlushFails(f)
      PROVE  Quiet
  BY <1>3 DEF FlushStart, FlushRead, FlushEnd, FlushFails, store, history, Owed
<1>4. UNCHANGED vars => Quiet
  BY DEF vars, store, history, Owed
<1> QED
  BY <1>1, <1>2, <1>3, <1>4, <1>5, NextCases DEF WriterStep, FlushStep

\* A turn for the flush is written once.
LEMMA PushIsNew ==
  ASSUME OnceInv, NEW w \in Writers, NEW t \in Turns, PushTurn(w, t), Flushable(t)
  PROVE  t \notin written
  BY DEF OnceInv, PushTurn, Flushable

LEMMA PromiseStep ==
  ASSUME TypeOK, HeldInv, PromiseInv, [Next]_vars
  PROVE  PromiseInv'
<1> SUFFICES ASSUME NEW t \in Turns, kept'[t] # 0 PROVE t \in written' /\ Owed(t)'
  BY DEF PromiseInv
<1>1. written \subseteq written' /\ kept[t] \in Nat
  BY HeldGrows DEF TypeOK
<1>2. kept[t] # 0 => t \in written /\ Owed(t)
  BY DEF PromiseInv
<1>3. CASE UNCHANGED <<msgs, msgsTtl, written, after, kept>> /\ \A u \in Turns : Owed(u) => Owed(u)'
  BY <1>2, <1>3
<1>4. ASSUME NEW w \in Writers, Touch(w) PROVE t \in written' /\ Owed(t)'
  <2>1. PICK j \in Identities : j = Owner[w]
    BY SessionAssumption
  <2>2. kept'[t] # kept[t] => t \in Held(j) /\ Owed(t)
    BY <1>4, <2>1 DEF Touch
  <2>3. rows' = rows
    BY <1>4 DEF Touch
  <2> QED
    BY <1>1, <1>2, <2>2, <2>3 DEF HeldInv, Owed
<1>5. ASSUME NEW w \in Writers, Trim(w) \/ \E u \in Turns : PushTurn(w, u)
      PROVE  t \in written' /\ Owed(t)'
  BY <1>1, <1>2, <1>5 DEF Trim, PushTurn, Push, history, Owed
<1>6. ASSUME NEW f \in Flushers, FlushCommit(f) PROVE t \in written' /\ Owed(t)'
  BY <1>1, <1>2, <1>6 DEF FlushCommit, Owed
<1>7. ASSUME NEW f \in Flushers, FlushClear(f) PROVE t \in written' /\ Owed(t)'
  BY <1>1, <1>2, <1>7 DEF FlushClear, history, Owed
<1>8. CASE Tick
  <2>1. kept[t] # 0 /\ rows' = rows
    BY <1>1, <1>8 DEF Tick
  <2> QED
    BY <1>1, <1>2, <2>1 DEF Owed
<1> QED
  BY <1>3, <1>4, <1>5, <1>6, <1>7, <1>8, ListSteps

LEMMA ExpiryStep ==
  ASSUME TypeOK, HeldInv, OnceInv, PromiseInv, ExpiryInv, [Next]_vars
  PROVE  ExpiryInv'
<1>0. TypeOK'
  BY TypeStep
<1> SUFFICES ASSUME NEW i \in Identities, NEW t \in ToSet(msgs'[i])
             PROVE  msgsTtl'[i] = 0 \/ msgsTtl'[i] >= kept'[t]
  BY DEF ExpiryInv, Held
<1>1. /\ t \in Turns /\ kept[t] \in Nat /\ kept'[t] \in Nat
      /\ msgsTtl[i] \in Nat /\ msgsTtl'[i] \in Nat
      /\ TicksLeft \in Nat
  <2>1. tod \in 0 .. DayLen - 1 /\ DayLen \in Nat \ {0} /\ Buffer \in Nat \ {0}
    BY SessionAssumption DEF TypeOK
  <2>2. TicksLeft \in Nat
    BY <2>1 DEF TicksLeft
  <2>3. t \in Turns
    BY <1>0 DEF TypeOK, ToSet
  <2> QED
    BY <1>0, <2>2, <2>3 DEF TypeOK
<1>2. t \in Held(i) => msgsTtl[i] = 0 \/ msgsTtl[i] >= kept[t]
  BY DEF ExpiryInv
<1>3. CASE UNCHANGED <<msgs, msgsTtl, written, after, kept>>
  BY <1>2, <1>3 DEF Held
<1>4. ASSUME NEW w \in Writers, Touch(w) PROVE msgsTtl'[i] = 0 \/ msgsTtl'[i] >= kept'[t]
  <2>1. PICK j \in Identities : j = Owner[w]
    BY SessionAssumption
  <2>2. /\ msgs' = msgs
        /\ msgsTtl' = IF msgs[j] # <<>> THEN [msgsTtl EXCEPT ![j] = TicksLeft] ELSE msgsTtl
        /\ kept'[t] = IF t \in Held(j) /\ Owed(t) THEN TicksLeft ELSE kept[t]
    BY <1>1, <1>4, <2>1 DEF Touch, TicksLeft
  <2>3. CASE j = i
    <3>1. t \in Held(i) /\ msgs[i] # <<>>
      BY <2>2, EmptyHeld DEF Held
    <3>2. msgsTtl'[i] = TicksLeft
      BY <2>2, <2>3, <3>1 DEF TypeOK
    <3>3. kept'[t] = TicksLeft \/ kept'[t] = 0
      BY <1>1, <2>2, <2>3, <3>1 DEF PromiseInv
    <3> QED
      BY <1>1, <3>2, <3>3
  <2>4. CASE j # i
    <3>1. msgsTtl'[i] = msgsTtl[i] /\ t \in Held(i)
      BY <2>2, <2>4 DEF TypeOK, Held
    <3>2. t \notin Held(j)
      BY <2>4, <3>1 DEF HeldInv
    <3> QED
      BY <1>2, <2>2, <3>1, <3>2
  <2> QED
    BY <2>3, <2>4
<1>5. ASSUME NEW w \in Writers, Trim(w) PROVE msgsTtl'[i] = 0 \/ msgsTtl'[i] >= kept'[t]
  <2>1. t \in Held(i)
    <3>1. ToSet(msgs'[i]) \subseteq ToSet(msgs[i])
      BY <1>5, LastTurnsHeld DEF TypeOK, Trim
    <3> QED
      BY <3>1 DEF Held
  <2> QED
    BY <1>2, <1>5, <2>1 DEF Trim, history
<1>6. ASSUME NEW w \in Writers, NEW u \in Turns, PushTurn(w, u)
      PROVE  msgsTtl'[i] = 0 \/ msgsTtl'[i] >= kept'[t]
  <2>1. PICK j \in Identities : j = Owner[w]
    BY SessionAssumption
  <2>2. msgsTtl' = msgsTtl /\ kept' = kept /\ msgs' = [msgs EXCEPT ![j] = Append(@, u)]
    BY <1>6, <2>1 DEF PushTurn, Push
  <2>3. t \in Held(i) \/ t = u
    BY <2>2, AppendHeld DEF TypeOK, Held
  <2>4. kept[u] = 0
    BY <1>6, PushIsNew DEF PromiseInv, Owed
  <2> QED
    BY <1>1, <1>2, <2>2, <2>3, <2>4
<1>7. ASSUME NEW f \in Flushers, FlushCommit(f) PROVE msgsTtl'[i] = 0 \/ msgsTtl'[i] >= kept'[t]
  <2>1. msgs' = msgs /\ msgsTtl' = msgsTtl /\ (kept'[t] = 0 \/ kept'[t] = kept[t])
    BY <1>1, <1>7 DEF FlushCommit, store
  <2> QED
    BY <1>1, <1>2, <2>1 DEF Held
<1>8. ASSUME NEW f \in Flushers, FlushClear(f) PROVE msgsTtl'[i] = 0 \/ msgsTtl'[i] >= kept'[t]
  <2>1. CASE fcur[f] = i
    BY <1>8, <2>1 DEF FlushClear, TypeOK
  <2>2. CASE fcur[f] # i
    BY <1>2, <1>8, <2>2 DEF FlushClear, TypeOK, history, Held
  <2> QED
    BY <2>1, <2>2
<1>9. CASE Tick
  <2>1. /\ msgs'[i] = IF msgsTtl[i] = 1 THEN <<>> ELSE msgs[i]
        /\ msgsTtl'[i] = IF msgsTtl[i] > 0 THEN msgsTtl[i] - 1 ELSE 0
        /\ kept'[t] = IF kept[t] > 0 THEN kept[t] - 1 ELSE 0
    BY <1>1, <1>9 DEF Tick
  <2>2. t \in Held(i)
    BY <2>1, EmptyHeld DEF Held
  <2> QED
    BY <1>1, <1>2, <2>1, <2>2
<1> QED
  BY <1>3, <1>4, <1>5, <1>6, <1>7, <1>8, <1>9, ListSteps

LEMMA OrderStep ==
  ASSUME TypeOK, HeldInv, OrderInv, [Next]_vars
  PROVE  OrderInv'
<1>0. TypeOK'
  BY TypeStep
<1>s. \A i \in Identities : msgs[i] \in Seq(Turns) /\ msgs'[i] \in Seq(Turns)
  BY <1>0 DEF TypeOK
<1>r. \A i \in Identities : \A k \in 1 .. Len(msgs'[i]) : msgs'[i][k] \in Turns
  BY <1>s, LenProperties
<1> SUFFICES ASSUME NEW i \in Identities, NEW k \in 1 .. Len(msgs'[i]),
                    NEW u \in Turns, u = msgs'[i][k], Flushable(u), rows'[u] = 0
             PROVE  after'[u] >= Len(msgs'[i]) - k
  BY <1>r DEF OrderInv, Owed
<1>1. u = msgs'[i][k]
  OBVIOUS
<1>2. Owed(u) /\ rows[u] = 0 /\ after[u] \in Nat /\ after'[u] \in Nat
  <2>1. rows[u] \in Nat /\ rows'[u] >= rows[u]
    BY RowsGrow
  <2>2. rows[u] = 0
    BY <2>1
  <2> QED
    BY <1>0, <2>2 DEF TypeOK, Owed
<1>3. Len(msgs[i]) \in Nat /\ Len(msgs'[i]) \in Nat
  BY <1>s, LenProperties
\* A list that stays as it is.
<1>4. ASSUME msgs'[i] = msgs[i], after'[u] >= after[u] PROVE after'[u] >= Len(msgs'[i]) - k
  <2>1. after[u] >= Len(msgs[i]) - k
    BY <1>1, <1>2, <1>4 DEF OrderInv
  <2> QED
    BY <1>2, <1>3, <1>4, <2>1
<1>5. CASE UNCHANGED <<msgs, msgsTtl, written, after, kept>>
  BY <1>1, <1>2, <1>4, <1>5
<1>6. ASSUME NEW w \in Writers, Touch(w) PROVE after'[u] >= Len(msgs'[i]) - k
  BY <1>2, <1>4, <1>6 DEF Touch
<1>7. ASSUME NEW w \in Writers, Trim(w) PROVE after'[u] >= Len(msgs'[i]) - k
  <2>1. after' = after /\ msgs'[i] \in {msgs[i], LastTurns(msgs[i])}
    BY <1>7 DEF Trim, history, TypeOK
  <2>2. CASE msgs'[i] = msgs[i]
    BY <1>2, <1>4, <2>1, <2>2
  <2>3. CASE msgs'[i] = LastTurns(msgs[i]) /\ msgs'[i] # msgs[i]
    <3>1. /\ Len(msgs[i]) > Keep /\ Keep \in Nat \ {0} /\ Len(msgs[i]) - Keep + 1 \in 1 .. Len(msgs[i])
          /\ msgs'[i] = SubSeq(msgs[i], Len(msgs[i]) - Keep + 1, Len(msgs[i]))
      <4>1. Len(msgs[i]) > Keep /\ msgs'[i] = SubSeq(msgs[i], Len(msgs[i]) - Keep + 1, Len(msgs[i]))
        BY <2>3 DEF LastTurns
      <4>2. Keep \in Nat \ {0}
        BY SessionAssumption
      <4> QED
        BY <1>3, <4>1, <4>2
    <3>2. Len(msgs'[i]) = Keep /\ msgs'[i][k] = msgs[i][Len(msgs[i]) - Keep + k]
      <4> DEFINE n == Len(msgs[i]) - Keep + 1
      <4>1. n \in 1 .. Len(msgs[i]) /\ Len(msgs[i]) - n + 1 = Keep
        BY <1>3, <3>1
      <4>2. Len(SubSeq(msgs[i], n, Len(msgs[i]))) = Keep
            /\ \A q \in 1 .. Keep : SubSeq(msgs[i], n, Len(msgs[i]))[q] = msgs[i][n + q - 1]
        BY <1>s, <1>3, <4>1, SubSeqProperties
      <4>3. k \in 1 .. Keep
        BY <3>1, <4>2
      <4>4. n + k - 1 = Len(msgs[i]) - Keep + k
        BY <1>3, <3>1
      <4> QED
        BY <3>1, <4>2, <4>3, <4>4
    <3>3. Len(msgs[i]) - Keep + k \in 1 .. Len(msgs[i])
      BY <1>3, <3>1, <3>2
    <3>4. after[u] >= Len(msgs[i]) - (Len(msgs[i]) - Keep + k)
      BY <1>1, <1>2, <3>2, <3>3 DEF OrderInv
    <3> QED
      BY <1>2, <1>3, <2>1, <3>1, <3>2, <3>4
  <2> QED
    BY <2>1, <2>2, <2>3
<1>8. ASSUME NEW w \in Writers, NEW v \in Turns, PushTurn(w, v)
      PROVE  after'[u] >= Len(msgs'[i]) - k
  <2>1. PICK j \in Identities : j = Owner[w]
    BY SessionAssumption
  <2>2. /\ msgs' = [msgs EXCEPT ![j] = Append(@, v)]
        /\ after'[u] = IF u \in written /\ Owed(u) /\ Owner[u[1]] = j THEN after[u] + 1 ELSE after[u]
    <3>1. /\ msgs' = [msgs EXCEPT ![j] = Append(@, v)]
          /\ after' = [x \in Turns |-> IF x \in written /\ Owed(x) /\ Owner[x[1]] = j
                                        THEN after[x] + 1 ELSE after[x]]
      BY <1>8, <2>1 DEF PushTurn, Push
    <3> QED
      BY <3>1
  <2>3. CASE j # i
    <3>1. msgs'[i] = msgs[i]
      BY <2>2, <2>3 DEF TypeOK
    <3>2. after'[u] >= after[u]
      BY <1>2, <2>2
    <3> QED
      BY <1>4, <3>1, <3>2
  <2>4. CASE j = i
    <3>1. /\ Len(msgs'[i]) = Len(msgs[i]) + 1
          /\ \A n \in 1 .. Len(msgs[i]) : msgs'[i][n] = msgs[i][n]
      BY <2>2, <2>4, AppendProperties DEF TypeOK
    <3>2. CASE k = Len(msgs[i]) + 1
      BY <1>2, <1>3, <3>1, <3>2
    <3>3. CASE k # Len(msgs[i]) + 1
      <4>1. k \in 1 .. Len(msgs[i]) /\ u = msgs[i][k]
        BY <1>1, <1>3, <3>1, <3>3
      <4>2. u \in written /\ Owner[u[1]] = i
        BY <4>1 DEF HeldInv, Held, ToSet
      <4>3. after[u] >= Len(msgs[i]) - k /\ after'[u] = after[u] + 1
        BY <1>2, <2>2, <2>4, <4>1, <4>2 DEF OrderInv
      <4> QED
        BY <1>2, <1>3, <3>1, <4>3
    <3> QED
      BY <3>2, <3>3
  <2> QED
    BY <2>3, <2>4
<1>9. ASSUME NEW f \in Flushers, FlushCommit(f) PROVE after'[u] >= Len(msgs'[i]) - k
  <2>1. u \notin fsnap[f]
    <3>1. rows[u] = 0 /\ rows'[u] = 0
      BY <1>2
    <3> QED
      BY <1>9, <3>1 DEF FlushCommit
  <2>2. msgs' = msgs /\ after'[u] = after[u]
    BY <1>9, <2>1 DEF FlushCommit, store
  <2> QED
    BY <1>2, <1>4, <2>2
<1>10. ASSUME NEW f \in Flushers, FlushClear(f) PROVE after'[u] >= Len(msgs'[i]) - k
  <2>1. after' = after /\ (msgs'[i] = msgs[i] \/ msgs'[i] = <<>>)
    BY <1>10 DEF FlushClear, history, TypeOK
  <2>2. msgs'[i] # <<>>
    <3>1. Len(<<>>) = 0
      BY EmptySeq
    <3> QED
      BY <3>1
  <2> QED
    BY <1>2, <1>4, <2>1, <2>2
<1>11. CASE Tick
  <2>1. after' = after /\ (msgs'[i] = msgs[i] \/ msgs'[i] = <<>>)
    BY <1>11 DEF Tick
  <2>2. msgs'[i] # <<>>
    <3>1. Len(<<>>) = 0
      BY EmptySeq
    <3> QED
      BY <3>1
  <2> QED
    BY <1>2, <1>4, <2>1, <2>2
<1> QED
  BY <1>1, <1>5, <1>6, <1>7, <1>8, <1>9, <1>10, <1>11, ListSteps

\* What LTRIM drops has at least Keep turns behind it.
LEMMA LastTurnsFollow ==
  ASSUME NEW s \in Seq(Turns), NEW k \in 1 .. Len(s)
  PROVE  s[k] \in ToSet(LastTurns(s)) \/ Len(s) - k >= Keep
<1>1. Len(s) \in Nat /\ Keep \in Nat \ {0}
  BY LenProperties, SessionAssumption
<1>2. PICK n \in Int : n = Len(s) - Keep + 1
  BY <1>1
<1>3. CASE ~(Len(s) > Keep)
  BY <1>3 DEF LastTurns, ToSet
<1>4. CASE Len(s) > Keep /\ k < n
  BY <1>1, <1>2, <1>4
<1>5. CASE Len(s) > Keep /\ k >= n
  <2>1. n \in 1 .. Len(s) /\ Len(s) - n + 1 = Keep
    BY <1>1, <1>2, <1>5
  <2>2. LastTurns(s) = SubSeq(s, n, Len(s))
    BY <1>2, <1>5 DEF LastTurns
  <2>3. Len(LastTurns(s)) = Keep /\ \A q \in 1 .. Keep : LastTurns(s)[q] = s[n + q - 1]
    BY <1>1, <2>1, <2>2, SubSeqProperties
  <2>4. k - n + 1 \in 1 .. Keep /\ n + (k - n + 1) - 1 = k
    BY <1>1, <1>2, <1>5
  <2>5. LastTurns(s)[k - n + 1] = s[k]
    BY <2>3, <2>4
  <2>6. DOMAIN LastTurns(s) = 1 .. Keep
    BY <2>3, LenProperties, LastTurnsHeld
  <2> QED
    BY <2>4, <2>5, <2>6 DEF ToSet
<1> QED
  BY <1>1, <1>2, <1>3, <1>4, <1>5

\* One step: what LTRIM drops has Keep turns behind it, what a flush clears it
\* has inserted, and what expires is promised no longer.
LEMMA KeptStep ==
  ASSUME TypeOK, HeldInv, SnapInv, WindowInv, ExpiryInv, OrderInv, KeptAsPromised, [Next]_vars
  PROVE  KeptAsPromised'
<1>0. TypeOK' /\ Keep \in Nat
  BY TypeStep, SessionAssumption
<1> SUFFICES ASSUME NEW t \in Turns, NEW i \in Identities, i = Owner[t[1]],
                    t \in written', t \notin late', Owed(t)', kept'[t] > 0
             PROVE  t \in ToSet(msgs'[i]) \/ after'[t] >= Keep
  <2>1. \A t \in Turns : Owner[t[1]] \in Identities
    BY SessionAssumption DEF Turns, Writers
  <2> QED
    BY <1>0, <2>1 DEF KeptAsPromised, TypeOK, Held
<1>1. /\ Owed(t) /\ t \notin late
      /\ after[t] \in Nat /\ after'[t] \in Nat /\ kept[t] \in Nat /\ kept'[t] \in Nat
      /\ msgsTtl[i] \in Nat /\ msgs[i] \in Seq(Turns)
  BY <1>0, OwedShrinks DEF TypeOK
<1>2. t \in written /\ kept[t] > 0 => t \in Held(i) \/ after[t] >= Keep
  BY <1>1 DEF KeptAsPromised
<1>3. CASE UNCHANGED <<msgs, msgsTtl, written, after, kept>>
  BY <1>2, <1>3 DEF Held
<1>4. ASSUME NEW w \in Writers, Touch(w) PROVE t \in ToSet(msgs'[i]) \/ after'[t] >= Keep
  <2>1. UNCHANGED <<msgs, written, after>> /\ (kept'[t] = kept[t] \/ t \in Held(Owner[w]))
    BY <1>4 DEF Touch
  <2>2. t \in Held(Owner[w]) => t \in Held(i)
    BY SessionAssumption DEF HeldInv
  <2> QED
    BY <1>2, <2>1, <2>2 DEF Held
<1>5. ASSUME NEW w \in Writers, Trim(w) PROVE t \in ToSet(msgs'[i]) \/ after'[t] >= Keep
  <2>1. after' = after /\ kept' = kept /\ written' = written /\ msgs'[i] \in {msgs[i], LastTurns(msgs[i])}
    BY <1>5 DEF Trim, history, TypeOK
  <2>2. CASE msgs'[i] = msgs[i] \/ t \notin Held(i)
    BY <1>2, <2>1, <2>2 DEF Held
  <2>3. CASE msgs'[i] = LastTurns(msgs[i]) /\ t \in Held(i)
    <3>1. PICK k \in 1 .. Len(msgs[i]) : t = msgs[i][k]
      <4>1. DOMAIN msgs[i] = 1 .. Len(msgs[i])
        BY <1>1, LenProperties
      <4> QED
        BY <2>3, <4>1 DEF Held, ToSet
    <3>2. after[t] >= Len(msgs[i]) - k
      BY <1>1, <3>1 DEF OrderInv
    <3>3. t \in ToSet(LastTurns(msgs[i])) \/ Len(msgs[i]) - k >= Keep
      BY <1>1, <3>1, LastTurnsFollow
    <3>4. Len(msgs[i]) - k \in Int
      <4>1. Len(msgs[i]) \in Nat
        BY <1>1, LenProperties
      <4> QED
        BY <4>1
    <3>5. Len(msgs[i]) - k >= Keep => after[t] >= Keep
      BY <1>0, <1>1, <3>2, <3>4
    <3> QED
      BY <2>1, <2>3, <3>3, <3>5
  <2> QED
    BY <2>1, <2>2, <2>3
<1>6. ASSUME NEW w \in Writers, NEW u \in Turns, PushTurn(w, u)
      PROVE  t \in ToSet(msgs'[i]) \/ after'[t] >= Keep
  <2>1. PICK j \in Identities : j = Owner[w]
    BY SessionAssumption
  <2>2. /\ msgs' = [msgs EXCEPT ![j] = Append(@, u)] /\ kept' = kept /\ written' = written \cup {u}
        /\ after' = [x \in Turns |-> IF x \in written /\ Owed(x) /\ Owner[x[1]] = j
                                      THEN after[x] + 1 ELSE after[x]]
    BY <1>6, <2>1 DEF PushTurn, Push
  <2>3. after'[t] >= after[t]
    BY <1>1, <2>2
  <2>4. Held(i) \subseteq ToSet(msgs'[i])
    BY <1>1, <2>2, AppendHeld DEF TypeOK, Held
  <2>5. CASE t = u
    <3>1. j = i
      BY <1>6, <2>1, <2>5 DEF PushTurn
    <3> QED
      BY <1>1, <2>2, <2>5, <3>1, AppendHeld DEF TypeOK
  <2>6. CASE t # u
    BY <1>0, <1>1, <1>2, <2>2, <2>3, <2>4, <2>6
  <2> QED
    BY <2>5, <2>6
<1>7. ASSUME NEW f \in Flushers, FlushCommit(f) PROVE t \in ToSet(msgs'[i]) \/ after'[t] >= Keep
  <2>1. t \notin fsnap[f]
    BY <1>1, <1>7 DEF FlushCommit, Owed
  <2>2. msgs' = msgs /\ written' = written /\ after'[t] = after[t] /\ kept'[t] = kept[t]
    BY <1>7, <2>1 DEF FlushCommit, store
  <2> QED
    BY <1>2, <2>2 DEF Held
<1>8. ASSUME NEW f \in Flushers, FlushClear(f) PROVE t \in ToSet(msgs'[i]) \/ after'[t] >= Keep
  <2>1. written' = written /\ after' = after /\ kept' = kept
        /\ (fcur[f] # i => msgs'[i] = msgs[i])
    BY <1>8 DEF FlushClear, history, TypeOK
  <2>2. fcur[f] = i => t \notin Held(i)
    <3>1. Covers(f) /\ fpc[f] = "clear"
      BY <1>8 DEF WindowInv, FlushClear
    <3> QED
      BY <1>1, <3>1 DEF Covers, Owed
  <2> QED
    BY <1>2, <2>1, <2>2 DEF Held
<1>9. CASE Tick
  <2>1. /\ kept'[t] = IF kept[t] > 0 THEN kept[t] - 1 ELSE 0
        /\ msgs'[i] = IF msgsTtl[i] = 1 THEN <<>> ELSE msgs[i]
        /\ written' = written /\ after' = after
    BY <1>9 DEF Tick
  <2>2. kept[t] > 1
    BY <1>1, <2>1
  <2>3. t \in Held(i) => msgsTtl[i] # 1
    BY <1>1, <2>2 DEF ExpiryInv
  <2> QED
    BY <1>1, <1>2, <2>1, <2>2, <2>3 DEF Held
<1> QED
  BY <1>3, <1>4, <1>5, <1>6, <1>7, <1>8, <1>9, ListSteps

\* Whatever overlaps and whatever fails, a turn without a row is in its list
\* until the Buffer-th tick after the midnight that followed its last EXPIREAT,
\* but for the turns of a flush's window and those that Keep others followed.
THEOREM PromisesKept == Spec => []KeptAsPromised
<1> DEFINE Inv == WindowInv /\ PromiseInv /\ ExpiryInv /\ OrderInv /\ KeptAsPromised
<1>1. Init => Inv
  <2> SUFFICES ASSUME Init PROVE Inv
    OBVIOUS
  <2>1. \A i \in Identities : Len(msgs[i]) = 0 /\ Held(i) = {}
    BY EmptySeq, EmptyHeld DEF Init, Held
  <2>2. OrderInv
    BY <2>1 DEF OrderInv
  <2> QED
    BY <2>1, <2>2 DEF Init, WindowInv, PromiseInv, ExpiryInv, KeptAsPromised
<1>2. TypeOK /\ SessionInv /\ Inv /\ [Next]_vars => Inv'
  BY WindowStep, PromiseStep, ExpiryStep, OrderStep, KeptStep DEF SessionInv
<1> QED
  BY <1>1, <1>2, SessionTypeOK, SessionInvHolds, PTL DEF Spec
================================================================================
