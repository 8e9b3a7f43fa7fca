------------------------------ MODULE ReplyCaps ------------------------------
(***************************************************************************)
(* The two daily caps of the WhatsApp community agent (orchestrator.py):   *)
(* the token cap on Gemini calls and the daily cap on automatic replies.   *)
(* Both are counters in Redis, keyed by identity and UTC date, that        *)
(* several webhook handlers of one identity read, act on and only then     *)
(* increment.  The module follows one identity.                            *)
(***************************************************************************)
EXTENDS Integers, FiniteSets

CONSTANTS
  Tasks,      \* webhook handlers that can run at the same time
  TokenCap,   \* settings.whatsapp_session_token_cap
  ReplyCap,   \* effective_daily_reply_cap, when there is one
  Costs,      \* tokens a Gemini call can report
  TokenBound, \* bound on the tokens at which manual replies are still tried
  MaxFaults   \* bound on the handlers that fail in a day

ASSUME CapsAssumption ==
  /\ IsFiniteSet(Tasks) /\ Tasks # {}
  /\ TokenCap \in Nat /\ ReplyCap \in Nat /\ Costs \subseteq Nat
  /\ TokenBound \in Nat /\ MaxFaults \in Nat

VARIABLES
  tokens,    \* wa:tokens:{id}:{today}
  replies,   \* wa:auto_replies:{id}:{today}
  step,      \* where each handler is
  over,      \* each handler's over_token_cap, read once per message
  sent,      \* automatic replies WhatsApp accepted today
  overCalls, \* history: today's Gemini calls of each handler begun over the cap
  uncounted  \* handlers that failed today between the send and the INCR

capsVars == <<tokens, replies, step, over, sent, overCalls, uncounted>>

CapsInit ==
  /\ tokens = 0 /\ replies = 0 /\ sent = 0 /\ uncounted = 0
  /\ step = [t \in Tasks |-> "idle"]
  /\ over = [t \in Tasks |-> FALSE]
  /\ overCalls = [t \in Tasks |-> 0]

Moves(t, from, to) == step[t] = from /\ step' = [step EXCEPT ![t] = to]

\* Mutant: the token counter is not asked.
MArriveNoCap(t) ==
  /\ over' = [over EXCEPT ![t] = FALSE]
  /\ Moves(t, "idle", "clarify")
  /\ UNCHANGED <<tokens, replies, sent, overCalls, uncounted>>

\* A message is let through the gate and the token counter is read.
Arrive(t) ==
  /\ over' = [over EXCEPT ![t] = tokens >= TokenCap]
  /\ Moves(t, "idle", IF tokens >= TokenCap THEN "record" ELSE "clarify")
  /\ UNCHANGED <<tokens, replies, sent, overCalls, uncounted>>

\* One Gemini call: the tokens it reports, none if it fails outright, are
\* added when it returns; output that does not parse is paid for and fails.
Call(t) ==
  /\ \E n \in Costs \cup {0} : tokens' = tokens + n
  /\ overCalls' = [overCalls EXCEPT ![t] = IF tokens >= TokenCap THEN @ + 1 ELSE @]
  /\ UNCHANGED <<replies, over, sent, uncounted>>

Clarify(t) ==
  /\ Moves(t, "clarify", "tone") \/ Moves(t, "clarify", "record")
  /\ Call(t)

Tone(t)      == Moves(t, "tone", "record") /\ Call(t)
Generate(t)  == Moves(t, "generate", "translate") /\ Call(t)
Translate(t) == Moves(t, "translate", "send") /\ Call(t)

\* The inbound turn is recorded.  A member who is not connected, or answered
\* by hand, gets no reply; over the cap the fixed notice is sent instead,
\* which neither calls Gemini nor counts as a reply.
Record(t) ==
  /\ \/ Moves(t, "record", "idle")
     \/ ~over[t] /\ replies < ReplyCap /\ Moves(t, "record", "generate")
  /\ UNCHANGED <<tokens, replies, over, sent, overCalls, uncounted>>

\* A send that fails is logged and counted like one that succeeds.
Send(t) ==
  /\ Moves(t, "send", "count")
  /\ sent' \in {sent, sent + 1}
  /\ UNCHANGED <<tokens, replies, over, overCalls, uncounted>>

\* Mutants: the INCR is forgotten; the budget is counted down instead.
MNotCounted(t) ==
  /\ Moves(t, "count", "idle")
  /\ UNCHANGED <<tokens, replies, over, sent, overCalls, uncounted>>

MCountDown(t) ==
  /\ Moves(t, "count", "idle")
  /\ replies' = replies - 1
  /\ UNCHANGED <<tokens, over, sent, overCalls, uncounted>>

CountReply(t) ==
  /\ Moves(t, "count", "idle")
  /\ replies' = replies + 1
  /\ UNCHANGED <<tokens, over, sent, overCalls, uncounted>>

\* An exception or a stopped process ends the handler where it is.
Fails(t) ==
  /\ uncounted < MaxFaults /\ step[t] # "idle"
  /\ step' = [step EXCEPT ![t] = "idle"]
  /\ uncounted' = IF step[t] = "count" THEN uncounted + 1 ELSE uncounted
  /\ UNCHANGED <<tokens, replies, over, sent, overCalls>>

\* A manual reply is translated on the same counter and asks no cap.
ManualReply ==
  /\ tokens < TokenBound
  /\ \E n \in Costs : tokens' = tokens + n
  /\ UNCHANGED <<replies, step, over, sent, overCalls, uncounted>>

\* At UTC midnight the counters of the new date do not exist yet; a handler
\* goes on with what it has read.
Midnight ==
  /\ tokens' = 0 /\ replies' = 0 /\ sent' = 0 /\ uncounted' = 0
  /\ overCalls' = [t \in Tasks |-> 0]
  /\ UNCHANGED <<step, over>>

CapsNext ==
  \/ \E t \in Tasks :
       \/ Arrive(t) \/ Clarify(t) \/ Tone(t) \/ Record(t)
       \/ Generate(t) \/ Translate(t) \/ Send(t) \/ CountReply(t) \/ Fails(t)
  \/ ManualReply \/ Midnight

CapsSpec == CapsInit /\ [][CapsNext]_capsVars

-----------------------------------------------------------------------------
CapsTypeOK ==
  /\ tokens \in Nat /\ replies \in Nat /\ sent \in Nat /\ uncounted \in Nat
  /\ step \in [Tasks -> {"idle", "clarify", "tone", "record", "generate",
                         "translate", "send", "count"}]
  /\ over \in [Tasks -> BOOLEAN]
  /\ overCalls \in [Tasks -> Nat]

\* The reply cap is read, acted on and only then counted: however handlers
\* interleave, and across midnight, the members of a day get at most one
\* reply over the cap per handler running besides the last one, and one more
\* per handler that died between the send and the count.
ReplyOvershoot == sent <= ReplyCap + Cardinality(Tasks) - 1 + uncounted

\* The token cap is read once per message: a handler begins at most the four
\* calls of one message once the day's cap is reached.
StaleCalls == \A t \in Tasks : overCalls[t] <= 4

=============================================================================
