----------------------------- MODULE LiveMeetings -----------------------------
(***************************************************************************)
(* A meeting's row and its live translation agent: joining, ending,        *)
(* deleting and retrying, in the room of the identity tree                 *)
(* (meeting_room/services.py, the meetings in Old) and in that of the orgs *)
(* (meetings/services.py, the others), which share the registry of agents  *)
(* (live_agents/orchestrator.py).  An agent of an org's meeting also needs *)
(* one of the Limit slots of meetings/session_store.py.                    *)
(*                                                                         *)
(* Requests run in one process and give way to each other where they       *)
(* await: a step runs from one await to the next.  Each works on the row   *)
(* as it was when the request read it, and its UPDATE, at the end, sets    *)
(* the columns that it changed and no others.  Every meeting here has      *)
(* translate_live, and its org the live translation plugin.                *)
(***************************************************************************)
EXTENDS Integers, FiniteSets

CONSTANTS
  Meetings,   \* meetings
  Old,        \* those of the old room, without slots
  Requests,   \* requests at work at once, each used again and again
  Limit,      \* max_concurrent_livekit_sessions
  MaxFaults   \* bound: failures from outside

ASSUME MeetingsAssumption ==
  /\ IsFiniteSet(Meetings) /\ Old \subseteq Meetings
  /\ Limit \in Nat \ {0} /\ MaxFaults \in Nat

VARIABLES
  status,      \* committed: the status of each meeting, or "gone"
  active,      \* committed: its translation_active
  agent,       \* _running: the task of its agent, or "none"
  slots,       \* meetings:active in Redis
  expired,     \* meetings whose slot was taken longer ago than its TTL
  reports,     \* meetings whose agent crashed, until _report_agent_crash ran
  req,         \* what each request is at, or Idle
  overlapped,  \* meetings that two requests were at work on at once
  faults       \* failures from outside so far

row == <<status, active>>
redis == <<slots, expired>>
vars == <<row, agent, redis, reports, req, overlapped, faults>>

Ops == {"join", "end", "delete", "retry"}
Statuses == {"scheduled", "live", "completed", "gone"}
Tasks == {"none", "up", "crashed", "ended"}

\* What a request does, to which meeting, where it is, the status and the
\* translation_active that it and the agent it has started or stopped.
Idle == [pc |-> "idle"]
Request ==
  [op : Ops, on : Meetings, pc : {"mint", "start", "stop", "wait", "release", "commit"},
   was : Statuses, wasActive : BOOLEAN, got : Tasks]

Joinable == {"scheduled", "live"}
Org == Meetings \ Old
Working(m) == {r \in Requests : req[r] # Idle /\ req[r].on = m}

Init ==
  /\ status = [m \in Meetings |-> "scheduled"] /\ active = [m \in Meetings |-> FALSE]
  /\ agent = [m \in Meetings |-> "none"]
  /\ slots = {} /\ expired = {} /\ reports = {} /\ overlapped = {}
  /\ req = [r \in Requests |-> Idle]
  /\ faults = 0

At(r, p) == req[r].pc = p
Goto(r, p) == req' = [req EXCEPT ![r].pc = p]
GotoWith(r, p, a) == req' = [req EXCEPT ![r].pc = p, ![r].got = a]
Finish(r) == req' = [req EXCEPT ![r] = Idle]
Fault == faults < MaxFaults /\ faults' = faults + 1

-----------------------------------------------------------------------------
(* Requests.                                                               *)

\* The checks on the row that was read.
Allows(o, m) ==
  CASE o = "join" -> status[m] \in Joinable
    [] o = "retry" -> m \in Old /\ status[m] = "live"
    [] OTHER -> status[m] # "gone"

\* A request reads the row.  A join goes on to mint a token, and its
\* _mark_joined has more to do only where the meeting was scheduled.
Load(r, o, m) ==
  /\ req[r] = Idle /\ Allows(o, m)
  /\ req' = [req EXCEPT ![r] =
       [op |-> o, on |-> m, was |-> status[m], wasActive |-> active[m], got |-> "none",
        pc |-> IF o # "join" THEN "stop" ELSE IF status[m] = "scheduled" THEN "mint" ELSE "commit"]]
  /\ overlapped' = IF Working(m) = {} THEN overlapped ELSE overlapped \cup {m}
  /\ UNCHANGED <<row, agent, redis, reports, faults>>

\* Mutant: one slot too many.
MRoom == Cardinality(slots \ expired) <= Limit

Room == Cardinality(slots \ expired) < Limit

\* try_acquire_meeting_slot prunes, counts and adds.
Admit(r) ==
  /\ At(r, "mint") /\ req[r].on \in Org
  /\ slots' = (slots \ expired) \cup (IF Room THEN {req[r].on} ELSE {})
  /\ expired' = IF Room THEN expired \ {req[r].on} ELSE expired
  /\ Goto(r, IF Room THEN "start" ELSE "commit")
  /\ UNCHANGED <<row, agent, reports, overlapped, faults>>

\* Mutant: the old room takes a slot too, and nothing releases it.
MResolveTools(r) ==
  /\ At(r, "mint") /\ req[r].on \in Old
  /\ Goto(r, "start")
  /\ slots' = slots \cup {req[r].on}
  /\ UNCHANGED <<row, agent, expired, reports, overlapped, faults>>

ResolveTools(r) ==
  /\ At(r, "mint") /\ req[r].on \in Old
  /\ Goto(r, "start")
  /\ UNCHANGED <<row, agent, redis, reports, overlapped, faults>>

\* start_for_meeting does nothing where the registry has an entry.
Start(r) ==
  /\ At(r, "start")
  /\ agent' = IF agent[req[r].on] = "none" THEN [agent EXCEPT ![req[r].on] = "up"] ELSE agent
  /\ GotoWith(r, "commit", "up")
  /\ UNCHANGED <<row, redis, reports, overlapped, faults>>

\* The agent's constructor raises, or in the old room the look-up of the tools
\* before it, whether the registry has an agent or not.  The slot is released,
\* outside any try: an error there fails the request.
StartFails(r) ==
  /\ At(r, "start") /\ (agent[req[r].on] = "none" \/ req[r].on \in Old) /\ Fault
  /\ \/ slots' = slots \ ({req[r].on} \cap Org) /\ GotoWith(r, "commit", "none")
     \/ slots' = slots /\ req[r].on \in Org /\ Finish(r)
  /\ UNCHANGED <<row, agent, expired, reports, overlapped>>

Stopped(r) == IF req[r].op = "retry" THEN "start" ELSE "release"

\* Mutant: only a live meeting has an agent to stop.
MStop(r) ==
  /\ At(r, "stop")
  /\ IF req[r].was = "live"
       THEN /\ agent' = [agent EXCEPT ![req[r].on] = "none"]
            /\ GotoWith(r, IF agent[req[r].on] = "none" THEN Stopped(r) ELSE "wait", agent[req[r].on])
       ELSE Goto(r, Stopped(r)) /\ UNCHANGED agent
  /\ UNCHANGED <<row, redis, reports, overlapped, faults>>

\* stop_for_meeting takes the entry out of the registry, whatever became of
\* its task ...
Stop(r) ==
  /\ At(r, "stop")
  /\ agent' = [agent EXCEPT ![req[r].on] = "none"]
  /\ GotoWith(r, IF agent[req[r].on] = "none" THEN Stopped(r) ELSE "wait", agent[req[r].on])
  /\ UNCHANGED <<row, redis, reports, overlapped, faults>>

\* ... and waits for the task, or cancels it after 15 seconds.  A task that
\* crashed raises its exception again, which end and delete catch and a retry
\* does not.
Wait(r) ==
  /\ At(r, "wait")
  /\ IF req[r].op = "retry" /\ req[r].got = "crashed" THEN Finish(r)
                                                       ELSE GotoWith(r, Stopped(r), "none")
  /\ UNCHANGED <<row, agent, redis, reports, overlapped, faults>>

\* Mutant: the slot is left to its TTL.
MRelease(r) ==
  /\ At(r, "release")
  /\ Goto(r, "commit")
  /\ UNCHANGED <<row, agent, redis, reports, overlapped, faults>>

\* release_meeting_slot, whose errors are caught.
Release(r) ==
  /\ At(r, "release")
  /\ \/ slots' = slots \ ({req[r].on} \cap Org) /\ UNCHANGED faults
     \/ slots' = slots /\ req[r].on \in Org /\ Fault
  /\ Goto(r, "commit")
  /\ UNCHANGED <<row, agent, expired, reports, overlapped>>

\* The columns that the request changed; a row that is gone fails it.
NewStatus(r) ==
  CASE req[r].op = "join" /\ req[r].was = "scheduled" -> "live"
    [] req[r].op = "end" /\ req[r].was # "completed" -> "completed"
    [] req[r].op = "delete" -> "gone"
    [] OTHER -> status[req[r].on]
NewActive(r) ==
  LET started == req[r].got = "up"
      sets == req[r].op = "retry" \/ (req[r].op = "join" /\ req[r].was = "scheduled")
  IN IF sets /\ started # req[r].wasActive THEN started ELSE active[req[r].on]

Commit(r) ==
  /\ At(r, "commit")
  /\ IF status[req[r].on] = "gone" THEN UNCHANGED row
       ELSE /\ status' = [status EXCEPT ![req[r].on] = NewStatus(r)]
            /\ active' = [active EXCEPT ![req[r].on] = NewActive(r)]
  /\ Finish(r)
  /\ UNCHANGED <<agent, redis, reports, overlapped, faults>>

\* The request fails on the way to its commit.
Fails(r) ==
  /\ req[r].pc \in {"mint", "stop", "commit"} /\ Fault
  /\ Finish(r)
  /\ UNCHANGED <<row, agent, redis, reports, overlapped>>

-----------------------------------------------------------------------------
(* Agents, Redis and the process.                                          *)

\* run() raises, and its done-callback starts the report.
Crashes(m) ==
  /\ agent[m] = "up" /\ Fault
  /\ agent' = [agent EXCEPT ![m] = "crashed"]
  /\ reports' = reports \cup {m}
  /\ UNCHANGED <<row, redis, req, overlapped>>

\* The same while it is being stopped.
CrashesStopping(r) ==
  /\ At(r, "wait") /\ req[r].got = "up" /\ Fault
  /\ GotoWith(r, "wait", "crashed")
  /\ reports' = reports \cup {req[r].on}
  /\ UNCHANGED <<row, agent, redis, overlapped>>

\* The room is closed, by end_room or from outside: run() returns, the entry
\* stays.
Leaves(m) ==
  /\ agent[m] = "up"
  /\ \/ Fault
     \/ (\E r \in Working(m) : req[r].op \in {"end", "delete"}) /\ UNCHANGED faults
  /\ agent' = [agent EXCEPT ![m] = "ended"]
  /\ UNCHANGED <<row, redis, reports, req, overlapped>>

\* _report_agent_crash looks for the meeting among those of the old room.
Report(m) ==
  /\ m \in reports
  /\ reports' = reports \ {m}
  /\ active' = IF m \in Old /\ status[m] # "gone" THEN [active EXCEPT ![m] = FALSE] ELSE active
  /\ UNCHANGED <<status, agent, redis, req, overlapped, faults>>

\* meeting_concurrency_slot_ttl_seconds have passed; the entry stays until
\* somebody prunes.
Expire(m) ==
  /\ m \in slots
  /\ expired' = expired \cup {m}
  /\ UNCHANGED <<row, agent, slots, reports, req, overlapped, faults>>

\* The backend restarts: the registry and the requests are gone.
Restart ==
  /\ Fault
  /\ agent' = [m \in Meetings |-> "none"] /\ reports' = {}
  /\ req' = [r \in Requests |-> Idle]
  /\ UNCHANGED <<row, redis, overlapped>>

Step(r) ==
  \/ Admit(r) \/ ResolveTools(r) \/ Start(r) \/ StartFails(r) \/ Stop(r) \/ Wait(r)
  \/ Release(r) \/ Commit(r) \/ Fails(r) \/ CrashesStopping(r)

Next ==
  \/ \E r \in Requests : Step(r) \/ \E o \in Ops, m \in Meetings : Load(r, o, m)
  \/ \E m \in Meetings : Crashes(m) \/ Leaves(m) \/ Report(m) \/ Expire(m)
  \/ Restart

Spec == Init /\ [][Next]_vars

-----------------------------------------------------------------------------
TypeOK ==
  /\ status \in [Meetings -> Statuses] /\ active \in [Meetings -> BOOLEAN]
  /\ agent \in [Meetings -> Tasks]
  /\ slots \subseteq Org /\ expired \subseteq Org
  /\ reports \subseteq Meetings /\ overlapped \subseteq Meetings
  /\ req \in [Requests -> Request \cup {Idle}]
  /\ faults \in 0 .. MaxFaults

\* While no two requests about a meeting overlap, whatever else fails, an
\* agent that is up between requests belongs to a meeting that has not ended.
NoOrphan ==
  \A m \in Meetings \ overlapped :
    Working(m) = {} /\ agent[m] = "up" => status[m] \in Joinable

\* The orgs' meetings whose agents are up, those left aside whose requests
\* overlapped or whose slot has expired, are within the limit.
Admitted == {m \in Org \ (overlapped \cup expired) : agent[m] = "up"}
AdmittedWithinLimit == Cardinality(Admitted) <= Limit

\* An ended meeting whose requests did not overlap holds a slot only if a
\* release of it failed: each such slot costs a failure.
Leaked == {m \in Org \ overlapped : m \in slots /\ Working(m) = {} /\ status[m] \notin Joinable}
LeaksAreFailures == Cardinality(Leaked) <= faults

=============================================================================
