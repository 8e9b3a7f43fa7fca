-------------------------- MODULE LiveMeetingsProofs --------------------------
(***************************************************************************)
(* What requests about a meeting keep true while no two of them overlap,   *)
(* for any number of meetings, requests and slots, with proofs.            *)
(***************************************************************************)
EXTENDS LiveMeetings, FiniteSetTheorems, TLAPS

PCs == {"mint", "start", "stop", "wait", "release", "commit"}

LEMMA TypeInit == Init => TypeOK
  BY MeetingsAssumption DEF MeetingsAssumption, Init, TypeOK, Org, Statuses, Tasks

\* A request at work is a record, and stays one when it moves on.
LEMMA AtRequest ==
  ASSUME TypeOK, NEW r \in Requests, req[r].pc \in PCs
  PROVE  req[r] \in Request /\ req[r] # Idle /\ req[r].on \in Meetings
  BY DEF TypeOK, Request, Idle, PCs

LEMMA MoveType ==
  ASSUME TypeOK, NEW r \in Requests, req[r].pc \in PCs, NEW p \in PCs, NEW a \in Tasks
  PROVE  /\ Goto(r, p) => req' \in [Requests -> Request \cup {Idle}]
         /\ GotoWith(r, p, a) => req' \in [Requests -> Request \cup {Idle}]
  BY AtRequest DEF TypeOK, Goto, GotoWith, Request, PCs

LEMMA FinishType ==
  ASSUME TypeOK, NEW r \in Requests, Finish(r)
  PROVE  req' \in [Requests -> Request \cup {Idle}]
  BY DEF TypeOK, Finish

LEMMA TypeStep == ASSUME TypeOK, [Next]_vars PROVE TypeOK'
<1> USE MeetingsAssumption DEF MeetingsAssumption, row, redis, At, PCs
<1>1. ASSUME NEW r \in Requests, NEW o \in Ops, NEW m \in Meetings, Load(r, o, m) PROVE TypeOK'
  BY <1>1 DEF Load, TypeOK, Request, Tasks, Ops
<1>2. ASSUME NEW r \in Requests, Admit(r) PROVE TypeOK'
  BY <1>2, AtRequest, MoveType DEF Admit, TypeOK, Org, Tasks
<1>3. ASSUME NEW r \in Requests, ResolveTools(r) PROVE TypeOK'
  BY <1>3, AtRequest, MoveType DEF ResolveTools, TypeOK, Tasks
<1>4. ASSUME NEW r \in Requests, Start(r) PROVE TypeOK'
  BY <1>4, AtRequest, MoveType DEF Start, TypeOK, Tasks
<1>5. ASSUME NEW r \in Requests, StartFails(r) PROVE TypeOK'
  BY <1>5, AtRequest, MoveType, FinishType DEF StartFails, TypeOK, Tasks, Fault
<1>6. ASSUME NEW r \in Requests, Stop(r) PROVE TypeOK'
  BY <1>6, AtRequest, MoveType DEF Stop, Stopped, TypeOK, Tasks
<1>7. ASSUME NEW r \in Requests, Wait(r) PROVE TypeOK'
  BY <1>7, AtRequest, MoveType, FinishType DEF Wait, Stopped, TypeOK, Tasks
<1>8. ASSUME NEW r \in Requests, Release(r) PROVE TypeOK'
  BY <1>8, AtRequest, MoveType DEF Release, TypeOK, Tasks, Fault
<1>9. ASSUME NEW r \in Requests, Commit(r) PROVE TypeOK'
  <2>1. req[r].on \in Meetings /\ req[r].got \in Tasks /\ req' \in [Requests -> Request \cup {Idle}]
    BY <1>9, AtRequest, FinishType DEF Commit, Request
  <2>2. NewStatus(r) \in Statuses /\ NewActive(r) \in BOOLEAN
    BY <2>1 DEF NewStatus, NewActive, TypeOK, Statuses
  <2>3. QED
    BY <1>9, <2>1, <2>2 DEF Commit, TypeOK
<1>10. ASSUME NEW r \in Requests, Fails(r) PROVE TypeOK'
  BY <1>10, FinishType DEF Fails, TypeOK, Fault
<1>11. ASSUME NEW r \in Requests, CrashesStopping(r) PROVE TypeOK'
  BY <1>11, AtRequest, MoveType DEF CrashesStopping, TypeOK, Tasks, Fault
<1>12. ASSUME NEW m \in Meetings, Crashes(m) \/ Leaves(m) PROVE TypeOK'
  BY <1>12 DEF Crashes, Leaves, TypeOK, Tasks, Fault
<1>13. ASSUME NEW m \in Meetings, Report(m) \/ Expire(m) PROVE TypeOK'
  BY <1>13 DEF Report, Expire, TypeOK
<1>14. ASSUME Restart PROVE TypeOK'
  BY <1>14 DEF Restart, TypeOK, Tasks, Fault
<1>15. ASSUME UNCHANGED vars PROVE TypeOK'
  BY <1>15 DEF vars, TypeOK
<1>16. QED
  BY <1>1, <1>2, <1>3, <1>4, <1>5, <1>6, <1>7, <1>8, <1>9, <1>10, <1>11, <1>12, <1>13, <1>14,
     <1>15 DEF Next, Step

\* Every reachable state of the meetings, their requests and agents is well
\* typed.
THEOREM MeetingsType == Spec => []TypeOK
  BY TypeInit, TypeStep, PTL DEF Spec

-----------------------------------------------------------------------------
(* Agents outlive no meeting.                                              *)

\* What a request of each kind can be at, and what it has read.
Shape(q) ==
  CASE q.op = "join"  -> q.pc \in {"mint", "start", "commit"} /\ q.was \in Joinable
    [] q.op = "retry" -> q.pc \in {"stop", "wait", "start", "commit"} /\ q.was = "live"
    [] OTHER          -> q.pc \in {"stop", "wait", "release", "commit"}

\* It is alone with its meeting: the row is as it has read it, and the agent
\* that it has stopped stays stopped.
Alone(r) ==
  /\ \A s \in Requests \ {r} : req[s] # Idle => req[s].on # req[r].on
  /\ req[r].was = status[req[r].on]
  /\ req[r].op \in {"end", "delete"} /\ req[r].pc # "stop" => agent[req[r].on] = "none"

Served(m) == agent[m] = "up" => status[m] \in Joinable

ApartInv ==
  /\ TypeOK
  /\ \A r \in Requests : req[r] # Idle => Shape(req[r]) /\ (req[r].on \notin overlapped => Alone(r))
  /\ \A m \in Meetings \ overlapped : Served(m)

LEMMA Moved ==
  ASSUME TypeOK, NEW r \in Requests, req[r].pc \in PCs, NEW p \in PCs, NEW a \in Tasks,
         Goto(r, p) \/ GotoWith(r, p, a)
  PROVE  /\ \A s \in Requests \ {r} : req'[s] = req[s]
         /\ req'[r] # Idle /\ req'[r].pc = p
         /\ req'[r].op = req[r].op /\ req'[r].on = req[r].on /\ req'[r].was = req[r].was
  BY AtRequest DEF TypeOK, Goto, GotoWith, Request, Idle, PCs

\* A request that only moves on, to a place of its kind.
LEMMA MoveKeeps ==
  ASSUME ApartInv, TypeOK', NEW r \in Requests, req[r] # Idle,
         UNCHANGED <<status, agent, overlapped>>,
         \/ Finish(r)
         \/ /\ \A s \in Requests \ {r} : req'[s] = req[s]
            /\ req'[r] # Idle /\ req'[r].op = req[r].op /\ req'[r].on = req[r].on /\ req'[r].was = req[r].was
            /\ Shape(req'[r])
            /\ req[r].pc = "stop" /\ req[r].op \in {"end", "delete"} => agent[req[r].on] = "none"
  PROVE  ApartInv'
  BY DEF ApartInv, Alone, Served, Shape, Finish, TypeOK, Joinable

LEMMA ApartStep == ASSUME ApartInv, [Next]_vars PROVE ApartInv'
<1>1. TypeOK /\ TypeOK'
  BY TypeStep DEF ApartInv
<1> USE <1>1 DEF row, redis, At, Goto, GotoWith
<1>2. ASSUME NEW r \in Requests, req[r].pc \in PCs
      PROVE  /\ req[r] \in Request /\ req[r] # Idle /\ req[r].on \in Meetings
             /\ Shape(req[r]) /\ (req[r].on \notin overlapped => Alone(r))
  BY <1>2, AtRequest DEF ApartInv
<1>3. ASSUME NEW r \in Requests, NEW o \in Ops, NEW m \in Meetings, Load(r, o, m) PROVE ApartInv'
  <2>1. req'[r] # Idle /\ req'[r].on = m /\ req'[r].was = status[m] /\ Shape(req'[r])
    BY <1>3 DEF Load, Allows, Shape, Idle, TypeOK, Ops, Joinable
  <2>2. req'[r].op \in {"end", "delete"} => req'[r].pc = "stop"
    BY <1>3 DEF Load, TypeOK
  <2>3. \A s \in Requests \ {r} : req'[s] = req[s]
    BY <1>3 DEF Load, TypeOK
  <2>4. UNCHANGED <<status, agent>> /\ overlapped \subseteq overlapped'
    BY <1>3 DEF Load
  <2>5. ASSUME m \notin overlapped' PROVE \A s \in Requests \ {r} : req[s] # Idle => req[s].on # m
    BY <1>3, <2>5 DEF Load, Working
  <2>6. QED
    BY <2>1, <2>2, <2>3, <2>4, <2>5 DEF ApartInv, Alone, Served
<1>4. ASSUME NEW r \in Requests,
             \/ Admit(r) \/ ResolveTools(r) \/ StartFails(r) \/ Wait(r) \/ Release(r) \/ Fails(r)
             \/ CrashesStopping(r)
      PROVE ApartInv'
  <2>1. req[r].pc \in PCs /\ UNCHANGED <<status, agent, overlapped>>
    BY <1>4 DEF Admit, ResolveTools, StartFails, Wait, Release, Fails, CrashesStopping, PCs
  <2>2. req[r] \in Request /\ req[r] # Idle /\ Shape(req[r])
    BY <1>2, <2>1
  <2>3. CASE Finish(r)
    BY <1>1, <2>1, <2>2, <2>3, MoveKeeps
  <2>4. CASE ~Finish(r)
    <3>1. PICK p \in PCs, a \in Tasks :
            /\ Goto(r, p) \/ GotoWith(r, p, a)
            /\ Shape(req[r]) => Shape([req[r] EXCEPT !.pc = p])
      <4>1. CASE Admit(r)
        BY <4>1, <2>2 DEF Admit, PCs, Tasks, Shape, Request
      <4>2. CASE ResolveTools(r)
        BY <4>2, <2>2 DEF ResolveTools, PCs, Tasks, Shape, Request
      <4>3. CASE StartFails(r)
        BY <4>3, <2>2, <2>4 DEF StartFails, PCs, Tasks, Shape, Request
      <4>4. CASE Wait(r)
        BY <4>4, <2>2, <2>4 DEF Wait, Stopped, PCs, Tasks, Shape, Request
      <4>5. CASE Release(r)
        BY <4>5, <2>2 DEF Release, PCs, Tasks, Shape, Request
      <4>6. CASE CrashesStopping(r)
        BY <4>6, <2>2 DEF CrashesStopping, PCs, Tasks, Shape, Request
      <4>7. QED
        BY <1>4, <2>4, <4>1, <4>2, <4>3, <4>4, <4>5, <4>6 DEF Fails
    <3>2. /\ \A s \in Requests \ {r} : req'[s] = req[s]
          /\ req'[r] # Idle /\ req'[r].pc = p
          /\ req'[r].op = req[r].op /\ req'[r].on = req[r].on /\ req'[r].was = req[r].was
      BY <2>1, <3>1, Moved
    <3>3. Shape(req'[r])
      BY <2>2, <3>1, <3>2 DEF Shape, Request
    <3>4. req[r].pc = "stop" => Finish(r)
      BY <1>4 DEF Admit, ResolveTools, StartFails, Wait, Release, Fails, CrashesStopping
    <3>5. QED
      BY <1>1, <2>1, <2>2, <2>4, <3>2, <3>3, <3>4, MoveKeeps
  <2>5. QED
    BY <2>3, <2>4
<1>5. ASSUME NEW r \in Requests, Start(r) PROVE ApartInv'
  <2>1. req[r].pc \in PCs /\ req[r] # Idle /\ req[r] \in Request
    BY <1>2, <1>5 DEF Start, PCs
  <2>2. /\ \A s \in Requests \ {r} : req'[s] = req[s]
        /\ req'[r] # Idle /\ req'[r].pc = "commit"
        /\ req'[r].op = req[r].op /\ req'[r].on = req[r].on /\ req'[r].was = req[r].was
    BY <1>5, <2>1, Moved DEF Start, PCs, Tasks
  <2>3. UNCHANGED <<status, overlapped>>
    BY <1>5 DEF Start
  <2>4. /\ \A m \in Meetings \ {req[r].on} : agent'[m] = agent[m]
        /\ req[r].op \in {"join", "retry"} /\ req[r].was \in Joinable
    BY <1>2, <1>5, <2>1 DEF Start, Shape, Joinable, TypeOK, Request, Ops
  <2>5. Shape(req'[r])
    BY <2>2, <2>4, <1>2, <2>1 DEF Shape
  <2>6. \A s \in Requests : req[s] # Idle => req[s].on \in Meetings
    BY DEF TypeOK, Request
  <2>7. QED
    BY <1>2, <2>1, <2>2, <2>3, <2>4, <2>5, <2>6 DEF ApartInv, Alone, Served
<1>6. ASSUME NEW r \in Requests, Stop(r) PROVE ApartInv'
  <2>1. req[r].pc \in PCs /\ req[r] # Idle /\ req[r] \in Request
    BY <1>2, <1>6 DEF Stop, PCs
  <2>2. PICK q \in PCs : q = (IF agent[req[r].on] = "none" THEN Stopped(r) ELSE "wait")
    BY DEF Stopped, PCs
  <2>3. /\ \A s \in Requests \ {r} : req'[s] = req[s]
        /\ req'[r] # Idle /\ req'[r].pc = q
        /\ req'[r].op = req[r].op /\ req'[r].on = req[r].on /\ req'[r].was = req[r].was
    <3>1. GotoWith(r, q, agent[req[r].on]) /\ agent[req[r].on] \in Tasks
      BY <1>6, <2>1, <2>2 DEF Stop, Request, TypeOK
    <3>2. QED
      BY <2>1, <3>1, Moved
  <2>4. UNCHANGED <<status, overlapped>>
    BY <1>6 DEF Stop
  <2>5. /\ \A m \in Meetings \ {req[r].on} : agent'[m] = agent[m]
        /\ agent'[req[r].on] = "none"
    BY <1>6, <2>1 DEF Stop, TypeOK, Request
  <2>6. Shape(req'[r])
    BY <1>2, <1>6, <2>1, <2>2, <2>3 DEF Stop, Stopped, Shape, Request, Ops
  <2>7. \A s \in Requests : req[s] # Idle => req[s].on \in Meetings
    BY DEF TypeOK, Request
  <2>8. QED
    BY <1>2, <2>1, <2>3, <2>4, <2>5, <2>6, <2>7 DEF ApartInv, Alone, Served
<1>7. ASSUME NEW r \in Requests, Commit(r) PROVE ApartInv'
  <2>1. req[r] # Idle /\ req[r] \in Request /\ Shape(req[r]) /\ (req[r].on \notin overlapped => Alone(r))
    BY <1>2, <1>7 DEF Commit, PCs
  <2>2. req'[r] = Idle /\ (\A s \in Requests \ {r} : req'[s] = req[s]) /\ UNCHANGED <<agent, overlapped>>
    BY <1>7 DEF Commit, Finish, TypeOK
  <2>3. \A m \in Meetings \ {req[r].on} : status'[m] = status[m]
    BY <1>7 DEF Commit, TypeOK
  <2>4. ASSUME req[r].on \notin overlapped, agent[req[r].on] = "up" PROVE status'[req[r].on] \in Joinable
    BY <1>7, <2>1, <2>4 DEF Commit, NewStatus, Alone, Shape, Joinable, ApartInv, Served, TypeOK, Request, Ops
  <2>5. \A s \in Requests : req[s] # Idle => req[s].on \in Meetings
    BY DEF TypeOK, Request
  <2>6. QED
    BY <2>1, <2>2, <2>3, <2>4, <2>5 DEF ApartInv, Alone, Served
<1>8. ASSUME NEW m \in Meetings, Crashes(m) \/ Leaves(m) PROVE ApartInv'
  <2>1. UNCHANGED <<status, req, overlapped>> /\ agent[m] = "up"
    BY <1>8 DEF Crashes, Leaves
  <2>2. \A n \in Meetings : (agent'[n] = agent[n] \/ n = m) /\ (agent'[n] = "up" => agent[n] = "up")
    BY <1>8 DEF Crashes, Leaves, TypeOK
  <2>3. \A r \in Requests : req[r] # Idle => req[r].on \in Meetings
    BY DEF TypeOK, Request
  <2>4. QED
    BY <2>1, <2>2, <2>3 DEF ApartInv, Alone, Served
<1>9. ASSUME NEW m \in Meetings, Report(m) \/ Expire(m) PROVE ApartInv'
  BY <1>9 DEF Report, Expire, ApartInv, Alone, Served
<1>10. ASSUME Restart PROVE ApartInv'
  BY <1>10 DEF Restart, ApartInv, Served
<1>11. ASSUME UNCHANGED vars PROVE ApartInv'
  BY <1>11 DEF vars, ApartInv, Alone, Served
<1>12. QED
  BY <1>3, <1>4, <1>5, <1>6, <1>7, <1>8, <1>9, <1>10, <1>11 DEF Next, Step

LEMMA ApartInit == Init => ApartInv
  BY TypeInit DEF Init, ApartInv, Served

\* While no two requests about a meeting overlap, an agent that is up between
\* requests belongs to a meeting that has not ended, whatever crashes, fails
\* or restarts.
THEOREM NoOrphans == Spec => []NoOrphan
<1>1. ApartInv => NoOrphan
  BY DEF ApartInv, Served, NoOrphan
<1>2. QED
  BY <1>1, ApartInit, ApartStep, PTL DEF Spec

-----------------------------------------------------------------------------
(* Slots.                                                                  *)

\* An agent of an org's meeting, and a request about to start one, has a slot
\* or had one that expired.
Holds(m) == m \in slots \cup expired
Needs(m) == agent[m] = "up" \/ \E r \in Requests : req[r] # Idle /\ req[r].on = m /\ req[r].pc = "start"

SlotInv ==
  /\ ApartInv
  /\ \A r \in Requests : req[r] # Idle /\ req[r].op = "retry" => req[r].on \in Old
  /\ Cardinality(slots \ expired) <= Limit
  /\ \A m \in Org \ overlapped : Needs(m) => Holds(m)

LEMMA SlotsFinite ==
  ASSUME TypeOK
  PROVE  IsFiniteSet(slots \ expired) /\ Cardinality(slots \ expired) \in Nat
<1>1. slots \ expired \subseteq Meetings
  BY DEF TypeOK, Org
<1>2. QED
  BY <1>1, MeetingsAssumption, FS_Subset, FS_CardinalityType DEF MeetingsAssumption

\* Slots in use never grow but by admission.
LEMMA FewerSlots ==
  ASSUME SlotInv, slots' \ expired' \subseteq slots \ expired
  PROVE  Cardinality(slots' \ expired') <= Limit
<1>1. /\ IsFiniteSet(slots \ expired) /\ Cardinality(slots \ expired) \in Nat
      /\ Cardinality(slots \ expired) <= Limit
  BY SlotsFinite DEF SlotInv, ApartInv
<1>2. /\ Cardinality(slots' \ expired') <= Cardinality(slots \ expired)
      /\ IsFiniteSet(slots' \ expired')
  BY <1>1, FS_Subset
<1>3. Cardinality(slots' \ expired') \in Nat
  BY <1>2, FS_CardinalityType
<1>4. QED
  BY <1>1, <1>2, <1>3, MeetingsAssumption DEF MeetingsAssumption

LEMMA AdmittedSlots ==
  ASSUME SlotInv, NEW r \in Requests, Admit(r)
  PROVE  Cardinality(slots' \ expired') <= Limit
<1>1. /\ IsFiniteSet(slots \ expired) /\ Cardinality(slots \ expired) \in Nat
      /\ Cardinality(slots \ expired) <= Limit
  BY SlotsFinite DEF SlotInv, ApartInv
<1>2. CASE Room
  <2>1. slots' \ expired' = (slots \ expired) \cup {req[r].on}
    BY <1>2 DEF Admit
  <2>2. Cardinality((slots \ expired) \cup {req[r].on}) <= Cardinality(slots \ expired) + 1
    BY <1>1, FS_AddElement
  <2>3. IsFiniteSet((slots \ expired) \cup {req[r].on})
    BY <1>1, FS_AddElement
  <2>4. Cardinality((slots \ expired) \cup {req[r].on}) \in Nat
    BY <2>3, FS_CardinalityType
  <2>5. Limit \in Nat /\ Cardinality(slots \ expired) + 1 <= Limit
    BY <1>1, <1>2, MeetingsAssumption DEF MeetingsAssumption, Room
  <2>6. Cardinality((slots \ expired) \cup {req[r].on}) <= Limit
    BY <1>1, <2>2, <2>4, <2>5
  <2>7. QED
    BY <2>1, <2>6
<1>3. CASE ~Room
  BY <1>3, FewerSlots DEF Admit
<1>4. QED
  BY <1>2, <1>3

LEMMA SlotStep == ASSUME SlotInv, [Next]_vars PROVE SlotInv'
<1>1. ApartInv /\ ApartInv' /\ TypeOK /\ TypeOK'
  BY ApartStep DEF SlotInv, ApartInv
<1> USE <1>1 DEF row, redis, At
<1>2. ASSUME NEW r \in Requests, req[r].pc \in PCs
      PROVE  /\ req[r] \in Request /\ req[r] # Idle /\ req[r].on \in Meetings
             /\ Shape(req[r]) /\ (req[r].on \notin overlapped => Alone(r))
             /\ (req[r].op = "retry" => req[r].on \in Old)
  BY <1>2, AtRequest DEF ApartInv, SlotInv
<1>3. /\ \A r \in Requests : req[r] # Idle /\ req[r].op = "retry" => req[r].on \in Old
      /\ \A m \in Org \ overlapped : Needs(m) => Holds(m)
  BY DEF SlotInv
<1>4. ASSUME UNCHANGED <<slots, expired>>, overlapped \subseteq overlapped',
             \A r \in Requests : req'[r] = Idle \/ req'[r] = req[r]
                \/ (req'[r].pc # "start" /\ (req'[r].op = "retry" => req'[r].on \in Old)),
             \A m \in Org : agent'[m] = "up" => agent[m] = "up"
      PROVE  SlotInv'
  <2>1. Cardinality(slots' \ expired') <= Limit
    BY <1>4 DEF SlotInv
  <2>2. ASSUME NEW r \in Requests, req'[r] # Idle, req'[r].op = "retry" PROVE req'[r].on \in Old
    BY <1>3, <1>4, <2>2
  <2>3. ASSUME NEW m \in Org \ overlapped', Needs(m)' PROVE Holds(m)'
    <3>1. Needs(m)
      BY <1>4, <2>3 DEF Needs
    <3>2. QED
      BY <1>3, <1>4, <3>1 DEF Holds
  <2>4. QED
    BY <2>1, <2>2, <2>3 DEF SlotInv
\* A request moves on: what it does to the other meetings, and to its own.
<1>5. ASSUME NEW r \in Requests, req[r].pc \in PCs, NEW p \in PCs, NEW a \in Tasks,
             Goto(r, p) \/ GotoWith(r, p, a), UNCHANGED overlapped,
             Cardinality(slots' \ expired') <= Limit,
             \A m \in Org \ {req[r].on} : (agent'[m] = "up" => agent[m] = "up") /\ (Holds(m) => Holds(m)'),
             req[r].on \in Org \ overlapped /\ (agent'[req[r].on] = "up" \/ p = "start")
               => req[r].on \in slots' \cup expired'
      PROVE  SlotInv'
  <2>1. /\ \A s \in Requests \ {r} : req'[s] = req[s]
        /\ req'[r] # Idle /\ req'[r].pc = p
        /\ req'[r].op = req[r].op /\ req'[r].on = req[r].on
    BY <1>5, Moved
  <2>2. req[r] # Idle /\ (req[r].on \notin overlapped => Alone(r))
    BY <1>2, <1>5
  <2>3. ASSUME NEW s \in Requests, req'[s] # Idle, req'[s].op = "retry" PROVE req'[s].on \in Old
    BY <1>3, <2>1, <2>2, <2>3
  <2>4. ASSUME NEW m \in Org \ overlapped', Needs(m)' PROVE Holds(m)'
    <3>1. CASE m = req[r].on
      BY <1>5, <2>1, <2>2, <2>4, <3>1 DEF Needs, Alone, Holds
    <3>2. CASE m # req[r].on
      <4>1. Needs(m)
        BY <1>5, <2>1, <2>4, <3>2 DEF Needs
      <4>2. QED
        BY <1>3, <1>5, <2>4, <3>2, <4>1
    <3>3. QED
      BY <3>1, <3>2
  <2>5. QED
    BY <1>5, <2>3, <2>4 DEF SlotInv
<1>6. Cardinality(slots \ expired) <= Limit
  BY DEF SlotInv
<1>7. ASSUME NEW r \in Requests, NEW o \in Ops, NEW m \in Meetings, Load(r, o, m) PROVE SlotInv'
  <2>1. \A s \in Requests \ {r} : req'[s] = req[s]
    BY <1>7 DEF Load, TypeOK
  <2>2. req'[r].pc # "start" /\ (req'[r].op = "retry" => req'[r].on \in Old)
    BY <1>7 DEF Load, Allows, TypeOK
  <2>3. UNCHANGED <<slots, expired, agent>> /\ overlapped \subseteq overlapped'
    BY <1>7 DEF Load
  <2>4. QED
    BY <1>4, <2>1, <2>2, <2>3
<1>8. ASSUME NEW r \in Requests, Admit(r) PROVE SlotInv'
  <2>1. PICK p \in {"start", "commit"} : Goto(r, p) /\ (p = "start" => Room)
    BY <1>8 DEF Admit
  <2>2. Cardinality(slots' \ expired') <= Limit
    BY <1>8, AdmittedSlots
  <2>3. \A m \in Org \ {req[r].on} : (agent'[m] = "up" => agent[m] = "up") /\ (Holds(m) => Holds(m)')
    BY <1>8 DEF Admit, Holds
  <2>4. req[r].pc \in PCs /\ UNCHANGED <<overlapped, agent>>
    BY <1>8 DEF Admit, PCs
  <2>5. Room => req[r].on \in slots' \cup expired'
    BY <1>8 DEF Admit, Holds
  <2>6. ASSUME ~Room, req[r].on \in Org \ overlapped, agent[req[r].on] = "up"
      PROVE  req[r].on \in slots' \cup expired'
    <3>1. Needs(req[r].on)
      BY <2>6 DEF Needs
    <3>2. Holds(req[r].on)
      BY <1>3, <2>6, <3>1
    <3>3. QED
      BY <1>8, <2>6, <3>2 DEF Admit, Holds
  <2>7. "none" \in Tasks /\ p \in PCs
    BY DEF Tasks, PCs
  <2>8. QED
    BY <1>5, <2>1, <2>2, <2>3, <2>4, <2>5, <2>6, <2>7
<1>9. ASSUME NEW r \in Requests, ResolveTools(r) PROVE SlotInv'
  <2>1. req[r].pc \in PCs /\ Goto(r, "start") /\ req[r].on \notin Org
    BY <1>9 DEF ResolveTools, PCs, Org
  <2>2. UNCHANGED <<slots, expired, agent, overlapped>>
    BY <1>9 DEF ResolveTools
  <2>3. "none" \in Tasks /\ "start" \in PCs /\ (\A m \in Org : Holds(m) => Holds(m)')
    BY <2>2 DEF Tasks, PCs, Holds
  <2>4. QED
    BY <1>5, <1>6, <2>1, <2>2, <2>3
<1>10. ASSUME NEW r \in Requests, Start(r) PROVE SlotInv'
  <2>1. req[r].pc \in PCs /\ GotoWith(r, "commit", "up") /\ UNCHANGED <<slots, expired, overlapped>>
    BY <1>10 DEF Start, PCs
  <2>2. req[r] # Idle /\ req[r].on \in Meetings
    BY <1>2, <2>1
  <2>3. "up" \in Tasks /\ "commit" \in PCs /\ (\A m \in Org : Holds(m) => Holds(m)')
    BY <2>1 DEF Tasks, PCs, Holds
  <2>4. \A m \in Org \ {req[r].on} : agent'[m] = agent[m]
    BY <1>10, <2>2 DEF Start, TypeOK, Org
  <2>5. req[r].on \in Org \ overlapped => req[r].on \in slots' \cup expired'
    BY <1>3, <1>10, <2>1, <2>2 DEF Start, Needs, Holds
  <2>6. QED
    BY <1>5, <1>6, <2>1, <2>3, <2>4, <2>5
<1>11. ASSUME NEW r \in Requests, StartFails(r) \/ Release(r) PROVE SlotInv'
  <2>1. /\ UNCHANGED <<agent, expired, overlapped>>
        /\ slots' = slots \/ slots' = slots \ ({req[r].on} \cap Org)
    <3>1. CASE StartFails(r)
      BY <3>1 DEF StartFails
    <3>2. CASE Release(r)
      BY <3>2 DEF Release
    <3>3. QED
      BY <1>11, <3>1, <3>2
  <2>2. req[r].pc \in PCs /\ "none" \in Tasks /\ "commit" \in PCs
    BY <1>11 DEF StartFails, Release, PCs, Tasks
  <2>3. Cardinality(slots' \ expired') <= Limit
    <3>1. slots' \ expired' \subseteq slots \ expired
      BY <2>1
    <3>2. QED
      BY <3>1, FewerSlots
  <2>4. \A m \in Org \ {req[r].on} : (agent'[m] = "up" => agent[m] = "up") /\ (Holds(m) => Holds(m)')
    BY <2>1 DEF Holds
  <2>5. req[r].on \in Org \ overlapped => agent'[req[r].on] = "none"
    <3>1. CASE StartFails(r)
      BY <3>1 DEF StartFails, Org
    <3>2. CASE Release(r)
      <4>1. req[r].pc = "release" /\ UNCHANGED agent
        BY <3>2 DEF Release
      <4>2. req[r].op \in {"end", "delete"}
        BY <1>2, <2>2, <4>1 DEF Shape, Request, Ops
      <4>3. QED
        BY <1>2, <2>2, <4>1, <4>2 DEF Alone
    <3>3. QED
      BY <1>11, <3>1, <3>2
  <2>6. CASE Finish(r)
    <3>1. \A s \in Requests : req'[s] = Idle \/ req'[s] = req[s]
      BY <2>6 DEF Finish, TypeOK
    <3>2. UNCHANGED slots \/ ~Finish(r)
      <4>1. CASE StartFails(r)
        BY <2>2, <4>1, Moved DEF StartFails, Finish, TypeOK
      <4>2. CASE Release(r)
        BY <2>2, <4>2, Moved DEF Release, Finish, TypeOK
      <4>3. QED
        BY <1>11, <4>1, <4>2
    <3>3. QED
      BY <1>4, <2>1, <2>6, <3>1, <3>2
  <2>7. CASE ~Finish(r)
    <3>1. Goto(r, "commit") \/ GotoWith(r, "commit", "none")
      BY <1>11, <2>7 DEF StartFails, Release
    <3>2. QED
      BY <1>5, <2>1, <2>2, <2>3, <2>4, <2>5, <3>1
  <2>8. QED
    BY <2>6, <2>7
<1>12. ASSUME NEW r \in Requests, Stop(r) PROVE SlotInv'
  <2>1. req[r].pc \in PCs /\ req[r] # Idle /\ req[r] \in Request
    BY <1>2, <1>12 DEF Stop, PCs
  <2>2. PICK q \in PCs : q = (IF agent[req[r].on] = "none" THEN Stopped(r) ELSE "wait")
    BY DEF Stopped, PCs
  <2>3. GotoWith(r, q, agent[req[r].on]) /\ agent[req[r].on] \in Tasks
    BY <1>12, <2>1, <2>2 DEF Stop, Request, TypeOK
  <2>4. \A m \in Org : agent'[m] = "up" => agent[m] = "up" /\ m # req[r].on
    BY <1>12, <2>1 DEF Stop, TypeOK, Org
  <2>5. UNCHANGED <<slots, expired, overlapped>> /\ (\A m \in Org : Holds(m) => Holds(m)')
    BY <1>12 DEF Stop, Holds
  <2>6. q = "start" => req[r].on \notin Org
    BY <1>2, <2>1, <2>2 DEF Stopped, Org
  <2>7. QED
    BY <1>5, <1>6, <2>1, <2>3, <2>4, <2>5, <2>6
<1>13. ASSUME NEW r \in Requests, Wait(r) PROVE SlotInv'
  <2>1. CASE Finish(r)
    BY <1>4, <1>13, <2>1 DEF Wait, Finish, TypeOK
  <2>2. CASE ~Finish(r)
    <3>1. GotoWith(r, Stopped(r), "none") /\ UNCHANGED <<slots, expired, overlapped, agent>>
      BY <1>13, <2>2 DEF Wait
    <3>2. req[r].pc \in PCs /\ Stopped(r) \in PCs /\ "none" \in Tasks /\ req[r].pc = "wait"
      BY <1>13 DEF Wait, PCs, Stopped, Tasks
    <3>3. Stopped(r) = "start" => req[r].on \notin Org
      BY <1>2, <3>2 DEF Stopped, Org
    <3>4. req[r].on \in Org \ overlapped => agent'[req[r].on] # "up"
      <4>1. req[r].on \in Org => req[r].op \in {"end", "delete"}
        BY <1>2, <3>2 DEF Shape, Request, Ops, Org
      <4>2. QED
        BY <1>2, <3>1, <3>2, <4>1 DEF Alone
    <3>5. \A m \in Org : Holds(m) => Holds(m)'
      BY <3>1 DEF Holds
    <3>6. QED
      BY <1>5, <1>6, <3>1, <3>2, <3>3, <3>4, <3>5
  <2>3. QED
    BY <2>1, <2>2
<1>14. ASSUME NEW r \in Requests, CrashesStopping(r) PROVE SlotInv'
  <2>1. req[r].pc \in PCs /\ "wait" \in PCs /\ "crashed" \in Tasks /\ GotoWith(r, "wait", "crashed")
    BY <1>14 DEF CrashesStopping, PCs, Tasks
  <2>2. UNCHANGED <<slots, expired, overlapped, agent>>
    BY <1>14 DEF CrashesStopping
  <2>3. /\ \A s \in Requests \ {r} : req'[s] = req[s]
        /\ req'[r].pc = "wait" /\ req'[r].op = req[r].op /\ req'[r].on = req[r].on
    BY <2>1, Moved
  <2>4. req[r] # Idle
    BY <1>2, <2>1
  <2>5. QED
    BY <1>3, <1>4, <2>2, <2>3, <2>4
<1>15. ASSUME NEW r \in Requests, Commit(r) \/ Fails(r) PROVE SlotInv'
  BY <1>4, <1>15 DEF Commit, Fails, Finish, TypeOK
<1>16. ASSUME NEW m \in Meetings, Crashes(m) \/ Leaves(m) PROVE SlotInv'
  BY <1>4, <1>16 DEF Crashes, Leaves, TypeOK, Org
<1>17. ASSUME NEW m \in Meetings, Report(m) PROVE SlotInv'
  BY <1>4, <1>17 DEF Report
<1>18. ASSUME NEW m \in Meetings, Expire(m) PROVE SlotInv'
  <2>1. Cardinality(slots' \ expired') <= Limit
    <3>1. slots' \ expired' \subseteq slots \ expired
      BY <1>18 DEF Expire
    <3>2. QED
      BY <3>1, FewerSlots
  <2>2. UNCHANGED <<agent, req, overlapped>> /\ (\A n \in Org : Holds(n) => Holds(n)')
    BY <1>18 DEF Expire, Holds
  <2>3. \A n \in Org : Needs(n)' => Needs(n)
    BY <2>2 DEF Needs
  <2>4. QED
    BY <1>3, <2>1, <2>2, <2>3 DEF SlotInv
<1>19. ASSUME Restart PROVE SlotInv'
  BY <1>4, <1>19 DEF Restart, Org
<1>20. ASSUME UNCHANGED vars PROVE SlotInv'
  BY <1>4, <1>20 DEF vars
<1>21. QED
  BY <1>7, <1>8, <1>9, <1>10, <1>11, <1>12, <1>13, <1>14, <1>15, <1>16, <1>17, <1>18, <1>19, <1>20
  DEF Next, Step

LEMMA SlotInit == Init => SlotInv
<1>1. ASSUME Init PROVE SlotInv
  <2>1. slots \ expired = {} /\ ApartInv /\ Limit \in Nat
    BY <1>1, ApartInit, MeetingsAssumption DEF Init, MeetingsAssumption
  <2>2. Cardinality(slots \ expired) = 0
    BY <2>1, FS_EmptySet
  <2>3. Cardinality(slots \ expired) <= Limit
    BY <2>1, <2>2
  <2>4. \A m \in Org : ~Needs(m)
    BY <1>1 DEF Init, Needs, Org
  <2>5. QED
    BY <1>1, <2>1, <2>3, <2>4 DEF SlotInv, Init
<1>2. QED
  BY <1>1

\* The agents of the orgs' meetings, those left aside whose requests
\* overlapped or whose slot expired, are never more than the slots.
THEOREM AdmittedBounded == Spec => []AdmittedWithinLimit
<1>1. SlotInv => AdmittedWithinLimit
  <2>1. ASSUME SlotInv PROVE Cardinality(Admitted) <= Limit
    <3>1. Admitted \subseteq slots \ expired
      BY <2>1 DEF SlotInv, Admitted, Needs, Holds
    <3>2. /\ IsFiniteSet(slots \ expired) /\ Cardinality(slots \ expired) \in Nat
          /\ Cardinality(slots \ expired) <= Limit
      BY <2>1, SlotsFinite DEF SlotInv, ApartInv
    <3>3. IsFiniteSet(Admitted) /\ Cardinality(Admitted) <= Cardinality(slots \ expired)
      BY <3>1, <3>2, FS_Subset
    <3>4. Cardinality(Admitted) \in Nat
      BY <3>3, FS_CardinalityType
    <3>5. QED
      BY <3>2, <3>3, <3>4, MeetingsAssumption DEF MeetingsAssumption
  <2>2. QED
    BY <2>1 DEF AdmittedWithinLimit
<1>2. QED
  BY <1>1, SlotInit, SlotStep, PTL DEF Spec

-----------------------------------------------------------------------------
(* What an ended meeting leaves behind.                                    *)

\* A request past its release, that is about to end its meeting.
Ending(m) == \E r \in Requests : req[r] # Idle /\ req[r].on = m /\ req[r].pc = "commit" /\ req[r].op \in {"end", "delete"}

\* Meetings that hold a slot although they have ended, or are about to.
Owed == {m \in Org \ overlapped : m \in slots /\ (status[m] \notin Joinable \/ Ending(m))}

LEMMA OwedFinite ==
  ASSUME TypeOK
  PROVE  IsFiniteSet(Owed) /\ Cardinality(Owed) \in Nat
<1>1. Owed \subseteq Meetings
  BY DEF Owed, Org
<1>2. QED
  BY <1>1, MeetingsAssumption, FS_Subset, FS_CardinalityType DEF MeetingsAssumption

OwedInv == ApartInv /\ Cardinality(Owed) <= faults

\* Nothing is owed without a failure.
LEMMA OwesNoMore ==
  ASSUME OwedInv, TypeOK', Owed' \subseteq Owed, faults' >= faults
  PROVE  Cardinality(Owed') <= faults'
<1>1. IsFiniteSet(Owed) /\ Cardinality(Owed) \in Nat
  BY OwedFinite DEF OwedInv, ApartInv
<1>2. IsFiniteSet(Owed') /\ Cardinality(Owed') <= Cardinality(Owed)
  BY <1>1, FS_Subset
<1>3. Cardinality(Owed') \in Nat
  BY <1>2, FS_CardinalityType
<1>4. faults \in Nat /\ faults' \in Nat /\ Cardinality(Owed) <= faults
  BY MeetingsAssumption DEF MeetingsAssumption, OwedInv, ApartInv, TypeOK
<1>5. QED
  BY <1>1, <1>2, <1>3, <1>4

LEMMA OwesOneMore ==
  ASSUME OwedInv, TypeOK', NEW m, Owed' \subseteq Owed \cup {m}, faults' = faults + 1
  PROVE  Cardinality(Owed') <= faults'
<1>1. IsFiniteSet(Owed) /\ Cardinality(Owed) \in Nat
  BY OwedFinite DEF OwedInv, ApartInv
<1>2. /\ IsFiniteSet(Owed \cup {m})
      /\ Cardinality(Owed \cup {m}) = Cardinality(Owed) \/ Cardinality(Owed \cup {m}) = Cardinality(Owed) + 1
  BY <1>1, FS_AddElement
<1>3. IsFiniteSet(Owed') /\ Cardinality(Owed') <= Cardinality(Owed \cup {m})
  BY <1>2, FS_Subset
<1>4. Cardinality(Owed') \in Nat
  BY <1>3, FS_CardinalityType
<1>5. faults \in Nat /\ Cardinality(Owed) <= faults
  BY MeetingsAssumption DEF MeetingsAssumption, OwedInv, ApartInv, TypeOK
<1>6. QED
  BY <1>1, <1>2, <1>3, <1>4, <1>5

LEMMA OwedStep == ASSUME OwedInv, [Next]_vars PROVE OwedInv'
<1>1. ApartInv /\ ApartInv' /\ TypeOK /\ TypeOK'
  BY ApartStep DEF OwedInv, ApartInv
<1> USE <1>1 DEF row, redis, At
<1>2. ASSUME NEW r \in Requests, req[r].pc \in PCs
      PROVE  /\ req[r] \in Request /\ req[r] # Idle /\ req[r].on \in Meetings
             /\ Shape(req[r]) /\ (req[r].on \notin overlapped => Alone(r))
  BY <1>2, AtRequest DEF ApartInv
<1>3. faults \in Nat
  BY MeetingsAssumption DEF MeetingsAssumption, TypeOK
<1>4. SUFFICES \/ Owed' \subseteq Owed /\ faults' >= faults
               \/ \E m : Owed' \subseteq Owed \cup {m} /\ faults' = faults + 1
  BY OwesNoMore, OwesOneMore DEF OwedInv
\* A step that gives no slot and ends nothing.
<1>5. ASSUME slots' \subseteq slots, overlapped \subseteq overlapped', faults' >= faults,
             \A m \in Org \ overlapped' : m \in slots' /\ (status'[m] \notin Joinable \/ Ending(m)')
               => status[m] \notin Joinable \/ Ending(m)
      PROVE  Owed' \subseteq Owed /\ faults' >= faults
  BY <1>5 DEF Owed
<1>6. ASSUME NEW r \in Requests, NEW o \in Ops, NEW m \in Meetings, Load(r, o, m)
      PROVE  Owed' \subseteq Owed /\ faults' >= faults
  <2>1. /\ UNCHANGED <<status, slots, faults>> /\ overlapped \subseteq overlapped'
        /\ \A s \in Requests \ {r} : req'[s] = req[s]
        /\ req'[r].pc = "commit" => req'[r].op = "join"
    BY <1>6 DEF Load, TypeOK
  <2>2. \A n : Ending(n)' => Ending(n)
    BY <2>1 DEF Ending
  <2> QED
    BY <1>3, <1>5, <2>1, <2>2
<1>7. ASSUME NEW r \in Requests, Admit(r)
      PROVE  Owed' \subseteq Owed /\ faults' >= faults
  <2>1. req[r].pc \in PCs /\ (\E p \in PCs : Goto(r, p)) /\ UNCHANGED <<status, overlapped, faults>>
    BY <1>7 DEF Admit, PCs
  <2>2. /\ req[r].op = "join" /\ req[r].was \in Joinable /\ req[r] # Idle
        /\ req[r].on \notin overlapped => Alone(r)
    BY <1>2, <1>7, <2>1 DEF Admit, Shape, Request, Ops
  <2>3. /\ \A s \in Requests \ {r} : req'[s] = req[s]
        /\ req'[r].op = "join" /\ req'[r].on = req[r].on
    <3>1. "none" \in Tasks
      BY DEF Tasks
    <3> QED
      BY <2>1, <2>2, <3>1, Moved
  <2>4. slots' \subseteq slots \cup {req[r].on}
    BY <1>7 DEF Admit
  <2>5. \A n : Ending(n)' => Ending(n)
    BY <2>3 DEF Ending
  <2>6. ASSUME NEW n \in Owed' PROVE n \in Owed
    <3>1. CASE n = req[r].on
      <4>1. n \notin overlapped /\ (status[n] \notin Joinable \/ Ending(n))
        BY <2>1, <2>5, <2>6 DEF Owed
      <4>2. Alone(r)
        BY <2>2, <3>1, <4>1
      <4>3. status[n] \in Joinable
        BY <2>2, <3>1, <4>2 DEF Alone
      <4>4. ~Ending(n)
        BY <2>2, <3>1, <4>2 DEF Ending, Alone
      <4> QED
        BY <4>1, <4>3, <4>4
    <3>2. CASE n # req[r].on
      BY <2>1, <2>4, <2>5, <2>6, <3>2 DEF Owed
    <3> QED
      BY <3>1, <3>2
  <2> QED
    BY <1>3, <2>1, <2>6
\* A request moves on, and not to the end of its meeting.
<1>8. ASSUME NEW r \in Requests, req[r].pc \in PCs,
             UNCHANGED <<status, overlapped>>, slots' \subseteq slots, faults' >= faults,
             \/ Finish(r)
             \/ \E p \in PCs, a \in Tasks : /\ Goto(r, p) \/ GotoWith(r, p, a)
                                            /\ p = "commit" => req[r].op \notin {"end", "delete"}
      PROVE  Owed' \subseteq Owed /\ faults' >= faults
  <2>1. \A n : Ending(n)' => Ending(n)
    <3>1. CASE Finish(r)
      BY <3>1 DEF Finish, Ending, TypeOK
    <3>2. CASE ~Finish(r)
      <4>1. PICK p \in PCs, a \in Tasks : /\ Goto(r, p) \/ GotoWith(r, p, a)
                                          /\ p = "commit" => req[r].op \notin {"end", "delete"}
        BY <1>8, <3>2
      <4>2. /\ \A s \in Requests \ {r} : req'[s] = req[s]
            /\ req'[r].pc = p /\ req'[r].op = req[r].op /\ req'[r].on = req[r].on
        BY <1>8, <4>1, Moved
      <4> QED
        BY <4>1, <4>2 DEF Ending
    <3> QED
      BY <3>1, <3>2
  <2> QED
    BY <1>5, <1>8, <2>1
<1>9. "none" \in Tasks /\ "up" \in Tasks /\ "crashed" \in Tasks
  BY DEF Tasks
<1>10. ASSUME NEW r \in Requests, ResolveTools(r) \/ Start(r) \/ StartFails(r)
       PROVE  Owed' \subseteq Owed /\ faults' >= faults
  <2>1. req[r].pc \in PCs /\ UNCHANGED <<status, overlapped>>
    BY <1>10 DEF ResolveTools, Start, StartFails, PCs
  <2>2. slots' \subseteq slots /\ faults' >= faults
    BY <1>3, <1>10 DEF ResolveTools, Start, StartFails, Fault
  <2>3. req[r].pc = "start" => req[r].op \notin {"end", "delete"}
    BY <1>2, <2>1 DEF Shape
  <2>4. \/ Finish(r)
        \/ Goto(r, "start")
        \/ req[r].pc = "start" /\ (GotoWith(r, "commit", "up") \/ GotoWith(r, "commit", "none"))
    BY <1>10 DEF ResolveTools, Start, StartFails
  <2> QED
    BY <1>8, <1>9, <2>1, <2>2, <2>3, <2>4 DEF PCs
<1>11. ASSUME NEW r \in Requests, Stop(r)
       PROVE  Owed' \subseteq Owed /\ faults' >= faults
  <2>1. req[r].pc \in PCs /\ UNCHANGED <<status, slots, overlapped, faults>>
    BY <1>11 DEF Stop, PCs
  <2>2. PICK q \in {"wait", "start", "release"} : GotoWith(r, q, agent[req[r].on])
    BY <1>11 DEF Stop, Stopped
  <2>3. agent[req[r].on] \in Tasks
    BY <1>2, <2>1 DEF TypeOK
  <2> QED
    BY <1>3, <1>8, <2>1, <2>2, <2>3 DEF PCs
<1>12. ASSUME NEW r \in Requests, Wait(r) \/ CrashesStopping(r) \/ Fails(r)
       PROVE  Owed' \subseteq Owed /\ faults' >= faults
  <2>1. req[r].pc \in PCs /\ UNCHANGED <<status, slots, overlapped>> /\ faults' >= faults
    BY <1>3, <1>12 DEF Wait, CrashesStopping, Fails, PCs, Fault
  <2>2. \/ Finish(r)
        \/ \E q \in {"wait", "start", "release"} : GotoWith(r, q, "none") \/ GotoWith(r, q, "crashed")
    BY <1>12 DEF Wait, CrashesStopping, Fails, Stopped
  <2> QED
    BY <1>8, <1>9, <2>1, <2>2 DEF PCs
<1>13. ASSUME NEW r \in Requests, Release(r)
       PROVE  \/ Owed' \subseteq Owed /\ faults' >= faults
              \/ Owed' \subseteq Owed \cup {req[r].on} /\ faults' = faults + 1
  <2>1. req[r].pc \in PCs /\ Goto(r, "commit") /\ UNCHANGED <<status, overlapped>> /\ slots' \subseteq slots
    BY <1>13 DEF Release, PCs
  <2>2. /\ \A s \in Requests \ {r} : req'[s] = req[s]
        /\ req'[r].on = req[r].on
    BY <1>9, <2>1, Moved DEF PCs
  <2>3. \A n : n # req[r].on /\ Ending(n)' => Ending(n)
    BY <2>2 DEF Ending
  <2>4. Owed' \subseteq Owed \cup {req[r].on}
    BY <2>1, <2>3 DEF Owed
  <2>5. CASE slots' = slots \ ({req[r].on} \cap Org) /\ UNCHANGED faults
    <3>1. req[r].on \notin Owed'
      BY <2>5 DEF Owed
    <3> QED
      BY <1>3, <2>4, <2>5, <3>1
  <2>6. CASE Fault
    BY <2>4, <2>6 DEF Fault
  <2> QED
    BY <1>13, <2>5, <2>6 DEF Release
<1>14. ASSUME NEW r \in Requests, Commit(r)
       PROVE  Owed' \subseteq Owed /\ faults' >= faults
  <2>1. /\ req[r] # Idle /\ req[r] \in Request /\ Shape(req[r])
        /\ req[r].on \notin overlapped => Alone(r)
    BY <1>2, <1>14 DEF Commit, PCs
  <2>2. /\ req'[r] = Idle /\ \A s \in Requests \ {r} : req'[s] = req[s]
        /\ UNCHANGED <<slots, overlapped, faults>>
    BY <1>14 DEF Commit, Finish, TypeOK
  <2>3. \A n : Ending(n)' => Ending(n)
    BY <2>2 DEF Ending
  <2>4. ASSUME NEW n \in Org \ overlapped, status'[n] \notin Joinable
        PROVE  status[n] \notin Joinable \/ Ending(n)
    <3>1. CASE n # req[r].on
      BY <1>14, <2>4, <3>1 DEF Commit, TypeOK, Org
    <3>2. CASE n = req[r].on /\ req[r].op \in {"end", "delete"}
      BY <1>14, <2>1, <3>2 DEF Commit, Ending
    <3>3. CASE n = req[r].on /\ req[r].op \notin {"end", "delete"}
      BY <1>14, <2>1, <2>4, <3>3 DEF Commit, NewStatus, Joinable, TypeOK, Org
    <3> QED
      BY <3>1, <3>2, <3>3
  <2> QED
    BY <1>3, <1>5, <2>2, <2>3, <2>4
<1>15. ASSUME UNCHANGED <<status, slots, overlapped>>, faults' >= faults,
              req' = req \/ req' = [r \in Requests |-> Idle]
       PROVE  Owed' \subseteq Owed /\ faults' >= faults
  BY <1>5, <1>15 DEF Ending
<1>16. ASSUME NEW m \in Meetings, Crashes(m) \/ Leaves(m) \/ Report(m) \/ Expire(m)
       PROVE  Owed' \subseteq Owed /\ faults' >= faults
  BY <1>3, <1>15, <1>16 DEF Crashes, Leaves, Report, Expire, Fault
<1>17. CASE Restart
  BY <1>3, <1>15, <1>17 DEF Restart, Fault
<1>18. CASE UNCHANGED vars
  BY <1>3, <1>15, <1>18 DEF vars
<1> QED
  BY <1>6, <1>7, <1>10, <1>11, <1>12, <1>13, <1>14, <1>16, <1>17, <1>18 DEF Next, Step

LEMMA OwedInit == Init => OwedInv
<1>1. ASSUME Init PROVE OwedInv
  <2>1. Owed = {} /\ faults = 0
    BY <1>1 DEF Init, Owed
  <2> QED
    BY <1>1, <2>1, ApartInit, FS_EmptySet DEF OwedInv
<1> QED
  BY <1>1

\* An ended meeting whose requests did not overlap keeps a slot only where the
\* release of it failed: there are never more such slots than failures
\* (meetings/services.py, release_meeting_slot in end and delete).
THEOREM SlotsLeakOnFailure == Spec => []LeaksAreFailures
<1>1. ASSUME OwedInv PROVE Cardinality(Leaked) <= faults
  <2>1. Leaked \subseteq Owed
    BY DEF Leaked, Owed
  <2>2. IsFiniteSet(Owed) /\ Cardinality(Owed) \in Nat /\ Cardinality(Owed) <= faults
    BY <1>1, OwedFinite DEF OwedInv, ApartInv
  <2>3. IsFiniteSet(Leaked) /\ Cardinality(Leaked) <= Cardinality(Owed)
    BY <2>1, <2>2, FS_Subset
  <2>4. Cardinality(Leaked) \in Nat /\ faults \in Nat
    BY <1>1, <2>3, FS_CardinalityType, MeetingsAssumption DEF MeetingsAssumption, OwedInv, ApartInv, TypeOK
  <2> QED
    BY <2>2, <2>3, <2>4
<1>2. OwedInv => LeaksAreFailures
  BY <1>1 DEF LeaksAreFailures
<1> QED
  BY <1>2, OwedInit, OwedStep, PTL DEF Spec

=============================================================================
