------------------------------ MODULE DeskProofs ------------------------------
(***************************************************************************)
(* What the desk has told people against what it has written down, for any *)
(* number of requests, people and meetings, with proofs.                   *)
(*                                                                         *)
(* Every request that is open has a plan: what it is going to write fits   *)
(* what there is, and what it has read is so still, unless another request *)
(* has written the same row since.                                         *)
(***************************************************************************)
EXTENDS Desk, TLAPS

Puts(q, c) == DOMAIN Put(q, c)

\* The meetings that a request finds, and those that it is about.
Founds(q) == Puts(q, "kind")
About(q) == (Puts(q, "status") \cup Puts(q, "ended") \cup q.ends \cup {s[1] : s \in Puts(q, "joined")}) \ Founds(q)

---------------------------------------------------------------------------
(* What a request is going to write and to say.                            *)

\* A meeting is founded with all its rows, by a request that does nothing to
\* another; one that there is goes live with somebody who joins, or is over with
\* its room.
MeetingPlan(r, q) ==
  /\ Puts(q, "open") = Founds(q) /\ Founds(q) \subseteq Puts(q, "status") \cap {r}
  /\ \A m \in Puts(q, "status") \ Founds(q) :
       /\ <<"status", m>> \in q.upd \cap q.once
       /\ \/ Put(q, "status")[m] = "completed" /\ m \in q.ends
          \/ Put(q, "status")[m] = "live" /\ \E s \in Puts(q, "joined") : s[1] = m /\ Put(q, "joined")[s]
  /\ \A m \in Puts(q, "ended") :
       <<"status", m>> \in q.upd /\ (m \in Puts(q, "status") => Put(q, "status")[m] = "completed")
  /\ r \in Founds(q) =>
       /\ Put(q, "status")[r] = "scheduled" /\ q.upd = {} /\ q.ends = {}
       /\ \A k \in q.ins : k[1] \in {"joined", "used"} /\ k[2][1] = r
       /\ \A s \in Puts(q, "joined") :
            s[1] = r /\ ~Put(q, "joined")[s] /\ ClientOrgOnly(Put(q, "kind")[r], {s[2]})

\* A participant is new, or joins; who is new has a personal link if it is one
\* who comes by one, which is used only by joining.
GuestPlan(r, q) ==
  /\ Puts(q, "token") \subseteq Puts(q, "used") /\ Puts(q, "used") \subseteq Puts(q, "joined")
  /\ \A s \in Puts(q, "joined") :
       /\ Put(q, "joined")[s] \in BOOLEAN
       /\ <<"joined", s>> \in q.ins \cup q.upd
       /\ <<"joined", s>> \notin q.ins => Put(q, "joined")[s]
       /\ <<"joined", s>> \in q.ins => (s \in Puts(q, "used") <=> s[2] \in Linkable)
  /\ \A s \in Puts(q, "used") :
       /\ Put(q, "used")[s] => Put(q, "joined")[s]
       /\ IF s \in Puts(q, "token") THEN <<"used", s>> \in q.ins /\ <<"joined", s>> \in q.ins
                                    ELSE <<"used", s>> \in q.upd /\ <<"joined", s>> \notin q.ins

\* What is inserted is written, what is sent is what is written, a room is ended
\* with its meeting, and a deletion writes nothing.
CallPlan(r, q) ==
  /\ \A k \in q.ins :
       /\ k = <<k[1], k[2]>> /\ k[1] \in {"joined", "used", "link"}
       /\ k[1] = "joined" => k[2] \in Puts(q, "joined")
       /\ k[1] = "used" => k[2] \in Puts(q, "token")
  /\ \A x \in q.sends : x = <<x[1], x[2]>> /\ x \in Puts(q, "token") /\ Put(q, "token")[x] = r
  /\ q.says # {} => r \in Puts(q, "said")
  /\ q.sends \cup q.says # {} => q.upd = {}
  /\ \A m \in q.ends \ q.cut : <<"status", m>> \in q.upd /\ m \in Puts(q, "ended")
  /\ \A m \in q.ends : q.upd \subseteq {<<"status", m>>}
  /\ q.cut # {} => /\ q.cut \subseteq q.ends /\ q.ins = {} /\ q.upd = {}
                   /\ \A c \in Columns : Puts(q, c) = {}
  /\ r \in Puts(q, "talk") => <<"talk", Put(q, "talk")[r]>> \in q.once
  /\ Puts(q, "talk") \subseteq {r}

Plan(r, q) == MeetingPlan(r, q) /\ GuestPlan(r, q) /\ CallPlan(r, q)

\* What it has read is so still, unless another has written it since.
Reads(r, q) ==
  /\ \A s \in Puts(q, "joined") :
       /\ <<"joined", s>> \in q.ins /\ Exists("kind", s[1]) => ClientOrgOnly(db.kind[s[1]], {s[2]})
       /\ Put(q, "joined")[s] /\ Exists("status", s[1]) /\ s[1] \notin Puts(q, "status") =>
            db.status[s[1]] # "scheduled"
  /\ \A m \in Puts(q, "status") :
       Exists("status", m) /\ Put(q, "status")[m] = "live" /\ db.status[m] # "scheduled" => <<"status", m>> \in q.over
  /\ \A m \in Puts(q, "ended") \ Puts(q, "status") :
       Exists("status", m) => db.status[m] = "completed" \/ <<"status", m>> \in mixed
  /\ r \in Puts(q, "talk") => Talks(Put(q, "talk")[r]) = {} \/ <<"talk", Put(q, "talk")[r]>> \in q.over
  /\ \A p \in Puts(q, "link") : Exists("link", p) \/ <<"link", p>> \in q.ins

\* Meetings whose request is over: nobody founds them any more.
Known(m) == m \in Old \cup New \/ (m \in Requests /\ req[m].pc = "done")

RequestsInv ==
  /\ DOMAIN req = Requests
  /\ \A r \in Requests :
       /\ req[r].pc \in {"new", "open", "flushed", "done"} /\ DOMAIN req[r] = DOMAIN Fresh
       /\ r \in Working => /\ Plan(r, req[r]) /\ Reads(r, req[r])
                           /\ \A m \in About(req[r]) : Known(m)

\* The columns of one kind have the same rows, and the rows fit each other.
RowsInv ==
  /\ DOMAIN db = Columns
  /\ DOMAIN db.open = DOMAIN db.status /\ DOMAIN db.kind = DOMAIN db.status /\ DOMAIN db.ended \subseteq DOMAIN db.status
  /\ \A m \in DOMAIN db.status : Known(m)
  /\ DOMAIN db.token = DOMAIN db.used /\ DOMAIN db.used = {s \in DOMAIN db.joined : s[2] \in Linkable}
  /\ \A s \in DOMAIN db.joined :
       Exists("status", s[1]) /\ db.joined[s] \in BOOLEAN /\ ClientOrgOnly(db.kind[s[1]], {s[2]})
  /\ \A s \in DOMAIN db.used : db.used[s] => db.joined[s]

\* What has been inserted, if not committed, is unique; whoever ends a room has.
FlushInv ==
  \A r \in Requests : req[r].pc = "flushed" =>
    /\ ~Clashes(r)
    /\ \A s \in Requests \ {r} : req[s].pc = "flushed" => req[r].ins \cap req[s].ins = {}
    /\ \A m \in req[r].ends : m \notin rooms \/ <<"room", m>> \in broken

\* A request has a room if it founds a meeting; where a room and its meeting do
\* not go together, somebody is about it, or something has failed.
RoomsInv ==
  /\ \A r \in rooms \cap Requests : req[r].pc # "new"
  /\ \A r \in Working : r \in rooms <=> r \in Founds(req[r])
  /\ \A m \in rooms : Joinable(m) \/ m \in Working \/ <<"room", m>> \in broken
  /\ \A m \in DOMAIN db.status :
       Joinable(m) => \/ m \in rooms \/ <<"status", m>> \in mixed \/ <<"room", m>> \in broken
                      \/ \E r \in Requests : req[r].pc = "flushed" /\ m \in req[r].ends

\* What was sent was sent by a request that has made its calls, as it planned.
MessagesInv ==
  /\ \A l \in links : /\ l[3] \in Requests /\ req[l[3]].pc \in {"flushed", "done"}
                      /\ req[l[3]].pc = "flushed" => <<l[1], l[2]>> \in req[l[3]].sends
  /\ \A t \in texts : /\ t[2] \in Requests /\ req[t[2]].pc \in {"flushed", "done"}
                      /\ req[t[2]].pc = "flushed" => req[t[2]].says # {}
  /\ MessagesAreKept

DeskInv == RequestsInv /\ RowsInv /\ FlushInv /\ RoomsInv /\ LiveWhenJoined /\ OneConversation /\ MessagesInv

---------------------------------------------------------------------------
(* Requests, as records.                                                   *)

\* p is q but for how far it has got and what it has been overlapped by.
SameTask(q, p) ==
  /\ p.w = q.w /\ p.ins = q.ins /\ p.upd = q.upd /\ p.cut = q.cut
  /\ p.sends = q.sends /\ p.says = q.says /\ p.ends = q.ends /\ p.once = q.once

LEMMA SamePlan ==
  ASSUME NEW q, NEW p, SameTask(q, p)
  PROVE  /\ \A c : Put(p, c) = Put(q, c) /\ Puts(p, c) = Puts(q, c)
         /\ Founds(p) = Founds(q) /\ About(p) = About(q)
         /\ \A r : Plan(r, q) => Plan(r, p)
<1>1. \A c : Put(p, c) = Put(q, c) /\ Puts(p, c) = Puts(q, c)
  BY DEF SameTask, Put, Puts
<1>2. Founds(p) = Founds(q) /\ About(p) = About(q)
  BY <1>1 DEF SameTask, Founds, About
<1>3. ASSUME NEW r, MeetingPlan(r, q) PROVE MeetingPlan(r, p)
  BY <1>1, <1>2, <1>3 DEF SameTask, MeetingPlan
<1>4. ASSUME NEW r, GuestPlan(r, q) PROVE GuestPlan(r, p)
  BY <1>1, <1>4 DEF SameTask, GuestPlan
<1>5. ASSUME NEW r, CallPlan(r, q) PROVE CallPlan(r, p)
  BY <1>1, <1>5 DEF SameTask, CallPlan
<1> QED
  BY <1>1, <1>2, <1>3, <1>4, <1>5 DEF Plan

\* The record that a request begins as: new, over the fields of Fresh.
LEMMA OverlayIs ==
  ASSUME NEW new, DOMAIN new \subseteq DOMAIN Fresh \ {"pc", "over"}
  PROVE  LET q == new @@ [pc |-> "open"] @@ Fresh
         IN  /\ DOMAIN q = DOMAIN Fresh /\ q.pc = "open" /\ q.over = {}
             /\ q.w = IF "w" \in DOMAIN new THEN new.w ELSE <<>>
             /\ q.ins = IF "ins" \in DOMAIN new THEN new.ins ELSE {}
             /\ q.upd = IF "upd" \in DOMAIN new THEN new.upd ELSE {}
             /\ q.cut = IF "cut" \in DOMAIN new THEN new.cut ELSE {}
             /\ q.sends = IF "sends" \in DOMAIN new THEN new.sends ELSE {}
             /\ q.says = IF "says" \in DOMAIN new THEN new.says ELSE {}
             /\ q.ends = IF "ends" \in DOMAIN new THEN new.ends ELSE {}
             /\ q.once = IF "once" \in DOMAIN new THEN new.once ELSE {}
<1> DEFINE q == new @@ [pc |-> "open"] @@ Fresh
<1>0. DOMAIN Fresh = {"pc", "w", "ins", "upd", "cut", "sends", "says", "ends", "once", "over"}
  BY DEF Fresh
<1>1. DOMAIN q = DOMAIN Fresh
  BY <1>0 DEF @@
<1>2. q.pc = "open" /\ q.over = {}
  BY <1>0 DEF @@, Fresh
<1>3. /\ q.w = IF "w" \in DOMAIN new THEN new.w ELSE <<>>
      /\ q.ins = IF "ins" \in DOMAIN new THEN new.ins ELSE {}
      /\ q.upd = IF "upd" \in DOMAIN new THEN new.upd ELSE {}
      /\ q.cut = IF "cut" \in DOMAIN new THEN new.cut ELSE {}
  BY <1>0 DEF @@, Fresh
<1>4. /\ q.sends = IF "sends" \in DOMAIN new THEN new.sends ELSE {}
      /\ q.says = IF "says" \in DOMAIN new THEN new.says ELSE {}
      /\ q.ends = IF "ends" \in DOMAIN new THEN new.ends ELSE {}
      /\ q.once = IF "once" \in DOMAIN new THEN new.once ELSE {}
  BY <1>0 DEF @@, Fresh
<1> HIDE DEF q
<1> QED
  BY <1>1, <1>2, <1>3, <1>4 DEF q

\* A request begins.
Starts(r, q) ==
  /\ req[r].pc = "new" /\ req' = [req EXCEPT ![r] = q]
  /\ DOMAIN q = DOMAIN Fresh /\ q.pc = "open" /\ q.over = {}
  /\ Plan(r, q) /\ Reads(r, q) /\ (\A m \in About(q) : Known(m))
  /\ rooms' = rooms \cup Founds(q)
  /\ UNCHANGED <<db, links, texts, deleted, mixed, broken>>

---------------------------------------------------------------------------
(* What each request is going to write, by what it asked for.              *)

\* How the plans are built: a record of some fields, for a request that is new.
Builds(r, new, room) ==
  LET q == new @@ [pc |-> "open"] @@ Fresh
  IN  /\ req[r].pc = "new" /\ req' = [req EXCEPT ![r] = q] /\ rooms' = rooms \cup room
      /\ UNCHANGED <<db, links, texts, deleted, mixed, broken>>

LEMMA BeginBuilds ==
  ASSUME NEW r, NEW new
  PROVE  /\ \A room : BeginIn(r, new, room) => r \in Requests /\ Builds(r, new, room)
         /\ Begin(r, new) => r \in Requests /\ Builds(r, new, {})
  BY DEF Begin, BeginIn, Builds, Ready, hist

LEMMA NobodyYet ==
  ASSUME RowsInv, NEW r \in Requests, req[r].pc = "new"
  PROVE  r \notin DOMAIN db.status /\ r \notin DOMAIN db.kind
  BY DeskAssumption DEF RowsInv, Known

LEMMA ScheduleStarts ==
  ASSUME RowsInv, NEW r, NEW kind, NEW people, NEW told, NEW event,
         ClientOrgOnly(kind, people), Schedule(r, kind, people, told, event)
  PROVE  r \in Requests /\ \E q : Starts(r, q)
<1> DEFINE w == [status |-> r :> "scheduled", kind |-> r :> kind,
                 inbox |-> [s \in {r} \X told |-> TRUE],
                 event |-> [m \in event |-> TRUE]] @@ Opened(r) @@ Invited(r, people, r).w
           ins == Invited(r, people, r).ins
           sends == {r} \X (people \cap Identities)
           new == [w |-> w, ins |-> ins, sends |-> sends]
           q == new @@ [pc |-> "open"] @@ Fresh
<1>1. r \in Requests /\ Builds(r, new, {r})
  BY BeginBuilds DEF Schedule
<1>2. /\ DOMAIN w = {"status", "kind", "inbox", "event", "open", "joined", "used", "token"}
      /\ w["status"] = r :> "scheduled" /\ w["kind"] = r :> kind /\ w["open"] = r :> TRUE
      /\ w["joined"] = [s \in {r} \X people |-> FALSE]
      /\ w["used"] = [s \in {r} \X (people \cap Linkable) |-> FALSE]
      /\ w["token"] = [s \in {r} \X (people \cap Linkable) |-> r]
  BY DEF @@, Opened, Invited
<1>3. ins = Keys("joined", {r} \X people) \cup Keys("used", {r} \X (people \cap Linkable))
  BY DEF Invited
<1> HIDE DEF w, ins, sends
<1>4. /\ DOMAIN q = DOMAIN Fresh /\ q.pc = "open" /\ q.over = {}
      /\ q.w = w /\ q.ins = ins /\ q.upd = {} /\ q.cut = {}
      /\ q.sends = sends /\ q.says = {} /\ q.ends = {} /\ q.once = {}
  <2>1. DOMAIN new \subseteq DOMAIN Fresh \ {"pc", "over"}
    BY DEF Fresh
  <2> QED
    BY <2>1, OverlayIs
<1>5. req[r].pc = "new" /\ req' = [req EXCEPT ![r] = q] /\ rooms' = rooms \cup {r}
      /\ UNCHANGED <<db, links, texts, deleted, mixed, broken>>
  BY <1>1 DEF Builds
<1> HIDE DEF q
<1>6. /\ Put(q, "status") = r :> "scheduled" /\ Put(q, "kind") = r :> kind
      /\ Put(q, "joined") = [s \in {r} \X people |-> FALSE]
      /\ Put(q, "used") = [s \in {r} \X (people \cap Linkable) |-> FALSE]
      /\ Put(q, "token") = [s \in {r} \X (people \cap Linkable) |-> r]
  BY <1>2, <1>4 DEF Put
<1>7. /\ Puts(q, "status") = {r} /\ Founds(q) = {r} /\ Puts(q, "open") = {r} /\ Puts(q, "ended") = {}
      /\ Puts(q, "joined") = {r} \X people
      /\ Puts(q, "used") = {r} \X (people \cap Linkable) /\ Puts(q, "token") = {r} \X (people \cap Linkable)
      /\ Puts(q, "talk") = {} /\ Puts(q, "said") = {} /\ Puts(q, "link") = {}
  BY <1>2, <1>4 DEF Put, Puts, Founds, :>
<1>8. /\ \A k \in ins : k = <<k[1], k[2]>> /\ k[1] \in {"joined", "used"} /\ k[2][1] = r
      /\ \A s : <<"joined", s>> \in ins <=> s \in {r} \X people
      /\ \A s : <<"used", s>> \in ins <=> s \in {r} \X (people \cap Linkable)
  BY <1>3 DEF Keys
<1>9. MeetingPlan(r, q)
  <2>1. Put(q, "status")[r] = "scheduled" /\ Put(q, "kind")[r] = kind
    BY <1>6 DEF :>
  <2>2. \A s \in Puts(q, "joined") : s[1] = r /\ ~Put(q, "joined")[s] /\ ClientOrgOnly(kind, {s[2]})
    BY <1>6, <1>7 DEF ClientOrgOnly
  <2> QED
    BY <1>4, <1>7, <1>8, <2>1, <2>2 DEF MeetingPlan
<1>10. GuestPlan(r, q)
  <2>1. \A s \in {r} \X people : Put(q, "joined")[s] = FALSE
    BY <1>6
  <2>2. \A s \in {r} \X (people \cap Linkable) : Put(q, "used")[s] = FALSE
    BY <1>6
  <2>3. \A s \in {r} \X people : s \in {r} \X (people \cap Linkable) <=> s[2] \in Linkable
    OBVIOUS
  <2> QED
    BY <1>4, <1>7, <1>8, <2>1, <2>2, <2>3 DEF GuestPlan
<1>11. CallPlan(r, q)
  <2>1. \A x \in sends : x = <<x[1], x[2]>> /\ x \in {r} \X (people \cap Linkable)
    BY DEF sends, Linkable
  <2>2. \A x \in {r} \X (people \cap Linkable) : Put(q, "token")[x] = r
    BY <1>6
  <2>3. \A k \in ins : /\ k[1] = "joined" => k[2] \in {r} \X people
                       /\ k[1] = "used" => k[2] \in {r} \X (people \cap Linkable)
    BY <1>8
  <2> QED
    BY <1>4, <1>7, <1>8, <2>1, <2>2, <2>3 DEF CallPlan
<1>12. Reads(r, q)
  <2>1. \A s \in Puts(q, "joined") : s[1] = r
    BY <1>7
  <2>2. Put(q, "status")[r] = "scheduled"
    BY <1>6 DEF :>
  <2> QED
    BY <1>1, <1>5, <1>7, <2>1, <2>2, NobodyYet DEF Reads, Exists
<1>13. About(q) = {}
  BY <1>4, <1>7 DEF About
<1> QED
  BY <1>1, <1>4, <1>5, <1>7, <1>9, <1>10, <1>11, <1>12, <1>13 DEF Starts, Plan

LEMMA AddStarts ==
  ASSUME RowsInv, NEW r, NEW m, NEW p, Add(r, m, p)
  PROVE  r \in Requests /\ \E q : Starts(r, q)
<1> DEFINE w == Invited(m, {p}, r).w
           ins == Invited(m, {p}, r).ins
           sends == {<<m, p>>} \cap (Meetings \X Identities)
           new == Invited(m, {p}, r) @@ [sends |-> sends]
           q == new @@ [pc |-> "open"] @@ Fresh
<1>1. r \in Requests /\ Builds(r, new, {})
  BY BeginBuilds DEF Add
<1>2. /\ DOMAIN w = {"joined", "used", "token"}
      /\ w["joined"] = [s \in {m} \X {p} |-> FALSE]
      /\ w["used"] = [s \in {m} \X ({p} \cap Linkable) |-> FALSE]
      /\ w["token"] = [s \in {m} \X ({p} \cap Linkable) |-> r]
  BY DEF Invited
<1>3. ins = Keys("joined", {m} \X {p}) \cup Keys("used", {m} \X ({p} \cap Linkable))
  BY DEF Invited
<1>0. DOMAIN new = {"w", "ins", "sends"} /\ new.w = w /\ new.ins = ins /\ new.sends = sends
  BY DEF Invited, @@
<1> HIDE DEF w, ins, sends, new
<1>4. /\ DOMAIN q = DOMAIN Fresh /\ q.pc = "open" /\ q.over = {}
      /\ q.w = w /\ q.ins = ins /\ q.upd = {} /\ q.cut = {}
      /\ q.sends = sends /\ q.says = {} /\ q.ends = {} /\ q.once = {}
  <2>1. DOMAIN new \subseteq DOMAIN Fresh \ {"pc", "over"}
    BY <1>0 DEF Fresh
  <2> QED
    BY <1>0, <2>1, OverlayIs
<1>5. req[r].pc = "new" /\ req' = [req EXCEPT ![r] = q] /\ rooms' = rooms
      /\ UNCHANGED <<db, links, texts, deleted, mixed, broken>>
  BY <1>1 DEF Builds
<1> HIDE DEF q
<1>6. /\ Put(q, "joined") = [s \in {m} \X {p} |-> FALSE]
      /\ Put(q, "used") = [s \in {m} \X ({p} \cap Linkable) |-> FALSE]
      /\ Put(q, "token") = [s \in {m} \X ({p} \cap Linkable) |-> r]
  BY <1>2, <1>4 DEF Put
<1>7. /\ Puts(q, "status") = {} /\ Founds(q) = {} /\ Puts(q, "open") = {} /\ Puts(q, "ended") = {}
      /\ Puts(q, "joined") = {m} \X {p}
      /\ Puts(q, "used") = {m} \X ({p} \cap Linkable) /\ Puts(q, "token") = {m} \X ({p} \cap Linkable)
      /\ Puts(q, "talk") = {} /\ Puts(q, "said") = {} /\ Puts(q, "link") = {}
  BY <1>2, <1>4 DEF Put, Puts, Founds
<1>8. /\ \A k \in ins : k = <<k[1], k[2]>> /\ k[1] \in {"joined", "used"}
      /\ \A s : <<"joined", s>> \in ins <=> s \in {m} \X {p}
      /\ \A s : <<"used", s>> \in ins <=> s \in {m} \X ({p} \cap Linkable)
  BY <1>3 DEF Keys
<1>9. MeetingPlan(r, q)
  BY <1>4, <1>7 DEF MeetingPlan
<1>10. GuestPlan(r, q)
  <2>1. \A s \in {m} \X {p} : Put(q, "joined")[s] = FALSE
    BY <1>6
  <2>2. \A s \in {m} \X ({p} \cap Linkable) : Put(q, "used")[s] = FALSE
    BY <1>6
  <2>3. \A s \in {m} \X {p} : s \in {m} \X ({p} \cap Linkable) <=> s[2] \in Linkable
    OBVIOUS
  <2> QED
    BY <1>4, <1>7, <1>8, <2>1, <2>2, <2>3 DEF GuestPlan
<1>11. CallPlan(r, q)
  <2>1. \A x \in sends : x = <<x[1], x[2]>> /\ x \in {m} \X ({p} \cap Linkable)
    BY DEF sends, Linkable
  <2>2. \A x \in {m} \X ({p} \cap Linkable) : Put(q, "token")[x] = r
    BY <1>6
  <2>3. \A k \in ins : /\ k[1] = "joined" => k[2] \in {m} \X {p}
                       /\ k[1] = "used" => k[2] \in {m} \X ({p} \cap Linkable)
    BY <1>8
  <2> QED
    BY <1>4, <1>7, <1>8, <2>1, <2>2, <2>3 DEF CallPlan
<1>12. Reads(r, q)
  <2>1. \A s \in Puts(q, "joined") : s[1] = m /\ s[2] = p /\ Put(q, "joined")[s] = FALSE
    BY <1>6, <1>7
  <2>2. ClientOrgOnly(db.kind[m], {p})
    BY DEF Add
  <2> QED
    BY <1>7, <2>1, <2>2 DEF Reads
<1>13. \A n \in About(q) : Known(n)
  <2>1. About(q) \subseteq {m}
    BY <1>4, <1>7 DEF About
  <2>2. m \in DOMAIN db.status
    BY DEF Add, Joinable, Exists
  <2> QED
    BY <2>1, <2>2 DEF RowsInv
<1> QED
  BY <1>1, <1>4, <1>5, <1>7, <1>9, <1>10, <1>11, <1>12, <1>13 DEF Starts, Plan

\* A join, of a participant who is here already or is inserted.
LEMMA JoinStarts ==
  ASSUME RowsInv, NEW r, NEW m, NEW p, NEW personal \in BOOLEAN,
         Join(r, m, p, IF personal THEN [used |-> <<m, p>> :> TRUE] ELSE <<>>,
                       IF personal THEN {<<"used", <<m, p>>>>} ELSE {}),
         personal => Exists("joined", <<m, p>>),
         ~Exists("joined", <<m, p>>) => p \notin Linkable
  PROVE  r \in Requests /\ \E q : Starts(r, q)
<1> DEFINE first == db.status[m] = "scheduled"
           here == Exists("joined", <<m, p>>)
           more == IF personal THEN [used |-> <<m, p>> :> TRUE] ELSE <<>>
           rows == IF personal THEN {<<"used", <<m, p>>>>} ELSE {}
           w == (IF first THEN [status |-> m :> "live"] ELSE <<>>) @@ [joined |-> <<m, p>> :> TRUE] @@ more
           ins == IF here THEN {} ELSE {<<"joined", <<m, p>>>>}
           upd == rows \cup (IF here THEN {<<"joined", <<m, p>>>>} ELSE {})
                       \cup (IF first THEN {<<"status", m>>} ELSE {})
           once == IF first THEN {<<"status", m>>} ELSE {}
           new == [w |-> w, ins |-> ins, upd |-> upd, once |-> once]
           q == new @@ [pc |-> "open"] @@ Fresh
<1>1. r \in Requests /\ Builds(r, new, {}) /\ m \in DOMAIN db.status
  BY BeginBuilds DEF Join, Joinable, Exists
<1>2. /\ "joined" \in DOMAIN w /\ ("status" \in DOMAIN w <=> first) /\ ("used" \in DOMAIN w <=> personal)
      /\ DOMAIN w \subseteq {"status", "joined", "used"}
      /\ first => w["status"] = m :> "live"
      /\ w["joined"] = <<m, p>> :> TRUE
      /\ personal => w["used"] = <<m, p>> :> TRUE
  <2> DEFINE a == IF first THEN [status |-> m :> "live"] ELSE <<>>
             b == [joined |-> <<m, p>> :> TRUE]
  <2>1. DOMAIN a = (IF first THEN {"status"} ELSE {}) /\ (first => a["status"] = m :> "live")
    OBVIOUS
  <2>2. DOMAIN b = {"joined"} /\ b["joined"] = <<m, p>> :> TRUE
    OBVIOUS
  <2>3. DOMAIN more = (IF personal THEN {"used"} ELSE {}) /\ (personal => more["used"] = <<m, p>> :> TRUE)
    <3>1. CASE personal
      <4>1. more = [used |-> <<m, p>> :> TRUE]
        BY <3>1
      <4> HIDE DEF more
      <4> QED
        BY <3>1, <4>1
    <3>2. CASE ~personal
      <4>1. more = <<>>
        BY <3>2
      <4>2. DOMAIN <<>> = {}
        OBVIOUS
      <4> HIDE DEF more
      <4> QED
        BY <3>2, <4>1, <4>2
    <3> QED
      BY <3>1, <3>2
  <2>4. w = a @@ b @@ more
    OBVIOUS
  <2> HIDE DEF a, b, more, first, w
  <2> DEFINE c == a @@ b
  <2>5. /\ DOMAIN c = {"joined"} \cup DOMAIN a /\ c["joined"] = <<m, p>> :> TRUE
        /\ first => c["status"] = m :> "live"
    BY <2>1, <2>2 DEF @@
  <2>6. w = c @@ more
    BY <2>4
  <2> HIDE DEF c
  <2>7. /\ DOMAIN w = DOMAIN c \cup DOMAIN more
        /\ \A x \in DOMAIN w : w[x] = IF x \in DOMAIN c THEN c[x] ELSE more[x]
    BY <2>6 DEF @@
  <2>8. DOMAIN w = {"joined"} \cup (IF first THEN {"status"} ELSE {}) \cup (IF personal THEN {"used"} ELSE {})
    BY <2>1, <2>3, <2>5, <2>7
  <2> QED
    BY <2>1, <2>3, <2>5, <2>7, <2>8
<1> HIDE DEF w, ins, upd, once, here, first
<1>4. /\ DOMAIN q = DOMAIN Fresh /\ q.pc = "open" /\ q.over = {}
      /\ q.w = w /\ q.ins = ins /\ q.upd = upd /\ q.cut = {}
      /\ q.sends = {} /\ q.says = {} /\ q.ends = {} /\ q.once = once
  <2>1. DOMAIN new \subseteq DOMAIN Fresh \ {"pc", "over"}
    BY DEF Fresh
  <2> QED
    BY <2>1, OverlayIs
<1>5. req[r].pc = "new" /\ req' = [req EXCEPT ![r] = q] /\ rooms' = rooms
      /\ UNCHANGED <<db, links, texts, deleted, mixed, broken>>
  BY <1>1 DEF Builds
<1> HIDE DEF q
<1>6. /\ first => Put(q, "status")[m] = "live"
      /\ Put(q, "joined")[<<m, p>>] = TRUE
      /\ personal => Put(q, "used")[<<m, p>>] = TRUE
  BY <1>2, <1>4 DEF Put, :>
<1>7. /\ Puts(q, "status") = IF first THEN {m} ELSE {}
      /\ Founds(q) = {} /\ Puts(q, "open") = {} /\ Puts(q, "ended") = {}
      /\ Puts(q, "joined") = {<<m, p>>}
      /\ Puts(q, "used") = (IF personal THEN {<<m, p>>} ELSE {}) /\ Puts(q, "token") = {}
      /\ Puts(q, "talk") = {} /\ Puts(q, "said") = {} /\ Puts(q, "link") = {}
  <2>1. /\ Founds(q) = {} /\ Puts(q, "open") = {} /\ Puts(q, "ended") = {} /\ Puts(q, "token") = {}
        /\ Puts(q, "talk") = {} /\ Puts(q, "said") = {} /\ Puts(q, "link") = {}
    BY <1>2, <1>4 DEF Put, Puts, Founds
  <2>2. Puts(q, "status") = IF first THEN {m} ELSE {}
    BY <1>2, <1>4 DEF Put, Puts, :>
  <2>3. Puts(q, "used") = IF personal THEN {<<m, p>>} ELSE {}
    BY <1>2, <1>4 DEF Put, Puts, :>
  <2>4. Puts(q, "joined") = {<<m, p>>}
    BY <1>2, <1>4 DEF Put, Puts, :>
  <2> QED
    BY <2>1, <2>2, <2>3, <2>4
<1>8. MeetingPlan(r, q)
  <2>1. <<m, p>>[1] = m /\ (first => <<"status", m>> \in upd \cap once)
    BY DEF upd, once
  <2>2. first => \E s \in Puts(q, "joined") : s[1] = m /\ Put(q, "joined")[s]
    BY <1>6, <1>7, <2>1
  <2> QED
    BY <1>4, <1>6, <1>7, <2>1, <2>2 DEF MeetingPlan
<1>9. GuestPlan(r, q)
  <2>1. /\ <<"joined", <<m, p>>>> \in ins \cup upd
        /\ <<"joined", <<m, p>>>> \in ins => ~here
        /\ personal => <<"used", <<m, p>>>> \in upd
    BY DEF ins, upd
  <2>2. personal => here
    BY DEF here
  <2>3. <<m, p>>[2] = p /\ (~here => p \notin Linkable)
    BY DEF here
  <2> DEFINE s == <<m, p>>
  <2>4. /\ Puts(q, "joined") = {s} /\ (Puts(q, "used") = IF personal THEN {s} ELSE {}) /\ Puts(q, "token") = {}
        /\ Put(q, "joined")[s] = TRUE /\ s[2] = p
        /\ <<"joined", s>> \in q.ins \cup q.upd
        /\ <<"joined", s>> \in q.ins => ~here
        /\ personal => <<"used", s>> \in q.upd
    BY <1>4, <1>6, <1>7, <2>1, <2>3
  <2> HIDE DEF s
  <2> QED
    BY <2>2, <2>3, <2>4 DEF GuestPlan
<1>10. CallPlan(r, q)
  <2>1. \A k \in ins : k = <<"joined", <<m, p>>>>
    BY DEF ins
  <2> QED
    BY <1>4, <1>7, <2>1 DEF CallPlan
<1>11. Reads(r, q)
  <2>1. ~here => ClientOrgOnly(db.kind[m], {p})
    BY DEF here, ClientOrgOnly, Linkable
  <2>2. <<"joined", <<m, p>>>> \in ins => ~here
    BY DEF ins
  <2>3. ~first => db.status[m] # "scheduled"
    BY DEF first
  <2>4. first => db.status[m] = "scheduled"
    BY DEF first
  <2> DEFINE s == <<m, p>>
  <2>5. /\ Puts(q, "joined") = {s} /\ s[1] = m /\ s[2] = p
        /\ <<"joined", s>> \in q.ins => ~here
    BY <1>4, <1>7, <2>2
  <2> HIDE DEF s
  <2> QED
    BY <1>7, <2>1, <2>3, <2>4, <2>5 DEF Reads
<1>12. \A n \in About(q) : Known(n)
  <2>1. About(q) \subseteq {m}
    BY <1>4, <1>7 DEF About
  <2> QED
    BY <1>1, <2>1 DEF RowsInv
<1> QED
  BY <1>1, <1>4, <1>5, <1>7, <1>8, <1>9, <1>10, <1>11, <1>12 DEF Starts, Plan

LEMMA EndStarts ==
  ASSUME RowsInv, NEW r, NEW m, End(r, m)
  PROVE  r \in Requests /\ \E q : Starts(r, q)
<1> DEFINE changes == db.status[m] # "completed"
           a == IF changes THEN [status |-> m :> "completed"] ELSE <<>>
           w == a @@ [ended |-> m :> TRUE]
           once == IF changes THEN {<<"status", m>>} ELSE {}
           new == [w |-> w, upd |-> {<<"status", m>>}, ends |-> {m}, once |-> once]
           q == new @@ [pc |-> "open"] @@ Fresh
<1>1. r \in Requests /\ Builds(r, new, {}) /\ m \in DOMAIN db.status
  BY BeginBuilds DEF End, Exists
<1>2. /\ DOMAIN w = {"ended"} \cup (IF changes THEN {"status"} ELSE {})
      /\ changes => w["status"] = m :> "completed"
      /\ w["ended"] = m :> TRUE
  <2> HIDE DEF changes
  <2>1. changes \in BOOLEAN /\ DOMAIN <<>> = {}
    BY DEF changes
  <2>2. DOMAIN a = (IF changes THEN {"status"} ELSE {}) /\ (changes => a["status"] = m :> "completed")
    BY <2>1
  <2> DEFINE b == [ended |-> m :> TRUE]
  <2>3. DOMAIN b = {"ended"} /\ b["ended"] = m :> TRUE /\ w = a @@ b
    OBVIOUS
  <2> HIDE DEF a, b, w
  <2>4. /\ DOMAIN w = DOMAIN a \cup DOMAIN b
        /\ \A x \in DOMAIN w : w[x] = IF x \in DOMAIN a THEN a[x] ELSE b[x]
    BY <2>3 DEF @@
  <2> QED
    BY <2>2, <2>3, <2>4
<1> HIDE DEF w, once, changes
<1>4. /\ DOMAIN q = DOMAIN Fresh /\ q.pc = "open" /\ q.over = {}
      /\ q.w = w /\ q.ins = {} /\ q.upd = {<<"status", m>>} /\ q.cut = {}
      /\ q.sends = {} /\ q.says = {} /\ q.ends = {m} /\ q.once = once
  <2>1. DOMAIN new \subseteq DOMAIN Fresh \ {"pc", "over"}
    BY DEF Fresh
  <2> QED
    BY <2>1, OverlayIs
<1>5. req[r].pc = "new" /\ req' = [req EXCEPT ![r] = q] /\ rooms' = rooms
      /\ UNCHANGED <<db, links, texts, deleted, mixed, broken>>
  BY <1>1 DEF Builds
<1> HIDE DEF q
<1>6. changes => Put(q, "status")[m] = "completed"
  BY <1>2, <1>4 DEF Put, :>
<1>7. /\ Puts(q, "status") = IF changes THEN {m} ELSE {}
      /\ Founds(q) = {} /\ Puts(q, "open") = {} /\ Puts(q, "ended") = {m} /\ Puts(q, "joined") = {}
      /\ Puts(q, "used") = {} /\ Puts(q, "token") = {}
      /\ Puts(q, "talk") = {} /\ Puts(q, "said") = {} /\ Puts(q, "link") = {}
  <2>1. /\ Founds(q) = {} /\ Puts(q, "open") = {} /\ Puts(q, "joined") = {} /\ Puts(q, "token") = {}
        /\ Puts(q, "used") = {} /\ Puts(q, "talk") = {} /\ Puts(q, "said") = {} /\ Puts(q, "link") = {}
    BY <1>2, <1>4 DEF Put, Puts, Founds
  <2>2. Puts(q, "status") = IF changes THEN {m} ELSE {}
    BY <1>2, <1>4 DEF Put, Puts, :>
  <2>3. Puts(q, "ended") = {m}
    BY <1>2, <1>4 DEF Put, Puts, :>
  <2> QED
    BY <2>1, <2>2, <2>3
<1>8. MeetingPlan(r, q)
  BY <1>4, <1>6, <1>7 DEF MeetingPlan, once
<1>9. GuestPlan(r, q)
  BY <1>7 DEF GuestPlan
<1>10. CallPlan(r, q)
  BY <1>4, <1>7 DEF CallPlan
<1>11. Reads(r, q)
  <2>1. m \notin Puts(q, "status") => db.status[m] = "completed"
    BY <1>7 DEF changes
  <2> QED
    BY <1>6, <1>7, <2>1 DEF Reads
<1>12. \A n \in About(q) : Known(n)
  <2>1. About(q) \subseteq {m}
    BY <1>4, <1>7 DEF About
  <2> QED
    BY <1>1, <2>1 DEF RowsInv
<1> QED
  BY <1>1, <1>4, <1>5, <1>7, <1>8, <1>9, <1>10, <1>11, <1>12 DEF Starts, Plan

LEMMA DeleteStarts ==
  ASSUME RowsInv, NEW r, NEW m, Delete(r, m)
  PROVE  r \in Requests /\ \E q : Starts(r, q)
<1> DEFINE new == [ends |-> {m}, cut |-> {m}]
           q == new @@ [pc |-> "open"] @@ Fresh
<1>1. r \in Requests /\ Builds(r, new, {}) /\ m \in DOMAIN db.status
  BY BeginBuilds DEF Delete, Exists
<1>4. /\ DOMAIN q = DOMAIN Fresh /\ q.pc = "open" /\ q.over = {}
      /\ q.w = <<>> /\ q.ins = {} /\ q.upd = {} /\ q.cut = {m}
      /\ q.sends = {} /\ q.says = {} /\ q.ends = {m} /\ q.once = {}
  <2>1. DOMAIN new \subseteq DOMAIN Fresh \ {"pc", "over"}
    BY DEF Fresh
  <2> QED
    BY <2>1, OverlayIs
<1>5. req[r].pc = "new" /\ req' = [req EXCEPT ![r] = q] /\ rooms' = rooms
      /\ UNCHANGED <<db, links, texts, deleted, mixed, broken>>
  BY <1>1 DEF Builds
<1> HIDE DEF q
<1>6. (\A c : Puts(q, c) = {}) /\ Founds(q) = {}
  BY <1>4 DEF Put, Puts, Founds
<1>7. Plan(r, q) /\ Reads(r, q)
  BY <1>4, <1>6 DEF Plan, MeetingPlan, GuestPlan, CallPlan, Reads
<1>8. \A n \in About(q) : Known(n)
  <2>1. About(q) \subseteq {m}
    BY <1>4, <1>6 DEF About
  <2> QED
    BY <1>1, <2>1 DEF RowsInv
<1> QED
  BY <1>1, <1>4, <1>5, <1>6, <1>7, <1>8 DEF Starts

\* A request about conversations and numbers, which has no part in meetings.
LEMMA TalkStarts ==
  ASSUME NEW r \in Requests, NEW new, DOMAIN new \subseteq {"w", "ins", "says", "once"}, "w" \in DOMAIN new,
         Builds(r, new, {}), DOMAIN new.w \subseteq {"talk", "said", "report", "link"},
         "ins" \in DOMAIN new => \A k \in new.ins : k = <<k[1], k[2]>> /\ k[1] = "link",
         "says" \in DOMAIN new => "said" \in DOMAIN new.w /\ r \in DOMAIN new.w["said"],
         "talk" \in DOMAIN new.w =>
            /\ DOMAIN new.w["talk"] = {r} /\ Talks(new.w["talk"][r]) = {}
            /\ "once" \in DOMAIN new /\ <<"talk", new.w["talk"][r]>> \in new.once,
         "link" \in DOMAIN new.w => \A p \in DOMAIN new.w["link"] :
            Exists("link", p) \/ ("ins" \in DOMAIN new /\ <<"link", p>> \in new.ins)
  PROVE  \E q : Starts(r, q)
<1> DEFINE q == new @@ [pc |-> "open"] @@ Fresh
<1>4. /\ DOMAIN q = DOMAIN Fresh /\ q.pc = "open" /\ q.over = {}
      /\ q.w = new.w /\ q.ins = (IF "ins" \in DOMAIN new THEN new.ins ELSE {}) /\ q.upd = {} /\ q.cut = {}
      /\ q.sends = {} /\ q.says = (IF "says" \in DOMAIN new THEN new.says ELSE {})
      /\ q.ends = {} /\ q.once = (IF "once" \in DOMAIN new THEN new.once ELSE {})
  <2>1. DOMAIN new \subseteq DOMAIN Fresh \ {"pc", "over"}
    BY DEF Fresh
  <2> QED
    BY <2>1, OverlayIs
<1>5. req[r].pc = "new" /\ req' = [req EXCEPT ![r] = q] /\ rooms' = rooms
      /\ UNCHANGED <<db, links, texts, deleted, mixed, broken>>
  BY DEF Builds
<1> HIDE DEF q
<1>6. /\ Puts(q, "status") = {} /\ Founds(q) = {} /\ Puts(q, "open") = {} /\ Puts(q, "ended") = {}
      /\ Puts(q, "joined") = {} /\ Puts(q, "used") = {} /\ Puts(q, "token") = {}
  BY <1>4 DEF Put, Puts, Founds
<1>7. /\ Puts(q, "talk") \subseteq {r}
      /\ r \in Puts(q, "talk") => /\ <<"talk", Put(q, "talk")[r]>> \in q.once
                                  /\ Talks(Put(q, "talk")[r]) = {}
  <2>1. CASE "talk" \in DOMAIN new.w
    <3>1. Put(q, "talk") = new.w["talk"] /\ Puts(q, "talk") = {r} /\ q.once = new.once
      BY <1>4, <2>1 DEF Put, Puts
    <3> QED
      BY <2>1, <3>1
  <2>2. CASE "talk" \notin DOMAIN new.w
    <3>1. Puts(q, "talk") = {}
      BY <1>4, <2>2 DEF Put, Puts
    <3> QED
      BY <3>1
  <2> QED
    BY <2>1, <2>2
<1>8. q.says # {} => r \in Puts(q, "said")
  <2>1. "said" \in DOMAIN new.w => Puts(q, "said") = DOMAIN new.w["said"]
    BY <1>4 DEF Put, Puts
  <2> QED
    BY <1>4, <2>1
<1>9. \A p \in Puts(q, "link") : Exists("link", p) \/ <<"link", p>> \in q.ins
  <2>1. Puts(q, "link") = IF "link" \in DOMAIN new.w THEN DOMAIN new.w["link"] ELSE {}
    BY <1>4 DEF Put, Puts
  <2> QED
    BY <1>4, <2>1
<1>10. \A k \in q.ins : k = <<k[1], k[2]>> /\ k[1] = "link"
  BY <1>4
<1>11. MeetingPlan(r, q) /\ GuestPlan(r, q)
  BY <1>4, <1>6 DEF MeetingPlan, GuestPlan
<1>12. CallPlan(r, q)
  BY <1>4, <1>6, <1>7, <1>8, <1>10 DEF CallPlan
<1>13. Reads(r, q) /\ About(q) = {}
  BY <1>4, <1>6, <1>7, <1>9 DEF Reads, About
<1> QED
  BY <1>4, <1>5, <1>6, <1>11, <1>12, <1>13 DEF Starts, Plan

LEMMA TalksStart ==
  ASSUME NEW r
  PROVE  /\ \A p, i : CreateLink(r, p, i) => r \in Requests /\ \E q : Starts(r, q)
         /\ \A i, says : GetOrCreate(r, i, says) /\ says \subseteq {r} => r \in Requests /\ \E q : Starts(r, q)
         /\ \A c : Reply(r, c) \/ Report(r, c) => r \in Requests /\ \E q : Starts(r, q)
<1>1. ASSUME NEW p, NEW i, CreateLink(r, p, i) PROVE r \in Requests /\ \E q : Starts(r, q)
  <2> DEFINE w == [link |-> p :> i]
             ins == IF Exists("link", p) THEN {} ELSE {<<"link", p>>}
             new == [w |-> w, ins |-> ins]
  <2>1. r \in Requests /\ Builds(r, new, {})
    BY <1>1, BeginBuilds DEF CreateLink
  <2>2. DOMAIN w = {"link"} /\ DOMAIN w["link"] = {p}
    BY DEF :>
  <2>3. /\ \A k \in ins : k = <<k[1], k[2]>> /\ k[1] = "link"
        /\ Exists("link", p) \/ <<"link", p>> \in ins
    OBVIOUS
  <2> HIDE DEF w, ins
  <2>4. DOMAIN new = {"w", "ins"} /\ new.w = w /\ new.ins = ins
    OBVIOUS
  <2> HIDE DEF new
  <2> QED
    BY <2>1, <2>2, <2>3, <2>4, TalkStarts
<1>2. ASSUME NEW i, NEW says, says \subseteq {r}, GetOrCreate(r, i, says) PROVE r \in Requests /\ \E q : Starts(r, q)
  <2>1. ASSUME NEW c, Begin(r, [w |-> [said |-> [x \in says |-> c]]]) PROVE r \in Requests /\ \E q : Starts(r, q)
    <3> DEFINE w == [said |-> [x \in says |-> c]]
               new == [w |-> w]
    <3>1. r \in Requests /\ Builds(r, new, {})
      BY <2>1, BeginBuilds
    <3>2. DOMAIN w = {"said"}
      OBVIOUS
    <3> HIDE DEF w
    <3>3. DOMAIN new = {"w"} /\ new.w = w
      OBVIOUS
    <3> HIDE DEF new
    <3> QED
      BY <3>1, <3>2, <3>3, TalkStarts
  <2>2. ASSUME Talks(i) = {}, Begin(r, [w    |-> [talk |-> r :> i, said |-> [x \in says |-> r]],
                                        once |-> {<<"talk", i>>}])
        PROVE  r \in Requests /\ \E q : Starts(r, q)
    <3> DEFINE w == [talk |-> r :> i, said |-> [x \in says |-> r]]
               once == {<<"talk", i>>}
               new == [w |-> w, once |-> once]
    <3>1. r \in Requests /\ Builds(r, new, {})
      BY <2>2, BeginBuilds
    <3>2. DOMAIN w = {"talk", "said"} /\ DOMAIN w["talk"] = {r} /\ w["talk"][r] = i
      BY DEF :>
    <3>3. <<"talk", i>> \in once
      OBVIOUS
    <3> HIDE DEF w, once
    <3>4. DOMAIN new = {"w", "once"} /\ new.w = w /\ new.once = once
      OBVIOUS
    <3> HIDE DEF new
    <3> QED
      BY <2>2, <3>1, <3>2, <3>3, <3>4, TalkStarts
  <2> QED
    BY <1>2, <2>1, <2>2 DEF GetOrCreate
<1>3. ASSUME NEW c, Reply(r, c) PROVE r \in Requests /\ \E q : Starts(r, q)
  <2> DEFINE w == [said |-> r :> c]
             new == [w |-> w, says |-> {c}]
  <2>1. r \in Requests /\ Builds(r, new, {})
    BY <1>3, BeginBuilds DEF Reply
  <2>2. DOMAIN w = {"said"} /\ r \in DOMAIN w["said"]
    BY DEF :>
  <2> HIDE DEF w
  <2>3. DOMAIN new = {"w", "says"} /\ new.w = w
    OBVIOUS
  <2> HIDE DEF new
  <2> QED
    BY <2>1, <2>2, <2>3, TalkStarts
<1>4. ASSUME NEW c, Report(r, c) PROVE r \in Requests /\ \E q : Starts(r, q)
  <2> DEFINE w == [report |-> r :> <<c, Cardinality(Saying(c))>>]
             new == [w |-> w]
  <2>1. r \in Requests /\ Builds(r, new, {})
    BY <1>4, BeginBuilds DEF Report
  <2>2. DOMAIN w = {"report"}
    OBVIOUS
  <2> HIDE DEF w
  <2>3. DOMAIN new = {"w"} /\ new.w = w
    OBVIOUS
  <2> HIDE DEF new
  <2> QED
    BY <2>1, <2>2, <2>3, TalkStarts
<1> QED
  BY <1>1, <1>2, <1>3, <1>4

---------------------------------------------------------------------------
(* The routes.                                                             *)

LEMMA MeetingRoutes ==
  ASSUME RowsInv, NEW r, NEW list \in Lists
  PROVE  /\ \A kind : \A s \in Staff : CreateMeeting(r, s, kind, list) => r \in Requests /\ \E q : Starts(r, q)
         /\ ClientScheduleMeeting(r, list) => r \in Requests /\ \E q : Starts(r, q)
         /\ \A u \in OrgUsers : OrgScheduleMeeting(r, u, list) => r \in Requests /\ \E q : Starts(r, q)
<1>1. ASSUME NEW s \in Staff, NEW kind, CreateMeeting(r, s, kind, list)
      PROVE  r \in Requests /\ \E q : Starts(r, q)
  <2>1. s \notin Identities
    BY DeskAssumption DEF Linkable
  <2>2. ClientOrgOnly(kind, list \cup {s})
    BY <1>1, <2>1 DEF CreateMeeting, ClientOrgOnly
  <2> QED
    BY <1>1, <2>2, ScheduleStarts DEF CreateMeeting
<1>3. \A people : ClientOrgOnly("community", people) /\ ClientOrgOnly("org", people)
  BY DEF ClientOrgOnly
<1>4. ASSUME ClientScheduleMeeting(r, list) PROVE r \in Requests /\ \E q : Starts(r, q)
  BY <1>3, <1>4, ScheduleStarts DEF ClientScheduleMeeting
<1>5. ASSUME NEW u \in OrgUsers, OrgScheduleMeeting(r, u, list) PROVE r \in Requests /\ \E q : Starts(r, q)
  BY <1>3, <1>5, ScheduleStarts DEF OrgScheduleMeeting
<1> QED
  BY <1>1, <1>4, <1>5

LEMMA JoinRoutes ==
  ASSUME RowsInv, NEW r \in Requests, NEW m
  PROVE  /\ \A s \in Staff : StaffJoin(r, m, s) \/ OrgStaffJoin(r, m, s) => \E q : Starts(r, q)
         /\ \A i : ClientJoin(r, m, i) \/ PublicJoin(r, m, i) => \E q : Starts(r, q)
         /\ \A u : OrgUserJoin(r, m, u) => \E q : Starts(r, q)
         /\ \A k : OrgPublicJoin(r, m, k) => \E q : Starts(r, q)
         /\ OpenJoin(r, m) \/ OrgOpenJoin(r, m) => \E q : Starts(r, q)
<1>1. ASSUME NEW p, Join(r, m, p, <<>>, {}), Exists("joined", <<m, p>>) \/ p \notin Linkable
      PROVE  \E q : Starts(r, q)
  <2> DEFINE personal == FALSE
  <2>1. Join(r, m, p, IF personal THEN [used |-> <<m, p>> :> TRUE] ELSE <<>>,
                      IF personal THEN {<<"used", <<m, p>>>>} ELSE {})
    BY <1>1
  <2>2. personal \in BOOLEAN /\ ~personal
    OBVIOUS
  <2> HIDE DEF personal
  <2> QED
    BY <1>1, <2>1, <2>2, JoinStarts
<1>2. ASSUME NEW p, Personal(r, m, p) PROVE \E q : Starts(r, q)
  <2> DEFINE personal == TRUE
  <2>1. Join(r, m, p, IF personal THEN [used |-> <<m, p>> :> TRUE] ELSE <<>>,
                      IF personal THEN {<<"used", <<m, p>>>>} ELSE {})
    BY <1>2 DEF Personal
  <2>2. Exists("joined", <<m, p>>)
    BY <1>2 DEF Personal, RowsInv, Exists
  <2>3. personal \in BOOLEAN
    OBVIOUS
  <2> HIDE DEF personal
  <2> QED
    BY <2>1, <2>2, <2>3, JoinStarts
<1>3. r \notin Linkable /\ \A s \in Staff : s \notin Linkable
  BY DeskAssumption DEF Linkable, People
<1> QED
  BY <1>1, <1>2, <1>3 DEF StaffJoin, OrgStaffJoin, ClientJoin, PublicJoin, OrgUserJoin, OrgPublicJoin,
                          OpenJoin, OrgOpenJoin

LEMMA OtherRoutes ==
  ASSUME RowsInv, NEW r \in Requests
  PROVE  /\ \A m, p : AddParticipant(r, m, p) \/ ClientAddParticipant(r, m, p) \/ OrgAddParticipant(r, m, p)
                        => \E q : Starts(r, q)
         /\ \A m : EndMeeting(r, m) \/ ClientEndMeeting(r, m) \/ OrgEndMeeting(r, m) => \E q : Starts(r, q)
         /\ \A m : DeleteMeeting(r, m) \/ OrgDeleteMeeting(r, m) => \E q : Starts(r, q)
         /\ \A p, i : CreateLink(r, p, i) => \E q : Starts(r, q)
         /\ \A i : InitiateRoom(r, i) \/ ClientInitiateRoom(r, i) \/ HandleInbound(r, i) \/ Flush(r, i)
                     => \E q : Starts(r, q)
         /\ \A c : ReplyToConversation(r, c) \/ ClientReplyToConversation(r, c) => \E q : Starts(r, q)
         /\ \A c : GenerateReport(r, c) \/ ClientGenerateReport(r, c) => \E q : Starts(r, q)
<1>1. \A m, p : Add(r, m, p) => \E q : Starts(r, q)
  BY AddStarts
<1>2. \A m : End(r, m) => \E q : Starts(r, q)
  BY EndStarts
<1>3. \A m : Delete(r, m) => \E q : Starts(r, q)
  BY DeleteStarts
<1>4. /\ \A p, i : CreateLink(r, p, i) => \E q : Starts(r, q)
      /\ \A i, says : GetOrCreate(r, i, says) /\ says \subseteq {r} => \E q : Starts(r, q)
      /\ \A c : Reply(r, c) \/ Report(r, c) => \E q : Starts(r, q)
  BY TalksStart
<1>5. \A i : InitiateRoom(r, i) \/ ClientInitiateRoom(r, i) \/ HandleInbound(r, i) \/ Flush(r, i)
               => \E says : says \subseteq {r} /\ GetOrCreate(r, i, says)
  BY DEF InitiateRoom, ClientInitiateRoom, HandleInbound, Flush
<1> QED
  BY <1>1, <1>2, <1>3, <1>4, <1>5 DEF
     AddParticipant, ClientAddParticipant, OrgAddParticipant, EndMeeting, ClientEndMeeting, OrgEndMeeting,
     DeleteMeeting, OrgDeleteMeeting, ReplyToConversation, ClientReplyToConversation, GenerateReport,
     ClientGenerateReport

\* Every step begins a request, or takes one further.
LEMMA StepCases ==
  ASSUME RowsInv, [Next]_vars
  PROVE  \/ \E r \in Requests :
              (\E q : Starts(r, q)) \/ (r \in Working /\ (Calls(r) \/ Commit(r) \/ Refused(r) \/ Breaks(r)))
         \/ UNCHANGED vars
<1>0. \A r \in Ready \cup Working : r \in Requests
  BY DEF Ready, Working
<1>1. ASSUME NEW r \in Ready, NEW list \in Lists,
             \/ \E s \in Staff, kind \in {"client_org", "community"} : CreateMeeting(r, s, kind, list)
             \/ ClientScheduleMeeting(r, list)
             \/ \E u \in OrgUsers : OrgScheduleMeeting(r, u, list)
      PROVE  \E q : Starts(r, q)
  BY <1>1, MeetingRoutes
<1>2. ASSUME NEW r \in Ready, NEW m \in Meetings,
             \/ \E p \in Staff \cup Identities : AddParticipant(r, m, p)
             \/ \E i \in Identities : ClientAddParticipant(r, m, i) \/ ClientJoin(r, m, i) \/ PublicJoin(r, m, i)
             \/ \E k \in Members : OrgAddParticipant(r, m, k) \/ OrgPublicJoin(r, m, k)
             \/ \E s \in Staff : StaffJoin(r, m, s) \/ OrgStaffJoin(r, m, s)
             \/ \E u \in OrgUsers : OrgUserJoin(r, m, u)
             \/ OpenJoin(r, m) \/ OrgOpenJoin(r, m)
             \/ EndMeeting(r, m) \/ ClientEndMeeting(r, m) \/ OrgEndMeeting(r, m)
             \/ DeleteMeeting(r, m) \/ OrgDeleteMeeting(r, m)
      PROVE  \E q : Starts(r, q)
  <2>1. r \in Requests
    BY <1>0
  <2>2. /\ \A s \in Staff : StaffJoin(r, m, s) \/ OrgStaffJoin(r, m, s) => \E q : Starts(r, q)
        /\ \A i : ClientJoin(r, m, i) \/ PublicJoin(r, m, i) => \E q : Starts(r, q)
        /\ \A u : OrgUserJoin(r, m, u) => \E q : Starts(r, q)
        /\ \A k : OrgPublicJoin(r, m, k) => \E q : Starts(r, q)
        /\ OpenJoin(r, m) \/ OrgOpenJoin(r, m) => \E q : Starts(r, q)
    BY <2>1, JoinRoutes
  <2>3. /\ \A p : AddParticipant(r, m, p) \/ ClientAddParticipant(r, m, p) \/ OrgAddParticipant(r, m, p)
                    => \E q : Starts(r, q)
        /\ EndMeeting(r, m) \/ ClientEndMeeting(r, m) \/ OrgEndMeeting(r, m) => \E q : Starts(r, q)
        /\ DeleteMeeting(r, m) \/ OrgDeleteMeeting(r, m) => \E q : Starts(r, q)
    BY <2>1, OtherRoutes
  <2> QED
    BY <1>2, <2>2, <2>3
<1>3. ASSUME NEW r \in Ready, NEW i \in Identities,
             \/ \E p \in Phones : CreateLink(r, p, i)
             \/ InitiateRoom(r, i) \/ ClientInitiateRoom(r, i) \/ HandleInbound(r, i) \/ Flush(r, i)
      PROVE  \E q : Starts(r, q)
  BY <1>0, <1>3, OtherRoutes
<1>4. ASSUME NEW r \in Ready, NEW c \in Requests \cup {Talk},
             \/ ReplyToConversation(r, c) \/ ClientReplyToConversation(r, c)
             \/ GenerateReport(r, c) \/ ClientGenerateReport(r, c)
      PROVE  \E q : Starts(r, q)
  BY <1>0, <1>4, OtherRoutes
<1> QED
  BY <1>0, <1>1, <1>2, <1>3, <1>4 DEF Next

---------------------------------------------------------------------------
(* What a step does to the requests and to the rows.                       *)

\* The request goes on as it was, if perhaps overlapped by one more.
GoesOn(s) ==
  /\ SameTask(req[s], req'[s]) /\ DOMAIN req'[s] = DOMAIN Fresh
  /\ req'[s].pc = req[s].pc /\ req[s].over \subseteq req'[s].over

Shape == DOMAIN req = Requests /\ \A r \in Requests : DOMAIN req[r] = DOMAIN Fresh

LEMMA SameGoesOn ==
  ASSUME Shape, NEW s \in Requests, req'[s] = req[s]
  PROVE  GoesOn(s)
  BY DEF Shape, GoesOn, SameTask

LEMMA StartsIs ==
  ASSUME Shape, NEW r \in Requests, NEW q, Starts(r, q)
  PROVE  /\ DOMAIN req' = Requests /\ req'[r] = q /\ \A s \in Requests \ {r} : req'[s] = req[s] /\ GoesOn(s)
<1>1. DOMAIN req' = Requests /\ req'[r] = q /\ \A s \in Requests \ {r} : req'[s] = req[s]
  BY DEF Starts, Shape
<1> QED
  BY <1>1, SameGoesOn

LEMMA CallsIs ==
  ASSUME Shape, NEW r \in Requests, Calls(r)
  PROVE  /\ DOMAIN req' = Requests /\ SameTask(req[r], req'[r]) /\ DOMAIN req'[r] = DOMAIN Fresh
         /\ req'[r].pc = "flushed" /\ req'[r].over = req[r].over
         /\ \A s \in Requests \ {r} : req'[s] = req[s] /\ GoesOn(s)
<1> DEFINE p == [req[r] EXCEPT !.pc = "flushed"]
<1>1. req' = [req EXCEPT ![r] = p]
  BY DEF Calls
<1>2. DOMAIN req[r] = {"pc", "w", "ins", "upd", "cut", "sends", "says", "ends", "once", "over"}
  BY DEF Shape, Fresh
<1>3. SameTask(req[r], p) /\ DOMAIN p = DOMAIN req[r] /\ p.pc = "flushed" /\ p.over = req[r].over
  BY <1>2 DEF SameTask
<1> HIDE DEF p
<1>4. DOMAIN req' = Requests /\ req'[r] = p /\ \A s \in Requests \ {r} : req'[s] = req[s]
  BY <1>1 DEF Shape
<1> QED
  BY <1>3, <1>4, SameGoesOn DEF Shape

LEMMA EndIs ==
  ASSUME Shape, NEW r \in Requests, req' = [req EXCEPT ![r] = Done]
  PROVE  DOMAIN req' = Requests /\ req'[r] = Done /\ \A s \in Requests \ {r} : req'[s] = req[s] /\ GoesOn(s)
<1>1. DOMAIN req' = Requests /\ req'[r] = Done /\ \A s \in Requests \ {r} : req'[s] = req[s]
  BY DEF Shape
<1> QED
  BY <1>1, SameGoesOn

LEMMA CommitIs ==
  ASSUME Shape, NEW r \in Requests, Commit(r)
  PROVE  /\ DOMAIN req' = Requests /\ req'[r] = Done
         /\ \A s \in Requests \ {r} :
              GoesOn(s) /\ (s \in Working => req'[s].over = req[s].over \cup req[r].once)
<1>1. DOMAIN req' = Requests /\ req'[r] = Done
  BY DEF Commit
<1>2. ASSUME NEW s \in Requests \ {r}
      PROVE  GoesOn(s) /\ (s \in Working => req'[s].over = req[s].over \cup req[r].once)
  <2>1. CASE s \in Working
    <3> DEFINE p == [req[s] EXCEPT !.over = @ \cup req[r].once]
    <3>1. DOMAIN req[s] = {"pc", "w", "ins", "upd", "cut", "sends", "says", "ends", "once", "over"}
      BY DEF Shape, Fresh
    <3>2. /\ SameTask(req[s], p) /\ DOMAIN p = DOMAIN req[s] /\ p.pc = req[s].pc
          /\ p.over = req[s].over \cup req[r].once
      BY <3>1 DEF SameTask
    <3>3. req'[s] = p
      BY <2>1 DEF Commit, Working
    <3> HIDE DEF p
    <3> QED
      BY <3>2, <3>3 DEF Shape, GoesOn
  <2>2. CASE s \notin Working
    <3>1. req'[s] = req[s]
      BY <2>2 DEF Commit, Working
    <3> QED
      BY <2>2, <3>1, SameGoesOn
  <2> QED
    BY <2>1, <2>2
<1> QED
  BY <1>1, <1>2

\* The rows that q writes, and those that are gone with a meeting.
Wrote(q) ==
  \A c \in Columns :
    /\ DOMAIN db'[c] = Puts(q, c) \cup DOMAIN db[c]
    /\ \A k \in DOMAIN db'[c] : db'[c][k] = IF k \in Puts(q, c) THEN Put(q, c)[k] ELSE db[c][k]

Removed(q) ==
  \A c \in Columns : DOMAIN db'[c] = Kept(c, q.cut) /\ \A k \in DOMAIN db'[c] : db'[c][k] = db[c][k]

LEMMA CommitRows ==
  ASSUME NEW r, Commit(r), CallPlan(r, req[r])
  PROVE  /\ DOMAIN db' = Columns
         /\ req[r].cut = {} => Wrote(req[r])
         /\ req[r].cut # {} => Removed(req[r])
<1> DEFINE q == req[r]
<1>1. DOMAIN db' = Columns /\ \A c \in Columns : db'[c] = Put(q, c) @@ Restrict(db[c], Kept(c, q.cut))
  BY DEF Commit
<1>2. ASSUME NEW c \in Columns
      PROVE  /\ DOMAIN db'[c] = Puts(q, c) \cup Kept(c, q.cut)
             /\ \A k \in DOMAIN db'[c] : db'[c][k] = IF k \in Puts(q, c) THEN Put(q, c)[k] ELSE db[c][k]
  <2> DEFINE f == Put(q, c)
             g == Restrict(db[c], Kept(c, q.cut))
             h == db'[c]
  <2>1. DOMAIN g = Kept(c, q.cut) /\ \A k \in DOMAIN g : g[k] = db[c][k]
    BY DEF Restrict
  <2>2. h = f @@ g
    BY <1>1
  <2>3. DOMAIN f = Puts(q, c)
    BY DEF Puts
  <2> HIDE DEF f, g, h
  <2>4. DOMAIN h = DOMAIN f \cup DOMAIN g /\ \A k \in DOMAIN h : h[k] = IF k \in DOMAIN f THEN f[k] ELSE g[k]
    BY <2>2 DEF @@
  <2>5. /\ DOMAIN h = Puts(q, c) \cup Kept(c, q.cut)
        /\ \A k \in DOMAIN h : h[k] = IF k \in Puts(q, c) THEN f[k] ELSE db[c][k]
    BY <2>1, <2>3, <2>4
  <2> QED
    BY <2>5 DEF f, h
<1>3. ASSUME q.cut = {} PROVE Wrote(q)
  <2>1. \A c \in Columns : Kept(c, q.cut) = DOMAIN db[c]
    BY <1>3 DEF Kept
  <2> QED
    BY <1>2, <2>1 DEF Wrote
<1>4. ASSUME q.cut # {} PROVE Removed(q)
  <2>1. \A c \in Columns : Puts(q, c) = {}
    BY <1>4 DEF CallPlan
  <2> QED
    BY <1>2, <2>1 DEF Removed
<1> QED
  BY <1>1, <1>3, <1>4

Overlaid(old, new, q, c) ==
  /\ DOMAIN new = Puts(q, c) \cup DOMAIN old
  /\ \A k \in DOMAIN new : new[k] = IF k \in Puts(q, c) THEN Put(q, c)[k] ELSE old[k]

Without(old, new, cut) ==
  /\ DOMAIN new = {k \in DOMAIN old : k \notin cut}
  /\ \A k \in DOMAIN new : new[k] = old[k]

WithoutOf(old, new, cut) ==
  /\ DOMAIN new = {k \in DOMAIN old : k[1] \notin cut}
  /\ \A k \in DOMAIN new : new[k] = old[k]

\* The rows that the properties are about, after a request that writes and one
\* that deletes.
Overwrites(q) ==
  /\ Overlaid(db.status, db'.status, q, "status") /\ Overlaid(db.kind, db'.kind, q, "kind")
  /\ Overlaid(db.open, db'.open, q, "open") /\ Overlaid(db.ended, db'.ended, q, "ended")
  /\ Overlaid(db.joined, db'.joined, q, "joined") /\ Overlaid(db.used, db'.used, q, "used")
  /\ Overlaid(db.token, db'.token, q, "token") /\ Overlaid(db.talk, db'.talk, q, "talk")
  /\ Overlaid(db.said, db'.said, q, "said") /\ Overlaid(db.link, db'.link, q, "link")

LEMMA WroteIs ==
  ASSUME NEW q, Wrote(q)
  PROVE  Overwrites(q)
<1>1. \A c \in Columns : Overlaid(db[c], db'[c], q, c)
  BY DEF Wrote, Overlaid
<1>2. {"status", "kind", "open", "ended", "joined", "used", "token", "talk", "said", "link"} \subseteq Columns
  BY DEF Columns, Meeting, Participant, Invite, Conversation, Message, WhatsAppLink
<1> QED
  BY <1>1, <1>2 DEF Overwrites

Deletes(q) ==
  /\ Without(db.status, db'.status, q.cut) /\ Without(db.kind, db'.kind, q.cut)
  /\ Without(db.open, db'.open, q.cut) /\ Without(db.ended, db'.ended, q.cut)
  /\ WithoutOf(db.joined, db'.joined, q.cut) /\ WithoutOf(db.used, db'.used, q.cut)
  /\ WithoutOf(db.token, db'.token, q.cut)
  /\ Without(db.talk, db'.talk, {}) /\ Without(db.said, db'.said, {}) /\ Without(db.link, db'.link, {})

LEMMA RemovedIs ==
  ASSUME NEW q, Removed(q)
  PROVE  Deletes(q)
<1>1. \A c \in Columns : DOMAIN db'[c] = Kept(c, q.cut) /\ \A k \in DOMAIN db'[c] : db'[c][k] = db[c][k]
  BY DEF Removed
<1>2. {"status", "kind", "open", "ended", "joined", "used", "token", "talk", "said", "link"} \subseteq Columns
  BY DEF Columns, Meeting, Participant, Invite, Conversation, Message, WhatsAppLink
<1>3. \A c \in {"status", "kind", "open", "ended"} : Kept(c, q.cut) = {k \in DOMAIN db[c] : k \notin q.cut}
  BY DEF Kept, MeetingOf, Meeting, Participant, Invite
<1>4. \A c \in {"joined", "used", "token"} : Kept(c, q.cut) = {k \in DOMAIN db[c] : k[1] \notin q.cut}
  BY DEF Kept, MeetingOf, Meeting, Participant, Invite
<1>5. \A c \in {"talk", "said", "link"} : Kept(c, q.cut) = {k \in DOMAIN db[c] : k \notin {}}
  BY DEF Kept, Meeting, Participant, Invite
<1>6. \A c \in {"status", "kind", "open", "ended"} : Without(db[c], db'[c], q.cut)
  BY <1>1, <1>2, <1>3 DEF Without
<1>7. \A c \in {"joined", "used", "token"} : WithoutOf(db[c], db'[c], q.cut)
  BY <1>1, <1>2, <1>4 DEF WithoutOf
<1>8. \A c \in {"talk", "said", "link"} : Without(db[c], db'[c], {})
  BY <1>1, <1>2, <1>5 DEF Without
<1> QED
  BY <1>6, <1>7, <1>8 DEF Deletes

---------------------------------------------------------------------------
(* The requests keep to their plans.                                       *)

\* What a request that goes on has to do with meetings is not the business of
\* the one that is new or under way.
LEMMA Apart ==
  ASSUME RequestsInv, RowsInv, NEW r \in Requests, req[r].pc # "done", NEW s \in Working, s # r
  PROVE  /\ r \notin About(req[s]) /\ r \notin Founds(req[s])
         /\ \A m \in Puts(req[s], "status") \cup Puts(req[s], "ended") \cup req[s].ends : m # r
         /\ \A x \in Puts(req[s], "joined") : x[1] # r
         /\ r \notin DOMAIN db.status
<1>1. s \in Requests
  BY DEF Working
<1>2. ~Known(r)
  BY DeskAssumption DEF Known
<1>3. r \notin About(req[s])
  BY <1>1, <1>2 DEF RequestsInv
<1>4. r \notin Founds(req[s])
  BY <1>1 DEF RequestsInv, Plan, MeetingPlan
<1> QED
  BY <1>2, <1>3, <1>4 DEF About, RowsInv

LEMMA KnownStays ==
  ASSUME NEW r \in Requests, req[r].pc # "done", \A s \in Requests \ {r} : GoesOn(s)
  PROVE  \A m : Known(m) => Known(m)'
  BY DEF Known, GoesOn

LEMMA ShapeIs ==
  ASSUME RequestsInv
  PROVE  Shape
  BY DEF RequestsInv, Shape

\* Where the rows stay as they are, what was read stays true.
LEMMA QuietReads ==
  ASSUME UNCHANGED <<db, mixed>>, NEW r, NEW q, NEW p, SameTask(q, p), q.over \subseteq p.over, Reads(r, q)
  PROVE  Reads(r, p)
  BY SamePlan DEF SameTask, Reads

LEMMA PrimedReads ==
  ASSUME UNCHANGED <<db, mixed>>, NEW s, Reads(s, req'[s])
  PROVE  Reads(s, req[s])'
<1> PICK p : p = req'[s]
  OBVIOUS
<1>1. Reads(s, p)
  OBVIOUS
<1>2. Reads(s, p)'
  BY <1>1 DEF Reads, Exists, Talks
<1> QED
  BY <1>2

\* A step of r that leaves the rows: all that matters is how r itself is then.
LEMMA QuietRequests ==
  ASSUME RequestsInv, UNCHANGED <<db, mixed>>, NEW r \in Requests, req[r].pc # "done",
         DOMAIN req' = Requests, \A s \in Requests \ {r} : GoesOn(s),
         req'[r].pc \in {"open", "flushed", "done"}, DOMAIN req'[r] = DOMAIN Fresh,
         req'[r].pc # "done" =>
           Plan(r, req'[r]) /\ Reads(r, req'[r]) /\ \A m \in About(req'[r]) : Known(m)
  PROVE  RequestsInv'
<1>1. ASSUME NEW s \in Requests
      PROVE  /\ req'[s].pc \in {"new", "open", "flushed", "done"} /\ DOMAIN req'[s] = DOMAIN Fresh
             /\ req'[s].pc \in {"open", "flushed"} =>
                  Plan(s, req'[s]) /\ Reads(s, req'[s]) /\ \A m \in About(req'[s]) : Known(m)
  <2>1. CASE s = r
    BY <2>1
  <2>2. CASE s # r
    <3>1. GoesOn(s)
      BY <2>2
    <3>2. /\ req[s].pc \in {"new", "open", "flushed", "done"}
          /\ req[s].pc \in {"open", "flushed"} =>
               Plan(s, req[s]) /\ Reads(s, req[s]) /\ \A m \in About(req[s]) : Known(m)
      BY DEF RequestsInv, Working
    <3> QED
      BY <3>1, <3>2, SamePlan, QuietReads DEF GoesOn
  <2> QED
    BY <2>1, <2>2
<1>2. \A m : Known(m) => Known(m)'
  BY KnownStays
<1>3. ASSUME NEW s \in Requests, req'[s].pc \in {"open", "flushed"}
      PROVE  Plan(s, req'[s]) /\ Reads(s, req[s])' /\ \A m \in About(req'[s]) : Known(m)'
  BY <1>1, <1>2, <1>3, PrimedReads
<1>4. ASSUME NEW s \in Requests, req'[s].pc \in {"open", "flushed"}
      PROVE  Plan(s, req[s])' /\ Reads(s, req[s])' /\ \A m \in About(req[s])' : Known(m)'
  <2> PICK p : p = req'[s]
    OBVIOUS
  <2>1. Plan(s, p) /\ \A m \in About(p) : Known(m)'
    BY <1>3, <1>4
  <2> QED
    BY <1>3, <1>4, <2>1
<1> QED
  BY <1>1, <1>4 DEF RequestsInv, Working

\* What a step of r that leaves the rows cannot disturb.
LEMMA QuietRows ==
  ASSUME UNCHANGED <<db, mixed>>, \A m : Known(m) => Known(m)'
  PROVE  /\ RowsInv => RowsInv'
         /\ LiveWhenJoined => LiveWhenJoined'
         /\ OneConversation => OneConversation'
<1>1. RowsInv => RowsInv'
  BY DEF RowsInv, Exists
<1>2. LiveWhenJoined => LiveWhenJoined'
  BY DEF LiveWhenJoined, Exists
<1>3. OneConversation => OneConversation'
  BY DEF OneConversation
<1> QED
  BY <1>1, <1>2, <1>3

\* A request that has only begun has not yet told anybody.
LEMMA StartsKeeps ==
  ASSUME DeskInv, NEW r \in Requests, NEW q, Starts(r, q)
  PROVE  RequestsInv' /\ FlushInv' /\ RoomsInv' /\ MessagesInv' /\ \A m : Known(m) => Known(m)'
<1>0. /\ RequestsInv /\ RowsInv /\ FlushInv /\ RoomsInv /\ MessagesInv
      /\ DOMAIN req' = Requests /\ req'[r] = q /\ (\A s \in Requests \ {r} : req'[s] = req[s] /\ GoesOn(s))
      /\ req[r].pc = "new" /\ q.pc = "open" /\ UNCHANGED <<db, links, texts, deleted, mixed, broken>>
      /\ rooms' = rooms \cup Founds(q) /\ Founds(q) \subseteq {r}
  BY ShapeIs, StartsIs DEF DeskInv, Starts, Plan, MeetingPlan
<1>1. RequestsInv'
  BY <1>0, QuietRequests DEF Starts
<1>2. FlushInv'
  <2>1. ASSUME NEW s \in Requests, req'[s].pc = "flushed"
        PROVE  /\ ~Clashes(s)'
               /\ \A t \in Requests \ {s} : req'[t].pc = "flushed" => req'[s].ins \cap req'[t].ins = {}
               /\ \A m \in req'[s].ends : m \notin rooms' \/ <<"room", m>> \in broken'
    <3>1. s # r /\ req'[s] = req[s]
      BY <1>0, <2>1
    <3>2. s \in Working
      BY <2>1, <3>1 DEF Working
    <3>3. \A m \in req[s].ends : m # r
      BY <1>0, <3>1, <3>2, Apart
    <3>4. /\ ~Clashes(s)
          /\ \A t \in Requests \ {s} : req[t].pc = "flushed" => req[s].ins \cap req[t].ins = {}
          /\ \A m \in req[s].ends : m \notin rooms \/ <<"room", m>> \in broken
      BY <1>0, <2>1, <3>1 DEF FlushInv
    <3>5. ~Clashes(s)'
      BY <1>0, <3>1, <3>4 DEF Clashes, Exists
    <3> QED
      BY <1>0, <3>1, <3>3, <3>4, <3>5
  <2> QED
    BY <2>1 DEF FlushInv
<1>3. RoomsInv'
  <2>1. \A s \in rooms' \cap Requests : req'[s].pc # "new"
    BY <1>0 DEF RoomsInv
  <2>2. \A s \in Requests : req'[s].pc \in {"open", "flushed"} => (s \in rooms' <=> s \in Founds(req'[s]))
    BY <1>0 DEF RoomsInv, Working
  <2>3. \A m : Joinable(m) <=> Joinable(m)'
    BY <1>0 DEF Joinable, Exists
  <2>4. \A m \in rooms' : Joinable(m)' \/ m \in Working' \/ <<"room", m>> \in broken'
    BY <1>0, <2>3 DEF RoomsInv, Working
  <2>5. \A m \in DOMAIN db'.status :
          Joinable(m)' => \/ m \in rooms' \/ <<"status", m>> \in mixed' \/ <<"room", m>> \in broken'
                          \/ \E s \in Requests : req'[s].pc = "flushed" /\ m \in req'[s].ends
    <3>1. \A s \in Requests : req[s].pc = "flushed" => req'[s] = req[s]
      BY <1>0
    <3> QED
      BY <1>0, <2>3, <3>1 DEF RoomsInv
  <2>6. \A s \in Working' : s \in rooms' <=> s \in Founds(req[s])'
    <3> TAKE s \in Working'
    <3> PICK p : p = req'[s]
      OBVIOUS
    <3>1. s \in rooms' <=> s \in Founds(p)
      BY <2>2 DEF Working
    <3> QED
      BY <3>1
  <2> QED
    BY <2>1, <2>4, <2>5, <2>6 DEF RoomsInv
<1>4. MessagesInv'
  <2>1. /\ \A l \in links' : req'[l[3]] = req[l[3]] /\ l[3] \in Requests
        /\ \A t \in texts' : req'[t[2]] = req[t[2]] /\ t[2] \in Requests
    BY <1>0 DEF MessagesInv
  <2>2. MessagesAreKept'
    BY <1>0, <2>1 DEF MessagesInv, MessagesAreKept, Over, Exists
  <2> QED
    BY <1>0, <2>1, <2>2 DEF MessagesInv
<1>5. \A m : Known(m) => Known(m)'
  BY <1>0, KnownStays
<1> QED
  BY <1>1, <1>2, <1>3, <1>4, <1>5

\* A request whose rows are inserted: they clash with none, and its room is ended
\* or that has failed.
LEMMA CallsKeeps ==
  ASSUME DeskInv, NEW r \in Requests, Calls(r)
  PROVE  RequestsInv' /\ FlushInv' /\ RoomsInv' /\ MessagesInv' /\ \A m : Known(m) => Known(m)'
<1> DEFINE q == req[r]
<1>0. /\ RequestsInv /\ RowsInv /\ FlushInv /\ RoomsInv /\ MessagesInv
      /\ DOMAIN req' = Requests /\ SameTask(q, req'[r]) /\ DOMAIN req'[r] = DOMAIN Fresh
      /\ req'[r].pc = "flushed" /\ req'[r].over = q.over
      /\ (\A s \in Requests \ {r} : req'[s] = req[s] /\ GoesOn(s))
      /\ q.pc = "open" /\ r \in Working /\ UNCHANGED <<db, deleted, mixed>>
  BY ShapeIs, CallsIs DEF DeskInv, Calls, Working
<1>a. Plan(r, q) /\ Reads(r, q) /\ \A m \in About(q) : Known(m)
  BY <1>0 DEF RequestsInv
<1>b. \A s \in Requests : req'[s].ins = req[s].ins /\ req'[s].ends = req[s].ends
  BY <1>0 DEF SameTask, GoesOn
<1>c. \A m : m \in rooms /\ m \notin rooms' => m \in q.ends
  BY DEF Calls
<1>d. rooms' \subseteq rooms /\ broken \subseteq broken'
  BY DEF Calls
<1>e. \A m \in q.ends : m \notin rooms' \/ <<"room", m>> \in broken'
  BY DEF Calls, Keys
<1>f. \A x : <<"sent", x>> \in broken' => <<"sent", x>> \in broken
  BY DEF Calls, Keys
<1>1. RequestsInv'
  <2>1. Plan(r, req'[r]) /\ Reads(r, req'[r]) /\ \A m \in About(req'[r]) : Known(m)
    BY <1>0, <1>a, SamePlan, QuietReads
  <2> QED
    BY <1>0, <2>1, QuietRequests
<1>2. FlushInv'
  <2>1. ASSUME NEW s \in Requests, req'[s].pc = "flushed"
        PROVE  /\ ~Clashes(s)'
               /\ \A t \in Requests \ {s} : req'[t].pc = "flushed" => req'[s].ins \cap req'[t].ins = {}
               /\ \A m \in req'[s].ends : m \notin rooms' \/ <<"room", m>> \in broken'
    <3>1. ~Clashes(s)
      BY <1>0, <2>1 DEF FlushInv, Calls
    <3>2. ~Clashes(s)'
      BY <1>0, <1>b, <3>1 DEF Clashes, Exists
    <3>3. \A t \in Requests \ {s} : req'[t].pc = "flushed" => req[s].ins \cap req[t].ins = {}
      <4>1. \A t \in Requests \ {r} : req[t].pc = "flushed" => q.ins \cap req[t].ins = {}
        BY DEF Calls, Waits
      <4> QED
        BY <1>0, <2>1, <4>1 DEF FlushInv
    <3>4. \A m \in req[s].ends : m \notin rooms' \/ <<"room", m>> \in broken'
      BY <1>0, <1>d, <1>e, <2>1 DEF FlushInv
    <3> QED
      BY <1>b, <3>2, <3>3, <3>4
  <2> QED
    BY <2>1 DEF FlushInv
<1>3. RoomsInv'
  <2>1. \A s \in rooms' \cap Requests : req'[s].pc # "new"
    BY <1>0, <1>d DEF RoomsInv
  <2>2. \A s \in Requests : req'[s].pc \in {"open", "flushed"} => (s \in rooms' <=> s \in Founds(req'[s]))
    <3>1. ASSUME NEW s \in Requests, req'[s].pc \in {"open", "flushed"} PROVE s \in rooms' <=> s \in Founds(req'[s])
      <4>1. s \in Working /\ Founds(req'[s]) = Founds(req[s])
        BY <1>0, <3>1, SamePlan DEF Working
      <4>2. s \notin q.ends
        <5>1. CASE s = r
          BY <1>0, <1>a, <5>1, DeskAssumption DEF Plan, MeetingPlan, About, Known
        <5>2. CASE s # r
          BY <1>0, <4>1, <5>2, Apart DEF Working
        <5> QED
          BY <5>1, <5>2
      <4> QED
        BY <1>0, <1>c, <1>d, <4>1, <4>2 DEF RoomsInv
    <3> QED
      BY <3>1
  <2>3. \A m : Joinable(m) <=> Joinable(m)'
    BY <1>0 DEF Joinable, Exists
  <2>4. \A m \in rooms' : Joinable(m)' \/ m \in Working' \/ <<"room", m>> \in broken'
    <3>1. \A m \in Working : m \in Working'
      BY <1>0 DEF Working
    <3> QED
      BY <1>0, <1>d, <2>3, <3>1 DEF RoomsInv
  <2>5. \A m \in DOMAIN db'.status :
          Joinable(m)' => \/ m \in rooms' \/ <<"status", m>> \in mixed' \/ <<"room", m>> \in broken'
                          \/ \E s \in Requests : req'[s].pc = "flushed" /\ m \in req'[s].ends
    <3>1. \A s \in Requests : req[s].pc = "flushed" => req'[s].pc = "flushed"
      BY <1>0
    <3>2. \A m : m \in rooms => m \in rooms' \/ \E s \in Requests : req'[s].pc = "flushed" /\ m \in req'[s].ends
      BY <1>0, <1>b, <1>c
    <3>3. \A m \in DOMAIN db.status :
            Joinable(m) => \/ m \in rooms \/ <<"status", m>> \in mixed \/ <<"room", m>> \in broken
                           \/ \E s \in Requests : req[s].pc = "flushed" /\ m \in req[s].ends
      BY <1>0 DEF RoomsInv
    <3> QED
      BY <1>0, <1>b, <1>d, <2>3, <3>1, <3>2, <3>3
  <2>6. \A s \in Working' : s \in rooms' <=> s \in Founds(req[s])'
    <3> TAKE s \in Working'
    <3> PICK p : p = req'[s]
      OBVIOUS
    <3>1. s \in rooms' <=> s \in Founds(p)
      BY <2>2 DEF Working
    <3> QED
      BY <3>1
  <2> QED
    BY <2>1, <2>4, <2>5, <2>6 DEF RoomsInv
<1>4. MessagesInv'
  <2>1. \A l \in links : l[3] # r /\ l[3] \in Requests /\ req'[l[3]] = req[l[3]]
    BY <1>0 DEF MessagesInv
  <2>2. \A l \in links' \ links : l[3] = r /\ <<l[1], l[2]>> \in q.sends
    BY <1>a DEF Calls, Plan, CallPlan
  <2>3. \A t \in texts : t[2] # r /\ t[2] \in Requests /\ req'[t[2]] = req[t[2]]
    BY <1>0 DEF MessagesInv
  <2>4. \A t \in texts' \ texts : t[2] = r /\ q.says # {}
    BY DEF Calls
  <2>5. req'[r].pc = "flushed" /\ req'[r].sends = q.sends /\ req'[r].says = q.says
    BY <1>0 DEF SameTask
  <2>6. \A l \in links' : /\ l[3] \in Requests /\ req'[l[3]].pc \in {"flushed", "done"}
                          /\ req'[l[3]].pc = "flushed" => <<l[1], l[2]>> \in req'[l[3]].sends
    BY <1>0, <2>1, <2>2, <2>5 DEF MessagesInv
  <2>7. \A t \in texts' : /\ t[2] \in Requests /\ req'[t[2]].pc \in {"flushed", "done"}
                          /\ req'[t[2]].pc = "flushed" => req'[t[2]].says # {}
    BY <1>0, <2>3, <2>4, <2>5 DEF MessagesInv
  <2>8. MessagesAreKept'
    <3>1. \A s \in Requests : Over(s)' => Over(s) /\ s # r
      BY <1>0, <1>d, <2>5 DEF Over
    <3>2. ASSUME NEW l \in links', Over(l[3])', l[1] \notin deleted'
          PROVE  <<l[1], l[2]>> \in DOMAIN db'.token /\ db'.token[<<l[1], l[2]>>] = l[3]
      <4>1. Over(l[3]) /\ l[3] # r
        BY <2>6, <3>1, <3>2
      <4>2. l \in links
        BY <2>2, <4>1
      <4> QED
        BY <1>0, <3>2, <4>1, <4>2 DEF MessagesInv, MessagesAreKept, Exists
    <3>3. ASSUME NEW t \in texts', Over(t[2])' PROVE t[2] \in DOMAIN db'.said
      <4>1. Over(t[2]) /\ t[2] # r
        BY <2>7, <3>1, <3>3
      <4>2. t \in texts
        BY <2>4, <4>1
      <4> QED
        BY <1>0, <4>1, <4>2 DEF MessagesInv, MessagesAreKept, Exists
    <3> QED
      BY <3>2, <3>3 DEF MessagesAreKept, Exists
  <2> QED
    BY <2>6, <2>7, <2>8 DEF MessagesInv
<1>5. \A m : Known(m) => Known(m)'
  BY <1>0, KnownStays
<1> QED
  BY <1>1, <1>2, <1>3, <1>4, <1>5

\* A request that founds a meeting is not refused: what it inserts is its own.
LEMMA NotRefused ==
  ASSUME RequestsInv, RowsInv, NEW r \in Working, r \in Founds(req[r])
  PROVE  ~Clashes(r) /\ ~Stale(r)
<1> DEFINE q == req[r]
<1>1. r \in Requests /\ MeetingPlan(r, q)
  BY DEF RequestsInv, Plan, Working
<1>2. r \notin DOMAIN db.status
  BY <1>1, DeskAssumption DEF RowsInv, Known, Working
<1>3. q.upd = {} /\ \A k \in q.ins : k[1] \in {"joined", "used"} /\ k[2][1] = r
  BY <1>1 DEF MeetingPlan
<1>4. \A s \in DOMAIN db.joined \cup DOMAIN db.used : s[1] # r
  BY <1>2 DEF RowsInv, Exists
<1>5. \A k \in q.ins : ~Exists(k[1], k[2]) /\ MeetingOf(k) = r
  BY <1>3, <1>4 DEF Exists, MeetingOf, Participant, Invite
<1> QED
  BY <1>3, <1>5 DEF Clashes, Stale

\* What r leaves undone, when it is over: no meeting of its own, nothing that it
\* has said, and no room that it has ended of a meeting that can be joined.
LeavesWell(r) ==
  /\ r \in rooms => <<"room", r>> \in broken'
  /\ req[r].pc = "flushed" => /\ req[r].sends \cup req[r].says = {} \/ <<"sent", r>> \in broken'
                              /\ \A m \in req[r].ends : ~Joinable(m) \/ <<"room", m>> \in broken'

LEMMA RefusedLeavesWell ==
  ASSUME RequestsInv, RowsInv, FlushInv, RoomsInv, NEW r \in Working, Refused(r)
  PROVE  LeavesWell(r)
<1>1. r \notin rooms
  BY NotRefused DEF Refused, RoomsInv
<1>2. ASSUME req[r].pc = "flushed"
      PROVE  req[r].sends \cup req[r].says = {} /\ \A m \in req[r].ends : ~Joinable(m)
  <2>1. CallPlan(r, req[r]) /\ ~Clashes(r)
    BY <1>2 DEF RequestsInv, Plan, FlushInv, Working
  <2>2. PICK k \in req[r].upd : ~Exists(k[1], k[2])
    BY <1>2, <2>1 DEF Refused, Stale
  <2>3. \A m \in req[r].ends : k = <<"status", m>>
    BY <2>1, <2>2 DEF CallPlan
  <2>4. req[r].sends \cup req[r].says = {}
    BY <2>1, <2>2 DEF CallPlan
  <2> QED
    BY <2>2, <2>3, <2>4 DEF Joinable
<1> QED
  BY <1>1, <1>2 DEF LeavesWell

LEMMA BreaksLeavesWell ==
  ASSUME NEW r, Breaks(r)
  PROVE  LeavesWell(r)
  BY DEF Breaks, LeavesWell, CalledFor, Keys

\* A request that is over without its rows.
LEMMA OverKeeps ==
  ASSUME DeskInv, NEW r \in Working, Refused(r) \/ Breaks(r)
  PROVE  RequestsInv' /\ FlushInv' /\ RoomsInv' /\ MessagesInv' /\ \A m : Known(m) => Known(m)'
<1> DEFINE q == req[r]
<1>a. r \in Requests /\ req' = [req EXCEPT ![r] = Done]
  BY DEF Refused, Breaks, Working
<1>0. /\ RequestsInv /\ RowsInv /\ FlushInv /\ RoomsInv /\ MessagesInv
      /\ DOMAIN req' = Requests /\ req'[r] = Done /\ req'[r].pc = "done"
      /\ DOMAIN Done = DOMAIN Fresh
      /\ (\A s \in Requests \ {r} : req'[s] = req[s] /\ GoesOn(s))
      /\ req[r].pc \in {"open", "flushed"} /\ UNCHANGED <<db, deleted, mixed, rooms, links, texts>>
      /\ broken \subseteq broken'
  BY <1>a, ShapeIs, EndIs DEF DeskInv, Refused, Breaks, Working, Done, Fresh, hist
<1>b. LeavesWell(r)
  BY <1>0, RefusedLeavesWell, BreaksLeavesWell
<1>1. RequestsInv'
  BY <1>0, <1>a, QuietRequests
<1>2. FlushInv'
  <2>1. ASSUME NEW s \in Requests, req'[s].pc = "flushed"
        PROVE  /\ ~Clashes(s)'
               /\ \A t \in Requests \ {s} : req'[t].pc = "flushed" => req'[s].ins \cap req'[t].ins = {}
               /\ \A m \in req'[s].ends : m \notin rooms' \/ <<"room", m>> \in broken'
    <3>1. s # r /\ req'[s] = req[s]
      BY <1>0, <2>1
    <3>2. ~Clashes(s)
      BY <1>0, <2>1, <3>1 DEF FlushInv
    <3>3. ~Clashes(s)'
      BY <1>0, <3>1, <3>2 DEF Clashes, Exists
    <3> QED
      BY <1>0, <2>1, <3>1, <3>3 DEF FlushInv
  <2> QED
    BY <2>1 DEF FlushInv
<1>3. RoomsInv'
  <2>1. \A s \in rooms' \cap Requests : req'[s].pc # "new"
    BY <1>0 DEF RoomsInv
  <2>2. \A s \in Requests : req'[s].pc \in {"open", "flushed"} => (s \in rooms' <=> s \in Founds(req'[s]))
    BY <1>0 DEF RoomsInv, Working
  <2>3. \A m : Joinable(m) <=> Joinable(m)'
    BY <1>0 DEF Joinable, Exists
  <2>4. \A m \in rooms' : Joinable(m)' \/ m \in Working' \/ <<"room", m>> \in broken'
    <3>1. \A m \in Working : m = r \/ m \in Working'
      BY <1>0 DEF Working
    <3>2. \A m \in rooms : Joinable(m) \/ m \in Working \/ <<"room", m>> \in broken
      BY <1>0 DEF RoomsInv
    <3> QED
      BY <1>0, <1>b, <2>3, <3>1, <3>2 DEF LeavesWell
  <2>5. \A m \in DOMAIN db'.status :
          Joinable(m)' => \/ m \in rooms' \/ <<"status", m>> \in mixed' \/ <<"room", m>> \in broken'
                          \/ \E s \in Requests : req'[s].pc = "flushed" /\ m \in req'[s].ends
    <3>1. \A s \in Requests : req[s].pc = "flushed" => s = r \/ req'[s] = req[s]
      BY <1>0
    <3>2. \A m \in DOMAIN db.status :
            Joinable(m) => \/ m \in rooms \/ <<"status", m>> \in mixed \/ <<"room", m>> \in broken
                           \/ \E s \in Requests : req[s].pc = "flushed" /\ m \in req[s].ends
      BY <1>0 DEF RoomsInv
    <3>3. req[r].pc = "flushed" => \A m \in q.ends : ~Joinable(m) \/ <<"room", m>> \in broken'
      BY <1>b DEF LeavesWell
    <3> QED
      BY <1>0, <2>3, <3>1, <3>2, <3>3
  <2>6. \A s \in Working' : s \in rooms' <=> s \in Founds(req[s])'
    <3> TAKE s \in Working'
    <3> PICK p : p = req'[s]
      OBVIOUS
    <3>1. s \in rooms' <=> s \in Founds(p)
      BY <2>2 DEF Working
    <3> QED
      BY <3>1
  <2> QED
    BY <2>1, <2>4, <2>5, <2>6 DEF RoomsInv
<1>4. MessagesInv'
  <2>1. \A l \in links : /\ l[3] \in Requests /\ req[l[3]].pc \in {"flushed", "done"}
                         /\ req[l[3]].pc = "flushed" => <<l[1], l[2]>> \in req[l[3]].sends
    BY <1>0 DEF MessagesInv
  <2>2. \A t \in texts : /\ t[2] \in Requests /\ req[t[2]].pc \in {"flushed", "done"}
                         /\ req[t[2]].pc = "flushed" => req[t[2]].says # {}
    BY <1>0 DEF MessagesInv
  <2>3. ASSUME NEW s \in Requests, Over(s)' PROVE Over(s) \/ s = r
    BY <1>0, <2>3 DEF Over
  <2>4. Over(r)' => (\A l \in links : l[3] # r) /\ (\A t \in texts : t[2] # r)
    BY <1>0, <1>b, <2>1, <2>2 DEF Over, LeavesWell
  <2>5. MessagesAreKept'
    <3>1. ASSUME NEW l \in links', Over(l[3])', l[1] \notin deleted'
          PROVE  <<l[1], l[2]>> \in DOMAIN db'.token /\ db'.token[<<l[1], l[2]>>] = l[3]
      <4>1. l \in links /\ Over(l[3])
        BY <1>0, <2>1, <2>3, <2>4, <3>1
      <4> QED
        BY <1>0, <3>1, <4>1 DEF MessagesInv, MessagesAreKept, Exists
    <3>2. ASSUME NEW t \in texts', Over(t[2])' PROVE t[2] \in DOMAIN db'.said
      <4>1. t \in texts /\ Over(t[2])
        BY <1>0, <2>2, <2>3, <2>4, <3>2
      <4> QED
        BY <1>0, <4>1 DEF MessagesInv, MessagesAreKept, Exists
    <3> QED
      BY <3>1, <3>2 DEF MessagesAreKept, Exists
  <2>6. /\ \A l \in links' : /\ l[3] \in Requests /\ req'[l[3]].pc \in {"flushed", "done"}
                             /\ req'[l[3]].pc = "flushed" => <<l[1], l[2]>> \in req'[l[3]].sends
        /\ \A t \in texts' : /\ t[2] \in Requests /\ req'[t[2]].pc \in {"flushed", "done"}
                             /\ req'[t[2]].pc = "flushed" => req'[t[2]].says # {}
    BY <1>0, <2>1, <2>2
  <2> QED
    BY <2>5, <2>6 DEF MessagesInv
<1>5. \A m : Known(m) => Known(m)'
  BY <1>0, <1>a, KnownStays
<1> QED
  BY <1>1, <1>2, <1>3, <1>4, <1>5

---------------------------------------------------------------------------
(* A request commits.                                                      *)

\* q is the request r as it is when it commits.
Commits(r, q) ==
  /\ RequestsInv /\ RowsInv /\ FlushInv /\ RoomsInv /\ LiveWhenJoined /\ OneConversation /\ MessagesInv
  /\ r \in Working /\ r \in Requests /\ r \notin Old \cup New /\ q = req[r] /\ q.pc = "flushed" /\ req'[r].pc = "done"
  /\ MeetingPlan(r, q) /\ GuestPlan(r, q) /\ CallPlan(r, q) /\ Reads(r, q)
  /\ (\A m \in About(q) : Known(m)) /\ ~Known(r) /\ r \notin DOMAIN db.status
  /\ (\A k \in q.ins : ~Exists(k[1], k[2]))
  /\ (\A k \in q.upd : Exists(k[1], k[2]))
  /\ (\A m \in q.cut : HeldBy(m) = {})
  /\ (q.cut = {} /\ Overwrites(q)) \/ (q.cut # {} /\ Deletes(q))
  /\ DOMAIN db' = Columns /\ deleted' = deleted \cup q.cut /\ mixed' = mixed \cup (q.once \cap q.over)
  /\ DOMAIN req' = Requests /\ DOMAIN req'[r] = DOMAIN Fresh
  /\ (\A s \in Requests \ {r} : GoesOn(s) /\ (s \in Working => req'[s].over = req[s].over \cup q.once))
  /\ (\A m : Known(m) => Known(m)') /\ Known(r)'
  /\ UNCHANGED <<rooms, links, texts, broken>>

LEMMA CommitContext ==
  ASSUME DeskInv, NEW r \in Requests, Commit(r)
  PROVE  Commits(r, req[r])
<1> DEFINE q == req[r]
<1>1. RequestsInv /\ RowsInv /\ FlushInv /\ RoomsInv /\ LiveWhenJoined /\ OneConversation /\ MessagesInv
  BY DEF DeskInv
<1>2. r \in Working /\ q.pc = "flushed" /\ r \notin Old \cup New
  BY DeskAssumption DEF Commit, Working
<1>3. MeetingPlan(r, q) /\ GuestPlan(r, q) /\ CallPlan(r, q) /\ Reads(r, q) /\ \A m \in About(q) : Known(m)
  BY <1>1, <1>2 DEF RequestsInv, Plan
<1>4. ~Known(r) /\ r \notin DOMAIN db.status
  BY <1>1, <1>2 DEF Known, RowsInv
<1>5. (\A k \in q.ins : ~Exists(k[1], k[2])) /\ (\A k \in q.upd : Exists(k[1], k[2]))
      /\ \A m \in q.cut : HeldBy(m) = {}
  BY DEF Commit, Clashes, Stale
<1>6. (q.cut = {} /\ Overwrites(q)) \/ (q.cut # {} /\ Deletes(q))
  BY <1>3, CommitRows, WroteIs, RemovedIs
<1>7. DOMAIN db' = Columns /\ deleted' = deleted \cup q.cut /\ mixed' = mixed \cup (q.once \cap q.over)
      /\ UNCHANGED <<rooms, links, texts, broken>>
  BY DEF Commit
<1>8. DOMAIN req' = Requests /\ req'[r].pc = "done" /\ DOMAIN req'[r] = DOMAIN Fresh
      /\ \A s \in Requests \ {r} : GoesOn(s) /\ (s \in Working => req'[s].over = req[s].over \cup q.once)
  BY <1>1, ShapeIs, CommitIs DEF Done, Fresh
<1>9. (\A m : Known(m) => Known(m)') /\ Known(r)'
  BY <1>2, <1>8, KnownStays DEF Known
<1> QED
  BY <1>1, <1>2, <1>3, <1>4, <1>5, <1>6, <1>7, <1>8, <1>9 DEF Commits

\* A meeting after the commit is as it was, or new, or ended or live for the
\* first time; where q had not found it so, another has written it meanwhile.
LEMMA MeetingsWritten ==
  ASSUME NEW r, NEW q, Commits(r, q), q.cut = {}
  PROVE  /\ DOMAIN db'.status = Founds(q) \cup DOMAIN db.status /\ Founds(q) \subseteq {r}
         /\ DOMAIN db'.kind = DOMAIN db'.status /\ DOMAIN db'.open = DOMAIN db'.status
         /\ DOMAIN db'.ended = Puts(q, "ended") \cup DOMAIN db.ended /\ DOMAIN db'.ended \subseteq DOMAIN db'.status
         /\ r \in Founds(q) => db'.status[r] = "scheduled" /\ r \notin DOMAIN db'.ended
         /\ \A m \in DOMAIN db.status :
              /\ m # r /\ db'.kind[m] = db.kind[m]
              /\ \/ m \notin Puts(q, "status") /\ db'.status[m] = db.status[m]
                 \/ m \in Puts(q, "status") /\ <<"status", m>> \in q.once /\ db'.status[m] = "completed" /\ m \in q.ends
                 \/ /\ m \in Puts(q, "status") /\ <<"status", m>> \in q.once /\ db'.status[m] = "live"
                    /\ db.status[m] = "scheduled" \/ <<"status", m>> \in mixed'
                    /\ \E s \in Puts(q, "joined") : s[1] = m /\ Put(q, "joined")[s]
              /\ m \in Puts(q, "ended") => db'.status[m] = "completed" \/ <<"status", m>> \in mixed'
<1>1. /\ Overlaid(db.status, db'.status, q, "status") /\ Overlaid(db.kind, db'.kind, q, "kind")
      /\ Overlaid(db.open, db'.open, q, "open") /\ Overlaid(db.ended, db'.ended, q, "ended")
  BY DEF Commits, Overwrites
<1>2. MeetingPlan(r, q) /\ Reads(r, q) /\ RowsInv /\ r \notin DOMAIN db.status
      /\ (\A k \in q.upd : Exists(k[1], k[2])) /\ mixed' = mixed \cup (q.once \cap q.over)
  BY DEF Commits
<1>3. Founds(q) \subseteq {r} /\ Founds(q) \subseteq Puts(q, "status") /\ Puts(q, "open") = Founds(q)
      /\ Founds(q) = Puts(q, "kind")
  BY <1>2 DEF MeetingPlan, Founds
<1>4. ASSUME NEW m \in Puts(q, "status") \ Founds(q) PROVE m \in DOMAIN db.status /\ <<"status", m>> \in q.once
  <2>1. <<"status", m>> \in q.upd \cap q.once
    BY <1>2 DEF MeetingPlan
  <2>2. Exists("status", m)
    BY <1>2, <2>1
  <2> QED
    BY <2>1, <2>2 DEF Exists
<1>5. ASSUME NEW m \in Puts(q, "ended") PROVE m \in DOMAIN db.status
  <2>1. <<"status", m>> \in q.upd
    BY <1>2 DEF MeetingPlan
  <2>2. Exists("status", m)
    BY <1>2, <2>1
  <2> QED
    BY <2>2 DEF Exists
<1>6. DOMAIN db'.status = Founds(q) \cup DOMAIN db.status
  BY <1>1, <1>3, <1>4 DEF Overlaid
<1>7. /\ DOMAIN db'.kind = DOMAIN db'.status /\ DOMAIN db'.open = DOMAIN db'.status
      /\ DOMAIN db'.ended = Puts(q, "ended") \cup DOMAIN db.ended /\ DOMAIN db'.ended \subseteq DOMAIN db'.status
  BY <1>1, <1>2, <1>3, <1>5, <1>6 DEF Overlaid, RowsInv
<1>8. ASSUME r \in Founds(q) PROVE db'.status[r] = "scheduled" /\ r \notin DOMAIN db'.ended
  <2>1. r \in Puts(q, "status") /\ Put(q, "status")[r] = "scheduled"
    BY <1>2, <1>3, <1>8 DEF MeetingPlan
  <2> QED
    BY <1>1, <1>2, <1>5, <2>1 DEF Overlaid, RowsInv
<1>9. ASSUME NEW m \in DOMAIN db.status
      PROVE  /\ m # r /\ db'.kind[m] = db.kind[m]
             /\ \/ m \notin Puts(q, "status") /\ db'.status[m] = db.status[m]
                \/ m \in Puts(q, "status") /\ <<"status", m>> \in q.once /\ db'.status[m] = "completed" /\ m \in q.ends
                \/ /\ m \in Puts(q, "status") /\ <<"status", m>> \in q.once /\ db'.status[m] = "live"
                   /\ db.status[m] = "scheduled" \/ <<"status", m>> \in mixed'
                   /\ \E s \in Puts(q, "joined") : s[1] = m /\ Put(q, "joined")[s]
             /\ m \in Puts(q, "ended") => db'.status[m] = "completed" \/ <<"status", m>> \in mixed'
  <2>1. m # r /\ m \notin Founds(q)
    BY <1>2, <1>3
  <2>2. db'.kind[m] = db.kind[m]
    BY <1>1, <1>2, <1>3, <2>1 DEF Overlaid, RowsInv
  <2>3. CASE m \notin Puts(q, "status")
    <3>1. db'.status[m] = db.status[m]
      BY <1>1, <2>3 DEF Overlaid
    <3>2. m \in Puts(q, "ended") => db.status[m] = "completed" \/ <<"status", m>> \in mixed
      BY <1>2, <2>3 DEF Reads, Exists
    <3> QED
      BY <1>2, <2>1, <2>2, <2>3, <3>1, <3>2
  <2>4. CASE m \in Puts(q, "status")
    <3>1. db'.status[m] = Put(q, "status")[m]
      BY <1>1, <2>4 DEF Overlaid
    <3>2. /\ \/ Put(q, "status")[m] = "completed" /\ m \in q.ends
             \/ Put(q, "status")[m] = "live" /\ \E s \in Puts(q, "joined") : s[1] = m /\ Put(q, "joined")[s]
          /\ <<"status", m>> \in q.once
          /\ m \in Puts(q, "ended") => Put(q, "status")[m] = "completed"
      BY <1>2, <2>1, <2>4 DEF MeetingPlan
    <3>3. Put(q, "status")[m] = "live" => db.status[m] = "scheduled" \/ <<"status", m>> \in q.over
      BY <1>2, <2>4 DEF Reads, Exists
    <3> QED
      BY <1>2, <2>1, <2>2, <2>4, <3>1, <3>2, <3>3
  <2> QED
    BY <2>3, <2>4
<1> QED
  BY <1>3, <1>6, <1>7, <1>8, <1>9

\* A participant after the commit is as before, or has now joined, or is new.
LEMMA ParticipantsWritten ==
  ASSUME NEW r, NEW q, Commits(r, q), q.cut = {}
  PROVE  /\ DOMAIN db'.joined = Puts(q, "joined") \cup DOMAIN db.joined
         /\ \A s \in Puts(q, "joined") :
              /\ s[1] = r => r \in Founds(q)
              /\ db'.joined[s] = Put(q, "joined")[s] /\ Put(q, "joined")[s] \in BOOLEAN
              /\ IF <<"joined", s>> \in q.ins
                   THEN s \notin DOMAIN db.joined
                   ELSE s \in DOMAIN db.joined /\ Put(q, "joined")[s]
         /\ \A s \in DOMAIN db.joined :
              /\ s[1] # r /\ (db.joined[s] => db'.joined[s])
              /\ s \notin Puts(q, "joined") => db'.joined[s] = db.joined[s]
<1>1. Overlaid(db.joined, db'.joined, q, "joined")
  BY DEF Commits, Overwrites
<1>2. /\ RowsInv /\ GuestPlan(r, q) /\ r \notin DOMAIN db.status /\ ~Known(r) /\ (\A m \in About(q) : Known(m))
      /\ (\A k \in q.ins : ~Exists(k[1], k[2])) /\ (\A k \in q.upd : Exists(k[1], k[2]))
  BY DEF Commits
<1>3. ASSUME NEW s \in Puts(q, "joined")
      PROVE  /\ s[1] = r => r \in Founds(q)
             /\ db'.joined[s] = Put(q, "joined")[s] /\ Put(q, "joined")[s] \in BOOLEAN
             /\ IF <<"joined", s>> \in q.ins
                  THEN s \notin DOMAIN db.joined
                  ELSE s \in DOMAIN db.joined /\ Put(q, "joined")[s]
  <2>1. s[1] = r => r \in Founds(q)
    BY <1>2 DEF About
  <2>2. db'.joined[s] = Put(q, "joined")[s]
    BY <1>1 DEF Overlaid
  <2>3. /\ Put(q, "joined")[s] \in BOOLEAN /\ <<"joined", s>> \in q.ins \cup q.upd
        /\ <<"joined", s>> \notin q.ins => Put(q, "joined")[s]
    BY <1>2 DEF GuestPlan
  <2>4. /\ <<"joined", s>> \in q.ins => ~Exists("joined", s)
        /\ <<"joined", s>> \in q.upd => Exists("joined", s)
    BY <1>2
  <2> QED
    BY <2>1, <2>2, <2>3, <2>4 DEF Exists
<1>4. \A s \in DOMAIN db.joined : s[1] # r /\ (s \notin Puts(q, "joined") => db'.joined[s] = db.joined[s])
  BY <1>1, <1>2 DEF Overlaid, RowsInv, Exists
<1>5. DOMAIN db'.joined = Puts(q, "joined") \cup DOMAIN db.joined
  BY <1>1 DEF Overlaid
<1> QED
  BY <1>3, <1>4, <1>5

\* What the other requests have read, and what r has committed.
LEMMA CommitRequests ==
  ASSUME NEW r, NEW q, Commits(r, q)
  PROVE  RequestsInv'
<1> DEFINE stays(s, p) ==
      /\ \A x \in Puts(p, "joined") :
           /\ <<"joined", x>> \in p.ins /\ x[1] \in DOMAIN db'.kind => ClientOrgOnly(db'.kind[x[1]], {x[2]})
           /\ Put(p, "joined")[x] /\ x[1] \in DOMAIN db'.status /\ x[1] \notin Puts(p, "status") =>
                db'.status[x[1]] # "scheduled"
      /\ \A m \in Puts(p, "status") :
           m \in DOMAIN db'.status /\ Put(p, "status")[m] = "live" /\ db'.status[m] # "scheduled"
             => <<"status", m>> \in p.over
      /\ \A m \in Puts(p, "ended") \ Puts(p, "status") :
           m \in DOMAIN db'.status => db'.status[m] = "completed" \/ <<"status", m>> \in mixed'
      /\ s \in Puts(p, "talk") =>
           (\A c \in DOMAIN db'.talk : db'.talk[c] # Put(p, "talk")[s]) \/ <<"talk", Put(p, "talk")[s]>> \in p.over
      /\ \A y \in Puts(p, "link") : y \in DOMAIN db'.link \/ <<"link", y>> \in p.ins
<1>0. /\ r \in Requests /\ RequestsInv /\ RowsInv /\ req'[r].pc = "done" /\ DOMAIN req' = Requests
      /\ DOMAIN req'[r] = DOMAIN Fresh /\ req[r].pc # "done" /\ mixed' = mixed \cup (q.once \cap q.over)
      /\ (\A s \in Requests \ {r} : GoesOn(s) /\ (s \in Working => req'[s].over = req[s].over \cup q.once))
      /\ (\A m : Known(m) => Known(m)')
      /\ (q.cut = {} /\ Overwrites(q)) \/ (q.cut # {} /\ Deletes(q))
  BY DEF Commits
<1>1. ASSUME NEW s \in Requests \ {r}, s \in Working
      PROVE  stays(s, req'[s])
  <2> DEFINE o == req[s]
             p == req'[s]
  <2>1. SameTask(o, p) /\ p.over = o.over \cup q.once /\ Reads(s, o)
    BY <1>0, <1>1 DEF GoesOn, RequestsInv
  <2>2. /\ \A m \in Puts(o, "status") \cup Puts(o, "ended") : m # r
        /\ \A x \in Puts(o, "joined") : x[1] # r
    BY <1>0, <1>1, Apart
  <2>3. /\ \A c : Put(p, c) = Put(o, c) /\ Puts(p, c) = Puts(o, c)
        /\ p.ins = o.ins
    BY <2>1, SamePlan DEF SameTask
  <2>4. CASE q.cut = {}
    <3>1. /\ \A m \in DOMAIN db'.status : m = r \/ m \in DOMAIN db.status
          /\ DOMAIN db'.kind = DOMAIN db'.status /\ DOMAIN db.kind = DOMAIN db.status
          /\ \A m \in DOMAIN db.status :
               /\ db'.kind[m] = db.kind[m]
               /\ \/ db'.status[m] = db.status[m]
                  \/ db'.status[m] \in {"completed", "live"} /\ <<"status", m>> \in q.once
               /\ db.status[m] = "completed" => db'.status[m] = "completed" \/ <<"status", m>> \in mixed'
      BY <2>4, <1>0, MeetingsWritten DEF RowsInv
    <3>2. Overlaid(db.talk, db'.talk, q, "talk") /\ Overlaid(db.link, db'.link, q, "link")
      BY <1>0, <2>4 DEF Overwrites
    <3>3. \A c \in Puts(q, "talk") : c = r /\ <<"talk", Put(q, "talk")[c]>> \in q.once
      BY DEF Commits, CallPlan
    <3>4. \A c \in DOMAIN db'.talk :
            (c \in DOMAIN db.talk /\ db'.talk[c] = db.talk[c]) \/ <<"talk", db'.talk[c]>> \in q.once
      BY <3>2, <3>3 DEF Overlaid
    <3> HIDE DEF o, p
    <3>5. ASSUME NEW x \in Puts(p, "joined")
          PROVE  /\ <<"joined", x>> \in p.ins /\ x[1] \in DOMAIN db'.kind => ClientOrgOnly(db'.kind[x[1]], {x[2]})
                 /\ Put(p, "joined")[x] /\ x[1] \in DOMAIN db'.status /\ x[1] \notin Puts(p, "status") =>
                      db'.status[x[1]] # "scheduled"
      <4>1. x[1] # r
        BY <2>2, <2>3
      <4>2. /\ <<"joined", x>> \in o.ins /\ x[1] \in DOMAIN db.kind => ClientOrgOnly(db.kind[x[1]], {x[2]})
            /\ Put(o, "joined")[x] /\ x[1] \in DOMAIN db.status /\ x[1] \notin Puts(o, "status") =>
                 db.status[x[1]] # "scheduled"
        BY <2>1, <2>3 DEF Reads, Exists
      <4> QED
        BY <2>3, <3>1, <4>1, <4>2
    <3>6. \A m \in Puts(p, "status") :
           m \in DOMAIN db'.status /\ Put(p, "status")[m] = "live" /\ db'.status[m] # "scheduled"
             => <<"status", m>> \in p.over
      BY <2>1, <2>2, <2>3, <3>1 DEF Reads, Exists
    <3>7. \A m \in Puts(p, "ended") \ Puts(p, "status") :
           m \in DOMAIN db'.status => db'.status[m] = "completed" \/ <<"status", m>> \in mixed'
      BY <1>0, <2>1, <2>2, <2>3, <3>1 DEF Reads, Exists
    <3>8. s \in Puts(p, "talk") =>
           (\A c \in DOMAIN db'.talk : db'.talk[c] # Put(p, "talk")[s]) \/ <<"talk", Put(p, "talk")[s]>> \in p.over
      BY <2>1, <2>3, <3>4 DEF Reads, Talks
    <3>9. \A y \in Puts(p, "link") : y \in DOMAIN db'.link \/ <<"link", y>> \in p.ins
      BY <2>1, <2>3, <3>2 DEF Reads, Exists, Overlaid
    <3>10. stays(s, p)
      BY <3>5, <3>6, <3>7, <3>8, <3>9
    <3> QED
      BY <3>10 DEF p
  <2>5. CASE q.cut # {}
    <3>1. /\ Without(db.status, db'.status, q.cut) /\ Without(db.kind, db'.kind, q.cut)
          /\ Without(db.talk, db'.talk, {}) /\ Without(db.link, db'.link, {})
      BY <1>0, <2>5 DEF Deletes
    <3>2. /\ \A m \in DOMAIN db'.status : m \in DOMAIN db.status /\ db'.status[m] = db.status[m]
          /\ \A m \in DOMAIN db'.kind : m \in DOMAIN db.kind /\ db'.kind[m] = db.kind[m]
          /\ \A c \in DOMAIN db'.talk : c \in DOMAIN db.talk /\ db'.talk[c] = db.talk[c]
          /\ \A y \in DOMAIN db.link : y \in DOMAIN db'.link
      BY <3>1 DEF Without
    <3> HIDE DEF o, p
    <3>3. stays(s, p)
      BY <1>0, <2>1, <2>3, <3>2 DEF Reads, Exists, Talks
    <3> QED
      BY <3>3 DEF p
  <2> QED
    BY <2>4, <2>5
<1>2. ASSUME NEW s \in Requests
      PROVE  /\ req'[s].pc \in {"new", "open", "flushed", "done"} /\ DOMAIN req'[s] = DOMAIN Fresh
             /\ req'[s].pc \in {"open", "flushed"} =>
                  s \in Requests \ {r} /\ s \in Working /\ Plan(s, req'[s]) /\ \A m \in About(req'[s]) : Known(m)'
  <2>1. CASE s = r
    BY <1>0, <2>1
  <2>2. CASE s # r
    <3>1. GoesOn(s) /\ (s \in Working <=> req[s].pc \in {"open", "flushed"})
      BY <1>0, <2>2 DEF Working
    <3>2. /\ req[s].pc \in {"new", "open", "flushed", "done"}
          /\ s \in Working => Plan(s, req[s]) /\ \A m \in About(req[s]) : Known(m)
      BY <1>0 DEF RequestsInv
    <3> QED
      BY <1>0, <2>2, <3>1, <3>2, SamePlan DEF GoesOn
  <2> QED
    BY <2>1, <2>2
<1>3. ASSUME NEW s \in Requests, req'[s].pc \in {"open", "flushed"}
      PROVE  Plan(s, req[s])' /\ Reads(s, req[s])' /\ \A m \in About(req[s])' : Known(m)'
  <2> PICK p : p = req'[s]
    OBVIOUS
  <2>1. stays(s, p) /\ Plan(s, p) /\ \A m \in About(p) : Known(m)'
    BY <1>1, <1>2, <1>3
  <2>2. Reads(s, p)'
    BY <2>1 DEF Reads, Exists, Talks
  <2> QED
    BY <2>1, <2>2
<1> QED
  BY <1>0, <1>2, <1>3 DEF RequestsInv, Working

LEMMA CommitRowsInv ==
  ASSUME NEW r, NEW q, Commits(r, q)
  PROVE  RowsInv'
<1>0. /\ RowsInv /\ DOMAIN db' = Columns /\ (\A m : Known(m) => Known(m)') /\ Known(r)'
      /\ (\A k \in q.ins : ~Exists(k[1], k[2])) /\ (\A k \in q.upd : Exists(k[1], k[2]))
      /\ MeetingPlan(r, q) /\ GuestPlan(r, q) /\ CallPlan(r, q) /\ Reads(r, q) /\ r \notin DOMAIN db.status
  BY DEF Commits
<1>1. CASE q.cut = {}
  <2> DEFINE joined == Puts(q, "joined")
             used == Puts(q, "used")
             token == Puts(q, "token")
  <2>1. /\ Overlaid(db.used, db'.used, q, "used") /\ Overlaid(db.token, db'.token, q, "token")
        /\ Overlaid(db.kind, db'.kind, q, "kind")
    BY <1>1 DEF Commits, Overwrites
  <2>2. /\ DOMAIN db'.status = Founds(q) \cup DOMAIN db.status /\ Founds(q) \subseteq {r}
        /\ DOMAIN db'.kind = DOMAIN db'.status /\ DOMAIN db'.open = DOMAIN db'.status
        /\ DOMAIN db'.ended \subseteq DOMAIN db'.status
        /\ \A m \in DOMAIN db.status : m # r /\ db'.kind[m] = db.kind[m]
    <3>1. \A m \in DOMAIN db.status : m # r
      BY DEF Commits
    <3>2. \A m \in DOMAIN db.status : db'.kind[m] = db.kind[m]
      BY <1>1, MeetingsWritten
    <3> QED
      BY <1>1, <3>1, <3>2, MeetingsWritten
  <2>3. /\ DOMAIN db'.joined = joined \cup DOMAIN db.joined
        /\ \A s \in joined :
             /\ s[1] = r => r \in Founds(q)
             /\ db'.joined[s] = Put(q, "joined")[s] /\ Put(q, "joined")[s] \in BOOLEAN
             /\ IF <<"joined", s>> \in q.ins
                  THEN s \notin DOMAIN db.joined
                  ELSE s \in DOMAIN db.joined /\ Put(q, "joined")[s]
        /\ \A s \in DOMAIN db.joined :
             /\ s[1] # r /\ (db.joined[s] => db'.joined[s])
             /\ s \notin joined => db'.joined[s] = db.joined[s]
    BY <1>1, ParticipantsWritten
  <2>4. /\ token \subseteq used /\ used \subseteq joined
        /\ \A s \in joined : <<"joined", s>> \in q.ins => (s \in used <=> s[2] \in Linkable)
        /\ \A s \in used : Put(q, "used")[s] => Put(q, "joined")[s]
    BY <1>0 DEF GuestPlan
  <2>5. /\ DOMAIN db.token = DOMAIN db.used /\ DOMAIN db.used = {s \in DOMAIN db.joined : s[2] \in Linkable}
        /\ \A s \in DOMAIN db.joined :
             s[1] \in DOMAIN db.status /\ db.joined[s] \in BOOLEAN /\ ClientOrgOnly(db.kind[s[1]], {s[2]})
        /\ \A s \in DOMAIN db.used : db.used[s] => db.joined[s]
    BY <1>0 DEF RowsInv, Exists
  <2>6. \A s \in used : IF s \in token THEN <<"joined", s>> \in q.ins ELSE s \in DOMAIN db.used
    <3> TAKE s \in used
    <3>1. IF s \in token THEN <<"joined", s>> \in q.ins ELSE <<"used", s>> \in q.upd
      BY <1>0 DEF GuestPlan
    <3>2. <<"used", s>> \in q.upd => Exists("used", s)
      BY <1>0
    <3> QED
      BY <3>1, <3>2 DEF Exists
  <2>7. DOMAIN db'.token = DOMAIN db'.used
    BY <2>1, <2>4, <2>5, <2>6 DEF Overlaid
  <2>8. DOMAIN db'.used = {s \in DOMAIN db'.joined : s[2] \in Linkable}
    <3>1. DOMAIN db'.used = used \cup DOMAIN db.used
      BY <2>1 DEF Overlaid
    <3>2. \A s \in used : s \in joined /\ s[2] \in Linkable
      BY <2>4, <2>5, <2>6
    <3>3. \A s \in joined : s[2] \in Linkable => s \in used \cup DOMAIN db.used
      BY <2>3, <2>4, <2>5
    <3> QED
      BY <2>3, <2>5, <3>1, <3>2, <3>3
  <2>9. ASSUME NEW s \in DOMAIN db'.joined
        PROVE  s[1] \in DOMAIN db'.status /\ db'.joined[s] \in BOOLEAN /\ ClientOrgOnly(db'.kind[s[1]], {s[2]})
    <3>1. CASE s \in DOMAIN db.joined
      <4>1. s[1] \in DOMAIN db.status /\ ClientOrgOnly(db.kind[s[1]], {s[2]}) /\ db.joined[s] \in BOOLEAN
        BY <2>5, <3>1
      <4>2. db'.joined[s] \in BOOLEAN
        BY <2>3, <3>1, <4>1
      <4> QED
        BY <2>2, <4>1, <4>2
    <3>2. CASE s \in joined /\ s \notin DOMAIN db.joined
      <4>1. <<"joined", s>> \in q.ins /\ db'.joined[s] \in BOOLEAN
        BY <2>3, <3>2
      <4>2. CASE s[1] = r
        <5>1. r \in Founds(q)
          BY <2>3, <3>2, <4>2
        <5>2. ClientOrgOnly(Put(q, "kind")[r], {s[2]})
          BY <1>0, <3>2, <5>1 DEF MeetingPlan
        <5>3. db'.kind[r] = Put(q, "kind")[r]
          BY <2>1, <5>1 DEF Overlaid, Founds
        <5> QED
          BY <2>2, <4>1, <4>2, <5>1, <5>2, <5>3
      <4>3. CASE s[1] # r
        <5>1. s[1] \in DOMAIN db.status
          <6>1. Known(s[1])
            BY <2>2, <3>2, <4>3 DEF Commits, About
          <6>2. ~Clashes(r) /\ q = req[r]
            BY DEF Commits, FlushInv
          <6>3. MeetingOf(<<"joined", s>>) = s[1]
            BY DEF MeetingOf, Participant
          <6>4. Exists("status", MeetingOf(<<"joined", s>>))
            BY <4>1, <4>3, <6>2, <6>3 DEF Clashes
          <6> QED
            BY <6>3, <6>4 DEF Exists
        <5>2. ClientOrgOnly(db.kind[s[1]], {s[2]})
          BY <1>0, <3>2, <4>1, <5>1 DEF Reads, RowsInv, Exists
        <5> QED
          BY <2>2, <4>1, <5>1, <5>2
      <4> QED
        BY <4>2, <4>3
    <3> QED
      BY <2>3, <3>1, <3>2
  <2>10. ASSUME NEW s \in DOMAIN db'.used, db'.used[s] PROVE db'.joined[s]
    <3>1. CASE s \in used
      <4>1. db'.used[s] = Put(q, "used")[s]
        BY <2>1, <3>1 DEF Overlaid
      <4> QED
        BY <2>3, <2>4, <2>10, <3>1, <4>1
    <3>2. CASE s \notin used
      <4>1. s \in DOMAIN db.used /\ db'.used[s] = db.used[s]
        BY <2>1, <3>2 DEF Overlaid
      <4> QED
        BY <2>3, <2>5, <2>10, <4>1
    <3> QED
      BY <3>1, <3>2
  <2>11. \A m \in DOMAIN db'.status : Known(m)'
    BY <1>0, <2>2 DEF RowsInv
  <2> QED
    BY <1>0, <2>2, <2>7, <2>8, <2>9, <2>10, <2>11 DEF RowsInv, Exists
<1>2. CASE q.cut # {}
  <2>1. /\ Without(db.status, db'.status, q.cut) /\ Without(db.kind, db'.kind, q.cut)
        /\ Without(db.open, db'.open, q.cut) /\ Without(db.ended, db'.ended, q.cut)
        /\ WithoutOf(db.joined, db'.joined, q.cut) /\ WithoutOf(db.used, db'.used, q.cut)
        /\ WithoutOf(db.token, db'.token, q.cut)
    BY <1>2 DEF Commits, Deletes
  <2>2. DOMAIN db'.open = DOMAIN db'.status /\ DOMAIN db'.kind = DOMAIN db'.status
        /\ DOMAIN db'.ended \subseteq DOMAIN db'.status /\ \A m \in DOMAIN db'.status : Known(m)'
    BY <1>0, <2>1 DEF RowsInv, Without
  <2>3. DOMAIN db'.token = DOMAIN db'.used /\ DOMAIN db'.used = {s \in DOMAIN db'.joined : s[2] \in Linkable}
    BY <1>0, <2>1 DEF RowsInv, WithoutOf
  <2>4. \A s \in DOMAIN db'.joined :
          s[1] \in DOMAIN db'.status /\ db'.joined[s] \in BOOLEAN /\ ClientOrgOnly(db'.kind[s[1]], {s[2]})
    BY <1>0, <2>1 DEF RowsInv, WithoutOf, Without, Exists
  <2>5. \A s \in DOMAIN db'.used : db'.used[s] => db'.joined[s]
    <3>1. \A s \in DOMAIN db'.used : s \in DOMAIN db.used /\ s \in DOMAIN db'.joined /\ db'.used[s] = db.used[s]
      BY <2>1, <2>3 DEF WithoutOf
    <3>2. \A s \in DOMAIN db'.joined : db'.joined[s] = db.joined[s]
      BY <2>1 DEF WithoutOf
    <3> QED
      BY <1>0, <3>1, <3>2 DEF RowsInv
  <2> QED
    BY <1>0, <2>2, <2>3, <2>4, <2>5 DEF RowsInv, Exists
<1> QED
  BY <1>1, <1>2

LEMMA CommitFlush ==
  ASSUME NEW r, NEW q, Commits(r, q)
  PROVE  FlushInv'
<1>0. /\ FlushInv /\ RequestsInv /\ r \in Requests /\ q = req[r] /\ q.pc = "flushed" /\ req'[r].pc = "done"
      /\ (\A s \in Requests \ {r} : GoesOn(s)) /\ UNCHANGED <<rooms, broken>>
      /\ GuestPlan(r, q) /\ Reads(r, q) /\ CallPlan(r, q)
      /\ (\A k \in q.upd : Exists(k[1], k[2]))
  BY DEF Commits
<1>1. \A s \in Requests : req'[s].pc = "flushed" => s # r /\ req[s].pc = "flushed"
  BY <1>0 DEF GoesOn
<1>2. \A s \in Requests \ {r} : req'[s].ins = req[s].ins /\ req'[s].ends = req[s].ends
  BY <1>0 DEF GoesOn, SameTask
<1>3. ASSUME NEW s \in Requests, req'[s].pc = "flushed"
      PROVE  \A k \in req[s].ins :
               /\ k[2] \notin DOMAIN db'[k[1]]
               /\ k[1] = "joined" => MeetingOf(k) \in DOMAIN db'.status \/ s = MeetingOf(k)
  <2>1. s # r /\ req[s].pc = "flushed" /\ ~Clashes(s) /\ q.ins \cap req[s].ins = {} /\ CallPlan(s, req[s])
    BY <1>0, <1>1, <1>3 DEF FlushInv, RequestsInv, Plan, Working
  <2>2. ASSUME NEW k \in req[s].ins
        PROVE  /\ k = <<k[1], k[2]>> /\ k[1] \in {"joined", "used", "link"} /\ k \notin q.ins
               /\ k[2] \notin DOMAIN db[k[1]]
               /\ k[1] = "joined" => MeetingOf(k) \in DOMAIN db.status \/ s = MeetingOf(k)
    BY <2>1 DEF CallPlan, Clashes, Exists
  <2>3. CASE q.cut = {}
    <3>1. /\ Overlaid(db.status, db'.status, q, "status") /\ Overlaid(db.joined, db'.joined, q, "joined")
          /\ Overlaid(db.used, db'.used, q, "used") /\ Overlaid(db.link, db'.link, q, "link")
      BY <2>3 DEF Commits, Overwrites
    <3>2. \A s2 \in Puts(q, "joined") : <<"joined", s2>> \in q.ins \/ s2 \in DOMAIN db.joined
      <4> TAKE s2 \in Puts(q, "joined")
      <4>1. <<"joined", s2>> \in q.ins \cup q.upd
        BY <1>0 DEF GuestPlan
      <4>2. <<"joined", s2>> \in q.upd => Exists("joined", s2)
        BY <1>0
      <4> QED
        BY <4>1, <4>2 DEF Exists
    <3>3. \A s2 \in Puts(q, "used") : <<"used", s2>> \in q.ins \/ s2 \in DOMAIN db.used
      <4> TAKE s2 \in Puts(q, "used")
      <4>1. <<"used", s2>> \in q.ins \cup q.upd
        BY <1>0 DEF GuestPlan
      <4>2. <<"used", s2>> \in q.upd => Exists("used", s2)
        BY <1>0
      <4> QED
        BY <4>1, <4>2 DEF Exists
    <3>4. \A y \in Puts(q, "link") : <<"link", y>> \in q.ins \/ y \in DOMAIN db.link
      BY <1>0 DEF Reads, Exists
    <3>5. ASSUME NEW k \in req[s].ins PROVE k[2] \notin DOMAIN db'[k[1]]
      <4>1. CASE k[1] = "joined"
        BY <2>2, <3>1, <3>2, <4>1 DEF Overlaid
      <4>2. CASE k[1] = "used"
        BY <2>2, <3>1, <3>3, <4>2 DEF Overlaid
      <4>3. CASE k[1] = "link"
        BY <2>2, <3>1, <3>4, <4>3 DEF Overlaid
      <4> QED
        BY <2>2, <4>1, <4>2, <4>3
    <3>6. DOMAIN db.status \subseteq DOMAIN db'.status
      BY <3>1 DEF Overlaid
    <3> QED
      BY <2>2, <3>5, <3>6
  <2>4. CASE q.cut # {}
    <3>1. /\ Without(db.status, db'.status, q.cut) /\ WithoutOf(db.joined, db'.joined, q.cut)
          /\ WithoutOf(db.used, db'.used, q.cut) /\ Without(db.link, db'.link, {})
      BY <2>4 DEF Commits, Deletes
    <3>2. ASSUME NEW k \in req[s].ins PROVE k[2] \notin DOMAIN db'[k[1]]
      <4>1. CASE k[1] = "joined"
        BY <2>2, <3>1, <4>1 DEF WithoutOf
      <4>2. CASE k[1] = "used"
        BY <2>2, <3>1, <4>2 DEF WithoutOf
      <4>3. CASE k[1] = "link"
        BY <2>2, <3>1, <4>3 DEF Without
      <4> QED
        BY <2>2, <4>1, <4>2, <4>3
    <3>3. ASSUME NEW k \in req[s].ins PROVE MeetingOf(k) \notin q.cut
      BY <1>0, <2>1, <3>3 DEF Commits, HeldBy
    <3> QED
      BY <2>2, <3>1, <3>2, <3>3 DEF Without
  <2> QED
    BY <2>3, <2>4
<1>4. ASSUME NEW s \in Requests, req'[s].pc = "flushed"
      PROVE  /\ ~Clashes(s)'
             /\ \A t \in Requests \ {s} : req'[t].pc = "flushed" => req'[s].ins \cap req'[t].ins = {}
             /\ \A m \in req'[s].ends : m \notin rooms' \/ <<"room", m>> \in broken'
  <2>1. ~Clashes(s)'
    BY <1>1, <1>2, <1>3, <1>4 DEF Clashes, Exists
  <2> QED
    BY <1>0, <1>1, <1>2, <1>4, <2>1 DEF FlushInv
<1> QED
  BY <1>4 DEF FlushInv

LEMMA CommitLive ==
  ASSUME NEW r, NEW q, Commits(r, q)
  PROVE  LiveWhenJoined'
<1>0. /\ RowsInv /\ LiveWhenJoined /\ MeetingPlan(r, q) /\ Reads(r, q)
      /\ r \notin DOMAIN db.status /\ mixed' = mixed \cup (q.once \cap q.over)
  BY DEF Commits
<1>1. ASSUME q.cut = {}, NEW m \in DOMAIN db'.status
      PROVE  /\ db'.status[m] = "scheduled" => \A s \in DOMAIN db'.joined : s[1] = m => ~db'.joined[s]
             /\ db'.status[m] = "live" => \E s \in DOMAIN db'.joined : s[1] = m /\ db'.joined[s]
             /\ m \in DOMAIN db'.ended /\ <<"status", m>> \notin mixed' => db'.status[m] = "completed"
  <2>1. /\ DOMAIN db'.status = Founds(q) \cup DOMAIN db.status /\ Founds(q) \subseteq {r}
        /\ DOMAIN db'.ended = Puts(q, "ended") \cup DOMAIN db.ended
        /\ r \in Founds(q) => db'.status[r] = "scheduled" /\ r \notin DOMAIN db'.ended
    BY <1>1, MeetingsWritten
  <2>2. /\ DOMAIN db'.joined = Puts(q, "joined") \cup DOMAIN db.joined
        /\ \A s \in Puts(q, "joined") :
             /\ db'.joined[s] = Put(q, "joined")[s]
             /\ Put(q, "joined")[s] \in BOOLEAN
        /\ \A s \in DOMAIN db.joined :
             /\ s[1] # r /\ (db.joined[s] => db'.joined[s])
             /\ s \notin Puts(q, "joined") => db'.joined[s] = db.joined[s]
    BY <1>1, ParticipantsWritten
  <2>3. CASE m = r
    <3>1. r \in Founds(q)
      BY <1>0, <1>1, <2>1, <2>3
    <3>2. \A s \in Puts(q, "joined") : ~Put(q, "joined")[s]
      BY <1>0, <3>1 DEF MeetingPlan
    <3>3. \A s \in DOMAIN db'.joined : s[1] = r => ~db'.joined[s]
      BY <2>2, <3>2
    <3> QED
      BY <2>1, <2>3, <3>1, <3>3
  <2>4. CASE m # r
    <3>1. m \in DOMAIN db.status
      BY <1>1, <2>1, <2>4
    <3>2. \/ m \notin Puts(q, "status") /\ db'.status[m] = db.status[m]
          \/ db'.status[m] = "completed"
          \/ /\ db'.status[m] = "live"
             /\ db.status[m] = "scheduled" \/ <<"status", m>> \in mixed'
             /\ \E s \in Puts(q, "joined") : s[1] = m /\ Put(q, "joined")[s]
      BY <1>1, <3>1, MeetingsWritten
    <3>3. m \in Puts(q, "ended") => db'.status[m] = "completed" \/ <<"status", m>> \in mixed'
      BY <1>1, <3>1, MeetingsWritten
    <3>4. /\ db.status[m] = "scheduled" => \A s \in DOMAIN db.joined : s[1] = m => ~db.joined[s]
          /\ db.status[m] = "live" => \E s \in DOMAIN db.joined : s[1] = m /\ db.joined[s]
          /\ m \in DOMAIN db.ended /\ <<"status", m>> \notin mixed => db.status[m] = "completed"
      BY <1>0, <3>1 DEF LiveWhenJoined, Exists
    <3>5. ASSUME db'.status[m] = "scheduled", NEW s \in DOMAIN db'.joined, s[1] = m PROVE ~db'.joined[s]
      <4>1. m \notin Puts(q, "status") /\ db.status[m] = "scheduled"
        BY <3>2, <3>5
      <4>2. s \in Puts(q, "joined") => ~Put(q, "joined")[s]
        BY <1>0, <3>1, <3>5, <4>1 DEF Reads, Exists
      <4> QED
        BY <2>2, <3>4, <3>5, <4>1, <4>2
    <3>6. ASSUME db'.status[m] = "live" PROVE \E s \in DOMAIN db'.joined : s[1] = m /\ db'.joined[s]
      <4>1. CASE db.status[m] = "live"
        <5>1. PICK s \in DOMAIN db.joined : s[1] = m /\ db.joined[s]
          BY <3>4, <4>1
        <5> QED
          BY <2>2, <5>1
      <4>2. CASE \E s \in Puts(q, "joined") : s[1] = m /\ Put(q, "joined")[s]
        BY <2>2, <4>2
      <4> QED
        BY <3>2, <3>6, <4>1, <4>2
    <3>7. ASSUME m \in DOMAIN db'.ended, <<"status", m>> \notin mixed' PROVE db'.status[m] = "completed"
      <4>1. CASE m \in Puts(q, "ended")
        BY <3>3, <3>7, <4>1
      <4>2. CASE m \in DOMAIN db.ended
        <5>1. db.status[m] = "completed"
          BY <1>0, <3>4, <3>7, <4>2
        <5> QED
          BY <3>2, <3>7, <5>1
      <4> QED
        BY <2>1, <3>7, <4>1, <4>2
    <3> QED
      BY <3>5, <3>6, <3>7
  <2> QED
    BY <2>3, <2>4
<1>2. ASSUME q.cut # {}, NEW m \in DOMAIN db'.status
      PROVE  /\ db'.status[m] = "scheduled" => \A s \in DOMAIN db'.joined : s[1] = m => ~db'.joined[s]
             /\ db'.status[m] = "live" => \E s \in DOMAIN db'.joined : s[1] = m /\ db'.joined[s]
             /\ m \in DOMAIN db'.ended /\ <<"status", m>> \notin mixed' => db'.status[m] = "completed"
  <2>1. /\ Without(db.status, db'.status, q.cut) /\ Without(db.ended, db'.ended, q.cut)
        /\ WithoutOf(db.joined, db'.joined, q.cut)
    BY <1>2 DEF Commits, Deletes
  <2>2. m \in DOMAIN db.status /\ m \notin q.cut /\ db'.status[m] = db.status[m]
        /\ (m \in DOMAIN db'.ended => m \in DOMAIN db.ended)
    BY <1>2, <2>1 DEF Without
  <2>3. /\ \A s \in DOMAIN db'.joined : s \in DOMAIN db.joined /\ db'.joined[s] = db.joined[s]
        /\ \A s \in DOMAIN db.joined : s[1] = m => s \in DOMAIN db'.joined
    BY <2>1, <2>2 DEF WithoutOf
  <2>4. /\ db.status[m] = "scheduled" => \A s \in DOMAIN db.joined : s[1] = m => ~db.joined[s]
        /\ db.status[m] = "live" => \E s \in DOMAIN db.joined : s[1] = m /\ db.joined[s]
        /\ m \in DOMAIN db.ended /\ <<"status", m>> \notin mixed => db.status[m] = "completed"
    BY <1>0, <2>2 DEF LiveWhenJoined, Exists
  <2> QED
    BY <1>0, <2>2, <2>3, <2>4
<1> QED
  BY <1>1, <1>2 DEF LiveWhenJoined, Exists

LEMMA CommitOne ==
  ASSUME NEW r, NEW q, Commits(r, q)
  PROVE  OneConversation'
<1>0. OneConversation /\ CallPlan(r, q) /\ Reads(r, q) /\ mixed' = mixed \cup (q.once \cap q.over)
  BY DEF Commits
<1>1. \A c \in DOMAIN db'.talk :
        \/ c \in DOMAIN db.talk \ Puts(q, "talk") /\ db'.talk[c] = db.talk[c]
        \/ c = r /\ r \in Puts(q, "talk") /\ db'.talk[c] = Put(q, "talk")[r]
  <2>1. CASE q.cut = {}
    <3>1. Overlaid(db.talk, db'.talk, q, "talk")
      BY <2>1 DEF Commits, Overwrites
    <3> QED
      BY <1>0, <3>1 DEF Overlaid, CallPlan
  <2>2. CASE q.cut # {}
    <3>1. Without(db.talk, db'.talk, {}) /\ Puts(q, "talk") = {}
      BY <1>0, <2>2 DEF Commits, Deletes, CallPlan, Columns, Conversation
    <3> QED
      BY <3>1 DEF Without
  <2> QED
    BY <2>1, <2>2 DEF Commits
<1>2. r \in Puts(q, "talk") =>
        /\ <<"talk", Put(q, "talk")[r]>> \in q.once
        /\ (\A c \in DOMAIN db.talk : db.talk[c] # Put(q, "talk")[r]) \/ <<"talk", Put(q, "talk")[r]>> \in q.over
  BY <1>0 DEF CallPlan, Reads, Talks
<1> QED
  BY <1>0, <1>1, <1>2 DEF OneConversation

LEMMA CommitMessages ==
  ASSUME NEW r, NEW q, Commits(r, q)
  PROVE  MessagesInv'
<1>0. /\ MessagesInv /\ RowsInv /\ r \in Requests /\ q = req[r] /\ q.pc = "flushed" /\ req'[r].pc = "done"
      /\ (\A s \in Requests \ {r} : GoesOn(s)) /\ UNCHANGED <<links, texts, broken>>
      /\ GuestPlan(r, q) /\ CallPlan(r, q) /\ deleted' = deleted \cup q.cut
      /\ (\A k \in q.ins : ~Exists(k[1], k[2]))
  BY DEF Commits
<1>1. \A l \in links : /\ l[3] \in Requests /\ req[l[3]].pc \in {"flushed", "done"}
                       /\ req[l[3]].pc = "flushed" => <<l[1], l[2]>> \in req[l[3]].sends
  BY <1>0 DEF MessagesInv
<1>2. \A t \in texts : /\ t[2] \in Requests /\ req[t[2]].pc \in {"flushed", "done"}
                       /\ req[t[2]].pc = "flushed" => req[t[2]].says # {}
  BY <1>0 DEF MessagesInv
<1>3. \A s \in Requests \ {r} : /\ req'[s].pc = req[s].pc /\ req'[s].sends = req[s].sends /\ req'[s].says = req[s].says
                                /\ Over(s)' => Over(s)
  BY <1>0 DEF GoesOn, SameTask, Over
<1>4. \A x \in DOMAIN db.token :
        x[1] \in q.cut \/ (x \in DOMAIN db'.token /\ db'.token[x] = db.token[x])
  <2>1. CASE q.cut = {}
    <3>1. Overlaid(db.token, db'.token, q, "token")
      BY <2>1 DEF Commits, Overwrites
    <3>2. \A x \in Puts(q, "token") : x \notin DOMAIN db.token
      <4> TAKE x \in Puts(q, "token")
      <4>1. <<"used", x>> \in q.ins
        BY <1>0 DEF GuestPlan
      <4>2. ~Exists("used", x)
        BY <1>0, <4>1
      <4> QED
        BY <1>0, <4>2 DEF RowsInv, Exists
    <3> QED
      BY <3>1, <3>2 DEF Overlaid
  <2>2. CASE q.cut # {}
    <3>1. WithoutOf(db.token, db'.token, q.cut)
      BY <2>2 DEF Commits, Deletes
    <3> QED
      BY <3>1 DEF WithoutOf
  <2> QED
    BY <2>1, <2>2
<1>5. DOMAIN db.said \subseteq DOMAIN db'.said
  BY DEF Commits, Overwrites, Deletes, Overlaid, Without
<1>6. ASSUME NEW x \in q.sends PROVE x \in DOMAIN db'.token /\ db'.token[x] = r
  <2>1. x \in Puts(q, "token") /\ Put(q, "token")[x] = r
    BY <1>0, <1>6 DEF CallPlan
  <2>2. q.cut = {}
    BY <1>0, <2>1 DEF CallPlan, Columns, Invite
  <2>3. Overlaid(db.token, db'.token, q, "token")
    BY <2>2 DEF Commits, Overwrites
  <2> QED
    BY <2>1, <2>3 DEF Overlaid
<1>7. ASSUME q.says # {} PROVE r \in DOMAIN db'.said
  <2>1. r \in Puts(q, "said")
    BY <1>0, <1>7 DEF CallPlan
  <2>2. q.cut = {}
    BY <1>0, <2>1 DEF CallPlan, Columns, Message
  <2>3. Overlaid(db.said, db'.said, q, "said")
    BY <2>2 DEF Commits, Overwrites
  <2> QED
    BY <2>1, <2>3 DEF Overlaid
<1>8. ASSUME NEW l \in links', Over(l[3])', l[1] \notin deleted'
      PROVE  <<l[1], l[2]>> \in DOMAIN db'.token /\ db'.token[<<l[1], l[2]>>] = l[3]
  <2>1. CASE l[3] = r
    BY <1>0, <1>1, <1>6, <1>8, <2>1
  <2>2. CASE l[3] # r
    <3>1. l \in links /\ Over(l[3]) /\ l[1] \notin deleted /\ l[1] \notin q.cut
      BY <1>0, <1>1, <1>3, <1>8, <2>2
    <3>2. <<l[1], l[2]>> \in DOMAIN db.token /\ db.token[<<l[1], l[2]>>] = l[3]
      BY <1>0, <3>1 DEF MessagesInv, MessagesAreKept, Exists
    <3> QED
      BY <1>4, <3>1, <3>2
  <2> QED
    BY <2>1, <2>2
<1>9. ASSUME NEW t \in texts', Over(t[2])' PROVE t[2] \in DOMAIN db'.said
  <2>1. CASE t[2] = r
    BY <1>0, <1>2, <1>7, <1>9, <2>1
  <2>2. CASE t[2] # r
    BY <1>0, <1>2, <1>3, <1>5, <1>9, <2>2 DEF MessagesInv, MessagesAreKept, Exists
  <2> QED
    BY <2>1, <2>2
<1>10. MessagesAreKept'
  BY <1>8, <1>9 DEF MessagesAreKept, Exists
<1>11. /\ \A l \in links' : /\ l[3] \in Requests /\ req'[l[3]].pc \in {"flushed", "done"}
                            /\ req'[l[3]].pc = "flushed" => <<l[1], l[2]>> \in req'[l[3]].sends
       /\ \A t \in texts' : /\ t[2] \in Requests /\ req'[t[2]].pc \in {"flushed", "done"}
                            /\ req'[t[2]].pc = "flushed" => req'[t[2]].says # {}
  BY <1>0, <1>1, <1>2, <1>3
<1> QED
  BY <1>10, <1>11 DEF MessagesInv

LEMMA CommitRooms ==
  ASSUME NEW r, NEW q, Commits(r, q)
  PROVE  RoomsInv'
<1>0. /\ RoomsInv /\ RowsInv /\ FlushInv /\ MeetingPlan(r, q) /\ CallPlan(r, q) /\ Reads(r, q) /\ r \in Requests
      /\ r \in Working /\ q = req[r] /\ q.pc = "flushed" /\ req'[r].pc = "done" /\ r \notin DOMAIN db.status
      /\ (\A s \in Requests \ {r} : GoesOn(s)) /\ UNCHANGED <<rooms, broken>>
      /\ mixed' = mixed \cup (q.once \cap q.over)
  BY DEF Commits
<1>1. \A s \in Requests : s = r \/ (req'[s].pc = req[s].pc /\ req'[s].ends = req[s].ends /\ Founds(req'[s]) = Founds(req[s]))
  BY <1>0, SamePlan DEF GoesOn, SameTask
<1>2. \A m \in q.ends : m \notin rooms \/ <<"room", m>> \in broken
  BY <1>0 DEF FlushInv
<1>3. r \in rooms <=> r \in Founds(q)
  BY <1>0 DEF RoomsInv
<1>4. ASSUME NEW m
      PROVE  /\ m \in rooms /\ Joinable(m) => Joinable(m)' \/ <<"room", m>> \in broken
             /\ m = r /\ m \in rooms => Joinable(m)'
             /\ Joinable(m)' => \/ Joinable(m) /\ (m \in q.ends => <<"status", m>> \in mixed')
                                \/ m = r /\ m \in rooms
                                \/ <<"status", m>> \in mixed'
  <2>1. CASE q.cut = {}
    <3>1. /\ DOMAIN db'.status = Founds(q) \cup DOMAIN db.status /\ Founds(q) \subseteq {r}
          /\ r \in Founds(q) => db'.status[r] = "scheduled"
      BY <2>1, MeetingsWritten
    <3>2. CASE m \in DOMAIN db.status
      <4>1. /\ \/ m \notin Puts(q, "status") /\ db'.status[m] = db.status[m]
               \/ db'.status[m] = "completed" /\ m \in q.ends
               \/ db'.status[m] = "live" /\ (db.status[m] = "scheduled" \/ <<"status", m>> \in mixed')
            /\ m \in Puts(q, "ended") => db'.status[m] = "completed" \/ <<"status", m>> \in mixed'
        BY <2>1, <3>2, MeetingsWritten
      <4>2. m \in DOMAIN db'.status /\ m # r
        BY <1>0, <3>1, <3>2
      <4>3. m \in q.ends => m \in Puts(q, "ended")
        BY <1>0, <2>1 DEF CallPlan
      <4> QED
        BY <1>2, <3>2, <4>1, <4>2, <4>3 DEF Joinable, Exists
    <3>3. CASE m \notin DOMAIN db.status
      BY <1>3, <3>1, <3>3 DEF Joinable, Exists
    <3> QED
      BY <3>2, <3>3
  <2>2. CASE q.cut # {}
    <3>1. Without(db.status, db'.status, q.cut) /\ q.cut \subseteq q.ends /\ Founds(q) = {} /\ Puts(q, "ended") = {}
      BY <1>0, <2>2 DEF Commits, Deletes, CallPlan, Columns, Meeting, Founds
    <3>2. q.ends \subseteq q.cut
      BY <1>0, <3>1 DEF CallPlan
    <3> QED
      BY <1>2, <1>3, <3>1, <3>2 DEF Without, Joinable, Exists
  <2> QED
    BY <2>1, <2>2
<1>5. \A s \in rooms' \cap Requests : req'[s].pc # "new"
  BY <1>0, <1>1 DEF RoomsInv
<1>6. \A s \in Working' : s \in rooms' <=> s \in Founds(req[s])'
  <2> TAKE s \in Working'
  <2>1. s \in Requests /\ s # r /\ req'[s].pc \in {"open", "flushed"}
    BY <1>0 DEF Working
  <2>2. s \in Working
    BY <1>1, <2>1 DEF Working
  <2> PICK p : p = req'[s]
    OBVIOUS
  <2>3. s \in rooms' <=> s \in Founds(p)
    BY <1>0, <1>1, <2>1, <2>2 DEF RoomsInv
  <2> QED
    BY <2>3
<1>7. \A m \in rooms' : Joinable(m)' \/ m \in Working' \/ <<"room", m>> \in broken'
  <2> TAKE m \in rooms'
  <2>1. m \in rooms /\ (Joinable(m) \/ m \in Working \/ <<"room", m>> \in broken)
    BY <1>0 DEF RoomsInv
  <2>2. m \in Working => m = r \/ m \in Working'
    BY <1>1 DEF Working
  <2> QED
    BY <1>0, <1>4, <2>1, <2>2
<1>8. \A m \in DOMAIN db'.status :
        Joinable(m)' => \/ m \in rooms' \/ <<"status", m>> \in mixed' \/ <<"room", m>> \in broken'
                        \/ \E s \in Requests : req'[s].pc = "flushed" /\ m \in req'[s].ends
  <2> TAKE m \in DOMAIN db'.status
  <2> HAVE Joinable(m)'
  <2>1. CASE Joinable(m) /\ (m \in q.ends => <<"status", m>> \in mixed')
    <3>1. \/ m \in rooms \/ <<"status", m>> \in mixed \/ <<"room", m>> \in broken
          \/ \E s \in Requests : req[s].pc = "flushed" /\ m \in req[s].ends
      BY <1>0, <2>1 DEF RoomsInv, Joinable, Exists
    <3> QED
      BY <1>0, <1>1, <2>1, <3>1
  <2> QED
    BY <1>0, <1>4, <2>1
<1> QED
  BY <1>5, <1>6, <1>7, <1>8 DEF RoomsInv

---------------------------------------------------------------------------
(* The theorem.                                                            *)

LEMMA InitOrder ==
  ASSUME Init
  PROVE  DeskInv
<1> DEFINE all == Old \cup New
           seats == UNION {Seats(m) : m \in all}
<1>1. /\ DOMAIN db = Columns
      /\ db.status = [m \in all |-> "scheduled"] /\ db.kind = [m \in all |-> IF m \in Old THEN "community" ELSE "org"]
      /\ db.open = [m \in all |-> TRUE] /\ db.joined = [s \in seats |-> FALSE]
      /\ db.used = [s \in {s \in seats : s[2] \in Linkable} |-> FALSE]
      /\ db.token = [s \in {s \in seats : s[2] \in Linkable} |-> None]
      /\ db.ended = <<>> /\ db.talk = Talk :> With
  BY DEF Init, Columns, Meeting, Participant, Invite, Inbox, CalendarEvent, Conversation, Message, SessionReport,
         WhatsAppLink
<1>2. /\ rooms = all /\ links = {} /\ texts = {} /\ mixed = {} /\ broken = {}
      /\ req = [r \in Requests |-> Fresh]
  BY DEF Init
<1>3. Fresh.pc = "new"
  BY DEF Fresh
<1>4. \A s \in seats : s[1] \in all
  BY DEF Seats
<1>5. RequestsInv
  BY <1>2, <1>3 DEF RequestsInv, Working
<1>6. RowsInv
  <2>1. DOMAIN db.status = all /\ DOMAIN db.kind = all /\ DOMAIN db.open = all /\ DOMAIN db.ended = {}
        /\ DOMAIN db.joined = seats /\ DOMAIN db.used = {s \in seats : s[2] \in Linkable}
        /\ DOMAIN db.token = {s \in seats : s[2] \in Linkable}
    BY <1>1
  <2>2. \A m \in all : Known(m) /\ db.kind[m] # "client_org"
    BY <1>1 DEF Known
  <2>3. \A s \in seats : s[1] \in all /\ db.joined[s] = FALSE /\ ClientOrgOnly(db.kind[s[1]], {s[2]})
    BY <1>1, <1>4, <2>2 DEF ClientOrgOnly
  <2>4. \A s \in DOMAIN db.used : db.used[s] = FALSE
    BY <1>1
  <2> HIDE DEF all, seats
  <2> QED
    BY <1>1, <2>1, <2>2, <2>3, <2>4 DEF RowsInv, Exists
<1>7. FlushInv
  BY <1>2, <1>3 DEF FlushInv
<1>8. RoomsInv
  BY <1>1, <1>2, <1>3, DeskAssumption DEF RoomsInv, Working, Joinable, Exists
<1>9. LiveWhenJoined /\ OneConversation
  BY <1>1 DEF LiveWhenJoined, OneConversation, Exists, :>
<1>10. MessagesInv
  BY <1>2 DEF MessagesInv, MessagesAreKept
<1> QED
  BY <1>5, <1>6, <1>7, <1>8, <1>9, <1>10 DEF DeskInv

LEMMA StepOrder ==
  ASSUME DeskInv, [Next]_vars
  PROVE  DeskInv'
<1>0. RequestsInv /\ RowsInv /\ FlushInv /\ RoomsInv /\ LiveWhenJoined /\ OneConversation /\ MessagesInv
  BY DEF DeskInv
<1>1. ASSUME UNCHANGED <<db, mixed>>, \A m : Known(m) => Known(m)'
      PROVE  RowsInv' /\ LiveWhenJoined' /\ OneConversation'
  BY <1>0, <1>1, QuietRows
<1>2. ASSUME NEW r \in Requests, NEW q, Starts(r, q) PROVE DeskInv'
  <2>1. UNCHANGED <<db, mixed>>
    BY <1>2 DEF Starts
  <2> QED
    BY <1>1, <1>2, <2>1, StartsKeeps DEF DeskInv
<1>3. ASSUME NEW r \in Requests, Calls(r) PROVE DeskInv'
  <2>1. UNCHANGED <<db, mixed>>
    BY <1>3 DEF Calls
  <2> QED
    BY <1>1, <1>3, <2>1, CallsKeeps DEF DeskInv
<1>4. ASSUME NEW r \in Working, Refused(r) \/ Breaks(r) PROVE DeskInv'
  <2>1. UNCHANGED <<db, mixed>>
    BY <1>4 DEF Refused, Breaks, hist
  <2> QED
    BY <1>1, <1>4, <2>1, OverKeeps DEF DeskInv
<1>5. ASSUME NEW r \in Requests, Commit(r) PROVE DeskInv'
  <2> PICK q : q = req[r]
    OBVIOUS
  <2>1. Commits(r, q)
    BY <1>5, CommitContext
  <2> QED
    BY <2>1, CommitRequests, CommitRowsInv, CommitFlush, CommitRooms, CommitLive, CommitOne, CommitMessages DEF DeskInv
<1>6. ASSUME UNCHANGED vars PROVE DeskInv'
  <2>0. UNCHANGED <<db, rooms, links, texts, req, deleted, mixed, broken>>
    BY <1>6 DEF vars, hist
  <2>1. RowsInv' /\ LiveWhenJoined' /\ OneConversation'
    BY <1>1, <2>0 DEF Known
  <2>2. RequestsInv'
    <3>1. ASSUME NEW r \in Requests, NEW q, Reads(r, q) PROVE Reads(r, q)'
      BY <2>0, <3>1 DEF Reads, Exists, Talks
    <3> QED
      BY <1>0, <2>0, <3>1 DEF RequestsInv, Working, Known
  <2>3. FlushInv'
    BY <1>0, <2>0 DEF FlushInv, Clashes, Exists
  <2>4. RoomsInv'
    BY <1>0, <2>0 DEF RoomsInv, Working, Joinable, Exists
  <2>5. MessagesInv'
    BY <1>0, <2>0 DEF MessagesInv, MessagesAreKept, Over, Exists
  <2> QED
    BY <2>1, <2>2, <2>3, <2>4, <2>5 DEF DeskInv
<1> QED
  BY <1>0, <1>2, <1>3, <1>4, <1>5, <1>6, StepCases

LEMMA InOrder ==
  ASSUME DeskInv
  PROVE  DeskIsInOrder
<1>1. MessagesAreKept /\ LiveWhenJoined /\ OneConversation
  BY DEF DeskInv, MessagesInv
<1>2. EveryoneCanCome
  BY DEF DeskInv, RowsInv, EveryoneCanCome, Exists
<1>3. RoomsAreMeetings
  BY DEF DeskInv, RoomsInv, RoomsAreMeetings, Working
<1> QED
  BY <1>1, <1>2, <1>3 DEF DeskIsInOrder

\* Whatever the requests do, and in whatever order their transactions commit,
\* are refused by the database or break: the links and the replies that the desk
\* has sent are written down, whoever is on the list of a meeting can come in, a
\* meeting is live once somebody has, and has its room as long as it can be
\* joined, and an identity has one conversation, unless a failure from outside
\* or two requests that wrote the same is why.
THEOREM DeskHolds == Spec => []DeskIsInOrder
<1>1. Init => DeskInv
  BY InitOrder
<1>2. DeskInv /\ [Next]_vars => DeskInv'
  BY StepOrder
<1>3. DeskInv => DeskIsInOrder
  BY InOrder
<1> QED
  BY <1>1, <1>2, <1>3, PTL DEF Spec

================================================================================
