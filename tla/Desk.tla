--------------------------------- MODULE Desk ---------------------------------
(***************************************************************************)
(* The desk of the meeting rooms: scheduling a meeting, inviting people,   *)
(* letting them in, ending and deleting it, in the room of the identity    *)
(* tree (meeting_room/services.py) and that of the orgs                    *)
(* (meetings/services.py); and the conversations of community members:     *)
(* opening one, replying by hand, reporting on it, linking a phone.        *)
(*                                                                         *)
(* A request is one transaction in READ COMMITTED with calls to LiveKit    *)
(* and WhatsApp on the way.  It reads and checks; then it inserts its rows *)
(* and makes its calls; its rows appear, and what it changed is updated,   *)
(* when it commits.  The agents of a meeting are in LiveMeetings.          *)
(***************************************************************************)
EXTENDS Naturals, FiniteSets, Functions

CONSTANTS
  Staff, Identities, Members, OrgUsers,   \* the people
  Clients,     \* identities with a ClientOrgProfile
  Scope,       \* the identities below a client's own
  Phones,      \* normalised numbers
  Lists,       \* bound: the lists of people that a meeting is scheduled with
  Old,         \* meetings there are at the start in the old room ...
  New,         \* ... and in that of the orgs
  Present,     \* who has been invited to each
  Talk,        \* a conversation there is at the start ...
  With,        \* ... and whose it is
  LinkedAs,    \* the numbers linked at the start, and whose they are
  None,
  Requests     \* bound: the requests

\* The operators of the module TLC, which the provers do not know.
k :> v == [x \in {k} |-> v]
f @@ g == [x \in DOMAIN f \cup DOMAIN g |-> IF x \in DOMAIN f THEN f[x] ELSE g[x]]

\* A request creates one row of each kind at most, which takes its name; a guest
\* is called so too.
People == Staff \cup Identities \cup Members \cup OrgUsers
Meetings == Old \cup New \cup Requests

\* Those that have no account, and come by a personal link.
Linkable == Identities \cup Members

ASSUME DeskAssumption ==
  /\ (Staff \cup OrgUsers) \cap Linkable = {} /\ People \cap Requests = {}
  /\ Clients \subseteq Identities /\ Scope \subseteq Identities /\ With \in Identities
  /\ (Old \cup New) \cap Requests = {} /\ Old \cap New = {} /\ Talk \notin Requests /\ None \notin Requests
  /\ Lists \subseteq SUBSET People
  /\ Present \in [Old \cup New -> SUBSET People]
  /\ \A m \in Old : Present[m] \subseteq Staff \cup Identities
  /\ \A m \in New : Present[m] \subseteq Members \cup OrgUsers
  /\ \A p \in DOMAIN LinkedAs : p \in Phones /\ LinkedAs[p] \in Identities

VARIABLES
  db,       \* the committed rows, a function of the key for each column
  rooms,    \* LiveKit rooms that have been created and not ended
  links,    \* <<meeting, identity, request>>: personal links handed to WhatsApp
  texts,    \* <<conversation, request>>: replies handed to WhatsApp
  deleted,  \* meetings that were deleted
  req,      \* the requests
  mixed,    \* history: what two requests that overlapped have both written
  broken    \* history: calls of requests that failed from outside, and ends that did

hist == <<deleted, mixed, broken>>
vars == <<db, rooms, links, texts, req, hist>>

\* The status of a meeting, its meeting_kind, whether it has an ended_at and
\* its one open invite.
Meeting == {"status", "kind", "ended", "open"}

\* Whether a participant has a joined_at; whether the personal invite of one,
\* unique to the participant, has a used_at, and the token in its link, which is
\* the request that drew it.  All by meeting and person.
Participant == {"joined"}
Invite == {"used", "token"}

Inbox == {"inbox"}          \* staff told of a meeting
CalendarEvent == {"event"}  \* of a meeting
Conversation == {"talk"}    \* active, and the identity that each is of
Message == {"said"}         \* the conversation of each
SessionReport == {"report"} \* the conversation of each, and its message_count
WhatsAppLink == {"link"}    \* the identity of a number

Columns ==
  Meeting \cup Participant \cup Invite \cup Inbox \cup CalendarEvent \cup Conversation
    \cup Message \cup SessionReport \cup WhatsAppLink

\* w overlays columns; ins are the keys it inserts, upd those it updates; cut
\* is the meeting that it deletes; sends and says are its WhatsApp messages,
\* ends the room it ends; once is what it found missing or to be changed.
Fresh ==
  [pc |-> "new", w |-> <<>>, ins |-> {}, upd |-> {}, cut |-> {}, sends |-> {}, says |-> {},
   ends |-> {}, once |-> {}, over |-> {}]
Done == [Fresh EXCEPT !.pc = "done"]

Seats(m) == {m} \X Present[m]

Init ==
  /\ LET all == Old \cup New
         seats == UNION {Seats(m) : m \in all}
     IN  db = [status |-> [m \in all |-> "scheduled"],
               kind   |-> [m \in all |-> IF m \in Old THEN "community" ELSE "org"],
               open   |-> [m \in all |-> TRUE],
               joined |-> [s \in seats |-> FALSE],
               used   |-> [s \in {s \in seats : s[2] \in Linkable} |-> FALSE],
               token  |-> [s \in {s \in seats : s[2] \in Linkable} |-> None],
               event  |-> [m \in Old |-> TRUE],
               talk   |-> Talk :> With, said |-> Talk :> Talk, link |-> LinkedAs,
               ended  |-> <<>>, inbox |-> <<>>, report |-> <<>>]
  /\ rooms = Old \cup New
  /\ links = {} /\ texts = {} /\ deleted = {} /\ mixed = {} /\ broken = {}
  /\ req = [r \in Requests |-> Fresh]

---------------------------------------------------------------------------
(* A request begins: what it reads and checks, and what it goes on to do.  *)

Working == {r \in Requests : req[r].pc \in {"open", "flushed"}}

Ready == {r \in Requests : req[r].pc = "new"}

BeginIn(r, new, room) ==
  /\ r \in Ready
  /\ req' = [req EXCEPT ![r] = new @@ [pc |-> "open"] @@ Fresh]
  /\ rooms' = rooms \cup room
  /\ UNCHANGED <<db, links, texts, hist>>

Begin(r, new) == BeginIn(r, new, {})

Keys(col, keys) == {col} \X keys
Exists(col, k) == k \in DOMAIN db[col]

---------------------------------------------------------------------------
(* Meetings.                                                               *)

\* _assert_joinable
Joinable(m) == Exists("status", m) /\ db.status[m] \in {"scheduled", "live"}

\* _create_personal_invite: the participant and the invite, flushed at once.
Invited(m, people, r) ==
  [w   |-> [joined |-> [s \in {m} \X people |-> FALSE],
            used   |-> [s \in {m} \X (people \cap Linkable) |-> FALSE],
            token  |-> [s \in {m} \X (people \cap Linkable) |-> r]],
   ins |-> Keys("joined", {m} \X people) \cup Keys("used", {m} \X (people \cap Linkable))]

\* _create_open_invite
Opened(m) == [open |-> m :> TRUE]

\* schedule_meeting: the room comes first, and a failure there leaves nothing.
\* Who is not linked to a number is left out when the invitations are sent.
Schedule(r, kind, people, told, event) ==
  BeginIn(r,
    [w     |-> [status |-> r :> "scheduled", kind |-> r :> kind,
                inbox |-> [s \in {r} \X told |-> TRUE],
                event |-> [m \in event |-> TRUE]] @@ Opened(r) @@ Invited(r, people, r).w,
     ins   |-> Invited(r, people, r).ins,
     sends |-> {r} \X (people \cap Identities)],
    {r})

\* _assert_client_org_only
ClientOrgOnly(kind, people) == kind = "client_org" => people \cap Identities \subseteq Clients

\* A meeting of kind "staff" is as one of kind "community".  The staff of the
\* list get a message in their inbox, in the same transaction.
CreateMeeting(r, s, kind, list) ==
  /\ list \subseteq Staff \cup Identities /\ ClientOrgOnly(kind, list)
  /\ Schedule(r, kind, list \cup {s}, list \cap Staff, {r})

ClientScheduleMeeting(r, list) ==
  /\ list \subseteq Scope /\ list # {}
  /\ Schedule(r, "community", list, {}, {r})

OrgScheduleMeeting(r, u, list) ==
  /\ list \subseteq Members \cup OrgUsers
  /\ Schedule(r, "org", list \cup {u}, {}, {})

\* _assert_client_meeting_in_scope: any participant will do.
InScope(m) == \E i \in Scope : Exists("joined", <<m, i>>)

\* add_participant
Add(r, m, p) ==
  /\ Joinable(m) /\ ClientOrgOnly(db.kind[m], {p}) /\ ~Exists("joined", <<m, p>>)
  /\ Begin(r, Invited(m, {p}, r) @@ [sends |-> {<<m, p>>} \cap (Meetings \X Identities)])

InOldRoom(m) == Exists("kind", m) /\ db.kind[m] # "org"
InOrgRoom(m) == Exists("kind", m) /\ db.kind[m] = "org"

AddParticipant(r, m, p) == InOldRoom(m) /\ p \in Staff \cup Identities /\ Add(r, m, p)
ClientAddParticipant(r, m, i) == InOldRoom(m) /\ InScope(m) /\ i \in Scope /\ Add(r, m, i)
OrgAddParticipant(r, m, k) == InOrgRoom(m) /\ k \in Members /\ Add(r, m, k)

\* _mark_joined: the participant, and the meeting where it was scheduled.  A
\* row that the join creates is inserted before the token is minted.
Join(r, m, p, more, rows) ==
  LET first == db.status[m] = "scheduled"
      here == Exists("joined", <<m, p>>)
  IN  /\ Joinable(m)
      /\ Begin(r,
           [w    |-> (IF first THEN [status |-> m :> "live"] ELSE <<>>) @@ [joined |-> <<m, p>> :> TRUE] @@ more,
            ins  |-> IF here THEN {} ELSE {<<"joined", <<m, p>>>>},
            upd  |-> rows \cup (IF here THEN {<<"joined", <<m, p>>>>} ELSE {})
                          \cup (IF first THEN {<<"status", m>>} ELSE {}),
            once |-> IF first THEN {<<"status", m>>} ELSE {}])

\* mint_staff_join: whoever was not invited is added.
StaffJoin(r, m, s) == InOldRoom(m) /\ Join(r, m, s, <<>>, {})
OrgStaffJoin(r, m, s) == InOrgRoom(m) /\ Join(r, m, s, <<>>, {})

\* mint_client_join and mint_org_user_join: for participants.
ClientJoin(r, m, i) ==
  InOldRoom(m) /\ i \in Scope /\ Exists("joined", <<m, i>>) /\ Join(r, m, i, <<>>, {})
OrgUserJoin(r, m, u) ==
  InOrgRoom(m) /\ Exists("joined", <<m, u>>) /\ Join(r, m, u, <<>>, {})

\* get_invite_by_token: the personal link of a participant.  One that has
\* expired is refused, and nothing follows.
Personal(r, m, p) ==
  /\ Exists("used", <<m, p>>)
  /\ Join(r, m, p, [used |-> <<m, p>> :> TRUE], {<<"used", <<m, p>>>>})

\* mint_public_join, in each room.
PublicJoin(r, m, i) == InOldRoom(m) /\ Personal(r, m, i)
OrgPublicJoin(r, m, k) == InOrgRoom(m) /\ Personal(r, m, k)

\* redeem_open_invite: every redemption is a guest of its own.
OpenJoin(r, m) == InOldRoom(m) /\ Exists("open", m) /\ Join(r, m, r, <<>>, {})
OrgOpenJoin(r, m) == InOrgRoom(m) /\ Exists("open", m) /\ Join(r, m, r, <<>>, {})

\* end_meeting: no meeting is ever cancelled, and one that has ended may be
\* ended again.  SQLAlchemy leaves out the column that does not change.
End(r, m) ==
  LET changes == db.status[m] # "completed"
  IN  /\ Exists("status", m)
      /\ Begin(r,
           [w    |-> (IF changes THEN [status |-> m :> "completed"] ELSE <<>>) @@ [ended |-> m :> TRUE],
            upd  |-> {<<"status", m>>},
            ends |-> {m},
            once |-> IF changes THEN {<<"status", m>>} ELSE {}])

EndMeeting(r, m) == InOldRoom(m) /\ End(r, m)
ClientEndMeeting(r, m) == InOldRoom(m) /\ InScope(m) /\ End(r, m)
OrgEndMeeting(r, m) == InOrgRoom(m) /\ End(r, m)

\* delete_meeting; what refers to the meeting goes with it (ON DELETE CASCADE),
\* but for messages, which keep no reference, and calendar events.
Delete(r, m) == Exists("status", m) /\ Begin(r, [ends |-> {m}, cut |-> {m}])
DeleteMeeting(r, m) == InOldRoom(m) /\ Delete(r, m)
OrgDeleteMeeting(r, m) == InOrgRoom(m) /\ Delete(r, m)

---------------------------------------------------------------------------
(* Conversations.                                                          *)

Talks(i) == {c \in DOMAIN db.talk : db.talk[c] = i}
Saying(c) == {x \in DOMAIN db.said : db.said[x] = c}
NumbersOf(i) == {p \in DOMAIN db.link : db.link[p] = i}

\* link_phone_number: a number that is linked already goes over.
CreateLink(r, p, i) ==
  Begin(r, [w    |-> [link |-> p :> i],
            ins  |-> IF Exists("link", p) THEN {} ELSE {<<"link", p>>}])

\* get_or_create_conversation, which raises MultipleResultsFound where there
\* are two: what is said, if anything, goes into the conversation.
GetOrCreate(r, i, says) ==
  \/ \E c \in DOMAIN db.talk : Talks(i) = {c} /\ Begin(r, [w |-> [said |-> [x \in says |-> c]]])
  \/ Talks(i) = {} /\ Begin(r, [w    |-> [talk |-> r :> i, said |-> [x \in says |-> r]],
                                once |-> {<<"talk", i>>}])

\* initiate_comms_room; language, tone and character are left out.
InitiateRoom(r, i) == GetOrCreate(r, i, {})
ClientInitiateRoom(r, i) == i \in Scope /\ GetOrCreate(r, i, {})

\* The community agent, when a message comes in from a number that is linked,
\* and when a session is flushed.
HandleInbound(r, i) == NumbersOf(i) # {} /\ GetOrCreate(r, i, {})
Flush(r, i) == GetOrCreate(r, i, {r})

\* send_manual_reply: scalar_one_or_none raises where two numbers are linked.
\* A translation that fails leaves the English, a send that fails no id.  What
\* is sent is also put into the agent's session, as persisted already.
Reply(r, c) ==
  /\ Exists("talk", c) /\ Cardinality(NumbersOf(db.talk[c])) = 1
  /\ Begin(r, [w |-> [said |-> r :> c], says |-> {c}])

ReplyToConversation(r, c) == Reply(r, c)
ClientReplyToConversation(r, c) == Exists("talk", c) /\ db.talk[c] \in Scope /\ Reply(r, c)

\* generate_report: the messages as they are read, before the analysis.
Report(r, c) ==
  /\ Exists("talk", c) /\ Saying(c) # {}
  /\ Begin(r, [w |-> [report |-> r :> <<c, Cardinality(Saying(c))>>]])

GenerateReport(r, c) == Report(r, c)
ClientGenerateReport(r, c) == Exists("talk", c) /\ db.talk[c] \in Scope /\ Report(r, c)

---------------------------------------------------------------------------
(* A request goes on.                                                      *)

MeetingOf(k) == IF k[1] \in Participant \cup Invite THEN k[2][1] ELSE k[2]

\* A row that another request has inserted (IntegrityError of a unique index),
\* or a meeting to refer to that is gone (of a foreign key).
Clashes(r) ==
  \E k \in req[r].ins :
    \/ Exists(k[1], k[2])
    \/ k[1] = "joined" /\ ~Exists("status", MeetingOf(k)) /\ r # MeetingOf(k)

\* A row to update that is gone: StaleDataError.
Stale(r) == \E k \in req[r].upd : ~Exists(k[1], k[2])

\* An insert waits for one of the same key that is not committed yet.
Waits(r) == \E s \in Requests \ {r} : req[s].pc = "flushed" /\ req[s].ins \cap req[r].ins # {}

\* Mutant: the messages are sent before the rows are inserted.
CallsFirst(r) ==
  LET q == req[r]
      kept == {m \in q.ends : m \in rooms}
  IN  /\ q.pc = "open"
      /\ req' = [req EXCEPT ![r].pc = "flushed"]
      /\ links' = links \cup {<<s[1], s[2], r>> : s \in {s \in q.sends : NumbersOf(s[2]) # {}}}
      /\ texts' = texts \cup (q.says \X {r})
      /\ \/ rooms' = rooms \ q.ends /\ UNCHANGED broken
         \/ kept # {} /\ broken' = broken \cup Keys("room", kept) /\ UNCHANGED rooms
      /\ UNCHANGED <<db, deleted, mixed>>

\* Its rows are inserted, and then come the calls: invitations to those who
\* have a number, the reply, the end of the room, which may fail.
Calls(r) ==
  LET q == req[r]
      kept == {m \in q.ends : m \in rooms}
  IN  /\ q.pc = "open" /\ ~Clashes(r) /\ ~Waits(r)
      /\ req' = [req EXCEPT ![r].pc = "flushed"]
      /\ links' = links \cup {<<s[1], s[2], r>> : s \in {s \in q.sends : NumbersOf(s[2]) # {}}}
      /\ texts' = texts \cup (q.says \X {r})
      /\ \/ rooms' = rooms \ q.ends /\ UNCHANGED broken
         \/ kept # {} /\ broken' = broken \cup Keys("room", kept) /\ UNCHANGED rooms
      /\ UNCHANGED <<db, deleted, mixed>>

\* A participant that is inserted holds its meeting's row until the commit.
HeldBy(m) == {s \in Requests : req[s].pc = "flushed" /\ \E k \in req[s].ins : MeetingOf(k) = m}

Kept(col, cut) ==
  IF col \in Meeting \cup Participant \cup Invite
    THEN {k \in DOMAIN db[col] : MeetingOf(<<col, k>>) \notin cut}
    ELSE DOMAIN db[col]

\* What a request has written into a column.
Put(q, c) == IF c \in DOMAIN q.w THEN q.w[c] ELSE <<>>

Commit(r) ==
  LET q == req[r]
  IN  /\ q.pc = "flushed" /\ ~Clashes(r) /\ ~Stale(r)
      /\ \A m \in q.cut : HeldBy(m) = {}
      /\ db' = [c \in Columns |-> Put(q, c) @@ Restrict(db[c], Kept(c, q.cut))]
      /\ deleted' = deleted \cup q.cut
      /\ mixed' = mixed \cup (q.once \cap q.over)
      /\ req' = [s \in Requests |->
                   CASE s = r -> Done
                     [] s # r /\ req[s].pc \in {"open", "flushed"} -> [req[s] EXCEPT !.over = @ \cup q.once]
                     [] OTHER -> req[s]]
      /\ UNCHANGED <<rooms, links, texts, broken>>

\* The database refuses what it is told, and get_db rolls back.
Refused(r) ==
  /\ \/ req[r].pc = "open" /\ Clashes(r)
     \/ req[r].pc = "flushed" /\ (Clashes(r) \/ Stale(r))
  /\ req' = [req EXCEPT ![r] = Done]
  /\ UNCHANGED <<db, rooms, links, texts, hist>>

\* What a request has done outside its transaction.
CalledFor(r) ==
  (IF r \in rooms THEN {<<"room", r>>} ELSE {})
    \cup (IF req[r].pc = "flushed" THEN Keys("room", req[r].ends) \cup Keys("sent", {r}) ELSE {})

\* Something outside fails: the database, the process, the spend's row lock.
\* A request without such calls leaves nothing, as if it had not begun.
Breaks(r) ==
  /\ req[r].pc \in {"open", "flushed"}
  /\ r \in rooms \/ req[r].sends \cup req[r].says \cup req[r].ends # {}
  /\ broken' = broken \cup CalledFor(r)
  /\ req' = [req EXCEPT ![r] = Done]
  /\ UNCHANGED <<db, rooms, links, texts, deleted, mixed>>

Next ==
  \/ \E r \in Ready, list \in Lists :
       \/ \E s \in Staff, kind \in {"client_org", "community"} : CreateMeeting(r, s, kind, list)
       \/ ClientScheduleMeeting(r, list)
       \/ \E u \in OrgUsers : OrgScheduleMeeting(r, u, list)
  \/ \E r \in Ready, m \in Meetings :
       \/ \E p \in Staff \cup Identities : AddParticipant(r, m, p)
       \/ \E i \in Identities : ClientAddParticipant(r, m, i) \/ ClientJoin(r, m, i) \/ PublicJoin(r, m, i)
       \/ \E k \in Members : OrgAddParticipant(r, m, k) \/ OrgPublicJoin(r, m, k)
       \/ \E s \in Staff : StaffJoin(r, m, s) \/ OrgStaffJoin(r, m, s)
       \/ \E u \in OrgUsers : OrgUserJoin(r, m, u)
       \/ OpenJoin(r, m) \/ OrgOpenJoin(r, m)
       \/ EndMeeting(r, m) \/ ClientEndMeeting(r, m) \/ OrgEndMeeting(r, m)
       \/ DeleteMeeting(r, m) \/ OrgDeleteMeeting(r, m)
  \/ \E r \in Ready, i \in Identities :
       \/ \E p \in Phones : CreateLink(r, p, i)
       \/ InitiateRoom(r, i) \/ ClientInitiateRoom(r, i) \/ HandleInbound(r, i) \/ Flush(r, i)
  \/ \E r \in Ready, c \in Requests \cup {Talk} :
       \/ ReplyToConversation(r, c) \/ ClientReplyToConversation(r, c)
       \/ GenerateReport(r, c) \/ ClientGenerateReport(r, c)
  \/ \E r \in Working : Calls(r) \/ Commit(r) \/ Refused(r) \/ Breaks(r)

Spec == Init /\ [][Next]_vars

---------------------------------------------------------------------------
(* Properties.                                                             *)

Over(r) == req[r].pc = "done" /\ <<"sent", r>> \notin broken

\* A link that was sent is one that lets in, and a reply that was sent is kept.
MessagesAreKept ==
  /\ \A l \in links : Over(l[3]) /\ l[1] \notin deleted =>
       Exists("token", <<l[1], l[2]>>) /\ db.token[<<l[1], l[2]>>] = l[3]
  /\ \A t \in texts : Over(t[2]) => Exists("said", t[2])

\* Every meeting has its open link, and exactly those of its participants who
\* have no account have a personal one; a meeting with clients, no one else.
EveryoneCanCome ==
  /\ DOMAIN db.open = DOMAIN db.status
  /\ \A s \in DOMAIN db.joined : Exists("status", s[1]) /\ (Exists("used", s) <=> s[2] \in Linkable)
  /\ \A s \in DOMAIN db.joined : ClientOrgOnly(db.kind[s[1]], {s[2]})
  /\ \A s \in DOMAIN db.used : db.used[s] => db.joined[s]

\* A meeting is live once somebody has joined it, and stays over.
LiveWhenJoined ==
  \A m \in DOMAIN db.status :
    /\ db.status[m] = "scheduled" => \A s \in DOMAIN db.joined : s[1] = m => ~db.joined[s]
    /\ db.status[m] = "live" => \E s \in DOMAIN db.joined : s[1] = m /\ db.joined[s]
    /\ Exists("ended", m) /\ <<"status", m>> \notin mixed => db.status[m] = "completed"

\* A room belongs to a meeting that can be joined, and such a meeting has one.
RoomsAreMeetings ==
  /\ \A m \in rooms : Joinable(m) \/ m \in Working \/ <<"room", m>> \in broken
  /\ \A m \in DOMAIN db.status :
       Joinable(m) => \/ m \in rooms \/ <<"status", m>> \in mixed \/ <<"room", m>> \in broken
                      \/ \E r \in Working : m \in req[r].ends

\* An identity has one active conversation.
OneConversation ==
  \A c, d \in DOMAIN db.talk : db.talk[c] = db.talk[d] => c = d \/ <<"talk", db.talk[c]>> \in mixed

\* What the desk has told people is what it has written down: links and replies
\* that were sent are kept, every participant can come in, a meeting is live
\* when it is used and has a room as long, an identity has one conversation.
\* Where not, a failure from outside or an overlap of two requests is why.
DeskIsInOrder ==
  MessagesAreKept /\ EveryoneCanCome /\ LiveWhenJoined /\ RoomsAreMeetings /\ OneConversation

===============================================================================
