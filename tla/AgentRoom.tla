------------------------------- MODULE AgentRoom -------------------------------
(***************************************************************************)
(* The live agent of one meeting (meeting_room/live_agents/): a caption    *)
(* session for every speaker and a dubbing pipeline for every language     *)
(* somebody wants to hear, each holding a slot of a semaphore that all     *)
(* meetings of the process share; the relay of what is said and written;   *)
(* the reports of what has failed; and the teardown, during which the room *)
(* goes on calling back.                                                   *)
(*                                                                         *)
(* One event loop: a callback of the room, or what a task does between two *)
(* awaits, is one step.                                                    *)
(***************************************************************************)
EXTENDS Naturals, FiniteSets, SequencesExt

CONSTANTS
  People,       \* participants other than the bot
  Languages,    \* the languages that can be chosen
  Supported,    \* those that have a speech-to-text provider
  Default,      \* live_agents_default_language
  SttSlots, DubSlots,  \* the slots of the two semaphores, less those of other meetings
  Threshold,    \* _FAILURE_REPORT_THRESHOLD
  None,
  Works,        \* bound: sessions and pipelines
  Backlog,      \* bound: reports that wait
  Moves         \* bound: events of the room, texts and failures

Keys == People \cup Languages

ASSUME AgentRoomAssumption ==
  /\ People \cap Languages = {} /\ None \notin Keys /\ IsFiniteSet(Keys)
  /\ Supported \subseteq Languages /\ Default \in Languages
  /\ SttSlots \in Nat \ {0} /\ DubSlots \in Nat \ {0} /\ Threshold \in Nat \ {0}
  /\ Works \in Nat /\ Backlog \in Nat /\ Moves \in Nat

VARIABLES
  phase,     \* where run() is
  people,    \* who is there, with a microphone or without, and their attributes
  works,     \* the sessions and pipelines there have been, oldest first
  current,   \* CaptionDispatcher._sessions and DubbedAudioManager._pipelines, 0 for none
  stops,     \* those whose stop() has been called
  left,      \* those that a stop_all still has to stop
  reports,   \* the report tasks that have not run
  told,      \* the keys of which the room was last told that they have failed
  column,    \* translation_error of the meeting: the key it is about
  text,      \* one transcript or chat message on its way
  moves,     \* events of the room, texts and failures there have been
  muddled,   \* history: keys with a report that was lost, overtaken, or made by a session being stopped
  wrote      \* history: what the column last said of a key, and whether another has cleared it

vars == <<phase, people, works, current, stops, left, reports, told, column, text, moves, muddled, wrote>>

\* at "published" the microphone's track has not arrived yet.  spoken: the
\* language of the captions' source; reads: caption_language, and with it
\* chat_language; dubbed: whether audio_mode is dubbed_audio.
Person == [at : {"out", "in", "published", "mic"},
           spoken : Languages, reads : Languages, dubbed : BOOLEAN]

\* A participant joins without attributes.
Newcomer(at) == [at |-> at, spoken |-> Default, reads |-> Default, dubbed |-> FALSE]

Silent == [pc |-> "none", kind |-> None, from |-> None, lang |-> None, todo |-> <<>>, tries |-> 0,
           owed |-> {}, got |-> [p \in People |-> 0]]

Init ==
  /\ phase = "connecting"
  /\ people \in [People -> {Newcomer("out"), Newcomer("published")}]
  /\ works = <<>>
  /\ current = [k \in Keys |-> 0]
  /\ stops = {} /\ left = {}
  /\ reports = <<>> /\ told = {} /\ column = None
  /\ text = Silent
  /\ moves = 0
  /\ muddled = {} /\ wrote = [k \in Keys |-> "nothing"]

---------------------------------------------------------------------------
(* The registry, which follows the room's own record of its participants.  *)

Here(who) == {p \in People : who[p].at # "out"}

\* distinct_caption_languages and chat_recipients_by_language
ReadersOf(who, lang, from) == {p \in Here(who) \ {from} : who[p].reads = lang}

\* distinct_dubbed_languages
DubbedLanguages(who) == {who[p].reads : p \in {q \in Here(who) : who[q].dubbed}}

---------------------------------------------------------------------------
(* Sessions and pipelines.  An operator on the agent takes and returns the *)
(* record of works, current and stops.                                     *)

Agent == [works |-> works, current |-> current, stops |-> stops]

\* late and misled are history: added during the teardown, and stopped although
\* its microphone is there.
NewWork(kind, key, lang) ==
  [kind |-> kind, key |-> key, lang |-> lang, pc |-> "launched", slot |-> FALSE, fails |-> 0,
   late |-> phase \notin {"connecting", "on"}, misled |-> FALSE]

\* One after the other, and a set of languages is in any order.
Launch(a, kind, keys, lang) ==
  LET order == SetToSeq(keys)
      Place(k) == CHOOSE n \in DOMAIN order : order[n] = k
  IN  [a EXCEPT !.works = @ \o [n \in DOMAIN order |-> NewWork(kind, order[n], lang[order[n]])],
                !.current = [k \in Keys |-> IF k \in keys THEN Len(a.works) + Place(k) ELSE @[k]]]

Spoken(who) == [p \in People |-> who[p].spoken]

\* The entry goes at once, and the stop is a task of its own.
Drop(a, keys) ==
  [a EXCEPT !.stops = @ \cup ({a.current[k] : k \in keys} \ {0}),
            !.current = [k \in Keys |-> IF k \in keys THEN 0 ELSE @[k]]]

\* Mutant: a second microphone event starts a second session.
AddSpeakerAgain(a, who, p) == Launch(a, "stt", {p}, Spoken(who))

\* add_speaker
AddSpeaker(a, who, p) == IF a.current[p] # 0 THEN a ELSE Launch(a, "stt", {p}, Spoken(who))

\* on_spoken_language_changed
RestartSpeaker(a, who, p) ==
  IF a.current[p] = 0 THEN a
  ELSE IF who[p].at \in {"published", "mic"} THEN AddSpeaker(Drop(a, {p}), who, p) ELSE Drop(a, {p})

\* DubbedAudioManager.sync: what is needed against what there is.
Sync(a, who) ==
  LET needed == DubbedLanguages(who)
      active == {l \in Languages : a.current[l] # 0}
  IN  Drop(Launch(a, "dub", needed \ active, [l \in Languages |-> l]), active \ needed)

Becomes(a) ==
  /\ Len(a.works) <= Works
  /\ works' = a.works /\ current' = a.current /\ stops' = a.stops

---------------------------------------------------------------------------
(* Callbacks of the room.  They do not look at where run() is.             *)

\* An event of the room, who is there after it, and what the agent makes of it.
Happens(who, a) ==
  /\ phase \in {"on", "captions", "dubbing", "leaving", "cut", "hushed"}
  /\ moves < Moves /\ moves' = moves + 1
  /\ people' = who /\ Becomes(a)
  /\ UNCHANGED <<phase, left, reports, told, column, text, muddled, wrote>>

\* _on_participant_connected
Connected(p) ==
  people[p].at = "out" /\ Happens([people EXCEPT ![p] = Newcomer("in")], Agent)

\* _on_participant_disconnected
Disconnected(p) ==
  LET who == [people EXCEPT ![p] = Newcomer("out")]
  IN  people[p].at # "out" /\ Happens(who, Sync(Drop(Agent, {p}), who))

\* _on_track_subscribed, also for a microphone that run() has seen published.
Subscribed(p) ==
  LET who == [people EXCEPT ![p].at = "mic"]
  IN  people[p].at # "out" /\ Happens(who, Sync(AddSpeaker(Agent, who, p), who))

\* _on_track_unsubscribed, of the microphone.
Unsubscribed(p) ==
  people[p].at = "mic" /\ Happens([people EXCEPT ![p].at = "in"], Drop(Agent, {p}))

\* The same of a camera or a screen: it does not ask which track has gone.
OtherUnsubscribed(p) ==
  /\ people[p].at = "mic" /\ current[p] # 0
  /\ Happens(people, [Drop(Agent, {p}) EXCEPT !.works[current[p]].misled = TRUE])

\* _on_participant_attributes_changed.  said: spoken_language is among them, be it
\* set to the default that it had been without; the session restarts then too.
AttributesChanged(p) ==
  \E spoken, reads \in Languages, dubbed, said \in BOOLEAN :
    LET who == [people EXCEPT ![p].spoken = spoken, ![p].reads = reads, ![p].dubbed = dubbed]
        a == IF said THEN RestartSpeaker(Agent, who, p) ELSE Agent
        b == IF reads # people[p].reads \/ dubbed # people[p].dubbed THEN Sync(a, who) ELSE a
    IN  /\ people[p].at # "out"
        /\ spoken = people[p].spoken => (spoken = Default \/ ~said)
        /\ spoken # people[p].spoken => said
        /\ said \/ who # people
        /\ Happens(who, b)

---------------------------------------------------------------------------
(* The life of a session or pipeline.                                      *)

\* report: what it has to say of itself, if anything (_on_translation_error and
\* _on_translation_recovered create a task).
Goes(i, w, report) ==
  /\ works[i].pc # "closed"
  /\ works' = [works EXCEPT ![i] = w]
  /\ reports' = reports \o report /\ Len(reports') <= Backlog
  /\ muddled' = IF report # <<>> /\ i \in stops THEN muddled \cup {w.key} ELSE muddled
  /\ UNCHANGED <<phase, people, current, stops, left, told, column, text, wrote>>

Costs == moves < Moves /\ moves' = moves + 1
Free == UNCHANGED moves

Fault(i) == <<[key |-> works[i].key, bad |-> TRUE, written |-> FALSE]>>
Recovery(i) == <<[key |-> works[i].key, bad |-> FALSE, written |-> FALSE]>>

\* Tasks start, and wait for a semaphore, in the order of their creation.
Eldest(i, pc) == works[i].pc = pc /\ \A j \in 1..(i - 1) : works[j].kind = works[i].kind => works[j].pc # pc

\* SpeakerSTTSession.start as far as the semaphore: a language without a provider
\* is reported, a track that has not come or has gone is only logged.
StartSession(i) ==
  /\ works[i].kind = "stt" /\ Eldest(i, "launched")
  /\ CASE works[i].lang \notin Supported -> Goes(i, [works[i] EXCEPT !.pc = "refused"], Fault(i))
       [] works[i].lang \in Supported /\ people[works[i].key].at # "mic" ->
            Goes(i, [works[i] EXCEPT !.pc = "mute"], <<>>)
       [] OTHER -> Goes(i, [works[i] EXCEPT !.pc = "waiting"], <<>>)
  /\ Free

\* LanguageAudioPipeline.start as far as the semaphore.
StartPipeline(i) ==
  works[i].kind = "dub" /\ Eldest(i, "launched") /\ Goes(i, [works[i] EXCEPT !.pc = "waiting"], <<>>) /\ Free

Holders(kind) == {i \in DOMAIN works : works[i].kind = kind /\ works[i].slot}

AcquireStt(i) ==
  /\ works[i].kind = "stt" /\ Eldest(i, "waiting") /\ Cardinality(Holders("stt")) < SttSlots
  /\ Goes(i, [works[i] EXCEPT !.pc = "trying", !.slot = TRUE], <<>>) /\ Free

AcquireDub(i) ==
  /\ works[i].kind = "dub" /\ Eldest(i, "waiting") /\ Cardinality(Holders("dub")) < DubSlots
  /\ Goes(i, [works[i] EXCEPT !.pc = "publishing", !.slot = TRUE], <<>>) /\ Free

\* The track of the language is published; without it the pipeline gives up its
\* slot, and its entry stays.
Publish(i) == works[i].pc = "publishing" /\ Goes(i, [works[i] EXCEPT !.pc = "trying"], <<>>) /\ Free
PublishFails(i) ==
  works[i].pc = "publishing" /\ Costs /\ Goes(i, [works[i] EXCEPT !.pc = "refused", !.slot = FALSE], Fault(i))

\* A stream or session opens: one that had failed often enough to be reported
\* has recovered.
Opens(i) ==
  /\ works[i].pc = "trying" /\ Free
  /\ Goes(i, [works[i] EXCEPT !.pc = "open", !.fails = 0],
          IF works[i].fails >= Threshold THEN Recovery(i) ELSE <<>>)

\* Mutant: reported one failure too late.
FailsLate(i) ==
  /\ works[i].pc \in {"trying", "open"} /\ Costs
  /\ LET n == Min({works[i].fails + 1, Threshold + 1})
     IN  Goes(i, [works[i] EXCEPT !.pc = "trying", !.fails = n],
              IF works[i].fails = Threshold THEN Fault(i) ELSE <<>>)

\* _handle_reconnect_failure, of either: it did not open, or has ended in any way.
\* Failures are counted no further than makes a difference.
Fails(i) ==
  /\ works[i].pc \in {"trying", "open"} /\ Costs
  /\ LET n == Min({works[i].fails + 1, Threshold + 1})
     IN  Goes(i, [works[i] EXCEPT !.pc = "trying", !.fails = n],
              IF works[i].fails + 1 = Threshold THEN Fault(i) ELSE <<>>)

\* _is_expected_stream_rotation: the five minutes of a stream are over.
Rotates(i) ==
  works[i].kind = "stt" /\ works[i].pc = "open" /\ Costs /\ Goes(i, [works[i] EXCEPT !.pc = "trying"], <<>>)

\* stop(): tasks are cancelled, streams closed, and the slot is given back.
CloseSession(i) ==
  works[i].kind = "stt" /\ i \in stops /\ Goes(i, [works[i] EXCEPT !.pc = "closed", !.slot = FALSE, !.fails = 0], <<>>) /\ Free
ClosePipeline(i) ==
  works[i].kind = "dub" /\ i \in stops /\ Goes(i, [works[i] EXCEPT !.pc = "closed", !.slot = FALSE, !.fails = 0], <<>>) /\ Free

---------------------------------------------------------------------------
(* Reports.                                                                *)

\* A task of its own for each.  First it sets the column, or clears it whatever
\* it says; the write may fail.  Of two tasks either may go first.
Earlier(n) == \E m \in 1..(n - 1) : reports[m].key = reports[n].key

WriteColumn(n, ok) ==
  LET k == reports[n].key
  IN  /\ ~reports[n].written
      /\ reports' = [reports EXCEPT ![n].written = TRUE]
      /\ column' = IF ~ok THEN column ELSE IF reports[n].bad THEN k ELSE None
      /\ wrote' = IF ~ok THEN wrote
                  ELSE IF reports[n].bad THEN [wrote EXCEPT ![k] = "error"]
                  ELSE [j \in Keys |-> IF j = k THEN "nothing"
                                      ELSE IF wrote[j] = "error" THEN "cleared" ELSE wrote[j]]
      /\ muddled' = IF ok /\ ~Earlier(n) THEN muddled ELSE muddled \cup {k}
      /\ UNCHANGED <<phase, people, works, current, stops, left, told, text, moves>>

\* Then it tells the room, which may fail too, and does after a disconnect.  A
\* failure has a second message for the staff, sent with the first here.
TellRoom(n, ok) ==
  LET k == reports[n].key
  IN  /\ reports[n].written /\ (ok => phase # "gone")
      /\ reports' = RemoveAt(reports, n)
      /\ told' = IF ~ok THEN told ELSE IF reports[n].bad THEN told \cup {k} ELSE told \ {k}
      /\ muddled' = IF ok /\ ~Earlier(n) THEN muddled ELSE muddled \cup {k}
      /\ UNCHANGED <<phase, people, works, current, stops, left, column, text, moves, wrote>>

---------------------------------------------------------------------------
(* What is said and written.                                               *)

Relays(t) ==
  /\ text' = t
  /\ UNCHANGED <<phase, people, works, current, stops, left, reports, told, column, muddled, wrote>>

\* The readers of each language, as they are now; a chat message leaves out the
\* language it is written in.
Groups(from, skip) ==
  LET langs == {people[p].reads : p \in Here(people) \ {from}} \ skip
  IN  [l \in langs |-> ReadersOf(people, l, from)]

Underway(kind, from, lang, todo) ==
  [Silent EXCEPT !.pc = "relaying", !.kind = kind, !.from = from, !.lang = lang, !.todo = todo,
                 !.owed = UNION Range(todo)]

\* _on_final_transcript, for a stream that is open.
Said(p) ==
  /\ text.pc = "none" /\ Costs
  /\ \E i \in DOMAIN works : works[i].key = p /\ works[i].pc = "open"
  /\ LET lang == IF people[p].at = "out" THEN Default ELSE people[p].spoken
     IN  Relays(Underway("caption", p, lang, Groups(p, {})))

\* _on_stream: the message is read, and kept first.  The handler stays until
\* ChatRelay.stop takes it away.
Written(p) ==
  /\ text.pc = "none" /\ Costs /\ phase \in {"on", "captions", "dubbing", "cut"} /\ people[p].at # "out"
  /\ Relays([Silent EXCEPT !.pc = "keeping", !.kind = "chat", !.from = p, !.lang = people[p].reads])

\* _persist_original, whether it succeeds or not; who is to get it is looked up
\* after it.
Keep ==
  /\ text.pc = "keeping" /\ Free
  /\ Relays(Underway("chat", text.from, text.lang, Groups(text.from, {text.lang})))

\* Two attempts at most, generic and specialized in one order or the other; the
\* same language needs none, and the text as it is serves when both have failed.
Attempt(l) ==
  /\ text.pc = "relaying" /\ Free /\ text.tries < 2 /\ l # text.lang
  /\ Relays([text EXCEPT !.tries = @ + 1])

\* The text goes to those of a group who are still there; a failure is only logged.
Sent(l, ok, todo) ==
  LET to == IF ok THEN text.todo[l] \cap Here(people) ELSE {}
  IN  [text EXCEPT !.todo = todo, !.tries = 0, !.owed = @ \ (text.todo[l] \ to),
                   !.got = [p \in People |-> IF p \in to THEN @[p] + 1 ELSE @[p]]]

\* Mutant: who is left is looked up again after every group.
SendRegrouped(l, ok) ==
  /\ text.pc = "relaying" /\ Free
  /\ LET again == Groups(text.from, {text.lang})
     IN  Relays(Sent(l, ok, [k \in DOMAIN again \ {l} |-> again[k]]))

\* send_text to the readers of one language; the next one follows.
Send(l, ok) ==
  /\ text.pc = "relaying" /\ Free
  /\ Relays(Sent(l, ok, [k \in DOMAIN text.todo \ {l} |-> text.todo[k]]))

RelayEnds == text.pc = "relaying" /\ Free /\ text.todo = <<>> /\ Relays([text EXCEPT !.pc = "over"])

---------------------------------------------------------------------------
(* run(): connect, serve, tear down.                                       *)

\* Those who are there already are added, and the languages they want.
Connect ==
  /\ phase = "connecting" /\ phase' = "on"
  /\ LET there == {p \in People : people[p].at = "published"}
     IN  Becomes(Sync(Launch(Agent, "stt", there, Spoken(people)), people))
  /\ UNCHANGED <<people, left, reports, told, column, text, moves, muddled, wrote>>

\* request_stop, or _on_disconnected: captions.stop_all takes a copy of the list.
Stop ==
  /\ phase = "on" /\ phase' = "captions"
  /\ left' = {current[p] : p \in People} \ {0}
  /\ UNCHANGED <<people, works, current, stops, reports, told, column, text, moves, muddled, wrote>>

\* One after the other: stop, and wait for it.
StopNext ==
  /\ left # {}
  /\ LET i == Min(left)
     IN  IF works[i].pc = "closed" THEN left' = left \ {i} /\ UNCHANGED stops
         ELSE i \notin stops /\ stops' = stops \cup {i} /\ UNCHANGED left
  /\ UNCHANGED <<phase, people, works, current, reports, told, column, text, moves, muddled, wrote>>

\* The dictionary is cleared of all there is in it by then.
Cleared(keys) == [k \in Keys |-> IF k \in keys THEN 0 ELSE current[k]]

CaptionsStopped ==
  /\ phase = "captions" /\ left = {} /\ phase' = "dubbing"
  /\ current' = Cleared(People)
  /\ left' = {current[l] : l \in Languages} \ {0}
  /\ UNCHANGED <<people, works, stops, reports, told, column, text, moves, muddled, wrote>>

\* Then ChatRelay.stop cancels the messages on their way.
DubbingStopped ==
  /\ phase = "dubbing" /\ left = {} /\ phase' = "leaving"
  /\ current' = Cleared(Languages)
  /\ text' = IF text.kind = "chat" THEN [text EXCEPT !.pc = "over", !.owed = {}] ELSE text
  /\ UNCHANGED <<people, works, stops, left, reports, told, column, moves, muddled, wrote>>

\* room.disconnect(): what is sent from now on does not arrive.
Leave ==
  /\ phase = "leaving" /\ phase' = "gone"
  /\ text' = IF text.pc = "relaying" THEN [text EXCEPT !.pc = "over", !.owed = {}] ELSE text
  /\ UNCHANGED <<people, works, current, stops, left, reports, told, column, moves, muddled, wrote>>

\* stop_for_meeting has waited for 15 s and cancels run().  A stop that is waiting
\* for its task takes no notice; one that is closing its stream, session or track
\* ends there with its slot, unless another stop() of it goes on.  At "hushed" the
\* chat's handler has gone already.
Cut ==
  /\ phase \in {"captions", "dubbing", "leaving"}
  /\ phase' = IF phase = "leaving" THEN "hushed" ELSE "cut"
  /\ IF phase = "leaving" THEN UNCHANGED works
     ELSE /\ left # {} /\ Min(left) \in stops
          /\ LET i == Min(left)
             IN  /\ works[i].pc \in {"trying", "open"}
                 /\ works' = IF current[works[i].key] = i THEN [works EXCEPT ![i].pc = "closed"] ELSE works
  /\ left' = {}
  /\ UNCHANGED <<people, current, stops, reports, told, column, text, moves, muddled, wrote>>

Live(i) ==
  \/ StartSession(i) \/ StartPipeline(i) \/ AcquireStt(i) \/ AcquireDub(i)
  \/ Publish(i) \/ PublishFails(i) \/ Opens(i) \/ Fails(i) \/ Rotates(i)
  \/ CloseSession(i) \/ ClosePipeline(i)

Next ==
  \/ Connect \/ Stop \/ StopNext \/ CaptionsStopped \/ DubbingStopped \/ Leave \/ Cut
  \/ \E p \in People : Connected(p) \/ Disconnected(p) \/ Subscribed(p) \/ Unsubscribed(p) \/ OtherUnsubscribed(p)
                         \/ AttributesChanged(p) \/ Said(p) \/ Written(p)
  \/ \E i \in DOMAIN works : Live(i)
  \/ \E n \in DOMAIN reports, ok \in BOOLEAN : WriteColumn(n, ok) \/ TellRoom(n, ok)
  \/ \E l \in DOMAIN text.todo, ok \in BOOLEAN : Attempt(l) \/ Send(l, ok)
  \/ Keep \/ RelayEnds

Spec == Init /\ [][Next]_vars

---------------------------------------------------------------------------
(* Properties.                                                             *)

\* A speaker without a provider, a track that could not be published, or
\* failures enough to be reported.
Degraded(i) == works[i].pc = "refused" \/ works[i].fails >= Threshold

\* While the agent serves, every microphone has a session in the language its
\* speaker speaks now, be it one that gave up as its track had not come, unless
\* another track of theirs has gone; and there is a pipeline for each language
\* that somebody wants dubbed and for no other.
Follows ==
  phase = "on" =>
    /\ \A p \in People : people[p].at = "mic" =>
         IF current[p] = 0 THEN \E i \in DOMAIN works : works[i].key = p /\ works[i].misled
         ELSE works[current[p]].lang = people[p].spoken /\ current[p] \notin stops
    /\ {l \in Languages : current[l] # 0} = DubbedLanguages(people)

\* When the teardown has gone through, nobody holds a slot of the process but a
\* session whose stop is still running, or that a callback added during it.
SlotsComeBack ==
  phase = "gone" => \A i \in DOMAIN works : works[i].slot => i \in stops \/ works[i].late

\* Whatever order people join, leave, unmute, share and change languages in,
\* the sessions follow them and give back what they took (add_speaker,
\* remove_speaker, on_spoken_language_changed, sync, stop_all).
SessionsFollowTheRoom == Follows /\ SlotsComeBack

\* None but the current session of key k was added during the teardown: of two
\* that were, the first goes on, unknown to the dispatcher.
Alone(k) == \A i \in DOMAIN works : works[i].key = k /\ works[i].late => i = current[k]

\* What the room has been told agrees with the sessions, whenever every report
\* of a subject has been made, none was lost or overtaken and none came from a
\* session that was being stopped: a subject that is down, with one session of it
\* running, is known to be, and in the meeting's row unless another's recovery has
\* cleared it; one that is known to be down is down, or its session was stopped.
DegradedIsShown ==
  \A k \in Keys :
    (k \notin muddled /\ \A n \in DOMAIN reports : reports[n].key # k) =>
      /\ (current[k] # 0 /\ current[k] \notin stops /\ Degraded(current[k]) /\ Alone(k)) =>
           k \in told /\ (column # None \/ wrote[k] = "cleared")
      /\ k \in told => \E i \in DOMAIN works :
                         works[i].key = k /\ (Degraded(i) \/ works[i].pc = "closed")

\* Participants change their language, leave and return while a caption or a chat
\* message is translated for one group after the other: nobody gets it twice, its
\* author never, and everyone it was meant for who was there when it was sent has it.
TextsReachOnce ==
  /\ \A p \in People : text.got[p] <= 1 /\ (p = text.from => text.got[p] = 0)
  /\ text.pc = "over" => \A p \in text.owed : text.got[p] = 1

=============================================================================
