-------------------------------- MODULE Turn --------------------------------
(* The turns of one Session of server/main.py: what the owner types or says, *)
(* the speculative draft of an unfinished utterance, the queries that answer,*)
(* the watchdog, and the speech queue.  Everything runs on one event loop:   *)
(* an action is the code from one await to the next.  A websocket send does  *)
(* not suspend.  Time passes in units of 12.5 seconds, rounded.               *)
EXTENDS Naturals, Sequences, FiniteSets

CONSTANTS Texts,        \* what can be typed, heard or drafted
          MaxQueries,   \* bound: queries created
          MaxTurns,     \* bound: turn number up to which the owner acts
          MaxQueue,     \* bound: speech blocks queued at once
          Env           \* the inconvenient behaviours allowed, see below

NoText == ""  \* what Python keeps as the empty string

ASSUME TurnAssumption ==
  /\ MaxQueries \in Nat /\ MaxTurns \in Nat /\ MaxQueue \in Nat
  /\ NoText \notin Texts

\* "quick_click": the owner picks a research topic while something still runs;
\* "endless": a stream may stop for ever although no watchdog looks after it.

VARIABLES
  turn,     \* self.turn
  query,    \* every query task there was, in order of creation
  cur,      \* the one in self.query_task, 0 for None
  caller,   \* what "rx" (the receive loop) and "draft" (draft_task) await
  mic,      \* latest_draft, last_completed_draft, draft_commit_at, speculative_input
  owns,     \* openclaw_owns_active_turn_lifecycle
  dog,      \* turn_watchdog_task, with the time without progress
  sound,    \* tts_queue and the item the worker synthesizes
  status,   \* the last status the HUD was sent
  choice,   \* pending_research_query_choice is set
  silenced, \* history: queries at work when a newer turn or an interrupt came
  dropped   \* history: a final was left to its draft, or to one that is over
vars == <<turn, query, cur, caller, mic, owns, dog, sound, status, choice, silenced, dropped>>

FirstDelta == <<2, 3, 5>>
StallUnits_Mut == 6
StallUnits == 3

Query == 1..MaxQueries
Nobody == [turn |-> 0, q |-> 0]
Unused == [pc |-> "none", draft |-> FALSE, text |-> NoText, out |-> FALSE, tried |-> FALSE,
           attempt |-> 0, left |-> 0]
Over == [Unused EXCEPT !.pc = "ended"]
Ready == [pc |-> "ready", prev |-> 0, text |-> NoText]
Off == [pc |-> "off", q |-> 0, turn |-> 0, quiet |-> 0]

Init ==
  /\ turn = 0 /\ cur = 0 /\ choice = FALSE /\ owns = FALSE /\ dropped = FALSE
  /\ query = [q \in Query |-> Unused]
  /\ caller = [w \in {"rx", "draft"} |-> Ready]
  /\ mic = [latest |-> NoText, finished |-> NoText, commit |-> "zero", spec |-> 0]
  /\ dog = Off
  /\ sound = [queue |-> <<>>, item |-> Nobody]
  /\ status = "idle" /\ silenced = {}

Alive == {q \in Query : query[q].pc \notin {"none", "ended"}}
Active == cur \in Alive
Waiting == {w \in DOMAIN caller : caller[w].pc = "await"}
Room == Cardinality({q \in Query : query[q].pc # "none"}) + Cardinality(Waiting) < MaxQueries
Next1 == CHOOSE q \in Query : query[q].pc = "none" /\ \A p \in 1..(q - 1) : query[p].pc # "none"

\* Task.cancel: a task that never ran is over; any other unwinds.
Cancelled(r) == CASE r.pc \in {"none", "ended"} -> r
                  [] r.pc = "new" -> Over
                  [] OTHER -> [r EXCEPT !.pc = "unwind"]
\* The cancelled draft_task stops, unless it awaits an older query: that await
\* is cancelled with it, and the handler swallows the CancelledError.
DraftCancelled == IF caller["draft"].pc = "warm" THEN [caller EXCEPT !["draft"] = Ready] ELSE caller
Progress == dog' = [dog EXCEPT !.quiet = 0]

\* A new turn number with an empty speech queue, told to the HUD.
Advance == turn' = turn + 1 /\ sound' = [sound EXCEPT !.queue = <<>>]
Invalidate == Advance /\ silenced' = silenced \cup Alive

Watch(q, t) == dog' = [pc |-> "watch", q |-> q, turn |-> t, quiet |-> 0]
Create(qs, t, isDraft, n) ==
  /\ query' = [qs EXCEPT ![Next1] = [Unused EXCEPT !.pc = "new", !.draft = isDraft, !.text = t]]
  /\ cur' = Next1
  /\ IF isDraft THEN UNCHANGED dog ELSE Watch(Next1, n)

\* user_text from handling its text to the creation of its query: the query in
\* flight is cancelled and awaited first.
TakeTurn(w, t, isDraft) ==
  /\ Room
  /\ Invalidate
  /\ IF Active
     THEN /\ query' = [query EXCEPT ![cur] = Cancelled(@)]
          /\ caller' = [DraftCancelled EXCEPT ![w] = [pc |-> "await", prev |-> cur, text |-> t]]
          /\ UNCHANGED <<cur, dog>>
     ELSE /\ Create(query, t, isDraft, turn + 1)
          /\ caller' = [DraftCancelled EXCEPT ![w] = Ready]

\* The await of the older query ends: the new one starts.
Resumes(w) ==
  /\ caller[w].pc = "await" /\ query[caller[w].prev].pc = "ended"
  /\ Create(query, caller[w].text, w = "draft", turn)
  /\ caller' = [caller EXCEPT ![w] = Ready]
  /\ UNCHANGED <<turn, mic, owns, sound, status, choice, silenced, dropped>>

\* A final text, with what the microphone (m) and the callers (c) hold by then:
\* held back while the chooser is open; left to the draft that answers it or
\* has answered it; otherwise a new turn.
Final(t, m, c) ==
  IF choice
  THEN /\ mic' = m /\ caller' = [c EXCEPT !["rx"] = Ready]
       /\ UNCHANGED <<turn, query, cur, dog, sound, status, silenced, dropped>>
  ELSE /\ status' = "thinking"
       /\ LET twin == t = m.latest /\ Active
              over == t = m.finished /\ ~twin
          IN \/ /\ twin \/ over
                /\ mic' = [m EXCEPT !.latest = NoText, !.finished = IF over THEN NoText ELSE @]
                /\ dropped' = TRUE
                /\ caller' = [c EXCEPT !["rx"] = Ready]
                /\ Progress /\ UNCHANGED <<turn, query, cur, sound, silenced>>
             \/ /\ ~twin /\ ~over
                /\ mic' = [m EXCEPT !.latest = NoText]
                /\ TakeTurn("rx", t, FALSE) /\ UNCHANGED dropped

UserText(t) ==
  /\ caller["rx"].pc = "ready" /\ turn < MaxTurns
  /\ Final(t, mic, caller)
  /\ UNCHANGED <<owns, choice>>

\* An utterance is heard: remembered, and drafted once the gateway is warm; at
\* its natural endpoint (isFinal) it is the owner's text.
Heard(t, isFinal) ==
  LET heard == [mic EXCEPT !.commit = "zero", !.latest = t]
  IN IF isFinal THEN Final(t, heard, DraftCancelled)
     ELSE /\ mic' = heard
          /\ caller' = [caller EXCEPT !["draft"].pc = IF @ = "ready" THEN "warm" ELSE @]
          /\ UNCHANGED <<turn, query, cur, dog, sound, status, silenced, dropped>>

\* speech_partial.  While a query runs only the endpoint of a hidden draft
\* matters: the same text releases it, another text replaces it.
SpeechPartial(t, isFinal) ==
  /\ caller["rx"].pc = "ready" /\ turn < MaxTurns
  /\ \A q \in Query : query[q].pc # "notice"
  /\ IF Active
     THEN LET same == mic.spec # 0 /\ query[mic.spec].text = t
          IN /\ isFinal /\ mic.spec # 0
             /\ \/ /\ same /\ mic' = [mic EXCEPT !.commit = "now"]
                   /\ UNCHANGED <<query, caller>>
                \/ /\ ~same /\ query' = [query EXCEPT ![cur] = Cancelled(@)]
                   /\ caller' = [caller EXCEPT !["rx"] = [pc |-> "replace", prev |-> cur, text |-> t]]
                   /\ UNCHANGED mic
             /\ UNCHANGED <<turn, cur, dog, sound, status, silenced, dropped>>
     ELSE Heard(t, isFinal)
  /\ UNCHANGED <<owns, choice>>

\* The replaced draft has unwound: its endpoint's text is taken up.
Replaces ==
  /\ caller["rx"].pc = "replace" /\ query[caller["rx"].prev].pc = "ended"
  /\ Heard(caller["rx"].text, TRUE)
  /\ UNCHANGED <<owns, choice>>

\* preflight_voice_draft, after prewarm: the latest partial becomes a hidden
\* query, held until its endpoint or the failsafe; or there is nothing to draft.
\* Tasks resume in FIFO order: a watchdog woken earlier comes first.
DraftStarts ==
  /\ caller["draft"].pc = "warm" /\ mic.latest # NoText
  /\ dog.pc = "gather" => dog.q \in Alive
  /\ mic' = [mic EXCEPT !.commit = "held"]
  /\ TakeTurn("draft", mic.latest, TRUE)
  /\ UNCHANGED <<owns, status, choice, dropped>>
DraftGivesUp ==
  /\ caller["draft"].pc = "warm"
  /\ caller' = DraftCancelled
  /\ UNCHANGED <<turn, query, cur, mic, owns, dog, sound, status, choice, silenced, dropped>>
Failsafe ==
  /\ mic.commit = "held" /\ mic.spec # 0
  /\ mic' = [mic EXCEPT !.commit = "now"]
  /\ UNCHANGED <<turn, query, cur, caller, owns, dog, sound, status, choice, silenced, dropped>>

Stop_Mut(all) ==
  /\ caller["rx"].pc = "ready" /\ turn < MaxTurns
  /\ Invalidate
  /\ caller' = IF all THEN DraftCancelled ELSE caller
  /\ mic' = IF all THEN [mic EXCEPT !.latest = NoText] ELSE mic
  /\ dog' = Off /\ status' = "idle"
  /\ UNCHANGED <<query, cur, owns, choice, dropped>>
\* interrupt_active_turn (button, voice activity, meeting wake) and the change
\* of language.  The query is cancelled and not awaited.
Stop(all) ==
  /\ caller["rx"].pc = "ready" /\ turn < MaxTurns
  /\ Invalidate
  /\ query' = IF Active THEN [query EXCEPT ![cur] = Cancelled(@)] ELSE query
  /\ caller' = IF all THEN DraftCancelled ELSE caller
  /\ mic' = IF all THEN [mic EXCEPT !.latest = NoText] ELSE mic
  /\ dog' = Off /\ status' = "idle"
  /\ UNCHANGED <<cur, owns, choice, dropped>>
Interrupt == Stop(TRUE)
SetLanguage == Stop(FALSE)

\* The owner picks one of the offered topics.  Whatever runs is left running.
Select ==
  /\ caller["rx"].pc = "ready" /\ choice /\ turn < MaxTurns /\ Room
  /\ "quick_click" \in Env \/ (Alive = {} /\ caller["draft"].pc = "ready")
  /\ choice' = FALSE
  /\ turn' = turn + 1 /\ silenced' = silenced \cup Alive
  /\ query' = [query EXCEPT ![Next1] = [Unused EXCEPT !.pc = "local", !.out = TRUE]]
  /\ cur' = Next1 /\ Watch(Next1, turn + 1)
  /\ UNCHANGED <<caller, mic, owns, sound, status, dropped>>
DismissChoice ==
  /\ caller["rx"].pc = "ready" /\ choice /\ choice' = FALSE
  /\ UNCHANGED <<turn, query, cur, caller, mic, owns, dog, sound, status, silenced, dropped>>

\* ---- run_query
Set(q, r) == query' = [query EXCEPT ![q] = r]
To(q, pc) == Set(q, [query[q] EXCEPT !.pc = pc])
Quietly == UNCHANGED <<turn, cur, caller, mic, owns, dog, sound, status, choice, silenced, dropped>>

Ends_Mut(q) ==
  /\ Set(q, Over)
  /\ IF query[q].tried
     THEN /\ mic' = [mic EXCEPT !.latest = NoText, !.spec = IF @ = q THEN 0 ELSE @]
          /\ caller' = DraftCancelled
     ELSE UNCHANGED <<mic, caller>>
  /\ UNCHANGED <<turn, cur, owns, dog, sound, status, choice, silenced, dropped>>
\* The finally of run_query: idle is sent, whatever has begun meanwhile, and a
\* draft being prepared is cancelled.  A query left before its try is just over.
Ends(q) ==
  /\ Set(q, Over)
  /\ IF query[q].tried
     THEN /\ mic' = [mic EXCEPT !.latest = NoText, !.spec = IF @ = q THEN 0 ELSE @]
          /\ caller' = DraftCancelled /\ status' = "idle"
     ELSE UNCHANGED <<mic, caller, status>>
  /\ UNCHANGED <<turn, cur, owns, dog, sound, choice, silenced, dropped>>

Say(q, t) == sound' = [sound EXCEPT !.queue = Append(@, [turn |-> t, q |-> q])]
\* send_local_spoken_notice: a turn of its own, which silences what q has said
\* before; the query then waits for the speech queue.
Notice(q) ==
  /\ turn' = turn + 1
  /\ sound' = [sound EXCEPT !.queue = <<[turn |-> turn + 1, q |-> q]>>]
  /\ status' = "thinking"
  /\ Set(q, [query[q] EXCEPT !.pc = "notice", !.out = TRUE])
  /\ mic' = IF mic.spec = q THEN [mic EXCEPT !.spec = 0] ELSE mic
  /\ Progress
  /\ UNCHANGED <<cur, caller, owns, choice, silenced, dropped>>

\* route_auto_plan_or_query: the router may answer with a plan, and then there
\* is no query; drafts and simple requests skip it, and a router that fails too.
Routes(q) == query[q].pc = "new" /\ ~query[q].draft /\ To(q, "route") /\ Quietly
OffersPlan(q) ==
  /\ query[q].pc = "route" /\ Set(q, Over) /\ status' = "idle"
  /\ UNCHANGED <<turn, cur, caller, mic, owns, dog, sound, choice, silenced, dropped>>

\* The entry of run_query: Organizer commands and private memory need a verified
\* speaker and are refused by a spoken notice (a draft returns silently).
Entering(q) == query[q].pc \in {"new", "route"}
Refuses(q) ==
  /\ Entering(q)
  /\ IF query[q].draft
     THEN Set(q, Over) /\ UNCHANGED <<turn, cur, caller, mic, dog, sound, status, choice, silenced, dropped>>
     ELSE Notice(q)
  /\ owns' = FALSE
Begins(q) ==
  /\ Entering(q)
  /\ owns' \in (IF query[q].draft THEN {FALSE} ELSE BOOLEAN)
  /\ Set(q, [query[q] EXCEPT !.pc = "think", !.tried = TRUE, !.out = ~query[q].draft])
  /\ mic' = IF query[q].draft THEN [mic EXCEPT !.spec = q] ELSE [mic EXCEPT !.latest = NoText]
  /\ status' = IF query[q].draft THEN status ELSE "thinking"
  /\ Progress
  /\ UNCHANGED <<turn, cur, caller, sound, choice, silenced, dropped>>

\* wait_for_draft_commit and begin_visible_output: a draft stays invisible until
\* its endpoint came or the failsafe passed.
Released(q) == query[q].out \/ mic.spec # q \/ mic.commit # "held"
Shows(q, pc) ==
  /\ Released(q)
  /\ Set(q, [query[q] EXCEPT !.pc = pc, !.out = TRUE])
  /\ mic' = IF mic.spec = q THEN [mic EXCEPT !.spec = 0] ELSE mic
  /\ status' = IF query[q].out THEN status ELSE "thinking"
  /\ Progress
  /\ UNCHANGED <<turn, cur, caller, owns, sound, choice, silenced, dropped>>

\* The routes the host carries out itself: library, workspace, search, research,
\* desktop actions.  They answer, give notice, or open the chooser.
Local(q) == query[q].pc = "think" /\ Shows(q, "local")
LocalAnswers(q) ==
  /\ query[q].pc = "local"
  /\ \E asks \in {choice, TRUE} : choice' = asks
  /\ IF Len(sound.queue) < MaxQueue THEN Say(q, turn) ELSE UNCHANGED sound
  /\ To(q, "drain") /\ Progress
  /\ UNCHANGED <<turn, cur, caller, mic, owns, status, silenced, dropped>>
LocalFails(q) == query[q].pc = "local" /\ Notice(q)

\* The model is asked.  Unless OpenClaw owns the turn, the first delta has a
\* deadline, and three attempts: the lane, an isolated lane, a fresh gateway.
Asks(q) ==
  /\ query[q].pc = "think"
  /\ Set(q, IF owns THEN [query[q] EXCEPT !.pc = "stream"]
            ELSE [query[q] EXCEPT !.pc = "stream", !.attempt = 1, !.left = FirstDelta[1]])
  /\ Quietly
Due(q) == query[q].pc = "stream" /\ query[q].attempt # 0 /\ query[q].left = 0
Attempt(q, n) == Set(q, [query[q] EXCEPT !.pc = "stream", !.attempt = n, !.left = FirstDelta[n]])
FirstDeltaLate(q) ==
  /\ Due(q)
  /\ CASE query[q].attempt = 1 -> Attempt(q, 2) /\ Quietly
       [] query[q].attempt = 2 -> To(q, "restart") /\ Quietly
       [] OTHER -> Notice(q)
GatewayRestarted(q) == query[q].pc = "restart" /\ Attempt(q, 3) /\ Quietly

\* The stream delivers, ends or fails.  Every delta may queue speech, under the
\* turn number of the moment.
Streaming(q) == query[q].pc \in {"stream", "speak"}
Delta(q) ==
  /\ query[q].pc = "stream" /\ Quietly
  /\ To(q, IF query[q].out THEN "speak" ELSE "hold")
Commits(q) == query[q].pc = "hold" /\ Shows(q, "speak")
Speaks(q) ==
  /\ query[q].pc = "speak" /\ Len(sound.queue) < MaxQueue
  /\ Say(q, turn) /\ Progress
  /\ UNCHANGED <<turn, query, cur, caller, mic, owns, status, choice, silenced, dropped>>
StreamEnds(q) ==
  /\ Streaming(q)
  /\ To(q, "drain")
  /\ mic' = IF query[q].draft THEN [mic EXCEPT !.finished = query[q].text] ELSE mic
  /\ UNCHANGED <<turn, cur, caller, owns, dog, sound, status, choice, silenced, dropped>>
StreamFails(q) == (Streaming(q) \/ query[q].pc = "restart") /\ (Notice(q) \/ Ends(q))
\* A stream that began may stop for ever; httpx bounds only the silence of the
\* socket.
Hangs(q) ==
  /\ query[q].pc = "speak"
  /\ "endless" \in Env \/ (dog.pc = "watch" /\ dog.q = q /\ dog.turn = turn /\ ~owns)
  /\ To(q, "hung") /\ Quietly

\* The answer is over once the speech queue is drained, or the wait for it is.
Finishes(q) == query[q].pc = "drain" /\ Ends(q)
NoticeEnds(q) ==
  /\ query[q].pc = "notice" /\ Set(q, Over) /\ status' = "idle"
  /\ IF query[q].tried
     THEN mic' = [mic EXCEPT !.latest = NoText, !.spec = IF @ = q THEN 0 ELSE @] /\ caller' = DraftCancelled
     ELSE UNCHANGED <<mic, caller>>
  /\ UNCHANGED <<turn, cur, owns, dog, sound, choice, silenced, dropped>>
Unwinds_Mut(q) == query[q].pc = "unwind" /\ (Ends(q) \/ (query[q].out /\ Notice(q)))
\* A cancelled query closes its streams, which may take seconds.
Unwinds(q) == query[q].pc = "unwind" /\ Ends(q)

HostStep(q) ==
  \/ Routes(q) \/ OffersPlan(q) \/ Refuses(q) \/ Begins(q)
  \/ Local(q) \/ LocalAnswers(q) \/ LocalFails(q)
  \/ Asks(q) \/ FirstDeltaLate(q) \/ GatewayRestarted(q) \/ Commits(q)
  \/ Finishes(q) \/ NoticeEnds(q) \/ Unwinds(q)
ModelStep(q) == Delta(q) \/ Speaks(q) \/ StreamEnds(q) \/ StreamFails(q) \/ Hangs(q)
\* What bounds a stream without a deadline: an answer has a token limit, and a
\* socket that stays silent a read timeout.
Unbounded(q) == query[q].pc = "speak" \/ (query[q].pc = "stream" /\ query[q].attempt = 0)
StreamOver(q) == Unbounded(q) /\ (StreamEnds(q) \/ StreamFails(q))

\* ---- speech, watchdog and time
\* tts_worker: what belongs to an older turn is dropped, before the synthesis
\* and after it.
WorkerTakes ==
  /\ sound.item = Nobody /\ sound.queue # <<>>
  /\ sound' = [queue |-> Tail(sound.queue),
               item |-> IF Head(sound.queue).turn = turn THEN Head(sound.queue) ELSE Nobody]
  /\ UNCHANGED <<turn, query, cur, caller, mic, owns, dog, status, choice, silenced, dropped>>
WorkerSends ==
  /\ sound.item # Nobody
  /\ sound' = [sound EXCEPT !.item = Nobody]
  /\ UNCHANGED <<turn, query, cur, caller, mic, owns, dog, status, choice, silenced, dropped>>

\* start_turn_progress_watchdog: 35 seconds without progress end the query,
\* unless OpenClaw owns the turn or another turn has begun.
Stalled == dog.pc = "watch" /\ dog.quiet = StallUnits
DogActs_Mut ==
  /\ Stalled
  /\ IF dog.turn # turn \/ dog.q \notin Alive THEN dog' = Off /\ UNCHANGED query
     ELSE IF ~owns THEN Progress /\ UNCHANGED query
     ELSE /\ Set(dog.q, Cancelled(query[dog.q])) /\ dog' = [dog EXCEPT !.pc = "gather"]
  /\ UNCHANGED <<turn, cur, caller, mic, owns, sound, status, choice, silenced, dropped>>
DogActs ==
  /\ Stalled
  /\ IF dog.turn # turn \/ dog.q \notin Alive THEN dog' = Off /\ UNCHANGED query
     ELSE IF owns THEN Progress /\ UNCHANGED query
     ELSE /\ Set(dog.q, Cancelled(query[dog.q])) /\ dog' = [dog EXCEPT !.pc = "gather"]
  /\ UNCHANGED <<turn, cur, caller, mic, owns, sound, status, choice, silenced, dropped>>
DogEnds ==
  /\ dog.pc \in {"watch", "gather"} /\ dog.q \notin Alive
  /\ dog' = Off
  /\ status' = IF dog.pc = "gather" /\ dog.turn = turn THEN "idle" ELSE status
  /\ UNCHANGED <<turn, query, cur, caller, mic, owns, sound, choice, silenced, dropped>>

\* A unit of time passes; what is due comes first.
Ticking == (\E q \in Query : query[q].pc = "stream" /\ query[q].left > 0) \/ dog.pc = "watch"
Tick ==
  /\ Ticking /\ ~Stalled /\ \A q \in Query : ~Due(q) /\ query[q].pc # "new"
  /\ query' = [q \in Query |-> IF query[q].pc = "stream" /\ query[q].left > 0
                               THEN [query[q] EXCEPT !.left = @ - 1] ELSE query[q]]
  /\ dog' = IF dog.pc = "watch" THEN [dog EXCEPT !.quiet = @ + 1] ELSE dog
  /\ UNCHANGED <<turn, cur, caller, mic, owns, sound, status, choice, silenced, dropped>>

Owner ==
  \/ \E t \in Texts : UserText(t) \/ (\E final \in BOOLEAN : SpeechPartial(t, final))
  \/ Interrupt \/ SetLanguage \/ Select \/ DismissChoice
Next ==
  \/ Owner \/ Replaces \/ DraftStarts \/ DraftGivesUp \/ Failsafe
  \/ \E w \in DOMAIN caller : Resumes(w)
  \/ \E q \in Query : HostStep(q) \/ ModelStep(q)
  \/ WorkerTakes \/ WorkerSends \/ DogActs \/ DogEnds \/ Tick
Spec == Init /\ [][Next]_vars

\* The event loop resumes every coroutine whose await is over, the awaits of a
\* query have timeouts, and time passes.  Nothing makes the owner act.
FairSpec ==
  /\ Spec
  /\ \A q \in Query : WF_vars(HostStep(q)) /\ WF_vars(StreamOver(q))
  /\ \A w \in {"rx", "draft"} : WF_vars(Resumes(w))
  /\ WF_vars(Replaces) /\ WF_vars(Failsafe)
  /\ WF_vars(WorkerTakes) /\ WF_vars(WorkerSends)
  /\ WF_vars(DogActs) /\ WF_vars(DogEnds) /\ WF_vars(Tick)

\* ---- properties
Phases == {"none", "new", "route", "think", "local", "stream", "restart", "hold", "speak", "hung",
           "drain", "notice", "unwind", "ended"}
\* Every variable has the kind of value the Session keeps in it.
TypeOK ==
  /\ turn \in Nat /\ cur \in 0..MaxQueries /\ choice \in BOOLEAN /\ owns \in BOOLEAN /\ dropped \in BOOLEAN
  /\ \A q \in Query : query[q].pc \in Phases /\ query[q].text \in Texts \cup {NoText}
                      /\ query[q].attempt \in 0..3 /\ query[q].left \in 0..FirstDelta[3]
  /\ \A w \in DOMAIN caller : caller[w].pc \in {"ready", "warm", "await", "replace"}
  /\ mic.commit \in {"zero", "held", "now"} /\ mic.spec \in 0..MaxQueries
  /\ mic.latest \in Texts \cup {NoText} /\ mic.finished \in Texts \cup {NoText}
  /\ dog.pc \in {"off", "watch", "gather"} /\ dog.quiet \in 0..StallUnits
  /\ Len(sound.queue) <= MaxQueue + 1 /\ status \in {"idle", "thinking"}
  /\ silenced \subseteq Query

Answering(q) == query[q].out /\ query[q].pc \notin {"none", "unwind", "ended"}
\* A newer text or an interrupt ends the answers before it: a query that was at
\* work when the turn number advanced produces nothing any more (the handlers
\* of user_text, interrupt, set_language and select_research_query).
NewerTurnInvalidates == \A q \in silenced : ~Answering(q)
\* No speech of an older answer is still to be synthesized or sent under the
\* current turn number, so the HUD never plays it (the queue is tagged when a
\* block enters it, not when its query began).
NoStaleSpeech ==
  /\ sound.item.turn = turn => sound.item.q \notin silenced
  /\ \A i \in DOMAIN sound.queue : sound.queue[i].turn = turn => sound.queue[i].q \notin silenced
\* When nothing is left to run, the HUD was told so last: no cancelled query,
\* late idle or watchdog leaves it thinking.  A text that was left to its draft
\* is the exception.
QuietIsIdle ==
  (Alive = {} /\ Waiting = {} /\ caller["rx"].pc = "ready" /\ dog.pc # "gather" /\ ~dropped)
    => status = "idle"
\* The watchdog's 35 seconds are over before the isolated attempt's deadline: a
\* watched turn never restarts the gateway, which its self-heal would do too.
WatchdogComesFirst ==
  \A q \in Query : (query[q].pc = "restart" /\ ~dropped) => ~(dog.pc = "watch" /\ dog.q = q /\ dog.turn = turn)
\* The answer of a draft waits for its own endpoint or the failsafe, however
\* partials, endpoints and older queries interleave (begin_visible_output).
DraftsWait ==
  [][\A q \in Query : (query[q].draft /\ query[q].pc # "speak" /\ query'[q].pc = "speak")
                        => mic.commit = "now"]_vars
\* A draft shows nothing at all before that, as wait_for_draft_commit promises.
HiddenUntilEndpoint ==
  [][\A q \in Query : (query[q].draft /\ ~query[q].out /\ query'[q].out) => mic.commit = "now"]_vars
\* Every query ends: by an answer, a failure, its deadlines or the watchdog.
QueriesEnd == \A q \in Query : (query[q].pc # "none") ~> (query[q].pc = "ended")
=============================================================================
