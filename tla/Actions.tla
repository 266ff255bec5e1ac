------------------------------ MODULE Actions ------------------------------
(* Desktop actions of one Session of server/main.py: the plan of actions a   *)
(* query executes, the one waiter per native action and per screen capture,  *)
(* the page that relays them, the desktop app that performs them, and the    *)
(* search state that follow-up questions refer to.  An action runs from one  *)
(* await to the next; a websocket send does not suspend.                     *)
EXTENDS Naturals, Sequences

CONSTANTS Plans,     \* the plans of actions the owner's requests lead to
          MaxAsks,   \* bound: requests of the owner
          MaxIds,    \* bound: native actions and captures requested
          MaxDrops   \* bound: lost connections

ASSUME ActionsAssumption ==
  /\ MaxAsks \in Nat /\ MaxIds \in Nat /\ MaxDrops \in Nat
  /\ Plans \subseteq Seq({"app", "search", "research", "page", "gui", "look",
                          "analyse", "open", "explain"})

VARIABLES
  plan,     \* the query that executes a plan: where it is, what is left, what was done
  asks,     \* requests so far; a request's number stands for its text and topic
  ids,      \* request ids given out so far (uuid4)
  native,   \* native_action_waiter with its request id and result
  screen,   \* screen_capture_waiter with its request id and result
  found,    \* last_public_search_query, its results, goal and opened page
  toPage,   \* websocket, server to page
  toServer, \* websocket, page to server
  page,     \* nativeActionInFlight of app.js, 0 for null
  desk,     \* the desktop app: action and capture in flight, process being stopped
  done,     \* history: native actions that completed on the desktop
  told,     \* history: native actions reported to the owner as successful
  drops     \* lost connections so far
vars == <<plan, asks, ids, native, screen, found, toPage, toServer, page, desk, done, told, drops>>

Free == [id |-> 0, res |-> "none"]
NoPlan == [pc |-> "idle", todo |-> <<>>, ask |-> 0, id |-> 0]
NothingFound == [query |-> 0, results |-> 0, goal |-> 0, opened |-> 0]

Init ==
  /\ plan = NoPlan /\ asks = 0 /\ ids = 0
  /\ native = Free /\ screen = Free /\ found = NothingFound
  /\ toPage = <<>> /\ toServer = <<>> /\ page = 0
  /\ desk = [act |-> 0, stopping |-> FALSE, shot |-> 0]
  /\ done = {} /\ told = {} /\ drops = 0

Doing == Head(plan.todo)
Goto(pc) == plan' = [plan EXCEPT !.pc = pc]
\* An action is over: the next one, or the spoken summary of the outcomes.
Continue == plan' = [plan EXCEPT !.pc = "step", !.todo = Tail(@), !.id = 0]
Beyond == <<ids, native, screen, toPage, toServer, page, desk, done, told, drops>>
Desktop == <<toServer, page, desk, done, drops>>

\* A request that leads to a plan starts once nothing else runs.
Ask(p) ==
  /\ plan.pc = "idle" /\ asks < MaxAsks /\ ids + 2 * Len(p) <= MaxIds
  /\ asks' = asks + 1
  /\ plan' = [pc |-> "step", todo |-> p, ask |-> asks + 1, id |-> 0]
  /\ UNCHANGED <<found, Beyond>>

\* perform_native_action and capture_screen_once up to the wait: refused while
\* a waiter is pending, otherwise a new id, a new waiter and a request.
RequestNative(pc) ==
  /\ IF native.id # 0 /\ native.res = "none"
     THEN Continue /\ UNCHANGED <<ids, native, toPage>>
     ELSE /\ ids' = ids + 1
          /\ native' = [Free EXCEPT !.id = ids + 1]
          /\ toPage' = Append(toPage, [type |-> "act", id |-> ids + 1])
          /\ plan' = [plan EXCEPT !.pc = pc, !.id = ids + 1]
  /\ UNCHANGED screen
Capture ==
  /\ IF screen.id # 0 /\ screen.res = "none"
     THEN Continue /\ UNCHANGED <<ids, screen, toPage>>
     ELSE /\ ids' = ids + 1
          /\ screen' = [Free EXCEPT !.id = ids + 1]
          /\ toPage' = Append(toPage, [type |-> "shot", id |-> ids + 1])
          /\ plan' = [plan EXCEPT !.pc = "shot", !.id = ids + 1]
  /\ UNCHANGED native

\* One action of the plan, up to its first wait.
StartsNative ==
  /\ plan.pc = "step" /\ plan.todo # <<>> /\ Doing \in {"app", "search"}
  /\ RequestNative("native")
  /\ UNCHANGED <<asks, found, Desktop, told>>
StartsCapture ==
  /\ plan.pc = "step" /\ plan.todo # <<>> /\ Doing \in {"gui", "look"}
  /\ Capture
  /\ UNCHANGED <<asks, found, Desktop, told>>
\* A search whose words are unclear asks the owner which topic was meant, one
\* whose topic is blocked tells it; both end the plan.  One without words fails.
SearchNotClear ==
  /\ plan.pc = "step" /\ plan.todo # <<>>
  /\ \/ Doing \in {"search", "research"} /\ Goto("notice")
     \/ Doing = "search" /\ Continue
  /\ UNCHANGED <<asks, found, Beyond>>
StartsPage ==
  /\ plan.pc = "step" /\ plan.todo # <<>> /\ Doing = "page"
  /\ Goto("tool")
  /\ UNCHANGED <<asks, found, Beyond>>
\* answer_with_public_research: the goal is kept before anything is found.
StartsResearch ==
  /\ plan.pc = "step" /\ plan.todo # <<>> /\ Doing = "research"
  /\ found' = [found EXCEPT !.goal = plan.ask]
  /\ Goto("find")
  /\ UNCHANGED <<asks, Beyond>>
\* handle_search_followup: without a query it is not a follow-up and the model
\* answers; without results the query is searched again.
StartsFollowUp ==
  /\ plan.pc = "step" /\ plan.todo # <<>> /\ Doing \in {"analyse", "open", "explain"}
  /\ \/ found.query = 0 /\ Goto("answer")
     \/ found.query # 0 /\ Doing = "explain" /\ Goto(IF found.opened # 0 THEN "read" ELSE "answer")
     \/ found.query # 0 /\ Doing # "explain" /\ Goto(IF found.results = 0 THEN "find" ELSE "sources")
  /\ UNCHANGED <<asks, found, Beyond>>
\* Nothing is left: what was spoken drains and the outcomes are summarised.
Summarises ==
  /\ plan.pc = "step" /\ plan.todo = <<>>
  /\ Goto("notice")
  /\ UNCHANGED <<asks, found, Beyond>>

Remember_Mut == found' = [found EXCEPT !.query = plan.ask, !.goal = plan.ask, !.opened = 0]
\* A search opened in the browser becomes the search that follow-ups mean.
Remember == found' = [query |-> plan.ask, results |-> 0, goal |-> plan.ask, opened |-> 0]

\* The native action's waiter is done: the outcome, then the fields are wiped.
NativeEnds ==
  /\ plan.pc = "native" /\ native.res \in {"ok", "error"}
  /\ native' = Free
  /\ IF native.res = "error"
     THEN Continue /\ UNCHANGED <<found, told>>
     ELSE /\ told' = told \cup {plan.id}
          /\ IF Doing = "search" THEN Remember /\ Goto("find") ELSE Continue /\ UNCHANGED found
  /\ UNCHANGED <<asks, ids, screen, toPage, Desktop>>
NativeTimesOut_Mut ==
  /\ plan.pc = "native" /\ native.res = "none"
  /\ native' = Free
  /\ Continue
  /\ UNCHANGED <<toPage, asks, ids, screen, found, Desktop, told>>
\* 15 s: the page is told to cancel; the action counts as failed.
NativeTimesOut ==
  /\ plan.pc = "native" /\ native.res = "none"
  /\ native' = Free
  /\ toPage' = Append(toPage, [type |-> "cancel", id |-> native.id])
  /\ Continue
  /\ UNCHANGED <<asks, ids, screen, found, Desktop, told>>

\* The screen was captured: the visual planner reads it, or the model does.
\* A capture that fails in a "look" ends its query with a notice.
ShotEnds ==
  /\ plan.pc = "shot" /\ screen.res \in {"ok", "error"}
  /\ screen' = Free
  /\ IF screen.res = "ok" THEN Goto(IF Doing = "gui" THEN "planner" ELSE "answer")
     ELSE IF Doing = "gui" THEN Continue ELSE Goto("notice")
  /\ UNCHANGED <<asks, ids, native, found, toPage, Desktop, told>>
ShotTimesOut_Mut == FALSE /\ UNCHANGED vars
\* 20 s.
ShotTimesOut ==
  /\ plan.pc = "shot" /\ screen.res = "none"
  /\ screen' = Free
  /\ IF Doing = "gui" THEN Continue ELSE Goto("notice")
  /\ UNCHANGED <<asks, ids, native, found, toPage, Desktop, told>>
\* The planner's stream ends: steps the validation accepts are performed.
Planned ==
  /\ plan.pc = "planner"
  /\ \/ RequestNative("native")
     \/ Continue /\ UNCHANGED <<ids, native, screen, toPage>>
  /\ UNCHANGED <<asks, found, Desktop, told>>
ToolEnds ==
  /\ plan.pc = "tool" /\ Continue
  /\ UNCHANGED <<asks, found, Beyond>>

\* The public search returns: sources for the query, or none.  In a browser
\* search an exception is a partial success and the plan goes on; the weather
\* is answered from its own service.
Finds ==
  /\ plan.pc = "find"
  /\ \/ /\ found' = IF Doing = "research" THEN [found EXCEPT !.query = plan.ask, !.results = plan.ask]
                    ELSE [found EXCEPT !.results = found.query]
        /\ Goto("sources")
     \/ UNCHANGED found /\ Goto("notice")
     \/ Doing = "search" /\ UNCHANGED found /\ Continue
     \/ Doing = "research" /\ UNCHANGED found /\ Goto("answer")
  /\ UNCHANGED <<asks, Beyond>>
\* deep_research_last_search filters the results, shows them and reads their
\* pages; "open" shows the one the owner picked, or asks which one.
Sources ==
  /\ plan.pc = "sources"
  /\ IF Doing = "open"
     THEN Goto("notice") /\ \E o \in {found.opened, found.results} : found' = [found EXCEPT !.opened = o]
     ELSE \/ Goto("read") /\ UNCHANGED found
          \/ Goto("notice") /\ found' = [found EXCEPT !.results = 0]
  /\ UNCHANGED <<asks, Beyond>>
\* The bounded reader ends or runs out of time: the pages, or their snippets.
Reads ==
  /\ plan.pc = "read"
  /\ found' = IF Doing = "explain" THEN found ELSE [found EXCEPT !.opened = found.results]
  /\ Goto("answer")
  /\ UNCHANGED <<asks, Beyond>>
\* The answer's stream or the notice's speech ends.
PlanEnds ==
  /\ plan.pc \in {"answer", "notice"}
  /\ plan' = NoPlan
  /\ UNCHANGED <<asks, found, Beyond>>

\* The query is cancelled by an interrupt, a newer text or the watchdog, and
\* unwinds in one go: a native action still wanted is cancelled at the page.
Cancelled ==
  /\ plan.pc # "idle"
  /\ plan' = NoPlan
  /\ toPage' = IF plan.pc = "native" THEN Append(toPage, [type |-> "cancel", id |-> native.id]) ELSE toPage
  /\ native' = IF plan.pc = "native" THEN Free ELSE native
  /\ screen' = IF plan.pc = "shot" THEN Free ELSE screen
  /\ UNCHANGED <<asks, ids, found, Desktop, told>>

NativeResult_Mut(m) ==
  IF native.id # 0 /\ native.res = "none" THEN native' = [native EXCEPT !.res = m.res] ELSE UNCHANGED native
\* native_action_result and screen_capture_result: only for the request waited for.
NativeResult(m) ==
  IF native.id = m.id /\ native.res = "none" THEN native' = [native EXCEPT !.res = m.res] ELSE UNCHANGED native
ScreenResult(m) ==
  IF screen.id = m.id /\ screen.res = "none" THEN screen' = [screen EXCEPT !.res = m.res] ELSE UNCHANGED screen
Receives ==
  /\ toServer # <<>>
  /\ LET m == Head(toServer)
     IN IF m.type = "acted" THEN NativeResult(m) /\ UNCHANGED screen
        ELSE ScreenResult(m) /\ UNCHANGED native
  /\ toServer' = Tail(toServer)
  /\ UNCHANGED <<plan, asks, ids, found, toPage, page, desk, done, told, drops>>

Reply(t, id, r) == toServer' = Append(toServer, [type |-> t, id |-> id, res |-> r])
\* The page takes a message.  The desktop accepts an action or a capture while
\* it has none of its kind, and refuses it otherwise; a refused action reaches
\* the page as a failure of the action in flight.
PageActs ==
  /\ toPage # <<>> /\ Head(toPage).type = "act"
  /\ LET id == Head(toPage).id
     IN IF page # 0 \/ desk.act # 0
        THEN Reply("acted", id, "error") /\ UNCHANGED <<page, desk>>
        ELSE page' = id /\ desk' = [desk EXCEPT !.act = id, !.stopping = FALSE] /\ UNCHANGED toServer
  /\ toPage' = Tail(toPage)
  /\ UNCHANGED <<plan, asks, ids, native, screen, found, done, told, drops>>
PageShoots ==
  /\ toPage # <<>> /\ Head(toPage).type = "shot"
  /\ LET id == Head(toPage).id
     IN IF desk.shot # 0 THEN Reply("shown", id, "error") /\ UNCHANGED desk
        ELSE desk' = [desk EXCEPT !.shot = id] /\ UNCHANGED toServer
  /\ toPage' = Tail(toPage)
  /\ UNCHANGED <<plan, asks, ids, native, screen, found, page, done, told, drops>>
\* cancelNativeAction: a running process is told to end and stays in flight
\* until it has; anything else is forgotten at once.
DeskCancels(id, isProcess) ==
  desk' = IF desk.act # id THEN desk
          ELSE IF isProcess THEN [desk EXCEPT !.stopping = TRUE]
          ELSE [desk EXCEPT !.act = 0]
PageCancels ==
  /\ toPage # <<>> /\ Head(toPage).type = "cancel"
  /\ IF page = Head(toPage).id
     THEN page' = 0 /\ \E p \in BOOLEAN : DeskCancels(page, p)
     ELSE UNCHANGED <<page, desk>>
  /\ toPage' = Tail(toPage)
  /\ UNCHANGED <<plan, asks, ids, native, screen, found, toServer, done, told, drops>>
\* The desktop is done with its action, fails, is stopped, or gives up at 20 s;
\* the page forwards the result of the action it still waits for.
DeskEnds ==
  /\ desk.act # 0
  /\ \E r \in {"ok", "error"} :
       /\ done' = IF r = "ok" THEN done \cup {desk.act} ELSE done
       /\ IF page = desk.act THEN Reply("acted", page, r) /\ page' = 0 ELSE UNCHANGED <<toServer, page>>
  /\ desk' = [desk EXCEPT !.act = 0, !.stopping = FALSE]
  /\ UNCHANGED <<plan, asks, ids, native, screen, found, toPage, told, drops>>
DeskShows ==
  /\ desk.shot # 0
  /\ \E r \in {"ok", "error"} : Reply("shown", desk.shot, r)
  /\ desk' = [desk EXCEPT !.shot = 0]
  /\ UNCHANGED <<plan, asks, ids, native, screen, found, toPage, page, done, told, drops>>

\* The connection is lost.  The Session cancels its waiters and its query; the
\* page cancels its action and connects anew, to a Session without a search.
Drops ==
  /\ drops < MaxDrops
  /\ drops' = drops + 1
  /\ plan' = NoPlan /\ native' = Free /\ screen' = Free /\ found' = NothingFound
  /\ toPage' = <<>> /\ toServer' = <<>> /\ page' = 0
  /\ IF page # 0 THEN \E p \in BOOLEAN : DeskCancels(page, p) ELSE UNCHANGED desk
  /\ UNCHANGED <<asks, ids, done, told>>

Works ==
  \/ StartsNative \/ StartsCapture \/ SearchNotClear \/ StartsPage \/ StartsResearch \/ StartsFollowUp
  \/ Summarises \/ NativeEnds \/ NativeTimesOut \/ ShotEnds \/ ShotTimesOut \/ Planned \/ ToolEnds
  \/ Finds \/ Sources \/ Reads \/ PlanEnds
Next ==
  \/ \E p \in Plans : Ask(p)
  \/ Works \/ Cancelled \/ Receives \/ PageActs \/ PageShoots \/ PageCancels \/ DeskEnds \/ DeskShows \/ Drops

\* The loop runs what is ready, every deadline passes, the page reads its socket.
\* Nothing is assumed of the desktop: its answer may never come.
Spec == Init /\ [][Next]_vars
FairSpec ==
  /\ Spec /\ WF_vars(Works) /\ WF_vars(Receives)
  /\ WF_vars(PageActs \/ PageShoots \/ PageCancels)

\* An action the owner is told was carried out was carried out on the desktop,
\* and it is this one, not an earlier one whose answer came late.
SuccessIsReal == told \subseteq done

\* When no plan runs there is no waiter, and once the socket is empty neither
\* the page nor, unless a process is still ending, the desktop is at an action:
\* interrupts, deadlines and lost connections leave nothing behind.
QuietIsClean ==
  plan.pc = "idle" =>
    /\ native = Free /\ screen = Free
    /\ toPage = <<>> => page = 0 /\ (desk.act # 0 => desk.stopping)

\* The results a follow-up reads were found for the query that the source cards,
\* the filters and the answer name with them.
ResultsAreOfQuery ==
  found.results # 0 => found.results = found.query

\* The goal kept for the synthesis is the one of the query it is kept for.
GoalIsOfQuery == found.query # 0 => found.goal = found.query

\* Every plan ends, whether the desktop answers or not.
PlansEnd == plan.pc # "idle" ~> plan.pc = "idle"
=============================================================================
