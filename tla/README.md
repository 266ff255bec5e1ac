# MERRICK: models, checks and proofs

This directory holds TLA+ models of MERRICK, the TLC configurations that check
them, and theorems about them proved with TLAPS. Every definition is translated
from the source; `PROJECT.json` maps each to the lines it stands for. Paths
below are relative to the repository.

## 1. The system

MERRICK is a desktop voice assistant. A Swift shell (`desktop/MerrickApp.swift`)
hosts a web HUD (`web/`), captures audio and supervises a Python backend
(`server/main.py`, FastAPI). The backend keeps one `Session` per websocket, calls
an OpenClaw gateway (models, tools, sessions, task ledger) through a Node bridge,
and stores its own data in JSON files and SQLite.

| Component | State it keeps | Operations | Interacts with |
|---|---|---|---|
| Plan Mode coordinator, `server/plan_mode.py` | one draft: approaches, steps, statuses, selection | load, select, bind, start next/all, finish step, cancel | called synchronously by the session |
| Agent board, `server/multi_agent.py` | active run, its children, `_cancel_requested`; a JSON snapshot | `execute`, `add_child`, `close_child`, `cancel`, `finish`, `reconcile` | gateway RPC (`sessions_spawn`, `tasks.list`, archive), session coroutines |
| Plan execution, `server/main.py` | `plan_mode_execution_task`, `query_task`, board commands | `plan_mode_*` and `multi_agent_*` handlers, `run_plan_mode`, `run_parallel_plan_mode` | coordinator, board, Organizer, `run_query` |
| Session: turns, `server/main.py` | turn number, query task, draft, speech queue, watchdog | typed and spoken text, drafts, interrupt, recovery of a silent stream, speech drain | gateway streams, TTS, HUD |
| Session: actions and research, `server/main.py` | one waiter per native action and capture, the last search | plans of actions, captures, searches, follow-ups | page, desktop shell |
| Session: approvals, `server/main.py`, `server/openclaw_client.py` | waiters, forwarding tasks, the gateway's pending approvals | subscribe, present, decide, resolve, expire | gateway, page |
| Gateway RPC, `server/openclaw_gateway_rpc.py` and `openclaw/gateway-client-bridge/index.mjs` | bridge process, pending calls by id, reader task | start, request, stop | OpenClaw |
| Gateway client, `server/openclaw_client.py` | gateway process, owner record, startup lock, migration lease | ensure ready, prewarm, recover, shut down, repair offline | OpenClaw, operating system |
| Memory, `server/main.py` and `server/local_memory.py` | preference cards with audit and snapshot; lifecycle and episodes in SQLite; transcript parts; wiki page | confirm, forget, observe, import, consolidate, save, sync | session, threads, OpenClaw |
| Organizer, `server/organizer.py` | tasks, reminders, meetings, newspapers, briefings in SQLite | create, move, complete, record, summarise, write | session, scheduler, desktop notifications |
| Capability catalog, `server/capability_catalog.py` | a review per session, one management lock, a snapshot of the inventory | list, review, install, upgrade, enable, remove | session, OpenClaw |
| Speech, voice identity, audio isolation, library, helpers | worker processes; mostly numeric, pure or file I/O | | session |
| Web HUD, desktop shell, plugin, scripts | rendering, process supervision | | backend |

What makes it hard:

- **Interleavings at awaits.** The backend is one asyncio thread. Nothing is
  locked across an await except the moment a run is created
  (`multi_agent.py:547`). `execute`, every `add_child`, every `close_child`, the
  cancel and the plan's task share one mutable run and read it before and after
  gateway calls.
- **A gateway that answers late, wrongly or not at all.** Spawns are refused or
  lost after the session was created; polls answer from an older ledger; archives
  fail before or after they took effect; the wait for children ends after 330 s.
- **Cancellation.** An owner's cancel, a close of one card, an interrupt
  (`Task.cancel`) and the replacement of the draft arrive at any await.
- **Identity.** Step ids belong to the planner and repeat between drafts; only
  some handlers compare plan or run ids.
- **Threads and files.** Memory and the Organizer write from threads, in several
  files and transactions, and a row read before an await is written after it.
- **Processes.** The gateway, its bridge and the backend start, die and are adopted
  or reclaimed independently; only a record on disk survives a backend.
- **Clocks.** The gateway keeps an approval 120 s, the card waits 180 s, the response
  150 s; a stream has three deadlines and a watchdog.

What makes each component correct, in short: the coordinator's plan status agrees
with its steps and outcomes are final; the board never shows a success the ledger
does not hold, never hides a card whose session lives on, and never waits for an
event nobody delivers; results of plan steps land on the steps that were worked
on; a newer turn silences the older answer, and every answer ends; an action told
as done was done; only the owner allows; RPC results reach their own call; one
gateway at a time works on the database; memory keeps what was confirmed, with a
record of it; the desktop's notification is the reminder's; what is installed was
reviewed. The `hazards` of `PROJECT.json` list where these can break, line by line.

## 2. Modules

| Module | Models | Composes |
|---|---|---|
| `PlanMode` | the coordinator, one action per method | |
| `MultiAgent` | the board and the coroutines of the session that drive it, await by await, with the gateway as environment | |
| `MultiAgentProofs` | its theorems | extends `MultiAgent` |
| `PlanExecution` | the session's plan handlers and execution task, with the board reduced to its run's status | instantiates `PlanMode` |
| `PlanExecutionProofs` | its theorems | extends `PlanExecution` |
| `RPCCalls` | what the RPC promises its callers: the abstract specification | |
| `GatewayRPC` | the RPC client and its bridge processes | instantiates `RPCCalls` with a refinement mapping |
| `GatewayLifecycle` | starting, adopting, linking to, replacing and reclaiming gateway processes | |
| `GatewayProofs` | the theorems of both, among them the step by step refinement of `RPCCalls` | extends `GatewayLifecycle`, instantiates `GatewayRPC` |
| `Turn` | the turns of one session: queries, drafts, interrupts, watchdog, speech queue | |
| `TurnProofs` | its theorems | extends `Turn` |
| `Actions` | plans of native actions, captures and searches, with the page and the desktop | |
| `ActionsProofs` | its theorems | extends `Actions` |
| `Approvals` | approvals of OpenClaw's tools, with the page and the gateway's clock | |
| `Memory` | preference cards, lifecycle, import, wiki page and transcript, with threads and crashes | |
| `OwnerProofs` | the theorems of what the owner decides: approvals and memory | extends `Approvals`, `Memory` |
| `Reminders`, `Meetings`, `Editions` | the Organizer's parts | extend `OrganizerLink` (the connection) |
| `Organizer` | the Organizer: one receive loop, one scheduler, one connection | extends the three parts |
| `PlannerProofs` | the theorems of what the owner plans with: Plan Mode and the Organizer | extends `PlanMode`, `Organizer` |
| `CapabilityCatalog` | a plugin reviewed and changed by two sessions | |
| `CapabilityCatalogProofs` | its theorems | extends `CapabilityCatalog` |
| `MC...` | values and symmetry for TLC | extend the module they name |

### PlanMode

`draft` is `_draft`: an id (0 for None), a status, the selected approach, the
approaches that are linked to Organizer tasks, and the status of every step. All
methods are synchronous, so each is one action; a method that raises changes
nothing and has no action. The order of the tests in `finish_step` is kept in
`PlanStatusOf`. Titles, details, results and the parsing of the planner's output
are left out.

### MultiAgent

- `active`, `run`, `kid`, `flag` are the controller's `active` run, the statuses
  of runs, the children, and `_cancel_requested`. Older runs stay in `run` and
  `kid` because coroutines of a replaced run still hold on to them.
- `co` holds the coroutines: `execute` (with the caller that finishes its run:
  `run_parallel_plan_mode` for plans, `start_or_append_manual_agent` otherwise) and
  one `add_child` per appended child. `closer` holds the concurrent `close_child`
  calls, `canceller` the two callers of `cancel`: the receive loop, and the task of a
  plan that was interrupted. A `pc` names the await a coroutine is suspended in; each
  action runs it to its next await.
- `Interrupted` is `Task.cancel` on the task that runs a plan, which speech, a newer
  text or another language causes, at whatever await it stands. What was in
  flight then (`CutOff`) takes effect upstream or not, but its answer reaches nobody,
  since `_spawn_child` catches `Exception` only; the handler in `run_plan_mode` calls
  `cancel` where that applies (`Cancellable`). `InterruptedAgain` is a second interrupt
  in that handler. `cut` is history: the children an interrupt left to nobody.
- `task`, `owner`, `archived` are the gateway: ledger status of each session, the
  child it was spawned for, and whether it is archived.
- A poll's reply may come from the ledger of the call or from a later one, and
  reading a transcript suspends the loop in the middle of a reply (`asked`, `todo`).
- A websocket send normally finishes at once, so nothing runs between it and what
  follows; with `"backpressure"` in `Env` it suspends. That distinction decides
  some races, so the runs say which of the two they assume.
- `Env` and `Commands` switch parts of the environment on. They restrict what
  happens, never what the code does. `"late_add"` lets the owner append a child while
  a run's results are being reported, `"overlap"` lets a run begin while coroutines of
  the last one are still at work; without them the owner waits.

Abstracted: texts, timestamps, ids, card order, the polling interval (a poll may
happen at any time) and the clock (the limit may be hit at any completed poll).
Not modelled here: that the end of the connection also cancels the tasks of `add_child`
and of a manual run, and `_load`, `_persist` and `reconcile`. The watchdog of a turn
leaves a parallel plan alone (`openclaw_owns_active_turn_lifecycle`).

### PlanExecution

`exec` holds the tasks of `run_plan_mode` (awaiting `run_query`, the Organizer,
the board's `execute`, the synthesis, or the board's cancel), `latest` is
`plan_mode_execution_task`, `rx` what the receive loop is suspended in. The
coordinator is `Plan == INSTANCE PlanMode`; every call of it uses that module's
actions and operators. `worked`, `failed` and `done` record what was carried out,
what `run_query` reported only to the owner, and which Organizer tasks were
completed. A new draft may arrive at any moment, from the drafting task or the
automatic router. Left out: an Organizer that refuses to create a project, a
board whose cancel raises inside the receive loop (that ends the session), and
agents the owner appends to a plan's run (they are in `MultiAgent`).

### GatewayRPC and RPCCalls

`pc` and `on` say what each calling or stopping task awaits and at which bridge;
`bridge`, `inbox` and `pipe` are the Node processes and the frames between them and
the gateway; `reader` is the reader task of each bridge. `process`, `current`,
`ready` and `pending` are the fields all bridges share, and the source of the
races: the end of an old reader fails what belongs to its successor. A call may
time out, be cancelled, be answered later, or be executed although its caller is
told of an error. Seen from the callers it must be `RPCCalls`; the mapping `Status`
reads what each caller has been told. A cancelled caller maps to `error`: the
gateway may still execute its call. Event subscriptions are left out here. So are
`process.stdin.drain()`, which no `wait_for` covers (the fairness of a send assumes a
bridge that reads its pipe), a reader that dies of an oversized frame, and a caller
cancelled inside `start`; what the last two tell their callers `RPCCalls` allows.

### GatewayLifecycle

`gw`, `orphan`, `legacy`, `lease`, `broken` and `record` are the world: gateway
processes, the database's migration lease and `owner.json`. `process`, `port`,
`bridge` and `lock` are the client's fields, `task` what each task awaits inside
`ensure_ready`, `prewarm`, recovery and `shutdown`. A backend may crash at any await
(everything but the world is lost), a gateway may crash or miss a health request,
its record may be lost and is restored by `watch_native_parent` (`restoring`).
`Env`: `"cancel"` (a turn's task is cancelled), `"slow_health"` (a serving gateway
misses a health request), `"lost_record"` (other hands remove the record of a gateway
that serves), `"slow_exec"` (a launched script is not recognisable as a gateway at
once). `OneGateway` is claimed without the last one, and for a record lost while its
gateway serves: removed later, while two overlapping shutdowns still wait for the
process, it would let the next attempt start beside a gateway that is stopping. The test
for a living owner and the thread that clears a stale lease after it are one step
(`Prepare`).

### Turn

`query` holds every query task, `cur` the one in `query_task`, `caller` what the
receive loop and the drafting task await, `mic` the state of the utterance, `sound`
the speech queue and the item being synthesized, `dog` the watchdog. `silenced` and
`dropped` are history. Time passes in units of 12.5 s, rounded: the first-delta deadlines of
25, 40 and 60 s are 2, 3 and 5 units, the watchdog's 35 s are 3, counted from the last
progress. `Env`: `"quick_click"` (a research topic is
picked while something runs), `"endless"` (a stream stops for ever although no
watchdog looks after it).

### Actions and Approvals

`Actions`: `plan` is the query that executes a plan of actions, `native` and `screen`
the two waiters, `found` the last search with its results, goal and opened page; page
and desktop are modelled from `web/app.js` and `desktop/MerrickApp.swift` as far as
they relay, perform and cancel. `Approvals`: time passes in units of 30 s; the
gateway keeps an approval 4 units, the card waits 6, the response is given up after
5 silent ones. Each response has a forwarding task of its own, `leaked` remembers those
interrupted while arming, which nobody cancels, and an event of the gateway reaches
every task that is subscribed. `Env`: `"rpc_down"` (the transport fails), `"silent_tools"` (nothing
is streamed when a tool asks or goes on).

### Memory

One preference with several possible values. `writer` steps through the four writes
of `_apply_memory_revision` (audit, card, snapshot, database), and the process may
stop or the disk fill between any two. `threads` are consolidations of turns, `boot`
imports of the old archive; each reads in one step and writes in another. `turns`,
`saving` and `archive` are the transcript, saved in parts while turns go on; `wiki`
the page OpenClaw holds and the calls that update it. The removal of cards that were
misclassified as preferences is left out.

### Organizer

`Reminders` follows one task, its project, its reminder and the notification the
desktop holds, through the panel, voice, OpenClaw's tools and the scheduler.
`Meetings` follows one meeting from its first line to its action item. `Editions`
follows a newspaper and a briefing. In each a SELECT and the UPDATE after it are two
steps, because the store runs in threads. `Organizer` composes them: panel commands
wait for the receive loop, the scheduler does one thing at a time, and a lost
connection ends what belongs to the session. `RemindersEnv`: `"tool"` (OpenClaw's
task tools are used), `"late_tick"` (a command runs between the scheduler's read and
its request), `"denied"` (the desktop refuses), `"both_move"` (the panel and a tool
move it at once). `MeetingsEnv`: `"both"` (panel and
voice confirm at once), `"dies"` (the process dies, or the store fails, between two
transactions of a confirmation), `"store_fails"` (the transaction of a line or of the
summary fails). A transcript is the sequence of stored lines; `Recent` is the end of it
that fits into 30 000 characters, counted in lines of equal length (`Window`), and
`unsaved` remembers the lines whose insert failed.

### CapabilityCatalog

One plugin and two HUD sessions. `at` is the message each session is handling,
`review` its `pending_capability_review`, `lock` the management lock, `cache` the
snapshot file, `hud` what each panel shows, `change` the last install with what had
been reviewed for it. `Env`: `"listed"` (an entry of `plugins.list` is installed
without its version), `"fails"` (calls are refused or lose their answer, the restart
or the CLI fails). That a failing read falls back on the snapshot is the behaviour with
`JARVIS_CAPABILITY_ADAPTER_V1=true`; without it the read raises, as here with an empty cache.

## 3. Runs

| Run | Checks | Bounds |
|---|---|---|
| `plan_mode` | `TypeOK`, `StatusTellsSteps`, `StartedInOrder`, `OutcomesAreFinal` | two approaches (sequential, parallel) of three steps, two drafts |
| `plan_execution` | `TypeOK`, `SuccessWasWorked`, `TasksTellSteps`, `InterruptHonoured` | two drafts, two approaches of two steps, a manual run on the board, every failure of `Env` |
| `board_faulty` | `TypeOK`, `TruthfulSuccess`, `ClosedIsArchived` | a manual run with an appended child, two sessions, closes; queued tasks, lost spawns, failing polls and archives, the time limit |
| `board_fair` | `QuietIsSettled`, `NoRunawayWork`, `OutcomeTellsChildren`, `RunsEnd`, `CloseHonoured` | a plan's run of two children (both steps, or one appended), one of them accepted; cancels, closes, interrupts, refused and lost spawns |
| `gateway_rpc` | `ImplementsRPCCalls` | two callers, one stop, two bridge processes |
| `gateway_lifecycle` | `OneGateway`, `LeaseIsKept` | a turn, the prewarm task and a recovery, three gateways, one crash or lost record, one pending repair, cancels, missed health requests |
| `turn` | `NewerTurnInvalidates`, `NoStaleSpeech`, `QuietIsIdle`, `WatchdogComesFirst`, `QueriesEnd` | two queries, two texts, three turn numbers, one queued block of speech |
| `actions` | `SuccessIsReal`, `QuietIsClean`, `ResultsAreOfQuery`, `PlansEnd` | three requests out of eight plans, five request ids, one lost connection |
| `approvals` | `OwnerDecides`, `NoDeadCard` | two approvals, three responses of which any may leak its forwarding task, a failing transport |
| `memory` | `CardsFollowAudit`, `StagesNeedGrounds`, `SavedIsArchived` | two values, three turns saved in parts of two, two consolidations and one import at once, one crash |
| `organizer` | `NotificationFollows`, `SummaryHearsTheEnd`, `ScheduledNeverReplaces`, `ReminderIsAsked` | two commands, two moments, two days, two goals, two lines of a meeting of which one fits into the summary, transactions that fail, one lost connection |
| `catalog` | `InstalledAsReviewed`, `OwnAnswerSurvives`, `FreshIsTrue` | two sessions, two versions, three messages, every failure |

What they show:

- *Plans.* Statuses, steps and Organizer tasks agree although `finish_step` does not
  check which plan a result belongs to. What prevents misattribution is the
  `PLAN_BUSY` test in the handler of `plan_mode_run`; the mutant that drops it breaks
  `SuccessWasWorked`.
- *Board.* Whatever the order of appends, closes and gateway replies, a card says
  "succeeded" only if a session spawned for it has succeeded in the ledger, and a
  hidden card's session is archived. Under cancels, closes, interrupts and failing
  spawns runs end, with the status the children justify; no child is left waiting and
  no session works on behind a cancelled card, except where an interrupt cut off
  the very call that was to see to it; none works on behind a card that is hidden or
  says it succeeded.
- *Gateway RPC.* Two bridges' readers, a stop and late frames never give a caller a
  result for a call that was not executed, or two answers, or none.
- *Gateway process.* The record, the lock and the sweep keep at most one gateway on
  the database through cancels, crashes and a shutdown during a start.
- *Turns.* An answer that was at work when a newer text or an interrupt came produces
  nothing more, none of its speech is sent under the new turn number, the HUD ends
  idle, and every query ends by its answer, its deadlines or the watchdog.
- *Actions and approvals.* A late answer of the desktop is never taken for the next
  action's, nothing is left behind on page or desktop, every plan ends even if the
  desktop never answers; what the gateway allows the owner allowed on that card, and
  every card on the page has a task that waits for its answer.
- *Memory.* No stop or full disk leaves a preference in force without its audit
  record; threads never make one active that was not confirmed.
- *Organizer.* The notification the desktop holds is the reminder's, a summary is
  made from the end of the meeting that fits, without a gap but for lines whose insert
  failed, a scheduled edition never replaces the owner's, and a pending
  reminder is asked for while the connection holds.
- *Catalog.* What is installed is the version and the warnings the owner was shown,
  a change never ends its own session's answer, a panel not marked stale is true.

Why the bounds suffice: every race in these modules is between two or three
parties. Two children separate "this child" from "a sibling"; two drafts suffice for
a stale plan; two bridges or two of three gateways for a stale process; two queries
for an older answer; two values, versions, goals or moments for "the other one"; one
crash or lost connection puts every await before and after it. Steps of one approach
interact only through "first pending" and "all of them", which three steps tell
apart. The Organizer's commands are bounded per part and, if they mix parts, in
total (`MaxMixed`): the parts share only the loop, the scheduler and the connection.
With three commands the run takes several times as long;
`NotificationsFollow` holds for any number.
`board_fair` has one upstream session, so that the second child is refused or lost:
two accepted siblings are in `board_faulty`. The theorems below remove the bounds for
the properties they cover; those of `NoRunawayWork` and `OutcomeTellsChildren` also let
polls fail, tasks stay queued, the limit expire and children come late, which TLC
confirms in 1.2 million states with `Spec`, `MaxSessions = 2` and every command;
`QuietIsSettled` holds in as many with two runs of one step.

Properties are claimed for the environments of their runs; section 5 says where they
fail. The systems may stop at any point where the owner does nothing, so deadlock is
not checked.

**Fairness.** The event loop resumes every coroutine whose await is over in FIFO
order; gateway calls and waits have timeouts and therefore end; OpenClaw ends every
task, since each spawn passes `runTimeoutSeconds`. `MultiAgent` uses strong fairness
per coroutine, because with sends that do not suspend a coroutine is enabled and
disabled in turn while another one sends. `PlanExecution`, `GatewayRPC`, `Turn` and
`Actions` need weak fairness only: of each task, reader or query, of time passing, and
of the page reading its socket; nothing is assumed of the desktop. `Organizer` is
strongly fair to the scheduler's read of the reminders: every pass begins with it,
however often the scheduler is at a newspaper. Nothing makes the owner act.

Each property of a run has a mutant in `PROJECT.json`: a plausible bug in one mapped
definition (`..._Mut` beside it) with which TLC refutes the property.

## 4. Proofs

| Theorem | States | Assumes |
|---|---|---|
| `PlannerProofs!TypeCorrect` | `Spec => []TypeOK` | `PlanAssumption` |
| `PlannerProofs!StatusIsTrue` | `Spec => []StatusTellsSteps` | `PlanAssumption` |
| `PlannerProofs!StepsStartInOrder` | `Spec => []StartedInOrder` | `PlanAssumption` |
| `PlannerProofs!OutcomesStayFinal` | `Spec => OutcomesAreFinal` | `PlanAssumption` |
| `MultiAgentProofs!BoardTypeCorrect` | `Spec => []TypeOK` | `MultiAgentAssumption` |
| `MultiAgentProofs!SuccessIsTruthful` | `Spec => []TruthfulSuccess` | `MultiAgentAssumption` |
| `MultiAgentProofs!HiddenIsArchived` | `Spec => []ClosedIsArchived` | `MultiAgentAssumption`, no `"backpressure"` |
| `MultiAgentProofs!OutcomeIsJustified` | `Spec => []OutcomeTellsChildren` | `MultiAgentAssumption`, `Smooth`: no `"backpressure"`, `"archive_fails"`, `"overlap"` |
| `MultiAgentProofs!NothingWorksOn` | `Spec => []NoRunawayWork` | the same, no `"cancel_fails"` |
| `MultiAgentProofs!BoardSettles` | `Spec => []QuietIsSettled` | `Smooth`, and `Patient`: no `"list_fails"`, `"timeout"`, `"late_add"` |
| `PlanExecutionProofs!ResultsLandWhereWorked` | `Spec => []SuccessWasWorked` | `PlanExecutionAssumption` |
| `PlanExecutionProofs!TypeCorrect` | `Spec => []TypeOK` | `PlanExecutionAssumption` |
| `PlanExecutionProofs!OrganizerHearsTheTruth` | `Spec => []TasksTellSteps` | `PlanExecutionAssumption` |
| `GatewayProofs!TypeCorrect` | `Spec => []TypeOK` | `GatewayLifecycleAssumption`, no `"slow_exec"` |
| `GatewayProofs!OneGatewayWorks` | `Spec => []OneGateway` | `GatewayLifecycleAssumption`, no `"slow_exec"` |
| `GatewayProofs!LeaseOfTheLivingIsKept` | `Spec => LeaseIsKept` | `GatewayLifecycleAssumption`, no `"slow_exec"` |
| `GatewayProofs!RPCTypeCorrect` | `RPC!Spec => []RPC!TypeOK` | `RPCAssumption`, which is `GatewayRPCAssumption` |
| `GatewayProofs!CallersSeeRPCCalls` | `RPC!Spec => RPC!Abstract!Init /\ [][RPC!Abstract!Next]_(RPC!Abstract!vars)` | `RPCAssumption` |
| `TurnProofs!TypeCorrect` | `Spec => [](TypeOK /\ Typed)` | `TurnAssumption`, no `"quick_click"` |
| `TurnProofs!OneQueryAtATime` | at most one query is alive, the one in `query_task` | `TurnAssumption`, no `"quick_click"` |
| `TurnProofs!NewerTurnSilences` | `Spec => []NewerTurnInvalidates` | `TurnAssumption`, no `"quick_click"` |
| `TurnProofs!NoOldSpeechIsPlayed` | `Spec => []NoStaleSpeech` | `TurnAssumption`, no `"quick_click"` |
| `TurnProofs!NoWatchedRestart` | `Spec => []WatchdogComesFirst` | `TurnAssumption`, no `"quick_click"` |
| `TurnProofs!QuietSessionIsIdle` | `Spec => []QuietIsIdle` | `TurnAssumption`, no `"quick_click"` |
| `TurnProofs!DraftsWaitForEndpoint` | `Spec => DraftsWait` | `TurnAssumption`, no `"quick_click"` |
| `ActionsProofs!TypeCorrect` | `Spec => []TypeOK` | `ActionsAssumption` |
| `ActionsProofs!SuccessIsTold` | `Spec => []SuccessIsReal` | `ActionsAssumption` |
| `ActionsProofs!QuietSessionIsClean` | `Spec => []QuietIsClean` | `ActionsAssumption` |
| `ActionsProofs!FollowUpsReadTheirResults` | `Spec => []ResultsAreOfQuery` | `ActionsAssumption` |
| `OwnerProofs!TypeCorrect` | `Spec => []TypeOK` | `ApprovalsAssumption` |
| `OwnerProofs!OnlyTheOwnerAllows` | `Spec => []OwnerDecides` | `ApprovalsAssumption` |
| `OwnerProofs!NoCardAnswersNothing` | `Spec => []NoDeadCard` | `ApprovalsAssumption` |
| `OwnerProofs!MemoryTypeCorrect` | `MemorySpec => []MemoryTypeOK` | nothing |
| `OwnerProofs!CardsNeverPassAudit` | `MemorySpec => []CardsFollowAudit` | nothing |
| `OwnerProofs!StagesAreGrounded` | `MemorySpec => []StagesNeedGrounds` | nothing |
| `OwnerProofs!SavedTurnsAreArchived` | `MemorySpec => []SavedIsArchived` | nothing |
| `OwnerProofs!NothingUnconfirmedIsKept` | every value in cards, audit, snapshot, active rows and writes under way was confirmed | nothing |
| `OwnerProofs!OneImportConsolidatesOnce` | `MemorySpec => []ConsolidatedOnce` | one import at a time |
| `PlannerProofs!RemindersTypeCorrect` | `OrganizerSpec => []RemindersTypeOK` | nothing |
| `PlannerProofs!NotificationsFollow` | `OrganizerSpec => []NotificationFollows` | no `"both_move"`, no `"late_tick"` |
| `PlannerProofs!MeetingsTypeCorrect` | `OrganizerSpec => []MeetingsTypeOK` | nothing |
| `PlannerProofs!SummariesHearTheEnd` | `OrganizerSpec => []SummaryHearsTheEnd` | nothing (`Window` any number) |
| `PlannerProofs!ConfirmedIsOneTask` | `OrganizerSpec => []OneTaskPerItem` | no `"both"`, no `"dies"` |
| `PlannerProofs!EditionsTypeCorrect` | `OrganizerSpec => []EditionsTypeOK` | `EditionsAssumption` |
| `PlannerProofs!SchedulerNeverReplaces` | `OrganizerSpec => ScheduledNeverReplaces` | `EditionsAssumption` |
| `CapabilityCatalogProofs!TypeCorrect` | `Spec => [](TypeOK /\ SessionsHandle)` | `CapabilityCatalogAssumption` |
| `CapabilityCatalogProofs!OneManagerAtATime` | at most one session is inside the management lock | `CapabilityCatalogAssumption` |
| `CapabilityCatalogProofs!InstalledIsReviewed` | `Spec => []InstalledAsReviewed` | the same, no `"listed"` |
| `CapabilityCatalogProofs!OwnAnswerIsSpared` | `Spec => OwnAnswerSurvives` | `CapabilityCatalogAssumption` |
| `CapabilityCatalogProofs!FreshPanelsAreTrue` | `Spec => FreshIsTrue` | `CapabilityCatalogAssumption` |

The assumptions say that approaches have at least one step and one of the two
execution modes, that bounds are natural numbers (at least one gateway process), that actors
and values are not the values that stand for "none", and which kinds of action a plan
is made of. "Nothing" means that not even those are used. The sets of commands and of
failures are arbitrary, with these exceptions: `TurnProofs` needs
that the owner picks a research topic only while nothing runs,
`InstalledIsReviewed` that no entry of `plugins.list` is installed without its
version, `HiddenIsArchived` that a send to the page does not suspend the
coroutine that makes it, the three theorems after it that moreover archives succeed
and runs do not overlap, and two of these that polls or cancels go well, the life
cycle that a launched script is recognisable in
the process list at once; `OneImportConsolidatesOnce` that imports do not overlap,
`ConfirmedIsOneTask` that confirmations do not and that the process outlives one, and
`NotificationsFollow` that two moves of a reminder do not overlap and that no command
runs under the scheduler's request. The code guarantees none of them: but for the life
cycle's, section 5 has the runs in which TLC refutes the statements without them. The
theorems say that nothing else can break them.

`TruthfulSuccess` is not inductive. Success is copied into a child from three
places, and each needs its own part of the invariant `Honest`:

- `KidHonest`: a child's receipt names a session that was spawned for it, and a
  child that succeeded has a session the ledger holds as succeeded;
- `CoHonest`: a coroutine's half-applied reply pairs each child with a session of
  its own, and if the reply says "succeeded" the ledger still does;
- `CloserHonest`: the status a `close_child` will restore if archiving fails was
  true when it was read, and still is.

A child removed from the board by a close is one whose session was archived
(`ClosedIsArchived`), and that breaks as soon as a session is spawned for a child
that is already closed, or for one that has another session. `Spawners` says why it
is not: a child is in the hands of one coroutine at most (`Held`, `Hands`), a child
nobody has reached yet has no session and is not closed (`Untouched`, `Unspawned`),
and no child belongs to a run that has not begun. `execute` reads its list of children after
its first send; a send that suspends lets `add` append a child in between, which both
then spawn. Hence the assumption: TLC refutes the statement without it (section 5).

The three other properties of the board rest on `Board`, which adds to these parts what
its coroutines know of each other. `OneRun`: one run is at work and all hands belong to
it. `Cards`: who may still write which card; a coroutine inside a reply, a
`close_child` or a cancel holds an old view of a card, and `Cards` bounds how old it
can be. From it success is stable (`SuccessStays`): no late close, cancel or poll takes
it back.

- `OutcomeTellsChildren` (`Reports`): what the caller of `execute` has recorded as
  passed is exactly what has succeeded of the children it was given, and what they are
  is fixed when `execute` returns. A final status is then `Justified` when it is
  written, and stays so because successes are stable and no child is appended to a run
  that is over.
- `NoRunawayWork` (`Receipts`): each session belongs to the card that has its receipt,
  or the receipt was lost and the card, still visible, says "failed" or was cut off
  (`Lost`). While a cancel is at work, each session of the run that still works is yet
  to be listed or stopped by it, or archived by the spawn that has it in hand, or an
  interrupt cut that off (`Attended`); the owner's cancel owes this until `execute`,
  which settles the children of a cancelled run too, is over (`Owed`).
- `QuietIsSettled` (`Ends`): every live child that was not cut off is polled by its
  run's loop, in the hands of a coroutine, or settled by a cancel at work (`Minded`,
  `Settling`). After the loop nobody polls, so whatever is in hand then must be
  unwanted: cancelled, not yet spawned, or asked to be closed (`Wanted`, `LoopOver`).
  `RunEnds` says that a run is over when its caller is done, or that the cancel which
  ends it is at work. When nothing is at work, nothing can be live.

The ledger's own steps never take a success back (`LedgerKept`), so each part only
has to be re-established by the action that writes it. The typing proof has one
lemma per kind of update (`KidUpdate`, `CoUpdate`, `SettleTyped`,
`SpawnNextTyped`) and one step per action. In `PlanMode` the properties are
inductive together with `TypeOK`; what the proofs add is a lemma per kind of update
that says which fields it changes (`StartFields`, `FinishFields`, `CancelFields`)
and `PlanStatusTells`, what `PlanStatusOf` says of a set of statuses.

`SuccessWasWorked` is not inductive either, because `finish_step` looks at the step
id alone. What makes a result land where it was worked is the invariant `IInv`:

- `OneBusy`: at most the latest task is alive, which is what `PLAN_BUSY` buys;
- while a task is engaged in a plan that was replaced, no step of the successor
  runs, so its late results find no step to land on;
- while it works on the plan that is loaded, the selection is the one it started
  with (the status admits no `select`), and the steps it waits for all run, or
  were cancelled together; outcomes still to be recorded are those of real work.

`Running`, `Finished`, `Recorded` and `Cancelled` say what each update of the
draft does; `TaskStep` and `HandlerKept` say what a step of a task and a handler
leave alone; then there is one lemma per action. TLC checked the parts of `IInv`
before they were proved.

The other proofs, by the invariant `IInv` of each module:

- `PlanExecution`, second layer (`Tells`): what a task is about to tell the
  Organizer (`Completed`), and what it was told (`done`), is of steps the loaded
  draft shows as succeeded (`Told`), or of an earlier draft. It needs `IInv`: only
  from there is it known that a batch records the steps of the approach it worked
  on. `Onward` is the fact every update of the draft has to give: what succeeded
  stays so and linked approaches stay linked. `Sized` is also what `TypeOK` was
  missing: a task's plan, approach and steps fit each other although the draft they
  came from may be gone.
- `GatewayRPC` (`RPCInv`): `ToldWhenEnded`, `OnlyMadeCalls` (inboxes and the table hold only
  calls that were made) and `ResultsAreServed` (a result frame in any pipe is of a
  call the gateway executed). With these each action is a step of `RPCCalls` under the
  mapping or a stutter, one lemma per action; `FailAll` is what a reader that ends
  does. Fairness is not part of the theorem.
- `GatewayLifecycle` (`LifeInv`): `Relies` is what a suspended task counts on. Inside
  the startup it holds the lock, and keeps it through the shutdown of a failed
  attempt; it prepares, spawns and repairs only while no gateway is alive. From the
  spawn until the database is whole the record names the one that was spawned, so
  the shutdown before a repair stops every gateway there is; a shutdown from outside
  may forget port and process of a start in progress, but that record stays as long
  as the gateway lives. No gateway serves a database that needs a repair
  (`ServesWhole`), so a record lost under a serving one cannot make a repair begin
  beside it. `AtMostOne` follows, and from it that the lease of a living gateway is
  given back by that gateway only.
- `Turn`: `OneQuery` and `Waits` say that at most one query is alive and who waits
  for whom, so that two entry points cannot each start one; `Silences` and `Tagged`
  that what was at work when the turn advanced is unwinding and that no block of
  speech is ahead of the turn, from which `NoStaleSpeech` is inductive; `Fresh`,
  `DeadlinesAreOurs` and `Watched` relate what the watchdog counted to the deadlines
  of the stream: 2 units before the first, 5 before the restart.
- `Turn`, second layer (`Calm`): while the last status is "thinking", someone who
  will send idle is left (`Settles`): the receive loop that waits for a query's end,
  a query that is inside its `try`, gives a notice or has not begun (`Idles`), or the
  watchdog that is ending the query of this turn. The rest says why that someone is
  not lost: while the watchdog ends a query the others are over (`Gathering`), it
  never ends a notice of its turn (`Outrun`), no text is on its way while the chooser
  is open (`Unchosen`), and a draft replaced at its endpoint is inside its `try`
  (`SpecTried`).
- `Turn`, third layer (`HiddenDrafts`): a draft that has not begun to answer is the
  one the microphone holds back and says nothing, and the hold it was prepared with
  is still there or was released; only `speech_partial` clears it, while nothing
  runs. So a draft answers only after its endpoint or the failsafe. What it must not
  do either, give notice of its failure before that, it does (section 5).
- `Actions`: ids are given once (`IdsGiven`); a request is at the page, in its
  socket or answered, one of the three (`ActsOnce`), so an answer cannot come twice;
  an "ok" anywhere on its way is of an action done (`OkIsDone`); what the page is at
  is waited for or has its cancel behind it (`PageIsWanted`, `WaitersOfPlan`), and
  the desktop is at the same (`DeskFollowsPage`).
- `Approvals`: `OneWaiter` ties forwarding tasks, waiters and response together (a
  task alive is the response's own or was interrupted while arming);
  `Grounded` follows a decision from the click to the gateway; `CardsDismissed` says
  that a card, shown or on its way, has a waiter or its dismissal behind it.
- `CapabilityCatalog`: `LockHeld` and `SessionsHandle` say who is where inside the
  managed change, `ReviewsGrounded` what a review acknowledges was in a stage of it,
  `BusyIsQuiet` that the busy test still holds when the gateway is stopped, an
  await later. The last two theorems are action properties.
- `Memory` (`MemoryInv`): `RevisionInOrder` says how far a revision has got, so that
  the card cannot pass the audit wherever the writes stop. `OnlyConfirmed` follows a
  value from the owner's word through the files, the writes under way and an import's
  copy to an active row. `EvidenceWasHeard` is what makes a proposal grounded although
  threads overwrite each other's counts: the evidence of a row, kept or read, and the
  turns a thread still has to count are together no more than the turns heard, so a lost
  update counts too few, never too many (`SpokenGrows`, `SpokenShrinks`).
  `PartsInArchive` says that the archive is ahead of what counts as saved by one part at
  most. `OneImport` ties an import that found the exchange stale to its being stale.
- `Reminders` (`RemindersInv`): `OneReminder` and `OwnTime` say who is at the reminder and
  that whoever is about to ask the desktop has the row's time. `LastWord` is the core:
  of the three queues between session and desktop and what the desktop holds, the last
  word is the reminder's own time, unless a move has changed the row and not yet
  withdrawn the old request (`Settles`). Every message moves the last word one queue
  on; a cancel that overtakes a request is never the last. When everything has arrived
  what is held is that time.
- `Meetings` (`MeetingsInv`): `LinesKept` (every line is stored, on its way or
  failed) and `InPhases` (the mode ends before the summary begins, and what is written
  was read with nothing on its way). `ItemInStep`: one confirmation takes the item from proposed over
  made to confirmed, and a lost connection does not stop it half way.
- `Editions`: an action property; `SavesShelf` and `BriefsShelf` say what a save leaves
  of a row that is there. `StepOfReminders`, `StepOfMeetings` and `StepOfEditions` say
  what each part sees of a step of `Organizer`, so no proof of a part depends on another's.

Each part was checked as an invariant of the module's run before it was proved.

What stays with TLC, and why:

- liveness and the fairness half of `ImplementsRPCCalls` (`PlansEnd`, `RunsEnd`,
  `CloseHonoured`, `QueriesEnd`, `InterruptHonoured`, `ReminderIsAsked`): they need
  `ENABLED`, which is out of the prover's reach here. Every other property of a run is
  proved for all values of the constants, under the assumptions of the table.

## 5. Where code and documents disagree

Each of these was found while modelling and is listed, with its lines and the
document it contradicts, under `findings` in `PROJECT.json`. Those of the first table
are stated in their module; TLC refutes the statement as soon as it is added to the
module's configuration with the constants given.

| Statement | Refuted with | What happens |
|---|---|---|
| `MultiAgent!RunsEnd` | `board_fair` and `"queues"` | a child whose task is listed as queued is never polled again, and the 330 s limit is not tested on that path |
| `MultiAgent!SynthesisWaits` | `board_faulty` with three children and sessions, `"plan"`, `"add"`, `"close"`, no fault | a child closed while its spawn is in flight is neither pending nor spawning for the wait loop: the synthesis starts without it (FR4, FR13) |
| `MultiAgent!TerminalIsFinal` | `board_faulty`: `"manual"`, `"close"`, `"list_fails"` | a close in flight overwrites a terminal status written meanwhile |
| `MultiAgent!ReplacedRunsRest` | `board_faulty`: `MaxRuns = 2`, `"manual"`, `"cancel"`, `"overlap"` | a run cancelled during a spawn is replaced, the new `execute` clears the flag, and the old coroutine sets its child to running |
| `MultiAgent!SpawnedOnce` | `board_faulty` with `MaxSessions = 3`, `"plan"`, `"add"`, `"backpressure"` | a child appended during `execute`'s first send is spawned by both coroutines (FR1) |
| `MultiAgent!ClosedIsArchived` | `board_faulty` with `MaxSessions = 3`, `"plan"`, `"add"`, `"close"`, `"backpressure"` | the same two spawns of one child: closing it archives the second session, the first works on |
| `MultiAgent!QuietIsSettled` | `board_fair` with `MaxSessions = 2` and `"list_fails"` or `"timeout"` | the wait loop ends although an appended child is still being spawned, and nobody polls that child |
| `MultiAgent!QuietIsSettled` | `board_fair` with three children and sessions, `MaxSteps = 1`, `"plan"`, `"add"`, `"close"`, `"late_add"` | a child closed in flight lets the wait loop end while the run shows "running"; a child appended during the report is spawned, and nobody polls it |
| `QuietIsSettled`, `NoRunawayWork`, `OutcomeTellsChildren` of `MultiAgent` | `board_fair` with `MaxSessions = 2`, `"archive_fails"` | a close whose archive fails puts the status read before it back, and withdraws a request that the spawn is honouring: a child is live again after its run has ended, or is shown cancelled though its success was counted |
| the same three | `board_fair` with `MaxSessions = 2`, `"backpressure"` | a child appended during the first send is spawned twice: the second spawn makes it run again after it ended, and the first session is nobody's |
| the same three | `board_fair` with `MaxSessions = 2`, `MaxRuns = 2`, `MaxSteps = 1`, `"manual"`, `"overlap"` | what the replaced run's cancel, caller or spawn writes last, it writes to the new run or after it: children are shown cancelled whose sessions work, a run as succeeded whose children were closed |
| `MultiAgent!CancelledRests` | `board_fair` | an interrupt while `sessions_spawn` is in flight loses the receipt; the cancel that follows marks the child cancelled without knowing its session, which works on |
| `MultiAgent!NoRunawayWork` | `board_fair` with `MaxSessions = 2`, `"cancel_fails"` | the cards are shown cancelled although `tasks.cancel` failed and the sessions work on (FR9) |
| `PlanExecution!FailedStepStops` | `"query_fails"` | `run_query` reports failures itself and returns normally, so the step counts as succeeded and Run all goes on |
| `GatewayRPC!NoSilentCalls` | `gateway_rpc` | `stop` cancels the reader of the bridge that a new start spawned meanwhile: connected, alive and deaf |
| `GatewayLifecycle!BridgeFollows` | `gateway_lifecycle` | `start` returns the live bridge whatever its url; after a gateway crash it dials the dead port |
| `GatewayLifecycle!RepairsOffline` | `"cancel"`, `Migrations = 1` | a cancelled turn releases the startup lock while the offline repair it awaited runs on |
| `Turn!NewerTurnInvalidates` | `"quick_click"` | picking a research topic starts a query without cancelling the one in flight |
| `Turn!HiddenUntilEndpoint` | `turn` | a failing hidden draft is spoken about before the endpoint |
| `Turn!QueriesEnd` | `"endless"` | a committed draft whose stream stops has no watchdog and no deadline but the socket's |
| `Actions!GoalIsOfQuery` | `actions` | a search that finds nothing leaves the older results with the newer goal |
| `Approvals!CardsEndWithResponse` | `approvals` | a forwarding task leaked by an interrupt while arming keeps its card after the response, up to 180 s |
| `Approvals!OwnerDenies` | `approvals` | with a leaked task an approval is asked for twice, and the second call denies it while its card is up; without one the statement holds |
| `Approvals!NoneExpiresUnseen` | `approvals` | approvals are shown one at a time; the second expires at the gateway before it is on a card |
| `Approvals!PatientStream` | `"silent_tools"` | the 150 s count from the last byte, not from the approval (with a stream that is never silent around a tool it holds) |
| `Memory!ForgottenStaysForgotten` | `memory` | a consolidation or import under way writes its row after the owner forgot the preference |
| `Memory!ConsolidatedOnce` | two `Boots` | two imports at once both consolidate the exchange |
| `Memory!WikiFollowsCard` | `memory` | a value changed and changed back during a sync is not told again |
| `Reminders!NotificationFollows` | `"both_move"` or `"late_tick"`, `MaxCommands = 3` | a request with the time of an overtaken move, or of a row read before it, is the desktop's last, and no other is sent because the reminder counts as asked for |
| `Reminders!CompletedStaysQuiet` | `organizer` | completing a task through OpenClaw's tool does not withdraw the desktop's notification |
| `Reminders!DeliveredWasScheduled` | `organizer` | a reminder whose notification failed is marked delivered |
| `Reminders!TaskInLiveProject` | `organizer` | a task can be added to a project that was removed meanwhile |
| `Meetings!EveryLineIsHeard` | `organizer` | a summary is made from the last 30 000 characters, and without a line whose insert failed: nobody is told |
| `Meetings!MeetingsEnd` | `organizer` | a connection lost during the summary leaves the meeting recording |
| `Meetings!OneTaskPerItem` | `"both"` or `"dies"` | two confirmations at once, or one cut off, make a second task |
| `Editions!EditionFollowsGoal` | `organizer` | a goal rewritten during the work is not the one of the edition saved |
| `CapabilityCatalog!RestartSparesAnswers` | `catalog` | a restart ends another session's answer; the busy check sees its own only |
| `CapabilityCatalog!InstalledAsReviewed` | `"listed"` | an entry of `plugins.list` is installed without its version |

Without a statement of their own:

- a close requested on a child that ends, or has ended, without a session leaves its
  card and the request for ever, and so does an interrupt in the middle of it (FR14;
  `CloseHonoured` excepts both);
- an interrupt after the owner's cancel has ended, while a spawn is being archived or
  the reply to a poll was just applied, leaves a card "cancelling" or "running" for
  ever: the run is cancelled already, so the handler's cancel does nothing
  (`QuietIsSettled` excepts it);
- a refused child makes the run "partial" rather than failed (FR2);
- one failing poll marks every pending child failed (`RECONCILE_FAILED`: "keep
  real child states");
- a cancel whose gateway calls fail still shows the run as cancelled
  (`CANCEL_FAILED`: "running/partial");
- an archive that fails after the run has ended puts its child back to running;
- a parallel plan started while a manual run occupies the board, an interrupt whose
  gateway calls fail, or a second interrupt during them, leave the plan's steps
  "running" without a worker until the owner cancels;
- a draft replaced while its parallel run is out leaves the board "synthesizing",
  which blocks every later run;
- an interrupt cancels whatever draft is loaded by then, and `plan_mode_cancel` of
  the loaded draft stops the execution of an older one;
- selecting another approach after the first selection creates no tasks for it
  (FR-009);
- cancelling during the synthesis is overwritten by the synthesis' own outcome;
- a manual launch during the synthesis is refused, although the requirements say it
  starts a new run;
- a change that OpenClaw applied is reported as failed when the restart or the
  inventory after it raises.

## 6. Not modelled, and the plan

Not modelled:

- numeric code with little control (audio isolation, voice scoring, prosody), text
  extraction and other file I/O (library, workspace audit), rendering, dialogs,
  packaging scripts and stateless helpers: their correctness is in the data, not in
  an order of steps;
- what the model is prompted with, what is said and shown, and the classification of
  what the owner says: wording, which no property here is about;
- the board's `_load`, `_persist` and `reconcile`: what they find after a restart is
  OpenClaw's ledger and archive, of which this repository holds no model;
- the Organizer's journal and renaming, the catalogue's listing and search, and the
  Skills, which are toggled like plugins.

Next, most important first:

1. The synthesis worker (`server/tts.py`): restarts of a process with a request in
   flight.
2. The HUD's plan and board views as replicas of the server's state, and the desktop
   shell's supervision of the backend.
