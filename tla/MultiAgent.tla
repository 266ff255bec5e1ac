------------------------------ MODULE MultiAgent ------------------------------
(***************************************************************************)
(* The agent board (server/multi_agent.py): MultiAgentRunController spawns *)
(* one persistent OpenClaw session per child, polls the gateway's task     *)
(* ledger until every child is terminal, and lets the owner append, close  *)
(* and cancel while it does.  server/main.py calls it from one asyncio     *)
(* thread: execute (with its caller), every add_child, every close_child   *)
(* and cancel are coroutines that interleave at their awaits, so each      *)
(* action below runs a coroutine from one await to the next.  An await     *)
(* that nothing is read after is folded into the await that follows it.    *)
(* The gateway (sessions, task ledger, archive) is external.               *)
(***************************************************************************)
EXTENDS Naturals, FiniteSets

CONSTANTS
  MaxRuns,      \* bound: runs created in one behaviour
  MaxKids,      \* bound: children created in one behaviour
  MaxSessions,  \* bound: upstream sessions created in one behaviour
  MaxSteps,     \* bound: work steps of one execute call (the code's cap is 8)
  Clicks,       \* identities of concurrent close_child calls
  Commands,     \* the commands the owner uses
  Env           \* the hardships of the environment

\* "interrupt": speech, a newer text or a changed language cancels the asyncio
\* task that runs the plan.
AllCommands == {"plan", "manual", "add", "close", "cancel", "interrupt"}

\* "backpressure": a websocket send suspends its coroutine instead of
\* finishing at once; "queues": OpenClaw admits a task as queued before it runs
\* it; "late_add": the owner appends a child while the results of the run are
\* reported; "overlap": a run starts while coroutines of the last one are at
\* work; the rest are failures of gateway calls and the 330 s wait limit.
AllEnv == {"queues", "spawn_refused", "spawn_lost", "list_fails", "archive_fails", "cancel_fails",
           "timeout", "backpressure", "late_add", "overlap"}

ASSUME MultiAgentAssumption ==
  /\ MaxRuns \in Nat /\ MaxKids \in Nat /\ MaxSessions \in Nat /\ MaxSteps \in Nat
  /\ Commands \subseteq AllCommands
  /\ Env \subseteq AllEnv

Runs == 1..MaxRuns
Kids == 1..MaxKids
Sessions == 1..MaxSessions
Coroutines == ({"execute"} \X Runs) \union ({"add"} \X Kids)
\* Who calls cancel: the owner's command, and the interrupted task of a plan.
Cancellers == {"owner", "task"}

Terminal == {"succeeded", "failed", "cancelled", "timed_out"}
ChildStatuses == {"queued", "starting", "running", "cancelling"} \union Terminal
Ongoing == {"starting", "running", "cancelling", "synthesizing"}
RunStatuses == Ongoing \union {"none", "partial", "succeeded", "failed", "cancelled"}

VARIABLES
  active,   \* the controller's active run, 0 for None
  run,      \* run[r]: its status and whether a plan asked for it
  kid,      \* kid[k]: the children in creation order; run 0 means unused
  flag,     \* _cancel_requested
  co,       \* co[p]: the execute and add_child coroutines
  closer,   \* closer[c]: the close_child coroutines
  canceller,\* canceller[x]: the cancel coroutines
  task,     \* ledger status of each upstream session, "none" before it exists
  owner,    \* the child each upstream session was spawned for
  archived  \* upstream sessions that are archived

upstream == <<task, owner, archived>>
vars == <<active, run, kid, flag, co, closer, canceller, task, owner, archived>>

-----------------------------------------------------------------------------
\* cut is history: an interrupt cut off what was to settle the child or its session.
NoKid == [run |-> 0, status |-> "queued", sess |-> 0, closeReq |-> FALSE, closed |-> FALSE,
          cut |-> FALSE]
NoAsk == [k \in {} |-> 0]
Off == [pc |-> "off", kid |-> 0, todo |-> {}, asked |-> NoAsk, run |-> 0]
IdleCloser == [pc |-> "idle", kid |-> 0, prev |-> "queued"]
IdleCanceller == [pc |-> "idle", todo |-> {}]

Init ==
  /\ active = 0
  /\ run = [r \in Runs |-> [status |-> "none", plan |-> FALSE]]
  /\ kid = [k \in Kids |-> NoKid]
  /\ flag = FALSE
  /\ co = [p \in Coroutines |-> Off]
  /\ closer = [c \in Clicks |-> IdleCloser]
  /\ canceller = [x \in Cancellers |-> IdleCanceller]
  /\ task = [s \in Sessions |-> "none"]
  /\ owner = [s \in Sessions |-> 0]
  /\ archived = {}

KidsOf(r) == {k \in Kids : kid[k].run = r /\ r # 0}
UsedKids == {k \in Kids : kid[k].run # 0}
NewKids(n) ==
  LET unused == Kids \ UsedKids IN {k \in unused : \A j \in unused : j < k => k - j < n}
FreshSessions == {s \in Sessions : task[s] = "none" /\ \A t \in 1..(s - 1) : task[t] # "none"}

\* The head of a list of children.
First(S) == {k \in S : \A j \in S : k <= j}

IsLive(k) == kid[k].status \notin Terminal

\* _aggregate_status over the children of run r as K has them.
Aggregate(r, K) ==
  LET states == {K[k].status : k \in KidsOf(r)}
  IN  IF ~(states \subseteq Terminal) THEN "running"
      ELSE IF states = {"succeeded"} THEN "synthesizing"
      ELSE IF "succeeded" \in states THEN "partial"
      ELSE IF states = {"cancelled"} THEN "cancelled"
      ELSE "failed"

\* The children S of K that are not terminal get status s.
Settle(K, S, s) ==
  [k \in Kids |-> IF k \in S /\ K[k].status \notin Terminal
                  THEN [K[k] EXCEPT !.status = s] ELSE K[k]]

(***************************************************************************)
(* Scheduling.  A coroutine suspended in a websocket send goes on at once  *)
(* unless the socket pushes back, so nothing else runs in between.         *)
(***************************************************************************)
Emitting == {"created", "spawned", "launched", "expired", "returning"}

Busy == {p \in Coroutines : co[p].pc \in Emitting}
BusyClosers == {c \in Clicks : closer[c].pc = "emitting"}
BusyCancellers == {x \in Cancellers : canceller[x].pc = "emitting"}

Turn(others, closers, cancellers) ==
  \/ "backpressure" \in Env
  \/ others = {} /\ closers = {} /\ cancellers = {}

IdleTurn == Turn(Busy, BusyClosers, BusyCancellers)
MyTurn(p) == Turn(Busy \ {p}, BusyClosers, BusyCancellers)

Alive(p) == co[p].pc \notin {"off", "done"}

\* Nothing is left to resume.
Quiet ==
  /\ \A p \in Coroutines : co[p].pc \in {"off", "done"}
  /\ \A c \in Clicks : closer[c].pc = "idle"
  /\ \A x \in Cancellers : canceller[x].pc = "idle"

-----------------------------------------------------------------------------
\* _spawn_child up to its first gateway call.  A coroutine with no child left
\* to spawn is either add_child, which is done, or execute, which aggregates.
Refused_Mut(k) == kid[k].closeReq
Refused(k) == flag \/ kid[k].closeReq

SpawnNext(p, todo) ==
  \/ /\ \E k \in First(todo) :
          \/ /\ Refused(k)
             /\ kid' = [kid EXCEPT ![k] = [@ EXCEPT !.status = "cancelled",
                                                    !.closed = kid[k].closeReq]]
             /\ co' = [co EXCEPT ![p] = [@ EXCEPT !.pc = "spawned", !.kid = k, !.todo = todo \ {k}]]
          \/ /\ ~Refused(k)
             /\ kid' = [kid EXCEPT ![k].status = "starting"]
             /\ co' = [co EXCEPT ![p] = [@ EXCEPT !.pc = "spawning", !.kid = k,
                                                  !.todo = todo \ {k}]]
     /\ UNCHANGED run
  \/ /\ todo = {}
     /\ p[1] = "add"
     /\ co' = [co EXCEPT ![p] = [Off EXCEPT !.pc = "done"]]
     /\ UNCHANGED <<run, kid>>
  \/ /\ todo = {}
     /\ p[1] = "execute"
     /\ run' = [run EXCEPT ![active].status = Aggregate(active, kid)]
     /\ co' = [co EXCEPT ![p] = [@ EXCEPT !.pc = "launched", !.kid = 0]]
     /\ UNCHANGED kid

\* execute: creates the run and its children and sends the board.
Execute(n, plan) ==
  /\ IdleTurn
  /\ "overlap" \in Env \/ Quiet
  /\ active < MaxRuns
  /\ active # 0 => run[active].status \notin Ongoing
  /\ Cardinality(NewKids(n)) = n
  /\ active' = active + 1
  /\ run' = [run EXCEPT ![active + 1] = [status |-> "starting", plan |-> plan]]
  /\ kid' = [k \in Kids |-> IF k \in NewKids(n) THEN [NoKid EXCEPT !.run = active + 1] ELSE kid[k]]
  /\ flag' = FALSE
  /\ co' = [co EXCEPT ![<<"execute", active + 1>>].pc = "created"]
  /\ UNCHANGED <<closer, canceller, upstream>>

\* The task of a plan is not done (PLAN_BUSY).
PlanBusy ==
  \/ \E r \in Runs : run[r].plan /\ Alive(<<"execute", r>>)
  \/ canceller["task"].pc # "idle"

\* run_parallel_plan_mode, and start_or_append_manual_agent with no run to join.
PlanRun ==
  /\ "plan" \in Commands
  /\ ~PlanBusy
  /\ \E n \in 1..MaxSteps : Execute(n, TRUE)
ManualRun == "manual" \in Commands /\ Execute(1, FALSE)

AddChild ==
  /\ "add" \in Commands
  /\ IdleTurn
  /\ active # 0
  /\ run[active].status \in {"starting", "running"}
  /\ "late_add" \in Env \/ co[<<"execute", active>>].pc # "reporting"
  /\ \E k \in NewKids(1) :
       /\ kid' = [kid EXCEPT ![k] = [NoKid EXCEPT !.run = active]]
       /\ co' = [co EXCEPT ![<<"add", k>>] = [Off EXCEPT !.pc = "created", !.todo = {k}]]
  /\ UNCHANGED <<active, run, flag, closer, canceller, upstream>>

\* execute takes its tuple of children only after the first send.
Begin(p) ==
  /\ MyTurn(p)
  /\ co[p].pc = "created"
  /\ SpawnNext(p, IF p[1] = "execute" THEN KidsOf(active) ELSE co[p].todo)
  /\ UNCHANGED <<active, flag, closer, canceller, upstream>>

Spawned(p) ==
  /\ MyTurn(p)
  /\ co[p].pc = "spawned"
  /\ SpawnNext(p, co[p].todo)
  /\ UNCHANGED <<active, flag, closer, canceller, upstream>>

QueuedTasks == IF "queues" \in Env THEN {"queued"} ELSE {}
Unfinished == {"queued", "running"}

\* sessions_spawn is accepted.
Accepted(p) ==
  /\ MyTurn(p)
  /\ co[p].pc = "spawning"
  /\ \E s \in FreshSessions :
       LET k == co[p].kid
       IN  /\ \E admitted \in {"running"} \union QueuedTasks :
                task' = [task EXCEPT ![s] = admitted]
           /\ owner' = [owner EXCEPT ![s] = k]
           /\ kid' = [kid EXCEPT ![k] = [@ EXCEPT
                        !.sess = s,
                        !.status = IF Refused(k) THEN "cancelling" ELSE "running"]]
           /\ co' = [co EXCEPT ![p].pc = IF Refused(k) THEN "archiving" ELSE "spawned"]
  /\ UNCHANGED <<active, run, flag, closer, canceller, archived>>

\* sessions_spawn is refused: the reply carries no runId.
SpawnRefused(p) ==
  /\ "spawn_refused" \in Env
  /\ MyTurn(p)
  /\ co[p].pc = "spawning"
  /\ kid' = [kid EXCEPT ![co[p].kid] = [@ EXCEPT !.status = "failed", !.sess = 0]]
  /\ co' = [co EXCEPT ![p].pc = "spawned"]
  /\ UNCHANGED <<active, run, flag, closer, canceller, upstream>>

\* The call raises (it is lost or times out): the receipt fields stay, and the
\* session may have been created all the same.
SpawnLost(p) ==
  /\ "spawn_lost" \in Env
  /\ MyTurn(p)
  /\ co[p].pc = "spawning"
  /\ \/ UNCHANGED <<task, owner>>
     \/ \E s \in FreshSessions :
          /\ task' = [task EXCEPT ![s] = "running"]
          /\ owner' = [owner EXCEPT ![s] = co[p].kid]
  /\ kid' = [kid EXCEPT ![co[p].kid].status = "failed"]
  /\ co' = [co EXCEPT ![p].pc = "spawned"]
  /\ UNCHANGED <<active, run, flag, closer, canceller, archived>>

\* _archive_child_upstream raises: for want of a session, or because a call
\* failed, before or after the gateway committed the archive.
ArchiveRaises(s) ==
  \/ s = 0 /\ UNCHANGED archived
  \/ s # 0 /\ "archive_fails" \in Env /\ archived' \in {archived, archived \union {s}}

\* _spawn_child archives the session of a child nobody wants any more.
SpawnArchived_Mut(p) ==
  /\ MyTurn(p)
  /\ co[p].pc = "archiving"
  /\ kid[co[p].kid].sess # 0
  /\ archived' = archived \union {kid[co[p].kid].sess}
  /\ kid' = [kid EXCEPT ![co[p].kid].status = "cancelled"]
  /\ co' = [co EXCEPT ![p].pc = "spawned"]
  /\ UNCHANGED <<active, run, flag, closer, canceller, task, owner>>
SpawnArchived(p) ==
  /\ MyTurn(p)
  /\ co[p].pc = "archiving"
  /\ kid[co[p].kid].sess # 0
  /\ archived' = archived \union {kid[co[p].kid].sess}
  /\ kid' = [kid EXCEPT ![co[p].kid] = [@ EXCEPT !.status = "cancelled", !.closed = TRUE]]
  /\ co' = [co EXCEPT ![p].pc = "spawned"]
  /\ UNCHANGED <<active, run, flag, closer, canceller, task, owner>>

SpawnArchiveFails(p) ==
  /\ MyTurn(p)
  /\ co[p].pc = "archiving"
  /\ ArchiveRaises(kid[co[p].kid].sess)
  /\ kid' = [kid EXCEPT ![co[p].kid].status = "failed"]
  /\ co' = [co EXCEPT ![p].pc = "spawned"]
  /\ UNCHANGED <<active, run, flag, closer, canceller, task, owner>>

-----------------------------------------------------------------------------
\* The wait loop of execute.  Every read is of the run that is active now.
Pending == {k \in KidsOf(active) : kid[k].sess # 0 /\ kid[k].status \in {"running", "cancelling"}}
Spawning_Mut == \E k \in KidsOf(active) : kid[k].status = "queued"
Spawning == \E k \in KidsOf(active) : kid[k].status \in {"queued", "starting"}

AtLoopHead(p) == MyTurn(p) /\ co[p].pc \in {"launched", "sleeping"}

\* The tail of execute, from the loop's exit to its last send; K is the state
\* of the children at the exit.
Conclude(p, K) ==
  LET K1 == IF flag THEN Settle(K, KidsOf(active), "cancelled") ELSE K
  IN  /\ kid' = K1
      /\ run' = [run EXCEPT ![active].status = Aggregate(active, K1)]
      /\ co' = [co EXCEPT ![p] = [Off EXCEPT !.pc = "returning"]]

LoopExits(p) ==
  /\ AtLoopHead(p)
  /\ flag \/ (Pending = {} /\ ~Spawning)
  /\ Conclude(p, kid)
  /\ UNCHANGED <<active, flag, closer, canceller, upstream>>

LoopWaits(p) ==
  /\ AtLoopHead(p)
  /\ ~flag /\ Pending = {} /\ Spawning
  /\ co' = [co EXCEPT ![p].pc = "sleeping"]
  /\ UNCHANGED <<active, run, kid, flag, closer, canceller, upstream>>

\* list_tasks is called: the gateway may answer from the ledger of now, or
\* from a later one, by the time the reply is used.
LoopAsks(p) ==
  /\ AtLoopHead(p)
  /\ ~flag /\ Pending # {}
  /\ co' = [co EXCEPT ![p] = [@ EXCEPT !.pc = "listing", !.todo = Pending,
                                       !.asked = [k \in Pending |-> [sess |-> kid[k].sess,
                                                                   status |-> task[kid[k].sess]]]]]
  /\ UNCHANGED <<active, run, kid, flag, closer, canceller, upstream>>

ListFails(p) ==
  /\ "list_fails" \in Env
  /\ MyTurn(p)
  /\ co[p].pc = "listing"
  /\ Conclude(p, Settle(kid, co[p].todo, "failed"))
  /\ UNCHANGED <<active, flag, closer, canceller, upstream>>

\* The reply is applied child by child; reading the transcript of a child that
\* succeeded without a summary suspends the loop, so it stops after such a
\* child and goes on later.
ReplyStatus_Mut(p, k, late) == task[co[p].asked[CHOOSE j \in DOMAIN co[p].asked : TRUE].sess]
ReplyStatus(p, k, late) ==
  IF late THEN task[co[p].asked[k].sess] ELSE co[p].asked[k].status

Applied(p, S, late) ==
  [k \in Kids |-> IF k \in S /\ ~kid[k].closeReq
                  THEN [kid[k] EXCEPT !.status = ReplyStatus(p, k, late)] ELSE kid[k]]

\* After the whole reply the 330 s limit is tested.
ListReplies(p) ==
  /\ MyTurn(p)
  /\ co[p].pc \in {"listing", "recovering"}
  /\ \E late \in BOOLEAN :
       \/ \E k \in {j \in co[p].todo : ~kid[j].closeReq /\ ReplyStatus(p, j, late) = "succeeded"} :
            /\ kid' = Applied(p, {j \in co[p].todo : j <= k}, late)
            /\ co' = [co EXCEPT ![p] = [@ EXCEPT !.pc = "recovering",
                                                  !.todo = {j \in co[p].todo : j > k}]]
       \/ /\ kid' = Applied(p, co[p].todo, late)
          /\ co' = [co EXCEPT ![p] = [Off EXCEPT !.pc = "sleeping"]]
       \/ /\ "timeout" \in Env
          /\ kid' = Settle(Applied(p, co[p].todo, late), DOMAIN co[p].asked, "timed_out")
          /\ co' = [co EXCEPT ![p] = [Off EXCEPT !.pc = "expired"]]
  /\ UNCHANGED <<active, run, flag, closer, canceller, upstream>>

Expired(p) ==
  /\ MyTurn(p)
  /\ co[p].pc = "expired"
  /\ Conclude(p, kid)
  /\ UNCHANGED <<active, flag, closer, canceller, upstream>>

\* start_or_append_manual_agent computes the final status from the run execute
\* returned, and finish writes it to the active run.
FinalStatus_MutType(r) ==
  LET states == {kid[k].status : k \in KidsOf(r)}
  IN  IF states = {"succeeded"} THEN "succeeded"
      ELSE IF "succeeded" \in states THEN "partial"
      ELSE IF run[r].status = "cancelled" THEN "cancelled"
      ELSE "timed_out"
FinalStatus(r) ==
  LET states == {kid[k].status : k \in KidsOf(r)}
  IN  IF states = {"succeeded"} THEN "succeeded"
      ELSE IF "succeeded" \in states THEN "partial"
      ELSE IF run[r].status = "cancelled" THEN "cancelled"
      ELSE "failed"

ManualReturns(p) ==
  /\ MyTurn(p)
  /\ co[p].pc = "returning"
  /\ ~run[p[2]].plan
  /\ run' = [run EXCEPT ![active].status = FinalStatus(active)]
  /\ co' = [co EXCEPT ![p] = [Off EXCEPT !.pc = "done"]]
  /\ UNCHANGED <<active, kid, flag, closer, canceller, upstream>>

\* run_parallel_plan_mode walks the children of the run execute returned,
\* suspending after each one that succeeded to complete its Organizer task;
\* todo holds the successful children.
Report(p) ==
  /\ MyTurn(p)
  /\ \/ co[p].pc = "reporting"
     \/ co[p].pc = "returning" /\ run[p[2]].plan
  /\ LET c == co[p]
         r == IF c.pc = "reporting" THEN c.run ELSE active
         won == {k \in KidsOf(r) : k > c.kid /\ kid[k].status = "succeeded"}
     IN  \/ /\ \E k \in First(won) :
                 co' = [co EXCEPT ![p] = [@ EXCEPT !.pc = "reporting", !.run = r, !.kid = k,
                                                   !.todo = c.todo \union {k}]]
            /\ UNCHANGED run
         \/ /\ won = {} /\ c.todo = {}
            /\ run' = [run EXCEPT ![active].status =
                         IF run[r].status = "cancelled" THEN "cancelled" ELSE "failed"]
            /\ co' = [co EXCEPT ![p] = [Off EXCEPT !.pc = "done"]]
         \/ /\ won = {} /\ c.todo # {}
            /\ run' = [run EXCEPT ![active].status = "synthesizing"]
            /\ co' = [co EXCEPT ![p].pc = "synthesis"]
  /\ UNCHANGED <<active, kid, flag, closer, canceller, upstream>>

\* synthesize_multi_agent_run answers or raises.
Synthesized_Mut(p) ==
  /\ MyTurn(p)
  /\ co[p].pc = "synthesis"
  /\ \E final \in {"failed", "succeeded"} :
       run' = [run EXCEPT ![active].status = final]
  /\ co' = [co EXCEPT ![p] = [Off EXCEPT !.pc = "done"]]
  /\ UNCHANGED <<active, kid, flag, closer, canceller, upstream>>
Synthesized_MutLive(p) ==
  /\ MyTurn(p)
  /\ co[p].pc = "synthesis"
  /\ \E final \in {"synthesizing",
                   IF co[p].todo = KidsOf(co[p].run) THEN "succeeded" ELSE "partial"} :
       run' = [run EXCEPT ![active].status = final]
  /\ co' = [co EXCEPT ![p] = [Off EXCEPT !.pc = "done"]]
  /\ UNCHANGED <<active, kid, flag, closer, canceller, upstream>>
Synthesized(p) ==
  /\ MyTurn(p)
  /\ co[p].pc = "synthesis"
  /\ \E final \in {"failed", IF co[p].todo = KidsOf(co[p].run) THEN "succeeded" ELSE "partial"} :
       run' = [run EXCEPT ![active].status = final]
  /\ co' = [co EXCEPT ![p] = [Off EXCEPT !.pc = "done"]]
  /\ UNCHANGED <<active, kid, flag, closer, canceller, upstream>>

-----------------------------------------------------------------------------
\* close_child
Close(c, k) ==
  /\ "close" \in Commands
  /\ IdleTurn
  /\ closer[c].pc = "idle"
  /\ k \in KidsOf(active)
  /\ ~kid[k].closed
  /\ closer' = [closer EXCEPT ![c] = [pc |-> "emitting", kid |-> k, prev |-> kid[k].status]]
  /\ kid' = [kid EXCEPT ![k] = [@ EXCEPT !.closeReq = TRUE,
                                         !.status = IF IsLive(k)
                                                      THEN "cancelling" ELSE kid[k].status]]
  /\ UNCHANGED <<active, run, flag, co, canceller, upstream>>

\* A child without a receipt is left to _spawn_child.
CloseSent(c) ==
  /\ Turn(Busy, BusyClosers \ {c}, BusyCancellers)
  /\ closer[c].pc = "emitting"
  /\ closer' = [closer EXCEPT ![c] = IF kid[@.kid].sess = 0 THEN IdleCloser
                                     ELSE [@ EXCEPT !.pc = "archiving"]]
  /\ UNCHANGED <<active, run, kid, flag, co, canceller, upstream>>

CloseArchived(c) ==
  /\ IdleTurn
  /\ closer[c].pc = "archiving"
  /\ LET k == closer[c].kid
     IN  /\ kid[k].sess # 0
         /\ archived' = archived \union {kid[k].sess}
         /\ kid' = [kid EXCEPT ![k] = [@ EXCEPT
                        !.closed = TRUE,
                        !.status = IF closer[c].prev \in Terminal
                                     THEN kid[k].status ELSE "cancelled"]]
  /\ closer' = [closer EXCEPT ![c] = IdleCloser]
  /\ UNCHANGED <<active, run, flag, co, canceller, task, owner>>

CloseFails_Mut(c) ==
  /\ IdleTurn
  /\ closer[c].pc = "archiving"
  /\ LET k == closer[c].kid
     IN  /\ ArchiveRaises(kid[k].sess)
         /\ kid' = [kid EXCEPT ![k] = [@ EXCEPT !.closeReq = FALSE, !.status = closer[c].prev,
                                                !.closed = TRUE]]
  /\ closer' = [closer EXCEPT ![c] = IdleCloser]
  /\ UNCHANGED <<active, run, flag, co, canceller, task, owner>>
CloseFails(c) ==
  /\ IdleTurn
  /\ closer[c].pc = "archiving"
  /\ LET k == closer[c].kid
     IN  /\ ArchiveRaises(kid[k].sess)
         /\ kid' = [kid EXCEPT ![k] = [@ EXCEPT !.closeReq = FALSE, !.status = closer[c].prev]]
  /\ closer' = [closer EXCEPT ![c] = IdleCloser]
  /\ UNCHANGED <<active, run, flag, co, canceller, task, owner>>

-----------------------------------------------------------------------------
\* cancel up to its first send; it does nothing when the run is not at work.
Cancellable == active # 0 /\ run[active].status \in {"starting", "running", "synthesizing"}

Cancelling(x) ==
  /\ flag' = TRUE
  /\ run' = [run EXCEPT ![active].status = "cancelling"]
  /\ canceller' = [canceller EXCEPT ![x].pc = "emitting"]

\* The owner's command; the receive loop awaits it, so one runs at a time.
Cancel ==
  /\ "cancel" \in Commands
  /\ IdleTurn
  /\ canceller["owner"].pc = "idle"
  /\ Cancellable
  /\ Cancelling("owner")
  /\ UNCHANGED <<active, kid, co, closer, upstream>>

CancelLists(x) ==
  /\ Turn(Busy, BusyClosers, BusyCancellers \ {x})
  /\ canceller[x].pc = "emitting"
  /\ canceller' = [canceller EXCEPT
                     ![x] = [pc |-> "listing", todo |-> {kid[k].sess : k \in KidsOf(active)} \ {0}]]
  /\ UNCHANGED <<active, run, kid, flag, co, closer, upstream>>

CancelListed(x) ==
  /\ IdleTurn
  /\ canceller[x].pc = "listing"
  /\ canceller' = [canceller EXCEPT
                     ![x] = [pc |-> "stopping", todo |-> {s \in @.todo : task[s] \in Unfinished}]]
  /\ UNCHANGED <<active, run, kid, flag, co, closer, upstream>>

CancelTask(x) ==
  /\ IdleTurn
  /\ canceller[x].pc = "stopping"
  /\ \E s \in canceller[x].todo :
       /\ task' = [task EXCEPT ![s] = IF @ \in Unfinished THEN "cancelled" ELSE @]
       /\ canceller' = [canceller EXCEPT ![x].todo = @ \ {s}]
  /\ UNCHANGED <<active, run, kid, flag, co, closer, owner, archived>>

\* The finally clause, reached when every task was cancelled or a call raised.
CancelEnds(x) ==
  /\ IdleTurn
  /\ \/ canceller[x].pc = "stopping" /\ canceller[x].todo = {}
     \/ "cancel_fails" \in Env /\ canceller[x].pc \in {"listing", "stopping"}
  /\ kid' = Settle(kid, KidsOf(active), "cancelled")
  /\ run' = [run EXCEPT ![active].status = "cancelled"]
  /\ canceller' = [canceller EXCEPT ![x] = IdleCanceller]
  /\ UNCHANGED <<active, flag, co, closer, upstream>>

-----------------------------------------------------------------------------
Cut(S) == [k \in Kids |-> IF k \in S THEN [kid[k] EXCEPT !.cut = TRUE] ELSE kid[k]]

\* CancelledError at an await of _spawn_child, which catches only Exception: the
\* receipt of the spawn, or the answer to the archive, reaches nobody.
CutOff(p) ==
  \/ /\ co[p].pc = "spawning"
     /\ \/ UNCHANGED <<task, owner>>
        \/ \E s \in FreshSessions : \E admitted \in {"running"} \union QueuedTasks :
             /\ task' = [task EXCEPT ![s] = admitted]
             /\ owner' = [owner EXCEPT ![s] = co[p].kid]
     /\ UNCHANGED archived
  \/ /\ co[p].pc = "archiving"
     /\ \/ UNCHANGED archived
        \/ LET s == kid[co[p].kid].sess IN s # 0 /\ archived' = archived \union {s}
     /\ UNCHANGED <<task, owner>>
  \/ /\ co[p].pc \notin {"spawning", "archiving"}
     /\ UNCHANGED upstream

\* The child in the hands of _spawn_child, and every child that is not over when
\* no cancel settles it any more.
Abandoned(p) ==
  {k \in Kids : co[p].pc \in {"spawning", "archiving"} /\ k = co[p].kid}
    \union {k \in KidsOf(p[2]) : IsLive(k) /\ ~Cancellable /\ canceller["owner"].pc = "idle"}

\* The task of a plan is cancelled at the await it stands at; run_plan_mode
\* then calls cancel for the run of its plan.
Interrupted(p) ==
  /\ "interrupt" \in Commands
  /\ IdleTurn
  /\ p[1] = "execute"
  /\ run[p[2]].plan /\ Alive(p)
  /\ CutOff(p)
  /\ kid' = Cut(Abandoned(p))
  /\ co' = [co EXCEPT ![p] = [Off EXCEPT !.pc = "done"]]
  /\ \/ p[2] = active /\ Cancellable /\ Cancelling("task")
     \/ ~(p[2] = active /\ Cancellable) /\ UNCHANGED <<run, flag, canceller>>
  /\ UNCHANGED <<active, closer>>

\* A second interrupt reaches the task in that cancel, whose try it leaves by
\* the finally clause (its first send is not in the try).
InterruptedAgain ==
  /\ "interrupt" \in Commands
  /\ IdleTurn
  /\ canceller["task"].pc # "idle"
  /\ LET sending == canceller["task"].pc = "emitting"
         left == IF sending THEN {} ELSE {k \in KidsOf(active) : IsLive(k)}
     IN  /\ kid' = Settle(Cut(left), left, "cancelled")
         /\ run' = [run EXCEPT ![active].status = IF sending THEN @ ELSE "cancelled"]
  /\ canceller' = [canceller EXCEPT !["task"] = IdleCanceller]
  /\ UNCHANGED <<active, flag, co, closer, upstream>>

-----------------------------------------------------------------------------
\* OpenClaw starts a queued task.
TaskStarts(s) ==
  /\ task[s] = "queued"
  /\ task' = [task EXCEPT ![s] = "running"]
  /\ UNCHANGED <<active, run, kid, flag, co, closer, canceller, owner, archived>>

\* OpenClaw finishes a task; it may cancel the task of an archived session.
TaskEnds(s) ==
  /\ task[s] = "running"
  /\ \E outcome \in {"succeeded", "failed"} \union (IF s \in archived THEN {"cancelled"} ELSE {}) :
       task' = [task EXCEPT ![s] = outcome]
  /\ UNCHANGED <<active, run, kid, flag, co, closer, canceller, owner, archived>>

Step(p) ==
  \/ Begin(p) \/ Spawned(p) \/ Accepted(p) \/ SpawnRefused(p) \/ SpawnLost(p)
  \/ SpawnArchived(p) \/ SpawnArchiveFails(p)

Resume(p) ==
  \/ LoopExits(p) \/ LoopWaits(p) \/ LoopAsks(p) \/ ListFails(p) \/ ListReplies(p)
  \/ Expired(p) \/ ManualReturns(p) \/ Report(p) \/ Synthesized(p)

CloserStep(c) == CloseSent(c) \/ CloseArchived(c) \/ CloseFails(c)

CancellerStep(x) == CancelLists(x) \/ CancelListed(x) \/ CancelTask(x) \/ CancelEnds(x)

Next ==
  \/ PlanRun \/ ManualRun \/ AddChild \/ Cancel \/ InterruptedAgain
  \/ \E c \in Clicks : \E k \in Kids : Close(c, k)
  \/ \E p \in Coroutines : Step(p) \/ Resume(p) \/ Interrupted(p)
  \/ \E c \in Clicks : CloserStep(c)
  \/ \E x \in Cancellers : CancellerStep(x)
  \/ \E s \in Sessions : TaskStarts(s) \/ TaskEnds(s)

Spec == Init /\ [][Next]_vars

(***************************************************************************)
(* The event loop resumes coroutines whose await is over in FIFO order, so *)
(* none is overtaken for ever; gateway calls end (they have timeouts) and  *)
(* OpenClaw ends every task (the spawn asks for runTimeoutSeconds).        *)
(* Nothing makes the owner act.                                            *)
(***************************************************************************)
Fairness ==
  /\ \A p \in Coroutines : SF_vars(Step(p) \/ Resume(p))
  /\ \A c \in Clicks : SF_vars(CloserStep(c))
  /\ \A x \in Cancellers : SF_vars(CancellerStep(x))
  /\ \A s \in Sessions : WF_vars(TaskStarts(s) \/ TaskEnds(s))

FairSpec == Spec /\ Fairness

-----------------------------------------------------------------------------
CoroutinePCs == {"off", "created", "spawning", "archiving", "spawned", "launched", "sleeping",
                 "listing", "recovering", "expired", "returning", "reporting", "synthesis", "done"}

TaskStatuses == {"none", "queued", "running", "succeeded", "failed", "cancelled"}
Asks == [sess : 0..MaxSessions, status : TaskStatuses]

KidType == [run : 0..MaxRuns, status : ChildStatuses, sess : 0..MaxSessions,
            closeReq : BOOLEAN, closed : BOOLEAN, cut : BOOLEAN]
AskedType == UNION {[S -> Asks] : S \in SUBSET Kids}
CoType == [pc : CoroutinePCs, kid : 0..MaxKids, todo : SUBSET Kids,
           asked : AskedType, run : 0..MaxRuns]
CloserType == [pc : {"idle", "emitting", "archiving"}, kid : 0..MaxKids, prev : ChildStatuses]
CancellerType == [pc : {"idle", "emitting", "listing", "stopping"}, todo : SUBSET Sessions]

\* Every variable has its type.
TypeOK ==
  /\ active \in 0..MaxRuns
  /\ run \in [Runs -> [status : RunStatuses, plan : BOOLEAN]]
  /\ kid \in [Kids -> KidType]
  /\ flag \in BOOLEAN
  /\ co \in [Coroutines -> CoType]
  /\ closer \in [Clicks -> CloserType]
  /\ canceller \in [Cancellers -> CancellerType]
  /\ task \in [Sessions -> TaskStatuses]
  /\ owner \in [Sessions -> 0..MaxKids]
  /\ archived \subseteq Sessions

\* A child is shown as succeeded only if the ledger says so of a session that
\* was spawned for that very child: never on account of a sibling's receipt, a
\* reply to an earlier poll, a close or a cancel.
TruthfulSuccess ==
  \A k \in Kids : kid[k].status = "succeeded" =>
    \E s \in Sessions : owner[s] = k /\ task[s] = "succeeded"

\* A card is hidden only once its session is archived upstream, or if no
\* session was ever created for it that MERRICK knows of.
ClosedIsArchived ==
  \A k \in Kids : kid[k].closed => kid[k].sess = 0 \/ kid[k].sess \in archived

Over(r) == run[r].status \notin {"none"} \union Ongoing

\* When nothing is left to run for a run, it is over and so are its children:
\* neither card nor run waits for an event nobody will deliver.  The exception
\* is a card an interrupt left to nobody.  A poll that fails,
\* the time limit, and (with three children) "late_add" each leave a running
\* child that nobody polls.
QuietIsSettled ==
  Quiet => \A r \in Runs : run[r].status # "none" =>
             Over(r) /\ \A k \in KidsOf(r) : IsLive(k) => kid[k].cut

\* What OpenClaw still runs and nobody archived belongs to child k.
WorksFor(s, k) == owner[s] = k /\ k # 0 /\ task[s] \in Unfinished /\ s \notin archived

\* Once the board is quiet no session works on behind a card that is hidden or
\* says it succeeded, nor behind one that says it was cancelled unless an
\* interrupt cut off the call that dealt with the session, even if its receipt
\* arrived while the owner was closing or cancelling, a poll failed or an
\* archive call did.
NoRunawayWork ==
  Quiet => \A s \in Sessions, k \in Kids : WorksFor(s, k) =>
             /\ ~kid[k].closed
             /\ kid[k].status # "succeeded"
             /\ kid[k].status = "cancelled" => kid[k].cut

\* The status a run ends with is the one its children justify.
OutcomeTellsChildren ==
  Quiet => \A r \in Runs :
    LET won == {k \in KidsOf(r) : kid[k].status = "succeeded"}
    IN  /\ run[r].status = "succeeded" => won = KidsOf(r)
        /\ run[r].status = "partial" => won # {} /\ won # KidsOf(r)

\* Whatever the owner appends, closes or cancels meanwhile, a run that started
\* ends and its coroutines with it.
RunsEnd == \A r \in Runs : (run[r].status # "none") ~> (Over(r) /\ Quiet)

\* A close request is honoured: the card disappears or, if archiving failed,
\* becomes closable again.  The exceptions are a child that ended without a
\* session, which close_child leaves to a _spawn_child that is over, and one
\* whose _spawn_child was cut off.
CloseHonoured ==
  \A k \in Kids : kid[k].closeReq ~>
    kid[k].closed \/ ~kid[k].closeReq \/ (kid[k].sess = 0 /\ ~IsLive(k)) \/ kid[k].cut

(***************************************************************************)
(* What the documents of the feature say and the code does not do: TLC     *)
(* finds each violated; the README names the commands and the faults.      *)
(***************************************************************************)

\* "The main MERRICK agent ... produces one final synthesis after all children
\* are terminal" (requirements FR4; FR13 repeats it for appended children).
SynthesisWaits ==
  \A p \in Coroutines : co[p].pc = "synthesis" => \A k \in KidsOf(co[p].run) : ~IsLive(k)

\* "A parallel Plan Mode approach launches one real, visible OpenClaw child
\* session per independent work step" (FR1).
SpawnedOnce ==
  \A s, t \in Sessions : owner[s] # 0 /\ owner[s] = owner[t] => s = t

\* "Spawn independent children, wait for real terminal results, and cancel
\* safely" (MultiAgentRunController): no session works on behind a card that
\* says it was cancelled.
CancelledRests ==
  Quiet => \A s \in Sessions, k \in Kids : WorksFor(s, k) => kid[k].status # "cancelled"

\* "An archive race never overwrites a locally terminal/closed state"
\* (architecture, per-agent close).
TerminalIsFinal ==
  [][\A k \in Kids : kid[k].status \in Terminal => kid'[k].status = kid[k].status]_vars

\* "terminal or synthesizing runs are immutable and a manual launch starts a
\* new run" (requirements, constraints): no child of a run that is over and
\* was replaced starts to run.
ReplacedRunsRest ==
  \A r \in Runs : r < active /\ Over(r) => \A k \in KidsOf(r) : kid[k].status # "running"
=============================================================================
