----------------------------- MODULE PlanExecution -----------------------------
(***************************************************************************)
(* How a session of server/main.py executes plans: the plan_mode_*         *)
(* handlers of its receive loop, the task that run_plan_mode is, the       *)
(* coordinator they share (PlanMode, every call of it synchronous) and the *)
(* agent board, reduced here to the status of its active run.  Handlers    *)
(* run one after another; execution tasks and the drafting task interleave *)
(* with them at their awaits.  Websocket sends never suspend here.         *)
(***************************************************************************)
EXTENDS Naturals, Functions

CONSTANTS
  Approaches, Size, Mode, None, MaxPlans,  \* as in PlanMode
  Tasks,   \* bound: execution tasks alive at the same time
  Env      \* what may happen around the plans

\* "manual": the board runs an agent the owner started by hand; "query_fails":
\* run_query hides a failure; the others are exceptions of run_query, of
\* completing an organizer task and of the gateway calls in the board's cancel.
AllEnv == {"manual", "query_fails", "query_raises", "organizer_fails", "cancel_fails"}

ASSUME PlanExecutionAssumption ==
  /\ None \notin Approaches
  /\ Size \in [Approaches -> Nat \ {0}]
  /\ Mode \in [Approaches -> {"sequential", "parallel"}]
  /\ MaxPlans \in Nat
  /\ Tasks # {}
  /\ Env \subseteq AllEnv

VARIABLES
  draft,   \* PlanMode's draft
  exec,    \* exec[t]: the run_plan_mode tasks
  latest,  \* plan_mode_execution_task, the task interrupts and cancels reach
  board,   \* plan and status of the board's active run
  rx,      \* what the receive loop is suspended in
  worked,  \* <<plan, approach, step>> that were really carried out
  failed,  \* the ones of the latest run whose failure run_query kept to itself
  done     \* the ones whose organizer task is completed

vars == <<draft, exec, latest, board, rx, worked, failed, done>>

Plan == INSTANCE PlanMode

-----------------------------------------------------------------------------
NoOutcome == [i \in {} |-> "failed"]
Ended == [pc |-> "off", plan |-> 0, mode |-> "next", ap |-> None, step |-> 0,
          todo |-> {}, out |-> NoOutcome, stop |-> FALSE]

Init ==
  /\ Plan!Init
  /\ exec = [t \in Tasks |-> Ended]
  /\ latest = CHOOSE t \in Tasks : TRUE
  /\ board = [plan |-> 0, st |-> "over"]
  /\ rx = "idle"
  /\ worked = {} /\ failed = {} /\ done = {}

Busy(t) == exec[t].pc # "off"
FreeTask == {CHOOSE t \in Tasks : ~Busy(t)}
Tag(t, i) == <<exec[t].plan, exec[t].ap, i>>

\* start_next and start_all_pending would not raise.
Startable(d) == Plan!HasDraft(d) /\ Plan!Runnable(d) /\ Plan!Pending(d) # {}

-----------------------------------------------------------------------------
\* create_plan_mode_draft or the automatic router loads a fresh draft.
NewPlan ==
  /\ Plan!LoadDraft
  /\ UNCHANGED <<exec, latest, board, rx, worked, failed, done>>

\* plan_mode_select; the Organizer gets a project for the first selection.
Select(a) ==
  /\ rx = "idle"
  /\ Plan!Select(a)
  /\ rx' = IF draft.linked = {} THEN "materializing" ELSE "idle"
  /\ UNCHANGED <<exec, latest, board, worked, failed, done>>

\* The records are bound to whatever draft is loaded now, if it fits.
Materialized ==
  /\ rx = "materializing"
  /\ rx' = "idle"
  /\ IF draft.sel # None THEN Plan!BindOrganizerRecords ELSE UNCHANGED draft
  /\ UNCHANGED <<exec, latest, board, worked, failed, done>>

\* plan_mode_run, for a plan the HUD may hold a stale snapshot of.
Run_Mut(p, mode) ==
  /\ rx = "idle"
  /\ \E u \in Tasks : ~Busy(u)
  /\ \E t \in FreeTask :
       /\ exec' = [exec EXCEPT ![t] = [Ended EXCEPT !.pc = "new", !.plan = p, !.mode = mode]]
       /\ latest' = t
  /\ failed' = {}
  /\ UNCHANGED <<draft, board, rx, worked, done>>
Run(p, mode) ==
  /\ rx = "idle"
  /\ ~Busy(latest)
  /\ \E t \in FreeTask :
       /\ exec' = [exec EXCEPT ![t] = [Ended EXCEPT !.pc = "new", !.plan = p, !.mode = mode]]
       /\ latest' = t
  /\ failed' = {}
  /\ UNCHANGED <<draft, board, rx, worked, done>>

\* interrupt_active_turn: a barge-in, a new query or the HUD's stop button.
Interrupt ==
  /\ Busy(latest)
  /\ exec' = [exec EXCEPT ![latest].stop = TRUE]
  /\ UNCHANGED <<draft, latest, board, rx, worked, failed, done>>

\* plan_mode_cancel: while the board works on the plan its cancel is awaited,
\* otherwise the coordinator and the task are cancelled.
BoardWorksOn(p) == board.plan = p /\ board.st # "over"

CancelPlan ==
  /\ rx = "idle"
  /\ Plan!HasDraft(draft)
  /\ \/ /\ BoardWorksOn(draft.id)
        /\ board' = [board EXCEPT !.st = "cancelling"]
        /\ rx' = IF board.st = "cancelling" THEN "idle" ELSE "stopping"
        /\ UNCHANGED <<draft, exec>>
     \/ /\ ~BoardWorksOn(draft.id)
        /\ draft' = Plan!WithCancelled(draft)
        /\ exec' = [exec EXCEPT ![latest].stop = Busy(latest)]
        /\ UNCHANGED <<board, rx>>
  /\ UNCHANGED <<latest, worked, failed, done>>

CancelReturns ==
  /\ rx = "stopping"
  /\ rx' = "idle"
  /\ board' = [board EXCEPT !.st = "over"]
  /\ UNCHANGED <<draft, exec, latest, worked, failed, done>>

-----------------------------------------------------------------------------
\* run_plan_mode up to its first await that may suspend it.
Query(t, d) ==
  \E i \in Plan!FirstPending(d) :
    /\ draft' = Plan!WithRunning(d, {i})
    /\ exec' = [exec EXCEPT ![t] = [@ EXCEPT !.pc = "querying", !.ap = d.sel, !.step = i]]

Delegates(t) == exec[t].mode = "all" /\ Mode[draft.sel] = "parallel"

Starts(t) ==
  /\ exec[t].pc = "new" /\ ~exec[t].stop
  /\ draft.id = exec[t].plan /\ Startable(draft)
  /\ \/ ~Delegates(t) /\ Query(t, draft) /\ UNCHANGED board
     \/ /\ Delegates(t)
        /\ draft' = Plan!WithRunning(draft, Plan!Pending(draft))
        /\ IF board.st = "over"
             THEN /\ board' = [plan |-> draft.id, st |-> "live"]
                  /\ exec' = [exec EXCEPT ![t] = [@ EXCEPT !.pc = "delegated", !.ap = draft.sel,
                                                           !.todo = Plan!Pending(draft)]]
             ELSE /\ exec' = [exec EXCEPT ![t] = Ended]  \* "already active" is raised
                  /\ UNCHANGED board
  /\ UNCHANGED <<latest, rx, worked, failed, done>>

\* The plan is stale, nothing is selected or no step is pending.
Refused(t) ==
  /\ exec[t].pc = "new" /\ ~exec[t].stop
  /\ draft.id # exec[t].plan \/ ~Startable(draft)
  /\ exec' = [exec EXCEPT ![t] = Ended]
  /\ UNCHANGED <<draft, latest, board, rx, worked, failed, done>>

\* finish_step finds its step running in the draft loaded now; step ids are the
\* planner's, so two drafts may share them.
Finishes(t) ==
  /\ draft.sel # None
  /\ exec[t].step \in Plan!StepsOf(draft.sel)
  /\ Plan!Selected(draft)[exec[t].step] = "running"

\* The loop of run_plan_mode after a step, with d the draft it left.
GoesOn(t, d) ==
  exec[t].mode = "all" /\ d.status = "ready" /\ d.id = exec[t].plan /\ Startable(d)
Continue(t, d) ==
  \/ GoesOn(t, d) /\ Query(t, d)
  \/ ~GoesOn(t, d) /\ draft' = d /\ exec' = [exec EXCEPT ![t] = Ended]

Hidden == IF "query_fails" \in Env THEN BOOLEAN ELSE {FALSE}

QueryReturns(t) ==
  /\ exec[t].pc = "querying" /\ ~exec[t].stop
  /\ LET tag == Tag(t, exec[t].step)
         finished == Plan!WithFinished(draft, exec[t].step, "succeeded")
     IN  /\ worked' = worked \union {tag}
         /\ \E hidden \in Hidden : failed' = IF hidden THEN failed \union {tag} ELSE failed
         /\ \/ /\ Finishes(t)
               /\ IF exec[t].ap \in draft.linked
                    THEN draft' = finished /\ exec' = [exec EXCEPT ![t].pc = "organizer"]
                    ELSE Continue(t, finished)
            \/ ~Finishes(t) /\ exec' = [exec EXCEPT ![t] = Ended] /\ UNCHANGED draft
  /\ UNCHANGED <<latest, board, rx, done>>

QueryRaises_Mut(t) ==
  /\ "query_raises" \in Env
  /\ exec[t].pc = "querying" /\ ~exec[t].stop
  /\ exec' = [exec EXCEPT ![t] = IF Finishes(t) THEN [@ EXCEPT !.pc = "organizer"] ELSE Ended]
  /\ draft' = IF Finishes(t) THEN Plan!WithFinished(draft, exec[t].step, "failed") ELSE draft
  /\ UNCHANGED <<latest, board, rx, worked, failed, done>>
QueryRaises(t) ==
  /\ "query_raises" \in Env
  /\ exec[t].pc = "querying" /\ ~exec[t].stop
  /\ exec' = [exec EXCEPT ![t] = Ended]
  /\ draft' = IF Finishes(t) THEN Plan!WithFinished(draft, exec[t].step, "failed") ELSE draft
  /\ UNCHANGED <<latest, board, rx, worked, failed, done>>

\* The task a worker thread is completing; cancelling the task that awaits it
\* does not stop the thread.
Completing(t) ==
  IF exec[t].pc \in {"organizer", "recording"} /\ exec[t].step # 0
    THEN {Tag(t, exec[t].step)} ELSE {}

OrganizerReturns(t) ==
  /\ exec[t].pc = "organizer" /\ ~exec[t].stop
  /\ done' = done \union Completing(t)
  /\ Continue(t, draft)
  /\ UNCHANGED <<latest, board, rx, worked, failed>>

OrganizerRaises(t) ==
  /\ "organizer_fails" \in Env
  /\ exec[t].pc \in {"organizer", "recording"} /\ ~exec[t].stop
  /\ exec' = [exec EXCEPT ![t] = Ended]
  /\ UNCHANGED <<draft, latest, board, rx, worked, failed, done>>

-----------------------------------------------------------------------------
\* run_parallel_plan_mode after execute.  The children's outcomes are recorded
\* in order up to the first one whose organizer task has to be completed.
Completes(t, out, i) == out[i] = "succeeded" /\ exec[t].ap \in draft.linked

Batch(t, out, todo) ==
  {i \in todo : \A j \in todo : j < i => ~Completes(t, out, j)}

Fits(S) ==
  S = {} \/ /\ draft.sel # None
            /\ S \subseteq {i \in Plan!StepsOf(draft.sel) : Plan!Selected(draft)[i] = "running"}

WithRecorded(out, S) ==
  IF S = {} THEN draft
  ELSE LET steps == [i \in Plan!StepsOf(draft.sel) |->
                       IF i \in S THEN out[i] ELSE Plan!Selected(draft)[i]]
       IN  [draft EXCEPT !.steps[draft.sel] = steps, !.status = Plan!PlanStatusOf(Range(steps))]

\* The run is finished at once or, with a usable result, synthesized.
Tail(t, out) ==
  IF "succeeded" \in Range(out)
    THEN /\ exec' = [exec EXCEPT ![t] = [@ EXCEPT !.pc = "synthesis", !.todo = {}]]
         /\ board' = [board EXCEPT !.st = "synthesizing"]
    ELSE /\ exec' = [exec EXCEPT ![t] = Ended]
         /\ board' = [board EXCEPT !.st = "over"]

\* The next batch is recorded, then an organizer call is awaited: completing
\* the last step's task or, at the end, the snapshot alone (step 0).  A step
\* that is not running any more ends the task and leaves the board as it is.
Record(t, out, todo) ==
  LET S == Batch(t, out, todo)
      completing == {i \in S : Completes(t, out, i)}
  IN  \/ /\ Fits(S)
         /\ draft' = WithRecorded(out, S)
         /\ \E i \in IF completing = {} THEN {0} ELSE completing :
              exec' = [exec EXCEPT ![t] = [@ EXCEPT !.pc = "recording", !.step = i, !.out = out,
                                                    !.todo = todo \ S]]
      \/ /\ ~Fits(S)
         /\ exec' = [exec EXCEPT ![t] = Ended]
         /\ UNCHANGED draft

\* execute returns; children may have been closed or cancelled.
BoardReturns(t) ==
  /\ exec[t].pc = "delegated" /\ ~exec[t].stop
  /\ \E out \in [exec[t].todo -> {"succeeded", "failed", "cancelled"}] :
       /\ worked' = worked \union {Tag(t, i) : i \in {i \in DOMAIN out : out[i] = "succeeded"}}
       /\ Record(t, out, exec[t].todo)
       /\ board' = [board EXCEPT !.st = IF Range(out) = {"succeeded"} THEN "synthesizing" ELSE "over"]
  /\ UNCHANGED <<latest, rx, failed, done>>

RecordingReturns(t) ==
  /\ exec[t].pc = "recording" /\ ~exec[t].stop
  /\ done' = done \union Completing(t)
  /\ \/ exec[t].todo # {} /\ Record(t, exec[t].out, exec[t].todo) /\ UNCHANGED board
     \/ exec[t].todo = {} /\ Tail(t, exec[t].out) /\ UNCHANGED draft
  /\ UNCHANGED <<latest, rx, worked, failed>>

SynthesisEnds(t) ==
  /\ exec[t].pc = "synthesis" /\ ~exec[t].stop
  /\ exec' = [exec EXCEPT ![t] = Ended]
  /\ board' = [board EXCEPT !.st = "over"]
  /\ UNCHANGED <<draft, latest, rx, worked, failed, done>>

-----------------------------------------------------------------------------
\* CancelledError reaches the task.  One that never started ends at once; the
\* others cancel the board's run, if it works on their plan, and then whatever
\* draft is loaded.
CancelsBoard(t) == board.plan = exec[t].plan /\ board.st \in {"live", "synthesizing"}

Stopped_Mut(t) ==
  /\ exec[t].stop
  /\ exec[t].pc \in {"new", "querying", "organizer", "delegated", "synthesis"}
  /\ done' = done \union Completing(t)
  /\ \/ /\ exec[t].pc # "new" /\ CancelsBoard(t)
        /\ board' = [board EXCEPT !.st = "cancelling"]
        /\ exec' = [exec EXCEPT ![t] = [@ EXCEPT !.pc = "stopping", !.stop = FALSE]]
        /\ UNCHANGED draft
     \/ /\ exec[t].pc = "new" \/ ~CancelsBoard(t)
        /\ draft' = IF exec[t].pc = "new" THEN draft ELSE Plan!WithCancelled(draft)
        /\ exec' = [exec EXCEPT ![t] = Ended]
        /\ UNCHANGED board
  /\ UNCHANGED <<latest, rx, worked, failed>>
Stopped(t) ==
  /\ exec[t].stop
  /\ exec[t].pc \notin {"off", "stopping"}
  /\ done' = done \union Completing(t)
  /\ \/ /\ exec[t].pc # "new" /\ CancelsBoard(t)
        /\ board' = [board EXCEPT !.st = "cancelling"]
        /\ exec' = [exec EXCEPT ![t] = [@ EXCEPT !.pc = "stopping", !.stop = FALSE]]
        /\ UNCHANGED draft
     \/ /\ exec[t].pc = "new" \/ ~CancelsBoard(t)
        /\ draft' = IF exec[t].pc = "new" THEN draft ELSE Plan!WithCancelled(draft)
        /\ exec' = [exec EXCEPT ![t] = Ended]
        /\ UNCHANGED board
  /\ UNCHANGED <<latest, rx, worked, failed>>

\* The board's cancel returns; if it raises, or the task is cancelled again
\* meanwhile, the coordinator is never told.
StopEnds(t) ==
  /\ exec[t].pc = "stopping"
  /\ \/ ~exec[t].stop /\ draft' = Plan!WithCancelled(draft)
     \/ (exec[t].stop \/ "cancel_fails" \in Env) /\ UNCHANGED draft
  /\ exec' = [exec EXCEPT ![t] = Ended]
  /\ board' = [board EXCEPT !.st = "over"]
  /\ UNCHANGED <<latest, rx, worked, failed, done>>

\* The owner's own agents occupy the board.
ManualStarts ==
  /\ "manual" \in Env
  /\ board.st = "over"
  /\ board' = [plan |-> 0, st |-> "live"]
  /\ UNCHANGED <<draft, exec, latest, rx, worked, failed, done>>

ManualEnds ==
  /\ board.plan = 0 /\ board.st # "over"
  /\ board' = [board EXCEPT !.st = "over"]
  /\ UNCHANGED <<draft, exec, latest, rx, worked, failed, done>>

Step(t) ==
  \/ Starts(t) \/ Refused(t) \/ QueryReturns(t) \/ QueryRaises(t)
  \/ OrganizerReturns(t) \/ OrganizerRaises(t)
  \/ BoardReturns(t) \/ RecordingReturns(t) \/ SynthesisEnds(t)
  \/ Stopped(t) \/ StopEnds(t)

Next ==
  \/ NewPlan \/ Materialized \/ Interrupt \/ CancelPlan \/ CancelReturns
  \/ \E a \in Approaches : Select(a)
  \/ \E p \in 1..draft.id, mode \in {"next", "all"} : Run(p, mode)
  \/ \E t \in Tasks : Step(t)
  \/ ManualStarts \/ ManualEnds

Spec == Init /\ [][Next]_vars

\* Awaited calls end and the event loop resumes every task.
FairSpec == Spec /\ \A t \in Tasks : WF_vars(Step(t))

-----------------------------------------------------------------------------
Steps == UNION {Plan!StepsOf(a) : a \in Approaches}
Tags == (1..MaxPlans) \X Approaches \X Steps

\* Every variable has its type.
TypeOK ==
  /\ Plan!TypeOK
  /\ \A t \in Tasks :
       /\ exec[t].pc \in {"off", "new", "querying", "organizer", "delegated", "recording",
                          "synthesis", "stopping"}
       /\ exec[t].plan \in 0..MaxPlans
       /\ exec[t].todo \subseteq Steps
  /\ latest \in Tasks
  /\ board \in [plan : 0..MaxPlans, st : {"over", "live", "cancelling", "synthesizing"}]
  /\ rx \in {"idle", "materializing", "stopping"}
  /\ worked \subseteq Tags /\ failed \subseteq worked /\ done \subseteq Tags

\* A step of the loaded plan is shown as succeeded only if it was carried out
\* for that plan and that approach.  finish_step looks at the step id alone,
\* and plans share their ids: a result of a plan that was replaced must not
\* land on a step of its successor.
SuccessWasWorked ==
  \A a \in Approaches : \A i \in Plan!StepsOf(a) :
    draft.steps[a][i] = "succeeded" => <<draft.id, a, i>> \in worked

\* The Organizer never hears of more than the plan achieved: a completed task
\* belongs to an approach that has tasks and to a step that succeeded, however
\* its run was interrupted.
TasksTellSteps ==
  \A tag \in done : tag[1] = draft.id =>
    tag[2] \in draft.linked /\ draft.steps[tag[2]][tag[3]] = "succeeded"

\* An interrupt ends the execution of the plan wherever it is suspended, so
\* that the session can run a plan again.
InterruptHonoured == \A t \in Tasks : exec[t].stop ~> ~Busy(t)

(***************************************************************************)
(* What the documents of the feature say and the code does not do.         *)
(***************************************************************************)

\* "A single failed/blocked step stops Run all; no later step is started"
\* (plan-mode data model).
FailedStepStops == \A t \in Tasks : exec[t].pc = "querying" => failed = {}
=============================================================================
