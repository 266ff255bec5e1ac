------------------------------- MODULE PlanMode -------------------------------
(***************************************************************************)
(* The Plan Mode coordinator (server/plan_mode.py): one draft per session, *)
(* the approach the owner selected in it, and the ordered transitions of   *)
(* its steps.  Every method of PlanModeCoordinator is synchronous, so each *)
(* is one action; a method that raises PlanModeError changes nothing and   *)
(* has no action.  Titles, details and results are left out.               *)
(***************************************************************************)
EXTENDS Naturals, Functions

CONSTANTS
  Approaches,   \* identifiers of the approaches of a draft
  Size,         \* Size[a]: number of steps of approach a
  Mode,         \* Mode[a]: execution_mode of approach a
  None,         \* no approach selected
  MaxPlans      \* bound: drafts loaded in one behaviour

ExecutionModes == {"sequential", "parallel"}

ASSUME PlanAssumption ==
  /\ None \notin Approaches
  /\ Size \in [Approaches -> Nat \ {0}]
  /\ Mode \in [Approaches -> ExecutionModes]
  /\ MaxPlans \in Nat

StepStatuses == {"planned", "running", "succeeded", "failed", "cancelled", "blocked"}
FinishStatuses == {"succeeded", "failed", "blocked", "cancelled"}
PlanStatuses == {"draft", "ready", "running"} \union FinishStatuses

StepsOf(a) == 1..Size[a]

VARIABLE draft  \* the coordinator's _draft; id 0 stands for None

(***************************************************************************)
(* linked holds the approaches whose steps carry an organizer_task_id: the *)
(* organizer_project_id is set exactly when it is not empty.               *)
(***************************************************************************)
NewDraft(p) ==
  [id |-> p, status |-> "draft", sel |-> None, linked |-> {},
   steps |-> [a \in Approaches |-> [i \in StepsOf(a) |-> "planned"]]]

NoDraft == NewDraft(0)

HasDraft(d) == d.id # 0

Selected(d) == d.steps[d.sel]

Pending(d) == {i \in StepsOf(d.sel) : Selected(d)[i] = "planned"}

FirstPending_Mut(d) == {i \in Pending(d) : \A j \in Pending(d) : j <= i}
FirstPending(d) == {i \in Pending(d) : \A j \in Pending(d) : i <= j}

Runnable(d) == d.status \in {"ready", "running"} /\ d.sel # None

WithRunning(d, S) ==
  [d EXCEPT !.status = "running",
            !.steps[d.sel] = [i \in StepsOf(d.sel) |->
                                IF i \in S THEN "running" ELSE @[i]]]

\* The order of the tests is the code's: a plan with a running step is
\* running whatever its other steps reported.
PlanStatusOf_MutType(statuses) ==
  IF statuses = {"succeeded"} THEN "succeeded"
  ELSE IF "running" \in statuses THEN "running"
  ELSE IF "failed" \in statuses THEN "failed"
  ELSE IF "blocked" \in statuses THEN "blocked"
  ELSE IF "cancelled" \in statuses THEN "cancelled"
  ELSE "planned"
PlanStatusOf_Mut(statuses) ==
  CASE statuses = {"succeeded"}  -> "succeeded"
    [] "failed" \in statuses     -> "failed"
    [] "running" \in statuses    -> "running"
    [] "blocked" \in statuses    -> "blocked"
    [] "cancelled" \in statuses  -> "cancelled"
    [] OTHER                     -> "ready"
PlanStatusOf(statuses) ==
  IF statuses = {"succeeded"} THEN "succeeded"
  ELSE IF "running" \in statuses THEN "running"
  ELSE IF "failed" \in statuses THEN "failed"
  ELSE IF "blocked" \in statuses THEN "blocked"
  ELSE IF "cancelled" \in statuses THEN "cancelled"
  ELSE "ready"

WithFinished(d, i, s) ==
  LET done == [Selected(d) EXCEPT ![i] = s]
  IN  [d EXCEPT !.steps[d.sel] = done,
                !.status = PlanStatusOf(Range(done))]

WithCancelled_Mut(d) ==
  IF d.status \in FinishStatuses THEN d
  ELSE [d EXCEPT !.status = "cancelled",
                 !.steps = [a \in Approaches |->
                   [i \in StepsOf(a) |->
                      IF a = d.sel /\ @[a][i] # "planned" THEN "cancelled" ELSE @[a][i]]]]
WithCancelled(d) ==
  IF d.status \in FinishStatuses THEN d
  ELSE [d EXCEPT !.status = "cancelled",
                 !.steps = [a \in Approaches |->
                   [i \in StepsOf(a) |->
                      IF a = d.sel /\ @[a][i] = "running" THEN "cancelled" ELSE @[a][i]]]]

-----------------------------------------------------------------------------
Init == draft = NoDraft

\* load_draft, with the fresh identifier parse_plan_draft gives each draft.
LoadDraft ==
  /\ draft.id < MaxPlans
  /\ draft' = NewDraft(draft.id + 1)

Select(a) ==
  /\ HasDraft(draft)
  /\ draft.status \in {"draft", "ready"}
  /\ draft' = [draft EXCEPT !.sel = a, !.status = "ready"]

BindOrganizerRecords ==
  /\ HasDraft(draft)
  /\ draft.sel # None
  /\ draft' = [draft EXCEPT !.linked = @ \union {draft.sel}]

StartNext ==
  /\ HasDraft(draft)
  /\ Runnable(draft)
  /\ \E i \in FirstPending(draft) : draft' = WithRunning(draft, {i})

StartAllPending ==
  /\ HasDraft(draft)
  /\ Runnable(draft)
  /\ Mode[draft.sel] = "parallel"
  /\ Pending(draft) # {}
  /\ draft' = WithRunning(draft, Pending(draft))

FinishStep(i, s) ==
  /\ HasDraft(draft)
  /\ draft.sel # None
  /\ i \in StepsOf(draft.sel)
  /\ Selected(draft)[i] = "running"
  /\ draft' = WithFinished(draft, i, s)

Cancel ==
  /\ HasDraft(draft)
  /\ draft' = WithCancelled(draft)

Next ==
  \/ LoadDraft
  \/ \E a \in Approaches : Select(a)
  \/ BindOrganizerRecords
  \/ StartNext
  \/ StartAllPending
  \/ \E i \in UNION {StepsOf(a) : a \in Approaches}, s \in FinishStatuses :
       FinishStep(i, s)
  \/ Cancel

Spec == Init /\ [][Next]_draft

-----------------------------------------------------------------------------
StepMaps == UNION {[StepsOf(a) -> StepStatuses] : a \in Approaches}

\* Every field has its type, each approach its own steps.
TypeOK ==
  /\ draft \in [id : Nat, status : PlanStatuses, sel : Approaches \union {None},
                linked : SUBSET Approaches, steps : [Approaches -> StepMaps]]
  /\ \A a \in Approaches : draft.steps[a] \in [StepsOf(a) -> StepStatuses]

\* The plan's status always tells the truth about its steps: it is running
\* exactly while a step of the selected approach runs, no step of another
\* approach ever runs, it has succeeded only if every selected step has, and
\* it is failed or blocked only on account of a selected step that is.  The
\* status is computed from the steps in finish_step alone, while start_next,
\* start_all_pending, select and cancel write it outright.
StatusTellsSteps ==
  LET Has(s) == draft.sel # None /\ \E i \in StepsOf(draft.sel) : Selected(draft)[i] = s
  IN  /\ draft.status = "running" <=> Has("running")
      /\ \A a \in Approaches \ {draft.sel} :
           \A i \in StepsOf(a) : draft.steps[a][i] # "running"
      /\ draft.status = "succeeded" =>
           draft.sel # None /\ \A i \in StepsOf(draft.sel) : Selected(draft)[i] = "succeeded"
      /\ draft.status = "failed" => Has("failed")
      /\ draft.status = "blocked" => Has("blocked") /\ ~Has("failed")
      /\ draft.status = "draft" => draft.sel = None

\* Steps of an approach start in its order, whatever mixture of next and
\* parallel starts, reselections and finishes happened: the started steps
\* always form a prefix.
StartedInOrder ==
  \A a \in Approaches : \A i, j \in StepsOf(a) :
    i < j /\ draft.steps[a][j] # "planned" => draft.steps[a][i] # "planned"

\* Nothing rewrites an outcome: while the same plan is loaded, a step that
\* finished keeps its status and a plan that finished keeps its own.
OutcomesAreFinal ==
  [][ draft'.id = draft.id =>
        /\ \A a \in Approaches : \A i \in StepsOf(a) :
             draft.steps[a][i] \in FinishStatuses => draft'.steps[a][i] = draft.steps[a][i]
        /\ draft.status \in FinishStatuses => draft'.status = draft.status ]_draft
=============================================================================
