-------------------------- MODULE PlanExecutionProofs --------------------------
(***************************************************************************)
(* Theorems of PlanExecution, for any approaches, any number of drafts and *)
(* tasks and any failures: the variables have their types, a step shown as *)
(* succeeded was carried out for its own plan and approach, and the        *)
(* Organizer is told only of steps the plan shows as succeeded.            *)
(***************************************************************************)
EXTENDS PlanExecution, TLAPS

-----------------------------------------------------------------------------
\* Drafts, as values.
StepsType ==
  {f \in [Approaches -> Plan!StepMaps] :
     \A a \in Approaches : f[a] \in [Plan!StepsOf(a) -> Plan!StepStatuses]}

DraftType ==
  [id : Nat, status : Plan!PlanStatuses, sel : Approaches \union {None},
   linked : SUBSET Approaches, steps : StepsType]

\* The draft d with status st and the selected approach's steps g.
With(d, st, g) == [d EXCEPT !.status = st, !.steps[d.sel] = g]

LEMMA WithTyped ==
  ASSUME NEW d \in DraftType, d.sel # None,
         NEW st \in Plan!PlanStatuses,
         NEW g \in [Plan!StepsOf(d.sel) -> Plan!StepStatuses]
  PROVE  /\ With(d, st, g) \in DraftType
         /\ With(d, st, g).id = d.id
         /\ With(d, st, g).status = st
         /\ With(d, st, g).sel = d.sel
         /\ With(d, st, g).linked = d.linked
         /\ \A a \in Approaches : With(d, st, g).steps[a] = IF a = d.sel THEN g ELSE d.steps[a]
<1>1. d.sel \in Approaches /\ d.steps \in [Approaches -> Plan!StepMaps]
  BY DEF DraftType, StepsType
<1>2. g \in Plan!StepMaps
  BY <1>1 DEF Plan!StepMaps
<1>3. [d.steps EXCEPT ![d.sel] = g] \in StepsType
  BY <1>1, <1>2 DEF DraftType, StepsType
<1>4. With(d, st, g) = [d EXCEPT !.status = st, !.steps = [d.steps EXCEPT ![d.sel] = g]]
  BY DEF With, DraftType
<1>5. With(d, st, g).steps = [d.steps EXCEPT ![d.sel] = g]
  BY <1>4 DEF DraftType
<1> HIDE DEF With
<1>6. With(d, st, g) \in DraftType
  BY <1>3, <1>4 DEF DraftType
<1> QED
  BY <1>1, <1>4, <1>5, <1>6 DEF DraftType

LEMMA WithRunningIsWith ==
  ASSUME NEW d \in DraftType, NEW S
  PROVE  Plan!WithRunning(d, S) =
           With(d, "running", [i \in Plan!StepsOf(d.sel) |->
                                 IF i \in S THEN "running" ELSE Plan!Selected(d)[i]])
  BY DEF Plan!WithRunning, With, Plan!Selected

LEMMA WithFinishedIsWith ==
  ASSUME NEW d \in DraftType, d.sel # None, NEW i, NEW s
  PROVE  LET g == [Plan!Selected(d) EXCEPT ![i] = s]
         IN  Plan!WithFinished(d, i, s) = With(d, Plan!PlanStatusOf(Plan!Range(g)), g)
<1> DEFINE g == [Plan!Selected(d) EXCEPT ![i] = s]
           st == Plan!PlanStatusOf(Plan!Range(g))
<1>1. Plan!WithFinished(d, i, s) = [d EXCEPT !.steps[d.sel] = g, !.status = st]
  BY DEF Plan!WithFinished
<1> HIDE DEF st, g
<1>2. [d EXCEPT !.steps[d.sel] = g, !.status = st] = With(d, st, g)
  BY DEF With, DraftType
<1> QED
  BY <1>1, <1>2 DEF g, st

LEMMA StatusTyped ==
  ASSUME NEW T
  PROVE  /\ Plan!PlanStatusOf(T) \in Plan!PlanStatuses
         /\ "running" \in T => Plan!PlanStatusOf(T) = "running"
  BY DEF Plan!PlanStatusOf, Plan!PlanStatuses, Plan!FinishStatuses

\* What each update of the draft does to its fields.
LEMMA Running ==
  ASSUME NEW d \in DraftType, d.sel # None, NEW S
  PROVE  LET e == Plan!WithRunning(d, S) IN
         /\ e \in DraftType
         /\ e.id = d.id /\ e.sel = d.sel /\ e.linked = d.linked /\ e.status = "running"
         /\ \A a \in Approaches : \A i \in Plan!StepsOf(a) :
              e.steps[a][i] = IF a = d.sel /\ i \in S THEN "running" ELSE d.steps[a][i]
<1> DEFINE g == [i \in Plan!StepsOf(d.sel) |-> IF i \in S THEN "running" ELSE Plan!Selected(d)[i]]
<1>1. d.sel \in Approaches /\ d.steps[d.sel] \in [Plan!StepsOf(d.sel) -> Plan!StepStatuses]
  BY DEF DraftType, StepsType
<1>2. g \in [Plan!StepsOf(d.sel) -> Plan!StepStatuses]
  BY <1>1 DEF Plan!Selected, Plan!StepStatuses
<1>3. "running" \in Plan!PlanStatuses
  BY DEF Plan!PlanStatuses
<1>4. \A i \in Plan!StepsOf(d.sel) : g[i] = IF i \in S THEN "running" ELSE d.steps[d.sel][i]
  BY DEF Plan!Selected
<1>5. Plan!WithRunning(d, S) = With(d, "running", g)
  BY WithRunningIsWith
<1> HIDE DEF g
<1> QED
  BY <1>2, <1>3, <1>4, <1>5, WithTyped

LEMMA Finished ==
  ASSUME NEW d \in DraftType, d.sel # None,
         NEW i \in Plan!StepsOf(d.sel), NEW s \in Plan!StepStatuses
  PROVE  LET e == Plan!WithFinished(d, i, s) IN
         /\ e \in DraftType
         /\ e.id = d.id /\ e.sel = d.sel /\ e.linked = d.linked
         /\ \A a \in Approaches : \A j \in Plan!StepsOf(a) :
              e.steps[a][j] = IF a = d.sel /\ j = i THEN s ELSE d.steps[a][j]
<1> DEFINE g == [Plan!Selected(d) EXCEPT ![i] = s]
           st == Plan!PlanStatusOf(Plan!Range(g))
<1>1. d.sel \in Approaches /\ d.steps[d.sel] \in [Plan!StepsOf(d.sel) -> Plan!StepStatuses]
  BY DEF DraftType, StepsType
<1>2. g \in [Plan!StepsOf(d.sel) -> Plan!StepStatuses]
  BY <1>1 DEF Plan!Selected
<1>3. st \in Plan!PlanStatuses
  BY StatusTyped
<1>4. \A j \in Plan!StepsOf(d.sel) : g[j] = IF j = i THEN s ELSE d.steps[d.sel][j]
  BY <1>1 DEF Plan!Selected
<1>5. Plan!WithFinished(d, i, s) = With(d, st, g)
  BY WithFinishedIsWith
<1> HIDE DEF g, st
<1> QED
  BY <1>2, <1>3, <1>4, <1>5, WithTyped

LEMMA Recorded ==
  ASSUME draft \in DraftType, NEW out, NEW S, S # {}, Fits(S),
         \A i \in S : out[i] \in Plan!StepStatuses
  PROVE  LET e == WithRecorded(out, S) IN
         /\ draft.sel \in Approaches
         /\ e \in DraftType
         /\ e.id = draft.id /\ e.sel = draft.sel /\ e.linked = draft.linked
         /\ \A a \in Approaches : \A j \in Plan!StepsOf(a) :
              e.steps[a][j] = IF a = draft.sel /\ j \in S THEN out[j] ELSE draft.steps[a][j]
         /\ (\E j \in Plan!StepsOf(draft.sel) : j \notin S /\ draft.steps[draft.sel][j] = "running")
              => e.status = "running"
<1> DEFINE g == [i \in Plan!StepsOf(draft.sel) |-> IF i \in S THEN out[i] ELSE Plan!Selected(draft)[i]]
           st == Plan!PlanStatusOf(Range(g))
<1>1. /\ draft.sel \in Approaches
      /\ draft.steps[draft.sel] \in [Plan!StepsOf(draft.sel) -> Plan!StepStatuses]
  BY DEF DraftType, StepsType, Fits
<1>2. g \in [Plan!StepsOf(draft.sel) -> Plan!StepStatuses]
  BY <1>1 DEF Plan!Selected, Fits
<1>3. st \in Plan!PlanStatuses
  BY StatusTyped
<1>4. \A j \in Plan!StepsOf(draft.sel) : g[j] = IF j \in S THEN out[j] ELSE draft.steps[draft.sel][j]
  BY DEF Plan!Selected
<1>5. (\E j \in Plan!StepsOf(draft.sel) : j \notin S /\ draft.steps[draft.sel][j] = "running")
        => "running" \in Range(g)
  BY <1>4 DEF Range
<1>6. draft.sel # None
  BY <1>1, PlanExecutionAssumption
<1>7. WithRecorded(out, S) = With(draft, st, g)
  <2>1. WithRecorded(out, S) = [draft EXCEPT !.steps[draft.sel] = g, !.status = st]
    BY DEF WithRecorded
  <2> HIDE DEF st, g
  <2>2. [draft EXCEPT !.steps[draft.sel] = g, !.status = st] = With(draft, st, g)
    BY DEF With, DraftType
  <2> QED
    BY <2>1, <2>2
<1>8. "running" \in Range(g) => st = "running"
  BY StatusTyped
<1> HIDE DEF g, st
<1> QED
  BY <1>1, <1>2, <1>3, <1>4, <1>5, <1>6, <1>7, <1>8, WithTyped

LEMMA Cancelled ==
  ASSUME NEW d \in DraftType
  PROVE  LET e == Plan!WithCancelled(d) IN
         /\ e \in DraftType
         /\ e.id = d.id /\ e.sel = d.sel /\ e.linked = d.linked
         /\ e.status \notin {"draft", "ready"}
         /\ \A a \in Approaches : \A j \in Plan!StepsOf(a) :
              e.steps[a][j] \in {d.steps[a][j], "cancelled"}
         /\ \A a \in Approaches : \A j \in Plan!StepsOf(a) :
              d.steps[a][j] # "running" => e.steps[a][j] = d.steps[a][j]
         /\ \/ e.steps = d.steps
            \/ \A j \in Plan!StepsOf(d.sel) : d.sel \in Approaches => e.steps[d.sel][j] # "running"
<1> DEFINE f == [a \in Approaches |->
                  [j \in Plan!StepsOf(a) |->
                     IF a = d.sel /\ d.steps[a][j] = "running" THEN "cancelled" ELSE d.steps[a][j]]]
<1>1. CASE d.status \in Plan!FinishStatuses
  <2>1. Plan!WithCancelled(d) = d
    BY <1>1 DEF Plan!WithCancelled
  <2>2. d.status \notin {"draft", "ready"}
    BY <1>1 DEF Plan!FinishStatuses
  <2> QED
    BY <2>1, <2>2
<1>2. CASE d.status \notin Plan!FinishStatuses
  <2>1. Plan!WithCancelled(d) = [d EXCEPT !.status = "cancelled", !.steps = f]
    BY <1>2 DEF Plan!WithCancelled
  <2>2. \A a \in Approaches : d.steps[a] \in [Plan!StepsOf(a) -> Plan!StepStatuses]
    BY DEF DraftType, StepsType
  <2>3. \A a \in Approaches : f[a] \in [Plan!StepsOf(a) -> Plan!StepStatuses]
    BY <2>2 DEF Plan!StepStatuses
  <2>4. \A a \in Approaches : f[a] \in Plan!StepMaps
    BY <2>3 DEF Plan!StepMaps
  <2>5. f \in StepsType
    BY <2>3, <2>4 DEF StepsType
  <2>6. \A a \in Approaches : \A j \in Plan!StepsOf(a) :
          f[a][j] = IF a = d.sel /\ d.steps[a][j] = "running" THEN "cancelled" ELSE d.steps[a][j]
    OBVIOUS
  <2> HIDE DEF f
  <2>7. /\ Plan!WithCancelled(d) \in DraftType
        /\ Plan!WithCancelled(d).id = d.id
        /\ Plan!WithCancelled(d).sel = d.sel
        /\ Plan!WithCancelled(d).linked = d.linked
        /\ Plan!WithCancelled(d).status = "cancelled"
        /\ Plan!WithCancelled(d).steps = f
    BY <2>1, <2>5 DEF DraftType, Plan!PlanStatuses, Plan!FinishStatuses
  <2> QED
    BY <2>6, <2>7
<1> QED
  BY <1>1, <1>2

-----------------------------------------------------------------------------
\* The inductive invariant.
Outcomes == {"succeeded", "failed", "cancelled"}
OutType == UNION {[S -> Outcomes] : S \in SUBSET Nat}
PCs == {"off", "new", "querying", "organizer", "delegated", "recording", "synthesis", "stopping"}
ExecType == [pc : PCs, plan : Nat, mode : {"next", "all"}, ap : Approaches \union {None},
             step : Nat, todo : SUBSET Nat, out : OutType, stop : BOOLEAN]

Typed ==
  /\ draft \in DraftType
  /\ exec \in [Tasks -> ExecType]
  /\ latest \in Tasks

\* plan_mode_run starts a task only after the previous one has ended.
OneBusy == \A t \in Tasks : Busy(t) => t = latest

Engaged(t) == exec[t].pc \notin {"off", "new"}

Working(t) ==
  exec[t].pc \in {"querying", "delegated"} \/ (exec[t].pc = "recording" /\ exec[t].todo # {})

\* While a task is engaged in a plan that was replaced no step of the successor
\* runs; while it works on the loaded plan the selection stands, and the steps
\* it waits for run or were cancelled together.
TaskInv(t) ==
  /\ Busy(t) => exec[t].plan <= draft.id
  /\ Engaged(t) /\ exec[t].plan # draft.id =>
       \A a \in Approaches : \A i \in Plan!StepsOf(a) : draft.steps[a][i] # "running"
  /\ Working(t) /\ exec[t].plan = draft.id =>
       /\ draft.sel = exec[t].ap /\ draft.sel \in Approaches
       /\ draft.status \notin {"draft", "ready"}
       /\ exec[t].pc # "querying" =>
            /\ exec[t].todo \subseteq Plan!StepsOf(exec[t].ap)
            /\ \/ \A i \in exec[t].todo : draft.steps[exec[t].ap][i] = "running"
               \/ \A i \in Plan!StepsOf(exec[t].ap) : draft.steps[exec[t].ap][i] # "running"
  /\ exec[t].pc = "recording" =>
       \A i \in exec[t].todo :
         /\ exec[t].out[i] \in Outcomes
         /\ exec[t].out[i] = "succeeded" => Tag(t, i) \in worked

IInv == Typed /\ OneBusy /\ (\A t \in Tasks : TaskInv(t)) /\ SuccessWasWorked

LEMMA OutcomesTyped == Outcomes \subseteq Plan!StepStatuses
  BY DEF Outcomes, Plan!StepStatuses

LEMMA StepsOfNat == \A a \in Approaches : Plan!StepsOf(a) \in SUBSET Nat
  BY PlanExecutionAssumption DEF Plan!StepsOf

LEMMA EndedTyped == Ended \in ExecType /\ Ended.pc = "off"
<1>1. NoOutcome \in [{} -> Outcomes]
  BY DEF NoOutcome
<1>2. NoOutcome \in OutType
  BY <1>1 DEF OutType
<1> QED
  BY <1>2 DEF Ended, ExecType, PCs

\* A step of the busy task disturbs no other task.
LEMMA TaskStep ==
  ASSUME IInv, NEW t \in Tasks, Busy(t), latest' = latest,
         NEW new \in ExecType, exec' = [exec EXCEPT ![t] = new],
         draft' \in DraftType, TaskInv(t)', SuccessWasWorked'
  PROVE  IInv'
<1>1. Typed'
  BY DEF IInv, Typed
<1>2. t = latest /\ \A u \in Tasks : u # t => ~Busy(u)
  BY DEF IInv, OneBusy
<1>3. exec'[t] = new /\ \A u \in Tasks : u # t => exec'[u] = exec[u]
  BY DEF IInv, Typed
<1>4. \A u \in Tasks : u # t => exec'[u].pc = "off"
  BY <1>2, <1>3 DEF Busy
<1>5. OneBusy'
  BY <1>2, <1>4 DEF OneBusy, Busy
<1>6. ASSUME NEW u \in Tasks, u # t
      PROVE  TaskInv(u)'
  BY <1>4, <1>6 DEF TaskInv, Busy, Engaged, Working
<1> QED
  BY <1>1, <1>5, <1>6 DEF IInv

LEMMA TaskEnds ==
  ASSUME IInv, NEW t \in Tasks, Busy(t), latest' = latest,
         exec' = [exec EXCEPT ![t] = Ended],
         draft' \in DraftType, SuccessWasWorked'
  PROVE  IInv'
<1>1. exec'[t].pc = "off"
  BY EndedTyped DEF IInv, Typed
<1>2. TaskInv(t)'
  BY <1>1 DEF TaskInv, Busy, Engaged, Working
<1> QED
  BY <1>2, TaskStep, EndedTyped

LEMMA SuccessKept ==
  ASSUME IInv, worked \subseteq worked', draft'.id = draft.id,
         \A a \in Approaches : \A i \in Plan!StepsOf(a) :
           draft'.steps[a][i] = "succeeded" =>
             draft.steps[a][i] = "succeeded" \/ <<draft.id, a, i>> \in worked'
  PROVE  SuccessWasWorked'
  BY DEF IInv, SuccessWasWorked, Plan!StepsOf

\* run_plan_mode's loop, from the draft d its last step left.
LEMMA Continues ==
  ASSUME IInv, NEW t \in Tasks, Busy(t), NEW d \in DraftType, Continue(t, d), latest' = latest,
         worked \subseteq worked', d.id = draft.id,
         \A a \in Approaches : \A i \in Plan!StepsOf(a) :
           d.steps[a][i] = "succeeded" =>
             draft.steps[a][i] = "succeeded" \/ <<draft.id, a, i>> \in worked'
  PROVE  IInv'
<1>1. CASE draft' = d /\ exec' = [exec EXCEPT ![t] = Ended]
  <2>1. SuccessWasWorked'
    BY <1>1, SuccessKept
  <2> QED
    BY <1>1, <2>1, TaskEnds
<1>2. CASE GoesOn(t, d) /\ Query(t, d)
  <2>1. PICK i \in Plan!FirstPending(d) :
          /\ draft' = Plan!WithRunning(d, {i})
          /\ exec' = [exec EXCEPT ![t] = [exec[t] EXCEPT !.pc = "querying", !.ap = d.sel, !.step = i]]
    BY <1>2 DEF Query, IInv, Typed
  <2>2. d.sel # None /\ d.id = exec[t].plan
    BY <1>2 DEF GoesOn, Startable, Plan!Runnable
  <2>3. d.sel \in Approaches /\ i \in Plan!StepsOf(d.sel) /\ i \in Nat
    BY <2>1, <2>2, StepsOfNat DEF Plan!FirstPending, Plan!Pending, DraftType
  <2> DEFINE new == [exec[t] EXCEPT !.pc = "querying", !.ap = d.sel, !.step = i]
  <2>4. exec[t] \in ExecType
    BY DEF IInv, Typed
  <2>5. /\ new \in ExecType
        /\ new.pc = "querying" /\ new.plan = exec[t].plan /\ new.ap = d.sel
    BY <2>3, <2>4 DEF ExecType, PCs
  <2>6. exec' = [exec EXCEPT ![t] = new]
    BY <2>1
  <2> HIDE DEF new
  <2>7. exec'[t] = new
    BY <2>6 DEF IInv, Typed
  <2>8. /\ draft' \in DraftType
        /\ draft'.id = d.id /\ draft'.sel = d.sel /\ draft'.status = "running"
        /\ \A a \in Approaches : \A j \in Plan!StepsOf(a) :
             draft'.steps[a][j] = IF a = d.sel /\ j \in {i} THEN "running" ELSE d.steps[a][j]
    BY <2>1, <2>2, Running
  <2>9. SuccessWasWorked'
    BY <2>8, SuccessKept
  <2>10. TaskInv(t)'
    BY <2>2, <2>3, <2>5, <2>7, <2>8 DEF TaskInv, Busy, Engaged, Working, DraftType
  <2> QED
    BY <2>5, <2>6, <2>8, <2>9, <2>10, TaskStep
<1> QED
  BY <1>1, <1>2 DEF Continue

\* An engaged task goes on to an await at which it works on no step.
LEMMA TaskRests ==
  ASSUME IInv, NEW t \in Tasks, Engaged(t), latest' = latest,
         NEW new \in ExecType, exec' = [exec EXCEPT ![t] = new],
         new.plan = exec[t].plan,
         new.pc \in {"organizer", "recording", "synthesis", "stopping"},
         new.pc = "recording" => new.todo = {},
         draft' \in DraftType, draft'.id = draft.id,
         \A a \in Approaches : \A i \in Plan!StepsOf(a) :
           draft'.steps[a][i] = "running" => draft.steps[a][i] = "running",
         SuccessWasWorked'
  PROVE  IInv'
<1>1. exec'[t] = new
  BY DEF IInv, Typed
<1>2. Busy(t) /\ TaskInv(t)
  BY DEF Engaged, Busy, IInv
<1>3. TaskInv(t)'
  BY <1>1, <1>2 DEF TaskInv, Busy, Engaged, Working
<1> QED
  BY <1>2, <1>3, TaskStep

LEMMA StartsKept == ASSUME IInv, NEW t \in Tasks, Starts(t) PROVE IInv'
<1>1. Busy(t) /\ latest' = latest /\ worked' = worked
  BY DEF Starts, Busy
<1>2. draft \in DraftType /\ exec[t] \in ExecType
  BY DEF IInv, Typed
<1>3. /\ draft.id = exec[t].plan /\ draft.sel # None
      /\ draft.sel \in Approaches /\ Plan!Pending(draft) \in SUBSET Plan!StepsOf(draft.sel)
      /\ Plan!Pending(draft) \in SUBSET Nat
  BY <1>2, StepsOfNat DEF Starts, Startable, Plan!Runnable, DraftType, Plan!Pending
<1>4. CASE ~Delegates(t) /\ Query(t, draft)
  <2>1. PICK i \in Plan!FirstPending(draft) :
          /\ draft' = Plan!WithRunning(draft, {i})
          /\ exec' = [exec EXCEPT ![t] = [exec[t] EXCEPT !.pc = "querying", !.ap = draft.sel,
                                                         !.step = i]]
    BY <1>4 DEF Query, IInv, Typed
  <2> DEFINE new == [exec[t] EXCEPT !.pc = "querying", !.ap = draft.sel, !.step = i]
  <2>2. i \in Nat
    BY <1>3, <2>1 DEF Plan!FirstPending
  <2>3. /\ new \in ExecType
        /\ new.pc = "querying" /\ new.plan = exec[t].plan /\ new.ap = draft.sel
    BY <1>2, <1>3, <2>2 DEF ExecType, PCs
  <2>4. exec' = [exec EXCEPT ![t] = new]
    BY <2>1
  <2> HIDE DEF new
  <2>5. exec'[t] = new
    BY <2>4 DEF IInv, Typed
  <2>6. /\ draft' \in DraftType
        /\ draft'.id = draft.id /\ draft'.sel = draft.sel /\ draft'.status = "running"
        /\ \A a \in Approaches : \A j \in Plan!StepsOf(a) :
             draft'.steps[a][j] = IF a = draft.sel /\ j \in {i} THEN "running" ELSE draft.steps[a][j]
    BY <1>2, <1>3, <2>1, Running
  <2>7. SuccessWasWorked'
    BY <1>1, <2>6, SuccessKept
  <2>8. TaskInv(t)'
    BY <1>2, <1>3, <2>3, <2>5, <2>6 DEF TaskInv, Busy, Engaged, Working, DraftType
  <2> QED
    BY <1>1, <2>3, <2>4, <2>6, <2>7, <2>8, TaskStep
<1>5. ASSUME draft' = Plan!WithRunning(draft, Plan!Pending(draft))
      PROVE  /\ draft' \in DraftType
             /\ draft'.id = draft.id /\ draft'.sel = draft.sel /\ draft'.status = "running"
             /\ \A a \in Approaches : \A j \in Plan!StepsOf(a) :
                  draft'.steps[a][j] = IF a = draft.sel /\ j \in Plan!Pending(draft)
                                         THEN "running" ELSE draft.steps[a][j]
             /\ SuccessWasWorked'
  <2>1. /\ draft' \in DraftType
        /\ draft'.id = draft.id /\ draft'.sel = draft.sel /\ draft'.status = "running"
        /\ \A a \in Approaches : \A j \in Plan!StepsOf(a) :
             draft'.steps[a][j] = IF a = draft.sel /\ j \in Plan!Pending(draft)
                                    THEN "running" ELSE draft.steps[a][j]
    BY <1>2, <1>3, <1>5, Running
  <2>2. SuccessWasWorked'
    BY <1>1, <2>1, SuccessKept
  <2> QED
    BY <2>1, <2>2
<1>6. ASSUME draft' = Plan!WithRunning(draft, Plan!Pending(draft)),
             exec' = [exec EXCEPT ![t] = [exec[t] EXCEPT !.pc = "delegated", !.ap = draft.sel,
                                                         !.todo = Plan!Pending(draft)]]
      PROVE  IInv'
  <2> DEFINE new == [exec[t] EXCEPT !.pc = "delegated", !.ap = draft.sel,
                                    !.todo = Plan!Pending(draft)]
  <2>1. /\ new \in ExecType
        /\ new.pc = "delegated" /\ new.plan = exec[t].plan /\ new.ap = draft.sel
        /\ new.todo = Plan!Pending(draft)
    BY <1>2, <1>3 DEF ExecType, PCs
  <2>2. exec' = [exec EXCEPT ![t] = new]
    BY <1>6
  <2> HIDE DEF new
  <2>3. exec'[t] = new
    BY <2>2 DEF IInv, Typed
  <2>4. TaskInv(t)'
    BY <1>2, <1>3, <1>5, <1>6, <2>1, <2>3 DEF TaskInv, Busy, Engaged, Working, DraftType
  <2> QED
    BY <1>1, <1>5, <1>6, <2>1, <2>2, <2>4, TaskStep
<1>7. ASSUME draft' = Plan!WithRunning(draft, Plan!Pending(draft)),
             exec' = [exec EXCEPT ![t] = Ended]
      PROVE  IInv'
  BY <1>1, <1>5, <1>7, TaskEnds
<1>8. Delegates(t) /\ draft' = Plan!WithRunning(draft, Plan!Pending(draft))
        => \/ exec' = [exec EXCEPT ![t] = Ended]
           \/ exec' = [exec EXCEPT ![t] = [exec[t] EXCEPT !.pc = "delegated", !.ap = draft.sel,
                                                          !.todo = Plan!Pending(draft)]]
  BY DEF Starts, IInv, Typed
<1> QED
  BY <1>4, <1>6, <1>7, <1>8 DEF Starts

\* The draft and what was carried out stay; the task ends.
LEMMA EndsQuietly ==
  ASSUME IInv, NEW t \in Tasks, Busy(t), latest' = latest, worked \subseteq worked',
         exec' = [exec EXCEPT ![t] = Ended], draft' = draft
  PROVE  IInv'
<1>1. SuccessWasWorked'
  BY SuccessKept
<1>2. draft' \in DraftType
  BY DEF IInv, Typed
<1> QED
  BY <1>1, <1>2, TaskEnds

LEMMA RefusedKept == ASSUME IInv, NEW t \in Tasks, Refused(t) PROVE IInv'
  BY EndsQuietly DEF Refused, Busy

LEMMA OrganizerRaisesKept == ASSUME IInv, NEW t \in Tasks, OrganizerRaises(t) PROVE IInv'
  BY EndsQuietly DEF OrganizerRaises, Busy

LEMMA SynthesisEndsKept == ASSUME IInv, NEW t \in Tasks, SynthesisEnds(t) PROVE IInv'
  BY EndsQuietly DEF SynthesisEnds, Busy

LEMMA OrganizerReturnsKept == ASSUME IInv, NEW t \in Tasks, OrganizerReturns(t) PROVE IInv'
<1>1. draft \in DraftType
  BY DEF IInv, Typed
<1> QED
  BY <1>1, Continues DEF OrganizerReturns, Busy

\* A result reaches a running step only of its own plan and approach.
LEMMA ResultLands ==
  ASSUME IInv, NEW t \in Tasks, exec[t].pc = "querying", Finishes(t)
  PROVE  /\ draft.id = exec[t].plan /\ draft.sel = exec[t].ap
         /\ draft.sel \in Approaches /\ draft.sel # None
<1>1. draft.sel \in Approaches
  BY DEF IInv, Typed, DraftType, Finishes
<1>2. draft.steps[draft.sel][exec[t].step] = "running" /\ exec[t].step \in Plan!StepsOf(draft.sel)
  BY DEF Finishes, Plan!Selected
<1>3. draft.id = exec[t].plan
  BY <1>1, <1>2 DEF IInv, TaskInv, Engaged
<1> QED
  BY <1>1, <1>3 DEF IInv, TaskInv, Working, Finishes

LEMMA QueryReturnsKept == ASSUME IInv, NEW t \in Tasks, QueryReturns(t) PROVE IInv'
<1>1. /\ Busy(t) /\ Engaged(t) /\ latest' = latest /\ exec[t].pc = "querying"
      /\ worked' = worked \union {Tag(t, exec[t].step)}
  BY DEF QueryReturns, Busy, Engaged
<1>2. CASE ~Finishes(t) /\ exec' = [exec EXCEPT ![t] = Ended] /\ UNCHANGED draft
  BY <1>1, <1>2, EndsQuietly
<1>3. CASE Finishes(t)
  <2> DEFINE d == Plan!WithFinished(draft, exec[t].step, "succeeded")
  <2>1. /\ draft.id = exec[t].plan /\ draft.sel = exec[t].ap
        /\ draft.sel \in Approaches /\ draft.sel # None
    BY <1>1, <1>3, ResultLands
  <2>2. exec[t].step \in Plan!StepsOf(draft.sel) /\ "succeeded" \in Plan!StepStatuses
    BY <1>3 DEF Finishes, Plan!StepStatuses
  <2>3. draft \in DraftType
    BY DEF IInv, Typed
  <2>4. /\ d \in DraftType /\ d.id = draft.id
        /\ \A a \in Approaches : \A j \in Plan!StepsOf(a) :
             d.steps[a][j] = IF a = draft.sel /\ j = exec[t].step
                               THEN "succeeded" ELSE draft.steps[a][j]
    BY <2>1, <2>2, <2>3, Finished
  <2>5. \A a \in Approaches : \A j \in Plan!StepsOf(a) :
          d.steps[a][j] = "succeeded" =>
            draft.steps[a][j] = "succeeded" \/ <<draft.id, a, j>> \in worked'
    BY <1>1, <2>1, <2>4 DEF Tag
  <2>6. \/ draft' = d /\ exec' = [exec EXCEPT ![t] = [exec[t] EXCEPT !.pc = "organizer"]]
        \/ Continue(t, d)
    BY <1>3 DEF QueryReturns, IInv, Typed
  <2> HIDE DEF d
  <2>7. CASE Continue(t, d)
    BY <1>1, <2>4, <2>5, <2>7, Continues
  <2>8. CASE draft' = d /\ exec' = [exec EXCEPT ![t] = [exec[t] EXCEPT !.pc = "organizer"]]
    <3> DEFINE new == [exec[t] EXCEPT !.pc = "organizer"]
    <3>1. new \in ExecType /\ new.pc = "organizer" /\ new.plan = exec[t].plan
      BY DEF IInv, Typed, ExecType, PCs
    <3>2. exec' = [exec EXCEPT ![t] = new]
      BY <2>8
    <3> HIDE DEF new
    <3>3. SuccessWasWorked'
      BY <1>1, <2>4, <2>5, <2>8, SuccessKept
    <3>4. /\ draft' \in DraftType /\ draft'.id = draft.id
          /\ \A a \in Approaches : \A i \in Plan!StepsOf(a) :
               draft'.steps[a][i] = "running" => draft.steps[a][i] = "running"
      BY <2>4, <2>8
    <3>5. new.pc \in {"organizer", "recording", "synthesis", "stopping"} /\ new.pc # "recording"
      BY <3>1
    <3> QED
      BY <1>1, <3>1, <3>2, <3>3, <3>4, <3>5, TaskRests
  <2> QED
    BY <2>6, <2>7, <2>8
<1> QED
  BY <1>2, <1>3 DEF QueryReturns

LEMMA QueryRaisesKept == ASSUME IInv, NEW t \in Tasks, QueryRaises(t) PROVE IInv'
<1>1. /\ Busy(t) /\ latest' = latest /\ worked' = worked /\ exec[t].pc = "querying"
      /\ exec' = [exec EXCEPT ![t] = Ended]
  BY DEF QueryRaises, Busy
<1>2. CASE ~Finishes(t)
  BY <1>1, <1>2, EndsQuietly DEF QueryRaises
<1>3. CASE Finishes(t)
  <2>1. /\ draft.sel \in Approaches /\ draft.sel # None
        /\ exec[t].step \in Plan!StepsOf(draft.sel) /\ "failed" \in Plan!StepStatuses
    BY <1>1, <1>3, ResultLands DEF Finishes, Plan!StepStatuses
  <2>2. draft' = Plan!WithFinished(draft, exec[t].step, "failed") /\ draft \in DraftType
    BY <1>3 DEF QueryRaises, IInv, Typed
  <2>3. /\ draft' \in DraftType /\ draft'.id = draft.id
        /\ \A a \in Approaches : \A j \in Plan!StepsOf(a) :
             draft'.steps[a][j] = IF a = draft.sel /\ j = exec[t].step
                                    THEN "failed" ELSE draft.steps[a][j]
    BY <2>1, <2>2, Finished
  <2>4. SuccessWasWorked'
    BY <1>1, <2>3, SuccessKept
  <2> QED
    BY <1>1, <2>3, <2>4, TaskEnds
<1> QED
  BY <1>2, <1>3

\* Outcomes are recorded for the steps the task delegated, or for none.
LEMMA RecordKept ==
  ASSUME IInv, NEW t \in Tasks, Working(t), exec[t].pc # "querying",
         NEW out \in OutType, Record(t, out, exec[t].todo),
         latest' = latest, worked \subseteq worked',
         \A i \in exec[t].todo :
           out[i] \in Outcomes /\ (out[i] = "succeeded" => Tag(t, i) \in worked')
  PROVE  IInv'
<1> DEFINE todo == exec[t].todo
           S == Batch(t, out, todo)
<1>1. Busy(t) /\ Engaged(t) /\ TaskInv(t)
  BY DEF Working, Busy, Engaged, IInv
<1>2. /\ draft \in DraftType /\ exec[t] \in ExecType
      /\ todo \in SUBSET Nat /\ exec[t].plan \in Nat /\ draft.id \in Nat
  BY DEF IInv, Typed, ExecType, DraftType
<1>3. S \subseteq todo
  BY DEF Batch
<1>4. CASE exec' = [exec EXCEPT ![t] = Ended] /\ draft' = draft
  BY <1>1, <1>4, EndsQuietly
<1>5. ASSUME Fits(S), draft' = WithRecorded(out, S),
             NEW i \in {0} \union S,
             exec' = [exec EXCEPT ![t] = [exec[t] EXCEPT !.pc = "recording", !.step = i, !.out = out,
                                                         !.todo = todo \ S]]
      PROVE  IInv'
  <2> DEFINE new == [exec[t] EXCEPT !.pc = "recording", !.step = i, !.out = out, !.todo = todo \ S]
  <2> HIDE DEF S, todo
  <2>1. i \in Nat /\ todo \ S \in SUBSET Nat
    BY <1>2, <1>3
  <2>2. /\ new \in ExecType
        /\ new.pc = "recording" /\ new.plan = exec[t].plan /\ new.ap = exec[t].ap
        /\ new.todo = todo \ S /\ new.out = out
    BY <1>2, <2>1 DEF ExecType, PCs
  <2>3. exec' = [exec EXCEPT ![t] = new]
    BY <1>5
  <2> HIDE DEF new
  <2>4. exec'[t] = new
    BY <2>3 DEF IInv, Typed
  <2>5. \A j \in todo \ S :
          new.out[j] \in Outcomes /\ (new.out[j] = "succeeded" => Tag(t, j)' \in worked')
    BY <2>2, <2>4 DEF Tag, todo
  <2>6. CASE S = {}
    <3>1. draft' = draft
      BY <1>5, <2>6 DEF WithRecorded
    <3>2. SuccessWasWorked'
      BY <3>1, SuccessKept
    <3>3. TaskInv(t)'
      BY <1>1, <2>2, <2>4, <2>5, <2>6, <3>1 DEF TaskInv, Busy, Engaged, Working, todo
    <3> QED
      BY <1>1, <1>2, <2>2, <2>3, <3>1, <3>2, <3>3, TaskStep
  <2>7. CASE S # {}
    <3>1. \A j \in S : out[j] \in Plan!StepStatuses
      BY <1>3, OutcomesTyped DEF todo
    <3>2. /\ draft.sel \in Approaches
          /\ draft' \in DraftType
          /\ draft'.id = draft.id /\ draft'.sel = draft.sel
          /\ \A a \in Approaches : \A j \in Plan!StepsOf(a) :
               draft'.steps[a][j] = IF a = draft.sel /\ j \in S THEN out[j] ELSE draft.steps[a][j]
          /\ (\E j \in Plan!StepsOf(draft.sel) : j \notin S /\ draft.steps[draft.sel][j] = "running")
               => draft'.status = "running"
      BY <1>2, <1>5, <2>7, <3>1, Recorded
    <3>3. PICK k \in S : k \in Plan!StepsOf(draft.sel) /\ draft.steps[draft.sel][k] = "running"
      BY <1>5, <2>7 DEF Fits, Plan!Selected
    <3>4. draft.id = exec[t].plan
      BY <1>1, <3>2, <3>3 DEF TaskInv
    <3>5. /\ draft.sel = exec[t].ap
          /\ todo \subseteq Plan!StepsOf(draft.sel)
          /\ \A j \in todo : draft.steps[draft.sel][j] = "running"
      BY <1>1, <3>3, <3>4 DEF TaskInv, todo
    <3>6. SuccessWasWorked'
      <4>1. \A j \in S : out[j] = "succeeded" => <<draft.id, draft.sel, j>> \in worked'
        BY <1>3, <3>4, <3>5 DEF Tag, todo
      <4> QED
        BY <3>2, <4>1, SuccessKept
    <3>7. TaskInv(t)'
      <4>1. \A j \in todo \ S : draft'.steps[draft.sel][j] = "running"
        BY <3>2, <3>5
      <4>2. todo \ S # {} => draft'.status = "running"
        BY <3>2, <3>5
      <4>3. Working(t)' /\ exec'[t].plan = draft'.id =>
              /\ draft'.sel = exec'[t].ap /\ draft'.sel \in Approaches
              /\ draft'.status \notin {"draft", "ready"}
              /\ exec'[t].todo \subseteq Plan!StepsOf(exec'[t].ap)
              /\ \A j \in exec'[t].todo : draft'.steps[exec'[t].ap][j] = "running"
        BY <2>2, <2>4, <3>2, <3>5, <4>1, <4>2 DEF Working
      <4>4. exec'[t].plan = draft'.id /\ exec'[t].plan <= draft'.id
        BY <1>2, <2>2, <2>4, <3>2, <3>4
      <4>5. \A j \in exec'[t].todo :
              /\ exec'[t].out[j] \in Outcomes
              /\ exec'[t].out[j] = "succeeded" => Tag(t, j)' \in worked'
        BY <2>2, <2>4, <2>5
      <4> QED
        BY <4>3, <4>4, <4>5 DEF TaskInv
    <3> QED
      BY <1>1, <2>2, <2>3, <3>2, <3>6, <3>7, TaskStep
  <2> QED
    BY <2>6, <2>7
<1>6. exec[t] \in ExecType /\ exec \in [Tasks -> ExecType]
  BY DEF IInv, Typed
<1>7. ~(exec' = [exec EXCEPT ![t] = Ended] /\ draft' = draft) =>
        \E i \in {0} \union S :
          /\ Fits(S) /\ draft' = WithRecorded(out, S)
          /\ exec' = [exec EXCEPT ![t] = [exec[t] EXCEPT !.pc = "recording", !.step = i, !.out = out,
                                                         !.todo = todo \ S]]
  BY <1>6 DEF Record
<1> QED
  BY <1>4, <1>5, <1>7

LEMMA BoardReturnsKept == ASSUME IInv, NEW t \in Tasks, BoardReturns(t) PROVE IInv'
<1>1. PICK out \in [exec[t].todo -> Outcomes] :
        /\ worked' = worked \union {Tag(t, i) : i \in {i \in DOMAIN out : out[i] = "succeeded"}}
        /\ Record(t, out, exec[t].todo)
  BY DEF BoardReturns, Outcomes
<1>2. exec[t].todo \in SUBSET Nat
  BY DEF IInv, Typed, ExecType
<1>3. out \in OutType
  BY <1>1, <1>2 DEF OutType
<1>4. Working(t) /\ exec[t].pc # "querying" /\ latest' = latest
  BY DEF BoardReturns, Working
<1>5. worked \subseteq worked' /\ \A i \in exec[t].todo :
        out[i] \in Outcomes /\ (out[i] = "succeeded" => Tag(t, i) \in worked')
  BY <1>1
<1> QED
  BY <1>1, <1>3, <1>4, <1>5, RecordKept

LEMMA RecordingReturnsKept == ASSUME IInv, NEW t \in Tasks, RecordingReturns(t) PROVE IInv'
<1>1. /\ exec[t].pc = "recording" /\ Busy(t) /\ Engaged(t)
      /\ latest' = latest /\ worked' = worked
      /\ exec[t] \in ExecType /\ exec[t].out \in OutType
  BY DEF RecordingReturns, Busy, Engaged, IInv, Typed, ExecType
<1>2. CASE exec[t].todo # {} /\ Record(t, exec[t].out, exec[t].todo)
  <2>1. \A i \in exec[t].todo :
          exec[t].out[i] \in Outcomes /\ (exec[t].out[i] = "succeeded" => Tag(t, i) \in worked')
    BY <1>1 DEF IInv, TaskInv
  <2>2. Working(t)
    BY <1>1, <1>2 DEF Working
  <2> QED
    BY <1>1, <1>2, <2>1, <2>2, RecordKept
<1>3. CASE Tail(t, exec[t].out) /\ draft' = draft
  <2>1. SuccessWasWorked' /\ draft' \in DraftType
    BY <1>1, <1>3, SuccessKept DEF IInv, Typed
  <2>2. \/ exec' = [exec EXCEPT ![t] = Ended]
        \/ exec' = [exec EXCEPT ![t] = [exec[t] EXCEPT !.pc = "synthesis", !.todo = {}]]
    BY <1>3 DEF Tail, IInv, Typed
  <2>3. CASE exec' = [exec EXCEPT ![t] = Ended]
    BY <1>1, <2>1, <2>3, TaskEnds
  <2>4. CASE exec' = [exec EXCEPT ![t] = [exec[t] EXCEPT !.pc = "synthesis", !.todo = {}]]
    <3> DEFINE new == [exec[t] EXCEPT !.pc = "synthesis", !.todo = {}]
    <3>1. new \in ExecType /\ new.pc = "synthesis" /\ new.plan = exec[t].plan
      BY <1>1 DEF ExecType, PCs
    <3>2. exec' = [exec EXCEPT ![t] = new]
      BY <2>4
    <3> HIDE DEF new
    <3> QED
      BY <1>1, <1>3, <2>1, <3>1, <3>2, TaskRests
  <2> QED
    BY <2>2, <2>3, <2>4
<1> QED
  BY <1>2, <1>3 DEF RecordingReturns

-----------------------------------------------------------------------------
\* Cancelling the loaded draft takes back no outcome and adds none.
LEMMA CancelKeepsSuccess ==
  ASSUME IInv, draft' = Plan!WithCancelled(draft), worked' = worked
  PROVE  SuccessWasWorked' /\ draft' \in DraftType
<1>1. draft \in DraftType
  BY DEF IInv, Typed
<1>2. /\ draft' \in DraftType /\ draft'.id = draft.id
      /\ \A a \in Approaches : \A j \in Plan!StepsOf(a) :
           draft'.steps[a][j] \in {draft.steps[a][j], "cancelled"}
  BY <1>1, Cancelled
<1>3. \A a \in Approaches : \A j \in Plan!StepsOf(a) :
        draft'.steps[a][j] = "succeeded" => draft.steps[a][j] = "succeeded"
  BY <1>2
<1> QED
  BY <1>2, <1>3, SuccessKept

LEMMA StoppedKept == ASSUME IInv, NEW t \in Tasks, Stopped(t) PROVE IInv'
<1>1. Busy(t) /\ latest' = latest /\ worked' = worked
  BY DEF Stopped, Busy
<1>2. exec[t] \in ExecType /\ exec \in [Tasks -> ExecType] /\ draft \in DraftType
  BY DEF IInv, Typed
<1>3. CASE exec' = [exec EXCEPT ![t] = Ended] /\ draft' = draft
  BY <1>1, <1>3, EndsQuietly
<1>4. CASE exec' = [exec EXCEPT ![t] = Ended] /\ draft' = Plan!WithCancelled(draft)
  BY <1>1, <1>4, CancelKeepsSuccess, TaskEnds
<1>5. CASE /\ exec[t].pc # "new" /\ draft' = draft
           /\ exec' = [exec EXCEPT ![t] = [exec[t] EXCEPT !.pc = "stopping", !.stop = FALSE]]
  <2> DEFINE new == [exec[t] EXCEPT !.pc = "stopping", !.stop = FALSE]
  <2>1. new \in ExecType /\ new.pc = "stopping" /\ new.plan = exec[t].plan
    BY <1>2 DEF ExecType, PCs
  <2>2. exec' = [exec EXCEPT ![t] = new]
    BY <1>5
  <2> HIDE DEF new
  <2>3. Engaged(t)
    BY <1>1, <1>5 DEF Engaged, Busy
  <2>4. SuccessWasWorked'
    BY <1>1, <1>5, SuccessKept
  <2> QED
    BY <1>1, <1>2, <1>5, <2>1, <2>2, <2>3, <2>4, TaskRests
<1> QED
  BY <1>2, <1>3, <1>4, <1>5 DEF Stopped

LEMMA StopEndsKept == ASSUME IInv, NEW t \in Tasks, StopEnds(t) PROVE IInv'
<1>1. /\ Busy(t) /\ latest' = latest /\ worked' = worked
      /\ exec' = [exec EXCEPT ![t] = Ended]
  BY DEF StopEnds, Busy
<1>2. CASE draft' = draft
  BY <1>1, <1>2, EndsQuietly
<1>3. CASE draft' = Plan!WithCancelled(draft)
  BY <1>1, <1>3, CancelKeepsSuccess, TaskEnds
<1> QED
  BY <1>2, <1>3 DEF StopEnds

LEMMA StepKept == ASSUME IInv, NEW t \in Tasks, Step(t) PROVE IInv'
  BY StartsKept, RefusedKept, QueryReturnsKept, QueryRaisesKept, OrganizerReturnsKept,
     OrganizerRaisesKept, BoardReturnsKept, RecordingReturnsKept, SynthesisEndsKept,
     StoppedKept, StopEndsKept
     DEF Step

-----------------------------------------------------------------------------
\* A handler leaves every task where it is, except for asking it to stop, and
\* no outcome is written.
LEMMA HandlerKept ==
  ASSUME IInv, latest' = latest, worked' = worked,
         exec' \in [Tasks -> ExecType],
         \A t \in Tasks : /\ exec'[t].pc = exec[t].pc /\ exec'[t].plan = exec[t].plan
                          /\ exec'[t].ap = exec[t].ap /\ exec'[t].todo = exec[t].todo
                          /\ exec'[t].out = exec[t].out,
         draft' \in DraftType, draft'.id = draft.id,
         \A t \in Tasks : Working(t) /\ exec[t].plan = draft.id =>
           draft'.sel = draft.sel /\ draft'.status \notin {"draft", "ready"},
         \A a \in Approaches : \A i \in Plan!StepsOf(a) :
           draft'.steps[a][i] \in {draft.steps[a][i], "cancelled"},
         \/ draft'.steps = draft.steps
         \/ \A i \in Plan!StepsOf(draft.sel) :
              draft.sel \in Approaches => draft'.steps[draft.sel][i] # "running"
  PROVE  IInv'
<1>1. Typed'
  BY DEF IInv, Typed
<1>2. OneBusy'
  BY DEF IInv, OneBusy, Busy
<1>3. \A a \in Approaches : \A i \in Plan!StepsOf(a) :
        /\ draft'.steps[a][i] = "succeeded" => draft.steps[a][i] = "succeeded"
        /\ draft'.steps[a][i] = "running" => draft.steps[a][i] = "running"
  OBVIOUS
<1>4. SuccessWasWorked'
  BY <1>3, SuccessKept
<1>5. ASSUME NEW t \in Tasks
      PROVE  TaskInv(t)'
  <2>1. TaskInv(t)
    BY DEF IInv
  <2>2. Busy(t)' => exec'[t].plan <= draft'.id
    BY <2>1 DEF TaskInv, Busy
  <2>3. Engaged(t)' /\ exec'[t].plan # draft'.id =>
          \A a \in Approaches : \A i \in Plan!StepsOf(a) : draft'.steps[a][i] # "running"
    BY <1>3, <2>1 DEF TaskInv, Engaged
  <2>4. Working(t)' /\ exec'[t].plan = draft'.id =>
          /\ draft'.sel = exec'[t].ap /\ draft'.sel \in Approaches
          /\ draft'.status \notin {"draft", "ready"}
          /\ exec'[t].pc # "querying" =>
               /\ exec'[t].todo \subseteq Plan!StepsOf(exec'[t].ap)
               /\ \/ \A i \in exec'[t].todo : draft'.steps[exec'[t].ap][i] = "running"
                  \/ \A i \in Plan!StepsOf(exec'[t].ap) : draft'.steps[exec'[t].ap][i] # "running"
    BY <2>1 DEF TaskInv, Working
  <2>5. exec'[t].pc = "recording" =>
          \A i \in exec'[t].todo :
            /\ exec'[t].out[i] \in Outcomes
            /\ exec'[t].out[i] = "succeeded" => Tag(t, i)' \in worked'
    BY <2>1 DEF TaskInv, Tag
  <2> QED
    BY <2>2, <2>3, <2>4, <2>5 DEF TaskInv
<1> QED
  BY <1>1, <1>2, <1>4, <1>5 DEF IInv

LEMMA NothingMoves ==
  ASSUME IInv, UNCHANGED <<draft, exec, latest, worked>>
  PROVE  IInv'
<1>1. draft' \in DraftType /\ exec' \in [Tasks -> ExecType]
  BY DEF IInv, Typed
<1>2. \A t \in Tasks : Working(t) /\ exec[t].plan = draft.id =>
        draft'.sel = draft.sel /\ draft'.status \notin {"draft", "ready"}
  BY DEF IInv, TaskInv
<1> QED
  BY <1>1, <1>2, HandlerKept

LEMMA InterruptKept == ASSUME IInv, Interrupt PROVE IInv'
<1>1. exec \in [Tasks -> ExecType] /\ latest \in Tasks /\ draft \in DraftType
  BY DEF IInv, Typed
<1>2. exec' = [exec EXCEPT ![latest] = [exec[latest] EXCEPT !.stop = TRUE]]
  BY <1>1 DEF Interrupt
<1>3. /\ exec' \in [Tasks -> ExecType]
      /\ \A t \in Tasks : /\ exec'[t].pc = exec[t].pc /\ exec'[t].plan = exec[t].plan
                          /\ exec'[t].ap = exec[t].ap /\ exec'[t].todo = exec[t].todo
                          /\ exec'[t].out = exec[t].out
  BY <1>1, <1>2 DEF ExecType
<1>4. \A t \in Tasks : Working(t) /\ exec[t].plan = draft.id =>
        draft.status \notin {"draft", "ready"}
  BY DEF IInv, TaskInv
<1> QED
  BY <1>1, <1>3, <1>4, HandlerKept DEF Interrupt

LEMMA CancelPlanKept == ASSUME IInv, CancelPlan PROVE IInv'
<1>1. exec \in [Tasks -> ExecType] /\ latest \in Tasks /\ draft \in DraftType
  BY DEF IInv, Typed
<1>2. CASE UNCHANGED <<draft, exec>>
  BY <1>2, NothingMoves DEF CancelPlan
<1>3. CASE /\ draft' = Plan!WithCancelled(draft)
           /\ exec' = [exec EXCEPT ![latest].stop = Busy(latest)]
  <2>1. exec' = [exec EXCEPT ![latest] = [exec[latest] EXCEPT !.stop = Busy(latest)]]
    BY <1>1, <1>3
  <2>2. Busy(latest) \in BOOLEAN
    BY DEF Busy
  <2>3. /\ exec' \in [Tasks -> ExecType]
        /\ \A t \in Tasks : /\ exec'[t].pc = exec[t].pc /\ exec'[t].plan = exec[t].plan
                            /\ exec'[t].ap = exec[t].ap /\ exec'[t].todo = exec[t].todo
                            /\ exec'[t].out = exec[t].out
    BY <1>1, <2>1, <2>2 DEF ExecType
  <2>4. /\ draft' \in DraftType
        /\ draft'.id = draft.id /\ draft'.sel = draft.sel
        /\ draft'.status \notin {"draft", "ready"}
        /\ \A a \in Approaches : \A j \in Plan!StepsOf(a) :
             draft'.steps[a][j] \in {draft.steps[a][j], "cancelled"}
        /\ \/ draft'.steps = draft.steps
           \/ \A j \in Plan!StepsOf(draft.sel) :
                draft.sel \in Approaches => draft'.steps[draft.sel][j] # "running"
    <3>1. /\ draft' \in DraftType
          /\ draft'.id = draft.id /\ draft'.sel = draft.sel
          /\ draft'.status \notin {"draft", "ready"}
          /\ \A a \in Approaches : \A j \in Plan!StepsOf(a) :
               draft'.steps[a][j] \in {draft.steps[a][j], "cancelled"}
          /\ \/ draft'.steps = draft.steps
             \/ \A j \in Plan!StepsOf(draft.sel) :
                  draft.sel \in Approaches => draft'.steps[draft.sel][j] # "running"
      BY <1>1, <1>3, Cancelled
    <3> QED
      BY <3>1
  <2>5. latest' = latest /\ worked' = worked
    BY DEF CancelPlan
  <2> QED
    BY <2>3, <2>4, <2>5, HandlerKept
<1> QED
  BY <1>2, <1>3 DEF CancelPlan

LEMMA SelectKept == ASSUME IInv, NEW a \in Approaches, Select(a) PROVE IInv'
<1>1. draft \in DraftType /\ exec' \in [Tasks -> ExecType]
  BY DEF IInv, Typed, Select
<1>2. /\ draft.status \in {"draft", "ready"}
      /\ draft' = [draft EXCEPT !.sel = a, !.status = "ready"]
  BY DEF Select, Plan!Select
<1>3. draft' \in DraftType /\ draft'.id = draft.id /\ draft'.steps = draft.steps
  BY <1>1, <1>2 DEF DraftType, Plan!PlanStatuses
<1>4. \A t \in Tasks : ~(Working(t) /\ exec[t].plan = draft.id)
  BY <1>2 DEF IInv, TaskInv
<1> QED
  BY <1>1, <1>3, <1>4, HandlerKept DEF Select

LEMMA MaterializedKept == ASSUME IInv, Materialized PROVE IInv'
<1>1. draft \in DraftType /\ exec' \in [Tasks -> ExecType]
  BY DEF IInv, Typed, Materialized
<1>2. CASE UNCHANGED draft
  BY <1>2, NothingMoves DEF Materialized
<1>3. CASE draft.sel # None /\ Plan!BindOrganizerRecords
  <2>1. draft' = [draft EXCEPT !.linked = draft.linked \union {draft.sel}]
    BY <1>1, <1>3 DEF Plan!BindOrganizerRecords, DraftType
  <2>2. draft.linked \union {draft.sel} \in SUBSET Approaches
    BY <1>1, <1>3 DEF DraftType
  <2>3. /\ draft' \in DraftType /\ draft'.id = draft.id /\ draft'.sel = draft.sel
        /\ draft'.status = draft.status /\ draft'.steps = draft.steps
    BY <1>1, <2>1, <2>2 DEF DraftType
  <2>4. \A t \in Tasks : Working(t) /\ exec[t].plan = draft.id =>
          draft.status \notin {"draft", "ready"}
    BY DEF IInv, TaskInv
  <2> QED
    BY <1>1, <2>3, <2>4, HandlerKept DEF Materialized
<1> QED
  BY <1>2, <1>3 DEF Materialized

LEMMA NewDraftTyped ==
  ASSUME NEW p \in Nat
  PROVE  /\ Plan!NewDraft(p) \in DraftType /\ Plan!NewDraft(p).id = p
         /\ \A a \in Approaches : \A i \in Plan!StepsOf(a) :
              Plan!NewDraft(p).steps[a][i] = "planned"
<1> DEFINE f == [a \in Approaches |-> [i \in Plan!StepsOf(a) |-> "planned"]]
<1>1. \A a \in Approaches : f[a] \in [Plan!StepsOf(a) -> Plan!StepStatuses]
  BY DEF Plan!StepStatuses
<1>2. \A a \in Approaches : f[a] \in Plan!StepMaps
  BY <1>1 DEF Plan!StepMaps
<1>3. f \in StepsType /\ \A a \in Approaches : \A i \in Plan!StepsOf(a) : f[a][i] = "planned"
  BY <1>1, <1>2 DEF StepsType
<1> HIDE DEF f
<1>4. Plan!NewDraft(p) = [id |-> p, status |-> "draft", sel |-> None, linked |-> {}, steps |-> f]
  BY DEF Plan!NewDraft, f
<1> QED
  BY <1>3, <1>4 DEF DraftType, Plan!PlanStatuses

\* The successor of a draft that tasks work on has done nothing yet.
LEMMA NewPlanKept == ASSUME IInv, NewPlan PROVE IInv'
<1>1. draft.id \in Nat /\ exec \in [Tasks -> ExecType] /\ latest \in Tasks
  BY DEF IInv, Typed, DraftType
<1>2. draft' = Plan!NewDraft(draft.id + 1) /\ UNCHANGED <<exec, latest, worked>>
  BY DEF NewPlan, Plan!LoadDraft
<1>3. /\ draft' \in DraftType /\ draft'.id = draft.id + 1
      /\ \A a \in Approaches : \A i \in Plan!StepsOf(a) : draft'.steps[a][i] = "planned"
  BY <1>1, <1>2, NewDraftTyped
<1>4. Typed' /\ OneBusy' /\ SuccessWasWorked'
  BY <1>1, <1>2, <1>3 DEF IInv, Typed, OneBusy, Busy, SuccessWasWorked, Plan!StepsOf
<1>5. ASSUME NEW t \in Tasks
      PROVE  TaskInv(t)'
  <2>1. TaskInv(t) /\ exec[t].plan \in Nat /\ exec'[t] = exec[t]
    BY <1>1, <1>2 DEF IInv, ExecType
  <2>2. Busy(t) => exec[t].plan < draft'.id
    BY <1>1, <1>3, <2>1 DEF TaskInv
  <2> QED
    BY <1>1, <1>2, <1>3, <2>1, <2>2 DEF TaskInv, Busy, Engaged, Working, Tag
<1> QED
  BY <1>4, <1>5 DEF IInv

LEMMA RunKept ==
  ASSUME IInv, NEW p \in 1..draft.id, NEW mode \in {"next", "all"}, Run(p, mode)
  PROVE  IInv'
<1>1. draft.id \in Nat /\ exec \in [Tasks -> ExecType] /\ latest \in Tasks
  BY DEF IInv, Typed, DraftType
<1>2. \A u \in Tasks : exec[u].pc = "off"
  BY DEF IInv, OneBusy, Run, Busy
<1>3. PICK t \in FreeTask :
        /\ exec' = [exec EXCEPT ![t] = [Ended EXCEPT !.pc = "new", !.plan = p, !.mode = mode]]
        /\ latest' = t
  BY DEF Run
<1>4. t \in Tasks
  BY <1>2, <1>3, PlanExecutionAssumption DEF FreeTask, Busy
<1> DEFINE new == [Ended EXCEPT !.pc = "new", !.plan = p, !.mode = mode]
<1>5. new \in ExecType /\ new.pc = "new" /\ new.plan = p
  <2>1. p \in Nat /\ Ended \in ExecType
    BY <1>1, EndedTyped
  <2> HIDE DEF Ended
  <2> QED
    BY <2>1 DEF ExecType, PCs
<1>6. exec' = [exec EXCEPT ![t] = new]
  BY <1>3
<1> HIDE DEF new
<1>7. exec'[t] = new /\ exec' \in [Tasks -> ExecType]
      /\ \A u \in Tasks : u # t => exec'[u].pc = "off"
  BY <1>1, <1>2, <1>4, <1>5, <1>6
<1>8. draft' = draft /\ worked' = worked
  BY DEF Run
<1>9. Typed' /\ OneBusy' /\ SuccessWasWorked'
  BY <1>3, <1>4, <1>7, <1>8 DEF IInv, Typed, OneBusy, Busy, SuccessWasWorked
<1>10. \A u \in Tasks : TaskInv(u)'
  BY <1>1, <1>5, <1>7, <1>8 DEF TaskInv, Busy, Engaged, Working
<1> QED
  BY <1>9, <1>10 DEF IInv

LEMMA InitIInv == Init => IInv
<1> SUFFICES ASSUME Init PROVE IInv
  OBVIOUS
<1>1. draft = Plan!NewDraft(0)
  BY DEF Init, Plan!Init, Plan!NoDraft
<1>2. draft \in DraftType /\ \A a \in Approaches : \A i \in Plan!StepsOf(a) :
        draft.steps[a][i] = "planned"
  BY <1>1, NewDraftTyped
<1>3. exec \in [Tasks -> ExecType] /\ \A t \in Tasks : exec[t].pc = "off"
  BY EndedTyped DEF Init
<1>4. latest \in Tasks
  BY PlanExecutionAssumption DEF Init
<1> QED
  BY <1>2, <1>3, <1>4 DEF IInv, Typed, OneBusy, TaskInv, Busy, Engaged, Working, SuccessWasWorked

LEMMA NextIInv == IInv /\ [Next]_vars => IInv'
<1> SUFFICES ASSUME IInv, [Next]_vars PROVE IInv'
  OBVIOUS
<1>1. CASE UNCHANGED vars
  BY <1>1, NothingMoves DEF vars
<1>2. CASE CancelReturns \/ ManualStarts \/ ManualEnds
  BY <1>2, NothingMoves DEF CancelReturns, ManualStarts, ManualEnds
<1>3. CASE \E p \in 1..draft.id, mode \in {"next", "all"} : Run(p, mode)
  BY <1>3, RunKept
<1>4. CASE \E t \in Tasks : Step(t)
  BY <1>4, StepKept
<1>5. CASE \E a \in Approaches : Select(a)
  BY <1>5, SelectKept
<1>6. CASE NewPlan \/ Materialized \/ Interrupt \/ CancelPlan
  BY <1>6, NewPlanKept, MaterializedKept, InterruptKept, CancelPlanKept
<1> QED
  BY <1>1, <1>2, <1>3, <1>4, <1>5, <1>6 DEF Next

\* Whatever handlers, interrupts, failures and replacements of the draft come
\* between two steps of run_plan_mode and run_parallel_plan_mode, a step is
\* shown as succeeded only if it was carried out for that plan and approach.
THEOREM ResultsLandWhereWorked == Spec => []SuccessWasWorked
<1>1. Init => IInv
  BY InitIInv
<1>2. IInv /\ [Next]_vars => IInv'
  BY NextIInv
<1>3. IInv => SuccessWasWorked
  BY DEF IInv
<1> QED
  BY <1>1, <1>2, <1>3, PTL DEF Spec

-----------------------------------------------------------------------------
(***************************************************************************)
(* The remaining types, and the Organizer's tasks.  A task is completed    *)
(* after its step was recorded, and the record stands as long as its draft *)
(* is loaded.                                                              *)
(***************************************************************************)
RealTags == {tag \in Tags : tag[3] \in Plan!StepsOf(tag[2])}

\* What the Organizer is told of r, a task of run_plan_mode.
Completed(r) ==
  IF r.pc \in {"organizer", "recording"} /\ r.step # 0 THEN {<<r.plan, r.ap, r.step>>} ELSE {}

Sized(r) ==
  /\ r.plan \in 0..MaxPlans /\ r.todo \subseteq Steps
  /\ r.pc # "off" => r.plan # 0
  /\ r.pc \notin {"off", "new"} => r.ap \in Approaches
  /\ r.pc \in {"querying", "organizer"} => r.step \in Plan!StepsOf(r.ap)
  /\ r.pc = "recording" /\ r.step # 0 => r.step \in Plan!StepsOf(r.ap)

Told(d, S) ==
  \A tag \in S : tag[1] = d.id =>
    tag[2] \in d.linked /\ d.steps[tag[2]][tag[3]] = "succeeded"

BoardType == [plan : 0..MaxPlans, st : {"over", "live", "cancelling", "synthesizing"}]

Around ==
  /\ board \in BoardType /\ rx \in {"idle", "materializing", "stopping"}
  /\ worked \subseteq Tags /\ failed \subseteq worked

Tells ==
  /\ draft.id <= MaxPlans /\ Around
  /\ \A t \in Tasks : Sized(exec[t]) /\ Told(draft, Completed(exec[t]))
  /\ done \subseteq RealTags /\ Told(draft, done)
  /\ \A tag \in done : tag[1] <= draft.id

LEMMA StepsAre == \A a \in Approaches : Plan!StepsOf(a) \subseteq Steps
  BY DEF Steps

LEMMA CompletedTag ==
  ASSUME NEW r \in ExecType, Sized(r), r.plan <= draft.id, draft.id \in Nat
  PROVE  Completed(r) \subseteq RealTags /\ \A tag \in Completed(r) : tag[1] <= draft.id
<1> SUFFICES ASSUME r.pc \in {"organizer", "recording"}, r.step # 0
             PROVE  /\ <<r.plan, r.ap, r.step>> \in RealTags
                    /\ <<r.plan, r.ap, r.step>>[1] <= draft.id
  BY DEF Completed
<1>1. r.plan \in 1..MaxPlans /\ r.ap \in Approaches /\ r.step \in Plan!StepsOf(r.ap)
  BY PlanExecutionAssumption DEF Sized, ExecType
<1> QED BY <1>1, StepsAre DEF RealTags, Tags

LEMMA CompletingIs == \A t \in Tasks : Completing(t) = Completed(exec[t])
  BY DEF Completing, Completed, Tag

\* The draft goes on: what succeeded stays so, what has tasks keeps them.
Onward(d, e) ==
  /\ e.id = d.id /\ d.linked \subseteq e.linked
  /\ \A a \in Approaches : \A i \in Plan!StepsOf(a) :
       d.steps[a][i] = "succeeded" => e.steps[a][i] = "succeeded"

LEMMA ToldKept ==
  ASSUME NEW d, NEW e, Onward(d, e), NEW S \in SUBSET RealTags, Told(d, S)
  PROVE  Told(e, S)
<1> SUFFICES ASSUME NEW tag \in S, tag[1] = e.id
             PROVE  tag[2] \in e.linked /\ e.steps[tag[2]][tag[3]] = "succeeded"
  BY DEF Told
<1>1. tag[2] \in d.linked /\ d.steps[tag[2]][tag[3]] = "succeeded"
  BY DEF Told, Onward
<1>2. tag[2] \in Approaches /\ tag[3] \in Plan!StepsOf(tag[2])
  BY DEF RealTags, Tags
<1> QED BY <1>1, <1>2 DEF Onward

\* A step of one task, which leaves the record r.
LEMMA TellsStep ==
  ASSUME IInv, Tells, Around', NEW t \in Tasks, Busy(t),
         NEW r \in ExecType, exec' = [exec EXCEPT ![t] = r], Sized(r),
         draft' \in DraftType, Onward(draft, draft'), Told(draft', Completed(r)),
         done' \in {done, done \union Completing(t)}
  PROVE  Tells'
<1>1. exec \in [Tasks -> ExecType] /\ draft \in DraftType /\ draft.id \in Nat
  BY DEF IInv, Typed, DraftType
<1>2. draft'.id = draft.id
  BY DEF Onward
<1>3. ASSUME NEW u \in Tasks
      PROVE  Sized(exec[u])' /\ Told(draft, Completed(exec[u]))'
  <2>1. CASE u = t
    <3>1. exec'[u] = r
      BY <1>1, <2>1
    <3>2. Sized(exec'[u]) /\ Told(draft', Completed(exec'[u]))
      BY <3>1
    <3> QED BY <3>2 DEF Sized, Told, Completed, Steps
  <2>2. CASE u # t
    <3>1. exec'[u] = exec[u] /\ exec[u].pc = "off"
      BY <1>1, <2>2 DEF IInv, OneBusy, Busy
    <3>2. Sized(exec[u])
      BY DEF Tells
    <3>3. Completed(exec'[u]) = {}
      BY <3>1 DEF Completed
    <3>4. Sized(exec'[u]) /\ Told(draft', Completed(exec'[u]))
      BY <3>1, <3>2, <3>3 DEF Told
    <3> QED BY <3>4 DEF Sized, Told, Completed, Steps
  <2> QED BY <2>1, <2>2
<1>4. Completing(t) \subseteq RealTags /\ (\A tag \in Completing(t) : tag[1] <= draft.id)
      /\ Told(draft, Completing(t))
  <2>1. exec[t] \in ExecType /\ Sized(exec[t]) /\ exec[t].plan <= draft.id
    BY <1>1 DEF Tells, IInv, TaskInv
  <2> QED BY <1>1, <2>1, CompletedTag, CompletingIs DEF Tells
<1>5. done' \subseteq RealTags /\ (\A tag \in done' : tag[1] <= draft'.id)
  BY <1>2, <1>4 DEF Tells
<1>6. Told(draft, done') 
  BY <1>4 DEF Tells, Told
<1>7. Told(draft', done')
  BY <1>5, <1>6, ToldKept
<1> QED BY <1>2, <1>3, <1>5, <1>7 DEF Tells, RealTags, Tags, Told, Steps

\* The updates of the draft take back no success.
LEMMA OnwardTrans ==
  ASSUME NEW d, NEW e, NEW f, Onward(d, e), Onward(e, f)
  PROVE  Onward(d, f)
  BY DEF Onward

LEMMA OnwardRunning ==
  ASSUME NEW d \in DraftType, d.sel \in Approaches, NEW S \in SUBSET Plan!Pending(d)
  PROVE  Plan!WithRunning(d, S) \in DraftType /\ Onward(d, Plan!WithRunning(d, S))
<1> DEFINE e == Plan!WithRunning(d, S)
<1>1. d.sel # None
  BY PlanExecutionAssumption
<1>2. /\ e \in DraftType /\ e.id = d.id /\ e.linked = d.linked
      /\ \A a \in Approaches : \A i \in Plan!StepsOf(a) :
           e.steps[a][i] = IF a = d.sel /\ i \in S THEN "running" ELSE d.steps[a][i]
  BY <1>1, Running
<1>3. \A i \in S : d.steps[d.sel][i] = "planned"
  BY DEF Plan!Pending, Plan!Selected
<1> HIDE DEF e
<1>4. Onward(d, e)
  BY <1>2, <1>3 DEF Onward
<1> QED BY <1>2, <1>4 DEF e

LEMMA OnwardFinished ==
  ASSUME draft \in DraftType, NEW t \in Tasks, Finishes(t), NEW s \in Plan!StepStatuses
  PROVE  LET e == Plan!WithFinished(draft, exec[t].step, s) IN
         /\ e \in DraftType /\ Onward(draft, e) /\ e.sel = draft.sel /\ draft.sel \in Approaches
         /\ e.steps[draft.sel][exec[t].step] = s /\ exec[t].step \in Plan!StepsOf(draft.sel)
<1> DEFINE e == Plan!WithFinished(draft, exec[t].step, s)
<1>1. draft.sel # None /\ draft.sel \in Approaches /\ exec[t].step \in Plan!StepsOf(draft.sel)
      /\ draft.steps[draft.sel][exec[t].step] = "running"
  BY DEF Finishes, DraftType, Plan!Selected
<1>2. /\ e \in DraftType /\ e.id = draft.id /\ e.sel = draft.sel /\ e.linked = draft.linked
      /\ \A a \in Approaches : \A j \in Plan!StepsOf(a) :
           e.steps[a][j] = IF a = draft.sel /\ j = exec[t].step THEN s ELSE draft.steps[a][j]
  BY <1>1, Finished
<1> HIDE DEF e
<1>3. Onward(draft, e)
  BY <1>1, <1>2 DEF Onward
<1> QED BY <1>1, <1>2, <1>3 DEF e

LEMMA OnwardCancelled ==
  ASSUME NEW d \in DraftType
  PROVE  Plan!WithCancelled(d) \in DraftType /\ Onward(d, Plan!WithCancelled(d))
<1> DEFINE e == Plan!WithCancelled(d)
<1>1. /\ e \in DraftType /\ e.id = d.id /\ e.linked = d.linked
      /\ \A a \in Approaches : \A j \in Plan!StepsOf(a) :
           d.steps[a][j] # "running" => e.steps[a][j] = d.steps[a][j]
  BY Cancelled
<1> HIDE DEF e
<1>2. Onward(d, e)
  BY <1>1 DEF Onward
<1> QED BY <1>1, <1>2 DEF e

\* A task ends.
LEMMA EndsTells ==
  ASSUME IInv, Tells, Around', NEW t \in Tasks, Busy(t), exec' = [exec EXCEPT ![t] = Ended],
         draft' \in DraftType, Onward(draft, draft'), done' \in {done, done \union Completing(t)}
  PROVE  Tells'
<1>1. Ended \in ExecType /\ Ended.pc = "off" /\ Ended.plan = 0 /\ Ended.todo = {}
  BY EndedTyped DEF Ended
<1> HIDE DEF Ended
<1>2. Sized(Ended) /\ Completed(Ended) = {}
  BY <1>1, PlanExecutionAssumption DEF Sized, Completed
<1>3. Told(draft', Completed(Ended))
  BY <1>2 DEF Told
<1> QED BY <1>1, <1>2, <1>3, TellsStep

LEMMA OnwardSame == \A d : Onward(d, d)
  BY DEF Onward

\* A task goes on to an await of another kind.
LEMMA RestsTells ==
  ASSUME IInv, Tells, Around', NEW t \in Tasks, Engaged(t), NEW r \in ExecType,
         exec' = [exec EXCEPT ![t] = r], r.pc \in {"synthesis", "stopping"},
         r.plan = exec[t].plan, r.ap = exec[t].ap, r.todo \subseteq exec[t].todo,
         draft' = draft, done' \in {done, done \union Completing(t)}
  PROVE  Tells'
<1>1. Busy(t) /\ draft' \in DraftType /\ Onward(draft, draft')
  BY OnwardSame DEF Engaged, Busy, IInv, Typed
<1>2. Sized(exec[t])
  BY DEF Tells
<1>3. Sized(r) /\ Completed(r) = {}
  BY <1>2 DEF Sized, Completed, Engaged
<1>4. Told(draft', Completed(r))
  BY <1>3 DEF Told
<1> QED BY <1>1, <1>3, <1>4, TellsStep

LEMMA QueryTells ==
  ASSUME IInv, Tells, Around', NEW t \in Tasks, Busy(t), NEW d \in DraftType, Query(t, d),
         d.sel \in Approaches, Onward(draft, d), done' \in {done, done \union Completing(t)}
  PROVE  Tells'
<1>1. exec \in [Tasks -> ExecType] /\ exec[t] \in ExecType /\ Sized(exec[t])
  BY DEF IInv, Typed, Tells
<1>2. PICK i \in Plan!FirstPending(d) :
        /\ draft' = Plan!WithRunning(d, {i})
        /\ exec' = [exec EXCEPT ![t] = [exec[t] EXCEPT !.pc = "querying", !.ap = d.sel, !.step = i]]
  BY <1>1 DEF Query
<1>3. i \in Plan!StepsOf(d.sel) /\ {i} \in SUBSET Plan!Pending(d) /\ i \in Nat
  BY <1>2, StepsOfNat DEF Plan!FirstPending, Plan!Pending
<1> DEFINE r == [exec[t] EXCEPT !.pc = "querying", !.ap = d.sel, !.step = i]
<1>4. /\ r \in ExecType /\ r.pc = "querying" /\ r.plan = exec[t].plan /\ r.ap = d.sel
      /\ r.todo = exec[t].todo /\ r.step = i
  BY <1>1, <1>3 DEF ExecType, PCs
<1>5. exec' = [exec EXCEPT ![t] = r]
  BY <1>2
<1> HIDE DEF r
<1>6. Sized(r) /\ Completed(r) = {}
  BY <1>1, <1>3, <1>4 DEF Sized, Completed, Busy
<1>7. draft' \in DraftType /\ Onward(draft, draft')
  BY <1>2, <1>3, OnwardRunning, OnwardTrans
<1>8. Told(draft', Completed(r))
  BY <1>6 DEF Told
<1> QED BY <1>4, <1>5, <1>6, <1>7, <1>8, TellsStep

LEMMA ContinueTells ==
  ASSUME IInv, Tells, Around', NEW t \in Tasks, Busy(t), NEW d \in DraftType, Continue(t, d),
         Onward(draft, d), done' \in {done, done \union Completing(t)}
  PROVE  Tells'
<1>1. CASE GoesOn(t, d) /\ Query(t, d)
  <2>1. d.sel \in Approaches
    BY <1>1 DEF GoesOn, Startable, Plan!Runnable, DraftType
  <2> QED BY <1>1, <2>1, QueryTells
<1>2. CASE draft' = d /\ exec' = [exec EXCEPT ![t] = Ended]
  BY <1>2, EndsTells
<1> QED BY <1>1, <1>2 DEF Continue

LEMMA StartsTells ==
  ASSUME IInv, Tells, NEW t \in Tasks, Starts(t)
  PROVE  Tells'
<1>1. exec \in [Tasks -> ExecType] /\ exec[t] \in ExecType /\ Sized(exec[t]) /\ draft \in DraftType
      /\ Busy(t) /\ draft.id \in 0..MaxPlans
  BY PlanExecutionAssumption DEF IInv, Typed, Tells, Starts, Busy, DraftType
<1>2. draft.sel \in Approaches /\ done' = done
  BY <1>1 DEF Starts, Startable, Plan!Runnable, DraftType
<1>3. Around'
  BY <1>1 DEF Starts, Tells, Around, BoardType
<1>4. CASE Query(t, draft)
  BY <1>1, <1>2, <1>3, <1>4, OnwardSame, QueryTells
<1>5. CASE draft' = Plan!WithRunning(draft, Plan!Pending(draft))
  <2>1. draft' \in DraftType /\ Onward(draft, draft')
    BY <1>1, <1>2, <1>5, OnwardRunning
  <2>2. CASE exec' = [exec EXCEPT ![t] = Ended]
    BY <1>1, <1>2, <1>3, <2>1, <2>2, EndsTells
  <2>3. CASE exec' = [exec EXCEPT ![t] = [exec[t] EXCEPT !.pc = "delegated", !.ap = draft.sel,
                                                         !.todo = Plan!Pending(draft)]]
    <3> DEFINE r == [exec[t] EXCEPT !.pc = "delegated", !.ap = draft.sel, !.todo = Plan!Pending(draft)]
    <3>1. Plan!Pending(draft) \subseteq Steps /\ Plan!Pending(draft) \in SUBSET Nat
      BY <1>2, StepsAre, StepsOfNat DEF Plan!Pending
    <3>2. /\ r \in ExecType /\ r.pc = "delegated" /\ r.plan = exec[t].plan /\ r.ap = draft.sel
          /\ r.todo = Plan!Pending(draft)
      BY <1>1, <1>2, <3>1 DEF ExecType, PCs
    <3>3. exec' = [exec EXCEPT ![t] = r]
      BY <2>3
    <3> HIDE DEF r
    <3>4. Sized(r) /\ Completed(r) = {}
      BY <1>1, <1>2, <3>1, <3>2 DEF Sized, Completed, Busy
    <3>5. Told(draft', Completed(r))
      BY <3>4 DEF Told
    <3> QED BY <1>1, <1>2, <1>3, <2>1, <3>2, <3>3, <3>4, <3>5, TellsStep
  <2>4. \/ Query(t, draft)
        \/ exec' = [exec EXCEPT ![t] = Ended]
        \/ exec' = [exec EXCEPT ![t] = [exec[t] EXCEPT !.pc = "delegated", !.ap = draft.sel,
                                                       !.todo = Plan!Pending(draft)]]
    BY <1>1 DEF Starts
  <2> QED BY <1>4, <2>2, <2>3, <2>4
<1> QED BY <1>4, <1>5 DEF Starts

LEMMA QueryReturnsTells ==
  ASSUME IInv, Tells, NEW t \in Tasks, QueryReturns(t)
  PROVE  Tells'
<1> DEFINE tag == Tag(t, exec[t].step)
           d == Plan!WithFinished(draft, exec[t].step, "succeeded")
<1>1. /\ exec \in [Tasks -> ExecType] /\ exec[t] \in ExecType /\ Sized(exec[t]) /\ draft \in DraftType
      /\ Busy(t) /\ Engaged(t) /\ exec[t].pc = "querying"
  BY DEF IInv, Typed, Tells, QueryReturns, Busy, Engaged
<1>2. worked' = worked \union {tag} /\ failed' \in {failed, failed \union {tag}}
      /\ UNCHANGED <<board, rx, done>>
  BY DEF QueryReturns
<1>3. tag \in Tags
  BY <1>1, StepsAre, PlanExecutionAssumption DEF Tag, Tags, Sized
<1> HIDE DEF tag
<1>4. Around'
  <2>1. worked' \subseteq Tags /\ failed' \subseteq worked'
    BY <1>2, <1>3 DEF Tells, Around
  <2> QED BY <1>2, <2>1 DEF Tells, Around, BoardType, Tags, Steps
<1>5. CASE ~Finishes(t)
  <2>1. exec' = [exec EXCEPT ![t] = Ended] /\ draft' = draft
    BY <1>5 DEF QueryReturns
  <2> QED BY <1>1, <1>2, <1>4, <2>1, OnwardSame, EndsTells
<1>6. CASE Finishes(t)
  <2>1. /\ d \in DraftType /\ Onward(draft, d) /\ d.sel = draft.sel
        /\ d.steps[draft.sel][exec[t].step] = "succeeded"
    BY <1>1, <1>6, OnwardFinished DEF Plan!StepStatuses
  <2>2. draft.id = exec[t].plan /\ draft.sel = exec[t].ap
    BY <1>1, <1>6, ResultLands
  <2>3. \/ /\ exec[t].ap \in draft.linked /\ draft' = d
           /\ exec' = [exec EXCEPT ![t] = [exec[t] EXCEPT !.pc = "organizer"]]
        \/ Continue(t, d)
    BY <1>1, <1>6 DEF QueryReturns
  <2> HIDE DEF d
  <2>4. CASE Continue(t, d)
    BY <1>1, <1>2, <1>4, <2>1, <2>4, ContinueTells
  <2>5. CASE /\ exec[t].ap \in draft.linked /\ draft' = d
             /\ exec' = [exec EXCEPT ![t] = [exec[t] EXCEPT !.pc = "organizer"]]
    <3> DEFINE r == [exec[t] EXCEPT !.pc = "organizer"]
    <3>1. /\ r \in ExecType /\ r.pc = "organizer" /\ r.plan = exec[t].plan /\ r.ap = exec[t].ap
          /\ r.todo = exec[t].todo /\ r.step = exec[t].step
      BY <1>1 DEF ExecType, PCs
    <3>2. exec' = [exec EXCEPT ![t] = r]
      BY <2>5
    <3> HIDE DEF r
    <3>3. Sized(r)
      BY <1>1, <3>1 DEF Sized
    <3>4. Told(draft', Completed(r))
      <4>1. r.ap \in draft'.linked /\ draft'.steps[r.ap][r.step] = "succeeded"
        BY <2>1, <2>2, <2>5, <3>1 DEF Onward
      <4> QED BY <4>1 DEF Told, Completed
    <3> QED BY <1>1, <1>2, <1>4, <2>1, <2>5, <3>1, <3>2, <3>3, <3>4, TellsStep
  <2> QED BY <2>3, <2>4, <2>5
<1> QED BY <1>5, <1>6

LEMMA QueryRaisesTells ==
  ASSUME IInv, Tells, NEW t \in Tasks, QueryRaises(t)
  PROVE  Tells'
<1>1. draft \in DraftType /\ Busy(t) /\ exec' = [exec EXCEPT ![t] = Ended] /\ done' = done
  BY DEF IInv, Typed, QueryRaises, Busy
<1>2. Around'
  BY DEF QueryRaises, Tells, Around
<1>3. draft' \in DraftType /\ Onward(draft, draft')
  <2>1. CASE Finishes(t)
    BY <1>1, <2>1, OnwardFinished DEF QueryRaises, Plan!StepStatuses
  <2>2. CASE ~Finishes(t)
    BY <1>1, <2>2, OnwardSame DEF QueryRaises
  <2> QED BY <2>1, <2>2
<1> QED BY <1>1, <1>2, <1>3, EndsTells

LEMMA QuietEndsTell ==
  ASSUME IInv, Tells, NEW t \in Tasks, Refused(t) \/ OrganizerRaises(t) \/ SynthesisEnds(t)
  PROVE  Tells'
<1>1. draft' = draft /\ draft \in DraftType /\ Busy(t) /\ exec' = [exec EXCEPT ![t] = Ended] /\ done' = done
  BY DEF IInv, Typed, Refused, OrganizerRaises, SynthesisEnds, Busy
<1>2. Around'
  BY DEF Refused, OrganizerRaises, SynthesisEnds, Tells, Around, BoardType
<1> QED BY <1>1, <1>2, OnwardSame, EndsTells

LEMMA OrganizerReturnsTells ==
  ASSUME IInv, Tells, NEW t \in Tasks, OrganizerReturns(t)
  PROVE  Tells'
<1>1. draft \in DraftType /\ Busy(t) /\ Continue(t, draft) /\ done' = done \union Completing(t)
  BY DEF IInv, Typed, OrganizerReturns, Busy
<1>2. Around'
  BY DEF OrganizerReturns, Tells, Around
<1> QED BY <1>1, <1>2, OnwardSame, ContinueTells

\* A recorded batch ends with the step whose Organizer task is completed.
LEMMA RecordTells ==
  ASSUME IInv, Tells, Around', NEW t \in Tasks, Working(t), exec[t].pc # "querying",
         NEW out \in OutType, Record(t, out, exec[t].todo),
         \A i \in exec[t].todo : out[i] \in Outcomes, done' \in {done, done \union Completing(t)}
  PROVE  Tells'
<1> DEFINE todo == exec[t].todo
           S == Batch(t, out, todo)
<1>1. Busy(t) /\ TaskInv(t) /\ Sized(exec[t]) /\ S \subseteq todo
  BY DEF Working, Busy, IInv, Tells, Batch
<1>2. /\ draft \in DraftType /\ exec[t] \in ExecType /\ exec \in [Tasks -> ExecType] /\ todo \in SUBSET Nat
  BY DEF IInv, Typed, ExecType
<1>3. CASE exec' = [exec EXCEPT ![t] = Ended] /\ draft' = draft
  BY <1>1, <1>2, <1>3, OnwardSame, EndsTells
<1>4. ASSUME Fits(S), draft' = WithRecorded(out, S), NEW i \in {0} \union S,
             i # 0 => Completes(t, out, i), S = {} => i = 0,
             exec' = [exec EXCEPT ![t] = [exec[t] EXCEPT !.pc = "recording", !.step = i, !.out = out,
                                                         !.todo = todo \ S]]
      PROVE  Tells'
  <2> DEFINE r == [exec[t] EXCEPT !.pc = "recording", !.step = i, !.out = out, !.todo = todo \ S]
  <2> HIDE DEF S, todo
  <2>0. S \subseteq todo /\ todo \subseteq Nat /\ i \in {0} \union S
    BY <1>1, <1>2, <1>4
  <2>1. i \in Nat /\ todo \ S \in SUBSET Nat
    BY <2>0
  <2>2. /\ r \in ExecType /\ r.pc = "recording" /\ r.plan = exec[t].plan /\ r.ap = exec[t].ap
        /\ r.todo = todo \ S /\ r.step = i
    BY <1>2, <2>1 DEF ExecType, PCs
  <2>3. exec' = [exec EXCEPT ![t] = r]
    BY <1>4
  <2> HIDE DEF r
  <2>4. CASE S = {}
    <3>1. draft' = draft /\ i = 0
      BY <1>4, <2>4 DEF WithRecorded
    <3>2. Sized(r)
      BY <1>1, <2>2, <3>1 DEF Sized, Working, todo
    <3>3. Completed(r) = {}
      BY <2>2, <3>1 DEF Completed
    <3>4. Told(draft', Completed(r)) /\ Onward(draft, draft')
      BY <3>1, <3>3, OnwardSame DEF Told
    <3> QED BY <1>1, <1>2, <2>2, <2>3, <3>1, <3>2, <3>4, TellsStep
  <2>5. CASE S # {}
    <3>1. \A j \in S : out[j] \in Plan!StepStatuses
      BY <1>1, OutcomesTyped DEF todo
    <3>2. /\ draft.sel \in Approaches /\ draft' \in DraftType
          /\ draft'.id = draft.id /\ draft'.linked = draft.linked
          /\ \A a \in Approaches : \A j \in Plan!StepsOf(a) :
               draft'.steps[a][j] = IF a = draft.sel /\ j \in S THEN out[j] ELSE draft.steps[a][j]
      BY <1>2, <1>4, <2>5, <3>1, Recorded
    <3>3. S \subseteq Plan!StepsOf(draft.sel) /\ \A j \in S : draft.steps[draft.sel][j] = "running"
      BY <1>4, <2>5 DEF Fits, Plan!Selected
    <3>4. draft.id = exec[t].plan
      BY <1>1, <2>5, <3>2, <3>3 DEF TaskInv, Working, Engaged
    <3>5. draft.sel = exec[t].ap
      BY <1>1, <3>4 DEF TaskInv
    <3>6. Onward(draft, draft')
      BY <3>2, <3>3 DEF Onward
    <3>7. Sized(r)
      <4>1. exec[t].plan \in 0..MaxPlans /\ exec[t].plan # 0 /\ exec[t].todo \subseteq Steps
        BY <1>1 DEF Sized, Working
      <4>2. todo \ S \subseteq Steps
        BY <4>1 DEF todo
      <4>3. exec[t].ap \in Approaches
        BY <3>2, <3>5
      <4>4. i # 0 => i \in Plan!StepsOf(exec[t].ap)
        BY <2>0, <3>3, <3>5
      <4> QED BY <2>2, <4>1, <4>2, <4>3, <4>4 DEF Sized
    <3>8. Told(draft', Completed(r))
      <4>1. i # 0 => exec[t].ap \in draft.linked /\ out[i] = "succeeded" /\ i \in S
        BY <1>4 DEF Completes
      <4> QED BY <2>2, <3>2, <3>3, <3>5, <4>1 DEF Told, Completed
    <3> QED BY <1>1, <2>2, <2>3, <3>2, <3>6, <3>7, <3>8, TellsStep
  <2> QED BY <2>4, <2>5
<1>5. ~(exec' = [exec EXCEPT ![t] = Ended] /\ draft' = draft) =>
        \E i \in {0} \union S :
          /\ Fits(S) /\ draft' = WithRecorded(out, S)
          /\ i # 0 => Completes(t, out, i)
          /\ S = {} => i = 0
          /\ exec' = [exec EXCEPT ![t] = [exec[t] EXCEPT !.pc = "recording", !.step = i, !.out = out,
                                                         !.todo = todo \ S]]
  BY <1>2 DEF Record
<1> QED BY <1>3, <1>4, <1>5

LEMMA BoardReturnsTells ==
  ASSUME IInv, Tells, NEW t \in Tasks, BoardReturns(t)
  PROVE  Tells'
<1>1. PICK out \in [exec[t].todo -> Outcomes] :
        /\ worked' = worked \union {Tag(t, i) : i \in {i \in DOMAIN out : out[i] = "succeeded"}}
        /\ Record(t, out, exec[t].todo)
        /\ board' = [board EXCEPT !.st = IF Range(out) = {"succeeded"} THEN "synthesizing" ELSE "over"]
  BY DEF BoardReturns, Outcomes
<1>2. exec[t].todo \in SUBSET Nat /\ Sized(exec[t]) /\ exec[t].pc = "delegated"
      /\ UNCHANGED <<rx, failed, done>>
  BY DEF IInv, Typed, ExecType, Tells, BoardReturns
<1>3. out \in OutType
  BY <1>1, <1>2 DEF OutType
<1>4. \A i \in exec[t].todo : Tag(t, i) \in Tags
  BY <1>2, PlanExecutionAssumption DEF Tag, Tags, Sized
<1>5. Around'
  <2>1. worked' \subseteq Tags
    BY <1>1, <1>4 DEF Tells, Around
  <2>2. failed' \subseteq worked' /\ board' \in BoardType /\ rx' \in {"idle", "materializing", "stopping"}
    BY <1>1, <1>2 DEF Tells, Around, BoardType
  <2> QED BY <2>1, <2>2 DEF Around, BoardType, Tags, Steps
<1>6. Working(t) /\ exec[t].pc # "querying" /\ \A i \in exec[t].todo : out[i] \in Outcomes
  BY <1>1, <1>2 DEF Working
<1> QED BY <1>1, <1>2, <1>3, <1>5, <1>6, RecordTells

LEMMA RecordingReturnsTells ==
  ASSUME IInv, Tells, NEW t \in Tasks, RecordingReturns(t)
  PROVE  Tells'
<1>1. /\ exec[t].pc = "recording" /\ Engaged(t) /\ Busy(t) /\ exec[t] \in ExecType /\ exec[t].out \in OutType
      /\ draft \in DraftType /\ exec \in [Tasks -> ExecType] /\ done' = done \union Completing(t)
  BY DEF RecordingReturns, Busy, Engaged, IInv, Typed, ExecType
<1>2. Around'
  BY DEF RecordingReturns, Tail, Tells, Around, BoardType
<1>3. CASE exec[t].todo # {} /\ Record(t, exec[t].out, exec[t].todo)
  <2>1. Working(t) /\ \A i \in exec[t].todo : exec[t].out[i] \in Outcomes
    BY <1>1, <1>3 DEF Working, IInv, TaskInv
  <2> QED BY <1>1, <1>2, <1>3, <2>1, RecordTells
<1>4. CASE Tail(t, exec[t].out) /\ draft' = draft
  <2>1. CASE exec' = [exec EXCEPT ![t] = Ended]
    BY <1>1, <1>2, <1>4, <2>1, OnwardSame, EndsTells
  <2>2. CASE exec' = [exec EXCEPT ![t] = [exec[t] EXCEPT !.pc = "synthesis", !.todo = {}]]
    <3> DEFINE r == [exec[t] EXCEPT !.pc = "synthesis", !.todo = {}]
    <3>1. r \in ExecType /\ r.pc = "synthesis" /\ r.plan = exec[t].plan /\ r.ap = exec[t].ap /\ r.todo = {}
      BY <1>1 DEF ExecType, PCs
    <3>2. exec' = [exec EXCEPT ![t] = r]
      BY <2>2
    <3> HIDE DEF r
    <3> QED BY <1>1, <1>2, <1>4, <3>1, <3>2, RestsTells
  <2> QED BY <1>1, <1>4, <2>1, <2>2 DEF Tail
<1> QED BY <1>3, <1>4 DEF RecordingReturns

LEMMA StoppedTells ==
  ASSUME IInv, Tells, NEW t \in Tasks, Stopped(t) \/ StopEnds(t)
  PROVE  Tells'
<1>1. /\ Busy(t) /\ draft \in DraftType /\ exec \in [Tasks -> ExecType] /\ exec[t] \in ExecType
      /\ done' \in {done, done \union Completing(t)}
  BY DEF Stopped, StopEnds, Busy, IInv, Typed
<1>2. Around'
  BY DEF Stopped, StopEnds, Tells, Around, BoardType
<1>3. CASE exec' = [exec EXCEPT ![t] = Ended] /\ draft' = draft
  BY <1>1, <1>2, <1>3, OnwardSame, EndsTells
<1>4. CASE exec' = [exec EXCEPT ![t] = Ended] /\ draft' = Plan!WithCancelled(draft)
  BY <1>1, <1>2, <1>4, OnwardCancelled, EndsTells
<1>5. CASE /\ exec[t].pc # "new" /\ draft' = draft
           /\ exec' = [exec EXCEPT ![t] = [exec[t] EXCEPT !.pc = "stopping", !.stop = FALSE]]
  <2> DEFINE r == [exec[t] EXCEPT !.pc = "stopping", !.stop = FALSE]
  <2>1. r \in ExecType /\ r.pc = "stopping" /\ r.plan = exec[t].plan /\ r.ap = exec[t].ap
        /\ r.todo = exec[t].todo
    BY <1>1 DEF ExecType, PCs
  <2>2. exec' = [exec EXCEPT ![t] = r] /\ Engaged(t)
    BY <1>1, <1>5 DEF Engaged, Busy
  <2> HIDE DEF r
  <2> QED BY <1>1, <1>2, <1>5, <2>1, <2>2, RestsTells
<1> QED BY <1>1, <1>3, <1>4, <1>5 DEF Stopped, StopEnds

\* A handler leaves the tasks where they are, except for asking one to stop.
LEMMA HandlerTells ==
  ASSUME IInv, Tells, Around',
         \A t \in Tasks : /\ exec'[t].pc = exec[t].pc /\ exec'[t].plan = exec[t].plan
                          /\ exec'[t].ap = exec[t].ap /\ exec'[t].todo = exec[t].todo
                          /\ exec'[t].step = exec[t].step,
         Onward(draft, draft'), done' = done
  PROVE  Tells'
<1>1. draft.id \in Nat /\ exec \in [Tasks -> ExecType]
  BY DEF IInv, Typed, DraftType
<1>2. ASSUME NEW t \in Tasks
      PROVE  Sized(exec[t])' /\ Told(draft, Completed(exec[t]))'
  <2>1. Sized(exec[t]) /\ Told(draft, Completed(exec[t])) /\ exec[t] \in ExecType
    BY <1>1 DEF Tells
  <2>2. Sized(exec'[t])
    BY <2>1 DEF Sized
  <2>3. Completed(exec'[t]) = Completed(exec[t])
    BY DEF Completed
  <2>4. exec[t].pc # "off" => exec[t].plan <= draft.id
    BY DEF IInv, TaskInv, Busy
  <2>5. Completed(exec[t]) \in SUBSET RealTags
    BY <1>1, <2>1, <2>4, CompletedTag DEF Completed
  <2>6. Told(draft', Completed(exec'[t]))
    BY <2>1, <2>3, <2>5, ToldKept
  <2> QED BY <2>2, <2>6 DEF Sized, Told, Completed, Steps
<1>3. draft'.id = draft.id /\ Told(draft', done)
  BY ToldKept DEF Onward, Tells
<1> QED BY <1>2, <1>3 DEF Tells, RealTags, Tags, Told, Steps

LEMMA HandlersTell ==
  ASSUME IInv, Tells, Materialized \/ Interrupt \/ CancelPlan \/ CancelReturns \/ ManualStarts \/ ManualEnds
                      \/ (\E a \in Approaches : Select(a)) \/ UNCHANGED vars
  PROVE  Tells'
<1>1. draft \in DraftType /\ exec \in [Tasks -> ExecType] /\ latest \in Tasks
  BY DEF IInv, Typed
<1>2. /\ board \in BoardType /\ rx \in {"idle", "materializing", "stopping"}
      /\ worked \subseteq Tags /\ failed \subseteq worked /\ UNCHANGED <<worked, failed, done>>
  BY DEF Tells, Around, Materialized, Interrupt, CancelPlan, CancelReturns, ManualStarts, ManualEnds,
         Select, vars
<1>3. board' \in BoardType /\ rx' \in {"idle", "materializing", "stopping"}
  BY <1>2, PlanExecutionAssumption
  DEF Materialized, Interrupt, CancelPlan, CancelReturns, ManualStarts, ManualEnds, Select, vars, BoardType
<1>4. Around'
  BY <1>2, <1>3 DEF Around, BoardType, Tags, Steps
<1>5. exec' = exec \/ exec' = [exec EXCEPT ![latest].stop = TRUE]
                   \/ exec' = [exec EXCEPT ![latest].stop = Busy(latest)]
  BY DEF Materialized, Interrupt, CancelPlan, CancelReturns, ManualStarts, ManualEnds, Select, vars
<1>6. \A t \in Tasks : /\ exec'[t].pc = exec[t].pc /\ exec'[t].plan = exec[t].plan
                       /\ exec'[t].ap = exec[t].ap /\ exec'[t].todo = exec[t].todo
                       /\ exec'[t].step = exec[t].step
  BY <1>1, <1>5 DEF ExecType
<1>7. Onward(draft, draft')
  <2>1. CASE draft' = draft
    BY <2>1, OnwardSame
  <2>2. CASE draft' = Plan!WithCancelled(draft)
    BY <1>1, <2>2, OnwardCancelled
  <2>3. CASE draft' = [draft EXCEPT !.linked = @ \union {draft.sel}]
    BY <1>1, <2>3 DEF Onward, DraftType
  <2>4. CASE \E a \in Approaches : draft' = [draft EXCEPT !.sel = a, !.status = "ready"]
    BY <1>1, <2>4 DEF Onward, DraftType
  <2> QED BY <2>1, <2>2, <2>3, <2>4
      DEF Materialized, Interrupt, CancelPlan, CancelReturns, ManualStarts, ManualEnds, Select, vars,
          Plan!BindOrganizerRecords, Plan!Select
<1> QED BY <1>2, <1>4, <1>6, <1>7, HandlerTells

LEMMA NewPlanTells == ASSUME IInv, Tells, NewPlan PROVE Tells'
<1>1. draft.id \in Nat /\ draft.id < MaxPlans /\ draft'.id = draft.id + 1
      /\ UNCHANGED <<exec, board, rx, worked, failed, done>>
  BY NewDraftTyped DEF NewPlan, Plan!LoadDraft, IInv, Typed, DraftType
<1>2. \A tag \in done : tag[1] # draft'.id
  BY <1>1, PlanExecutionAssumption DEF Tells, RealTags, Tags
<1>3. ASSUME NEW t \in Tasks PROVE Sized(exec[t])' /\ Told(draft, Completed(exec[t]))'
  <2>1. exec[t].pc # "off" => exec[t].plan <= draft.id
    BY DEF IInv, TaskInv, Busy
  <2>2. exec[t].plan \in Nat
    BY DEF IInv, Typed, ExecType
  <2>3. \A tag \in Completed(exec[t]) : tag[1] # draft'.id
    BY <1>1, <2>1, <2>2 DEF Completed
  <2>4. Sized(exec'[t]) /\ Told(draft', Completed(exec'[t]))
    BY <1>1, <2>3 DEF Told, Tells
  <2> QED BY <2>4 DEF Sized, Told, Completed, Steps
<1>4. Told(draft', done)
  BY <1>2 DEF Told
<1>5. \A tag \in done : tag[1] <= draft'.id
  BY <1>1, PlanExecutionAssumption DEF Tells, RealTags, Tags
<1>6. draft'.id <= MaxPlans
  BY <1>1, PlanExecutionAssumption
<1> QED BY <1>1, <1>3, <1>4, <1>5, <1>6 DEF Tells, Around, RealTags, Tags, Told, Steps, BoardType

LEMMA RunTells ==
  ASSUME IInv, Tells, NEW p \in 1..draft.id, NEW mode \in {"next", "all"}, Run(p, mode)
  PROVE  Tells'
<1>1. draft.id \in Nat /\ exec \in [Tasks -> ExecType] /\ latest \in Tasks
  BY DEF IInv, Typed, DraftType
<1>2. \A u \in Tasks : exec[u].pc = "off"
  BY DEF IInv, OneBusy, Run, Busy
<1>3. PICK t \in FreeTask :
        exec' = [exec EXCEPT ![t] = [Ended EXCEPT !.pc = "new", !.plan = p, !.mode = mode]]
  BY DEF Run
<1>4. t \in Tasks /\ failed' = {} /\ UNCHANGED <<draft, board, rx, worked, done>>
  BY <1>2, <1>3, PlanExecutionAssumption DEF FreeTask, Busy, Run
<1> DEFINE r == [Ended EXCEPT !.pc = "new", !.plan = p, !.mode = mode]
<1>5. r.pc = "new" /\ r.plan = p /\ r.todo = {} /\ exec' = [exec EXCEPT ![t] = r]
  BY <1>3 DEF Ended
<1> HIDE DEF r
<1>6. Sized(r) /\ Completed(r) = {}
  BY <1>1, <1>5, PlanExecutionAssumption DEF Sized, Completed, Tells
<1>7. ASSUME NEW u \in Tasks PROVE Sized(exec[u])' /\ Told(draft, Completed(exec[u]))'
  <2>1. exec'[u] = IF u = t THEN r ELSE exec[u]
    BY <1>1, <1>5
  <2>2. Sized(exec'[u]) /\ Completed(exec'[u]) = {}
    BY <1>2, <1>6, <2>1 DEF Completed, Tells
  <2>3. Told(draft', Completed(exec'[u]))
    BY <2>2 DEF Told
  <2> QED BY <2>2, <2>3 DEF Sized, Told, Completed, Steps
<1> QED BY <1>4, <1>7 DEF Tells, Around, RealTags, Tags, Told, Steps, BoardType

LEMMA InitTells == Init => Tells
<1> SUFFICES ASSUME Init PROVE Tells
  OBVIOUS
<1>1. draft.id = 0
  BY NewDraftTyped DEF Init, Plan!Init, Plan!NoDraft
<1>2. Ended.pc = "off" /\ Ended.plan = 0 /\ Ended.todo = {}
  BY DEF Ended
<1>3. \A t \in Tasks : exec[t] = Ended
  BY DEF Init
<1> HIDE DEF Ended
<1>4. \A t \in Tasks : Sized(exec[t]) /\ Completed(exec[t]) = {}
  BY <1>2, <1>3, PlanExecutionAssumption DEF Sized, Completed
<1>5. Around
  BY PlanExecutionAssumption DEF Init, Around, BoardType
<1> QED BY <1>1, <1>4, <1>5, PlanExecutionAssumption DEF Init, Tells, Told

LEMMA NextTells == IInv /\ Tells /\ [Next]_vars => Tells'
<1> SUFFICES ASSUME IInv, Tells, [Next]_vars PROVE Tells'
  OBVIOUS
<1>1. CASE \E t \in Tasks : Step(t)
  BY <1>1, StartsTells, QueryReturnsTells, QueryRaisesTells, QuietEndsTell, OrganizerReturnsTells,
     BoardReturnsTells, RecordingReturnsTells, StoppedTells
     DEF Step
<1>2. CASE \E p \in 1..draft.id, mode \in {"next", "all"} : Run(p, mode)
  BY <1>2, RunTells
<1> QED BY <1>1, <1>2, HandlersTell, NewPlanTells DEF Next

LEMMA AlwaysTells == Spec => [](IInv /\ Tells)
<1>1. Init => IInv /\ Tells
  BY InitIInv, InitTells
<1>2. (IInv /\ Tells) /\ [Next]_vars => (IInv /\ Tells)'
  BY NextIInv, NextTells
<1> QED BY <1>1, <1>2, PTL DEF Spec

\* Every variable has its type for any approaches, drafts and tasks: what tasks
\* hold from a draft that was replaced still fits its own approach.
THEOREM TypeCorrect == Spec => []TypeOK
<1>1. IInv /\ Tells => TypeOK
  <2> SUFFICES ASSUME IInv, Tells PROVE TypeOK
    OBVIOUS
  <2>1. Plan!TypeOK
    BY DEF IInv, Typed, DraftType, StepsType, Plan!TypeOK
  <2>2. \A t \in Tasks : exec[t].pc \in PCs /\ exec[t].plan \in 0..MaxPlans /\ exec[t].todo \subseteq Steps
    BY DEF IInv, Typed, ExecType, Tells, Sized
  <2> QED BY <2>1, <2>2 DEF TypeOK, IInv, Typed, Tells, Around, BoardType, RealTags, PCs
<1> QED BY <1>1, AlwaysTells, PTL

\* A task of the Organizer is completed only for a step of an approach that has
\* tasks, after the step was recorded as succeeded, and nothing takes that back
\* while the draft is loaded: not a cancel, an interrupt, or a later batch.
THEOREM OrganizerHearsTheTruth == Spec => []TasksTellSteps
<1>1. IInv /\ Tells => TasksTellSteps
  BY DEF Tells, Told, TasksTellSteps
<1> QED BY <1>1, AlwaysTells, PTL
=============================================================================
