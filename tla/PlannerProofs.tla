---------------------------- MODULE PlannerProofs ----------------------------
(***************************************************************************)
(* Theorems about what the owner plans with: Plan Mode and the organizer.  *)
(* For every set of approaches, every number of steps and every execution  *)
(* mode, the plan's status tells the truth about its steps, steps start in *)
(* order and outcomes are final.  For any number of commands, lost         *)
(* connections, lines of a meeting, days and goals, the desktop's          *)
(* notification follows the reminder, a summary hears every line, and the  *)
(* scheduler replaces nothing the owner may have written.                  *)
(***************************************************************************)
EXTENDS PlanMode, Organizer, SequenceTheorems, TLAPS

\* A step map of approach a is well typed.
LEMMA StepsTyped ==
  ASSUME TypeOK, NEW a \in Approaches
  PROVE  draft.steps[a] \in [StepsOf(a) -> StepStatuses]
  BY DEF TypeOK

\* An update that rewrites the status and the selected approach's steps.
WithSelected(st, g) == [draft EXCEPT !.status = st, !.steps[draft.sel] = g]

LEMMA WithSelectedFields ==
  ASSUME TypeOK, draft.sel # None, NEW st, NEW g, NEW d, d = WithSelected(st, g)
  PROVE  /\ d.id = draft.id
         /\ d.status = st
         /\ d.sel = draft.sel
         /\ \A a \in Approaches \ {draft.sel} : d.steps[a] = draft.steps[a]
         /\ d.steps[draft.sel] = g
  BY DEF TypeOK, WithSelected

LEMMA WithSelectedTyped ==
  ASSUME TypeOK, draft.sel # None,
         NEW st \in PlanStatuses, NEW g \in [StepsOf(draft.sel) -> StepStatuses],
         draft' = WithSelected(st, g)
  PROVE  TypeOK'
<1>1. draft.sel \in Approaches
  BY DEF TypeOK
<1>2. g \in StepMaps
  BY <1>1 DEF StepMaps
<1>3. draft' \in [id : Nat, status : PlanStatuses, sel : Approaches \union {None},
                 linked : SUBSET Approaches, steps : [Approaches -> StepMaps]]
  BY <1>1, <1>2 DEF WithSelected, TypeOK
<1>4. \A a \in Approaches : draft'.steps[a] \in [StepsOf(a) -> StepStatuses]
  BY WithSelectedFields, StepsTyped
<1> QED
  BY <1>3, <1>4 DEF TypeOK

\* PlanStatusOf returns what the set of step statuses justifies.
LEMMA PlanStatusTells ==
  ASSUME NEW T
  PROVE  LET s == PlanStatusOf(T) IN
         /\ s \in {"ready", "running"} \union FinishStatuses
         /\ s = "running" <=> "running" \in T
         /\ s = "succeeded" => T = {"succeeded"}
         /\ s = "failed" => "failed" \in T
         /\ s = "blocked" => "blocked" \in T /\ "failed" \notin T
         /\ s # "draft"
  BY DEF PlanStatusOf, FinishStatuses

\* The starts and finishes of steps are such updates.
LEMMA WithRunningSelected ==
  ASSUME NEW S
  PROVE  WithRunning(draft, S) =
           WithSelected("running", [i \in StepsOf(draft.sel) |->
             IF i \in S THEN "running" ELSE Selected(draft)[i]])
  BY DEF WithRunning, WithSelected, Selected

LEMMA WithFinishedSelected ==
  ASSUME NEW i, NEW s
  PROVE  LET done == [Selected(draft) EXCEPT ![i] = s]
         IN  WithFinished(draft, i, s) = WithSelected(PlanStatusOf(Range(done)), done)
  BY DEF WithFinished, WithSelected, Selected

-----------------------------------------------------------------------------
\* TypeOK: the draft is well typed for every set of approaches and sizes.
LEMMA TypeStep == TypeOK /\ [Next]_draft => TypeOK'
<1> SUFFICES ASSUME TypeOK, [Next]_draft PROVE TypeOK'
  OBVIOUS
<1> USE PlanAssumption
<1>1. CASE LoadDraft
  <2> DEFINE f == [a \in Approaches |-> [i \in StepsOf(a) |-> "planned"]]
  <2>1. \A a \in Approaches : f[a] \in [StepsOf(a) -> StepStatuses]
    BY DEF StepStatuses
  <2>2. f \in [Approaches -> StepMaps]
    BY <2>1 DEF StepMaps
  <2>3. draft' = [id |-> draft.id + 1, status |-> "draft", sel |-> None, linked |-> {}, steps |-> f]
    BY <1>1 DEF LoadDraft, NewDraft
  <2> HIDE DEF f
  <2> QED
    BY <2>1, <2>2, <2>3 DEF TypeOK, PlanStatuses
<1>2. ASSUME NEW a \in Approaches, Select(a) PROVE TypeOK'
  BY <1>2 DEF Select, TypeOK, PlanStatuses
<1>3. CASE BindOrganizerRecords
  BY <1>3 DEF BindOrganizerRecords, TypeOK
<1>4. ASSUME NEW S, draft.sel # None, draft' = WithRunning(draft, S) PROVE TypeOK'
  <2>1. draft.sel \in Approaches
    BY <1>4 DEF TypeOK
  <2>2. [i \in StepsOf(draft.sel) |-> IF i \in S THEN "running" ELSE Selected(draft)[i]]
          \in [StepsOf(draft.sel) -> StepStatuses]
    BY <2>1, StepsTyped DEF StepStatuses, Selected
  <2> QED
    BY <1>4, <2>2, WithRunningSelected, WithSelectedTyped DEF PlanStatuses
<1>5. CASE StartNext
  BY <1>4, <1>5 DEF StartNext, Runnable
<1>6. CASE StartAllPending
  BY <1>4, <1>6 DEF StartAllPending, Runnable
<1>7. ASSUME NEW i, NEW s \in FinishStatuses, FinishStep(i, s) PROVE TypeOK'
  <2> DEFINE done == [Selected(draft) EXCEPT ![i] = s]
  <2>1. draft.sel \in Approaches /\ i \in StepsOf(draft.sel)
    BY <1>7 DEF FinishStep, TypeOK
  <2>2. done \in [StepsOf(draft.sel) -> StepStatuses]
    BY <2>1, StepsTyped DEF StepStatuses, FinishStatuses, Selected
  <2>3. PlanStatusOf(Range(done)) \in PlanStatuses
    BY PlanStatusTells DEF PlanStatuses
  <2> QED
    BY <1>7, <2>1, <2>2, <2>3, WithFinishedSelected, WithSelectedTyped DEF FinishStep
<1>8. CASE Cancel
  <2> DEFINE f == [a \in Approaches |-> [i \in StepsOf(a) |->
                    IF a = draft.sel /\ draft.steps[a][i] = "running"
                    THEN "cancelled" ELSE draft.steps[a][i]]]
  <2>1. \A a \in Approaches : f[a] \in [StepsOf(a) -> StepStatuses]
    BY StepsTyped DEF StepStatuses
  <2>2. f \in [Approaches -> StepMaps]
    BY <2>1 DEF StepMaps
  <2>3. CASE draft.status \in FinishStatuses
    BY <1>8, <2>3 DEF Cancel, WithCancelled, TypeOK
  <2>4. CASE draft.status \notin FinishStatuses
    <3>1. draft' = [[draft EXCEPT !.status = "cancelled"] EXCEPT !.steps = f]
      BY <1>8, <2>4 DEF Cancel, WithCancelled
    <3> HIDE DEF f
    <3> QED
      BY <2>1, <2>2, <3>1 DEF TypeOK, PlanStatuses, FinishStatuses
  <2> QED
    BY <2>3, <2>4
<1>9. CASE UNCHANGED draft
  BY <1>9 DEF TypeOK
<1> QED
  BY <1>1, <1>2, <1>3, <1>5, <1>6, <1>7, <1>8, <1>9 DEF Next

LEMMA TypeInit == Init => TypeOK
<1> DEFINE f == [a \in Approaches |-> [i \in StepsOf(a) |-> "planned"]]
<1>1. \A a \in Approaches : f[a] \in [StepsOf(a) -> StepStatuses]
  BY DEF StepStatuses
<1>2. f \in [Approaches -> StepMaps]
  BY <1>1 DEF StepMaps
<1>3. Init => draft = [id |-> 0, status |-> "draft", sel |-> None, linked |-> {}, steps |-> f]
  BY DEF Init, NoDraft, NewDraft
<1> HIDE DEF f
<1> QED
  BY <1>1, <1>2, <1>3 DEF TypeOK, PlanStatuses

THEOREM TypeCorrect == Spec => []TypeOK
  BY TypeInit, TypeStep, PTL DEF Spec

-----------------------------------------------------------------------------
\* cancel() on an unfinished plan, one field at a time.
LEMMA CancelFields ==
  ASSUME TypeOK, draft.status \notin FinishStatuses, Cancel
  PROVE  /\ draft'.id = draft.id
         /\ draft'.status = "cancelled"
         /\ draft'.sel = draft.sel
         /\ \A a \in Approaches : \A i \in StepsOf(a) :
              draft'.steps[a][i] = IF a = draft.sel /\ draft.steps[a][i] = "running"
                                   THEN "cancelled" ELSE draft.steps[a][i]
  BY DEF TypeOK, WithCancelled, Cancel

\* start_next and start_all_pending start a set of pending steps.
LEMMA StartFields ==
  ASSUME TypeOK, StartNext \/ StartAllPending
  PROVE  \E S \in SUBSET Pending(draft) :
           /\ S # {}
           /\ \A i \in Pending(draft) : \A j \in S : i < j => i \in S
           /\ Runnable(draft)
           /\ draft'.id = draft.id
           /\ draft'.status = "running"
           /\ draft'.sel = draft.sel
           /\ \A a \in Approaches \ {draft.sel} : draft'.steps[a] = draft.steps[a]
           /\ draft'.steps[draft.sel] = [i \in StepsOf(draft.sel) |->
                IF i \in S THEN "running" ELSE Selected(draft)[i]]
<1>1. Runnable(draft) /\ draft.sel \in Approaches
  BY DEF StartNext, StartAllPending, Runnable, TypeOK
<1>2. Pending(draft) \subseteq Nat
  BY DEF Pending, StepsOf
<1>3. PICK S \in SUBSET Pending(draft) :
        /\ S # {}
        /\ \A i \in Pending(draft) : \A j \in S : i < j => i \in S
        /\ draft' = WithRunning(draft, S)
  <2>1. CASE StartNext
    <3>1. PICK i \in FirstPending(draft) : draft' = WithRunning(draft, {i})
      BY <2>1 DEF StartNext
    <3>2. \A k \in Pending(draft) : ~(k < i)
      BY <1>2, <3>1 DEF FirstPending
    <3> QED
      BY <3>1, <3>2 DEF FirstPending
  <2>2. CASE StartAllPending
    BY <2>2 DEF StartAllPending
  <2> QED
    BY <2>1, <2>2
<1> QED
  BY <1>1, <1>3, WithRunningSelected, WithSelectedFields DEF Runnable

\* finish_step rewrites one running step and recomputes the status.
LEMMA FinishFields ==
  ASSUME TypeOK, NEW i, NEW s, FinishStep(i, s)
  PROVE  LET done == [Selected(draft) EXCEPT ![i] = s] IN
         /\ draft.sel \in Approaches
         /\ i \in StepsOf(draft.sel)
         /\ Selected(draft)[i] = "running"
         /\ draft'.id = draft.id
         /\ draft'.sel = draft.sel
         /\ draft'.status = PlanStatusOf(Range(done))
         /\ \A a \in Approaches \ {draft.sel} : draft'.steps[a] = draft.steps[a]
         /\ draft'.steps[draft.sel] = done
<1>1. draft.sel # None /\ draft.sel \in Approaches
  BY DEF FinishStep, TypeOK
<1> QED
  BY <1>1, WithFinishedSelected, WithSelectedFields DEF FinishStep

-----------------------------------------------------------------------------
\* Every action keeps the status true of the steps.
LEMMA StatusTellsStep == TypeOK /\ StatusTellsSteps /\ [Next]_draft => StatusTellsSteps'
<1> SUFFICES ASSUME TypeOK, StatusTellsSteps, [Next]_draft PROVE StatusTellsSteps'
  OBVIOUS
<1> USE PlanAssumption
<1>1. CASE LoadDraft
  BY <1>1 DEF LoadDraft, NewDraft, StatusTellsSteps, Selected
<1>2. ASSUME NEW a \in Approaches, Select(a) PROVE StatusTellsSteps'
  BY <1>2 DEF Select, TypeOK, StatusTellsSteps, Selected
<1>3. CASE BindOrganizerRecords
  BY <1>3 DEF BindOrganizerRecords, TypeOK, StatusTellsSteps, Selected
<1>4. CASE StartNext \/ StartAllPending
  <2>1. PICK S \in SUBSET Pending(draft) :
           /\ S # {}
           /\ Runnable(draft)
           /\ draft'.status = "running"
           /\ draft'.sel = draft.sel
           /\ \A a \in Approaches \ {draft.sel} : draft'.steps[a] = draft.steps[a]
           /\ draft'.steps[draft.sel] = [i \in StepsOf(draft.sel) |->
                IF i \in S THEN "running" ELSE Selected(draft)[i]]
    BY <1>4, StartFields
  <2>2. \E i \in StepsOf(draft.sel) : draft'.steps[draft.sel][i] = "running"
    BY <2>1 DEF Pending
  <2> QED
    BY <2>1, <2>2 DEF StatusTellsSteps, Runnable, Selected
<1>5. ASSUME NEW i, NEW s \in FinishStatuses, FinishStep(i, s) PROVE StatusTellsSteps'
  <2> DEFINE done == [Selected(draft) EXCEPT ![i] = s]
  <2>1. /\ draft.sel # None
        /\ draft'.sel = draft.sel
        /\ draft'.status = PlanStatusOf(Range(done))
        /\ \A a \in Approaches \ {draft.sel} : draft'.steps[a] = draft.steps[a]
        /\ draft'.steps[draft.sel] = done
    BY <1>5, FinishFields
  <2>2. DOMAIN done = StepsOf(draft.sel)
    BY <1>5, FinishFields, StepsTyped DEF Selected
  <2> HIDE DEF done
  <2>3. /\ draft'.status = "running" <=> \E j \in StepsOf(draft.sel) : done[j] = "running"
        /\ draft'.status = "succeeded" => \A j \in StepsOf(draft.sel) : done[j] = "succeeded"
        /\ draft'.status = "failed" => \E j \in StepsOf(draft.sel) : done[j] = "failed"
        /\ draft'.status = "blocked" =>
             /\ \E j \in StepsOf(draft.sel) : done[j] = "blocked"
             /\ ~\E j \in StepsOf(draft.sel) : done[j] = "failed"
        /\ draft'.status # "draft"
    BY <2>1, <2>2, PlanStatusTells DEF Range
  <2> QED
    BY <2>1, <2>3 DEF StatusTellsSteps, Selected
<1>6. CASE Cancel
  <2>1. CASE draft.status \in FinishStatuses
    BY <1>6, <2>1 DEF Cancel, WithCancelled, StatusTellsSteps, Selected
  <2>2. CASE draft.status \notin FinishStatuses
    <3>1. draft.sel # None => draft.sel \in Approaches
      BY DEF TypeOK
    <3> QED
      BY <1>6, <2>2, <3>1, CancelFields DEF StatusTellsSteps, Selected
  <2> QED
    BY <2>1, <2>2
<1>7. CASE UNCHANGED draft
  BY <1>7 DEF StatusTellsSteps, Selected
<1> QED
  BY <1>1, <1>2, <1>3, <1>4, <1>5, <1>6, <1>7 DEF Next

\* StatusTellsSteps: the plan's status is true of its steps, for every plan.
THEOREM StatusIsTrue == Spec => []StatusTellsSteps
<1>1. Init => StatusTellsSteps
  BY DEF Init, NoDraft, NewDraft, StatusTellsSteps, Selected
<1> QED
  BY <1>1, StatusTellsStep, TypeCorrect, PTL DEF Spec

-----------------------------------------------------------------------------
\* StartedInOrder: the started steps of every approach form a prefix of it.
LEMMA OrderStep == TypeOK /\ StartedInOrder /\ [Next]_draft => StartedInOrder'
<1> SUFFICES ASSUME TypeOK, StartedInOrder, [Next]_draft PROVE StartedInOrder'
  OBVIOUS
<1>1. CASE LoadDraft
  BY <1>1 DEF LoadDraft, NewDraft, StartedInOrder
<1>2. ASSUME NEW a \in Approaches, Select(a) PROVE StartedInOrder'
  BY <1>2 DEF Select, TypeOK, StartedInOrder
<1>3. CASE BindOrganizerRecords
  BY <1>3 DEF BindOrganizerRecords, TypeOK, StartedInOrder
<1>4. CASE StartNext \/ StartAllPending
  <2>1. PICK S \in SUBSET Pending(draft) :
           /\ \A i \in Pending(draft) : \A j \in S : i < j => i \in S
           /\ \A a \in Approaches \ {draft.sel} : draft'.steps[a] = draft.steps[a]
           /\ draft'.steps[draft.sel] = [i \in StepsOf(draft.sel) |->
                IF i \in S THEN "running" ELSE Selected(draft)[i]]
    BY <1>4, StartFields
  <2> QED
    BY <2>1 DEF StartedInOrder, Pending, Selected
<1>5. ASSUME NEW i, NEW s \in FinishStatuses, FinishStep(i, s) PROVE StartedInOrder'
  <2>1. /\ draft.sel \in Approaches
        /\ i \in StepsOf(draft.sel)
        /\ draft.steps[draft.sel][i] = "running"
        /\ \A a \in Approaches \ {draft.sel} : draft'.steps[a] = draft.steps[a]
        /\ draft'.steps[draft.sel] = [draft.steps[draft.sel] EXCEPT ![i] = s]
    BY <1>5, FinishFields, ZenonT(40) DEF Selected
  <2>2. \A a \in Approaches : \A j \in StepsOf(a) :
          draft'.steps[a][j] = "planned" <=> draft.steps[a][j] = "planned"
    BY <2>1, StepsTyped DEF FinishStatuses
  <2> QED
    BY <2>2 DEF StartedInOrder
<1>6. CASE Cancel
  <2>1. CASE draft.status \in FinishStatuses
    BY <1>6, <2>1 DEF Cancel, WithCancelled, StartedInOrder
  <2>2. CASE draft.status \notin FinishStatuses
    BY <1>6, <2>2, CancelFields DEF StartedInOrder
  <2> QED
    BY <2>1, <2>2
<1>7. CASE UNCHANGED draft
  BY <1>7 DEF StartedInOrder
<1> QED
  BY <1>1, <1>2, <1>3, <1>4, <1>5, <1>6, <1>7 DEF Next

\* StartedInOrder: no mixture of starts, reselections and finishes starts a
\* step before the ones the approach lists ahead of it.
THEOREM StepsStartInOrder == Spec => []StartedInOrder
<1>1. Init => StartedInOrder
  BY DEF Init, NoDraft, NewDraft, StartedInOrder
<1> QED
  BY <1>1, OrderStep, TypeCorrect, PTL DEF Spec

-----------------------------------------------------------------------------
\* OutcomesAreFinal: finished steps and finished plans are never rewritten;
\* the argument needs that no step runs in a finished plan.
LEMMA OutcomeStep ==
  ASSUME TypeOK, StatusTellsSteps, [Next]_draft, draft'.id = draft.id
  PROVE  /\ \A a \in Approaches : \A i \in StepsOf(a) :
              draft.steps[a][i] \in FinishStatuses => draft'.steps[a][i] = draft.steps[a][i]
         /\ draft.status \in FinishStatuses => draft'.status = draft.status
<1>1. CASE LoadDraft
  BY <1>1 DEF LoadDraft, NewDraft, TypeOK
<1>2. ASSUME NEW a \in Approaches, Select(a)
      PROVE draft'.steps = draft.steps /\ draft.status \notin FinishStatuses
  BY <1>2 DEF Select, TypeOK, FinishStatuses
<1>3. CASE BindOrganizerRecords
  BY <1>3 DEF BindOrganizerRecords, TypeOK
<1>4. CASE StartNext \/ StartAllPending
  <2>1. PICK S \in SUBSET Pending(draft) :
           /\ Runnable(draft)
           /\ \A a \in Approaches \ {draft.sel} : draft'.steps[a] = draft.steps[a]
           /\ draft'.steps[draft.sel] = [i \in StepsOf(draft.sel) |->
                IF i \in S THEN "running" ELSE Selected(draft)[i]]
    BY <1>4, StartFields
  <2> QED
    BY <2>1 DEF Runnable, FinishStatuses, Pending, Selected
<1>5. ASSUME NEW i, NEW s \in FinishStatuses, FinishStep(i, s)
      PROVE  /\ \A a \in Approaches : \A j \in StepsOf(a) :
                  draft.steps[a][j] \in FinishStatuses => draft'.steps[a][j] = draft.steps[a][j]
             /\ draft.status \notin FinishStatuses
  <2>1. /\ draft.sel \in Approaches
        /\ i \in StepsOf(draft.sel)
        /\ draft.steps[draft.sel][i] = "running"
        /\ \A a \in Approaches \ {draft.sel} : draft'.steps[a] = draft.steps[a]
        /\ draft'.steps[draft.sel] = [draft.steps[draft.sel] EXCEPT ![i] = s]
    BY <1>5, FinishFields DEF Selected
  <2>2. draft.status = "running"
    BY <2>1, PlanAssumption DEF StatusTellsSteps, Selected
  <2> QED
    BY <2>1, <2>2, StepsTyped DEF FinishStatuses
<1>6. CASE Cancel
  <2>1. CASE draft.status \in FinishStatuses
    BY <1>6, <2>1 DEF Cancel, WithCancelled
  <2>2. CASE draft.status \notin FinishStatuses
    BY <1>6, <2>2, CancelFields DEF FinishStatuses
  <2> QED
    BY <2>1, <2>2
<1>7. CASE UNCHANGED draft
  BY <1>7
<1> QED
  BY <1>1, <1>2, <1>3, <1>4, <1>5, <1>6, <1>7 DEF Next

\* OutcomesAreFinal, for every plan and every sequence of calls.
THEOREM OutcomesStayFinal == Spec => OutcomesAreFinal
  BY OutcomeStep, TypeCorrect, StatusIsTrue, PTL DEF Spec, OutcomesAreFinal

-----------------------------------------------------------------------------
\* A step of the organizer as the reminders see it.
RemindersMove ==
  \/ \E a \in Actors : Begins(a)
  \/ \E a \in Actors : Proceeds(a)
  \/ TickReads \/ TickAsks
  \/ DeskReceives \/ DeskAdds \/ DeskRings \/ NotificationResult
  \/ Clock
  \/ online' = FALSE /\ RemindersDrop
  \/ ~online /\ online' = TRUE /\ UNCHANGED rvars
  \/ UNCHANGED <<online, rvars>>

LEMMA StepOfReminders == [OrganizerNext]_vars => RemindersMove
<1> SUFFICES ASSUME [OrganizerNext]_vars
             PROVE  RemindersMove
  OBVIOUS
<1>1. CASE Commands
  <2>1. CASE \E a \in Actors : Begins(a)
    BY <2>1 DEF RemindersMove
  <2>2. CASE UNCHANGED rvars /\ (StartMeeting \/ EndMeeting \/ Confirms("voice") \/ Confirms("hud") \/ EditionsCommand \/ EditionsPanel)
    <3>1. UNCHANGED online
      BY <2>2 DEF StartMeeting, EndMeeting, Confirms, EditionsCommand, EditionsPanel, Subscribes, SetsBriefing,
                  Rewrites, Unsubscribes, AsksEdition, AsksBriefing
    <3> QED
      BY <2>2, <3>1 DEF RemindersMove
  <2> QED
    BY <1>1, <2>1, <2>2 DEF Commands
<1>2. CASE Passes
  BY <1>2 DEF Passes, RemindersMove
<1>3. CASE RemindersTurn
  BY <1>3 DEF RemindersTurn, RemindersStep, Reminds, Delivers, RemindersMove
<1>4. CASE MeetingsTurn
  <2>1. UNCHANGED online
    BY <1>4 DEF MeetingsTurn, MeetingsStep, Gathers, Finishes, SummaryFails, Records, Stores,
                StoreFails, Makes, Marks, Closes
  <2> QED
    BY <1>4, <2>1 DEF MeetingsTurn, RemindersMove
<1>5. CASE EditionsTurn
  <2>1. UNCHANGED online
    BY <1>5 DEF EditionsTurn, EditionsDue, EditionDue, BriefingDue, EditionsStep, TurnEnds, RetryAgain, Writes,
                ReadsGoal, Plans, Researches, Saves, Briefs
  <2> QED
    BY <1>5, <2>1 DEF EditionsTurn, OthersOfEditions, RemindersMove
<1>6. CASE Drop
  BY <1>6 DEF Drop, RemindersMove
<1>7. CASE Connect
  BY <1>7 DEF Connect, RemindersMove
<1>8. CASE UNCHANGED vars
  BY <1>8 DEF vars, RemindersMove
<1> QED
  BY <1>1, <1>2, <1>3, <1>4, <1>5, <1>6, <1>7, <1>8 DEF OrganizerNext

\* The reminders are well typed.
Operations == {"none", "complete", "move", "archive", "remind", "create"}
Stations == {"none", "project", "task", "task_in", "reminder", "ask", "check", "write", "cancel"}
ActTyped == act \in [Actors -> [op : Operations, step : Stations, at : Nat]]
RemTyped ==
  rem \in [status : {"none", "pending", "cancelled", "delivered"}, at : Nat, note : {"pending", "scheduled", "failed"}]
TaskTyped == task \in [status : {"none", "open", "completed"}, project : BOOLEAN]
QueuesTyped ==
  /\ toDesk \in Seq(Nat) /\ adding \in Seq(Nat) /\ answers \in Seq(BOOLEAN)
  /\ desk \in Nat /\ now \in Nat /\ tick \in Nat
RemindersTypeOK ==
  /\ online \in BOOLEAN /\ sent \in BOOLEAN /\ project \in {"active", "archived"}
  /\ ActTyped /\ RemTyped /\ TaskTyped /\ QueuesTyped

LEMMA GoesTyped ==
  ASSUME ActTyped, NEW a \in Actors, NEW step \in Stations, Goes(a, step)
  PROVE  /\ ActTyped'
         /\ act'[a].op = act[a].op /\ act'[a].at = act[a].at /\ act'[a].step = step
         /\ \A b \in Actors : b # a => act'[b] = act[b]
BY DEF ActTyped, Goes

LEMMA EndsTyped ==
  ASSUME ActTyped, NEW a \in Actors, Ends(a)
  PROVE  /\ ActTyped'
         /\ act'[a] = Off
         /\ \A b \in Actors : b # a => act'[b] = act[b]
BY DEF ActTyped, Ends, Off, Operations, Stations

LEMMA SettledTyped ==
  ASSUME RemTyped
  PROVE  /\ Settled(rem) \in [status : {"none", "pending", "cancelled", "delivered"}, at : Nat,
                              note : {"pending", "scheduled", "failed"}]
         /\ Settled(rem).at = rem.at /\ Settled(rem).note = rem.note
         /\ Settled(rem).status = "pending" => rem.status = "pending"
         /\ Settled(rem).status = "none" <=> rem.status = "none"
         /\ rem.status # "pending" => Settled(rem) = rem
BY DEF RemTyped, Settled

\* What is sent is the last thing on its way.
LEMMA SentLast ==
  ASSUME NEW q \in Seq(Nat), NEW m \in Nat
  PROVE  /\ q \o <<m>> \in Seq(Nat) /\ q \o <<m>> # <<>>
         /\ (q \o <<m>>)[Len(q \o <<m>>)] = m
<1>1. <<m>> \in Seq(Nat) /\ Len(<<m>>) = 1 /\ <<m>>[1] = m
  OBVIOUS
<1>2. /\ q \o <<m>> \in Seq(Nat) /\ Len(q \o <<m>>) = Len(q) + Len(<<m>>)
      /\ \A i \in 1 .. Len(q) + Len(<<m>>) : (q \o <<m>>)[i] = IF i <= Len(q) THEN q[i] ELSE <<m>>[i - Len(q)]
  BY <1>1, ConcatProperties, Zenon
<1>3. Len(q) \in Nat
  BY LenProperties
<1>4. Len(q) + 1 \in 1 .. Len(q) + Len(<<m>>) /\ ~(Len(q) + 1 <= Len(q)) /\ Len(q) + 1 - Len(q) = 1
  BY <1>1, <1>3
<1>5. (q \o <<m>>)[Len(q) + 1] = m
  BY <1>1, <1>2, <1>4
<1>6. q \o <<m>> # <<>>
  BY <1>1, <1>2, <1>3, EmptySeq
<1> QED
  BY <1>1, <1>2, <1>5, <1>6

LEMMA AnsweredLast ==
  ASSUME NEW q \in Seq(BOOLEAN), NEW ok \in BOOLEAN
  PROVE  Append(q, ok) # <<>> /\ Append(q, ok)[Len(Append(q, ok))] = ok
<1>1. /\ Append(q, ok) # <<>>
      /\ Len(Append(q, ok)) = Len(q) + 1
      /\ Append(q, ok)[Len(q) + 1] = ok
  BY AppendProperties
<1> QED
  BY <1>1

\* The same for taking the first: the last stays the last.
LEMMA TailLast ==
  ASSUME NEW S, NEW q \in Seq(S), q # <<>>
  PROVE  /\ Tail(q) \in Seq(S) /\ Head(q) \in S
         /\ Tail(q) # <<>> => Tail(q)[Len(Tail(q))] = q[Len(q)]
         /\ Tail(q) = <<>> => Head(q) = q[Len(q)]
<1>1. Len(q) \in Nat \ {0} /\ DOMAIN q = 1 .. Len(q)
  BY EmptySeq, LenProperties
<1>2. /\ Tail(q) \in Seq(S) /\ Head(q) \in S /\ Head(q) = q[1]
      /\ Len(Tail(q)) = Len(q) - 1
      /\ \A i \in 1 .. Len(Tail(q)) : Tail(q)[i] = q[i + 1]
  BY HeadTailProperties
<1>3. Tail(q) = <<>> <=> Len(Tail(q)) = 0
  BY <1>2, EmptySeq
<1> QED
  BY <1>1, <1>2, <1>3

LEMMA RemindersTypeStep == RemindersTypeOK /\ [OrganizerNext]_vars => RemindersTypeOK'
<1> SUFFICES ASSUME RemindersTypeOK, RemindersMove
             PROVE  RemindersTypeOK'
  BY StepOfReminders
<1> USE DEF RemindersTypeOK
<1>1. ASSUME NEW a \in Actors, Begins(a)
      PROVE  RemindersTypeOK'
  <2>1. PICK op \in Ops(a), at \in Times : act' = [act EXCEPT ![a] = [op |-> op, step |-> FirstStep(op), at |-> at]]
    BY <1>1 DEF Begins
  <2>2. op \in Operations /\ FirstStep(op) \in Stations /\ at \in Nat
    BY <2>1 DEF Ops, Operations, FirstStep, Stations, Times, Actors
  <2>3. ActTyped'
    BY <2>1, <2>2 DEF ActTyped
  <2> QED
    BY <1>1, <2>3 DEF Begins, RemTyped, TaskTyped, QueuesTyped
<1>2. ASSUME NEW a \in Actors, CreatesProject(a)
      PROVE  RemindersTypeOK'
  BY <1>2, GoesTyped DEF CreatesProject, RemTyped, TaskTyped, QueuesTyped, Stations
<1>3. ASSUME NEW a \in Actors, CreatesTask(a)
      PROVE  RemindersTypeOK'
  <2>1. ActTyped'
    BY <1>3, GoesTyped, EndsTyped DEF CreatesTask, Stations
  <2>2. TaskTyped'
    BY <1>3 DEF CreatesTask, TaskTyped
  <2> QED
    BY <1>3, <2>1, <2>2 DEF CreatesTask, RemTyped, QueuesTyped
<1>4. ASSUME NEW a \in Actors, CreatesReminder(a)
      PROVE  RemindersTypeOK'
  <2>1. ActTyped'
    BY <1>4, GoesTyped DEF CreatesReminder, Stations
  <2>2. RemTyped'
    BY <1>4 DEF CreatesReminder, RemTyped, ActTyped
  <2> QED
    BY <1>4, <2>1, <2>2 DEF CreatesReminder, TaskTyped, QueuesTyped
<1>5. ASSUME NEW m \in Nat, Sends(<<m>>)
      PROVE  toDesk' \in Seq(Nat)
  BY <1>5, SentLast DEF Sends, QueuesTyped
<1>6. ASSUME NEW a \in Actors, Asks(a)
      PROVE  RemindersTypeOK'
  <2>1. ActTyped'
    BY <1>6, EndsTyped DEF Asks
  <2>2. RemTyped'
    BY <1>6, SettledTyped DEF Asks, RemTyped
  <2>3. toDesk' \in Seq(Nat) /\ sent' \in BOOLEAN
    <3>1. act[a].at \in Nat /\ rem'.at \in Nat
      BY <2>2 DEF ActTyped, RemTyped
    <3> QED
      BY <1>5, <1>6, <3>1 DEF Asks, Request, QueuesTyped
  <2> QED
    BY <1>6, <2>1, <2>2, <2>3 DEF Asks, TaskTyped, QueuesTyped
<1>7. ASSUME NEW a \in Actors, Completes(a)
      PROVE  RemindersTypeOK'
  <2>1. ActTyped'
    BY <1>7, GoesTyped, EndsTyped DEF Completes, Stations
  <2>2. TaskTyped'
    BY <1>7 DEF Completes, TaskTyped
  <2>3. RemTyped'
    BY <1>7 DEF Completes, RemTyped
  <2> QED
    BY <1>7, <2>1, <2>2, <2>3 DEF Completes, QueuesTyped
<1>8. ASSUME NEW a \in Actors, Withdraws(a)
      PROVE  RemindersTypeOK'
  BY <1>5, <1>8, EndsTyped DEF Withdraws, RemTyped, TaskTyped, QueuesTyped
<1>9. ASSUME NEW a \in Actors, ChecksMove(a)
      PROVE  RemindersTypeOK'
  BY <1>9, GoesTyped, EndsTyped DEF ChecksMove, RemTyped, TaskTyped, QueuesTyped, Stations
<1>10. ASSUME NEW a \in Actors, Moves(a)
       PROVE  RemindersTypeOK'
  <2>1. ActTyped'
    BY <1>10, GoesTyped DEF Moves, Stations
  <2>2. RemTyped'
    BY <1>10 DEF Moves, RemTyped, ActTyped
  <2> QED
    BY <1>10, <2>1, <2>2 DEF Moves, TaskTyped, QueuesTyped
<1>11. ASSUME NEW a \in Actors, WithdrawsOld(a)
       PROVE  RemindersTypeOK'
  BY <1>5, <1>11, GoesTyped DEF WithdrawsOld, RemTyped, TaskTyped, QueuesTyped, Stations
<1>12. ASSUME NEW a \in Actors, Archives(a)
       PROVE  RemindersTypeOK'
  <2>1. TaskTyped'
    BY <1>12 DEF Archives, TaskTyped
  <2> QED
    BY <1>12, <2>1, EndsTyped DEF Archives, RemTyped, QueuesTyped
<1>13. CASE TickReads
  <2>1. RemTyped' /\ tick' \in Nat
    BY <1>13, SettledTyped DEF TickReads, RemTyped
  <2> QED
    BY <1>13, <2>1 DEF TickReads, ActTyped, TaskTyped, QueuesTyped
<1>14. CASE TickAsks
  <2>1. toDesk' \in Seq(Nat) /\ sent' \in BOOLEAN
    BY <1>5, <1>14 DEF TickAsks, Request, QueuesTyped
  <2> QED
    BY <1>14, <2>1 DEF TickAsks, ActTyped, RemTyped, TaskTyped, QueuesTyped
<1>15. CASE DeskReceives
  <2>1. Tail(toDesk) \in Seq(Nat) /\ Head(toDesk) \in Nat
    BY <1>15, TailLast DEF DeskReceives, QueuesTyped
  <2>2. Append(adding, Head(toDesk)) \in Seq(Nat) /\ Append(answers, FALSE) \in Seq(BOOLEAN)
    BY <2>1, AppendProperties DEF QueuesTyped
  <2>3. QueuesTyped'
    <3>1. CASE Head(toDesk) = 0
      BY <1>15, <2>1, <3>1 DEF DeskReceives, QueuesTyped
    <3>2. CASE Head(toDesk) # 0 /\ Head(toDesk) < now
      BY <1>15, <2>1, <2>2, <3>2 DEF DeskReceives, QueuesTyped
    <3>3. CASE Head(toDesk) # 0 /\ ~(Head(toDesk) < now)
      BY <1>15, <2>1, <2>2, <3>3 DEF DeskReceives, QueuesTyped
    <3> QED
      BY <3>1, <3>2, <3>3
  <2> QED
    BY <1>15, <2>3 DEF DeskReceives, ActTyped, RemTyped, TaskTyped
<1>16. CASE DeskAdds
  <2>1. Tail(adding) \in Seq(Nat) /\ Head(adding) \in Nat
    BY <1>16, TailLast DEF DeskAdds, QueuesTyped
  <2>2. PICK ok \in {TRUE} \cup {"denied" \notin RemindersEnv} :
          /\ desk' = IF ok THEN Head(adding) ELSE desk
          /\ answers' = IF online THEN Append(answers, ok) ELSE answers
    BY <1>16 DEF DeskAdds
  <2>3. ok \in BOOLEAN
    BY <2>2
  <2>4. Append(answers, ok) \in Seq(BOOLEAN)
    BY <2>3, AppendProperties DEF QueuesTyped
  <2>5. QueuesTyped'
    BY <1>16, <2>1, <2>2, <2>4 DEF DeskAdds, QueuesTyped
  <2> QED
    BY <1>16, <2>5 DEF DeskAdds, ActTyped, RemTyped, TaskTyped
<1>17. CASE DeskRings
  BY <1>17 DEF DeskRings, ActTyped, RemTyped, TaskTyped, QueuesTyped
<1>18. CASE NotificationResult
  <2>1. Tail(answers) \in Seq(BOOLEAN)
    BY <1>18, TailLast DEF NotificationResult, QueuesTyped
  <2>2. RemTyped'
    BY <1>18 DEF NotificationResult, RemTyped
  <2> QED
    BY <1>18, <2>1, <2>2 DEF NotificationResult, ActTyped, TaskTyped, QueuesTyped
<1>19. CASE Clock
  BY <1>19 DEF Clock, ActTyped, RemTyped, TaskTyped, QueuesTyped
<1>20. CASE online' = FALSE /\ RemindersDrop
  <2>1. ActTyped'
    BY <1>20 DEF RemindersDrop, ActTyped, Off, Operations, Stations
  <2>2. QueuesTyped'
    <3>1. <<>> \in Seq(Nat) /\ <<>> \in Seq(BOOLEAN)
      OBVIOUS
    <3> QED
      BY <1>20, <3>1 DEF RemindersDrop, QueuesTyped
  <2>3. RemTyped' /\ TaskTyped' /\ project' = project
    BY <1>20 DEF RemindersDrop, RemTyped, TaskTyped
  <2>4. online' \in BOOLEAN /\ sent' \in BOOLEAN
    BY <1>20 DEF RemindersDrop
  <2> QED
    BY <2>1, <2>2, <2>3, <2>4
<1>21. CASE UNCHANGED rvars /\ (online' = TRUE \/ UNCHANGED online)
  BY <1>21 DEF rvars, ActTyped, RemTyped, TaskTyped, QueuesTyped
<1>22. \A a \in Actors : Proceeds(a) => Command(a)
  BY DEF Proceeds
<1> QED
  BY <1>1, <1>2, <1>3, <1>4, <1>6, <1>7, <1>8, <1>9, <1>10, <1>11, <1>12, <1>13, <1>14, <1>15, <1>16, <1>17, <1>18,
     <1>19, <1>20, <1>21, <1>22 DEF RemindersMove, Command

-----------------------------------------------------------------------------
\* The one reminder: while the task is not there, neither is it; before it is
\* there, nothing was asked for it and no command is past its first look; while
\* it is being made, nobody moves it, and two never move it at once; one whose
\* notification is withdrawn is cancelled.
Mover(a) == act[a].op = "move"
OneReminder ==
  /\ task.status = "none" => rem.status = "none" /\ \A a \in Actors : ~Mover(a)
  /\ rem.status = "none" =>
       /\ ~sent /\ tick = 0
       /\ \A a \in Actors : act[a].op \in Timed => act[a].step \notin {"write", "cancel", "ask"}
  /\ act["voice"].op = "remind" =>
       /\ \A a \in Actors : ~Mover(a)
       /\ act["voice"].step # "ask" => rem.status = "none"
       /\ act["voice"].step \in {"reminder", "ask"} => task.status # "none"
  /\ act["hud"].op \notin Made /\ act["tool"].op \notin Made /\ ~Mover("voice")
  /\ \A a \in Actors : act[a].op = "complete" /\ act[a].step = "cancel" => rem.status = "cancelled"
  /\ \A a, b \in Actors : Mover(a) /\ Mover(b) => a = b

\* Who is about to ask the desktop has the time the row has.
OwnTime ==
  /\ \A a \in Actors :
       /\ Mover(a) /\ act[a].step \in {"cancel", "ask"} => act[a].at = rem.at
       /\ act[a].op = "remind" /\ act[a].step = "ask" => act[a].at = rem.at
  /\ tick # 0 => tick = rem.at /\ ~sent

Disconnected == ~online => ~sent /\ tick = 0 /\ \A a \in Actors : a # "tool" => act[a] = Off

\* The last word the desktop hears of the reminder, wherever it is on its way, is
\* the reminder's own time; and the last answer is the answer to it.
Final(q) == q[Len(q)]
LastWord ==
  /\ toDesk # <<>> => Final(toDesk) = rem.at
  /\ toDesk = <<>> /\ adding # <<>> => Final(adding) = rem.at
  /\ toDesk = <<>> /\ adding = <<>> /\ answers # <<>> /\ Final(answers) = TRUE => desk = rem.at
  /\ toDesk = <<>> /\ adding = <<>> /\ answers = <<>> /\ rem.note = "scheduled" => desk = rem.at
\* Not while a move has changed the row and not yet withdrawn the old request.
Settles ==
  /\ sent /\ rem.status = "pending" /\ rem.at > now
  /\ \A a \in Actors : ~(Mover(a) /\ act[a].step = "cancel")
LastWordIsOwn == Settles => LastWord

RemindersInv == RemindersTypeOK /\ OneReminder /\ OwnTime /\ Disconnected /\ LastWordIsOwn

OneAtATime == "late_tick" \notin RemindersEnv /\ "both_move" \notin RemindersEnv

LEMMA OneReminderStep ==
  ASSUME OneAtATime
  PROVE  RemindersTypeOK /\ OneReminder /\ OwnTime /\ [OrganizerNext]_vars => OneReminder'
<1> SUFFICES ASSUME RemindersTypeOK, OneReminder, OwnTime, RemindersMove
             PROVE  OneReminder'
  BY StepOfReminders
<1> USE DEF Timed, Made, Mover
<1>0. /\ ActTyped /\ RemTyped /\ TaskTyped /\ QueuesTyped /\ "voice" \in Actors /\ "hud" \in Actors /\ "tool" \in Actors
      /\ \A a \in Actors : a = "voice" \/ a = "hud" \/ a = "tool"
  BY DEF RemindersTypeOK, Actors
<1>1. ASSUME NEW a \in Actors, Begins(a)
      PROVE  OneReminder'
  <2>1. PICK op \in Ops(a), at \in Times :
          /\ op # "archive" => (op \in Made) = (task.status = "none")
          /\ op = "move" => \A b \in Actors : act[b].op # "move"
          /\ (a # "voice" /\ op # "archive") => task.status # "none" /\ act["voice"].op \notin Made
          /\ act' = [act EXCEPT ![a] = [op |-> op, step |-> FirstStep(op), at |-> at]]
    BY <1>1 DEF Begins, OneAtATime
  <2>2. /\ act'[a].op = op /\ act'[a].step = FirstStep(op)
        /\ \A b \in Actors : b # a => act'[b] = act[b]
    BY <1>0, <2>1 DEF ActTyped
  <2>3. /\ FirstStep(op) \in {"project", "task", "check", "write"}
        /\ op \in Timed => FirstStep(op) \in {"task", "check"}
    BY <2>1 DEF FirstStep, Ops, Actors
  <2>4. /\ a = "voice" => op \in {"remind", "create", "complete"}
        /\ a # "voice" => op \in {"complete", "move", "archive"}
    BY <1>0, <2>1 DEF Ops
  <2>5. UNCHANGED <<task, rem, sent, tick>>
    BY <1>1 DEF Begins
  <2>6. /\ op = "remind" => task.status = "none" /\ a = "voice"
        /\ op = "move" => task.status # "none" /\ a # "voice" /\ act["voice"].op \notin Made
        /\ op = "create" => a = "voice"
    BY <2>1, <2>4
  <2> QED
    BY <1>0, <2>1, <2>2, <2>3, <2>5, <2>6 DEF OneReminder
<1>2. ASSUME NEW a \in Actors, CreatesProject(a)
      PROVE  OneReminder'
  BY <1>0, <1>2, GoesTyped DEF CreatesProject, At, OneReminder, Stations
<1>3. ASSUME NEW a \in Actors, CreatesTask(a)
      PROVE  OneReminder'
  <2>1. task'.status = "open"
    BY <1>3 DEF CreatesTask
  <2> QED
    BY <1>0, <1>3, <2>1, GoesTyped, EndsTyped DEF CreatesTask, OneReminder, Stations, Off
<1>4. ASSUME NEW a \in Actors, CreatesReminder(a)
      PROVE  OneReminder'
  <2>1. rem'.status = "pending" /\ rem.status = "none" /\ a = "voice"
    BY <1>0, <1>4 DEF CreatesReminder, At, OneReminder
  <2> QED
    BY <1>0, <1>4, <2>1, GoesTyped DEF CreatesReminder, At, OneReminder, Stations
<1>5. ASSUME NEW a \in Actors, Asks(a)
      PROVE  OneReminder'
  <2>1. /\ rem.status # "none" /\ rem'.status # "none"
        /\ rem.status = "cancelled" => rem'.status = "cancelled"
    BY <1>0, <1>5, SettledTyped DEF Asks, OneReminder
  <2> QED
    BY <1>0, <1>5, <2>1, EndsTyped DEF Asks, OneReminder, Off
<1>6. ASSUME NEW a \in Actors, Completes(a)
      PROVE  OneReminder'
  <2>1. (task'.status = "none" <=> task.status = "none") /\ (rem'.status = "none" <=> rem.status = "none")
    BY <1>0, <1>6 DEF Completes, TaskTyped, RemTyped
  <2> QED
    BY <1>0, <1>6, <2>1, GoesTyped, EndsTyped DEF Completes, At, OneReminder, Stations, Off
<1>7. ASSUME NEW a \in Actors, Withdraws(a)
      PROVE  OneReminder'
  BY <1>0, <1>7, EndsTyped DEF Withdraws, OneReminder, Off
<1>8. ASSUME NEW a \in Actors, ChecksMove(a)
      PROVE  OneReminder'
  BY <1>0, <1>8, GoesTyped, EndsTyped DEF ChecksMove, At, OneReminder, Stations, Off
<1>9. ASSUME NEW a \in Actors, Moves(a)
      PROVE  OneReminder'
  <2>1. rem'.status = rem.status
    BY <1>0, <1>9 DEF Moves, RemTyped
  <2> QED
    BY <1>0, <1>9, <2>1, GoesTyped DEF Moves, At, OneReminder, Stations
<1>10. ASSUME NEW a \in Actors, WithdrawsOld(a)
       PROVE  OneReminder'
  BY <1>0, <1>10, GoesTyped DEF WithdrawsOld, At, OneReminder, Stations
<1>11. ASSUME NEW a \in Actors, Archives(a)
       PROVE  OneReminder'
  <2>1. task'.status = task.status
    BY <1>0, <1>11 DEF Archives, TaskTyped
  <2> QED
    BY <1>0, <1>11, <2>1, EndsTyped DEF Archives, At, OneReminder, Off
<1>12. CASE TickReads
  <2>1. /\ rem'.status = "none" <=> rem.status = "none"
        /\ rem.status = "cancelled" => rem'.status = "cancelled"
    BY <1>0, <1>12, SettledTyped DEF TickReads
  <2>2. rem'.status = "none" => tick' = 0
    BY <1>12 DEF TickReads
  <2> QED
    BY <1>0, <1>12, <2>1, <2>2 DEF TickReads, OneReminder
<1>13. CASE TickAsks
  <2>1. rem.status # "none"
    BY <1>13 DEF TickAsks, OneReminder
  <2> QED
    BY <1>0, <1>13, <2>1 DEF TickAsks, OneReminder
<1>14. CASE NotificationResult
  <2>1. rem'.status = rem.status
    BY <1>0, <1>14 DEF NotificationResult, RemTyped
  <2> QED
    BY <1>0, <1>14, <2>1 DEF NotificationResult, OneReminder
<1>15. CASE RemindersDrop
  <2>1. \A a \in Actors : act'[a] = Off \/ act'[a] = act[a]
    BY <1>15 DEF RemindersDrop
  <2> QED
    BY <1>0, <1>15, <2>1 DEF RemindersDrop, OneReminder, Off
<1>16. CASE UNCHANGED <<task, rem, act, sent, tick>>
  BY <1>16 DEF OneReminder
<1>17. /\ DeskReceives \/ DeskAdds \/ DeskRings \/ Clock \/ UNCHANGED rvars => UNCHANGED <<task, rem, act, sent, tick>>
       /\ \A a \in Actors : Proceeds(a) => Command(a)
  BY DEF DeskReceives, DeskAdds, DeskRings, Clock, rvars, Proceeds
<1> QED
  BY <1>1, <1>2, <1>3, <1>4, <1>5, <1>6, <1>7, <1>8, <1>9, <1>10, <1>11, <1>12, <1>13, <1>14, <1>15, <1>16, <1>17
     DEF RemindersMove, Command

\* What a command's step does to the actors and to the row.
LEMMA StepOfCommand ==
  ASSUME OneAtATime, RemindersTypeOK, NEW a \in Actors, Proceeds(a)
  PROVE  /\ tick = 0 /\ tick' = 0 /\ Command(a)
         /\ \A b \in Actors : b # a => act'[b] = act[b]
         /\ act'[a] = Off \/ (act'[a].op = act[a].op /\ act'[a].at = act[a].at)
<1>1. tick = 0 /\ Command(a)
  BY DEF Proceeds, OneAtATime
<1>2. tick' = tick
  BY <1>1 DEF Command, CreatesProject, CreatesTask, CreatesReminder, Asks, Completes, Withdraws, ChecksMove, Moves,
              WithdrawsOld, Archives
<1>3. Ends(a) \/ \E step \in Stations : Goes(a, step)
  BY <1>1 DEF Command, CreatesProject, CreatesTask, CreatesReminder, Asks, Completes, Withdraws, ChecksMove, Moves,
              WithdrawsOld, Archives, Stations
<1> QED
  BY <1>1, <1>2, <1>3, GoesTyped, EndsTyped DEF RemindersTypeOK

LEMMA OwnTimeStep ==
  ASSUME OneAtATime
  PROVE  RemindersTypeOK /\ OneReminder /\ OwnTime /\ [OrganizerNext]_vars => OwnTime'
<1> SUFFICES ASSUME RemindersTypeOK, OneReminder, OwnTime, RemindersMove
             PROVE  OwnTime'
  BY StepOfReminders
<1> USE DEF Timed, Made, Mover
<1>0. /\ ActTyped /\ RemTyped /\ "voice" \in Actors
      /\ \A a \in Actors : a = "voice" \/ a = "hud" \/ a = "tool"
  BY DEF RemindersTypeOK, Actors
<1>1. ASSUME NEW a \in Actors, Begins(a)
      PROVE  OwnTime'
  <2>1. PICK op \in Ops(a), at \in Times : act' = [act EXCEPT ![a] = [op |-> op, step |-> FirstStep(op), at |-> at]]
    BY <1>1 DEF Begins
  <2>2. /\ act'[a].op = op /\ act'[a].step = FirstStep(op)
        /\ \A b \in Actors : b # a => act'[b] = act[b]
    BY <1>0, <2>1 DEF ActTyped
  <2>3. op \in {"move", "remind"} => FirstStep(op) \notin {"cancel", "ask"}
    BY DEF FirstStep
  <2>4. UNCHANGED <<rem, sent, tick>>
    BY <1>1 DEF Begins
  <2> QED
    BY <2>2, <2>3, <2>4 DEF OwnTime
<1>2. ASSUME NEW a \in Actors, Ends(a), rem'.at = rem.at, tick' = 0
      PROVE  OwnTime'
  <2>1. act'[a] = Off /\ \A b \in Actors : b # a => act'[b] = act[b]
    BY <1>0, <1>2, EndsTyped
  <2> QED
    BY <1>2, <2>1 DEF OwnTime, Off
<1>3. ASSUME NEW a \in Actors, NEW step \in Stations, Goes(a, step), rem'.at = rem.at, tick' = 0,
             act[a].op = "remind" => step # "ask",
             Mover(a) /\ step \in {"cancel", "ask"} => act[a].step \in {"cancel", "ask"}
      PROVE  OwnTime'
  <2>1. /\ act'[a].op = act[a].op /\ act'[a].at = act[a].at /\ act'[a].step = step
        /\ \A b \in Actors : b # a => act'[b] = act[b]
    BY <1>0, <1>3, GoesTyped
  <2> QED
    BY <1>3, <2>1 DEF OwnTime
<1>4. ASSUME NEW a \in Actors, Proceeds(a)
      PROVE  OwnTime'
  <2>0. tick = 0 /\ tick' = 0 /\ Command(a)
    BY <1>4, StepOfCommand
  <2>1. CASE CreatesProject(a)
    BY <1>3, <2>0, <2>1 DEF CreatesProject, At, Stations
  <2>2. CASE CreatesTask(a)
    BY <1>2, <1>3, <2>0, <2>2 DEF CreatesTask, Stations
  <2>3. CASE CreatesReminder(a)
    <3>1. rem'.at = act[a].at /\ Goes(a, "ask") /\ a = "voice" /\ act[a].op = "remind"
      BY <1>0, <2>3 DEF CreatesReminder, At, OneReminder
    <3>2. \A b \in Actors : ~Mover(b)
      BY <1>0, <3>1 DEF OneReminder
    <3>3. \A b \in Actors : b # a => act[b].op # "remind"
      BY <1>0, <3>1 DEF OneReminder
    <3>4. /\ act'[a].op = act[a].op /\ act'[a].at = act[a].at
          /\ \A b \in Actors : b # a => act'[b] = act[b]
      BY <1>0, <3>1, GoesTyped DEF Stations
    <3> QED
      BY <2>0, <3>1, <3>2, <3>3, <3>4 DEF OwnTime
  <2>4. CASE Asks(a)
    <3>1. rem'.at = rem.at
      BY <1>0, <2>4, SettledTyped DEF Asks
    <3> QED
      BY <1>2, <2>0, <2>4, <3>1 DEF Asks
  <2>5. CASE Completes(a)
    <3>1. rem'.at = rem.at
      BY <1>0, <2>5 DEF Completes, RemTyped
    <3> QED
      BY <1>2, <1>3, <2>0, <2>5, <3>1 DEF Completes, At, Stations
  <2>6. CASE Withdraws(a)
    BY <1>2, <2>0, <2>6 DEF Withdraws
  <2>7. CASE ChecksMove(a)
    BY <1>2, <1>3, <2>0, <2>7 DEF ChecksMove, At, Stations
  <2>8. CASE Moves(a)
    <3>1. rem'.at = act[a].at /\ Goes(a, "cancel") /\ Mover(a)
      BY <1>0, <2>8 DEF Moves, At, RemTyped
    <3>2. \A b \in Actors : b # a => ~Mover(b)
      BY <3>1 DEF OneReminder
    <3>3. \A b \in Actors : act[b].op # "remind"
      BY <1>0, <3>1 DEF OneReminder
    <3>4. /\ act'[a].op = act[a].op /\ act'[a].at = act[a].at
          /\ \A b \in Actors : b # a => act'[b] = act[b]
      BY <1>0, <3>1, GoesTyped DEF Stations
    <3> QED
      BY <2>0, <3>1, <3>2, <3>3, <3>4 DEF OwnTime
  <2>9. CASE WithdrawsOld(a)
    BY <1>3, <2>0, <2>9 DEF WithdrawsOld, At, Stations
  <2>10. CASE Archives(a)
    BY <1>2, <2>0, <2>10 DEF Archives
  <2> QED
    BY <2>0, <2>1, <2>2, <2>3, <2>4, <2>5, <2>6, <2>7, <2>8, <2>9, <2>10 DEF Command
<1>5. CASE TickReads
  <2>1. rem'.at = rem.at /\ act' = act /\ sent' = sent
    BY <1>0, <1>5, SettledTyped DEF TickReads
  <2>2. tick' # 0 => tick' = rem'.at /\ ~sent'
    BY <1>5, <2>1 DEF TickReads, OneAtATime
  <2> QED
    BY <2>1, <2>2 DEF OwnTime
<1>6. CASE TickAsks
  BY <1>6 DEF TickAsks, OwnTime
<1>7. CASE NotificationResult
  <2>1. rem'.at = rem.at
    BY <1>0, <1>7 DEF NotificationResult, RemTyped
  <2> QED
    BY <1>7, <2>1 DEF NotificationResult, OwnTime
<1>8. CASE RemindersDrop
  <2>1. \A a \in Actors : act'[a] = Off \/ act'[a] = act[a]
    BY <1>8 DEF RemindersDrop
  <2>2. tick' = 0 /\ rem' = rem
    BY <1>8 DEF RemindersDrop
  <2> QED
    BY <2>1, <2>2 DEF OwnTime, Off
<1>9. CASE UNCHANGED <<rem, act, sent, tick>>
  BY <1>9 DEF OwnTime
<1>10. DeskReceives \/ DeskAdds \/ DeskRings \/ Clock \/ UNCHANGED rvars => UNCHANGED <<rem, act, sent, tick>>
  BY DEF DeskReceives, DeskAdds, DeskRings, Clock, rvars
<1> QED
  BY <1>1, <1>4, <1>5, <1>6, <1>7, <1>8, <1>9, <1>10 DEF RemindersMove

LEMMA DisconnectedStep ==
  ASSUME OneAtATime
  PROVE  RemindersTypeOK /\ OwnTime /\ Disconnected /\ [OrganizerNext]_vars => Disconnected'
<1> SUFFICES ASSUME RemindersTypeOK, OwnTime, Disconnected, RemindersMove
             PROVE  Disconnected'
  BY StepOfReminders
<1>1. ASSUME NEW a \in Actors, Begins(a)
      PROVE  Disconnected'
  BY <1>1 DEF Begins, Disconnected, RemindersTypeOK, ActTyped
<1>2. ASSUME NEW a \in Actors, Proceeds(a)
      PROVE  Disconnected'
  <2>1. Command(a) /\ \A b \in Actors : b # a => act'[b] = act[b]
    BY <1>2, StepOfCommand
  <2>0. tick' = 0
    BY <1>2, StepOfCommand
  <2>2. online' = online
    BY <2>1 DEF Command, CreatesProject, CreatesTask, CreatesReminder, Asks, Completes, Withdraws, ChecksMove, Moves,
                WithdrawsOld, Archives
  <2>3. CASE ~online
    <3>1. a = "tool"
      <4>1. act[a].op # "none"
        BY <2>1 DEF Command, CreatesProject, CreatesTask, CreatesReminder, Asks, Completes, Withdraws, ChecksMove, Moves,
                    WithdrawsOld, Archives, At, Made, Timed
      <4> QED
        BY <2>3, <4>1 DEF Disconnected, Off
    <3>2. sent' = sent \/ sent' = FALSE
      BY <2>1, <2>3, <3>1 DEF Command, CreatesProject, CreatesTask, CreatesReminder, Asks, Completes, Withdraws, ChecksMove,
                              Moves, WithdrawsOld, Archives
    <3> QED
      BY <2>0, <2>1, <2>2, <2>3, <3>1, <3>2 DEF Disconnected
  <2> QED
    BY <2>2, <2>3 DEF Disconnected
<1>3. CASE TickReads \/ NotificationResult
  BY <1>3 DEF TickReads, NotificationResult, Disconnected
<1>4. CASE RemindersDrop
  BY <1>4 DEF RemindersDrop, Disconnected
<1>5. CASE TickAsks
  BY <1>5 DEF TickAsks, Disconnected, Request
<1>6. CASE DeskReceives \/ DeskAdds \/ DeskRings \/ Clock
  BY <1>6 DEF DeskReceives, DeskAdds, DeskRings, Clock, Disconnected
<1>7. CASE UNCHANGED rvars /\ (online' = TRUE \/ UNCHANGED online)
  BY <1>7 DEF rvars, Disconnected
<1> QED
  BY <1>1, <1>2, <1>3, <1>4, <1>5, <1>6, <1>7 DEF RemindersMove

LEMMA LastWordStep ==
  ASSUME OneAtATime
  PROVE  RemindersInv /\ [OrganizerNext]_vars => LastWordIsOwn'
<1> SUFFICES ASSUME RemindersInv, RemindersMove
             PROVE  LastWordIsOwn'
  BY StepOfReminders
<1> USE DEF Mover
<1>0. /\ RemindersTypeOK /\ ActTyped /\ RemTyped /\ QueuesTyped /\ OneReminder /\ OwnTime /\ Disconnected /\ LastWordIsOwn
      /\ "voice" \in Actors /\ \A a \in Actors : a = "voice" \/ a = "hud" \/ a = "tool"
      /\ rem.at \in Nat /\ now \in Nat
  BY DEF RemindersInv, RemindersTypeOK, Actors, RemTyped, QueuesTyped
\* Steps that leave the queues, and steps that ask for the reminder.
<1>1. CASE UNCHANGED <<toDesk, adding, desk, answers>> /\ rem'.at = rem.at /\ rem'.note = rem.note /\ (Settles' => Settles)
  BY <1>0, <1>1 DEF LastWordIsOwn, LastWord, Final
<1>2. ASSUME toDesk' = toDesk \o <<rem'.at>>, rem'.at \in Nat
      PROVE  LastWordIsOwn'
  BY <1>0, <1>2, SentLast DEF LastWordIsOwn, LastWord, Final, QueuesTyped
<1>3. CASE ~Settles'
  BY <1>3 DEF LastWordIsOwn
<1>4. ASSUME NEW a \in Actors, Begins(a)
      PROVE  LastWordIsOwn'
  <2>1. act[a] = Off /\ (\A b \in Actors : b # a => act'[b] = act[b]) /\ UNCHANGED <<rem, sent, now, toDesk, adding, desk, answers>>
    BY <1>0, <1>4 DEF Begins, ActTyped
  <2>2. Settles' => Settles
    BY <2>1 DEF Settles, Off
  <2> QED
    BY <1>1, <2>1, <2>2
<1>5. ASSUME NEW a \in Actors, Proceeds(a), act[a].op = "move" => act[a].step # "cancel",
             sent' => sent, now' = now, rem'.at = rem.at, rem'.note = rem.note, rem'.status = "pending" => rem.status = "pending"
      PROVE  Settles' => Settles
  <2>1. \A b \in Actors : b # a => act'[b] = act[b]
    BY <1>0, <1>5, StepOfCommand
  <2> QED
    BY <1>5, <2>1 DEF Settles
<1>6. ASSUME NEW a \in Actors, Proceeds(a)
      PROVE  LastWordIsOwn'
  <2>0. Command(a)
    BY <1>6 DEF Proceeds
  <2>1. CASE CreatesProject(a)
    BY <1>1, <1>5, <1>6, <2>1 DEF CreatesProject, At
  <2>2. CASE CreatesTask(a)
    BY <1>1, <1>5, <1>6, <2>2 DEF CreatesTask
  <2>3. CASE CreatesReminder(a)
    <3>1. ~sent
      BY <1>0, <2>3 DEF CreatesReminder, At, OneReminder, Made
    <3>2. sent' = sent
      BY <2>3 DEF CreatesReminder
    <3> QED
      BY <1>3, <3>1, <3>2 DEF Settles
  <2>4. CASE Asks(a)
    <3>0. act[a].op \in Timed /\ act[a].step = "ask" /\ act[a].at = rem.at
      BY <1>0, <2>4 DEF Asks, OwnTime, Timed
    <3>1. CASE a # "tool"
      <4>1. online
        BY <1>0, <3>0, <3>1 DEF Disconnected, Off
      <4>2. rem' = rem /\ toDesk' = toDesk \o <<act[a].at>>
        BY <2>4, <3>1, <4>1 DEF Asks, Request, Sends
      <4> QED
        BY <1>0, <1>2, <3>0, <4>2
    <3>2. CASE a = "tool"
      <4>1. rem' = Settled(rem) /\ rem'.at = rem.at /\ rem'.note = rem.note /\ (rem'.status = "pending" => rem.status = "pending")
        BY <1>0, <2>4, <3>2, SettledTyped DEF Asks
      <4>2. CASE sent' = sent /\ toDesk' = toDesk
        <5>1. UNCHANGED <<now, adding, desk, answers>>
          BY <2>4 DEF Asks
        <5> QED
          BY <1>1, <1>5, <1>6, <3>0, <4>1, <4>2, <5>1
      <4>3. CASE online /\ Request(rem'.at)
        <5>1. toDesk' = toDesk \o <<rem'.at>>
          BY <4>3 DEF Request, Sends
        <5> QED
          BY <1>0, <1>2, <4>1, <5>1
      <4> QED
        BY <2>4, <3>2, <4>2, <4>3 DEF Asks
    <3> QED
      BY <3>1, <3>2
  <2>5. CASE Completes(a)
    <3>1. rem'.status = "pending" => rem' = rem
      BY <1>0, <2>5 DEF Completes, RemTyped
    <3>2. CASE rem'.status = "pending"
      BY <1>1, <1>5, <1>6, <2>5, <3>1, <3>2 DEF Completes, At
    <3>3. CASE rem'.status # "pending"
      BY <1>3, <3>3 DEF Settles
    <3> QED
      BY <3>2, <3>3
  <2>6. CASE Withdraws(a)
    <3>1. rem.status = "cancelled" /\ rem' = rem
      BY <1>0, <2>6 DEF Withdraws, At, OneReminder
    <3> QED
      BY <1>3, <3>1 DEF Settles
  <2>7. CASE ChecksMove(a)
    BY <1>1, <1>5, <1>6, <2>7 DEF ChecksMove, At
  <2>8. CASE Moves(a)
    <3>1. act'[a].op = "move" /\ act'[a].step = "cancel"
      BY <1>0, <2>8, GoesTyped DEF Moves, At, Stations
    <3> QED
      BY <1>3, <3>1 DEF Settles
  <2>9. CASE WithdrawsOld(a)
    BY <1>3, <2>9 DEF WithdrawsOld, Settles
  <2>10. CASE Archives(a)
    BY <1>1, <1>5, <1>6, <2>10 DEF Archives, At
  <2> QED
    BY <2>0, <2>1, <2>2, <2>3, <2>4, <2>5, <2>6, <2>7, <2>8, <2>9, <2>10 DEF Command
<1>7. CASE TickReads
  <2>1. rem'.at = rem.at /\ rem'.note = rem.note /\ (rem'.status = "pending" => rem.status = "pending")
    BY <1>0, <1>7, SettledTyped DEF TickReads
  <2>2. Settles' => Settles
    BY <1>7, <2>1 DEF TickReads, Settles
  <2> QED
    BY <1>1, <1>7, <2>1, <2>2 DEF TickReads
<1>8. CASE TickAsks
  <2>1. tick = rem.at /\ ~sent /\ online
    BY <1>0, <1>8 DEF TickAsks, OwnTime, Disconnected
  <2>2. toDesk' = toDesk \o <<rem'.at>> /\ rem' = rem
    BY <1>8, <2>1 DEF TickAsks, Request, Sends
  <2> QED
    BY <1>0, <1>2, <2>2
\* The desktop works through what is on its way; the last stays the last.
<1>9. CASE DeskReceives
  <2>1. UNCHANGED <<rem, now, act, sent>> /\ toDesk # <<>> /\ toDesk' = Tail(toDesk)
    BY <1>9 DEF DeskReceives
  <2>2. SUFFICES ASSUME Settles
                 PROVE  LastWord'
    BY <2>1 DEF LastWordIsOwn, Settles
  <2>3. Final(toDesk) = rem.at /\ rem.at > now
    BY <1>0, <2>1, <2>2 DEF LastWordIsOwn, LastWord, Settles
  <2>4. /\ Head(toDesk) \in Nat
        /\ Tail(toDesk) # <<>> => Final(Tail(toDesk)) = rem.at
        /\ Tail(toDesk) = <<>> => Head(toDesk) = rem.at
    BY <1>0, <2>1, <2>3, TailLast DEF QueuesTyped, Final
  <2>5. CASE toDesk' # <<>>
    BY <2>1, <2>4, <2>5 DEF LastWord
  <2>6. CASE toDesk' = <<>>
    <3>1. Head(toDesk) = rem.at /\ Head(toDesk) # 0 /\ ~(Head(toDesk) < now)
      BY <1>0, <2>1, <2>3, <2>4, <2>6
    <3>2. adding' = Append(adding, rem.at)
      BY <1>9, <3>1 DEF DeskReceives
    <3>3. adding' # <<>> /\ Final(adding') = rem.at
      BY <1>0, <3>2, AppendProperties DEF QueuesTyped, Final
    <3> QED
      BY <2>1, <2>6, <3>3 DEF LastWord, Final
  <2> QED
    BY <2>5, <2>6
<1>10. CASE DeskAdds
  <2>1. UNCHANGED <<rem, now, act, sent, toDesk, online>> /\ adding # <<>> /\ adding' = Tail(adding)
    BY <1>10 DEF DeskAdds
  <2>2. SUFFICES ASSUME Settles
                 PROVE  LastWord'
    BY <2>1 DEF LastWordIsOwn, Settles
  <2>3. CASE toDesk # <<>>
    BY <1>0, <2>1, <2>2, <2>3 DEF LastWordIsOwn, LastWord
  <2>4. CASE toDesk = <<>>
    <3>1. Final(adding) = rem.at
      BY <1>0, <2>1, <2>2, <2>4 DEF LastWordIsOwn, LastWord
    <3>2. /\ Tail(adding) # <<>> => Final(Tail(adding)) = rem.at
          /\ Tail(adding) = <<>> => Head(adding) = rem.at
      BY <1>0, <2>1, <3>1, TailLast DEF QueuesTyped, Final
    <3>3. online
      BY <1>0, <2>2 DEF Disconnected, Settles
    <3>4. PICK ok \in {TRUE} \cup {"denied" \notin RemindersEnv} :
            /\ desk' = IF ok THEN Head(adding) ELSE desk
            /\ answers' = Append(answers, ok)
      BY <1>10, <3>3 DEF DeskAdds
    <3>5. ok \in BOOLEAN
      BY <3>4
    <3>6. answers' # <<>> /\ Final(answers') = ok
      <4>1. answers \in Seq(BOOLEAN)
        BY <1>0 DEF QueuesTyped
      <4>2. Append(answers, ok) # <<>> /\ Append(answers, ok)[Len(Append(answers, ok))] = ok
        BY <3>5, <4>1, AnsweredLast
      <4> QED
        BY <3>4, <4>2, Zenon DEF Final
    <3>7. adding' = <<>> /\ Final(answers') = TRUE => desk' = rem.at
      BY <2>1, <3>2, <3>4, <3>6
    <3>8. adding' # <<>> => Final(adding') = rem.at
      BY <2>1, <3>2
    <3> QED
      BY <2>1, <2>4, <3>6, <3>7, <3>8 DEF LastWord, Final
  <2> QED
    BY <2>3, <2>4
<1>11. CASE DeskRings
  <2>1. UNCHANGED <<rem, now, act, sent, toDesk, adding, answers>> /\ desk <= now /\ desk # 0
    BY <1>11 DEF DeskRings
  <2>2. SUFFICES ASSUME Settles
                 PROVE  LastWord'
    BY <2>1 DEF LastWordIsOwn, Settles
  <2>3. desk # rem.at
    BY <1>0, <2>1, <2>2 DEF Settles, QueuesTyped
  <2> QED
    BY <1>0, <2>1, <2>2, <2>3 DEF LastWordIsOwn, LastWord, Final
<1>12. CASE NotificationResult
  <2>1. /\ UNCHANGED <<now, act, sent, toDesk, adding, desk>> /\ answers # <<>> /\ answers' = Tail(answers)
        /\ rem'.at = rem.at /\ rem'.status = rem.status
        /\ rem'.note = IF Head(answers) THEN "scheduled" ELSE "failed"
    BY <1>0, <1>12 DEF NotificationResult, RemTyped
  <2>2. SUFFICES ASSUME Settles
                 PROVE  LastWord'
    BY <2>1 DEF LastWordIsOwn, Settles
  <2>3. /\ Head(answers) \in BOOLEAN
        /\ Tail(answers) # <<>> => Final(Tail(answers)) = Final(answers)
        /\ Tail(answers) = <<>> => Head(answers) = Final(answers)
    BY <1>0, <2>1, TailLast DEF QueuesTyped, Final
  <2>4. LastWord
    BY <1>0, <2>2 DEF LastWordIsOwn
  <2>5. CASE toDesk # <<>> \/ adding # <<>>
    BY <2>1, <2>4, <2>5 DEF LastWord, Final
  <2>6. CASE toDesk = <<>> /\ adding = <<>>
    <3>1. Final(answers) = TRUE => desk = rem.at
      BY <2>1, <2>4, <2>6 DEF LastWord
    <3>2. CASE answers' # <<>>
      BY <2>1, <2>3, <2>6, <3>1, <3>2 DEF LastWord, Final
    <3>3. CASE answers' = <<>>
      <4>1. rem'.note = "scheduled" => desk = rem.at
        BY <2>1, <2>3, <3>1, <3>3
      <4> QED
        BY <2>1, <2>6, <3>3, <4>1 DEF LastWord
    <3> QED
      BY <3>2, <3>3
  <2> QED
    BY <2>5, <2>6
<1>13. CASE Clock
  <2>1. Settles' => Settles
    BY <1>0, <1>13 DEF Clock, Settles
  <2> QED
    BY <1>1, <1>13, <2>1 DEF Clock
<1>14. CASE RemindersDrop
  BY <1>3, <1>14 DEF RemindersDrop, Settles
<1>15. CASE UNCHANGED rvars
  <2>1. Settles' => Settles
    BY <1>15 DEF rvars, Settles
  <2> QED
    BY <1>1, <1>15, <2>1 DEF rvars
<1> QED
  BY <1>4, <1>6, <1>7, <1>8, <1>9, <1>10, <1>11, <1>12, <1>13, <1>14, <1>15 DEF RemindersMove

LEMMA RemindersInvInit == OrganizerInit => RemindersInv
<1> SUFFICES ASSUME OrganizerInit
             PROVE  RemindersInv
  OBVIOUS
<1> USE DEF OrganizerInit, RemindersInit
<1>1. ActTyped /\ RemTyped /\ TaskTyped
  BY DEF ActTyped, RemTyped, TaskTyped, Off, NoReminder, Operations, Stations
<1>2. QueuesTyped
  BY DEF QueuesTyped
<1>3. RemindersTypeOK
  BY <1>1, <1>2 DEF RemindersTypeOK
<1>4. OneReminder
  BY DEF OneReminder, Mover, Timed, Made, Off, NoReminder, Actors
<1>5. OwnTime /\ Disconnected /\ LastWordIsOwn
  BY DEF OwnTime, Disconnected, LastWordIsOwn, Settles, Mover, Off
<1> QED
  BY <1>3, <1>4, <1>5 DEF RemindersInv

\* The state of the reminders is well typed in every reachable state.
THEOREM RemindersTypeCorrect == OrganizerSpec => []RemindersTypeOK
<1>1. OrganizerInit => RemindersTypeOK
  BY RemindersInvInit DEF RemindersInv
<1> QED
  BY <1>1, RemindersTypeStep, PTL DEF OrganizerSpec

\* Unless two move the reminder at once or a command runs under the scheduler's
\* request, the desktop holds what the store calls scheduled for its own time:
\* for any commands, lost connections, refusals and order of the messages.
THEOREM NotificationsFollow == OneAtATime => (OrganizerSpec => []NotificationFollows)
<1> SUFFICES ASSUME OneAtATime
             PROVE  OrganizerSpec => []NotificationFollows
  OBVIOUS
<1>1. OrganizerInit => RemindersInv
  BY RemindersInvInit
<1>2. RemindersInv /\ [OrganizerNext]_vars => RemindersInv'
  BY RemindersTypeStep, OneReminderStep, OwnTimeStep, DisconnectedStep, LastWordStep DEF RemindersInv
<1>3. RemindersInv => NotificationFollows
  BY DEF RemindersInv, NotificationFollows, Arrived, LastWordIsOwn, LastWord, Settles, Mover, Off
<1> QED
  BY <1>1, <1>2, <1>3, PTL DEF OrganizerSpec

-----------------------------------------------------------------------------
\* A step of the organizer as the meeting sees it.
MeetingsMove ==
  \/ StartMeeting \/ EndMeeting
  \/ \E p \in Places : Confirms(p)
  \/ MeetingsStep
  \/ MeetingsDrop
  \/ UNCHANGED mvars

LEMMA StepOfMeetings == [OrganizerNext]_vars => MeetingsMove
<1> SUFFICES ASSUME [OrganizerNext]_vars
             PROVE  MeetingsMove
  OBVIOUS
<1>1. CASE Commands
  BY <1>1 DEF Commands, MeetingsMove, Places
<1>2. CASE Passes \/ Connect \/ UNCHANGED vars
  BY <1>2 DEF Passes, Connect, vars, MeetingsMove
<1>3. CASE RemindersTurn
  BY <1>3 DEF RemindersTurn, Reminds, Delivers, OthersOfReminders, MeetingsMove
<1>4. CASE MeetingsTurn
  BY <1>4 DEF MeetingsTurn, MeetingsMove
<1>5. CASE EditionsTurn
  BY <1>5 DEF EditionsTurn, OthersOfEditions, MeetingsMove
<1>6. CASE Drop
  BY <1>6 DEF Drop, MeetingsMove
<1> QED
  BY <1>1, <1>2, <1>3, <1>4, <1>5, <1>6 DEF OrganizerNext

MeetingsTypeOK ==
  /\ mode \in BOOLEAN /\ meeting \in {"none", "recording", "review", "completed"}
  /\ said \in SUBSET Lines /\ storing \in SUBSET Lines /\ unsaved \in SUBSET Lines
  /\ transcript \in Seq(Lines) /\ heard \in SUBSET Lines
  /\ summary \in [step : {"none", "gather", "write"}, read : SUBSET Lines]
  /\ item \in {"none", "proposed", "confirmed"} /\ made \in Nat
  /\ confirmer \in [Places -> {"idle", "make", "mark", "close"}]

\* Every line said is in the store, on its way to it or failed; the mode comes
\* before the summary and the summary before the review; what is written was read
\* when nothing was on its way any more.
LinesKept == said = Stored \cup storing \cup unsaved
InPhases ==
  /\ mode => meeting = "recording" /\ summary.step = "none"
  /\ summary.step # "none" => ~mode /\ meeting = "recording"
  /\ summary.step = "write" => storing = {} /\ summary.read = Recent
  /\ meeting \in {"review", "completed"} => heard = Recent /\ storing = {} /\ ~mode
  /\ \A p \in Places : confirmer[p] # "idle" => meeting \in {"review", "completed"}

MeetingsInv == MeetingsTypeOK /\ LinesKept /\ InPhases

LEMMA MeetingsInvInit == OrganizerInit => MeetingsInv
<1> SUFFICES ASSUME MeetingsInit
             PROVE  MeetingsInv
  BY DEF OrganizerInit
<1>1. summary \in [step : {"none", "gather", "write"}, read : SUBSET Lines]
  BY DEF MeetingsInit, NoSummary
<1>2. MeetingsTypeOK
  <2>1. transcript \in Seq(Lines)
    BY DEF MeetingsInit
  <2> QED
    BY <1>1, <2>1 DEF MeetingsInit, MeetingsTypeOK
<1>3. LinesKept /\ InPhases
  BY DEF MeetingsInit, LinesKept, InPhases, NoSummary, Stored
<1> QED
  BY <1>2, <1>3 DEF MeetingsInv

LEMMA MeetingsInvStep == MeetingsInv /\ [OrganizerNext]_vars => MeetingsInv'
<1> SUFFICES ASSUME MeetingsInv, MeetingsMove
             PROVE  MeetingsInv'
  BY StepOfMeetings
<1> USE DEF MeetingsInv, MeetingsTypeOK, LinesKept, InPhases
<1>0. UNCHANGED transcript => UNCHANGED <<Stored, Recent>>
  BY DEF Stored, Recent
<1>1. CASE StartMeeting
  BY <1>0, <1>1 DEF StartMeeting
<1>2. CASE EndMeeting
  BY <1>0, <1>2 DEF EndMeeting
<1>3. ASSUME NEW p \in Places, Confirms(p)
      PROVE  MeetingsInv'
  BY <1>0, <1>3 DEF Confirms
<1>4. CASE Gathers
  <2>1. Recent \in SUBSET Lines
    BY DEF Recent
  <2> QED
    BY <1>0, <1>4, <2>1 DEF Gathers
<1>5. CASE Finishes
  BY <1>0, <1>5 DEF Finishes, NoSummary
<1>6. ASSUME NEW l \in Lines, Records(l)
      PROVE  MeetingsInv'
  BY <1>0, <1>6 DEF Records
<1>7. ASSUME NEW l \in Lines, Stores(l)
      PROVE  MeetingsInv'
  <2>1. Stored' = Stored \cup {l}
    BY <1>7 DEF Stores, Stored
  <2>2. transcript' \in Seq(Lines)
    BY <1>7 DEF Stores
  <2> QED
    BY <1>7, <2>1, <2>2 DEF Stores
<1>8. ASSUME NEW p \in Places, Makes(p)
      PROVE  MeetingsInv'
  BY <1>0, <1>8 DEF Makes
<1>9. ASSUME NEW p \in Places, Marks(p)
      PROVE  MeetingsInv'
  BY <1>0, <1>9 DEF Marks
<1>10. ASSUME NEW p \in Places, Closes(p)
       PROVE  MeetingsInv'
  BY <1>0, <1>10 DEF Closes
<1>11. CASE MeetingsDrop
  <2>0. \/ summary' = NoSummary
        \/ mode /\ summary' = [step |-> "gather", read |-> {}]
    BY <1>11 DEF MeetingsDrop
  <2>1. summary' \in [step : {"none", "gather", "write"}, read : SUBSET Lines]
    BY <2>0 DEF NoSummary
  <2>2. /\ mode' = FALSE
        /\ summary'.step # "none" => mode
        /\ summary'.step # "write"
    BY <1>11, <2>0 DEF MeetingsDrop, NoSummary
  <2>3. /\ confirmer' \in [Places -> {"idle", "make", "mark", "close"}]
        /\ \A p \in Places : confirmer'[p] # "idle" => confirmer[p] # "idle"
    BY <1>11 DEF MeetingsDrop
  <2>4. UNCHANGED <<meeting, said, storing, unsaved, transcript, heard, item, made>>
    BY <1>11 DEF MeetingsDrop
  <2>5. MeetingsTypeOK' /\ LinesKept'
    BY <1>0, <2>1, <2>2, <2>3, <2>4
  <2>6. InPhases'
    BY <1>0, <2>2, <2>3, <2>4
  <2> QED
    BY <2>5, <2>6
<1>12. CASE UNCHANGED mvars
  BY <1>0, <1>12 DEF mvars
<1>13. ASSUME NEW l \in Lines, StoreFails(l)
       PROVE  MeetingsInv'
  BY <1>0, <1>13 DEF StoreFails
<1>14. CASE SummaryFails
  BY <1>0, <1>14 DEF SummaryFails, NoSummary
<1> QED
  BY <1>1, <1>2, <1>3, <1>4, <1>5, <1>6, <1>7, <1>8, <1>9, <1>10, <1>11, <1>12, <1>13, <1>14 DEF MeetingsMove, MeetingsStep

\* The state of the meeting is well typed in every reachable state.
THEOREM MeetingsTypeCorrect == OrganizerSpec => []MeetingsTypeOK
<1>1. MeetingsInv => MeetingsTypeOK
  BY DEF MeetingsInv
<1> QED
  BY <1>1, MeetingsInvInit, MeetingsInvStep, PTL DEF OrganizerSpec

\* A summary for review was made from the last lines of the store, as many as fit,
\* and no line is missing there but those whose transaction failed, in whatever
\* order the threads store them, whatever fails and whenever the connection is lost.
THEOREM SummariesHearTheEnd == OrganizerSpec => []SummaryHearsTheEnd
<1>1. MeetingsInv => SummaryHearsTheEnd
  BY DEF MeetingsInv, LinesKept, InPhases, SummaryHearsTheEnd
<1> QED
  BY <1>1, MeetingsInvInit, MeetingsInvStep, PTL DEF OrganizerSpec

\* One confirmation at a time takes the item from proposed over made to confirmed.
OneConfirmation == "both" \notin MeetingsEnv /\ "dies" \notin MeetingsEnv
ItemInStep ==
  /\ \A p, q \in Places : confirmer[p] # "idle" /\ confirmer[q] # "idle" => p = q
  /\ \A p \in Places :
       /\ confirmer[p] # "idle" => meeting = "review"
       /\ confirmer[p] = "make" => item = "proposed" /\ made = 0
       /\ confirmer[p] = "mark" => item = "proposed" /\ made = 1
       /\ confirmer[p] = "close" => item # "proposed"
  /\ (\A p \in Places : confirmer[p] \in {"idle", "close"}) => made = (IF item = "confirmed" THEN 1 ELSE 0)
  /\ meeting \in {"none", "recording"} => item = "none"
  /\ meeting = "completed" => item # "proposed"

LEMMA ItemStep ==
  ASSUME OneConfirmation
  PROVE  MeetingsInv /\ ItemInStep /\ [OrganizerNext]_vars => ItemInStep'
<1> SUFFICES ASSUME MeetingsInv, ItemInStep, MeetingsMove
             PROVE  ItemInStep'
  BY StepOfMeetings
<1> USE DEF MeetingsInv, MeetingsTypeOK, InPhases, ItemInStep, OneConfirmation
<1>1. CASE StartMeeting
  BY <1>1 DEF StartMeeting
<1>2. \/ EndMeeting \/ Gathers \/ SummaryFails \/ UNCHANGED mvars
      \/ \E l \in Lines : Records(l) \/ Stores(l) \/ StoreFails(l)
      => ItemInStep'
  BY DEF EndMeeting, Gathers, SummaryFails, mvars, Records, Stores, StoreFails
<1>3. ASSUME NEW p \in Places, Confirms(p)
      PROVE  ItemInStep'
  BY <1>3 DEF Confirms
<1>5. CASE Finishes
  BY <1>5 DEF Finishes, NoSummary
<1>8. ASSUME NEW p \in Places, Makes(p)
      PROVE  ItemInStep'
  BY <1>8 DEF Makes
<1>9. ASSUME NEW p \in Places, Marks(p)
      PROVE  ItemInStep'
  BY <1>9 DEF Marks
<1>10. ASSUME NEW p \in Places, Closes(p)
       PROVE  ItemInStep'
  BY <1>10 DEF Closes
<1>11. CASE MeetingsDrop
  BY <1>11 DEF MeetingsDrop, NoSummary
<1> QED
  BY <1>1, <1>2, <1>3, <1>5, <1>8, <1>9, <1>10, <1>11 DEF MeetingsMove, MeetingsStep

\* Unless the panel and the voice confirm at once or the process dies between the
\* three transactions, a confirmed item is one task, whenever the connection is lost.
THEOREM ConfirmedIsOneTask == OneConfirmation => (OrganizerSpec => []OneTaskPerItem)
<1> SUFFICES ASSUME OneConfirmation
             PROVE  OrganizerSpec => []OneTaskPerItem
  OBVIOUS
<1>1. OrganizerInit => ItemInStep
  BY DEF OrganizerInit, MeetingsInit, ItemInStep
<1>2. MeetingsInv /\ ItemInStep => OneTaskPerItem
  BY DEF MeetingsInv, MeetingsTypeOK, ItemInStep, OneTaskPerItem
<1> QED
  BY <1>1, <1>2, ItemStep, MeetingsInvInit, MeetingsInvStep, PTL DEF OrganizerSpec

-----------------------------------------------------------------------------
\* A step of the organizer as the newspapers see it.
EditionsMove ==
  \/ EditionsCommand \/ EditionsPanel \/ EditionsDue \/ EditionsStep
  \/ NextDay
  \/ EditionsDrop
  \/ UNCHANGED evars

LEMMA StepOfEditions == [OrganizerNext]_vars => EditionsMove
<1> SUFFICES ASSUME [OrganizerNext]_vars
             PROVE  EditionsMove
  OBVIOUS
<1>1. CASE Commands
  BY <1>1 DEF Commands, EditionsMove
<1>2. CASE Passes \/ Connect \/ UNCHANGED vars
  BY <1>2 DEF Passes, Connect, vars, EditionsMove
<1>3. CASE RemindersTurn
  BY <1>3 DEF RemindersTurn, Reminds, Delivers, OthersOfReminders, EditionsMove
<1>4. CASE MeetingsTurn
  BY <1>4 DEF MeetingsTurn, EditionsMove
<1>5. CASE EditionsTurn
  BY <1>5 DEF EditionsTurn, EditionsMove
<1>6. CASE Drop
  BY <1>6 DEF Drop, EditionsMove
<1> QED
  BY <1>1, <1>2, <1>3, <1>4, <1>5, <1>6 DEF OrganizerNext

\* The newspapers are well typed; who is at work has a day, a saved edition an author.
WorkTyped ==
  /\ writer \in [Writers -> [step : {"none", "read", "plan", "work", "save"}, day : Nat, goal : Nat]]
  /\ \A w \in Writers : writer[w].step \in {"plan", "work", "save"} => writer[w].day \in Days /\ writer[w].goal # 0
  /\ briefer \in [{"sched", "hud"} -> {0} \cup Days]
ShelfTyped ==
  /\ edition \in [Days -> [goal : Nat, by : {"none", "sched", "owner"}]]
  /\ \A d \in Days : edition[d].goal = 0 <=> edition[d].by = "none"
  /\ brief \in [Days -> {"none", "sched", "owner"}]
EditionsTypeOK ==
  /\ paper \in [goal : Nat, on : BOOLEAN] /\ prompts \in Nat /\ day \in Days
  /\ retry \in BOOLEAN /\ wanted \in BOOLEAN
  /\ WorkTyped /\ ShelfTyped

\* A call at work is replaced by one that is typed, or moves to another step.
WriterTyped(r) ==
  /\ r \in [step : {"none", "read", "plan", "work", "save"}, day : Nat, goal : Nat]
  /\ r.step \in {"plan", "work", "save"} => r.day \in Days /\ r.goal # 0

LEMMA WriterMoves ==
  ASSUME WorkTyped, NEW w \in Writers, NEW r, WriterTyped(r),
         writer' = [writer EXCEPT ![w] = r], UNCHANGED briefer
  PROVE  WorkTyped'
<1>1. writer' \in [Writers -> [step : {"none", "read", "plan", "work", "save"}, day : Nat, goal : Nat]]
  BY DEF WorkTyped, WriterTyped
<1>2. \A v \in Writers : writer'[v] = IF v = w THEN r ELSE writer[v]
  BY DEF WorkTyped
<1>3. \A v \in Writers : writer'[v].step \in {"plan", "work", "save"} => writer'[v].day \in Days /\ writer'[v].goal # 0
  BY <1>2 DEF WorkTyped, WriterTyped
<1> QED
  BY <1>1, <1>3 DEF WorkTyped

LEMMA WriterSteps ==
  ASSUME WorkTyped, NEW w \in Writers, NEW step \in {"none", "read", "plan", "work", "save"},
         step \in {"plan", "work", "save"} => writer[w].step \in {"plan", "work", "save"},
         writer' = [writer EXCEPT ![w].step = step], UNCHANGED briefer
  PROVE  WorkTyped'
<1> DEFINE r == [writer[w] EXCEPT !.step = step]
<1>1. WriterTyped(r)
  BY DEF WorkTyped, WriterTyped
<1>2. writer' = [writer EXCEPT ![w] = r]
  OBVIOUS
<1> HIDE DEF r
<1> QED
  BY <1>1, <1>2, WriterMoves

LEMMA RestsTyped == WriterTyped(Rests)
BY DEF WriterTyped, Rests

LEMMA DaysAreNat == Days \subseteq Nat /\ 1 \in Days
BY EditionsAssumption DEF Days

\* What a save and a briefing leave on the shelf.
LEMMA SavesShelf ==
  ASSUME WorkTyped, ShelfTyped, NEW w \in Writers, Saves(w)
  PROVE  /\ ShelfTyped'
         /\ \A d \in Days : edition[d] # NoEdition /\ edition'[d] # edition[d] => edition'[d].by # "sched"
<1> DEFINE d0 == writer[w].day
           row == IF w = "sched" /\ edition[d0] # NoEdition THEN edition[d0] ELSE Edition(w)
<1>1. d0 \in Days /\ writer[w].goal \in Nat \ {0}
  BY DEF Saves, WorkTyped
<1>2. Edition(w) \in [goal : Nat, by : {"none", "sched", "owner"}] /\ Edition(w).goal # 0 /\ Edition(w).by # "none"
  BY <1>1 DEF Edition
<1>3. w # "sched" => Edition(w).by # "sched"
  BY DEF Edition
<1>4. UNCHANGED brief /\ (UNCHANGED edition \/ edition' = [edition EXCEPT ![d0] = row])
  BY DEF Saves
<1>5. CASE UNCHANGED edition
  BY <1>4, <1>5 DEF ShelfTyped
<1>6. CASE edition' = [edition EXCEPT ![d0] = row]
  <2>1. /\ row \in [goal : Nat, by : {"none", "sched", "owner"}]
        /\ row.goal = 0 <=> row.by = "none"
        /\ edition[d0] # NoEdition => row = edition[d0] \/ row.by # "sched"
    BY <1>1, <1>2, <1>3 DEF ShelfTyped
  <2> HIDE DEF row, d0
  <2>2. \A d \in Days : edition'[d] = IF d = d0 THEN row ELSE edition[d]
    BY <1>6 DEF ShelfTyped
  <2>3. edition' \in [Days -> [goal : Nat, by : {"none", "sched", "owner"}]]
    BY <1>6, <2>1 DEF ShelfTyped
  <2>4. \A d \in Days : edition'[d].goal = 0 <=> edition'[d].by = "none"
    BY <2>1, <2>2 DEF ShelfTyped
  <2>5. ShelfTyped'
    BY <1>4, <2>3, <2>4 DEF ShelfTyped
  <2> QED
    BY <2>1, <2>2, <2>5
<1> QED
  BY <1>4, <1>5, <1>6

LEMMA BriefsShelf ==
  ASSUME WorkTyped, ShelfTyped, NEW w \in {"sched", "hud"}, Briefs(w)
  PROVE  /\ WorkTyped' /\ ShelfTyped'
         /\ \A d \in Days : brief[d] # "none" /\ brief'[d] # brief[d] => brief'[d] = "owner"
<1>1. briefer[w] \in Days /\ UNCHANGED <<writer, edition>>
  BY DEF Briefs, WorkTyped
<1>2. briefer' \in [{"sched", "hud"} -> {0} \cup Days]
  BY DEF Briefs, WorkTyped
<1>3. brief' \in [Days -> {"none", "sched", "owner"}]
  BY <1>1 DEF Briefs, ShelfTyped
<1>4. \A d \in Days : brief[d] # "none" /\ brief'[d] # brief[d] => brief'[d] = "owner"
  BY <1>1 DEF Briefs, ShelfTyped
<1> QED
  BY <1>1, <1>2, <1>3, <1>4 DEF WorkTyped, ShelfTyped

LEMMA EditionsTypeInit == OrganizerInit => EditionsTypeOK
<1> SUFFICES ASSUME EditionsInit
             PROVE  EditionsTypeOK
  BY DEF OrganizerInit
<1>1. WorkTyped
  BY RestsTyped DEF EditionsInit, WorkTyped, WriterTyped
<1>2. ShelfTyped
  BY DEF EditionsInit, ShelfTyped, NoEdition
<1>3. paper \in [goal : Nat, on : BOOLEAN]
  BY DEF EditionsInit
<1> QED
  BY <1>1, <1>2, <1>3, DaysAreNat DEF EditionsInit, EditionsTypeOK

\* What a step does to the shelf.
ShelfMove ==
  \/ UNCHANGED <<edition, brief>>
  \/ Unsubscribes
  \/ \E w \in Writers : Saves(w)
  \/ \E w \in {"sched", "hud"} : Briefs(w)

LEMMA EditionsTypeStep == EditionsTypeOK /\ [OrganizerNext]_vars => EditionsTypeOK' /\ ShelfMove
<1> DEFINE Kept == UNCHANGED <<edition, brief>>
           Goal == EditionsTypeOK' /\ ShelfMove
<1> SUFFICES ASSUME EditionsTypeOK, EditionsMove
             PROVE  Goal
  BY StepOfEditions
<1> USE DEF ShelfMove
<1>0. /\ Kept => (ShelfTyped => ShelfTyped')
      /\ UNCHANGED <<writer, briefer>> => (WorkTyped => WorkTyped')
      /\ WorkTyped /\ ShelfTyped /\ paper \in [goal : Nat, on : BOOLEAN] /\ prompts \in Nat /\ day \in Days
      /\ retry \in BOOLEAN /\ wanted \in BOOLEAN
  BY DEF EditionsTypeOK, ShelfTyped, WorkTyped
<1>1. ASSUME NEW w \in {"hud", "voice"}, Subscribes(w)
      PROVE  Goal
  <2>1. w \in Writers /\ UNCHANGED <<day, edition, retry, wanted, brief, briefer>> /\ prompts' = 1
    BY <1>1 DEF Subscribes, Writers
  <2>2. WorkTyped'
    <3>1. CASE writer' = writer
      BY <1>0, <2>1, <3>1
    <3>2. CASE writer' = [writer EXCEPT ![w].step = "read"]
      BY <1>0, <2>1, <3>2, WriterSteps
    <3> QED
      BY <1>1, <3>1, <3>2 DEF Subscribes
  <2>3. paper' \in [goal : Nat, on : BOOLEAN]
    BY <1>1 DEF Subscribes
  <2> QED
    BY <1>0, <2>1, <2>2, <2>3 DEF EditionsTypeOK
<1>2. CASE SetsBriefing
  BY <1>0, <1>2 DEF SetsBriefing, EditionsTypeOK
<1>3. CASE Rewrites
  <2>1. prompts' \in Nat
    BY <1>0, <1>3 DEF Rewrites
  <2>2. paper' \in [goal : Nat, on : BOOLEAN]
    <3>1. CASE paper' = [paper EXCEPT !.goal = prompts']
      BY <1>0, <2>1, <3>1
    <3>2. CASE paper' = [paper EXCEPT !.on = ~@]
      <4>1. (~paper.on) \in BOOLEAN
        BY Zenon
      <4> HIDE DEF Goal, Kept
      <4> QED
        BY <1>0, <3>2, <4>1
    <3> QED
      BY <1>3, <3>1, <3>2 DEF Rewrites
  <2> QED
    BY <1>0, <1>3, <2>1, <2>2 DEF Rewrites, EditionsTypeOK
<1>4. CASE Unsubscribes
  <2>1. ShelfTyped'
    BY <1>0, <1>4 DEF Unsubscribes, ShelfTyped, NoEdition
  <2>2. paper' \in [goal : Nat, on : BOOLEAN]
    BY <1>4 DEF Unsubscribes
  <2> QED
    BY <1>0, <1>4, <2>1, <2>2 DEF Unsubscribes, EditionsTypeOK
<1>5. CASE AsksEdition
  <2>1. WorkTyped'
    BY <1>0, <1>5, WriterSteps DEF AsksEdition, Writers
  <2> QED
    BY <1>0, <1>5, <2>1 DEF AsksEdition, EditionsTypeOK
<1>6. CASE AsksBriefing
  <2>1. WorkTyped'
    BY <1>0, <1>6 DEF AsksBriefing, WorkTyped
  <2> QED
    BY <1>0, <1>6, <2>1 DEF AsksBriefing, EditionsTypeOK
<1>7. CASE EditionDue
  <2>1. WorkTyped'
    BY <1>0, <1>7, WriterSteps DEF EditionDue, Writers
  <2> QED
    BY <1>0, <1>7, <2>1 DEF EditionDue, EditionsTypeOK
<1>8. CASE BriefingDue
  <2>1. WorkTyped'
    BY <1>0, <1>8 DEF BriefingDue, WorkTyped
  <2> QED
    BY <1>0, <1>8, <2>1 DEF BriefingDue, EditionsTypeOK
<1>9. CASE TurnEnds
  <2>1. WorkTyped'
    BY <1>0, <1>9, WriterMoves, RestsTyped DEF TurnEnds, Writers
  <2> QED
    BY <1>0, <1>9, <2>1 DEF TurnEnds, EditionsTypeOK
<1>10. CASE RetryAgain
  BY <1>0, <1>10 DEF RetryAgain, EditionsTypeOK
<1>11. ASSUME NEW w \in Writers, ReadsGoal(w)
       PROVE  Goal
  <2>1. UNCHANGED <<paper, prompts, day, edition, wanted, brief, briefer>> /\ retry' \in BOOLEAN
    BY <1>0, <1>11 DEF ReadsGoal, Fails
  <2>2. CASE Exists
    <3>1. WriterTyped([step |-> "plan", day |-> day, goal |-> paper.goal])
      BY <1>0, <2>2, DaysAreNat DEF WriterTyped, Exists
    <3>2. writer' = [writer EXCEPT ![w] = [step |-> "plan", day |-> day, goal |-> paper.goal]]
      BY <1>11, <2>2 DEF ReadsGoal
    <3>3. WorkTyped'
      BY <1>0, <2>1, <3>1, <3>2, WriterMoves
    <3> QED
      BY <1>0, <2>1, <3>3 DEF EditionsTypeOK
  <2>3. CASE ~Exists
    <3>1. WorkTyped'
      BY <1>0, <1>11, <2>1, <2>3, RestsTyped, WriterMoves DEF ReadsGoal, Fails
    <3> QED
      BY <1>0, <2>1, <3>1 DEF EditionsTypeOK
  <2> QED
    BY <2>2, <2>3
<1>12. ASSUME NEW w \in Writers, Plans(w)
       PROVE  Goal
  <2>1. WorkTyped'
    BY <1>0, <1>12, WriterSteps DEF Plans
  <2> QED
    BY <1>0, <1>12, <2>1 DEF Plans, EditionsTypeOK
<1>13. ASSUME NEW w \in Writers, Researches(w)
       PROVE  Goal
  <2>1. UNCHANGED <<paper, prompts, day, edition, wanted, brief, briefer>> /\ retry' \in BOOLEAN
    BY <1>0, <1>13 DEF Researches, Fails
  <2>2. WorkTyped'
    BY <1>0, <1>13, <2>1, RestsTyped, WriterMoves, WriterSteps DEF Researches, Fails
  <2> QED
    BY <1>0, <2>1, <2>2 DEF EditionsTypeOK
<1>14. ASSUME NEW w \in Writers, Saves(w)
       PROVE  Goal
  <2>1. UNCHANGED <<paper, prompts, day, wanted, briefer>> /\ writer' = [writer EXCEPT ![w] = Rests]
    BY <1>14 DEF Saves, Fails
  <2>2. retry' \in BOOLEAN
    BY <1>0, <1>14 DEF Saves, Fails
  <2>3. WorkTyped' /\ ShelfTyped'
    BY <1>0, <1>14, <2>1, RestsTyped, WriterMoves, SavesShelf
  <2> QED
    BY <1>0, <1>14, <2>1, <2>2, <2>3 DEF EditionsTypeOK
<1>15. ASSUME NEW w \in {"sched", "hud"}, Briefs(w)
       PROVE  Goal
  <2>1. WorkTyped' /\ ShelfTyped'
    BY <1>0, <1>15, BriefsShelf
  <2>2. UNCHANGED <<paper, prompts, day, retry, wanted>>
    BY <1>15 DEF Briefs
  <2> QED
    BY <1>0, <1>15, <2>1, <2>2 DEF EditionsTypeOK
<1>16. CASE NextDay
  <2>1. day' \in Days
    BY <1>0, <1>16, EditionsAssumption DEF NextDay, Days
  <2> QED
    BY <1>0, <1>16, <2>1 DEF NextDay, EditionsTypeOK
<1>17. CASE EditionsDrop
  <2>1. WorkTyped'
    BY <1>0, <1>17, RestsTyped DEF EditionsDrop, WorkTyped, WriterTyped
  <2> QED
    BY <1>0, <1>17, <2>1 DEF EditionsDrop, EditionsTypeOK
<1>18. CASE UNCHANGED evars
  BY <1>0, <1>18 DEF evars, EditionsTypeOK
<1> QED
  BY <1>1, <1>2, <1>3, <1>4, <1>5, <1>6, <1>7, <1>8, <1>9, <1>10, <1>11, <1>12, <1>13, <1>14, <1>15, <1>16, <1>17, <1>18
     DEF EditionsMove, EditionsCommand, EditionsPanel, EditionsDue, EditionsStep, Writes

\* The state of the newspapers and briefings is well typed in every reachable state.
THEOREM EditionsTypeCorrect == OrganizerSpec => []EditionsTypeOK
<1>1. EditionsTypeOK /\ [OrganizerNext]_vars => EditionsTypeOK'
  BY EditionsTypeStep
<1> QED
  BY <1>1, EditionsTypeInit, PTL DEF OrganizerSpec

LEMMA ReplacementStep ==
  ASSUME EditionsTypeOK, [OrganizerNext]_vars, NEW d \in Days
  PROVE  /\ (edition[d] # NoEdition /\ edition'[d] # edition[d]) => edition'[d].by # "sched"
         /\ (brief[d] # "none" /\ brief'[d] # brief[d]) => brief'[d] = "owner"
<1>1. CASE Unsubscribes
  BY <1>1 DEF Unsubscribes, NoEdition
<1>2. ASSUME NEW w \in Writers, Saves(w)
      PROVE  UNCHANGED brief /\ (edition[d] # NoEdition /\ edition'[d] # edition[d] => edition'[d].by # "sched")
  <2>1. UNCHANGED brief
    BY <1>2 DEF Saves
  <2> QED
    BY <1>2, <2>1, SavesShelf DEF EditionsTypeOK
<1>3. ASSUME NEW w \in {"sched", "hud"}, Briefs(w)
      PROVE  UNCHANGED edition /\ (brief[d] # "none" /\ brief'[d] # brief[d] => brief'[d] = "owner")
  <2>1. UNCHANGED edition
    BY <1>3 DEF Briefs
  <2> QED
    BY <1>3, <2>1, BriefsShelf DEF EditionsTypeOK
<1> QED
  BY <1>1, <1>2, <1>3, EditionsTypeStep DEF ShelfMove

\* What the scheduler found missing when it began may be there when it saves: in no
\* step does it replace an edition or a briefing, for any number of days and goals.
THEOREM SchedulerNeverReplaces == OrganizerSpec => ScheduledNeverReplaces
<1>1. EditionsTypeOK /\ [OrganizerNext]_vars =>
        [\A d \in Days :
           /\ (edition[d] # NoEdition /\ edition'[d] # edition[d]) => edition'[d].by # "sched"
           /\ (brief[d] # "none" /\ brief'[d] # brief[d]) => brief'[d] = "owner"]_evars
  BY ReplacementStep
<1> QED
  BY <1>1, EditionsTypeCorrect, PTL DEF OrganizerSpec, ScheduledNeverReplaces
=============================================================================
