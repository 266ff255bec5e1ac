------------------------------ MODULE Reminders ------------------------------
(***************************************************************************)
(* The tasks and reminders of server/organizer.py, the commands and the    *)
(* scheduler of server/main.py that change them, and the desktop that      *)
(* shows a reminder as a system notification: one task, its project and    *)
(* its reminder.  The store runs in threads: a SELECT and the UPDATE after *)
(* it are two steps; one UPDATE is one.  Messages to and from the desktop  *)
(* keep their order; its permission check does not hold up a cancel.       *)
(***************************************************************************)
EXTENDS Naturals, Sequences, OrganizerLink

CONSTANTS
  MaxTime,      \* bound: the last moment of the clock
  RemindersEnv  \* what may happen: "tool" (OpenClaw's task tools are used),
                \* "late_tick" (a command runs between the scheduler's read
                \* and its request), "denied" (the desktop may refuse),
                \* "both_move" (the panel and a tool move it at once)

ASSUME RemindersAssumption == MaxTime \in Nat \ {0}

VARIABLES
  project,   \* the project's row
  task,      \* the task's row
  rem,       \* the reminder's row
  now,       \* the clock
  act,       \* the command each actor is at
  sent,      \* notification_requests_sent holds the reminder
  tick,      \* the row the scheduler has read, or 0
  toDesk,    \* requests on their way to the desktop, 0 for a cancel
  adding,    \* requests waiting for the permission check
  desk,      \* the time of the notification the system holds, or 0
  answers    \* answers on their way back

rvars == <<project, task, rem, now, act, sent, tick, toDesk, adding, desk, answers>>

Actors == {"hud", "voice", "tool"}
Times == 1..MaxTime
Off == [op |-> "none", step |-> "none", at |-> 0]
NoReminder == [status |-> "none", at |-> 0, note |-> "pending"]

(* Two minutes, one tick of the clock, past its time.                     *)
Late(at) == at < now

(* pending_reminders first settles what is past.                           *)
Settled(r) ==
  IF r.status = "pending" /\ ((r.note = "scheduled" /\ r.at <= now) \/ Late(r.at))
  THEN [r EXCEPT !.status = "delivered"] ELSE r

RemindersInit ==
  /\ project = "active"
  /\ task = [status |-> "none", project |-> FALSE]
  /\ rem = NoReminder
  /\ now = 0
  /\ act = [a \in Actors |-> Off]
  /\ sent = FALSE
  /\ tick = 0
  /\ toDesk = <<>>
  /\ adding = <<>>
  /\ desk = 0
  /\ answers = <<>>

(***************************************************************************)
(* A command begins: the owner's in the panel or spoken, or a tool's.      *)
(***************************************************************************)
Ops(a) ==
  CASE a = "hud"   -> {"complete", "move", "archive"}
    [] a = "voice" -> {"remind", "create", "complete"}
    [] a = "tool"  -> {"complete", "move"}

FirstStep(op) ==
  CASE op = "create" -> "project" [] op = "remind" -> "task" [] op = "move" -> "check" [] OTHER -> "write"
Made == {"remind", "create"}
Timed == {"remind", "move"}

Begins(a) ==
  /\ act[a] = Off
  /\ a = "tool" => "tool" \in RemindersEnv
  /\ a # "tool" => online
  /\ \E op \in Ops(a), at \in Times :
       /\ op # "archive" => (op \in Made) = (task.status = "none")
       /\ IF op \in Timed THEN at > now ELSE at = MaxTime
       /\ (op = "move" /\ "both_move" \notin RemindersEnv) => \A b \in Actors : act[b].op # "move"
       /\ (a # "voice" /\ op # "archive") =>     \* what it is about is listed
            task.status # "none" /\ act["voice"].op \notin Made
       /\ act' = [act EXCEPT ![a] = [op |-> op, step |-> FirstStep(op), at |-> at]]
  /\ UNCHANGED <<online, project, task, rem, now, sent, tick, toDesk, adding, desk, answers>>

At(a, op, step) == act[a].op = op /\ act[a].step = step
Goes(a, step) == act' = [act EXCEPT ![a].step = step]
Ends(a) == act' = [act EXCEPT ![a] = Off]

(***************************************************************************)
(* create_task as spoken: the project, then the task in it, are two        *)
(* transactions; create_reminder: a task, its reminder, then the desktop   *)
(* is asked.                                                               *)
(***************************************************************************)
CreatesProject(a) ==
  /\ At(a, "create", "project")
  /\ \/ project' = "active" /\ Goes(a, "task_in")
     \/ UNCHANGED project /\ Goes(a, "task")
  /\ UNCHANGED <<online, task, rem, now, sent, tick, toDesk, adding, desk, answers>>

CreatesTask(a) ==
  /\ act[a].op \in Made /\ act[a].step \in {"task", "task_in"}
  /\ task' = [status |-> "open", project |-> act[a].step = "task_in"]
  /\ IF act[a].op = "remind" THEN Goes(a, "reminder") ELSE Ends(a)
  /\ UNCHANGED <<online, project, rem, now, sent, tick, toDesk, adding, desk, answers>>

CreatesReminder(a) ==
  /\ At(a, "remind", "reminder")
  /\ rem' = [status |-> "pending", at |-> act[a].at, note |-> "pending"]
  /\ Goes(a, "ask")
  /\ UNCHANGED <<online, project, task, now, sent, tick, toDesk, adding, desk, answers>>

(* schedule_local_notification: noted as sent, then sent.                  *)
Sends(m) == toDesk' = IF online THEN toDesk \o m ELSE toDesk
Request(at) == sent' = TRUE /\ Sends(<<at>>)

Asks(a) ==
  /\ act[a].op \in Timed /\ act[a].step = "ask"
  /\ IF a = "tool"
     THEN /\ rem' = Settled(rem)
          /\ IF sent \/ ~online \/ rem'.status # "pending"
             THEN UNCHANGED <<sent, toDesk>> ELSE Request(rem'.at)
     ELSE /\ Request(act[a].at)
          /\ UNCHANGED rem
  /\ Ends(a)
  /\ UNCHANGED <<online, project, task, now, tick, adding, desk, answers>>

(***************************************************************************)
(* complete_task: the task and its pending reminder in one transaction.    *)
(* The panel and the voice then withdraw the notification; the tool bridge *)
(* only refreshes the panels.                                              *)
(***************************************************************************)
Completes(a) ==
  /\ At(a, "complete", "write")
  /\ task' = IF task.status = "open" THEN [task EXCEPT !.status = "completed"] ELSE task
  /\ rem' = IF task.status = "open" /\ rem.status = "pending" THEN [rem EXCEPT !.status = "cancelled"] ELSE rem
  /\ IF a # "tool" /\ task.status = "open" /\ rem'.status = "cancelled"
     THEN Goes(a, "cancel") ELSE Ends(a)
  /\ UNCHANGED <<online, project, now, sent, tick, toDesk, adding, desk, answers>>

Withdraws(a) ==
  /\ At(a, "complete", "cancel")
  /\ Sends(<<0>>)
  /\ Ends(a)
  /\ UNCHANGED <<online, project, task, rem, now, sent, tick, adding, desk, answers>>

(***************************************************************************)
(* update_reminder and its handlers: only a pending reminder moves, but it *)
(* may stop being one before the UPDATE; the desktop's old notification is *)
(* withdrawn and the new one asked for.                                    *)
(***************************************************************************)
ChecksMove(a) ==
  /\ At(a, "move", "check")
  /\ IF rem.status = "pending" THEN Goes(a, "write") ELSE Ends(a)
  /\ UNCHANGED <<online, project, task, rem, now, sent, tick, toDesk, adding, desk, answers>>

Moves(a) ==
  /\ At(a, "move", "write")
  /\ rem' = [rem EXCEPT !.at = act[a].at, !.note = "pending"]
  /\ Goes(a, "cancel")
  /\ UNCHANGED <<online, project, task, now, sent, tick, toDesk, adding, desk, answers>>

WithdrawsOld_Mut(a) ==
  /\ At(a, "move", "cancel")
  /\ sent' = TRUE
  /\ Sends(<<act[a].at, 0>>)
  /\ Ends(a)
  /\ UNCHANGED <<online, project, task, rem, now, tick, adding, desk, answers>>

WithdrawsOld(a) ==
  /\ At(a, "move", "cancel")
  /\ sent' = FALSE
  /\ Sends(<<0>>)
  /\ Goes(a, "ask")
  /\ UNCHANGED <<online, project, task, rem, now, tick, adding, desk, answers>>

(* archive_project keeps the commitments: tasks only lose their project.   *)
Archives(a) ==
  /\ At(a, "archive", "write")
  /\ IF project = "active"
     THEN project' = "archived" /\ task' = [task EXCEPT !.project = FALSE]
     ELSE UNCHANGED <<project, task>>
  /\ Ends(a)
  /\ UNCHANGED <<online, rem, now, sent, tick, toDesk, adding, desk, answers>>

(***************************************************************************)
(* organizer_scheduler: of the reminders still pending, what this session  *)
(* has not asked for yet is asked for.  A command may run between the read *)
(* and the look at notification_requests_sent ("late_tick").               *)
(***************************************************************************)
TickReads ==
  /\ online /\ tick = 0
  /\ rem' = Settled(rem)
  /\ tick' = IF rem'.status = "pending" /\ (~sent \/ "late_tick" \in RemindersEnv)
             THEN rem'.at ELSE 0
  /\ UNCHANGED <<online, project, task, now, act, sent, toDesk, adding, desk, answers>>

TickAsks_Mut ==
  /\ tick # 0
  /\ tick' = 0
  /\ UNCHANGED <<online, project, task, rem, now, act, sent, toDesk, adding, desk, answers>>

TickAsks ==
  /\ tick # 0
  /\ IF sent THEN UNCHANGED <<sent, toDesk>> ELSE Request(tick)
  /\ tick' = 0
  /\ UNCHANGED <<online, project, task, rem, now, act, adding, desk, answers>>

(***************************************************************************)
(* The desktop: a cancel acts at once; a request whose time is past is     *)
(* refused, the others wait for the permission and replace what is held.   *)
(***************************************************************************)
DeskReceives ==
  /\ toDesk # <<>>
  /\ toDesk' = Tail(toDesk)
  /\ LET m == Head(toDesk) IN
       IF m = 0        THEN desk' = 0 /\ UNCHANGED <<adding, answers>>
       ELSE IF m < now THEN answers' = Append(answers, FALSE) /\ UNCHANGED <<adding, desk>>
       ELSE                 adding' = Append(adding, m) /\ UNCHANGED <<desk, answers>>
  /\ UNCHANGED <<online, project, task, rem, now, act, sent, tick>>

DeskAdds ==
  /\ adding # <<>>
  /\ adding' = Tail(adding)
  /\ \E ok \in {TRUE} \cup {"denied" \notin RemindersEnv} :
       /\ desk' = IF ok THEN Head(adding) ELSE desk
       /\ answers' = IF online THEN Append(answers, ok) ELSE answers
  /\ UNCHANGED <<online, project, task, rem, now, act, sent, tick, toDesk>>

DeskRings ==
  /\ desk # 0 /\ desk <= now
  /\ desk' = 0
  /\ UNCHANGED <<online, project, task, rem, now, act, sent, tick, toDesk, adding, answers>>

(* update_notification_state: by the reminder alone, whatever the time the *)
(* answer is about.                                                        *)
NotificationResult ==
  /\ online /\ answers # <<>>
  /\ rem' = [rem EXCEPT !.note = IF Head(answers) THEN "scheduled" ELSE "failed"]
  /\ answers' = Tail(answers)
  /\ UNCHANGED <<online, project, task, now, act, sent, tick, toDesk, adding, desk>>

Clock ==
  /\ now < MaxTime
  /\ now' = now + 1
  /\ UNCHANGED <<online, project, task, rem, act, sent, tick, toDesk, adding, desk, answers>>

(* The session ends: its commands, its scheduler and its messages go with  *)
(* it; the store and the system's notifications stay.                      *)
RemindersDrop ==
  /\ act' = [a \in Actors |-> IF a = "tool" THEN act[a] ELSE Off]
  /\ sent' = FALSE /\ tick' = 0 /\ toDesk' = <<>> /\ answers' = <<>>
  /\ UNCHANGED <<project, task, rem, now, adding, desk>>

Command(a) ==
  \/ CreatesProject(a) \/ CreatesTask(a) \/ CreatesReminder(a) \/ Asks(a)
  \/ Completes(a) \/ Withdraws(a)
  \/ ChecksMove(a) \/ Moves(a) \/ WithdrawsOld(a) \/ Archives(a)

Proceeds(a) == Command(a) /\ (tick = 0 \/ "late_tick" \in RemindersEnv)

RemindersStep ==
  \/ \E a \in Actors : Proceeds(a)
  \/ DeskRings

(***************************************************************************)
(* Once every message of this session has arrived, a pending reminder that *)
(* it asked for and the store calls scheduled is held by the desktop for   *)
(* its own time, not for one it was moved away from.  (Refuted with        *)
(* "both_move", once there are three commands: the panel's request goes    *)
(* out with its own time after the tool's move, and the tool asks for      *)
(* none because the reminder counts as asked for.  A scheduler's request   *)
(* of the row before a move does the same, with "late_tick".)              *)
(***************************************************************************)
Arrived ==
  /\ online /\ toDesk = <<>> /\ adding = <<>> /\ answers = <<>> /\ tick = 0
  /\ \A a \in Actors : act[a] = Off

NotificationFollows ==
  (Arrived /\ sent /\ rem.status = "pending" /\ rem.note = "scheduled" /\ rem.at > now)
    => desk = rem.at

(***************************************************************************)
(* A pending reminder gets the desktop's answer, or comes to its end,      *)
(* while a session is connected: restarts and moves lose none.             *)
(***************************************************************************)
ReminderIsAsked ==
  (rem.status = "pending" /\ rem.note = "pending")
    ~> (rem.note # "pending" \/ rem.status # "pending" \/ ~online)

(***************************************************************************)
(* A completed task is quiet: the desktop holds no notification of it.     *)
(* Refuted by TLC (the tool bridge withdraws none; a late tick asks again; *)
(* a cancel overtakes a request that waits for the permission).            *)
(***************************************************************************)
CompletedStaysQuiet == (Arrived /\ task.status = "completed") => desk = 0

(***************************************************************************)
(* A reminder the store calls delivered was on the desktop.                *)
(* Refuted by TLC: one that was refused is delivered after two minutes.    *)
(***************************************************************************)
DeliveredWasScheduled == rem.status = "delivered" => rem.note = "scheduled"

(***************************************************************************)
(* A task belongs to no archived project.  Refuted by TLC: the project is  *)
(* archived between the two transactions of create_task.                   *)
(***************************************************************************)
TaskInLiveProject == task.project => project = "active"
=============================================================================
