------------------------------ MODULE Organizer ------------------------------
(***************************************************************************)
(* The organizer: reminders, a meeting and the newspapers over one session *)
(* whose receive loop and scheduler each do one thing at a time, and over  *)
(* the connection that may be lost and made again.                         *)
(***************************************************************************)
EXTENDS Reminders, Meetings, Editions

CONSTANTS
  MaxCommands,  \* bound: commands about the reminder, and about newspapers
                \* (one meeting bounds its own)
  MaxMixed,     \* bound: commands when they are of more than one part
  MaxDrops      \* bound: lost connections

ASSUME OrganizerAssumption == MaxMixed \in Nat /\ MaxCommands \in Nat /\ MaxDrops \in Nat

VARIABLES given, drops   \* commands given to each part, connections lost

vars == <<online, rvars, mvars, evars, given, drops>>

Parts == {"reminders", "meetings", "editions"}

OrganizerInit ==
  /\ online = TRUE
  /\ RemindersInit /\ MeetingsInit /\ EditionsInit
  /\ given = [p \in Parts |-> 0] /\ drops = 0

Given(p) ==
  /\ p # "meetings" => given[p] < MaxCommands
  /\ (\E q \in Parts \ {p} : given[q] > 0) => given["reminders"] + given["meetings"] + given["editions"] < MaxMixed
  /\ given' = [given EXCEPT ![p] = @ + 1]
  /\ UNCHANGED drops

(* A command: the panel's wait for the receive loop, and hold it.          *)
Commands ==
  \/ /\ Given("reminders")
     /\ \E a \in Actors : (a = "hud" => HudFree) /\ Begins(a)
     /\ UNCHANGED <<mvars, evars>>
  \/ /\ Given("meetings")
     /\ StartMeeting \/ EndMeeting \/ Confirms("voice") \/ (HudFree /\ Confirms("hud"))
     /\ UNCHANGED <<rvars, evars>>
  \/ /\ Given("editions")
     /\ EditionsCommand \/ (act["hud"] = Off /\ HudFree /\ EditionsPanel)
     /\ UNCHANGED <<rvars, mvars>>

OthersOfReminders == UNCHANGED <<mvars, evars, given, drops>>

Reminds == (TickAsks \/ (SchedulerFree /\ TickReads)) /\ OthersOfReminders
Delivers == (DeskReceives \/ DeskAdds \/ (HudFree /\ NotificationResult)) /\ OthersOfReminders

(* Midnight is the last moment of the clock.                               *)
Passes ==
  /\ Clock
  /\ IF now' = MaxTime THEN NextDay ELSE UNCHANGED evars
  /\ UNCHANGED <<mvars, given, drops>>

RemindersTurn == (RemindersStep /\ OthersOfReminders) \/ Reminds \/ Delivers

MeetingsTurn == MeetingsStep /\ UNCHANGED <<rvars, evars, given, drops>>
OthersOfEditions == UNCHANGED <<rvars, mvars, given, drops>>
EditionsTurn == ((tick = 0 /\ EditionsDue) \/ EditionsStep) /\ OthersOfEditions

(***************************************************************************)
(* The end of the connection is noticed by the receive loop, so after what *)
(* it awaits; Session.run then cancels the session's tasks.                *)
(***************************************************************************)
Drop ==
  /\ online /\ drops < MaxDrops
  /\ HudFree /\ act["hud"] = Off
  /\ online' = FALSE
  /\ drops' = drops + 1
  /\ RemindersDrop /\ MeetingsDrop /\ EditionsDrop
  /\ UNCHANGED given

Connect ==
  /\ ~online
  /\ online' = TRUE
  /\ UNCHANGED <<rvars, mvars, evars, given, drops>>

OrganizerNext ==
  Commands \/ Passes \/ RemindersTurn \/ MeetingsTurn \/ EditionsTurn \/ Drop \/ Connect

(***************************************************************************)
(* The threads end, the messages arrive and the calls of the model return, *)
(* and each pass of the scheduler begins with the reminders, however often *)
(* it is at a newspaper (the strong one).  The owner, the clock and the    *)
(* connection owe nothing.                                                 *)
(***************************************************************************)
Fairness ==
  /\ WF_vars(Reminds /\ TickAsks) /\ SF_vars(Reminds /\ TickReads)
  /\ WF_vars(Delivers)
  /\ \A a \in Actors : WF_vars(Proceeds(a) /\ OthersOfReminders)
  /\ \A w \in {"sched", "hud"} : WF_vars((Writes(w) \/ Briefs(w)) /\ OthersOfEditions)

OrganizerSpec == OrganizerInit /\ [][OrganizerNext]_vars /\ Fairness
=============================================================================
