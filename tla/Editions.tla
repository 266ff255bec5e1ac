------------------------------ MODULE Editions ------------------------------
(***************************************************************************)
(* The newspapers and briefings of server/organizer.py: one subscription,  *)
(* its edition of each day, and one kind of briefing, written by the       *)
(* scheduler of server/main.py or because the owner asks.  An edition is   *)
(* minutes of work between reading the subscription and saving.            *)
(***************************************************************************)
EXTENDS Naturals, OrganizerLink

CONSTANTS
  MaxDays,     \* bound: days that pass
  MaxPrompts   \* bound: texts of the editorial goal

ASSUME EditionsAssumption == MaxDays \in Nat \ {0} /\ MaxPrompts \in Nat \ {0}

VARIABLES
  paper,     \* the subscription's row: its goal (0: no row), enabled
  prompts,   \* goals written so far
  day,       \* today
  edition,   \* per day, the edition's row
  writer,    \* generate_intelligence_edition, per place that called it
  retry,     \* intelligence_retry_after is ahead
  wanted,    \* the briefing is enabled
  brief,     \* per day, the briefing's row
  briefer    \* generate_briefing, per place: the day it writes for, or 0

evars == <<paper, prompts, day, edition, writer, retry, wanted, brief, briefer>>

Writers == {"sched", "hud", "voice"}
Days == 1..MaxDays
NoEdition == [goal |-> 0, by |-> "none"]
Rests == [step |-> "none", day |-> 0, goal |-> 0]

EditionsInit ==
  /\ paper = [goal |-> 0, on |-> FALSE]
  /\ prompts = 0
  /\ day = 1
  /\ edition = [d \in Days |-> NoEdition]
  /\ writer = [w \in Writers |-> Rests]
  /\ retry = FALSE
  /\ wanted = FALSE
  /\ brief = [d \in Days |-> "none"]
  /\ briefer = [w \in {"sched", "hud"} |-> 0]

Exists == paper.goal # 0

(* The receive loop is free: it awaits what the panel asked for.           *)
HudFree == writer["hud"] = Rests /\ briefer["hud"] = 0

(* The scheduler's loop does one thing at a time.                          *)
SchedulerFree == writer["sched"] = Rests /\ briefer["sched"] = 0

(* create_intelligence_subscription, with the first edition if asked for.  *)
Subscribes(w) ==
  /\ w \in {"hud", "voice"} /\ writer[w] = Rests
  /\ ~Exists /\ prompts = 0
  /\ prompts' = 1
  /\ \E on \in BOOLEAN : paper' = [goal |-> 1, on |-> on]
  /\ writer' \in {writer, [writer EXCEPT ![w].step = "read"]}
  /\ UNCHANGED <<online, day, edition, retry, wanted, brief, briefer>>

Rewrites ==
  /\ Exists
  /\ \/ prompts < MaxPrompts /\ prompts' = prompts + 1 /\ paper' = [paper EXCEPT !.goal = prompts']
     \/ paper' = [paper EXCEPT !.on = ~@] /\ UNCHANGED prompts
  /\ UNCHANGED <<online, day, edition, writer, retry, wanted, brief, briefer>>

(* The editions go with their subscription (ON DELETE CASCADE).            *)
Unsubscribes ==
  /\ Exists
  /\ paper' = [goal |-> 0, on |-> FALSE]
  /\ edition' = [d \in Days |-> NoEdition]
  /\ UNCHANGED <<online, prompts, day, writer, retry, wanted, brief, briefer>>

AsksEdition ==
  /\ Exists
  /\ writer' = [writer EXCEPT !["hud"].step = "read"]
  /\ UNCHANGED <<online, paper, prompts, day, edition, retry, wanted, brief, briefer>>

(* due_intelligence_subscriptions: enabled, and no edition of today.       *)
EditionDue ==
  /\ online /\ SchedulerFree /\ ~retry
  /\ Exists /\ paper.on /\ edition[day] = NoEdition
  /\ writer' = [writer EXCEPT !["sched"].step = "read"]
  /\ UNCHANGED <<online, paper, prompts, day, edition, retry, wanted, brief, briefer>>

(***************************************************************************)
(* generate_intelligence_edition: the subscription is read; the day is the *)
(* day of this moment; then planning; then searching, reading and writing, *)
(* which may fail; then the save, which asks for the subscription again    *)
(* and keeps the edition there is unless the owner asked.                  *)
(***************************************************************************)
(* The scheduler tries again in fifteen minutes, the owner is told.        *)
Fails(w) ==
  /\ writer' = [writer EXCEPT ![w] = Rests]
  /\ retry' = (retry \/ w = "sched")

ReadsGoal(w) ==
  /\ writer[w].step = "read"
  /\ IF Exists
     THEN /\ writer' = [writer EXCEPT ![w] = [step |-> "plan", day |-> day, goal |-> paper.goal]]
          /\ UNCHANGED retry
     ELSE Fails(w)
  /\ UNCHANGED <<online, paper, prompts, day, edition, wanted, brief, briefer>>

(* The plan of the search falls back to the goal itself; it never fails.   *)
Plans(w) ==
  /\ writer[w].step = "plan"
  /\ writer' = [writer EXCEPT ![w].step = "work"]
  /\ UNCHANGED <<online, paper, prompts, day, edition, retry, wanted, brief, briefer>>

Researches(w) ==
  /\ writer[w].step = "work"
  /\ \/ writer' = [writer EXCEPT ![w].step = "save"] /\ UNCHANGED retry
     \/ Fails(w)
  /\ UNCHANGED <<online, paper, prompts, day, edition, wanted, brief, briefer>>

Edition(w) == [goal |-> writer[w].goal, by |-> IF w = "sched" THEN "sched" ELSE "owner"]

Saves_Mut(w) ==
  /\ writer[w].step = "save"
  /\ edition' = IF Exists THEN [edition EXCEPT ![writer[w].day] = Edition(w)] ELSE edition
  /\ writer' = [writer EXCEPT ![w] = Rests]
  /\ retry' = FALSE
  /\ UNCHANGED <<online, paper, prompts, day, wanted, brief, briefer>>

Saves(w) ==
  /\ writer[w].step = "save"
  /\ IF Exists
     THEN /\ writer' = [writer EXCEPT ![w] = Rests]
          /\ retry' = (retry /\ w # "sched")
          /\ edition' = [edition EXCEPT ![writer[w].day] =
               IF w = "sched" /\ @ # NoEdition THEN @ ELSE Edition(w)]
     ELSE Fails(w) /\ UNCHANGED edition
  /\ UNCHANGED <<online, paper, prompts, day, wanted, brief, briefer>>

(* A newer turn ends the spoken command's work, not a save in its thread.  *)
TurnEnds ==
  /\ writer["voice"].step \in {"read", "plan", "work"}
  /\ writer' = [writer EXCEPT !["voice"] = Rests]
  /\ UNCHANGED <<online, paper, prompts, day, edition, retry, wanted, brief, briefer>>

(***************************************************************************)
(* generate_briefing: due when today has none, or asked for; the owner's   *)
(* replaces, the scheduler's does not (INSERT OR IGNORE).                  *)
(***************************************************************************)
BriefingDue ==
  /\ online /\ SchedulerFree /\ wanted /\ brief[day] = "none"
  /\ briefer' = [briefer EXCEPT !["sched"] = day]
  /\ UNCHANGED <<online, paper, prompts, day, edition, writer, retry, wanted, brief>>

SetsBriefing ==
  /\ wanted' = ~wanted
  /\ UNCHANGED <<online, paper, prompts, day, edition, writer, retry, brief, briefer>>

AsksBriefing ==
  /\ briefer' = [briefer EXCEPT !["hud"] = day]
  /\ UNCHANGED <<online, paper, prompts, day, edition, writer, retry, wanted, brief>>

Briefs(w) ==
  /\ briefer[w] # 0
  /\ briefer' = [briefer EXCEPT ![w] = 0]
  /\ brief' = [brief EXCEPT ![briefer[w]] =
       IF w = "hud" THEN "owner" ELSE IF @ = "none" THEN "sched" ELSE @]
  /\ UNCHANGED <<online, paper, prompts, day, edition, writer, retry, wanted>>

(* Midnight; or the fifteen minutes after a failure are over.              *)
NextDay ==
  /\ day < MaxDays
  /\ day' = day + 1
  /\ UNCHANGED <<online, paper, prompts, edition, writer, retry, wanted, brief, briefer>>

RetryAgain ==
  /\ retry
  /\ retry' = FALSE
  /\ UNCHANGED <<online, paper, prompts, day, edition, writer, wanted, brief, briefer>>

(* The session ends; a save already in its thread is written all the same. *)
EditionsDrop ==
  /\ writer' = [w \in Writers |-> IF writer[w].step = "save" THEN writer[w] ELSE Rests]
  /\ retry' = FALSE
  /\ UNCHANGED <<paper, prompts, day, edition, wanted, brief, briefer>>

Writes(w) == ReadsGoal(w) \/ Plans(w) \/ Researches(w) \/ Saves(w)

EditionsDue == EditionDue \/ BriefingDue

EditionsStep ==
  \/ TurnEnds \/ RetryAgain
  \/ \E w \in Writers : Writes(w)
  \/ \E w \in {"sched", "hud"} : Briefs(w)

(* What the owner asks for, by voice and in the panel.                     *)
EditionsCommand == online /\ (Subscribes("voice") \/ SetsBriefing)
EditionsPanel ==
  online /\ (Subscribes("hud") \/ Rewrites \/ Unsubscribes \/ AsksEdition \/ AsksBriefing)

(***************************************************************************)
(* The scheduler never replaces an edition or a briefing: what it found    *)
(* missing minutes ago may be there when it saves, and the owner's stays.  *)
(***************************************************************************)
ScheduledNeverReplaces ==
  [][\A d \in Days :
       /\ (edition[d] # NoEdition /\ edition'[d] # edition[d]) => edition'[d].by # "sched"
       /\ (brief[d] # "none" /\ brief'[d] # brief[d]) => brief'[d] = "owner"]_evars

(***************************************************************************)
(* Today's edition follows today's goal, once nothing is being written.    *)
(* Refuted by TLC: the goal is rewritten while the edition is written, and *)
(* the day counts as served.                                               *)
(***************************************************************************)
EditionFollowsGoal ==
  (\A w \in Writers : writer[w] = Rests) =>
    (edition[day] # NoEdition /\ edition[day].by = "sched" => edition[day].goal = paper.goal)
=============================================================================
