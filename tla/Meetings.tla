------------------------------ MODULE Meetings ------------------------------
(***************************************************************************)
(* One meeting of server/organizer.py and server/main.py: its lines are    *)
(* stored in threads of their own, its summary is written by a background  *)
(* task, and its action item becomes a task of the ledger when the owner   *)
(* confirms it, in the panel or by voice.  Lines count as equally long, so *)
(* that a number of them fits into the characters of a summary.            *)
(***************************************************************************)
EXTENDS Naturals, Sequences, OrganizerLink

CONSTANTS
  Lines,        \* what may be said in the meeting
  Window,       \* lines that fit into the 30000 characters of a summary's transcript
  MeetingsEnv   \* what may happen: "both" (panel and voice confirm at once),
                \* "dies" (the process dies, or the store fails, between two
                \* transactions of a confirmation), "store_fails" (a
                \* transaction of a line or of the summary fails)

ASSUME WindowAssumption == Window \in Nat

VARIABLES
  mode,         \* meeting_mode, with active_meeting_session_id
  meeting,      \* the status of the meeting's row
  said,         \* the lines recorded so far
  storing,      \* meeting_persist_tasks: lines not yet stored
  unsaved,      \* history: the lines whose transaction failed
  transcript,   \* the lines in the store, in the order of their ids
  summary,      \* the background task that finishes the meeting
  heard,        \* the lines the stored summary was made from
  item,         \* the status of the meeting's action item
  made,         \* tasks made from the item
  confirmer     \* per place: where its confirmation is

mvars == <<mode, meeting, said, storing, unsaved, transcript, summary, heard, item, made, confirmer>>

Places == {"hud", "voice"}
NoSummary == [step |-> "none", read |-> {}]

Stored == {transcript[i] : i \in 1..Len(transcript)}

(* meeting_transcript: the lines in order, cut to the last 30000           *)
(* characters.                                                             *)
Recent == {transcript[i] : i \in {j \in 1..Len(transcript) : Len(transcript) < j + Window}}

MeetingsInit ==
  /\ mode = FALSE
  /\ meeting = "none"
  /\ said = {} /\ storing = {} /\ unsaved = {} /\ transcript = <<>>
  /\ summary = NoSummary
  /\ heard = {}
  /\ item = "none"
  /\ made = 0
  /\ confirmer = [p \in Places |-> "idle"]

(* set_meeting_session_mode, on: the row, then the mode.                   *)
StartMeeting ==
  /\ online /\ ~mode /\ meeting = "none"
  /\ meeting' = "recording"
  /\ mode' = TRUE
  /\ UNCHANGED <<online, said, storing, unsaved, transcript, summary, heard, item, made, confirmer>>

(* record_meeting_transcript: a line said in meeting mode is stored later. *)
Records(l) ==
  /\ online /\ mode /\ l \notin said
  /\ said' = said \cup {l}
  /\ storing' = storing \cup {l}
  /\ UNCHANGED <<online, mode, meeting, unsaved, transcript, summary, heard, item, made, confirmer>>

(* append_meeting_transcript: threads finish in any order.                 *)
Stores(l) ==
  /\ l \in storing
  /\ storing' = storing \ {l}
  /\ transcript' = Append(transcript, l)
  /\ UNCHANGED <<online, mode, meeting, said, unsaved, summary, heard, item, made, confirmer>>

(* The insert fails; nobody but the gather of the summary learns of it.    *)
StoreFails(l) ==
  /\ "store_fails" \in MeetingsEnv
  /\ l \in storing
  /\ storing' = storing \ {l}
  /\ unsaved' = unsaved \cup {l}
  /\ UNCHANGED <<online, mode, meeting, said, transcript, summary, heard, item, made, confirmer>>

(* set_meeting_session_mode, off: the mode goes first, so no line is       *)
(* recorded once the summary has begun.                                    *)
EndMeeting ==
  /\ online /\ mode
  /\ mode' = FALSE
  /\ summary' = [step |-> "gather", read |-> {}]
  /\ UNCHANGED <<online, meeting, said, storing, unsaved, transcript, heard, item, made, confirmer>>

(***************************************************************************)
(* finish_meeting_session: every line still being stored is waited for,    *)
(* stored or failed, the end of the transcript is read, the model or the   *)
(* fallback writes the summary, and finish_meeting stores it with the      *)
(* action items.                                                           *)
(***************************************************************************)
Gathers_Mut ==
  /\ summary.step = "gather"
  /\ summary' = [summary EXCEPT !.step = "write", !.read = Recent]
  /\ UNCHANGED <<online, mode, meeting, said, storing, unsaved, transcript, heard, item, made, confirmer>>

Gathers ==
  /\ summary.step = "gather" /\ storing = {}
  /\ summary' = [summary EXCEPT !.step = "write", !.read = Recent]
  /\ UNCHANGED <<online, mode, meeting, said, storing, unsaved, transcript, heard, item, made, confirmer>>

(* Action items are proposed of something that was heard.                  *)
Finishes ==
  /\ summary.step = "write"
  /\ meeting' = "review"
  /\ heard' = summary.read
  /\ item' \in IF summary.read # {} THEN {"none", "proposed"} ELSE {"none"}
  /\ summary' = NoSummary
  /\ UNCHANGED <<online, mode, said, storing, unsaved, transcript, made, confirmer>>

(* The read or finish_meeting fails, and the task ends with it.            *)
SummaryFails ==
  /\ "store_fails" \in MeetingsEnv
  /\ summary.step = "write" \/ (summary.step = "gather" /\ storing = {})
  /\ summary' = NoSummary
  /\ UNCHANGED <<online, mode, meeting, said, storing, unsaved, transcript, heard, item, made, confirmer>>

(***************************************************************************)
(* confirm_meeting_actions: the item is read, the task is made, the item   *)
(* is marked and the meeting completed when nothing is proposed any more - *)
(* three transactions.                                                     *)
(***************************************************************************)
Confirms(p) ==
  /\ online /\ confirmer[p] = "idle"
  /\ meeting = "review" /\ (p = "voice" => item = "proposed")
  /\ ("both" \in MeetingsEnv \/ \A q \in Places : confirmer[q] = "idle")
  /\ confirmer' = [confirmer EXCEPT ![p] = IF item = "proposed" THEN "make" ELSE "close"]
  /\ UNCHANGED <<online, mode, meeting, said, storing, unsaved, transcript, summary, heard, item, made>>

Makes(p) ==
  /\ confirmer[p] = "make"
  /\ made' = made + 1
  /\ confirmer' = [confirmer EXCEPT ![p] = "mark"]
  /\ UNCHANGED <<online, mode, meeting, said, storing, unsaved, transcript, summary, heard, item>>

Marks(p) ==
  /\ confirmer[p] = "mark"
  /\ item' = "confirmed"
  /\ confirmer' = [confirmer EXCEPT ![p] = "close"]
  /\ UNCHANGED <<online, mode, meeting, said, storing, unsaved, transcript, summary, heard, made>>

Closes(p) ==
  /\ confirmer[p] = "close"
  /\ meeting' = IF item = "proposed" THEN meeting ELSE "completed"
  /\ confirmer' = [confirmer EXCEPT ![p] = "idle"]
  /\ UNCHANGED <<online, mode, said, storing, unsaved, transcript, summary, heard, item, made>>

(***************************************************************************)
(* The session ends: a summary under way is cancelled and not begun again; *)
(* a meeting still on is finished with the fallback, if the budget lasts.  *)
(***************************************************************************)
MeetingsDrop ==
  /\ mode' = FALSE
  /\ summary' \in IF mode THEN {NoSummary, [step |-> "gather", read |-> {}]} ELSE {NoSummary}
  /\ confirmer' = IF "dies" \in MeetingsEnv THEN [p \in Places |-> "idle"] ELSE confirmer
  /\ UNCHANGED <<meeting, said, storing, unsaved, transcript, heard, item, made>>

MeetingsStep ==
  \/ Gathers \/ Finishes \/ SummaryFails
  \/ \E l \in Lines : Records(l) \/ Stores(l) \/ StoreFails(l)
  \/ \E p \in Places : Makes(p) \/ Marks(p) \/ Closes(p)

(***************************************************************************)
(* A summary for review was made from the end of the stored meeting, and   *)
(* only a line whose transaction failed is not stored by then, although    *)
(* each line is stored by a thread of its own that the summary's task      *)
(* waits for.                                                              *)
(***************************************************************************)
SummaryHearsTheEnd ==
  meeting \in {"review", "completed"} => heard = Recent /\ said = Stored \cup unsaved

(***************************************************************************)
(* A summary for review was made from every line that was said.  Refuted   *)
(* by TLC: the first lines of a long meeting are cut off, and a line whose *)
(* transaction failed is left out without a word.                          *)
(***************************************************************************)
EveryLineIsHeard == meeting \in {"review", "completed"} => heard = said

(***************************************************************************)
(* A confirmed item is one task.  (Refuted with "both" or "dies": the item *)
(* is read, made a task and marked in three transactions.)                 *)
(***************************************************************************)
OneTaskPerItem == made <= 1 /\ (meeting = "completed" /\ item # "none" => made = 1)

(***************************************************************************)
(* A meeting that is over is reviewed in the end.  Refuted by TLC: the     *)
(* connection is lost while the summary is written.                        *)
(***************************************************************************)
MeetingsEnd == (meeting = "recording" /\ ~mode) ~> meeting # "recording"
=============================================================================
