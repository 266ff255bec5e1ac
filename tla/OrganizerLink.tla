---------------------------- MODULE OrganizerLink ----------------------------
(***************************************************************************)
(* What the parts of the organizer share: the one session of               *)
(* server/main.py they talk to the owner through.                          *)
(***************************************************************************)
VARIABLE online  \* the HUD session is connected
=============================================================================
