---------------------------- MODULE MCOrganizer -----------------------------
EXTENDS Organizer
=============================================================================
