----------------------------- MODULE MCOrganizer -----------------------------
(* Organizer for model checking.                                           *)
EXTENDS Organizer
==============================================================================
