------------------------------ MODULE MCClubPlay ------------------------------
(* Two phones on one club court. *)
EXTENDS ClubPlay
==============================================================================
