------------------------------ MODULE MCClubAdmin -----------------------------
(* Two administrators, their acts taking turns with the players'.              *)
EXTENDS ClubAdmin
================================================================================
