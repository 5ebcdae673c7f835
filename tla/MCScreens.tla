------------------------------- MODULE MCScreens ------------------------------
(* Two tournament courts, one club court and a match of two points.            *)
EXTENDS Screens
================================================================================
