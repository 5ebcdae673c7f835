------------------------------- MODULE MCRallyTap -----------------------------
(* One device and up to three bridges, the loops making three attempts.        *)
EXTENDS RallyTap
================================================================================
