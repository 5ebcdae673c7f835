------------------------------- MODULE MCAccess -------------------------------
(* One owner and one referee; the owner's tab may referee as well. *)
EXTENDS Access
==============================================================================
