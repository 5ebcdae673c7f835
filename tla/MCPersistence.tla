--------------------------- MODULE MCPersistence ---------------------------
(* Two courts and a few changes, with any number of saves, stops, crashes,   *)
(* boots, loads and deletions between them.                                  *)
EXTENDS Persistence
==============================================================================
