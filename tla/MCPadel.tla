------------------------------- MODULE MCPadel --------------------------------
(* A best of three with the shortest sets and tiebreaks, which START_MATCH    *)
(* takes unchecked, and a single set to six games with the golden point,      *)
(* where 7-5 and 7-6 can occur.                                               *)
EXTENDS PadelMatch

MCConfigs ==
  {[bestOf |-> 3, gamesPerSet |-> 1, tiebreakPoints |-> 2, goldenPoint |-> FALSE,
    initialScore |-> Nil, initialServer |-> "A"],
   [bestOf |-> 1, gamesPerSet |-> 6, tiebreakPoints |-> 7, goldenPoint |-> TRUE,
    initialScore |-> Nil, initialServer |-> "B"]}
==============================================================================
