------------------------------- MODULE MCMatch --------------------------------
(* Two kinds of match, each begun close to where it gets interesting: a best  *)
(* of three to 6 points with a handicap, where sets end and the deciding set  *)
(* has a middle, and a "best of two" to 11 from 9-9, which one set ends and   *)
(* where the serve changes to every point.                                    *)
EXTENDS MatchEngine

Points(a, b) == [p \in Players |-> IF p = "A" THEN a ELSE b]

MCConfigs ==
  {[pointsPerSet |-> 6, bestOf |-> 3, minDifference |-> 2, handicap |-> Points(4, 3),
    initialScore |-> Points(0, 4), initialServer |-> "A"],
   [pointsPerSet |-> 11, bestOf |-> 2, minDifference |-> 2, handicap |-> Points(9, 9),
    initialScore |-> Points(0, 0), initialServer |-> "B"]}
==============================================================================
