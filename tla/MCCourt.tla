------------------------------- MODULE MCCourt --------------------------------
(* Two courts that share one PIN and a four-slot bracket in which the owner   *)
(* seeds a semifinal, whose winner climbs to the final, and may bind either   *)
(* match to either court.  OneRetires: a court is put into maintenance or     *)
(* archived only while it is alone in the catalog.                            *)
EXTENDS CourtFlow, TLC

MCOwnerSlots == {<<<<1, 0>>, "A">>}
MCBoundMatches == {<<1, 0>>, FinalMatch}
Symmetry == Permutations(Courts)
OneRetires ==
  \A c \in Courts :
    inventory[c] \in {"FRESH", "ACTIVE"} \/ \A d \in Courts \ {c} : inventory[d] = "FRESH"
==============================================================================
