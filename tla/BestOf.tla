-------------------------------- MODULE BestOf --------------------------------
(***************************************************************************)
(* What a match of any sport promises: sets are won one at a time, the     *)
(* first player to win half of them, rounded up, has won the match, and    *)
(* from then on nothing changes until a new match begins.  How points make *)
(* a set, and what a referee corrects, is the business of the detailed     *)
(* specification.                                                          *)
(***************************************************************************)
EXTENDS Naturals

CONSTANTS
  Players,
  NoWinner   \* not a player

VARIABLES
  needed,   \* the sets it takes to win the match
  sets,     \* the sets each player has won
  winner

vars == <<needed, sets, winner>>

Init ==
  /\ needed \in Nat \ {0}
  /\ sets = [p \in Players |-> 0]
  /\ winner = NoWinner

\* A new match, of any length.
Begin == Init'

WinSet(p) ==
  /\ winner = NoWinner
  /\ sets' = [sets EXCEPT ![p] = @ + 1]
  /\ winner' = IF sets[p] + 1 = needed THEN p ELSE NoWinner
  /\ UNCHANGED needed

Next == Begin \/ \E p \in Players : WinSet(p)

Spec == Init /\ [][Next]_vars
==============================================================================
