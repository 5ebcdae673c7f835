------------------------------- MODULE Bracket -------------------------------
(***************************************************************************)
(* The bracket as the owner's socket handlers and the court flow drive it: *)
(* BracketHandler.ts over BracketEngine.ts.  Courts, persistence and the   *)
(* release of the courts are in CourtFlow and Persistence; here the        *)
(* question is what the recorded results mean: who stands in a slot, and   *)
(* what is left of a result after it is undone.                            *)
(*                                                                         *)
(* OwnerSlots bounds the slots the owner writes by hand in one instance.   *)
(* byHand is a history variable: the slots the owner wrote where the       *)
(* engine would have written or has already read a name (a later round, a  *)
(* decided match, the third-place match).                                  *)
(***************************************************************************)
EXTENDS BracketEngine

CONSTANT OwnerSlots   \* bound: the <<match, slot>> pairs the owner edits

ASSUME OwnerSlotsAssumption == OwnerSlots \subseteq Matches \X Slots

VARIABLES bracket, byHand

vars == <<bracket, byHand>>

(* The bracket stays one the engine's types allow.                            *)
TypeOK ==
  /\ bracket \in Brackets
  /\ byHand \subseteq Matches \X Slots

Init == bracket = NoBracket /\ byHand = {}

\* BRACKET_CREATE: replaces any existing bracket.
OnCreate ==
  /\ \E third \in BOOLEAN : bracket' = Create(third)
  /\ byHand' = {}

\* BRACKET_ASSIGN_PLAYER.
OnAssignPlayer(m, s) ==
  /\ Found(bracket, m)
  /\ <<m, s>> \in OwnerSlots
  /\ \E name \in Names \cup {Nobody} : bracket' = AssignPlayer(bracket, m, s, name)
  /\ byHand' = IF m[1] > 1 \/ bracket.state[m] = "COMPLETED"
               THEN byHand \cup {<<m, s>>} ELSE byHand

\* BRACKET_SET_WINNER: the owner decides the match; no loser is fed to the
\* third-place match on this path.
OnSetWinner(m, s) ==
  /\ CanSetWinner(bracket, m, s)
  /\ bracket' = SetWinner(bracket, m, s)
  /\ UNCHANGED byHand

\* handleCourtMatchWon: the match on the court bound to m was won by name.
CourtResult(m, name) ==
  /\ CanDecide(bracket, m, name)
  /\ bracket' = Decide(bracket, m, name)
  /\ UNCHANGED byHand

\* BRACKET_UNDO_MATCH, of any match, decided or not.
OnUndoMatch(m) ==
  /\ Found(bracket, m)
  /\ bracket' = UndoMatch(bracket, m)
  /\ UNCHANGED byHand

\* BRACKET_RESET, confirmed.
OnReset ==
  /\ bracket' = NoBracket
  /\ byHand' = {}

Next ==
  \/ OnCreate
  \/ \E m \in Matches, s \in Slots : OnAssignPlayer(m, s)
  \/ \E m \in Matches, s \in Slots : OnSetWinner(m, s)
  \/ \E m \in Matches, name \in Names : CourtResult(m, name)
  \/ \E m \in Matches : OnUndoMatch(m)
  \/ OnReset

Spec == Init /\ [][Next]_vars

------------------------------------------------------------------------------

(* The stored statuses are never stale after any mix of edits, results and    *)
(* undo cascades: Agrees, of the bracket in every state.                      *)
StatusesAgree == Agrees(bracket)

(* Who a later slot holds, where the owner did not write it: nobody while the *)
(* match that feeds it is undecided, and that match's winner once it is       *)
(* decided (unless the owner rewrote the decided match).  Advancing and the   *)
(* undo cascade have to keep this together: a result undone anywhere leaves   *)
(* no name behind it.                                                         *)
Target(m) == <<Downstream(m), Side(m)>>
Entry(b, m) == b.player[Downstream(m)][Side(m)]
Rewritten(hand, m) == <<m, "A">> \in hand \/ <<m, "B">> \in hand

Propagates(b, hand) ==
  \A m \in NonFinal : Target(m) \notin hand =>
    /\ b.state[m] # "COMPLETED" => Entry(b, m) = Nobody
    /\ b.state[m] = "COMPLETED" /\ ~Rewritten(hand, m) => Entry(b, m) = WinnerName(b, m)

(* Propagates, of the bracket in every state.                                 *)
Propagation == Propagates(bracket, byHand)

(* A decided match of the main bracket still has its winner standing in it,   *)
(* unless the owner rewrote that slot: no undo elsewhere takes the winner     *)
(* away and leaves the result (the third-place match can lose its winner so). *)
Stand(b, hand) ==
  \A m \in Main :
    b.state[m] = "COMPLETED" /\ <<m, b.winner[m]>> \notin hand => WinnerName(b, m) # Nobody

(* Stand, of the bracket in every state.                                      *)
WinnersStand == Stand(bracket, byHand)

LoserName(b, m) == b.player[m][Other(b.winner[m])]

\* Mutant: first and second are exchanged.
PodiumReversed(b) ==
  [champion |-> LoserName(b, FinalMatch), runnerUp |-> WinnerName(b, FinalMatch),
   thirdPlace |-> IF b.state[ThirdPlace] = "COMPLETED" THEN WinnerName(b, ThirdPlace) ELSE Nobody]

\* derivePodium of a completed bracket.
Podium(b) ==
  [champion |-> WinnerName(b, FinalMatch), runnerUp |-> LoserName(b, FinalMatch),
   thirdPlace |-> IF b.state[ThirdPlace] = "COMPLETED" THEN WinnerName(b, ThirdPlace) ELSE Nobody]

(* The podium the television shows once the bracket is COMPLETED, whatever    *)
(* was undone and decided anew on the way, if the owner wrote none of these   *)
(* slots since: champion and runner-up are what the semifinals sent to the    *)
(* final, and the third is one of their losers, or nobody.                    *)
PodiumStands ==
  LET semis == {m \in NonFinal : IsSemifinal(m)}
      decided == {m \in semis : bracket.state[m] = "COMPLETED"}
      podium == Podium(bracket)
  IN  /\ bracket.status = "COMPLETED"
      /\ \A m \in semis \cup {FinalMatch, ThirdPlace} : ~Rewritten(byHand, m)
      => /\ podium.champion # Nobody
         /\ {podium.champion, podium.runnerUp} =
              {IF m \in decided THEN WinnerName(bracket, m) ELSE Nobody : m \in semis}
         /\ podium.thirdPlace \in {LoserName(bracket, m) : m \in decided} \cup {Nobody}
=============================================================================
