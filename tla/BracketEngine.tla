---------------------------- MODULE BracketEngine ----------------------------
(***************************************************************************)
(* The single-elimination bracket of src/server/src/domain/BracketEngine.ts*)
(* as pure operators: every operator below takes the bracket record and    *)
(* returns the one the method leaves in this._bracket.  Error exits of a   *)
(* method are its CanXxx guard; a handler that gets an error changes       *)
(* nothing.                                                                *)
(*                                                                         *)
(* One instance has one size, Rounds = log2(numSlots).  A match is the pair*)
(* <<round, position>>; the third-place match 'TP-M1' is the pair          *)
(* <<Rounds + 1, 0>>, the round and position the code gives it.  Round     *)
(* names, timestamps and the bracket's own name are left out.              *)
(***************************************************************************)
EXTENDS Integers

CONSTANTS
  Rounds,   \* log2(numSlots)
  Names,    \* player names, after sanitizePlayerName
  Nobody,   \* an empty slot (null in the code)
  Courts,   \* court ids
  NoCourt   \* courtId = null

ASSUME RoundsAssumption == Rounds \in 2..5          \* VALID_BRACKET_SLOTS
ASSUME NobodyAssumption == Nobody \notin Names
ASSUME NoCourtAssumption == NoCourt \notin Courts

Slots == {"A", "B"}
Other(s) == IF s = "A" THEN "B" ELSE "A"

Pow2(k) ==
  CASE k = 0 -> 1 [] k = 1 -> 2 [] k = 2 -> 4 [] k = 3 -> 8 [] OTHER -> 16

\* The matches of create(): numSlots / 2^r of them in round r.
Main == {m \in (1..Rounds) \X (0..15) : m[2] < Pow2(Rounds - m[1])}
ThirdPlace == <<Rounds + 1, 0>>
Matches == Main \cup {ThirdPlace}

FinalMatch == <<Rounds, 0>>
IsSemifinal(m) == m[1] = Rounds - 1
NonFinal == {m \in Main : m[1] < Rounds}

\* Where a winner advances to: match floor(P/2) of the next round, slot A for
\* an even position and B for an odd one.
Side(m) == IF m[2] % 2 = 0 THEN "A" ELSE "B"
Downstream(m) == <<m[1] + 1, m[2] \div 2>>

Brackets ==
  [status     : {"NONE", "SETUP", "ACTIVE", "COMPLETED"},
   thirdPlace : BOOLEAN,
   player     : [Matches -> [Slots -> Names \cup {Nobody}]],
   winner     : [Matches -> Slots \cup {"none"}],
   state      : [Matches -> {"PENDING", "READY", "COMPLETED"}],
   court      : [Matches -> Courts \cup {NoCourt}]]

\* A fresh bracket in the given status; status "NONE" is this._bracket = null.
Blank(status, includeThirdPlace) ==
  [status     |-> status,
   thirdPlace |-> includeThirdPlace,
   player     |-> [m \in Matches |-> [s \in Slots |-> Nobody]],
   winner     |-> [m \in Matches |-> "none"],
   state      |-> [m \in Matches |-> "PENDING"],
   court      |-> [m \in Matches |-> NoCourt]]

NoBracket == Blank("NONE", FALSE)
Create(includeThirdPlace) == Blank("SETUP", includeThirdPlace)

\* requireBracket + findMatch: no NO_BRACKET and no MATCH_NOT_FOUND.
Found(b, m) ==
  /\ b.status # "NONE"
  /\ m \in Main \/ (b.thirdPlace /\ m = ThirdPlace)

\* computeStatus: a match nobody stands in is PENDING, any other one READY.
Open(slots) == IF slots["A"] = Nobody /\ slots["B"] = Nobody THEN "PENDING" ELSE "READY"

WinnerName(b, m) == b.player[m][b.winner[m]]

\* recomputeBracketStatus, from the match states st.
StatusFrom(third, st) ==
  IF st[FinalMatch] = "COMPLETED" THEN "COMPLETED"
  ELSE IF \E m \in Main \cup (IF third THEN {ThirdPlace} ELSE {}) :
            st[m] = "COMPLETED"
       THEN "ACTIVE" ELSE "SETUP"

(* The stored statuses of a bracket agree with its contents: a match is       *)
(* COMPLETED exactly when it has a winner, an undecided one is READY exactly  *)
(* when somebody stands in it, and the bracket's own status is the one        *)
(* recomputeBracketStatus would give now.                                     *)
Agrees(b) ==
  /\ \A m \in Matches :
       /\ b.state[m] = "COMPLETED" <=> b.winner[m] # "none"
       /\ b.state[m] # "COMPLETED" => b.state[m] = Open(b.player[m])
  /\ b.status # "NONE" => b.status = StatusFrom(b.thirdPlace, b.state)

------------------------------------------------------------------------------
(* assignPlayer: the owner writes a name into a slot, or clears it.  The slot *)
(* of a decided match is written too; only its status is left alone.          *)

\* Mutant: the status of a decided match is recomputed too.
AssignPlayerAlwaysOpen(b, m, s, name) ==
  LET slots == [b.player[m] EXCEPT ![s] = name]
  IN  [b EXCEPT !.player[m] = slots, !.state[m] = Open(slots)]

AssignPlayer(b, m, s, name) ==
  LET slots == [b.player[m] EXCEPT ![s] = name]
  IN  [b EXCEPT !.player[m] = slots,
                !.state[m] = IF b.state[m] = "COMPLETED" THEN "COMPLETED" ELSE Open(slots)]

------------------------------------------------------------------------------
(* setWinner: a READY match, won by an occupied slot; the winner advances.    *)

CanSetWinner(b, m, s) ==
  /\ Found(b, m)
  /\ b.state[m] = "READY"
  /\ b.player[m][s] # Nobody

SetWinner(b, m, s) ==
  LET next   == Downstream(m)
      slots  == [b.player[next] EXCEPT ![Side(m)] = b.player[m][s]]
      won    == [b.state EXCEPT ![m] = "COMPLETED"]
      states == IF m \notin NonFinal \/ b.state[next] = "COMPLETED"
                THEN won ELSE [won EXCEPT ![next] = Open(slots)]
  IN  [b EXCEPT !.winner[m] = s,
                !.player = IF m \in NonFinal THEN [@ EXCEPT ![next] = slots] ELSE @,
                !.state  = states,
                !.status = StatusFrom(b.thirdPlace, states)]

------------------------------------------------------------------------------
(* setThirdPlaceLoser: the loser of a decided semifinal goes to the           *)
(* third-place match, unless the slot is taken or that match is decided.      *)

CanFeedThirdPlace(b, m, loser) ==
  /\ b.thirdPlace /\ m \in Main /\ IsSemifinal(m)
  /\ b.state[m] = "COMPLETED" /\ b.winner[m] # loser

FeedThirdPlace(b, m, loser) ==
  LET name  == b.player[m][loser]
      slots == [b.player[ThirdPlace] EXCEPT ![Side(m)] = name]
  IN  IF \/ name = Nobody
         \/ b.player[ThirdPlace][Side(m)] # Nobody
         \/ b.state[ThirdPlace] = "COMPLETED"
      THEN b
      ELSE [b EXCEPT !.player[ThirdPlace] = slots, !.state[ThirdPlace] = Open(slots)]

------------------------------------------------------------------------------
(* handleCourtMatchWon: the match on a bound court ended and its winner's name*)
(* is looked up in the slots, A first; a semifinal also feeds its loser.      *)

NamedSlot(b, m, name) == IF b.player[m]["A"] = name THEN "A" ELSE "B"

CanDecide(b, m, name) ==
  /\ name \in {b.player[m][s] : s \in Slots} \ {Nobody}
  /\ CanSetWinner(b, m, NamedSlot(b, m, name))

Decide(b, m, name) ==
  LET s   == NamedSlot(b, m, name)
      won == SetWinner(b, m, s)
  IN  IF CanFeedThirdPlace(won, m, Other(s)) THEN FeedThirdPlace(won, m, Other(s)) ELSE won

------------------------------------------------------------------------------
(* undoMatch: cascadeUndo reverts m, empties the slot it advanced into and    *)
(* goes on from there while the matches it meets were decided.                *)

\* The matches on the way from a match to the final, itself left out.
Path ==
  [m \in Matches |-> {n \in Main : n[1] > m[1] /\ n[2] = m[2] \div Pow2(n[1] - m[1])}]

\* The matches cascadeUndo is called on.
Reverted(b, m) ==
  {m} \cup {n \in Path[m] :
              \A k \in Path[m] : k[1] <= n[1] => b.state[k] = "COMPLETED"}

\* Mutant: a reverted match leaves its winner's name in the next match.
EmptiedNothing(reverted) == {}

\* The slots it empties when it is called on the matches of reverted.
Emptied(reverted) == {<<Downstream(n), Side(n)>> : n \in reverted \cap NonFinal}

NameLeft(b, reverted, n, s) ==
  IF <<n, s>> \in Emptied(reverted) THEN Nobody ELSE b.player[n][s]

\* clearThirdPlaceSlot: a reverted semifinal empties the third-place slot that
\* still holds its loser.  The loser is looked up after the slot the semifinal
\* was reached through has been emptied, so a semifinal reached from a
\* quarterfinal finds no loser when the emptied slot was the loser's.
FreedThird(b, reverted) ==
  {s \in Slots :
     /\ b.thirdPlace
     /\ b.player[ThirdPlace][s] # Nobody
     /\ \E n \in reverted \cap NonFinal :
          /\ IsSemifinal(n) /\ s = Side(n) /\ b.winner[n] # "none"
          /\ b.player[ThirdPlace][s] = NameLeft(b, reverted, n, Other(b.winner[n]))}

\* Mutant: a match that only lost a name keeps its status.
RecomputedReverted(b, reverted, freed) == reverted

\* computeStatus runs on every match reverted or emptied, and on a third-place
\* match that lost a name and is not decided.
Recomputed(b, reverted, freed) ==
  reverted \cup {e[1] : e \in Emptied(reverted)} \cup
  (IF freed # {} /\ b.state[ThirdPlace] # "COMPLETED" THEN {ThirdPlace} ELSE {})

\* Mutant: the undo empties the next slot and does not go on from there.
UndoMatchAlone(b, m) ==
  LET left   == IF m \in NonFinal THEN AssignPlayer(b, Downstream(m), Side(m), Nobody) ELSE b
      states == [left.state EXCEPT ![m] = Open(left.player[m])]
  IN  [left EXCEPT !.winner[m] = "none", !.state = states,
                   !.status = StatusFrom(b.thirdPlace, states)]

UndoMatch(b, m) ==
  LET reverted == Reverted(b, m)
      freed    == FreedThird(b, reverted)
      again    == Recomputed(b, reverted, freed)
      left(n)  == [s \in Slots |-> IF n = ThirdPlace /\ s \in freed THEN Nobody
                                   ELSE NameLeft(b, reverted, n, s)]
      states   == [n \in Matches |-> IF n \in again THEN Open(left(n)) ELSE b.state[n]]
  IN  [b EXCEPT !.player = [n \in Matches |-> left(n)],
                !.winner = [n \in Matches |-> IF n \in reverted THEN "none" ELSE @[n]],
                !.state  = states,
                !.status = StatusFrom(b.thirdPlace, states)]

------------------------------------------------------------------------------
(* assignCourt and releaseAll.                                                *)

AssignCourt(b, m, c) == [b EXCEPT !.court[m] = c]

BoundCourts(b) == {b.court[m] : m \in Matches} \ {NoCourt}

ReleaseAll(b) == [b EXCEPT !.court = [m \in Matches |-> NoCourt]]
==============================================================================
