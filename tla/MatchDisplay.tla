----------------------------- MODULE MatchDisplay -----------------------------
(***************************************************************************)
(* What the browsers make of a match state: useMatchDisplay and the two    *)
(* boards that show it, the referee's scoreboard and the television's      *)
(* spotlight.  Each of them turns the players' values to the two sides of  *)
(* the screen by code of its own, and counts the sets from their record.   *)
(* The points are the parameter: of table tennis or of the game of padel   *)
(* (TTPointDisplay, PadelPointDisplay).  Texts and layout are left out.    *)
(***************************************************************************)
EXTENDS TableTennisRules

Sides == {"left", "right"}

\* calculateSetsWon.
SetsWon(m, p) == Cardinality({i \in DOMAIN m.setHistory : m.setHistory[i][p] > m.setHistory[i][Other(p)]})

\* The sets of the longest match, by which the page counts; bestOf may be even.
TotalSets(m) == 2 * ((m.config.bestOf + 1) \div 2) - 1

\* Mutant: rounded down.
SetsNeededShort(total) == total \div 2

\* determineMatchWinner's ceiling of half of one more.
SetsNeededOf(total) == (total + 2) \div 2

DisplayedWinners(m) == {p \in Players : SetsWon(m, p) >= SetsNeededOf(TotalSets(m))}

IsMatchOver(m) == m.status = "FINISHED" \/ DisplayedWinners(m) # {}
------------------------------------------------------------------------------
(* Sides.                                                                    *)

\* applySideSwap: names, sets and service.
LeftPlayer(m) == IF m.swappedSides THEN "B" ELSE "A"
RightPlayer(m) == IF m.swappedSides THEN "A" ELSE "B"

SwappedDisplay(m, side) ==
  LET p == IF side = "left" THEN LeftPlayer(m) ELSE RightPlayer(m)
  IN  [name |-> p, sets |-> SetsWon(m, p), serving |-> m.serving = p]

\* computeDisplayData knows A on the left and B on the right.
Raw(points, side) == IF side = "left" THEN points["A"] ELSE points["B"]

Opposite(side) == IF side = "left" THEN "right" ELSE "left"

\* SportDisplaySelector
ApplySwapToDisplay(m, points, side) ==
  Raw(points, IF m.swappedSides THEN Opposite(side) ELSE side)

\* KioskPointDisplay
GetDisplayValues(m, points, side) ==
  IF m.swappedSides THEN Raw(points, Opposite(side)) ELSE Raw(points, side)

\* The two halves of the board call themselves "A" and "B".
TapOf(side) == IF side = "left" THEN "A" ELSE "B"

\* Mutant: the name of the half is taken for the player's.
HandleScorePointRaw(m, half) == half

\* handleScorePoint and handleSubtractPoint: the player shown on the half tapped.
HandleScorePoint(m, half) == IF half = "A" THEN LeftPlayer(m) ELSE RightPlayer(m)

Scoreboard(m, points, side) ==
  [shown |-> SwappedDisplay(m, side), points |-> ApplySwapToDisplay(m, points, side),
   scores |-> HandleScorePoint(m, TapOf(side))]

Kiosk(m, points, side) ==
  [shown |-> SwappedDisplay(m, side), points |-> GetDisplayValues(m, points, side)]

\* Each side of both boards is about one player throughout, and a tap scores for him.
BoardsAgree(m, points) ==
  \E at \in [Sides -> Players] :
    /\ at["left"] # at["right"]
    /\ \A side \in Sides :
         LET shown == [name |-> at[side], sets |-> SetsWon(m, at[side]),
                       serving |-> m.serving = at[side]]
         IN  /\ Scoreboard(m, points, side)
                  = [shown |-> shown, points |-> points[at[side]], scores |-> at[side]]
             /\ Kiosk(m, points, side) = [shown |-> shown, points |-> points[at[side]]]
==============================================================================
