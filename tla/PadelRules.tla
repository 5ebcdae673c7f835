------------------------------ MODULE PadelRules ------------------------------
(***************************************************************************)
(* padel.rules.ts as pure operators on the engine's state: points make     *)
(* games, games make sets, and a set level at gamesPerSet is decided by a  *)
(* tiebreak.  The engine keeps the games where table tennis keeps its      *)
(* points, in currentSet; the record has its other fields too, so that the *)
(* engine's history and, after a restart, the rules of table tennis apply  *)
(* to it (TableTennisRules.tla).                                           *)
(***************************************************************************)
EXTENDS TableTennisRules

\* POINT_ORDER and AD: 0, 15, 30, 40, AD.
Love == 0
Forty == 3
Advantage == 4
PadelPoint == Love .. Advantage

\* Games, of a set or on record, and tiebreak points are never negative.
Games == [Players -> Nat]
Nil == [p \in Players |-> 0]
Level(c) == [p \in Players |-> c.gamesPerSet]

PadelConfig ==
  [bestOf : Nat \ {0}, gamesPerSet : Nat \ {0}, tiebreakPoints : Nat \ {0},
   goldenPoint : BOOLEAN, initialScore : Games, initialServer : Players]

PadelState ==
  [config : PadelConfig, sets : Games, currentSet : Games, serving : Players,
   swappedSides : BOOLEAN, midSetSwapped : BOOLEAN, setHistory : Seq(Games),
   status : {"WAITING", "LIVE", "FINISHED"}, winner : Players \cup {NoWinner},
   padelPoints : [Players -> PadelPoint], isTiebreak : BOOLEAN,
   tiebreakPoints : Games,
   history : Seq([pointsBefore : Games, pointsAfter : Games])]

PadelInitialState(c) ==
  [config |-> c, sets |-> Nil, currentSet |-> c.initialScore, serving |-> c.initialServer,
   swappedSides |-> FALSE, midSetSwapped |-> FALSE, setHistory |-> <<>>,
   status |-> "WAITING", winner |-> NoWinner, padelPoints |-> Nil,
   isTiebreak |-> FALSE, tiebreakPoints |-> Nil, history |-> <<>>]

\* MatchOrchestrator.startMatch: no initial score and no initial server.
PadelStarted(c) ==
  [PadelInitialState([c EXCEPT !.initialScore = Nil, !.initialServer = "A"])
     EXCEPT !.status = "LIVE"]

------------------------------------------------------------------------------
(* A set, and with it the match.                                              *)

\* Lead of two at gamesPerSet, or any lead at seven.
GamesMakeSet(c, g) ==
  LET most == g[Leader(g)]
      diff == most - g[Other(Leader(g))]
  IN  (most >= c.gamesPerSet /\ diff >= 2) \/ (most >= 7 /\ diff >= 1)

\* Mutant: one set more than it takes.
CheckMatchWinLate(m) ==
  IF \E p \in Players : m.sets[p] > SetsNeeded(m.config)
  THEN [m EXCEPT !.status = "FINISHED", !.winner = Leader(m.sets)]
  ELSE m

\* checkMatchWin and MATCH_WON.
CheckMatchWin(m) ==
  IF \E p \in Players : m.sets[p] >= SetsNeeded(m.config)
  THEN [m EXCEPT !.status = "FINISHED", !.winner = Leader(m.sets)]
  ELSE m

\* Mutant: the games go on record after they were reset.
WinSetReset(m, p, s) ==
  CheckMatchWin([m EXCEPT !.sets[p] = @ + 1, !.setHistory = Append(@, Nil),
                          !.currentSet = Nil, !.serving = Other(@),
                          !.swappedSides = ~@])

\* SET_WON: score s goes on record, sides and server change.
WinSet(m, p, s) ==
  CheckMatchWin([m EXCEPT !.sets[p] = @ + 1, !.setHistory = Append(@, s),
                          !.currentSet = Nil, !.serving = Other(@),
                          !.swappedSides = ~@])

TiebreakStarts(m) == [m EXCEPT !.isTiebreak = TRUE, !.tiebreakPoints = Nil]

CheckSetWin(m) ==
  LET g == m.currentSet
  IN  IF GamesMakeSet(m.config, g) THEN WinSet(m, Leader(g), g)
      ELSE IF g = Level(m.config) THEN TiebreakStarts(m)
      ELSE m

\* Mutant: sides after every even game.
WinGameEven(m, p) ==
  LET games == [m.currentSet EXCEPT ![p] = @ + 1]
      even == (games["A"] + games["B"]) % 2 = 0
  IN  CheckSetWin([m EXCEPT !.currentSet = games, !.padelPoints = Nil,
                            !.serving = Other(@), !.swappedSides = @ # even])

\* GAME_WON: server changes, sides after every odd game of the set.
WinGame(m, p) ==
  LET games == [m.currentSet EXCEPT ![p] = @ + 1]
      odd == (games["A"] + games["B"]) % 2 = 1
  IN  CheckSetWin([m EXCEPT !.currentSet = games, !.padelPoints = Nil,
                            !.serving = Other(@), !.swappedSides = @ # odd])

------------------------------------------------------------------------------
(* A point.                                                                   *)

\* The tiebreak is recorded as 7-6 whatever gamesPerSet is; the server changes
\* when the points played are even.
TiebreakPoint(m, p) ==
  LET t == [m.tiebreakPoints EXCEPT ![p] = @ + 1]
      w == Leader(t)
      total == t["A"] + t["B"]
  IN  IF t[w] >= m.config.tiebreakPoints /\ t[w] - t[Other(w)] >= 2
      THEN WinSet([m EXCEPT !.isTiebreak = FALSE, !.tiebreakPoints = Nil],
                  w, [q \in Players |-> IF q = w THEN 7 ELSE 6])
      ELSE [m EXCEPT !.tiebreakPoints = t,
                     !.serving = IF total % 2 = 0 THEN Other(@) ELSE @]

\* Mutant: the tiebreak starts in the middle of a game.
RegularPointLate(m, p) ==
  IF m.currentSet = Level(m.config)
  THEN TiebreakPoint(TiebreakStarts(m), p)
  ELSE IF m.padelPoints[p] >= Forty /\ m.padelPoints[Other(p)] < Forty
  THEN WinGame(m, p)
  ELSE [m EXCEPT !.padelPoints[p] = IF @ = Advantage THEN Forty ELSE @ + 1]

RegularPoint(m, p) ==
  LET mine == m.padelPoints[p]
      theirs == m.padelPoints[Other(p)]
      deuce == mine = Forty /\ theirs = Forty
  IN  IF m.currentSet = Level(m.config) /\ m.padelPoints = Nil
      THEN TiebreakPoint(TiebreakStarts(m), p)
      ELSE IF \/ mine = Advantage
              \/ deuce /\ m.config.goldenPoint
              \/ mine = Forty /\ theirs < Forty
      THEN WinGame(m, p)
      ELSE IF theirs = Advantage
      THEN [m EXCEPT !.padelPoints = [q \in Players |-> Forty]]
      ELSE [m EXCEPT !.padelPoints[p] = @ + 1]

\* recordScore and applyStateFromEvents.
PadelRecordScore(m, p) ==
  IF m.isTiebreak THEN TiebreakPoint(m, p) ELSE RegularPoint(m, p)

\* subtractScore.  At love all a game comes back at AD-40, with its server but
\* not with the sides; a set or a tiebreak that ended does not come back.
PadelSubtractScore(m, p) ==
  IF m.isTiebreak
  THEN [m EXCEPT !.tiebreakPoints[p] = IF @ > 0 THEN @ - 1 ELSE 0]
  ELSE IF m.padelPoints = Nil /\ m.currentSet[p] > 0
  THEN [m EXCEPT !.currentSet[p] = @ - 1, !.serving = Other(@),
                 !.padelPoints = [q \in Players |-> IF q = p THEN Advantage ELSE Forty]]
  ELSE [m EXCEPT !.padelPoints[p] = IF @ > Love THEN @ - 1 ELSE Love]
==============================================================================
