--------------------------- MODULE TableTennisRules ---------------------------
(***************************************************************************)
(* tableTennis.rules.ts and the parts of matchEngine.ts around it, as pure *)
(* operators on the engine's state: a record with the fields the code has, *)
(* of which names, ids and timestamps are left out.  A score is a function *)
(* of the two players.  Scores may be negative: a handicap can be, and a   *)
(* correction has no lower bound.                                          *)
(***************************************************************************)
EXTENDS Integers, Sequences, FiniteSets

CONSTANTS
  MaxHistory,   \* MAX_HISTORY_LENGTH: the actions that can be undone
  NoWinner      \* winner = null

Players == {"A", "B"}
Other(p) == IF p = "A" THEN "B" ELSE "A"
Score == [Players -> Int]

ASSUME MaxHistoryAssumption == MaxHistory \in Nat \ {0}
ASSUME NoWinnerAssumption == NoWinner \notin Players

Config ==
  [pointsPerSet : Nat \ {0}, bestOf : Nat \ {0}, minDifference : Nat \ {0},
   handicap : Score, initialScore : Score, initialServer : Players]

Match ==
  [config : Config, sets : [Players -> Nat], currentSet : Score, serving : Players,
   swappedSides : BOOLEAN, midSetSwapped : BOOLEAN, setHistory : Seq(Score),
   status : {"WAITING", "LIVE", "FINISHED"}, winner : Players \cup {NoWinner},
   history : Seq([pointsBefore : Score, pointsAfter : Score])]

\* getInitialState: an initial score of 0 falls back to the handicap.
InitialState(c) ==
  [config |-> c, sets |-> [p \in Players |-> 0],
   currentSet |-> [p \in Players |->
     IF c.initialScore[p] # 0 THEN c.initialScore[p] ELSE c.handicap[p]],
   serving |-> c.initialServer, swappedSides |-> FALSE, midSetSwapped |-> FALSE,
   setHistory |-> <<>>, status |-> "WAITING", winner |-> NoWinner, history |-> <<>>]

\* MatchOrchestrator.startMatch: neither an initial score nor an initial server
\* reaches the engine that is started.
Started(c) ==
  [InitialState([c EXCEPT !.initialScore = [p \in Players |-> 0], !.initialServer = "A"])
     EXCEPT !.status = "LIVE"]

------------------------------------------------------------------------------
(* The rules: sets, sides, serving.                                           *)

SetsNeeded(c) == (c.bestOf + 1) \div 2

Leader(s) == IF s["A"] > s["B"] THEN "A" ELSE "B"

\* isSetComplete.
SetComplete(c, s) ==
  /\ \E p \in Players : s[p] >= c.pointsPerSet
  /\ s[Leader(s)] - s[Other(Leader(s))] >= c.minDifference

\* The winner of the match keeps the last score; otherwise the next set begins
\* on the other side.
AwardSet(m) ==
  LET p == Leader(m.currentSet)
      won == [m EXCEPT !.sets[p] = @ + 1, !.setHistory = Append(@, m.currentSet)]
  IN  IF won.sets[p] >= SetsNeeded(m.config)
      THEN [won EXCEPT !.status = "FINISHED", !.winner = p]
      ELSE [won EXCEPT !.currentSet = m.config.handicap, !.swappedSides = ~@,
                       !.midSetSwapped = FALSE]

ApplySetWinCheck(m) == IF SetComplete(m.config, m.currentSet) THEN AwardSet(m) ELSE m

\* checkSideSwap: the middle of the deciding set.
CheckSideSwap(m) ==
  /\ m.sets["A"] + m.sets["B"] = m.config.bestOf - 1
  /\ ~m.midSetSwapped
  /\ \E p \in Players : m.currentSet[p] >= 5

\* Mutant: the swap is not remembered.
SwapSidesForgotten(m) ==
  IF CheckSideSwap(m) THEN [m EXCEPT !.swappedSides = ~@] ELSE m

SwapAtMiddle(m) ==
  IF CheckSideSwap(m) THEN [m EXCEPT !.swappedSides = ~@, !.midSetSwapped = TRUE] ELSE m

\* updateServing: every second point, and every point from 10-10 on.
UpdateServing(m) ==
  LET interval == IF \A p \in Players : m.currentSet[p] >= 10 THEN 1 ELSE 2
      total == m.currentSet["A"] + m.currentSet["B"]
  IN  [m EXCEPT !.serving = IF total % interval = 0 THEN Other(@) ELSE @]

RecordScore(m, p) ==
  UpdateServing(SwapAtMiddle(ApplySetWinCheck([m EXCEPT !.currentSet[p] = @ + 1])))

SubtractScore(m, p) == UpdateServing([m EXCEPT !.currentSet[p] = @ - 1])

------------------------------------------------------------------------------
(* The engine: what a referee does, and what of it can be undone.             *)

AddToHistory(m, before) ==
  LET h == Append(m.history, [pointsBefore |-> before, pointsAfter |-> m.currentSet])
  IN  [m EXCEPT !.history = IF Len(h) > MaxHistory THEN Tail(h) ELSE h]

\* Mutant: points are counted after the match too.
RecordPointAlways(m, p) == AddToHistory(RecordScore(m, p), m.currentSet)

RecordPoint(m, p) ==
  IF m.status = "LIVE" THEN AddToHistory(RecordScore(m, p), m.currentSet) ELSE m

\* Mutant: a correction is not remembered.
SubtractPointUnlogged(m, p) == IF m.status = "LIVE" THEN SubtractScore(m, p) ELSE m

SubtractPoint(m, p) ==
  IF m.status = "LIVE" THEN AddToHistory(SubtractScore(m, p), m.currentSet) ELSE m

\* undoLast of a match with a history: the score comes back, the server is
\* worked out anew.
UndoLast(m) ==
  LET last == Len(m.history)
  IN  UpdateServing([m EXCEPT !.currentSet = m.history[last].pointsBefore,
                              !.history = SubSeq(@, 1, last - 1)])

SetServer(m, p) == [m EXCEPT !.serving = p]
SwapSides(m) == [m EXCEPT !.swappedSides = ~@]
==============================================================================
