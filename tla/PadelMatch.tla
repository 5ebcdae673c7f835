------------------------------ MODULE PadelMatch ------------------------------
(***************************************************************************)
(* The match engine of one court playing padel, as the referee's events    *)
(* drive it, and what a restart of the hub makes of it: the saved row      *)
(* keeps sets, games and server under "score", where fromState does not    *)
(* look for them, and restoreState gives the engine the rules of table     *)
(* tennis.  A match configured or started afterwards is padel again.       *)
(***************************************************************************)
EXTENDS PadelRules, MatchDisplay

CONSTANTS
  PadelConfigs,     \* the match settings
  TiebreakOvertime, \* bound: a tiebreak goes on so far beyond tiebreakPoints
  GamesOvertime,    \* bound: the games of a player go on so far beyond gamesPerSet
  MaxLoosePoints    \* bound: a player's "games" stay between 0 and this after a restart

ASSUME PadelConfigsAssumption == PadelConfigs \subseteq PadelConfig

VARIABLES
  match,   \* InternalMatchState
  rules    \* the engine's SportRules

vars == <<match, rules>>

SportRules == {"padel", "tableTennis"}

(* Points, games and sets keep their ranges, whatever corrections do.         *)
TypeOK ==
  /\ match \in PadelState /\ Len(match.history) <= MaxHistory
  /\ rules \in SportRules

Init == rules = "padel" /\ \E c \in PadelConfigs : match = PadelInitialState(c)

\* CONFIGURE_MATCH, RESET_COURT: a new engine.
ConfigureMatch == rules' = "padel" /\ \E c \in PadelConfigs : match' = PadelInitialState(c)

\* START_MATCH, CLUB_RESET_MATCH, CLUB_NEW_MATCH: a new engine, started.
StartMatch == rules' = "padel" /\ \E c \in PadelConfigs : match' = PadelStarted(c)

\* Table tennis on a padel state: pointsPerSet is undefined, no set ends.
LooseRecordScore(m, p) == UpdateServing(SwapAtMiddle([m EXCEPT !.currentSet[p] = @ + 1]))

\* The rules are given the state of the game; what they make of it replaces the
\* engine's, whose history stays.
Scored(p) == IF rules = "padel" THEN PadelRecordScore(match, p) ELSE LooseRecordScore(match, p)

OnRecordPoint(p) ==
  /\ match.status = "LIVE"
  /\ match.tiebreakPoints[p] < match.config.tiebreakPoints + TiebreakOvertime
  /\ match.currentSet[p] < IF rules = "tableTennis" THEN MaxLoosePoints
                            ELSE match.config.gamesPerSet + GamesOvertime
  /\ match' = AddToHistory(Scored(p), match.currentSet)
  /\ UNCHANGED rules

OnSubtractPoint(p) ==
  /\ match.status = "LIVE"
  /\ rules = "tableTennis" => match.currentSet[p] > 0
  /\ match' = AddToHistory(
       IF rules = "padel" THEN PadelSubtractScore(match, p) ELSE SubtractScore(match, p),
       match.currentSet)
  /\ UNCHANGED rules

\* UNDO_LAST: the games of the last entry come back; points, tiebreak, sets and
\* sides do not.
OnUndoLast ==
  /\ match.history # <<>>
  /\ match' = IF rules = "tableTennis" THEN UndoLast(match)
              ELSE LET last == Len(match.history)
                   IN  [match EXCEPT !.currentSet = match.history[last].pointsBefore,
                                     !.history = SubSeq(@, 1, last - 1)]
  /\ UNCHANGED rules

OnSetServer(p) == match' = SetServer(match, p) /\ UNCHANGED rules

OnSwapSides == match' = SwapSides(match) /\ UNCHANGED rules

\* getState, of padel: what is told of a match has sets, games and server on top.
GetState(m) == [sets |-> m.sets, games |-> m.currentSet, serving |-> m.serving, fields |-> m]

\* toPersistedMatchState: in the row that is saved they are under "score".
Saved(m) ==
  LET s == GetState(m)
  IN  [score |-> [sets |-> s.sets, games |-> s.games, serving |-> s.serving], fields |-> s.fields]

\* fromState, of a padel row: sets, games and server are looked for beside "score".
FromState(row) ==
  LET beside(field, none) == IF field \in DOMAIN row THEN row[field] ELSE none
  IN  [row.fields EXCEPT !.sets = beside("sets", Nil), !.currentSet = beside("games", Nil),
                         !.serving = beside("serving", "A")]

\* The match as a stop saves it and the next boot restores it, with the rules of
\* table tennis.
Restart ==
  /\ match' = FromState(Saved(match))
  /\ rules' = "tableTennis"

Next ==
  \/ ConfigureMatch
  \/ StartMatch
  \/ \E p \in Players : OnRecordPoint(p) \/ OnSubtractPoint(p) \/ OnSetServer(p)
  \/ OnUndoLast
  \/ OnSwapSides
  \/ Restart

Spec == Init /\ [][Next]_vars

------------------------------------------------------------------------------
(* The board of a padel match.                                               *)

\* computeDisplayData: the points of the game, also while a tiebreak is played.
ShownPoints(m) == m.padelPoints

\* PadelPointDisplay: one half of the board, and the player its tap scores for.
PadelBoard(m, side) ==
  [shown |-> SwappedDisplay(m, side), points |-> ApplySwapToDisplay(m, ShownPoints(m), side),
   games |-> ApplySwapToDisplay(m, GetState(m).games, side),
   scores |-> HandleScorePoint(m, TapOf(side))]

------------------------------------------------------------------------------

(* Every set on record was complete: won by two games at gamesPerSet or more, *)
(* or by any lead at seven, which is 7-6 unless gamesPerSet is above seven,   *)
(* although an undo can put the games of an earlier set under the points of   *)
(* the next.                                                                  *)
SetsAreComplete ==
  \A i \in DOMAIN match.setHistory :
    LET s == match.setHistory[i] diff == s[Leader(s)] - s[Other(Leader(s))]
    IN  \/ s[Leader(s)] >= match.config.gamesPerSet /\ diff >= 2
        \/ s[Leader(s)] >= 7 /\ diff >= 1

(* A tiebreak and a game are never under way together: no points of a game    *)
(* wait behind a tiebreak, and none of a tiebreak outlive it, through undos,  *)
(* corrections and a restart in its middle.  So each half of the board shows  *)
(* the points and games of the player named on it, for whom a tap on it       *)
(* scores; a tiebreak is shown as 0-0 to its end: formatDisplayScore, which   *)
(* would show its points (padel.rules.ts:490-492), is called by tests only.   *)
OneCountAtATime ==
  /\ match.isTiebreak => match.padelPoints = Nil
  /\ ~match.isTiebreak => match.tiebreakPoints = Nil
  /\ \E p \in Players : match.padelPoints[p] # Advantage
  /\ rules = "padel" =>
       \A side \in Sides :
         LET board == PadelBoard(match, side)
             p == board.scores
         IN  /\ board.shown.name = p
             /\ board.games = match.currentSet[p]
             /\ board.points = IF match.isTiebreak THEN 0 ELSE match.padelPoints[p]

(* While padel is played, sides change by hand or with a point that ends a    *)
(* game of odd number or a set, and a point that does both, as at 6-3, leaves *)
(* the players where they are.  Nothing is said of every sixth point of a     *)
(* tiebreak: padel.rules.ts:17 and padel-scoring/spec.md:66 have a change of  *)
(* sides there, and the code has none.                                        *)
SidesFollowTheGames ==
  [][\/ ConfigureMatch \/ StartMatch \/ OnSwapSides \/ Restart \/ rules = "tableTennis"
     \/ LET total == match.tiebreakPoints["A"] + match.tiebreakPoints["B"]
        IN  match'.isTiebreak /\ total' > total /\ total' % 6 = 0
     \/ LET setEnds == Len(match'.setHistory) > Len(match.setHistory)
            gameEnds == /\ ~match.isTiebreak
                        /\ \E p \in Players : match.padelPoints[p] >= Forty
                        /\ match'.padelPoints = Nil
            before == match.currentSet["A"] + match.currentSet["B"]
        IN  match.swappedSides # match'.swappedSides
              <=> (gameEnds /\ before % 2 = 0) # setEnds]_vars

PadelBestOfN == INSTANCE BestOf
  WITH needed <- SetsNeeded(match.config), sets <- match.sets, winner <- match.winner

(* Until the hub is restarted the match is a best-of-n match: through undos,  *)
(* corrections and late points, sets are awarded one by one to a match that   *)
(* is open, and a win is final.  What a restart makes of it, RestartResumes   *)
(* asks.                                                                      *)
PadelImplementsBestOf ==
  PadelBestOfN!Init /\ [][rules' = "tableTennis" \/ PadelBestOfN!Next]_(PadelBestOfN!vars)

(* The score of a padel match that was being played is after a restart what   *)
(* it was before: what is saved suffices to fully reconstruct it, score       *)
(* included (openspec/specs/match-persistence/spec.md:91).                    *)
RestartResumes ==
  [][Restart /\ rules = "padel" /\ match.status = "LIVE" =>
       match'.sets = match.sets /\ match'.currentSet = match.currentSet]_vars

==============================================================================
