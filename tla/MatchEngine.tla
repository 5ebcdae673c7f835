----------------------------- MODULE MatchEngine ------------------------------
(***************************************************************************)
(* The match engine of one court, playing table tennis, as the referee's   *)
(* events drive it.  MatchOrchestrator.ts lets them through while the flow *)
(* of the court is active, which it can be in every status of the engine:  *)
(* a match configured during another one leaves the flow LIVE, and so does *)
(* the end of a match.  The flow itself is in CourtFlow.tla.  A restart    *)
(* restores the engine field by field and is a stuttering step here.       *)
(***************************************************************************)
EXTENDS MatchDisplay

CONSTANTS
  Configs,              \* the match settings
  MinPoints,            \* bound: corrections go down to it
  Overtime              \* bound: points go on so far beyond pointsPerSet

ASSUME ConfigsAssumption == Configs \subseteq Config

VARIABLE match   \* InternalMatchState

(* The engine keeps its type, and no more than MaxHistory actions.            *)
TypeOK == match \in Match /\ Len(match.history) <= MaxHistory

\* computeDisplayData: what the boards show as points.
DisplayData == match.currentSet

Init == \E c \in Configs : match = InitialState(c)

\* CONFIGURE_MATCH, RESET_COURT: a new engine.
ConfigureMatch == \E c \in Configs : match' = InitialState(c)

\* START_MATCH, CLUB_RESET_MATCH, CLUB_NEW_MATCH: a new engine, started.
StartMatch == \E c \in Configs : match' = Started(c)

OnRecordPoint(p) ==
  /\ match.currentSet[p] < match.config.pointsPerSet + Overtime
  /\ match' = RecordPoint(match, p)

OnSubtractPoint(p) ==
  /\ match.currentSet[p] > MinPoints
  /\ match' = SubtractPoint(match, p)

\* UNDO_LAST: nothing asks for a LIVE match; without a history it throws and
\* nothing changes.
OnUndoLast == match.history # <<>> /\ match' = UndoLast(match)

\* SET_SERVER and SWAP_SIDES, by hand, in a match of any status.
OnSetServer(p) == match' = SetServer(match, p)

OnSwapSides == match' = SwapSides(match)

Next ==
  \/ ConfigureMatch
  \/ StartMatch
  \/ \E p \in Players : OnRecordPoint(p) \/ OnSubtractPoint(p) \/ OnSetServer(p)
  \/ OnUndoLast
  \/ OnSwapSides

Spec == Init /\ [][Next]_match

------------------------------------------------------------------------------

(* A match is FINISHED exactly when it has a winner, and a player is the      *)
(* winner exactly when he has won the sets needed: no correction, undo or     *)
(* late point makes a second winner or revives a decided match.               *)
WinnerHasTheSets ==
  /\ match.status = "FINISHED" <=> match.winner # NoWinner
  /\ \A p \in Players :
       /\ match.sets[p] <= SetsNeeded(match.config)
       /\ match.winner = p <=> match.sets[p] = SetsNeeded(match.config)

(* The undo history leads without a gap to the score shown: every entry       *)
(* begins where the one before it ended, and the last ends at the current     *)
(* score, through the ends of sets, the dropping of old entries and undos.    *)
HistoryLeadsHere ==
  LET h == match.history
  IN  /\ \A i \in 1 .. Len(h) - 1 : h[i].pointsAfter = h[i + 1].pointsBefore
      /\ h # <<>> => h[Len(h)].pointsAfter = match.currentSet

(* In the last set that bestOf allows, and 5 points in it.                    *)
FiveInLastSet(m) ==
  /\ m.sets["A"] + m.sets["B"] = m.config.bestOf - 1
  /\ \E p \in Players : m.currentSet[p] >= 5

(* Where the players stand changes by hand and with points only: with the one *)
(* that ends a set before another begins, and once in the deciding set, with  *)
(* the first point that has 5 there (middle; turned is that it has been), both*)
(* of which may be one point under a handicap.  Two things the code does here *)
(* are not the rule.  It takes the score of a match that is won a set early   *)
(* for the middle of a set that is never played and changes sides with the    *)
(* last point (tooLate), where architecture.md:149 has the positions stay;    *)
(* and an undo leaves the players where the undone point put them, where      *)
(* features.md:15 has them go back.                                           *)
SidesStep ==
  \/ ConfigureMatch \/ StartMatch \/ OnSwapSides
  \/ /\ OnUndoLast \/ \E p \in Players : OnSubtractPoint(p) \/ OnSetServer(p)
     /\ match'.swappedSides = match.swappedSides
     /\ match'.midSetSwapped = match.midSetSwapped
  \/ /\ \E p \in Players : OnRecordPoint(p)
     /\ LET nextSet == Len(match'.setHistory) > Len(match.setHistory) /\ match'.status = "LIVE"
            turned == match.midSetSwapped /\ ~nextSet
            middle == match'.status = "LIVE" /\ FiveInLastSet(match') /\ ~turned
            tooLate == match'.status = "FINISHED" /\ FiveInLastSet(match') /\ ~turned
        IN  /\ match'.swappedSides # match.swappedSides <=> tooLate \/ nextSet # middle
            /\ match'.midSetSwapped <=> turned \/ middle \/ tooLate

(* Of every step of a match: the sides change as SidesStep says.              *)
SidesFollowTheSets == [][SidesStep]_match

(* The match implements a best-of-n match: sets are awarded one by one, a win *)
(* is final, and nothing a referee corrects takes a set away.                 *)
BestOfN == INSTANCE BestOf
  WITH needed <- SetsNeeded(match.config), sets <- match.sets, winner <- match.winner

ImplementsBestOf == BestOfN!Spec

(* The page declares the match over exactly when the engine has ended it,     *)
(* though it counts the sets for itself, from the record and by a limit of    *)
(* its own, corrections, undos and an even bestOf notwithstanding.            *)
PageEndsWithEngine == IsMatchOver(match) <=> match.status = "FINISHED"

(* Wherever the players stand, after changes of ends by rule or by hand, each *)
(* side of the referee's scoreboard and of the television shows one player's  *)
(* name, points, sets and service, and a tap there scores for that player.    *)
ScreensAgree == BoardsAgree(match, DisplayData)
==============================================================================
