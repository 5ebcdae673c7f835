----------------------------- MODULE CourtRuntime -----------------------------
(***************************************************************************)
(* One runtime court as courtManager.ts, the two flow contracts            *)
(* (ClubFlowContract.ts, TournamentFlowContract.ts), match-guards.ts and   *)
(* MatchOrchestrator.ts change it, as pure operators on the court's record.*)
(* A court has one flow slot; mode, clubStatus, reserved and status are    *)
(* the projections the code keeps next to it and that its guards read.     *)
(*                                                                         *)
(* mode "none" is a court with no runtime entry in the repository.  Of the *)
(* players only whether one of them is the referee is kept; of the match   *)
(* engine only its status.  Names, phones, timers, costs and scores are    *)
(* left out.                                                               *)
(***************************************************************************)

CONSTANTS
  Pins,    \* the four-digit PINs generatePin draws from
  NoPin    \* pin = ''

ASSUME NoPinAssumption == NoPin \notin Pins

Runtime ==
  [mode       : {"none", "club", "tournament"},
   flow       : {"NONE", "OCCUPIED", "FINISHED", "LIVE"},
   clubStatus : {"AVAILABLE", "RESERVED", "OCCUPIED", "FINISHED"},
   reserved   : BOOLEAN,
   pin        : Pins \cup {NoPin},
   status     : {"WAITING", "CONFIGURING", "LIVE", "FINISHED"},
   engine     : {"WAITING", "LIVE", "FINISHED"},
   referee    : BOOLEAN]

ClubFlow == {"OCCUPIED", "FINISHED"}
Exists(c) == c.mode # "none"

\* buildRuntimeCourt: a court fresh from the catalog.
Built(mode, pin) ==
  [mode |-> mode, flow |-> "NONE", clubStatus |-> "AVAILABLE", reserved |-> FALSE,
   pin |-> pin, status |-> "WAITING", engine |-> "WAITING", referee |-> FALSE]

NoRuntime == Built("none", NoPin)

\* A court of the catalog that the club, or the tournament, is first to use.
MaterializedClub == Built("club", NoPin)
MaterializedTournament(pin) == Built("tournament", pin)

\* isMatchActive.
MatchActive(c) == c.flow \in {"LIVE", "OCCUPIED"}

\* Mutant: WAITING ends a club's flow too.
SetStatusWaitingEnds(c, s) ==
  CASE s = "WAITING" -> [c EXCEPT !.status = s, !.flow = "NONE"]
    [] s = "LIVE" /\ c.flow \notin ClubFlow ->
         [c EXCEPT !.status = s, !.flow = "LIVE", !.mode = "tournament"]
    [] OTHER -> [c EXCEPT !.status = s]

\* setMatchStatus: LIVE puts the court into a tournament flow and WAITING ends
\* that flow; a club flow is left to the club contract.
SetStatus(c, s) ==
  IF c.flow \in ClubFlow THEN [c EXCEPT !.status = s]
  ELSE CASE s = "LIVE"    -> [c EXCEPT !.status = s, !.flow = "LIVE", !.mode = "tournament"]
         [] s = "WAITING" -> [c EXCEPT !.status = s, !.flow = "NONE"]
         [] OTHER         -> [c EXCEPT !.status = s]

------------------------------------------------------------------------------
(* The referee: who shows the PIN of the court, or joins the club's session.  *)

ProvesPin(c, pin) == Exists(c) /\ c.pin = pin
BecomeReferee(c) == [c EXCEPT !.referee = TRUE]

------------------------------------------------------------------------------
(* The match: configureMatch, startMatch, recordPoint, resetTable.            *)

\* CONFIGURE_MATCH always brings a match config, and so a new engine.
ConfigureMatch(c) == [SetStatus(c, "CONFIGURING") EXCEPT !.engine = "WAITING"]

\* A new engine, started.
StartMatch(c) == [SetStatus(c, "LIVE") EXCEPT !.engine = "LIVE"]

\* recordPoint takes the engine's status over into the court.
FollowEngine(c) == SetStatus(c, c.engine)

ResetTable(c) == [SetStatus(c, "WAITING") EXCEPT !.engine = "WAITING"]

------------------------------------------------------------------------------
(* The club lifecycle: AVAILABLE -> RESERVED -> OCCUPIED -> FINISHED.         *)

CanActivate(c) == c.mode = "club" /\ c.clubStatus = "AVAILABLE"
ActivateCourt(c, pin) == [c EXCEPT !.clubStatus = "RESERVED", !.reserved = TRUE, !.pin = pin]

CanDeactivate(c) == c.mode = "club" /\ c.clubStatus = "RESERVED"
DeactivateCourt(c) == [c EXCEPT !.clubStatus = "AVAILABLE", !.reserved = FALSE, !.pin = NoPin]

\* Mutant: the reservation is left standing when the session starts.
OccupyKeepsReservation(c) ==
  StartMatch([c EXCEPT !.flow = "OCCUPIED", !.mode = "club", !.clubStatus = "OCCUPIED"])

\* ClubFlowContract.occupy, then the session's default match.
CanOccupy(c) == c.mode = "club" /\ c.flow = "NONE" /\ c.reserved
OccupyCourt(c) ==
  StartMatch([c EXCEPT !.flow = "OCCUPIED", !.mode = "club", !.reserved = FALSE,
                       !.clubStatus = "OCCUPIED"])

\* ClubFlowContract.end.
EndSession(c) == [c EXCEPT !.flow = "FINISHED", !.clubStatus = "FINISHED", !.pin = NoPin]

CanReset(c) == c.mode = "club" /\ c.clubStatus = "FINISHED"
ResetCourt(c) ==
  ResetTable([c EXCEPT !.clubStatus = "AVAILABLE", !.reserved = FALSE, !.flow = "NONE",
                       !.pin = NoPin, !.referee = FALSE])

------------------------------------------------------------------------------
(* The contracts' forceEnd, release, canArchive and serialize.                *)

\* TournamentFlowContract.clearFlow.
ClearFlow(c) == [c EXCEPT !.flow = "NONE", !.status = "WAITING", !.engine = "WAITING"]

\* Only a session that is OCCUPIED ends, and only a match that is LIVE is ended
\* by force; an AVAILABLE, RESERVED or FINISHED court refuses.
CanEndSession(c) == c.mode = "club" /\ c.flow = "OCCUPIED"

TournamentPlays(c) == c.mode = "tournament" /\ c.flow = "LIVE"

CanForceEnd(c) == CanEndSession(c) \/ TournamentPlays(c)

ForceEnd(c) == IF c.mode = "club" THEN EndSession(c) ELSE ClearFlow(c)

\* Mutant: the release does not ask for the court's mode.
ReleaseAnyMode(c) == IF c.mode # "none" THEN ClearFlow(c) ELSE c

\* Only a tournament court is released; a club court is left alone.
Release(c) == IF c.mode = "tournament" THEN ClearFlow(c) ELSE c

\* canArchiveCourt: an unknown court can be archived.
CanArchive(c) == ~MatchActive(c)

\* regeneratePin.
RegeneratePin(c, pin) == [ResetTable(c) EXCEPT !.pin = pin, !.referee = FALSE]

\* Mutant: the session's PIN is not restored.
RestoredWithoutPin(c) ==
  IF c.flow = "NONE" THEN NoRuntime
  ELSE [Built(c.mode, NoPin)
         EXCEPT !.flow = c.flow, !.engine = c.engine,
                !.clubStatus = IF c.mode = "club" THEN c.flow ELSE "AVAILABLE",
                !.status = IF c.mode = "club" THEN "WAITING" ELSE c.engine]

\* What restoreState makes of a court's liveSessions row; a court with no flow
\* has none.
Restored(c) ==
  IF c.flow = "NONE" THEN NoRuntime
  ELSE [Built(c.mode, c.pin)
         EXCEPT !.flow = c.flow, !.engine = c.engine,
                !.clubStatus = IF c.mode = "club" THEN c.flow ELSE "AVAILABLE",
                !.status = IF c.mode = "club" THEN "WAITING" ELSE c.engine]
==============================================================================
