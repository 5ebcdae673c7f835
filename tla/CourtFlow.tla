------------------------------ MODULE CourtFlow ------------------------------
(***************************************************************************)
(* The courts between their three owners: the admin's catalog              *)
(* (InventoryManager.ts), the club's sessions and the tournament's bracket *)
(* (BracketHandler.ts), all of them driving the one runtime court that     *)
(* courtManager.ts keeps per court id.  The catalog says which courts      *)
(* exist, the runtime court what runs on one, and the bracket which match  *)
(* a court is bound to; every handler checks some of the three and changes *)
(* some of them, and nothing else keeps them together.                     *)
(*                                                                         *)
(* One action per socket event or HTTP route that changes this state; the  *)
(* code runs each handler to its end, so an action is atomic.  Restart is  *)
(* a graceful stop followed by a boot.  The file the state is saved in,    *)
(* POST /load, POST /new and CLUB_RESET_SETUP are not here.  The club is   *)
(* configured, and the sender of an owner or admin event is authorised.    *)
(***************************************************************************)
EXTENDS BracketEngine, CourtRuntime

CONSTANTS
  OwnerSlots,    \* bound: the <<match, slot>> pairs the owner edits
  BoundMatches   \* bound: the matches the owner binds courts to

ASSUME OwnerSlotsAssumption == OwnerSlots \subseteq Matches \X Slots
ASSUME BoundMatchesAssumption == BoundMatches \subseteq Matches

VARIABLES
  inventory,   \* the catalog: what the admin says of each court id
  court,       \* the runtime courts
  bracket

vars == <<inventory, court, bracket>>

(* Every part keeps its type.  FRESH is a court id INVENTORY_ADD has not drawn*)
(* yet.                                                                       *)
TypeOK ==
  /\ inventory \in [Courts -> {"FRESH", "ACTIVE", "MAINTENANCE", "ARCHIVED"}]
  /\ court \in [Courts -> Runtime]
  /\ bracket \in Brackets

Init ==
  /\ inventory = [c \in Courts |-> "FRESH"]
  /\ court = [c \in Courts |-> NoRuntime]
  /\ bracket = NoBracket

Become(c, r) == court' = [court EXCEPT ![c] = r]
Active(c) == inventory[c] = "ACTIVE"

------------------------------------------------------------------------------
(* The admin's catalog.                                                       *)

InventoryAdd(c) ==
  /\ inventory[c] = "FRESH"
  /\ inventory' = [inventory EXCEPT ![c] = "ACTIVE"]
  /\ UNCHANGED <<court, bracket>>

\* INVENTORY_MAINTENANCE: of any record, an archived one too.
InventoryMaintenance(c) ==
  /\ inventory[c] # "FRESH" /\ CanArchive(court[c])
  /\ \E on \in {"MAINTENANCE", "ACTIVE"} : inventory' = [inventory EXCEPT ![c] = on]
  /\ UNCHANGED <<court, bracket>>

InventoryArchive(c) ==
  /\ inventory[c] # "FRESH" /\ CanArchive(court[c])
  /\ inventory' = [inventory EXCEPT ![c] = "ARCHIVED"]
  /\ UNCHANGED <<court, bracket>>

------------------------------------------------------------------------------
(* ensureRuntimeClubCourt, ensureRuntimeTournamentCourt: a court that has a   *)
(* runtime entry is accepted whatever the catalog says of it.                 *)

CanEnsure(c) == Exists(court[c]) \/ Active(c)
EnsuredClub(c) == IF Exists(court[c]) THEN court[c] ELSE MaterializedClub
EnsuredTournament(c, pin) ==
  IF Exists(court[c]) THEN court[c] ELSE MaterializedTournament(pin)

------------------------------------------------------------------------------
(* Club sessions.                                                             *)

ClubActivate(c) ==
  LET r == EnsuredClub(c)
  IN  /\ CanEnsure(c) /\ CanActivate(r)
      /\ \E pin \in Pins : Become(c, ActivateCourt(r, pin))
      /\ UNCHANGED <<inventory, bracket>>

ClubDeactivate(c) ==
  /\ CanDeactivate(court[c])
  /\ Become(c, DeactivateCourt(court[c]))
  /\ UNCHANGED <<inventory, bracket>>

ClubReset(c) ==
  /\ CanReset(court[c])
  /\ Become(c, ResetCourt(court[c]))
  /\ UNCHANGED <<inventory, bracket>>

\* CLUB_ADMIN_OCCUPY: an AVAILABLE court is activated first.
ClubAdminOccupy(c) ==
  /\ CanEnsure(c)
  /\ \E pin \in Pins :
       LET r == EnsuredClub(c)
           a == IF CanActivate(r) THEN ActivateCourt(r, pin) ELSE r
       IN  /\ a.clubStatus = "RESERVED" /\ CanOccupy(a)
           /\ Become(c, OccupyCourt(a))
  /\ UNCHANGED <<inventory, bracket>>

\* CLUB_JOIN: findClubCourtByPin takes one of the courts with that PIN; a
\* running session is joined, a reservation becomes a session.  The player is
\* the court's referee.
ClubJoin(c, pin) ==
  /\ court[c].mode = "club" /\ court[c].pin = pin
  /\ \/ court[c].flow = "OCCUPIED" /\ Become(c, BecomeReferee(court[c]))
     \/ CanOccupy(court[c]) /\ Become(c, BecomeReferee(OccupyCourt(court[c])))
  /\ UNCHANGED <<inventory, bracket>>

ClubReconnect(c, pin) ==
  /\ court[c].mode = "club" /\ court[c].clubStatus = "OCCUPIED" /\ court[c].pin = pin
  /\ Become(c, BecomeReferee(court[c]))
  /\ UNCHANGED <<inventory, bracket>>

\* CLUB_END_SESSION, confirmed by the court's player.
ClubEndSession(c) ==
  /\ court[c].referee /\ court[c].clubStatus = "OCCUPIED" /\ CanEndSession(court[c])
  /\ Become(c, EndSession(court[c]))
  /\ UNCHANGED <<inventory, bracket>>

\* CLUB_RESET_MATCH and CLUB_NEW_MATCH.
ClubNewMatch(c) ==
  /\ court[c].referee /\ court[c].mode = "club" /\ court[c].flow = "OCCUPIED"
  /\ Become(c, StartMatch(court[c]))
  /\ UNCHANGED <<inventory, bracket>>

------------------------------------------------------------------------------
(* The two force-ends of the admin.                                           *)

BoundTo(c) == {m \in Matches : bracket.court[m] = c}

\* CLUB_FORCE_END gives forceEndSession no bracket context.
ClubForceEnd(c) ==
  /\ CanForceEnd(court[c])
  /\ Become(c, ForceEnd(court[c]))
  /\ UNCHANGED <<inventory, bracket>>

\* INVENTORY_FORCE_END unbinds the tournament court's match.
InventoryForceEnd(c) ==
  /\ CanForceEnd(court[c])
  /\ Become(c, ForceEnd(court[c]))
  /\ IF court[c].mode = "tournament" /\ BoundTo(c) # {}
     THEN \E m \in BoundTo(c) : bracket' = AssignCourt(bracket, m, NoCourt)
     ELSE UNCHANGED bracket
  /\ UNCHANGED inventory

------------------------------------------------------------------------------
(* The referee and the match.                                                 *)

\* SET_REF: the court's PIN makes the sender its referee.
SetRef(c, pin) ==
  /\ ProvesPin(court[c], pin)
  /\ Become(c, BecomeReferee(court[c]))
  /\ UNCHANGED <<inventory, bracket>>

\* LEAVE_COURT, or the socket is gone.
RefereeLeaves(c) ==
  /\ court[c].referee
  /\ Become(c, [court[c] EXCEPT !.referee = FALSE])
  /\ UNCHANGED <<inventory, bracket>>

\* REGENERATE_PIN.
OnRegeneratePin(c) ==
  /\ Exists(court[c])
  /\ \E pin \in Pins : Become(c, RegeneratePin(court[c], pin))
  /\ UNCHANGED <<inventory, bracket>>

\* GENERATE_COURT_PIN: the PIN of a court that exists is only read.
GenerateCourtPin(c) ==
  /\ CanEnsure(c)
  /\ \E pin \in Pins : Become(c, EnsuredTournament(c, pin))
  /\ UNCHANGED <<inventory, bracket>>

\* CONFIGURE_MATCH, START_MATCH (its configureMatch is overwritten by the
\* start) and RESET_COURT.
RefereeSets(c) ==
  /\ court[c].referee
  /\ \E r \in {ConfigureMatch(court[c]), StartMatch(court[c]), ResetTable(court[c])} :
       Become(c, r)
  /\ UNCHANGED <<inventory, bracket>>

CanScore(c) == court[c].referee /\ MatchActive(court[c])

\* RECORD_POINT that does not end the match.
RecordPoint(c) ==
  /\ CanScore(c)
  /\ Become(c, FollowEngine(court[c]))
  /\ UNCHANGED <<inventory, bracket>>

\* releaseIfCompleted: with the final decided every bound court is released.
ReleaseIfCompleted(b) == IF b.status = "COMPLETED" THEN ReleaseAll(b) ELSE b

\* releaseCourtFlow, of the courts in released.
ReleaseFlows(courts, released) ==
  [c \in Courts |-> IF c \in released THEN Release(courts[c]) ELSE courts[c]]

\* Mutant: the bindings are cleared and the courts are left playing.
ReleaseBindingsOnly(courts, b) == courts

ReleaseCompletedFlows(courts, b) ==
  IF b.status = "COMPLETED" THEN ReleaseFlows(courts, BoundCourts(b)) ELSE courts

\* The bracket advances when a tournament court's match is won by somebody who
\* stands in the bound match.
Advances(c, name) ==
  court[c].mode = "tournament" /\ \E m \in BoundTo(c) : CanDecide(bracket, m, name)

\* RECORD_POINT that ends the match: MATCH_WON is handled inside recordPoint,
\* which then takes over the engine's status, reset if the court was released.
MatchWon(c, name) ==
  /\ CanScore(c) /\ court[c].engine = "LIVE"
  /\ LET ended == [court EXCEPT ![c].engine = "FINISHED"]
     IN  IF Advances(c, name)
         THEN \E m \in BoundTo(c) :
                LET b == Decide(bracket, m, name)
                    freed == ReleaseCompletedFlows(ended, b)
                IN  /\ CanDecide(bracket, m, name)
                    /\ bracket' = ReleaseIfCompleted(b)
                    /\ court' = [freed EXCEPT ![c] = FollowEngine(@)]
         ELSE /\ court' = [ended EXCEPT ![c] = FollowEngine(@)]
              /\ UNCHANGED bracket
  /\ UNCHANGED inventory

------------------------------------------------------------------------------
(* The owner's bracket.                                                       *)

\* BRACKET_CREATE: the cold-start gate asks for an ACTIVE court.
OnCreate ==
  /\ \E c \in Courts : Active(c)
  /\ \E third \in BOOLEAN : bracket' = Create(third)
  /\ UNCHANGED <<inventory, court>>

OnAssignPlayer(m, s) ==
  /\ Found(bracket, m) /\ <<m, s>> \in OwnerSlots
  /\ \E name \in Names \cup {Nobody} : bracket' = AssignPlayer(bracket, m, s, name)
  /\ UNCHANGED <<inventory, court>>

OnSetWinner(m, s) ==
  /\ CanSetWinner(bracket, m, s)
  /\ LET b == SetWinner(bracket, m, s)
     IN  /\ bracket' = ReleaseIfCompleted(b)
         /\ court' = ReleaseCompletedFlows(court, b)
  /\ UNCHANGED inventory

\* Mutant: the reverse index is not consulted.
CanBindAny(m, c) == Found(bracket, m) /\ m \in BoundMatches /\ Active(c)

\* courtExists and the reverse index.
CanBind(m, c) ==
  /\ Found(bracket, m) /\ m \in BoundMatches
  /\ Active(c)
  /\ BoundTo(c) \subseteq {m}

\* BRACKET_ASSIGN_COURT, of a court or of null.
OnAssignCourt(m, c) ==
  /\ CanBind(m, c)
  /\ bracket' = AssignCourt(bracket, m, c)
  /\ UNCHANGED <<inventory, court>>

OnClearCourt(m) ==
  /\ Found(bracket, m)
  /\ bracket' = AssignCourt(bracket, m, NoCourt)
  /\ UNCHANGED <<inventory, court>>

\* TOURNAMENT_SELECT_TABLE: a court of the club must be AVAILABLE, any other
\* court must have no match on it.
CanSelect(r) ==
  /\ r.mode = "club" => r.clubStatus = "AVAILABLE"
  /\ r.mode = "tournament" => r.flow # "LIVE"

OnSelectTable(m, c) ==
  /\ CanBind(m, c) /\ CanSelect(court[c])
  /\ bracket' = AssignCourt(bracket, m, c)
  /\ \E pin \in Pins : Become(c, EnsuredTournament(c, pin))
  /\ UNCHANGED inventory

OnUndoMatch(m) ==
  /\ Found(bracket, m)
  /\ bracket' = UndoMatch(bracket, m)
  /\ UNCHANGED <<inventory, court>>

\* BRACKET_RESET, confirmed.
OnReset ==
  /\ bracket' = NoBracket
  /\ court' = ReleaseFlows(court, BoundCourts(bracket))
  /\ UNCHANGED inventory

\* POST /finish: releaseAllCourts, then repository.clear drops every runtime
\* court in tournament mode.
Finish ==
  /\ bracket' = ReleaseAll(bracket)
  /\ court' = [c \in Courts |-> IF court[c].mode = "tournament" THEN NoRuntime ELSE court[c]]
  /\ UNCHANGED inventory

\* restoreState: the courts with a flow come back, and so does, with a new PIN,
\* an ACTIVE court the bracket is bound to.
Restart ==
  /\ \E pins \in [Courts -> Pins] :
       court' = [c \in Courts |->
         LET r == Restored(court[c])
         IN  IF ~Exists(r) /\ c \in BoundCourts(bracket) /\ Active(c)
             THEN MaterializedTournament(pins[c]) ELSE r]
  /\ UNCHANGED <<inventory, bracket>>

Next ==
  \/ \E c \in Courts :
       \/ InventoryAdd(c) \/ InventoryMaintenance(c) \/ InventoryArchive(c)
       \/ ClubActivate(c) \/ ClubDeactivate(c) \/ ClubReset(c) \/ ClubAdminOccupy(c)
       \/ \E pin \in Pins : ClubJoin(c, pin) \/ ClubReconnect(c, pin) \/ SetRef(c, pin)
       \/ ClubEndSession(c) \/ ClubNewMatch(c)
       \/ ClubForceEnd(c) \/ InventoryForceEnd(c)
       \/ RefereeLeaves(c) \/ OnRegeneratePin(c) \/ GenerateCourtPin(c)
       \/ RefereeSets(c) \/ RecordPoint(c)
       \/ \E name \in Names \cup {Nobody} : MatchWon(c, name)
  \/ OnCreate
  \/ \E m \in Matches, s \in Slots : OnAssignPlayer(m, s) \/ OnSetWinner(m, s)
  \/ \E m \in Matches, c \in Courts : OnAssignCourt(m, c) \/ OnSelectTable(m, c)
  \/ \E m \in Matches : OnClearCourt(m) \/ OnUndoMatch(m)
  \/ OnReset
  \/ Finish
  \/ Restart

Spec == Init /\ [][Next]_vars

------------------------------------------------------------------------------

(* The projections the guards read are never out of step with the flow they   *)
(* project: a club court is OCCUPIED or FINISHED exactly while its flow is, a *)
(* court is reserved exactly while it is RESERVED, mode is the mode of the    *)
(* flow, and a court with no flow does not show a match being played.         *)
InStep(r) ==
  /\ r.clubStatus \in ClubFlow \/ r.flow \in ClubFlow => r.clubStatus = r.flow
  /\ r.reserved <=> r.clubStatus = "RESERVED"
  /\ r.mode = "club"       => r.flow \in ClubFlow \cup {"NONE"}
  /\ r.mode = "tournament" => r.flow \in {"LIVE", "NONE"}
  /\ r.mode = "none"       => r = NoRuntime
  /\ r.flow = "NONE"       => r.status \in {"WAITING", "CONFIGURING"}

(* InStep, of every court: setMatchStatus, the flow contracts, restoreState.  *)
ProjectionsInStep == \A c \in Courts : InStep(court[c])

(* The reverse index (TCS-2): no court is ever bound to two matches, whatever *)
(* mix of selections, force-ends, undos and re-creations led there.           *)
OneMatchPerCourt ==
  \A m, n \in Matches :
    bracket.court[m] = bracket.court[n] /\ m # n => bracket.court[m] = NoCourt

(* A session can always be reached: a reserved or occupied club court has a   *)
(* PIN, through regeneration and restarts too.                                *)
SessionReachable ==
  \A c \in Courts :
    court[c].mode = "club" /\ court[c].clubStatus \in {"RESERVED", "OCCUPIED"}
    => court[c].pin # NoPin

(* The step that decides the final leaves no court bound and no match running *)
(* on a court that was bound (Q4: the courts must reach IDLE).                *)
FinalFreesCourts ==
  [][bracket.status # "COMPLETED" /\ bracket'.status = "COMPLETED" =>
       /\ BoundCourts(bracket') = {}
       /\ \A c \in BoundCourts(bracket) : court'[c].flow # "LIVE"]_vars

(* A club session is only ever ended, never lost or overwritten: after        *)
(* OCCUPIED comes FINISHED, with the PIN gone, and after FINISHED a reset to  *)
(* AVAILABLE; no tournament operation, finish or restart comes in between.    *)
SessionsEndInOrder ==
  [][\A c \in Courts :
       /\ court[c].flow = "OCCUPIED" => court'[c].flow \in ClubFlow
       /\ court[c].flow = "OCCUPIED" /\ court'[c].flow = "FINISHED" => court'[c].pin = NoPin
       /\ court[c].flow = "FINISHED" =>
            court'[c].clubStatus \in {"FINISHED", "AVAILABLE"}]_vars

(* Club courts are untouched by the tournament (TCS-3): a step that changes   *)
(* the bracket, results and releases included, changes no club session, bound *)
(* to a match though its court may be.                                        *)
BracketSparesClub ==
  [][bracket' # bracket =>
       \A c \in Courts : court[c].flow \in ClubFlow => court'[c] = court[c]]_vars

==============================================================================
