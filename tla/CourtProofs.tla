----------------------------- MODULE CourtProofs ------------------------------
(* Theorems about CourtFlow for any number of courts and PINs and a bracket  *)
(* of any size: first what each operation does to one court, then what it    *)
(* does to the bracket's bindings, then the steps that change both.          *)
EXTENDS CourtFlow, BracketEngineProofs

USE RoundsAssumption, NobodyAssumption, NoCourtAssumption, NoPinAssumption,
    OwnerSlotsAssumption, BoundMatchesAssumption

------------------------------------------------------------------------------
(* One court.                                                                 *)

\* What a court must have kept through every operation.
Reachable(r) ==
  r.mode = "club" /\ r.clubStatus \in {"RESERVED", "OCCUPIED"} => r.pin # NoPin

GoodCourt(r) == r \in Runtime /\ InStep(r) /\ Reachable(r)

(* A court fresh from the catalog, and one that has no entry, are good.       *)
LEMMA BuiltLemma ==
  /\ GoodCourt(NoRuntime)
  /\ \A mode \in {"club", "tournament"}, pin \in Pins \cup {NoPin} : GoodCourt(Built(mode, pin))
<1>1. GoodCourt(NoRuntime)
  BY DEF GoodCourt, Reachable, InStep, NoRuntime, Built, Runtime, ClubFlow
<1>2. ASSUME NEW mode \in {"club", "tournament"}, NEW pin \in Pins \cup {NoPin}
      PROVE  GoodCourt(Built(mode, pin))
  <2> DEFINE b == Built(mode, pin)
  <2>1. /\ b.mode = mode /\ b.flow = "NONE" /\ b.clubStatus = "AVAILABLE" /\ b.reserved = FALSE
        /\ b.pin = pin /\ b.status = "WAITING" /\ b.engine = "WAITING"
        /\ b.mode \in {"club", "tournament"}
    BY DEF Built
  <2>2. b \in Runtime
    BY DEF Built, Runtime
  <2> HIDE DEF b
  <2>3. InStep(b)
    BY ONLY <2>1 DEF InStep, ClubFlow
  <2>4. Reachable(b)
    BY ONLY <2>1 DEF Reachable
  <2>. QED BY <2>2, <2>3, <2>4 DEF GoodCourt, b
<1>. QED BY <1>1, <1>2

(* setMatchStatus, of a court that exists; a court without a flow cannot      *)
(* become FINISHED.                                                           *)
LEMMA SetStatusLemma ==
  ASSUME NEW r, GoodCourt(r), Exists(r),
         NEW s \in {"WAITING", "CONFIGURING", "LIVE", "FINISHED"},
         s = "FINISHED" => r.flow # "NONE"
  PROVE  /\ GoodCourt(SetStatus(r, s))
         /\ Exists(SetStatus(r, s))
         /\ SetStatus(r, s).pin = r.pin
         /\ r.flow \in ClubFlow => SetStatus(r, s).flow = r.flow
         /\ r.flow \notin ClubFlow => SetStatus(r, s).flow \notin ClubFlow
         /\ SetStatus(r, s).clubStatus = r.clubStatus
<1> DEFINE q == SetStatus(r, s)
<1>1. r \in Runtime /\ InStep(r) /\ Reachable(r) /\ Exists(r)
  BY DEF GoodCourt
<1>2. /\ q \in Runtime /\ q.pin = r.pin /\ q.clubStatus = r.clubStatus /\ q.reserved = r.reserved
      /\ q.status = s
      /\ IF r.flow \notin ClubFlow /\ s = "LIVE" THEN q.flow = "LIVE" /\ q.mode = "tournament"
         ELSE /\ q.mode = r.mode
              /\ q.flow = IF r.flow \notin ClubFlow /\ s = "WAITING" THEN "NONE" ELSE r.flow
  <2>1. r \in Runtime
    BY <1>1
  <2>2. CASE r.flow \in ClubFlow \/ s \notin {"LIVE", "WAITING"}
    <3>1. q = [r EXCEPT !.status = s]
      BY ONLY <2>2 DEF SetStatus
    <3> HIDE DEF q
    <3>. QED BY <2>1, <2>2, <3>1 DEF Runtime
  <2>3. CASE r.flow \notin ClubFlow /\ s = "LIVE"
    <3>1. q = [r EXCEPT !.status = s, !.flow = "LIVE", !.mode = "tournament"]
      BY ONLY <2>3 DEF SetStatus
    <3> HIDE DEF q
    <3>. QED BY <2>1, <2>3, <3>1 DEF Runtime
  <2>4. CASE r.flow \notin ClubFlow /\ s = "WAITING"
    <3>1. q = [r EXCEPT !.status = s, !.flow = "NONE"]
      BY ONLY <2>4 DEF SetStatus
    <3> HIDE DEF q
    <3>. QED BY <2>1, <2>4, <3>1 DEF Runtime
  <2>. QED BY <2>2, <2>3, <2>4
<1> HIDE DEF q
<1>3. InStep(q)
  BY <1>1, <1>2 DEF InStep, Exists, ClubFlow, Runtime
<1>4. Reachable(q)
  BY <1>1, <1>2 DEF Reachable
<1>. QED BY <1>1, <1>2, <1>3, <1>4 DEF GoodCourt, Exists, ClubFlow, q

(* The engine's status may be anything, and a referee may come and go.        *)
LEMMA EngineLemma ==
  ASSUME NEW r, GoodCourt(r), Exists(r),
         NEW e \in {"WAITING", "LIVE", "FINISHED"}, NEW ref \in BOOLEAN
  PROVE  GoodCourt([r EXCEPT !.engine = e]) /\ GoodCourt([r EXCEPT !.referee = ref])
<1>. QED
  BY DEF GoodCourt, Reachable, InStep, Exists, Runtime, ClubFlow, NoRuntime, Built

\* The flow of r may become that of q: a session runs on, or ends and loses its
\* PIN, and an ended one waits for its reset.
Onward(r, q) ==
  /\ r.flow = "OCCUPIED" => q.flow \in ClubFlow /\ (q.flow = "FINISHED" => q.pin = NoPin)
  /\ r.flow = "FINISHED" => q.clubStatus \in {"FINISHED", "AVAILABLE"}

(* The referee's events keep a court good and its session where it is.        *)
LEMMA RefereeLemma ==
  ASSUME NEW r, GoodCourt(r), Exists(r)
  PROVE  /\ \A q \in {ConfigureMatch(r), StartMatch(r), ResetTable(r)} :
              GoodCourt(q) /\ Onward(r, q) /\ q.pin = r.pin
         /\ MatchActive(r) => GoodCourt(FollowEngine(r)) /\ Onward(r, FollowEngine(r))
         /\ r.engine = "WAITING" => GoodCourt(FollowEngine(r)) /\ Onward(r, FollowEngine(r))
<1>1. r \in Runtime /\ InStep(r)
  BY DEF GoodCourt
<1>2. r.engine \in {"WAITING", "LIVE", "FINISHED"}
  BY <1>1 DEF Runtime
<1>3. \A s \in {"WAITING", "CONFIGURING", "LIVE"} :
        /\ GoodCourt(SetStatus(r, s)) /\ Exists(SetStatus(r, s)) /\ SetStatus(r, s).pin = r.pin
        /\ Onward(r, SetStatus(r, s)) /\ SetStatus(r, s) \in Runtime
  BY <1>1, SetStatusLemma DEF Onward, InStep, ClubFlow, GoodCourt
<1>4. ASSUME NEW s \in {"WAITING", "CONFIGURING", "LIVE"}, NEW e \in {"WAITING", "LIVE", "FINISHED"}
      PROVE  LET q == [SetStatus(r, s) EXCEPT !.engine = e]
             IN  GoodCourt(q) /\ Onward(r, q) /\ q.pin = r.pin
  <2> DEFINE t == SetStatus(r, s)
             q == [t EXCEPT !.engine = e]
  <2>1. GoodCourt(t) /\ Exists(t) /\ t.pin = r.pin /\ Onward(r, t) /\ t \in Runtime
    BY <1>3
  <2> HIDE DEF t
  <2>2. GoodCourt(q)
    <3>1. GoodCourt([t EXCEPT !.engine = e]) /\ GoodCourt([t EXCEPT !.referee = TRUE])
      BY <2>1, EngineLemma
    <3>. QED BY <3>1
  <2>3. q.flow = t.flow /\ q.pin = t.pin /\ q.clubStatus = t.clubStatus
    BY <2>1 DEF Runtime
  <2>4. Onward(r, q) /\ q.pin = r.pin
    BY <2>1, <2>3 DEF Onward
  <2>. QED BY <2>2, <2>4 DEF t
<1>5. ASSUME MatchActive(r) \/ r.engine = "WAITING"
      PROVE  GoodCourt(FollowEngine(r)) /\ Onward(r, FollowEngine(r))
  <2>1. r.engine = "FINISHED" => r.flow # "NONE"
    BY <1>5 DEF MatchActive
  <2>2. /\ GoodCourt(SetStatus(r, r.engine))
        /\ r.flow \in ClubFlow => SetStatus(r, r.engine).flow = r.flow
        /\ SetStatus(r, r.engine).clubStatus = r.clubStatus
    BY <1>2, <2>1, SetStatusLemma
  <2>. QED BY <1>1, <2>2 DEF FollowEngine, Onward, InStep, ClubFlow
<1>. QED
  BY <1>4, <1>5 DEF ConfigureMatch, StartMatch, ResetTable

(* A reservation, with a PIN.                                                 *)
LEMMA ActivateLemma ==
  ASSUME NEW r, GoodCourt(r), CanActivate(r), NEW pin \in Pins
  PROVE  /\ GoodCourt(ActivateCourt(r, pin))
         /\ Onward(r, ActivateCourt(r, pin))
         /\ ActivateCourt(r, pin).flow = r.flow
<1>. QED
  BY DEF CanActivate, ActivateCourt, GoodCourt, InStep, Reachable, Runtime, ClubFlow, Onward,
         NoRuntime, Built

(* The rest of the club's lifecycle, each step under its guard, and the two   *)
(* force-ends.                                                                *)
LEMMA ClubLemma ==
  ASSUME NEW r, GoodCourt(r)
  PROVE  /\ CanDeactivate(r) => GoodCourt(DeactivateCourt(r)) /\ Onward(r, DeactivateCourt(r))
         /\ CanReset(r) => GoodCourt(ResetCourt(r)) /\ Onward(r, ResetCourt(r))
         /\ r.mode = "club" /\ r.flow = "OCCUPIED"
            => GoodCourt(EndSession(r)) /\ Onward(r, EndSession(r))
<1>1. r \in Runtime /\ InStep(r) /\ Reachable(r)
  BY DEF GoodCourt
<1>2. CanDeactivate(r) => GoodCourt(DeactivateCourt(r)) /\ Onward(r, DeactivateCourt(r))
  BY <1>1 DEF CanDeactivate, DeactivateCourt, GoodCourt, InStep, Reachable, Runtime, ClubFlow,
              Onward, NoRuntime, Built
<1>3. CanReset(r) => GoodCourt(ResetCourt(r)) /\ Onward(r, ResetCourt(r))
  BY <1>1 DEF CanReset, ResetCourt, ResetTable, SetStatus, GoodCourt, InStep, Reachable, Runtime,
              ClubFlow, Onward, NoRuntime, Built
<1>4. r.mode = "club" /\ r.flow = "OCCUPIED" => GoodCourt(EndSession(r)) /\ Onward(r, EndSession(r))
  BY <1>1 DEF EndSession, GoodCourt, InStep, Reachable, Runtime, ClubFlow, Onward, NoRuntime, Built
<1>. QED BY <1>2, <1>3, <1>4

(* A reservation becomes a session, with the PIN it was given.                *)
LEMMA OccupyLemma ==
  ASSUME NEW r, GoodCourt(r), CanOccupy(r)
  PROVE  GoodCourt(OccupyCourt(r)) /\ Exists(OccupyCourt(r)) /\ Onward(r, OccupyCourt(r))
<1>1. r \in Runtime /\ InStep(r) /\ Reachable(r) /\ r.mode = "club" /\ r.flow = "NONE" /\ r.reserved
  BY DEF GoodCourt, CanOccupy
<1>2. r.pin \in Pins /\ r.pin # NoPin
  BY <1>1 DEF InStep, Reachable, Runtime
<1>. QED
  BY <1>1, <1>2
  DEF OccupyCourt, StartMatch, SetStatus, GoodCourt, InStep, Reachable, Runtime, ClubFlow, Exists,
      Onward, NoRuntime, Built

(* A tournament court is cleared; a court in a club session is left alone.    *)
LEMMA ReleaseLemma ==
  ASSUME NEW r, GoodCourt(r)
  PROVE  /\ GoodCourt(Release(r)) /\ Onward(r, Release(r))
         /\ Release(r).flow # "LIVE"
         /\ r.flow \in ClubFlow => Release(r) = r
         /\ Exists(r) => Exists(Release(r))
         /\ r.mode = "tournament" => Release(r).engine = "WAITING" /\ Release(r).flow = "NONE"
         /\ r.mode = "tournament" => Release(r) = ClearFlow(r)
<1>1. r \in Runtime /\ InStep(r) /\ Reachable(r)
  BY DEF GoodCourt
<1>2. CASE r.mode = "tournament"
  <2>1. r.flow \in {"LIVE", "NONE"} /\ r.clubStatus \notin ClubFlow
    BY <1>1, <1>2 DEF InStep, ClubFlow
  <2> DEFINE q == ClearFlow(r)
  <2>2. /\ q \in Runtime
        /\ q.mode = "tournament" /\ q.flow = "NONE" /\ q.status = "WAITING" /\ q.engine = "WAITING"
        /\ q.clubStatus = r.clubStatus /\ q.reserved = r.reserved
    BY <1>1, <1>2 DEF ClearFlow, Runtime
  <2>3. Release(r) = q
    BY <1>2 DEF Release
  <2> HIDE DEF q
  <2>4. GoodCourt(q)
    BY <1>1, <2>1, <2>2 DEF GoodCourt, InStep, Reachable, ClubFlow
  <2>5. Onward(r, q) /\ Exists(q)
    BY <2>1, <2>2 DEF Onward, Exists
  <2>. QED BY <1>2, <2>1, <2>2, <2>3, <2>4, <2>5 DEF ClubFlow, q
<1>3. CASE r.mode # "tournament"
  <2>1. Release(r) = r
    BY <1>3 DEF Release
  <2>2. r.flow # "LIVE"
    BY <1>1, <1>3 DEF InStep, ClubFlow, NoRuntime, Built, Runtime
  <2>3. Onward(r, r)
    BY <1>1 DEF Onward, InStep, ClubFlow
  <2>. QED BY <1>3, <2>1, <2>2, <2>3
<1>. QED BY <1>2, <1>3

(* A force-end is the end of a session or the clearing of a tournament court. *)
LEMMA ForceEndLemma ==
  ASSUME NEW r, GoodCourt(r), CanForceEnd(r)
  PROVE  GoodCourt(ForceEnd(r)) /\ Onward(r, ForceEnd(r))
<1>1. CASE r.mode = "club"
  BY <1>1, ClubLemma DEF CanForceEnd, CanEndSession, TournamentPlays, ForceEnd
<1>2. CASE r.mode # "club"
  BY <1>2, ReleaseLemma DEF CanForceEnd, CanEndSession, TournamentPlays, ForceEnd
<1>. QED BY <1>1, <1>2

(* A new PIN: the match is reset, a session stays.                            *)
LEMMA PinLemma ==
  ASSUME NEW r, GoodCourt(r), Exists(r), NEW pin \in Pins
  PROVE  /\ GoodCourt(RegeneratePin(r, pin))
         /\ r.flow = "OCCUPIED" => RegeneratePin(r, pin).flow = "OCCUPIED"
         /\ Onward(r, RegeneratePin(r, pin))
<1> DEFINE t == SetStatus(r, "WAITING")
           e == [t EXCEPT !.engine = "WAITING"]
           q == [e EXCEPT !.pin = pin, !.referee = FALSE]
<1>1. /\ GoodCourt(t) /\ Exists(t) /\ (r.flow \in ClubFlow => t.flow = r.flow)
      /\ t.clubStatus = r.clubStatus
  BY SetStatusLemma
<1>2. RegeneratePin(r, pin) = q
  BY DEF RegeneratePin, ResetTable
<1> HIDE DEF t
<1>3. GoodCourt(e) /\ e.flow = t.flow /\ e.clubStatus = t.clubStatus /\ e.mode = t.mode
  <2>1. t \in Runtime
    BY <1>1 DEF GoodCourt
  <2>2. GoodCourt(e)
    BY <1>1, EngineLemma
  <2>. QED BY <2>1, <2>2 DEF Runtime
<1>4. Exists(e)
  BY <1>1, <1>3 DEF Exists
<1> HIDE DEF e
<1>5. /\ q \in Runtime /\ q.flow = e.flow /\ q.clubStatus = e.clubStatus /\ q.mode = e.mode
      /\ q.reserved = e.reserved /\ q.status = e.status /\ q.pin = pin /\ pin # NoPin
  <2>1. e \in Runtime /\ pin \in Pins \cup {NoPin} /\ FALSE \in BOOLEAN
    BY <1>3 DEF GoodCourt
  <2>2. q \in Runtime
    BY ONLY <2>1 DEF Runtime
  <2>3. /\ q.flow = e.flow /\ q.clubStatus = e.clubStatus /\ q.mode = e.mode
        /\ q.reserved = e.reserved /\ q.status = e.status /\ q.pin = pin
    BY ONLY <2>1 DEF Runtime
  <2>4. pin # NoPin
    OBVIOUS
  <2>. QED BY ONLY <2>2, <2>3, <2>4
<1> HIDE DEF q
<1>6. InStep(q)
  BY <1>3, <1>4, <1>5 DEF GoodCourt, InStep, Exists
<1>7. Reachable(q)
  BY <1>5 DEF Reachable
<1>8. /\ r.flow = "OCCUPIED" => q.flow = "OCCUPIED"
      /\ Onward(r, q)
  <2>1. r \in Runtime /\ InStep(r) /\ Exists(r)
    BY DEF GoodCourt
  <2>. QED BY <1>1, <1>3, <1>5, <2>1 DEF InStep, Exists, Onward, ClubFlow, Runtime
<1>. QED BY <1>2, <1>5, <1>6, <1>7, <1>8 DEF GoodCourt

(* A restart brings a session back with its PIN.                              *)
LEMMA RestoreLemma ==
  ASSUME NEW r, GoodCourt(r)
  PROVE  /\ GoodCourt(Restored(r))
         /\ Restored(r).flow = r.flow
         /\ r.flow \in ClubFlow => Restored(r).clubStatus = r.flow
<1>1. r \in Runtime /\ InStep(r) /\ Reachable(r)
  BY DEF GoodCourt
<1>2. CASE r.flow = "NONE"
  <2>1. Restored(r) = NoRuntime /\ NoRuntime.flow = "NONE"
    BY <1>2 DEF Restored, NoRuntime, Built
  <2>. QED BY <1>2, <2>1, BuiltLemma DEF ClubFlow
<1>3. CASE r.flow # "NONE"
  <2> DEFINE q == Restored(r)
  <2>1. r.mode \in {"club", "tournament"} /\ r.pin \in Pins \cup {NoPin}
    BY <1>1, <1>3 DEF InStep, Runtime, NoRuntime, Built
  <2>2. /\ q = [mode |-> r.mode, flow |-> r.flow,
               clubStatus |-> IF r.mode = "club" THEN r.flow ELSE "AVAILABLE",
               reserved |-> FALSE, pin |-> r.pin,
               status |-> IF r.mode = "club" THEN "WAITING" ELSE r.engine,
               engine |-> r.engine, referee |-> FALSE]
    BY <1>3 DEF Restored, Built
  <2> HIDE DEF q
  <2>3. CASE r.mode = "club"
    <3>1. r.flow \in ClubFlow /\ r.clubStatus = r.flow
      BY <1>1, <1>3, <2>3 DEF InStep
    <3>2. q \in Runtime
      BY <1>1, <2>1, <2>2, <2>3, <3>1 DEF Runtime, ClubFlow
    <3>3. InStep(q)
      BY <2>2, <2>3, <3>1 DEF InStep, ClubFlow
    <3>4. Reachable(q)
      BY <1>1, <2>2, <2>3, <3>1 DEF Reachable
    <3>. QED BY <2>2, <2>3, <3>2, <3>3, <3>4 DEF GoodCourt, Exists, q
  <2>4. CASE r.mode = "tournament"
    <3>1. r.flow = "LIVE"
      BY <1>1, <1>3, <2>4 DEF InStep
    <3>2. q \in Runtime
      BY <1>1, <2>1, <2>2, <2>4, <3>1 DEF Runtime
    <3>3. InStep(q)
      BY <2>2, <2>4, <3>1 DEF InStep, ClubFlow
    <3>4. Reachable(q)
      BY <2>2, <2>4 DEF Reachable
    <3>. QED BY <2>2, <2>4, <3>1, <3>2, <3>3, <3>4 DEF GoodCourt, Exists, ClubFlow, q
  <2>. QED BY <2>1, <2>3, <2>4
<1>. QED BY <1>2, <1>3

------------------------------------------------------------------------------
(* The bracket's bindings.                                                    *)

OneEach(b) ==
  \A m, n \in Matches : b.court[m] = b.court[n] /\ m # n => b.court[m] = NoCourt

GoodBracket(b) == b \in Brackets /\ Agrees(b) /\ OneEach(b)

(* The stored status is COMPLETED exactly when the final is decided.          *)
LEMMA CompletedByFinal ==
  ASSUME NEW b \in Brackets, Agrees(b), b.status # "NONE"
  PROVE  b.status = "COMPLETED" <=> b.state[FinalMatch] = "COMPLETED"
<1>. QED BY DEF Agrees, StatusFrom

(* No bracket, and a created one, bind no court.                              *)
LEMMA BlankBindings ==
  \A status \in {"NONE", "SETUP"}, third \in BOOLEAN :
    /\ GoodBracket(Blank(status, third))
    /\ Blank(status, third).status # "COMPLETED"
<1>1. \A status, third : \A m \in Matches : Blank(status, third).court[m] = NoCourt
  BY DEF Blank
<1>2. \A status, third : Blank(status, third).status = status
  BY DEF Blank
<1>. QED BY <1>1, <1>2, BlankLemma DEF GoodBracket, OneEach

(* Editing a slot and undoing a match bind nothing and complete nothing.      *)
LEMMA EditBindings ==
  ASSUME NEW b, GoodBracket(b), NEW m \in Matches, b.status # "NONE",
         NEW c, \/ c = UndoMatch(b, m)
                \/ \E s \in Slots, name \in Names \cup {Nobody} : c = AssignPlayer(b, m, s, name)
  PROVE  /\ GoodBracket(c)
         /\ c.status = "COMPLETED" => b.status = "COMPLETED"
<1>1. b \in Brackets /\ Agrees(b) /\ OneEach(b)
  BY DEF GoodBracket
<1>2. /\ c \in Brackets /\ Agrees(c)
      /\ c.state[FinalMatch] = "COMPLETED" => b.state[FinalMatch] = "COMPLETED"
  <2>1. CASE c = UndoMatch(b, m)
    BY <1>1, <2>1, UndoLemma, ThirdPlaceIsAMatch
  <2>2. CASE \E s \in Slots, name \in Names \cup {Nobody} : c = AssignPlayer(b, m, s, name)
    BY <1>1, <2>2, AssignLemma, ThirdPlaceIsAMatch
  <2>. QED BY <2>1, <2>2
<1>3. c.court = b.court
  BY <1>1 DEF UndoMatch, AssignPlayer, Brackets
<1>4. c.status = "COMPLETED" => b.status = "COMPLETED"
  <2>1. c.status = "COMPLETED" => c.state[FinalMatch] = "COMPLETED"
    BY <1>2, CompletedByFinal
  <2>. QED BY <1>1, <1>2, <2>1, CompletedByFinal
<1>. QED BY <1>1, <1>2, <1>3, <1>4 DEF GoodBracket, OneEach

(* A result binds nothing.                                                    *)
LEMMA WinnerBindings ==
  ASSUME NEW b, GoodBracket(b), NEW m \in Matches, NEW s \in Slots, CanSetWinner(b, m, s)
  PROVE  GoodBracket(SetWinner(b, m, s)) /\ SetWinner(b, m, s).court = b.court
<1>1. b \in Brackets /\ Agrees(b) /\ OneEach(b)
  BY DEF GoodBracket
<1>2. SetWinner(b, m, s).court = b.court
  BY <1>1 DEF SetWinner, Brackets
<1>3. SetWinner(b, m, s) \in Brackets /\ Agrees(SetWinner(b, m, s))
  BY <1>1, SetWinnerLemma
<1>. QED BY <1>1, <1>2, <1>3 DEF GoodBracket, OneEach

(* Nor does a result the court reports, with the loser it feeds.              *)
LEMMA DecideBindings ==
  ASSUME NEW b, GoodBracket(b), NEW m \in Matches, NEW name, CanDecide(b, m, name)
  PROVE  GoodBracket(Decide(b, m, name)) /\ Decide(b, m, name).court = b.court
<1> DEFINE s == NamedSlot(b, m, name)
           won == SetWinner(b, m, s)
<1>1. s \in Slots /\ Other(s) \in Slots /\ CanSetWinner(b, m, s)
  BY DEF CanDecide, NamedSlot, Other, Slots
<1>2. GoodBracket(won) /\ won.court = b.court
  BY <1>1, WinnerBindings
<1>3. Decide(b, m, name)
      = IF CanFeedThirdPlace(won, m, Other(s)) THEN FeedThirdPlace(won, m, Other(s)) ELSE won
  BY DEF Decide
<1> HIDE DEF won, s
<1>4. CASE CanFeedThirdPlace(won, m, Other(s))
  <2> DEFINE c == FeedThirdPlace(won, m, Other(s))
  <2>1. won \in Brackets /\ Agrees(won) /\ OneEach(won) /\ m \in Main
    BY <1>2, <1>4 DEF GoodBracket, CanFeedThirdPlace
  <2>2. c \in Brackets /\ Agrees(c)
    BY <1>1, <2>1, FeedLemma
  <2>3. c.court = won.court
    BY <2>1 DEF FeedThirdPlace, Brackets
  <2>. QED BY <1>2, <1>3, <1>4, <2>1, <2>2, <2>3 DEF GoodBracket, OneEach
<1>5. CASE ~CanFeedThirdPlace(won, m, Other(s))
  BY <1>2, <1>3, <1>5
<1>. QED BY <1>4, <1>5

(* Binding a court no other match has, and unbinding one.                     *)
LEMMA BindLemma ==
  ASSUME NEW b, GoodBracket(b), NEW m \in Matches, NEW c \in Courts \cup {NoCourt},
         \A n \in Matches : b.court[n] = c => n = m \/ c = NoCourt
  PROVE  /\ GoodBracket(AssignCourt(b, m, c))
         /\ AssignCourt(b, m, c).status = b.status
<1> DEFINE q == AssignCourt(b, m, c)
<1>1. b \in Brackets /\ Agrees(b) /\ OneEach(b)
  BY DEF GoodBracket
<1>2. /\ q \in Brackets
      /\ q.court = [b.court EXCEPT ![m] = c]
      /\ q.state = b.state /\ q.winner = b.winner /\ q.player = b.player
      /\ q.status = b.status /\ q.thirdPlace = b.thirdPlace
  BY <1>1 DEF AssignCourt, Brackets
<1> HIDE DEF q
<1>3. Agrees(q)
  BY <1>1, <1>2 DEF Agrees
<1>4. OneEach(q)
  BY <1>1, <1>2 DEF OneEach, Brackets
<1>. QED BY <1>2, <1>3, <1>4 DEF GoodBracket, q

(* releaseAll leaves no court bound and the results as they are.              *)
LEMMA ReleaseAllLemma ==
  ASSUME NEW b, GoodBracket(b)
  PROVE  /\ GoodBracket(ReleaseAll(b))
         /\ ReleaseAll(b).status = b.status
         /\ BoundCourts(ReleaseAll(b)) = {}
<1> DEFINE q == ReleaseAll(b)
<1>1. b \in Brackets /\ Agrees(b)
  BY DEF GoodBracket
<1>2. /\ q \in Brackets
      /\ \A m \in Matches : q.court[m] = NoCourt
      /\ q.state = b.state /\ q.winner = b.winner /\ q.player = b.player
      /\ q.status = b.status /\ q.thirdPlace = b.thirdPlace
  BY <1>1 DEF ReleaseAll, Brackets
<1> HIDE DEF q
<1>3. Agrees(q) /\ OneEach(q) /\ BoundCourts(q) = {}
  BY <1>1, <1>2 DEF Agrees, OneEach, BoundCourts
<1>. QED BY <1>2, <1>3 DEF GoodBracket, q

------------------------------------------------------------------------------
(* The inductive invariant, and what every step keeps besides it.             *)

IInv ==
  /\ TypeOK
  /\ ProjectionsInStep
  /\ SessionReachable
  /\ OneMatchPerCourt
  /\ Agrees(bracket)

Ordered == \A c \in Courts : Onward(court[c], court'[c])

Freed ==
  bracket.status # "COMPLETED" /\ bracket'.status = "COMPLETED" =>
    /\ BoundCourts(bracket') = {}
    /\ \A c \in BoundCourts(bracket) : court'[c].flow # "LIVE"

Spared ==
  bracket' # bracket =>
    \A c \in Courts : court[c].flow \in ClubFlow => court'[c] = court[c]

Kept == IInv' /\ Ordered /\ Freed /\ Spared

(* The invariant, by its parts.                                               *)
LEMMA Parts ==
  IInv <=> /\ inventory \in [Courts -> {"FRESH", "ACTIVE", "MAINTENANCE", "ARCHIVED"}]
           /\ court \in [Courts -> Runtime]
           /\ \A c \in Courts : GoodCourt(court[c])
           /\ GoodBracket(bracket)
<1>. QED
  BY DEF IInv, TypeOK, ProjectionsInStep, SessionReachable, OneMatchPerCourt,
         GoodCourt, Reachable, GoodBracket, OneEach

(* The same of the next state.                                                *)
LEMMA PartsNext ==
  ASSUME inventory' \in [Courts -> {"FRESH", "ACTIVE", "MAINTENANCE", "ARCHIVED"}],
         court' \in [Courts -> Runtime],
         \A c \in Courts : GoodCourt(court'[c]),
         GoodBracket(bracket')
  PROVE  IInv'
<1>. QED
  BY DEF IInv, TypeOK, ProjectionsInStep, SessionReachable, OneMatchPerCourt,
         GoodCourt, Reachable, GoodBracket, OneEach

(* A court left alone has gone on.                                            *)
LEMMA OnwardSelf == \A r : GoodCourt(r) => Onward(r, r)
BY DEF Onward, GoodCourt, InStep, ClubFlow, Runtime

(* A bound court is one of the courts.                                        *)
LEMMA BoundType == \A b \in Brackets : BoundCourts(b) \subseteq Courts
BY DEF BoundCourts, Brackets

(* A flow of the club runs in mode club only.                                 *)
LEMMA ClubMode == \A r : GoodCourt(r) /\ r.flow \in ClubFlow => r.mode = "club"
BY DEF GoodCourt, InStep, ClubFlow, Runtime, NoRuntime, Built

(* Only the admin's catalog changes.                                          *)
LEMMA InventoryStep ==
  ASSUME IInv, inventory' \in [Courts -> {"FRESH", "ACTIVE", "MAINTENANCE", "ARCHIVED"}],
         UNCHANGED <<court, bracket>>
  PROVE  Kept
<1>1. IInv'
  BY Parts, PartsNext
<1>2. Ordered
  BY Parts, OnwardSelf DEF Ordered
<1>. QED BY <1>1, <1>2 DEF Kept, Freed, Spared

(* Only one court changes.                                                    *)
LEMMA CourtStep ==
  ASSUME IInv, NEW c \in Courts, NEW q, GoodCourt(q), Onward(court[c], q),
         Become(c, q), UNCHANGED <<inventory, bracket>>
  PROVE  Kept
<1>1. /\ court \in [Courts -> Runtime] /\ q \in Runtime
      /\ court' = [court EXCEPT ![c] = q]
      /\ \A d \in Courts : GoodCourt(court[d])
  BY Parts DEF Become, GoodCourt
<1>2. court' \in [Courts -> Runtime] /\ court'[c] = q /\ \A d \in Courts \ {c} : court'[d] = court[d]
  BY <1>1
<1>3. \A d \in Courts : GoodCourt(court'[d]) /\ Onward(court[d], court'[d])
  BY <1>1, <1>2, OnwardSelf
<1>4. IInv'
  BY <1>2, <1>3, Parts, PartsNext
<1>. QED BY <1>3, <1>4 DEF Kept, Ordered, Freed, Spared

(* Only the bracket changes, and it is not completed by it.                   *)
LEMMA BracketStep ==
  ASSUME IInv, GoodBracket(bracket'), UNCHANGED <<inventory, court>>,
         bracket'.status = "COMPLETED" => bracket.status = "COMPLETED"
  PROVE  Kept
<1>1. IInv'
  BY Parts, PartsNext
<1>2. Ordered
  BY Parts, OnwardSelf DEF Ordered
<1>. QED BY <1>1, <1>2 DEF Kept, Freed, Spared

(* In the initial state no court has a runtime entry and there is no bracket. *)
LEMMA InitIInv == Init => IInv
<1> SUFFICES ASSUME Init PROVE IInv
  OBVIOUS
<1>1. GoodBracket(bracket)
  BY BlankBindings DEF Init, NoBracket
<1>2. court = [c \in Courts |-> NoRuntime] /\ GoodCourt(NoRuntime)
  BY BuiltLemma DEF Init
<1>3. court \in [Courts -> Runtime] /\ \A c \in Courts : GoodCourt(court[c])
  BY <1>2 DEF GoodCourt
<1>4. inventory \in [Courts -> {"FRESH", "ACTIVE", "MAINTENANCE", "ARCHIVED"}]
  BY DEF Init
<1>. QED BY <1>1, <1>3, <1>4, Parts

------------------------------------------------------------------------------
(* The steps that change one court.                                           *)

(* The admin's catalog.                                                       *)
LEMMA CatalogStep ==
  ASSUME IInv, NEW c \in Courts,
         InventoryAdd(c) \/ InventoryMaintenance(c) \/ InventoryArchive(c)
  PROVE  Kept
<1>1. inventory \in [Courts -> {"FRESH", "ACTIVE", "MAINTENANCE", "ARCHIVED"}]
  BY Parts
<1>2. /\ inventory' \in [Courts -> {"FRESH", "ACTIVE", "MAINTENANCE", "ARCHIVED"}]
      /\ UNCHANGED <<court, bracket>>
  BY <1>1 DEF InventoryAdd, InventoryMaintenance, InventoryArchive
<1>. QED BY <1>2, InventoryStep

(* What ensureRuntimeCourt finds or builds is a good court, and its session,  *)
(* if it has one, is where it was.                                            *)
LEMMA EnsuredLemma ==
  ASSUME NEW c \in Courts, GoodCourt(court[c]), NEW pin \in Pins \cup {NoPin},
         NEW r \in {EnsuredClub(c), EnsuredTournament(c, pin)}
  PROVE  /\ GoodCourt(r) /\ Exists(r)
         /\ \A q : Onward(r, q) => Onward(court[c], q)
         /\ court[c].flow \in ClubFlow => r = court[c]
<1>1. CASE Exists(court[c])
  BY <1>1 DEF EnsuredClub, EnsuredTournament
<1>2. CASE ~Exists(court[c])
  <2>1. PICK mode \in {"club", "tournament"}, p \in Pins \cup {NoPin} : r = Built(mode, p)
    BY <1>2 DEF EnsuredClub, EnsuredTournament, MaterializedClub, MaterializedTournament
  <2>2. court[c].flow = "NONE"
    BY <1>2 DEF Exists, GoodCourt, InStep, NoRuntime, Built
  <2>3. Exists(Built(mode, p))
    BY DEF Exists, Built
  <2>. QED BY <2>1, <2>2, <2>3, BuiltLemma DEF Onward, ClubFlow
<1>. QED BY <1>1, <1>2

(* The club's events.                                                         *)
LEMMA ClubStep ==
  ASSUME IInv, NEW c \in Courts,
         \/ ClubActivate(c) \/ ClubDeactivate(c) \/ ClubReset(c)
         \/ ClubEndSession(c) \/ ClubForceEnd(c) \/ ClubAdminOccupy(c)
  PROVE  Kept
<1> DEFINE r == EnsuredClub(c)
<1>1. GoodCourt(court[c])
  BY Parts
<1>2. GoodCourt(r) /\ Exists(r) /\ \A q : Onward(r, q) => Onward(court[c], q)
  BY <1>1, EnsuredLemma
<1> HIDE DEF r
<1>3. CASE ClubActivate(c)
  <2>1. PICK pin \in Pins : /\ Become(c, ActivateCourt(r, pin)) /\ CanActivate(r)
                            /\ UNCHANGED <<inventory, bracket>>
    BY <1>3 DEF ClubActivate, r
  <2>. QED BY <1>2, <2>1, ActivateLemma, CourtStep
<1>4. CASE ClubDeactivate(c)
  BY <1>1, <1>4, ClubLemma, CourtStep DEF ClubDeactivate
<1>5. CASE ClubReset(c)
  BY <1>1, <1>5, ClubLemma, CourtStep DEF ClubReset
<1>6. CASE ClubEndSession(c)
  BY <1>1, <1>6, ClubLemma, CourtStep DEF ClubEndSession, CanEndSession
<1>7. CASE ClubForceEnd(c)
  BY <1>1, <1>7, ForceEndLemma, CourtStep DEF ClubForceEnd
<1>8. CASE ClubAdminOccupy(c)
  <2>1. PICK pin \in Pins :
          LET a == IF CanActivate(r) THEN ActivateCourt(r, pin) ELSE r
          IN  a.clubStatus = "RESERVED" /\ CanOccupy(a) /\ Become(c, OccupyCourt(a))
    BY <1>8 DEF ClubAdminOccupy, r
  <2> DEFINE a == IF CanActivate(r) THEN ActivateCourt(r, pin) ELSE r
  <2>2. GoodCourt(a) /\ a.flow = r.flow
    BY <1>2, ActivateLemma
  <2>3. a.clubStatus = "RESERVED" /\ CanOccupy(a) /\ Become(c, OccupyCourt(a))
    BY <2>1
  <2> HIDE DEF a
  <2>4. GoodCourt(OccupyCourt(a))
    BY <2>2, <2>3, OccupyLemma
  <2>5. Onward(court[c], OccupyCourt(a))
    <3>1. r.flow = "NONE"
      BY <2>2, <2>3 DEF CanOccupy
    <3>. QED BY <1>2, <3>1 DEF Onward
  <2>. QED BY <1>8, <2>3, <2>4, <2>5, CourtStep DEF ClubAdminOccupy
<1>. QED BY <1>3, <1>4, <1>5, <1>6, <1>7, <1>8

(* A court with a referee has a runtime entry.                                *)
LEMMA RefereeExists == \A r : GoodCourt(r) /\ r.referee => Exists(r)
BY DEF GoodCourt, InStep, Exists, NoRuntime, Built

(* A player or referee comes to a court or leaves it.                         *)
LEMMA RefereeChange ==
  ASSUME NEW r, GoodCourt(r), Exists(r), NEW ref \in BOOLEAN
  PROVE  LET q == [r EXCEPT !.referee = ref] IN GoodCourt(q) /\ Onward(r, q)
<1> DEFINE q == [r EXCEPT !.referee = ref]
<1>1. GoodCourt(q) /\ GoodCourt([r EXCEPT !.engine = "LIVE"])
  BY EngineLemma
<1>2. r \in Runtime /\ Onward(r, r)
  BY OnwardSelf DEF GoodCourt
<1>3. q.flow = r.flow /\ q.pin = r.pin /\ q.clubStatus = r.clubStatus
  BY <1>2 DEF Runtime
<1>. QED BY <1>1, <1>2, <1>3 DEF Onward

(* A player checks in or comes back, a referee signs in.                      *)
LEMMA PlayerStep ==
  ASSUME IInv, NEW c \in Courts, NEW pin \in Pins,
         \/ ClubJoin(c, pin) \/ ClubReconnect(c, pin) \/ SetRef(c, pin)
  PROVE  Kept
<1> DEFINE r == court[c]
           refereed == [r EXCEPT !.referee = TRUE]
           joined == [OccupyCourt(r) EXCEPT !.referee = TRUE]
<1>1. GoodCourt(r)
  BY Parts
<1>2. UNCHANGED <<inventory, bracket>>
  BY DEF ClubJoin, ClubReconnect, SetRef
<1>3. CASE Become(c, refereed) /\ Exists(r)
  BY <1>1, <1>2, <1>3, RefereeChange, CourtStep
<1>4. CASE CanOccupy(r) /\ Become(c, joined)
  <2> DEFINE o == OccupyCourt(r)
  <2>1. GoodCourt(o) /\ Exists(o) /\ Onward(r, o)
    BY <1>1, <1>4, OccupyLemma
  <2> HIDE DEF o
  <2>2. GoodCourt([o EXCEPT !.referee = TRUE])
    BY <2>1, RefereeChange
  <2>3. Onward(r, [o EXCEPT !.referee = TRUE])
    BY <1>4 DEF CanOccupy, Onward
  <2>. QED BY <1>2, <1>4, <2>2, <2>3, CourtStep DEF o
<1>5. (Become(c, refereed) /\ Exists(r)) \/ (CanOccupy(r) /\ Become(c, joined))
  BY DEF ClubJoin, ClubReconnect, SetRef, ProvesPin, BecomeReferee, Exists
<1>. QED BY <1>3, <1>4, <1>5

(* The referee's events, and the PIN of a court.                              *)
LEMMA RefereeStep ==
  ASSUME IInv, NEW c \in Courts,
         \/ ClubNewMatch(c) \/ RefereeLeaves(c) \/ RefereeSets(c) \/ RecordPoint(c)
         \/ OnRegeneratePin(c) \/ GenerateCourtPin(c)
  PROVE  Kept
<1> DEFINE r == court[c]
<1>1. GoodCourt(r)
  BY Parts
<1>2. UNCHANGED <<inventory, bracket>>
  BY DEF ClubNewMatch, RefereeLeaves, RefereeSets, RecordPoint, OnRegeneratePin, GenerateCourtPin
<1>3. CASE ClubNewMatch(c)
  BY <1>1, <1>2, <1>3, RefereeExists, RefereeLemma, CourtStep DEF ClubNewMatch
<1>4. CASE RefereeLeaves(c)
  BY <1>1, <1>2, <1>4, RefereeExists, RefereeChange, CourtStep DEF RefereeLeaves
<1>5. CASE RefereeSets(c)
  BY <1>1, <1>2, <1>5, RefereeExists, RefereeLemma, CourtStep DEF RefereeSets
<1>6. CASE RecordPoint(c)
  BY <1>1, <1>2, <1>6, RefereeExists, RefereeLemma, CourtStep DEF RecordPoint, CanScore
<1>7. CASE OnRegeneratePin(c)
  BY <1>1, <1>2, <1>7, PinLemma, CourtStep DEF OnRegeneratePin
<1>8. CASE GenerateCourtPin(c)
  <2>1. PICK pin \in Pins : Become(c, EnsuredTournament(c, pin))
    BY <1>8 DEF GenerateCourtPin
  <2>2. GoodCourt(EnsuredTournament(c, pin)) /\ Onward(r, EnsuredTournament(c, pin))
    BY <1>1, EnsuredLemma, OnwardSelf
  <2>. QED BY <1>2, <2>1, <2>2, CourtStep
<1>. QED BY <1>3, <1>4, <1>5, <1>6, <1>7, <1>8

------------------------------------------------------------------------------
(* The steps of the bracket.                                                  *)

(* A created or reset bracket, an edited slot, an undone match, a binding.    *)
LEMMA OwnerStep ==
  ASSUME IInv,
         \/ OnCreate
         \/ \E m \in Matches, s \in Slots : OnAssignPlayer(m, s)
         \/ \E m \in Matches : OnUndoMatch(m) \/ OnClearCourt(m)
         \/ \E m \in Matches, c \in Courts : OnAssignCourt(m, c)
  PROVE  Kept
<1>1. GoodBracket(bracket)
  BY Parts
<1>2. CASE OnCreate
  <2>1. GoodBracket(bracket') /\ bracket'.status # "COMPLETED"
    BY <1>2, BlankBindings DEF OnCreate, Create
  <2>. QED BY <1>2, <2>1, BracketStep DEF OnCreate
<1>3. ASSUME NEW m \in Matches, NEW s \in Slots, OnAssignPlayer(m, s) PROVE Kept
  <2>1. /\ \E name \in Names \cup {Nobody} : bracket' = AssignPlayer(bracket, m, s, name)
        /\ bracket.status # "NONE" /\ UNCHANGED <<inventory, court>>
    BY <1>3 DEF OnAssignPlayer, Found
  <2>2. GoodBracket(bracket') /\ (bracket'.status = "COMPLETED" => bracket.status = "COMPLETED")
    BY <1>1, <2>1, EditBindings
  <2>. QED BY <2>1, <2>2, BracketStep
<1>4. ASSUME NEW m \in Matches, OnUndoMatch(m) PROVE Kept
  <2>1. /\ bracket' = UndoMatch(bracket, m)
        /\ bracket.status # "NONE" /\ UNCHANGED <<inventory, court>>
    BY <1>4 DEF OnUndoMatch, Found
  <2>2. GoodBracket(bracket') /\ (bracket'.status = "COMPLETED" => bracket.status = "COMPLETED")
    BY <1>1, <2>1, EditBindings
  <2>. QED BY <2>1, <2>2, BracketStep
<1>5. ASSUME NEW m \in Matches, OnClearCourt(m) PROVE Kept
  <2>1. bracket' = AssignCourt(bracket, m, NoCourt) /\ UNCHANGED <<inventory, court>>
    BY <1>5 DEF OnClearCourt
  <2>2. GoodBracket(bracket') /\ bracket'.status = bracket.status
    BY <1>1, <2>1, BindLemma
  <2>. QED BY <2>1, <2>2, BracketStep
<1>6. ASSUME NEW m \in Matches, NEW c \in Courts, OnAssignCourt(m, c) PROVE Kept
  <2>1. /\ bracket' = AssignCourt(bracket, m, c) /\ UNCHANGED <<inventory, court>>
        /\ \A n \in Matches : bracket.court[n] = c => n = m
    BY <1>6 DEF OnAssignCourt, CanBind, BoundTo
  <2>2. GoodBracket(bracket') /\ bracket'.status = bracket.status
    BY <1>1, <2>1, BindLemma
  <2>. QED BY <2>1, <2>2, BracketStep
<1>. QED BY <1>2, <1>3, <1>4, <1>5, <1>6

------------------------------------------------------------------------------
(* The steps that change courts and bracket together.                         *)

(* What is left to show of such a step: every court is good and went on, club *)
(* sessions are untouched, and a completed bracket has freed its courts.      *)
LEMMA JointStep ==
  ASSUME IInv, inventory' = inventory, GoodBracket(bracket'),
         NEW f, court' = [c \in Courts |-> f[c]],
         \A c \in Courts : /\ GoodCourt(f[c]) /\ Onward(court[c], f[c])
                           /\ court[c].flow \in ClubFlow => f[c] = court[c],
         Freed
  PROVE  Kept
<1>1. court' \in [Courts -> Runtime] /\ \A c \in Courts : GoodCourt(court'[c])
  BY DEF GoodCourt
<1>2. IInv'
  BY <1>1, Parts, PartsNext
<1>. QED BY <1>2 DEF Kept, Ordered, Spared

(* releaseCourtFlow of some courts.                                           *)
LEMMA ReleaseFlowsLemma ==
  ASSUME NEW R, NEW courts, \A c \in Courts : GoodCourt(courts[c])
  PROVE  LET f == ReleaseFlows(courts, R)
         IN  /\ f = [c \in Courts |-> f[c]]
             /\ \A c \in Courts :
                  /\ GoodCourt(f[c]) /\ Onward(courts[c], f[c])
                  /\ courts[c].flow \in ClubFlow => f[c] = courts[c]
                  /\ c \in R => f[c] = Release(courts[c]) /\ f[c].flow # "LIVE"
                  /\ c \notin R => f[c] = courts[c]
<1> DEFINE f == ReleaseFlows(courts, R)
<1>1. /\ f = [c \in Courts |-> f[c]]
      /\ \A c \in Courts : f[c] = IF c \in R THEN Release(courts[c]) ELSE courts[c]
  BY DEF ReleaseFlows
<1> HIDE DEF f
<1>2. ASSUME NEW c \in Courts
      PROVE  /\ GoodCourt(f[c]) /\ Onward(courts[c], f[c])
             /\ courts[c].flow \in ClubFlow => f[c] = courts[c]
             /\ c \in R => f[c] = Release(courts[c]) /\ f[c].flow # "LIVE"
             /\ c \notin R => f[c] = courts[c]
  BY <1>1, ReleaseLemma, OnwardSelf
<1>. QED BY <1>1, <1>2 DEF f

\* What releaseCourtFlow makes of court c, r before and q after it, when the
\* bracket b is completed, and nothing otherwise.
Settled(b, c, r, q) ==
  /\ GoodCourt(q) /\ Onward(r, q)
  /\ r.flow \in ClubFlow => q = r
  /\ q = r \/ (c \in BoundCourts(b) /\ q = Release(r))
  /\ b.status = "COMPLETED" /\ c \in BoundCourts(b) => q = Release(r) /\ q.flow # "LIVE"

(* releaseIfCompleted, of a bracket and of the courts.                        *)
LEMMA CompletedLemma ==
  ASSUME NEW b, GoodBracket(b), NEW courts, courts \in [Courts -> Runtime],
         \A c \in Courts : GoodCourt(courts[c])
  PROVE  LET f == ReleaseCompletedFlows(courts, b)
             q == ReleaseIfCompleted(b)
         IN  /\ GoodBracket(q) /\ q.status = b.status
             /\ b.status = "COMPLETED" => BoundCourts(q) = {}
             /\ f = [c \in Courts |-> f[c]]
             /\ \A c \in Courts : Settled(b, c, courts[c], f[c])
<1> DEFINE f == ReleaseCompletedFlows(courts, b)
           q == ReleaseIfCompleted(b)
<1>1. CASE b.status = "COMPLETED"
  <2>1. q = ReleaseAll(b) /\ f = ReleaseFlows(courts, BoundCourts(b))
    BY <1>1 DEF ReleaseIfCompleted, ReleaseCompletedFlows
  <2>2. GoodBracket(q) /\ q.status = b.status /\ BoundCourts(q) = {}
    BY <2>1, ReleaseAllLemma
  <2> HIDE DEF f, q
  <2>3. f = [c \in Courts |-> f[c]]
    BY <2>1, ReleaseFlowsLemma
  <2>4. \A c \in Courts :
          /\ GoodCourt(f[c]) /\ Onward(courts[c], f[c])
          /\ courts[c].flow \in ClubFlow => f[c] = courts[c]
          /\ c \in BoundCourts(b) => f[c] = Release(courts[c]) /\ f[c].flow # "LIVE"
          /\ c \notin BoundCourts(b) => f[c] = courts[c]
    BY <2>1, ReleaseFlowsLemma
  <2>5. \A c \in Courts : Settled(b, c, courts[c], f[c])
    BY <2>4 DEF Settled
  <2>. QED BY <2>2, <2>3, <2>5 DEF f, q
<1>2. CASE b.status # "COMPLETED"
  <2>1. q = b /\ f = courts
    BY <1>2 DEF ReleaseIfCompleted, ReleaseCompletedFlows
  <2>2. courts = [c \in Courts |-> courts[c]]
    OBVIOUS
  <2>3. \A c \in Courts : Settled(b, c, courts[c], courts[c])
    BY <1>2, OnwardSelf DEF Settled
  <2>. QED BY <1>2, <2>1, <2>2, <2>3
<1>. QED BY <1>1, <1>2

(* BRACKET_SET_WINNER, the final included.                                    *)
LEMMA SetWinnerStep ==
  ASSUME IInv, NEW m \in Matches, NEW s \in Slots, OnSetWinner(m, s)
  PROVE  Kept
<1> DEFINE b == SetWinner(bracket, m, s)
<1>1. GoodBracket(bracket) /\ court \in [Courts -> Runtime] /\ \A c \in Courts : GoodCourt(court[c])
  BY Parts
<1>2. /\ CanSetWinner(bracket, m, s)
      /\ bracket' = ReleaseIfCompleted(b) /\ court' = ReleaseCompletedFlows(court, b)
      /\ inventory' = inventory
  BY DEF OnSetWinner
<1>3. GoodBracket(b) /\ b.court = bracket.court
  BY <1>1, <1>2, WinnerBindings
<1> HIDE DEF b
<1>4. /\ GoodBracket(bracket') /\ bracket'.status = b.status
      /\ b.status = "COMPLETED" => BoundCourts(bracket') = {}
      /\ court' = [c \in Courts |-> court'[c]]
      /\ \A c \in Courts : Settled(b, c, court[c], court'[c])
  BY <1>1, <1>2, <1>3, CompletedLemma
<1>5. BoundCourts(bracket) = BoundCourts(b) /\ BoundCourts(b) \subseteq Courts
  BY <1>1, <1>3, BoundType DEF BoundCourts, GoodBracket
<1>6. Freed
  BY <1>4, <1>5 DEF Freed, Settled
<1>7. \A c \in Courts : /\ GoodCourt(court'[c]) /\ Onward(court[c], court'[c])
                        /\ court[c].flow \in ClubFlow => court'[c] = court[c]
  BY <1>4 DEF Settled
<1>. QED BY <1>2, <1>4, <1>6, <1>7, JointStep

(* The point that ends a match: the bracket advances, a completed one frees   *)
(* its courts, and the court itself then takes over its engine's status.      *)
LEMMA MatchWonStep ==
  ASSUME IInv, NEW c \in Courts, NEW name, MatchWon(c, name)
  PROVE  Kept
<1> DEFINE ended == [court EXCEPT ![c].engine = "FINISHED"]
<1>1. GoodBracket(bracket) /\ court \in [Courts -> Runtime] /\ \A d \in Courts : GoodCourt(court[d])
  BY Parts
<1>2. court[c].referee /\ MatchActive(court[c]) /\ Exists(court[c]) /\ inventory' = inventory
  BY <1>1, RefereeExists DEF MatchWon, CanScore
<1>3. /\ ended \in [Courts -> Runtime]
      /\ ended[c] = [court[c] EXCEPT !.engine = "FINISHED"]
      /\ \A d \in Courts \ {c} : ended[d] = court[d]
  BY <1>1 DEF Runtime
<1>4. GoodCourt(ended[c]) /\ \A d \in Courts : GoodCourt(ended[d])
  <2>1. GoodCourt([court[c] EXCEPT !.engine = "FINISHED"]) /\ GoodCourt([court[c] EXCEPT !.referee = TRUE])
    BY <1>1, <1>2, EngineLemma
  <2>. QED BY <1>1, <1>3, <2>1
<1>5. /\ ended[c].flow = court[c].flow /\ ended[c].mode = court[c].mode
      /\ ended[c].pin = court[c].pin /\ ended[c].clubStatus = court[c].clubStatus
  BY <1>1, <1>3 DEF Runtime
<1>6. MatchActive(ended[c]) /\ Exists(ended[c])
  BY <1>2, <1>5 DEF MatchActive, Exists
<1>7. \A q : Onward(ended[c], q) => Onward(court[c], q)
  BY <1>5 DEF Onward
<1>8. CASE Advances(c, name)
  <2>1. PICK m \in BoundTo(c) :
          LET b == Decide(bracket, m, name)
          IN  /\ CanDecide(bracket, m, name)
              /\ bracket' = ReleaseIfCompleted(b)
              /\ court' = [ReleaseCompletedFlows(ended, b) EXCEPT ![c] = FollowEngine(@)]
    BY <1>8 DEF MatchWon
  <2> DEFINE b == Decide(bracket, m, name)
             freed == ReleaseCompletedFlows(ended, b)
  <2>2. /\ CanDecide(bracket, m, name) /\ bracket' = ReleaseIfCompleted(b)
        /\ court' = [freed EXCEPT ![c] = FollowEngine(@)]
    BY <2>1
  <2>3. m \in Matches /\ bracket.court[m] = c
    BY DEF BoundTo
  <2>4. GoodBracket(b) /\ b.court = bracket.court
    BY <1>1, <2>2, <2>3, DecideBindings
  <2> HIDE DEF ended, b
  <2>5. /\ GoodBracket(bracket') /\ bracket'.status = b.status
        /\ b.status = "COMPLETED" => BoundCourts(bracket') = {}
        /\ freed = [d \in Courts |-> freed[d]]
        /\ \A d \in Courts : Settled(b, d, ended[d], freed[d])
    BY <1>3, <1>4, <2>2, <2>4, CompletedLemma
  <2>6. \A d \in Courts :
          /\ GoodCourt(freed[d]) /\ Onward(ended[d], freed[d])
          /\ ended[d].flow \in ClubFlow => freed[d] = ended[d]
          /\ freed[d] = ended[d] \/ (d \in BoundCourts(b) /\ freed[d] = Release(ended[d]))
          /\ b.status = "COMPLETED" /\ d \in BoundCourts(b)
             => freed[d] = Release(ended[d]) /\ freed[d].flow # "LIVE"
    BY <2>5 DEF Settled
  <2> HIDE DEF freed
  <2>7. /\ court' = [d \in Courts |-> court'[d]]
        /\ court'[c] = FollowEngine(freed[c])
        /\ \A d \in Courts \ {c} : court'[d] = freed[d]
    BY <2>2, <2>5
  <2>8. court[c].mode = "tournament" /\ court[c].flow \notin ClubFlow
    BY <1>1, <1>8, ClubMode DEF Advances
  <2>9. GoodCourt(court'[c]) /\ Onward(court[c], court'[c])
    <3>1. CASE freed[c] = ended[c]
      BY <1>4, <1>6, <1>7, <2>7, <3>1, RefereeLemma
    <3>2. CASE freed[c] = Release(ended[c])
      <4>1. Exists(freed[c]) /\ freed[c].engine = "WAITING" /\ GoodCourt(freed[c])
        BY <1>4, <1>5, <1>6, <2>8, <3>2, ReleaseLemma
      <4>2. GoodCourt(FollowEngine(freed[c]))
        BY <4>1, RefereeLemma
      <4>3. Onward(court[c], FollowEngine(freed[c]))
        BY <2>8 DEF Onward, ClubFlow
      <4>. QED BY <2>7, <4>2, <4>3
    <3>. QED BY <2>6, <3>1, <3>2
  <2>10. \A d \in Courts :
           /\ GoodCourt(court'[d]) /\ Onward(court[d], court'[d])
           /\ court[d].flow \in ClubFlow => court'[d] = court[d]
    BY <1>3, <2>6, <2>7, <2>8, <2>9
  <2>11. BoundCourts(bracket) = BoundCourts(b) /\ BoundCourts(b) \subseteq Courts
         /\ c \in BoundCourts(b)
    BY <1>1, <2>3, <2>4, BoundType DEF BoundCourts, GoodBracket
  <2>12. b.status = "COMPLETED" => court'[c].flow # "LIVE"
    <3>1. ASSUME b.status = "COMPLETED"
          PROVE  freed[c].engine = "WAITING" /\ freed[c].flow = "NONE" /\ freed[c] \in Runtime
      BY <1>4, <1>5, <2>6, <2>8, <2>11, <3>1, ReleaseLemma DEF GoodCourt
    <3>. QED BY <2>7, <3>1 DEF FollowEngine, SetStatus, ClubFlow, Runtime
  <2>13. Freed
    BY <2>5, <2>6, <2>7, <2>11, <2>12 DEF Freed
  <2>. QED BY <1>2, <2>5, <2>7, <2>10, <2>13, JointStep
<1>9. CASE ~Advances(c, name)
  <2>1. court' = [ended EXCEPT ![c] = FollowEngine(@)] /\ UNCHANGED bracket
    BY <1>9 DEF MatchWon
  <2> DEFINE q == FollowEngine(ended[c])
  <2>2. court' = [court EXCEPT ![c] = q]
    BY <1>1, <2>1
  <2>3. GoodCourt(q) /\ Onward(court[c], q)
    BY <1>4, <1>6, <1>7, RefereeLemma
  <2> HIDE DEF q, ended
  <2>. QED BY <1>2, <2>1, <2>2, <2>3, CourtStep DEF Become
<1>. QED BY <1>8, <1>9

(* A step that changes one court and one binding.                             *)
LEMMA OneCourtAndBinding ==
  ASSUME IInv, NEW c \in Courts, NEW q, GoodCourt(q), Onward(court[c], q),
         court[c].flow \in ClubFlow => q = court[c],
         Become(c, q), GoodBracket(bracket'), bracket'.status = bracket.status,
         inventory' = inventory
  PROVE  Kept
<1>1. court \in [Courts -> Runtime] /\ \A d \in Courts : GoodCourt(court[d])
  BY Parts
<1>2. /\ court' = [d \in Courts |-> court'[d]]
      /\ court'[c] = q /\ \A d \in Courts \ {c} : court'[d] = court[d]
  BY <1>1 DEF Become
<1>3. \A d \in Courts : /\ GoodCourt(court'[d]) /\ Onward(court[d], court'[d])
                        /\ court[d].flow \in ClubFlow => court'[d] = court[d]
  BY <1>1, <1>2, OnwardSelf
<1>4. Freed
  BY DEF Freed
<1>. QED BY <1>2, <1>3, <1>4, JointStep

(* INVENTORY_FORCE_END, with the unbinding of the court's match.              *)
LEMMA InventoryForceEndStep ==
  ASSUME IInv, NEW c \in Courts, InventoryForceEnd(c)
  PROVE  Kept
<1>1. GoodCourt(court[c]) /\ GoodBracket(bracket)
  BY Parts
<1>2. CanForceEnd(court[c]) /\ Become(c, ForceEnd(court[c])) /\ inventory' = inventory
  BY DEF InventoryForceEnd
<1>3. GoodCourt(ForceEnd(court[c])) /\ Onward(court[c], ForceEnd(court[c]))
  BY <1>1, <1>2, ForceEndLemma
<1>4. CASE court[c].mode = "tournament" /\ BoundTo(c) # {}
  <2>1. PICK m \in BoundTo(c) : bracket' = AssignCourt(bracket, m, NoCourt)
    BY <1>4 DEF InventoryForceEnd
  <2>2. GoodBracket(bracket') /\ bracket'.status = bracket.status
    BY <1>1, <2>1, BindLemma DEF BoundTo
  <2>3. court[c].flow \notin ClubFlow
    BY <1>1, <1>4, ClubMode
  <2>. QED BY <1>2, <1>3, <2>2, <2>3, OneCourtAndBinding
<1>5. CASE ~(court[c].mode = "tournament" /\ BoundTo(c) # {})
  <2>1. UNCHANGED <<inventory, bracket>>
    BY <1>2, <1>5 DEF InventoryForceEnd
  <2>. QED BY <1>2, <1>3, <2>1, CourtStep
<1>. QED BY <1>4, <1>5

(* TOURNAMENT_SELECT_TABLE.                                                   *)
LEMMA SelectTableStep ==
  ASSUME IInv, NEW m \in Matches, NEW c \in Courts, OnSelectTable(m, c)
  PROVE  Kept
<1>1. GoodCourt(court[c]) /\ GoodBracket(bracket)
  BY Parts
<1>2. PICK pin \in Pins : Become(c, EnsuredTournament(c, pin))
  BY DEF OnSelectTable
<1>3. /\ bracket' = AssignCourt(bracket, m, c) /\ inventory' = inventory
      /\ \A n \in Matches : bracket.court[n] = c => n = m
  BY DEF OnSelectTable, CanBind, BoundTo
<1>4. GoodBracket(bracket') /\ bracket'.status = bracket.status
  BY <1>1, <1>3, BindLemma
<1> DEFINE r == EnsuredTournament(c, pin)
<1>5. GoodCourt(r) /\ Onward(court[c], r) /\ (court[c].flow \in ClubFlow => r = court[c])
  BY <1>1, EnsuredLemma, OnwardSelf
<1>. QED BY <1>2, <1>3, <1>4, <1>5, OneCourtAndBinding

(* BRACKET_RESET and POST /finish.                                            *)
LEMMA EndTournamentStep ==
  ASSUME IInv, OnReset \/ Finish
  PROVE  Kept
<1>1. GoodBracket(bracket) /\ \A c \in Courts : GoodCourt(court[c])
  BY Parts
<1>2. CASE OnReset
  <2>1. /\ bracket' = NoBracket /\ inventory' = inventory
        /\ court' = ReleaseFlows(court, BoundCourts(bracket))
    BY <1>2 DEF OnReset
  <2>2. GoodBracket(bracket') /\ bracket'.status # "COMPLETED"
    BY <2>1, BlankBindings DEF NoBracket
  <2>3. court' = [c \in Courts |-> court'[c]]
    BY <1>1, <2>1, ReleaseFlowsLemma
  <2>5. \A c \in Courts : /\ GoodCourt(court'[c]) /\ Onward(court[c], court'[c])
                          /\ court[c].flow \in ClubFlow => court'[c] = court[c]
    BY <1>1, <2>1, ReleaseFlowsLemma
  <2>4. inventory' = inventory /\ GoodBracket(bracket') /\ Freed
    BY <2>1, <2>2 DEF Freed
  <2>. QED BY <2>3, <2>4, <2>5, JointStep
<1>3. CASE Finish
  <2>1. /\ bracket' = ReleaseAll(bracket) /\ inventory' = inventory
        /\ court' = [c \in Courts |-> IF court[c].mode = "tournament" THEN NoRuntime ELSE court[c]]
    BY <1>3 DEF Finish
  <2>2. GoodBracket(bracket') /\ bracket'.status = bracket.status
    BY <1>1, <2>1, ReleaseAllLemma
  <2>3. ASSUME NEW c \in Courts
        PROVE  /\ GoodCourt(court'[c]) /\ Onward(court[c], court'[c])
               /\ court[c].flow \in ClubFlow => court'[c] = court[c]
    <3>1. CASE court[c].mode = "tournament"
      <4>1. court[c].flow \notin ClubFlow /\ court'[c] = NoRuntime
        BY <1>1, <2>1, <3>1, ClubMode
      <4>. QED BY <4>1, BuiltLemma DEF Onward, ClubFlow
    <3>2. CASE court[c].mode # "tournament"
      BY <1>1, <2>1, <3>2, OnwardSelf
    <3>. QED BY <3>1, <3>2
  <2>4. court' = [c \in Courts |-> court'[c]]
    BY <2>1
  <2>. QED BY <2>1, <2>2, <2>3, <2>4, JointStep DEF Freed
<1>. QED BY <1>2, <1>3

(* A restart.                                                                 *)
LEMMA RestartStep ==
  ASSUME IInv, Restart
  PROVE  Kept
<1>1. \A c \in Courts : GoodCourt(court[c])
  BY Parts
<1>2. UNCHANGED <<inventory, bracket>>
  BY DEF Restart, MaterializedTournament
<1>3. PICK pins \in [Courts -> Pins] :
        court' = [c \in Courts |->
          LET r == Restored(court[c])
          IN  IF ~Exists(r) /\ c \in BoundCourts(bracket) /\ Active(c)
              THEN Built("tournament", pins[c]) ELSE r]
  BY DEF Restart, MaterializedTournament
<1>4. ASSUME NEW c \in Courts
      PROVE  GoodCourt(court'[c]) /\ Onward(court[c], court'[c])
  <2> DEFINE r == Restored(court[c])
  <2>1. /\ GoodCourt(r) /\ r.flow = court[c].flow
        /\ court[c].flow \in ClubFlow => r.clubStatus = court[c].flow
    BY <1>1, RestoreLemma
  <2>2. court'[c] = IF ~Exists(r) /\ c \in BoundCourts(bracket) /\ Active(c)
                    THEN Built("tournament", pins[c]) ELSE r
    BY <1>3
  <2> HIDE DEF r
  <2>3. CASE Exists(r) \/ court'[c] = r
    <3>1. court'[c] = r
      BY <2>2, <2>3
    <3>. QED BY <2>1, <3>1 DEF Onward, ClubFlow
  <2>4. CASE ~Exists(r) /\ court'[c] = Built("tournament", pins[c])
    <3>1. court[c].flow = "NONE"
      BY <2>1, <2>4 DEF Exists, GoodCourt, InStep, NoRuntime, Built
    <3>2. GoodCourt(Built("tournament", pins[c]))
      BY BuiltLemma
    <3>. QED BY <2>4, <3>1, <3>2 DEF Onward
  <2>. QED BY <2>2, <2>3, <2>4
<1>5. court' \in [Courts -> Runtime]
  BY <1>3, <1>4 DEF GoodCourt
<1>6. IInv'
  BY <1>2, <1>4, <1>5, Parts, PartsNext
<1>. QED BY <1>2, <1>4, <1>6 DEF Kept, Ordered, Freed, Spared

------------------------------------------------------------------------------
(* The theorems.                                                              *)

(* Every step of the specification, stuttering included, keeps all of it.     *)
LEMMA StepKeeps == IInv /\ [Next]_vars => Kept
<1> SUFFICES ASSUME IInv, [Next]_vars PROVE Kept
  OBVIOUS
<1>1. CASE UNCHANGED vars
  <2>1. UNCHANGED <<inventory, court, bracket>>
    BY <1>1 DEF vars
  <2>. QED BY <2>1, Parts, InventoryStep
<1>2. ASSUME NEW c \in Courts,
             InventoryAdd(c) \/ InventoryMaintenance(c) \/ InventoryArchive(c)
      PROVE  Kept
  BY <1>2, CatalogStep
<1>3. ASSUME NEW c \in Courts,
             \/ ClubActivate(c) \/ ClubDeactivate(c) \/ ClubReset(c)
             \/ ClubEndSession(c) \/ ClubForceEnd(c) \/ ClubAdminOccupy(c)
      PROVE  Kept
  BY <1>3, ClubStep
<1>4. ASSUME NEW c \in Courts, NEW pin \in Pins,
             ClubJoin(c, pin) \/ ClubReconnect(c, pin) \/ SetRef(c, pin)
      PROVE  Kept
  BY <1>4, PlayerStep
<1>5. ASSUME NEW c \in Courts,
             \/ ClubNewMatch(c) \/ RefereeLeaves(c) \/ RefereeSets(c) \/ RecordPoint(c)
             \/ OnRegeneratePin(c) \/ GenerateCourtPin(c)
      PROVE  Kept
  BY <1>5, RefereeStep
<1>6. ASSUME NEW c \in Courts, NEW name \in Names \cup {Nobody}, MatchWon(c, name)
      PROVE  Kept
  BY <1>6, MatchWonStep
<1>7. CASE \/ OnCreate
           \/ \E m \in Matches, s \in Slots : OnAssignPlayer(m, s)
           \/ \E m \in Matches : OnUndoMatch(m) \/ OnClearCourt(m)
           \/ \E m \in Matches, c \in Courts : OnAssignCourt(m, c)
  BY <1>7, OwnerStep
<1>8. CASE \E m \in Matches, s \in Slots : OnSetWinner(m, s)
  BY <1>8, SetWinnerStep
<1>9. CASE \E c \in Courts : InventoryForceEnd(c)
  BY <1>9, InventoryForceEndStep
<1>10. CASE \E m \in Matches, c \in Courts : OnSelectTable(m, c)
  BY <1>10, SelectTableStep
<1>11. CASE OnReset \/ Finish
  BY <1>11, EndTournamentStep
<1>12. CASE Restart
  BY <1>12, RestartStep
<1>. QED
  BY <1>1, <1>2, <1>3, <1>4, <1>5, <1>6, <1>7, <1>8, <1>9, <1>10, <1>11, <1>12 DEF Next

(* The invariant holds in every state.                                        *)
THEOREM Invariance == Spec => []IInv
<1>1. IInv /\ [Next]_vars => IInv'
  BY StepKeeps DEF Kept
<1>. QED BY <1>1, InitIInv, PTL DEF Spec

(* Catalog, courts and bracket keep their types.                              *)
THEOREM CourtTypeCorrect == Spec => []TypeOK
<1>1. IInv => TypeOK
  BY DEF IInv
<1>. QED BY <1>1, Invariance, PTL

(* The projections the guards read are in step with the flow they project,    *)
(* on every court, through every mix of club and tournament use.              *)
THEOREM ProjectionsCorrect == Spec => []ProjectionsInStep
<1>1. IInv => ProjectionsInStep
  BY DEF IInv
<1>. QED BY <1>1, Invariance, PTL

(* A reserved or occupied club court always has a PIN to reach it by.         *)
THEOREM SessionsReachable == Spec => []SessionReachable
<1>1. IInv => SessionReachable
  BY DEF IInv
<1>. QED BY <1>1, Invariance, PTL

(* No court is ever bound to two matches.                                     *)
THEOREM BindingsUnique == Spec => []OneMatchPerCourt
<1>1. IInv => OneMatchPerCourt
  BY DEF IInv
<1>. QED BY <1>1, Invariance, PTL

(* The step that decides the final frees every court that was bound.          *)
THEOREM FinalFrees == Spec => FinalFreesCourts
<1>1. IInv /\ [Next]_vars => Freed
  BY StepKeeps DEF Kept
<1>2. IInv /\ [Next]_vars =>
        [bracket.status # "COMPLETED" /\ bracket'.status = "COMPLETED" =>
           /\ BoundCourts(bracket') = {}
           /\ \A c \in BoundCourts(bracket) : court'[c].flow # "LIVE"]_vars
  BY <1>1 DEF Freed
<1>. QED BY <1>2, Invariance, PTL DEF Spec, FinalFreesCourts

(* No step loses a session or skips its end.                                  *)
THEOREM SessionsInOrder == Spec => SessionsEndInOrder
<1>1. IInv /\ [Next]_vars =>
        [\A c \in Courts :
           /\ court[c].flow = "OCCUPIED" => court'[c].flow \in ClubFlow
           /\ court[c].flow = "OCCUPIED" /\ court'[c].flow = "FINISHED" => court'[c].pin = NoPin
           /\ court[c].flow = "FINISHED" =>
                court'[c].clubStatus \in {"FINISHED", "AVAILABLE"}]_vars
  BY StepKeeps DEF Kept, Ordered, Onward
<1>. QED BY <1>1, Invariance, PTL DEF Spec, SessionsEndInOrder

(* No step that changes the bracket touches a club session.                   *)
THEOREM ClubSpared == Spec => BracketSparesClub
<1>1. IInv /\ [Next]_vars =>
        [bracket' # bracket =>
           \A c \in Courts : court[c].flow \in ClubFlow => court'[c] = court[c]]_vars
  BY StepKeeps DEF Kept, Spared
<1>. QED BY <1>1, Invariance, PTL DEF Spec, BracketSparesClub
==============================================================================
