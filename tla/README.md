# RallyOS Hub in TLA+

RallyOS Hub runs the courts of a table tennis and padel venue: a club mode in
which players check in at a court and play by the session, and a tournament
mode with a single-elimination bracket whose matches are refereed on the same
courts. The server (`server/src`, "the hub") is one Node process that keeps
everything in memory, talks to browsers over Socket.IO and saves a JSON file
with a delay. The browsers (`client/src`) are referees' and owners' phones, the
phones of club players, the club's administration, and televisions.

These modules model what the hub decides, what the browsers make of it over
connections that drop and come back, and what a crash leaves; they check it with
TLC on small instances and prove the safety properties of the hub, and of the
protocols between it and the browsers, with TLAPS for all of them. Every definition
is taken from the code; `PROJECT.json` maps it to its lines.

## 1. The system

| Component | Source | State | Operations | Hard because |
|---|---|---|---|---|
| Bracket engine | `domain/BracketEngine.ts` | rounds of matches: two slots, winner, status, court; bracket status | create, assignPlayer, setWinner, setThirdPlaceLoser, undoMatch (cascade), assignCourt, releaseAll, reset | statuses and advanced names are stored, not derived; the undo walks through several matches |
| Bracket handler | `handlers/BracketHandler.ts` | the engine, reset token, a court index derived at every lookup | the `BRACKET_*` events, `TOURNAMENT_SELECT_TABLE`, auto-advance when a court's match ends, release of the courts after the final | changes bracket and courts together; called back from inside `recordPoint` |
| Court manager | `domain/courtManager.ts`, `services/table/*` | one runtime court per court id: flow slot and its projections (mode, clubStatus, reserved, status), PIN, players, match engine | activate, occupy, end, reset, force-end, release, start/configure/reset match, PINs, restore | two modes share the slot; the guards read the projections |
| Flow contracts | `domain/flows/*` | none of their own | occupy, end, forceEnd, release, canArchive for each mode | must leave the other mode's courts alone |
| Court inventory | `domain/inventory/*` | catalog of courts: ACTIVE, MAINTENANCE, ARCHIVED; numbers | add, maintain, archive, clear | changes while a court is in use and another admin looks at it |
| Match engine | `domain/matchEngine.ts`, `domain/sports/*.rules.ts` | score, sets, games, tiebreak, server, sides, history of 20 actions, status, winner | point, correction, undo, server, sides | long sequences; undo over the end of a set; padel read back as table tennis |
| Match displays | `client: services/match`, the boards | derived | - | each board turns the sides by code of its own |
| Persistence | `services/store/*`, `routes/tournament.ts` | snapshot shared by all writers, two debounce timers, the file | save, load, `/new`, `/finish`, boot, club reset | crash between change and flush, late flush after a delete |
| Referees and owners | `AuthHandler`, `AdminHandler`, `PlayerService`, `client: contexts`, dashboards, scoreboard | PINs, role per socket, entries per court; stored role, token and session in the browser | verify, submit a PIN, regenerate, list, reconnect, reload, log out | a new socket for the same tab; revocations that meet a tab on its way |
| Club play | `ClubPlayerHandler`, `client: useClubPlay` | session, record, room, the phone in charge | join, reconnect, free play, matches, end in two steps | several phones with one PIN, the admin beside them |
| Club administration | `ClubAdminHandler`, `ClubSessionHistoryHandler`, stores, `client: ClubAdminPage` | role, configuration and key, catalog, records, audit log | login, setup, reset, rows, clear in two steps, reveals | answers told apart by nothing but their arrival |
| RallyTap button | `client: services/ble/bridge.ts`, `useRallyTapBridge` | GATT link, listeners, loops | connect, reconnect, let go | each `await` gives way to everything else |
| Spotlight and kiosk | `SpotlightHandler`, `client: Kiosk*Page` | star, mode, subscriptions; what the television shows | star, mode, subscribe | messages between renders, lost with the connection |
| HTTP app, captive portal, QR, CSV, other views | `app.ts`, `client` | - | - | I/O and layout |

The parts meet in the runtime court. The admin's catalog says which courts
exist; the club handlers and the bracket handler bring a court into a flow; the
referee's events go through the court to its match engine; the engine calls back
through `SocketHandler.onMatchEvent` into the bracket handler, which may release
every court of the tournament before the call returns. What happened is
broadcast, to all, to a court's room or to one socket.

The hub runs each handler to its end without awaiting, so there is no
interleaving inside a handler. The concurrency is between events, between the hub
and the browsers (messages are under way in both directions, and a lost
connection loses them), between the messages a browser takes in and the renders
and effects of React, and in the button's asynchronous calls. `PROJECT.json`
lists the hazards with their lines.

What makes each part correct:

- bracket: stored statuses agree with winners and slots; a later round holds
  the winners of decided matches and nothing else; undo leaves no orphan;
- courts: projections follow the flow; a session can be reached by its PIN, is
  ended before it is gone, and is never touched by the tournament; a court has
  one match; the end of the final frees the courts;
- match: a best-of-n match under all corrections; sides and server change when
  the rules say; the boards and the page agree with the engine;
- persistence: no writer undoes the other's work, what is pending is written, a
  graceful restart loses nothing;
- roles: one referee by the present PIN, the one of before is turned out;
- club: one true record per session, controls where the score is kept, everyone
  told of the end, every wait answered;
- administration: a page at rest shows what the hub has; no unlogged reveal;
- devices: a button counts once; a television shows the starred court.

## 2. The modules

| Module | What it is |
|---|---|
| `BracketEngine` | `BracketEngine.ts` as operators from bracket to bracket, and the decision of a match by its court (`Decide`) |
| `Bracket` | the state machine of the owner's events and court results over it; the podium |
| `BracketEngineProofs`, `BracketProofs` | lemmas about the operators and the tree; type, statuses, propagation, standing winners and finalists for every size, the podium for four slots; type, star and spotlight of a television for any courts |
| `CourtRuntime` | one runtime court: flow contracts, `match-guards.ts`, `MatchOrchestrator.ts`, `restoreState`, as operators on its record |
| `CourtFlow` | composition: catalog, runtime courts and bracket under all owners' events, and restarts |
| `CourtProofs` | types, projections, sessions, bindings and the end of the tournament for any number of courts |
| `TableTennisRules` | `tableTennis.rules.ts` and the match engine's operations as operators on the engine's state |
| `MatchDisplay` | what the page and the two boards make of that state |
| `MatchEngine` | the state machine of the referee's events on one engine |
| `BestOf` | abstract specification: a best-of-n match |
| `MatchProofs` | type, winner, undo history, record, page, boards, sides and the refinement of `BestOf` for all settings; the button's bridges for any number of them |
| `PadelRules`, `PadelMatch` | `padel.rules.ts` as operators, and the padel engine with restarts and its board (`PadelBoard`); refines `BestOf` |
| `PadelProofs` | type, complete sets, the one count, sides and the refinement of `BestOf` for all settings |
| `Persistence` | memory, snapshot, file, timers, crash and boot, the HTTP routes |
| `PersistenceProofs` | type, saved when quiet, kept over stop and boot, for any number of courts and changes; type, current dashboards and logged reveals of the administration, for any number of tabs and requests |
| `Access` | referees and owners of a tournament court: hub, tabs and the connections between |
| `AccessProofs` | type, referee's proof, owner's card, PINs to owners only and loss of the role, for any number of tabs, PINs and connections |
| `ClubPlay` | a club court and the phones that play on it |
| `ClubPlayProofs` | type, records, old phones and scorers, for any number of phones, sessions and connections |
| `ClubAdmin` | the club's administration in several tabs |
| `RallyTap` | the button's bridge with its tasks |
| `Screens` | the hub's spotlight and kiosk mode, and a television |
| `MC*` | instances for TLC |

### Bracket

A match is `<<round, position>>`, the third-place match `<<Rounds + 1, 0>>`. One
record holds the whole bracket; status `"NONE"` is the code's `null`. The error
returns of a method are its guard (`Found`, `CanSetWinner`, `CanFeedThirdPlace`);
what it changes is an operator of the same name. `cascadeUndo` is recursive in
the code; here it is the set of matches it visits (`Reverted`), the slots it
empties (`Emptied`) and the statuses it recomputes (`Recomputed`), with the order
that matters - a semifinal's loser is looked up after its slot was emptied - kept
in `NameLeft` and `FreedThird`.

`Bracket` has one action per event. `byHand` is a history variable: which slots
the owner wrote where the engine writes or has read a name already. The
properties about names need it, because the code lets the owner write any slot.

### Courts

`CourtRuntime` keeps of a court the flow, the projections the guards read, the
PIN, whether it has a referee, and the status of its match engine; `mode = "none"`
is a court without a runtime entry. `CourtFlow` has one action per socket event
or route that changes the catalog, a court or a binding. `MatchWon` is the whole
chain of a point that ends a match: engine, `onMatchEvent`, bracket, release of
all courts, and then the engine's status written back to the court by the
`recordPoint` that started it. `Restart` is what `restoreState` brings back.

Abstractions: the club is configured and senders of owner and admin events are
authorised (roles are in `Access` and `ClubAdmin`); PINs are drawn from a small
set, so that two courts may share one; a restart is graceful, with the state just
saved (`Persistence` has the other ones). `CLUB_JOIN` takes any court with the
PIN where the code takes the first. The score is not here: a point either ends
the match, in favour of any name, or does not.

### Matches

The engine's state is a record with the code's fields. `RecordPoint`,
`SubtractPoint` and `UndoLast` are the engine's methods, with the rules' steps in
their order: count, award the set, swap at the middle of the deciding set, work
out the server, remember. Events come through while the flow is active; a FINISHED
match keeps it active, so undo and changes of server and sides are possible after
the match too. `ConfigureMatch` and `StartMatch` replace the engine at any time.
An undo without history throws in the code and changes nothing; the model has no
step for it. A restart restores every field of a table tennis engine and is a
stuttering step.

`MatchDisplay` translates `useMatchDisplay` and the boards; the tap on a side of
the scoreboard is in it, so that "a tap there scores for that player" can be said.

Padel uses the same record with `padelPoints`, `isTiebreak` and
`tiebreakPoints`; games are in `currentSet`, as in the code. Its `Restart` saves
and restores the match as `toPersistedMatchState` and `fromState` do: sets, games
and server are not found again, and the rules from then on are those of table
tennis.

### Persistence

Every change of a court's session or of the bracket takes the next stamp, so "the
file has the last version" can be said without the data. `courtTimer` and
`slotTimer` are the two debounces. The snapshot's bracket is the engine's own
object: `SetBracket` therefore shares, and `FlushPending`, `FinishTournament` and
the routes act on the snapshot in the code's order. Stop flushes both, crash
neither, `Boot` reads the file and reconciles it with the catalog: sessions of courts it
does not know are dropped, and a bound court without a session gets its entry and PIN
back only if its record is ACTIVE (`active`).

### The browsers

`Access`, `ClubPlay`, `ClubAdmin` and `Screens` are built alike: the hub's
handlers, the tab's listeners and effects, and two queues of messages between
them. A tab's connection has a number; reconnecting takes the next one. The client
notices a loss at once (`Drop`), the hub later (`ServerDisconnect`); what was under
way is lost. Socket.IO's buffer (events emitted while disconnected go out at the
next connection) is in `HubEvent`, `Emit` or the like. A reload clears what was in
memory and keeps what was stored. Timers that have no counterpart in the
properties' order may fire at any moment.

- `Access`: one court; an entry remembers, as history, the PIN it has proved.
  `IsRateLimited` lets the limiter refuse any attempt. The court is in no finished
  match; which error it is, is not told apart; wrong PINs are former ones.
- `ClubPlay`: PINs are all different; the admin's requests are served at once; of
  a match only the point that ends it; the play page is mounted before the next
  event comes.
- `ClubAdmin`: writes of the clear and of the audit log may fail (`failed` keeps
  that as history), a session record's append does not; the two ends of a
  connection lose it together; AVAILABLE and RESERVED are one; setup asks for one
  court.
- `Screens`: a message reaches the television before React renders what it
  changed (`Deliver`, `Render`). A page that is loaded asks for the courts at once, for
  the mode when it is mounted and for the club's courts on their page. `untold`, `unsaid` and `missed` remember the three
  cases, below, in which the hub tells the television nothing.
- `RallyTap`: a task is a call of `connect()` or a loop of `attemptReconnect()`
  that rests at an `await`. All bridges of a browser share the one GATT link.
  `loose` remembers a bridge let go of while it was still opening the link.

## 3. What is checked

| Run | Instance | States | Shows |
|---|---|---|---|
| `bracket4` | 4 slots, 2 names, owner edits 3 seeds and a third-place slot | 53 137 | statuses, propagation, standing winners, podium |
| `court` | 2 courts, 1 PIN, 1 name, 4 slots of which the owner fills one, 2 matches to bind; a court leaves service only while it is alone in the catalog (`OneRetires`); symmetry in the courts | 267 736 | projections in step, sessions reachable and ended in order, tournament spares the club, one match per court, the final frees the other court too |
| `match` | best of 3 to 6 points with handicap 4-3, and one set to 11 with handicap 9-9; history of 3; scores from 3 to one point over the limit | 419 032 | undo history, when the sides change, refinement of `BestOf`; the page ends with the engine, the boards agree |
| `padel` | best of 3 with one game per set and tiebreaks to 2, one set to 6 games with the golden point; history of 2; one game and tiebreak point over the limit | 1 333 244 | complete sets, no mixed counts and a board that shows them, sides outside the tiebreak's sixth points, refinement of `BestOf` until a restart |
| `padel_restart` | the same | violated | a restart loses the sets and games of a padel match |
| `persistence` | 2 courts, 4 changes, any number of changes of a court's status in the catalog, of saves, stops, crashes, boots and routes | 1 430 531 | a quiet hub has saved, a stop and boot keep everything, pending saves happen |
| `persistence_finish` | the same with 3 changes | violated | what `/finish` cleared comes back |
| `access` | 1 owner's tab, 1 referee's tab (the owner's may referee too), 2 PINs, 2 connections, 3 acts | 582 437 | one referee by the present PIN, the only owner's card is current, roles lost for a reason, referees whose PIN is withdrawn and absent ones leave |
| `clubplay` | 2 phones, 2 sessions, 2 connections, 4 acts | 358 626 | true records, old phones out, controls with the scorer, end and answers reach everyone |
| `clubadmin` | 2 tabs, 2 courts, 2 records, 2 setups, 3 acts | 575 896 | current dashboards, logged reveals, buttons come back |
| `rallytap` | 3 attempts (5 in the code), 3 bridges, 3 tasks, 6 acts | 317 003 | presses count once as long as no bridge was let go of while it was opening; the button comes back |
| `screens` | 2 tournament courts, 1 club court, a match of 2 points, 4 acts, a hub that starts in tournament mode | 2 887 669 | spotlight on the star, with its score; the mode chosen |

The type invariants `TypeOK` of the modules with proofs are proved (section 4) and
are in no run. `RallyTap` names its specification `TapSpec`, so that it can be
extended together with the engine it scores in; `ClubAdmin` names its own `AdminSpec`
and `Screens` `ScreensSpec`, so that they can be extended together with the other
stores of the hub and with the bracket a television shows.

Why the bounds are enough. Bracket: two names tell a winner from a loser, a third
adds a name that is never compared; larger brackets are covered by the proofs,
except for the third place, which is right with four slots only - with eight it is
not, see below. Courts: a court's record depends on other courts only through the
bracket, so one court shows what happens to a court and two show competition for a
binding; one PIN makes every PIN collide. `match`: a set goes over its limit by one
point, corrections pass below the score the set began with, the history overflows,
and both 1-1 and 2-0 matches end; 10-10 is reached with the changed serve interval.
`padel`: 7-5, 7-6, deuce, golden point, tiebreak, deciding set and the overflow of
the history all occur. `persistence`: four changes create a bracket, bind a court
and end its match by force, or put an unsaved change behind a saved one in either
part. `access`: two PINs make one current and one former, the second connection
races the end of the first, and three acts allow "submit, regenerate, drop".
`clubplay`: two phones displace each other and two sessions follow each other.
`clubadmin`: one tab changes what the other is looking at. `rallytap`: three bridges
let two loose ones meet a new one. `screens`: two tournament courts exchange the
star, the club court takes it away; the mode the hub starts in (`Configured`) costs one
act to change, and the proofs are for both. Acts are what users do and what befalls a
connection; what follows from them by itself is not bounded, so that every request
is served to its end. The runs whose acts are bounded stop when they are used up
(`CHECK_DEADLOCK FALSE`).

### Fairness

- `Persistence`: weak fairness of each of the two timers. Node runs a timer's
  callback once it is due; the debounce is put off only by a change, and changes
  are bounded, as they are while nobody plays.
- `Access`, `ClubPlay`, `ClubAdmin`: weak fairness of "something that is due
  happens" (`Due`, likewise in `ClubAdmin`): the event loops of hub and
  browser take the next message, timers fire, and the transport or the ping timeout
  tells the hub of a lost connection. It is one disjunction, not one condition per
  step, and enough because only finitely much follows each act. Nobody has to act,
  and a lost connection need not come back.
- `RallyTap`: `WF_vars(Progress)`: what is awaited settles one way or the other.
- `Screens`: `WF_screensVars(Goes)` for the event loops and `WF_screensVars(Comes)`
  for the timers that reconnect, reload or give up.

### The disagreements with a run

`padel_restart`: what is saved of a match must suffice "to fully reconstruct" it, score
included (`openspec/specs/match-persistence/spec.md:91`). `toPersistedMatchState` writes a
padel match's sets, games and server under `score`, and `fromState` looks for them beside
it; besides, the engine it makes has the rules of table tennis (line 112 of the same
document wants padel's). A match that is being played is at 0-0 after a restart.

`persistence_finish`: POST `/finish` "clears the active tournament state"
(`routes/tournament.ts:87`). It deletes the file and the courts, but the
coordinator's snapshot keeps the cleared sessions, so the next save of the bracket
writes them again, and a load or a boot puts the finished match on its court.

### Disagreements that a checked property leaves out by name

Each of these properties holds only because its statement has the code's behaviour
where a document has another, or excludes it; `PROJECT.json` lists them as findings.

- `SidesFollowTheSets`: a best of 3 won 2-0 changes sides with its last point
  (`tooLate`; `openspec/specs/architecture.md:149` has the positions stay), and an undo
  leaves the sides as the undone point put them (`openspec/specs/features.md:15` says it
  must revert them).
- `SidesFollowTheGames` says nothing of every sixth point of a padel tiebreak:
  `padel.rules.ts:17` and `openspec/specs/padel-scoring/spec.md:66` have the sides change
  there, the code does not.
- `RefereesLeave` leaves out the referee who is displaced by another: he is sent no
  `REF_REVOKED` (`AuthHandler.ts:79`), which `docs/casos-de-uso.md:67` says he is, and
  keeps the scoreboard.
- `ConnectedCounts` holds as long as no bridge was let go of while it was searching or
  opening (`NoneLoose`). `disconnect()` "cancels any pending reconnect loop"
  (`bridge.ts:244`) but not a loop or a `connect()` that awaits the link
  (`bridge.ts:375`): the old bridge listens afterwards, and a press counts twice.
- `SpotlightFollowsStar` leaves out the club's screen whose court has lost the star to a
  tournament court (`unsaid`): `SET_FEATURED` tells of the previous court only if it is a
  tournament court, although `SpotlightHandler.ts:45` and
  `openspec/specs/server/featured-control/spec.md:11` have both told of.

Other limits of the properties: `PodiumStands` is about four slots (with eight the third
place goes wrong, see below); `PendingIsWritten` assumes that changes come to rest, since
changes closer together than the debounce put the save off for ever; `ShownPinIsCurrent` is
about an only owner's tab; `PhonesGetAnAnswer` about phones that stay connected;
`SpotlightIsCurrent` leaves out the score after a reset (`untold`) and a subscription
refused or lost (`missed`); `ShowsTheMode` a club's or loading page whose socket gave up.

### Met while modelling, without a run of their own

Bracket and courts:

- a cascade that reaches a semifinal from a quarterfinal has emptied the loser's
  slot first, so the loser stays in the third-place match although
  `BracketEngine.ts:361` says it is released (eight slots and more);
- a slot of a COMPLETED match can be cleared, which `BracketEngine.ts:123` excludes;
- a session can start on a court in maintenance that has a runtime entry already
  (`docs/admin-court-inventory-architecture.md:322`: only on an ACTIVE one);
- a court freed by the end of the tournament keeps mode `tournament` and refuses
  the club's activation until `/finish` or a restart (same document, line 304);
- `CLUB_FORCE_END` on a tournament court leaves its match bound
  (`TournamentFlowContract.ts:41`); a new bracket leaves the old one's courts LIVE;
- archiving is not terminal: a maintenance request from a stale list brings the
  court back, whose number a new court may have been given.

Matches:

- an undone set stays won; in padel undo restores games only;
- padel: the header of `padel.rules.ts` (line 16) announces other changes of
  service than the code makes: at the end of a set by games the server toggles
  twice, in a tiebreak it changes after every even total;
- padel with more than seven games per set: a set still ends at seven by any lead
  (`padel.rules.ts`, `checkSetWin`), so the number set is never reached;
- a padel tiebreak is shown as 0-0, because `formatDisplayScore`, which would show its
  points (`padel.rules.ts:490`), is called by tests only; the set history under the referee's board is
  not turned with the sides, the television's is.

Access:

- the hub issues a new PIN to any socket that sends the court's present PIN with
  `REGENERATE_PIN` (`AdminHandler.ts:46-54`); no page of the repository sends one, and
  `PinsStayWithOwners` is about those pages;
- the handshake's token is taken once, when the socket is made, and outlives a
  logout; the owner's PIN is sent again with every list of courts and uses up the
  limiter's attempts, whose error then fails a pending court PIN;
- `REGENERATE_PIN` is answered to the tab that asked and to no other
  (`AdminHandler.ts:83`): a second owner's tab keeps the former PIN on its card until
  its next list of courts, so `ShownPinIsCurrent` is about an only owner's tab;
- an answer that comes after the five seconds' timeout leaves a referee nobody
  sees, or confirms the next submission; one PIN entry makes two attempts.

Club:

- a phone marked as replaced stays so until it is reloaded, so two that return at
  once can both end without controls; one whose connection dropped while it was
  joining or reconnecting waits for ever (`PhonesGetAnAnswer` says "unless its
  connection is lost"); a lost connection leaves the room and is not rejoined;
- a reload after a match shows the form of a new session; a phone still in the
  room hears the next session's end;
- the setup wizard waits for ever if its connection drops; two reveals in a row
  lay the first phone on the second session; an answer is any broadcast that comes;
- reset is said to keep the inventory (`useClubAdmin.ts:144`) and clears it; it
  leaves runtime courts, the bracket and other tabs' roles; phones sealed with a
  former key, and those typed at the desk, can no longer be revealed.

Devices:

- two loops of reconnection of one bridge may overlap;
- POST `/finish` tells every screen that there is no tournament court at all, although
  the catalog keeps them and the next COURT_LIST has them again;
- `RESET_COURT` and `CLUB_RESET_MATCH` send no `MATCH_UPDATE`, so the spotlight
  keeps the old score until the next point (`untold`); a
  subscription refused while the star was away is not repeated (`missed`);
- a club television, or one still loading, does not reload after its socket has
  given up.

## 4. What is proved

`BracketProofs`, from `RoundsAssumption` (2 to 5 rounds, the sizes the code
allows), `NobodyAssumption` and `NoCourtAssumption` (the absent values are not
names or courts) and `OwnerSlotsAssumption`:

- `TypeCorrect`, `StatusesCorrect`, `NamesPropagate`, `WinnersKeepStanding`,
  `FinalistsCorrect`, all from `Invariance: Spec => []IInv` with
  `IInv == TypeOK /\ StatusesAgree /\ Propagation /\ WinnersStand`;
- `PodiumCorrect: Spec => [](Rounds = 2 => PodiumStands)`, from `ThirdInv`.

The four parts need each other: a winner stands because his name was propagated,
propagation survives an undo because a decided match has a winner and an
undecided one none (`StatusesAgree`). The lemmas `Tree`, `OneFeeder` and
`PathSteps` say that a slot has one feeding match and that the way to the final is
closed under `Downstream`; `RevertedClosed` that a cascade stops only at an
undecided match. There is one lemma per operator of the engine and one per action.

The finalists follow from `IInv` for every size (`FinalistsStand`, the part of
`PodiumStands` about champion and runner-up). The third place needs `ThirdInv`: a
name that stands in the third-place match is a loser of a decided semifinal, unless
the owner wrote it. That is inductive with four slots only: an undo that begins at a
semifinal finds the loser's name, which `clearThirdPlaceSlot` looks for, still in its
slot, and with four slots every undo does. With eight, one that comes from a
quarterfinal has emptied the slot before.

`CourtProofs`, from `RoundsAssumption`, `NobodyAssumption`, `NoCourtAssumption`,
`NoPinAssumption`, `OwnerSlotsAssumption` and `BoundMatchesAssumption`, proves every
property of the run `court`, for any number of courts and PINs and
every size of the bracket:

- `CourtTypeCorrect`, `ProjectionsCorrect`, `SessionsReachable`, `BindingsUnique`
  from `IInv == TypeOK /\ ProjectionsInStep /\ SessionReachable /\ OneMatchPerCourt
  /\ Agrees(bracket)`;
- `SessionsInOrder`, `FinalFrees`, `ClubSpared`, the action properties, from the same
  lemmas about the steps: each says that a step has `Kept` the invariant, the order of
  sessions, the end of the tournament and the club's courts.

A court is good by itself (`GoodCourt`: the types, projections in step, a session with
a PIN), so an operation of `CourtRuntime` needs one lemma that takes a good court to a
good one and onward in its session; `CourtStep` lifts it to all courts. The bindings
have lemmas of their own about the engine (`GoodBracket`). `Agrees`, that the stored
statuses agree, is part of the invariant because the courts are released when the
bracket's stored status says so, and that must be the step that decides the final
(`CompletedByFinal`). The joint steps - a match decided by its court, the release of all
courts, the routes, the restart - combine both.

`MatchProofs`, from `ConfigsAssumption` (limits and lengths are positive),
`MaxHistoryAssumption`, `NoWinnerAssumption` and `RallyTapAssumption`, proves every
property of the run `match` and the invariant of the run `rallytap`:

- `MatchTypeCorrect`, `WinnerCorrect`, `HistoryCorrect`, `PageCorrect`, `RecordCorrect` from
  `IInv == TypeOK /\ WinnerHasTheSets /\ HistoryLeadsHere /\ SetsOnRecord`;
  `BoardsCorrect` from the type alone;
- `EngineImplementsBestOf`: every step of the engine is a step of `BestOf` or
  leaves its variables alone;
- `SidesCorrect`, the action property: it says when the code changes sides, the last
  point of a 2-0 match among them.

Serving and the swap in the middle of a set change neither score nor result
(`Presented`), so what a point does is what the award of a set does (`SetWon`) or
nothing (`ResultKept`); `HistoryAdded` and `ActionUndone` carry the history
through the drop of the oldest entry and through an undo. The invariant
`WinnerHasTheSets` is needed for the refinement: a LIVE match has no winner, so
the set that is won may be counted. The page counts the sets for itself, from the
record: `SetsOnRecord` says that this count is the engine's, and that each set on
record is over by `isSetComplete`. Hence `RecordCorrect`, which no run checks: whoever has
only the record and the settings comes to the engine's result.

- `TapTypeCorrect`, `ConnectedCorrect` from `TapInv == TapTypeOK /\
  TasksOfMade /\ OldOnesGone /\ NewOnesUntouched /\ TasksAreHeld /\ SetupOverLink /\
  PageIsOf /\ LetGoStaysSo /\ SaysConnected`, for any number of bridges, tasks,
  attempts and acts.

`LetGoStaysSo` says that whoever hears the button is the page's bridge or a loose one.
A bridge that has been let go of may still have a task, so that needs to say which: what searches, opens or sets up belongs to the page's bridge or to a loose one
(`TasksAreHeld`). A task that sets up does so over the link, for a bridge that knows its
server (`SetupOverLink`): `disconnect()` of that bridge closes the link, and the task
fails. A loop's delay is not such a task: it looks at `abort` when it is over.
`SaysConnected` is what makes `ConnectedCounts` inductive: as long as no bridge is
loose, a page that says "connected" hears the device or has a task that will.

`PadelProofs`, from `PadelConfigsAssumption`, `MaxHistoryAssumption` and
`NoWinnerAssumption`, proves every property of the run `padel`:

- `PadelTypeCorrect`, `CompleteSetsCorrect`, `OneCountCorrect`, `PadelRecordCorrect` from
  `IInv == TypeOK /\ OneCount(match) /\ SetsAreComplete /\ RecordKept`;
- `PadelSidesCorrect`, the action property, and `PadelEngineImplementsBestOf`, the
  refinement of every step but a restart.

Each step of the rules - a point of a game, of a tiebreak, the game or set it
wins, the correction of each - has a lemma that says what it does to the counts
(`Ruled`), to the result (`Onward`) and to the sides (`Turned`). The award of a
game passes through a state in which both counts are at love (`AtLove`), whence
`OneCount` survives the change from game to tiebreak and back. `RecordKept` is what the
refinement needs: while padel is played the sets a player has are those on record,
and nobody has enough of them in an open match. A restart empties that count, not
the record, and goes on with the rules of table tennis: `BestOf` does not allow that,
and the refinement is stated without it.

`PersistenceProofs` proves both safety properties of the run `persistence`, from
`ChangesAssumption`, for any set of courts and any number of changes:

- `PersistenceTypeCorrect`, `QuietHubHasSaved` and the action property
  `StopAndBootKeep` from `IInv == TypeOK /\ SessionsHaveModes /\ SessionsSaved /\
  BracketSaved /\ StopSaved`.

`QuietMeansSaved` is not inductive, because either timer's save writes the whole
snapshot: `SessionsSaved` and `BracketSaved` say of each part that memory, snapshot
and file agree, or its own timer runs, or the club's reset has emptied it. That the
snapshot is always the engine's own bracket (first half of `BracketSaved`) is why
the court timer's save cannot put an old bracket into the file. `StopSaved` connects
the file with what a stop left in memory; `SessionsHaveModes` says that no session
is taken for a court without an entry when it is read back.

It also proves, from `ClubAdminAssumption`, the safety properties of the run
`clubadmin`, for any number of tabs, courts, records, messages and failed writes:

- `AdminTypeCorrect`, `DashboardCorrect`, `RevealsCorrect` from `AdminInv == AdminTypeOK
  /\ Queued /\ UpIsLive /\ Entitled /\ DashboardNeedsRole /\ HistoryFollows /\
  CatalogInOrder /\ RecordsInOrder /\ RevealsAreLogged`.

`DashboardIsCurrent` speaks of a page that waits for nothing and says nothing of
what is on its way, so it is not inductive. `CatalogInOrder` and `RecordsInOrder` say
it of the queues: the last list of courts, or of records, that is under way to a
tab is the present one, and a page with none under way shows it or, for the courts,
has asked for it. For the records this rests on an order within one queue: a page
becomes a dashboard when it hears of its entry, with the records it had, and
`HistoryFollows` says that the records are behind each such message. `Entitled` and
`DashboardNeedsRole` say that records and entries go to those with the role only,
whence a list that is broadcast to them reaches every dashboard. All that the hub
may send in a step is a `Part`, and one lemma (`HubLemma`) shows for each handler
that what follows from the queues is kept when it sends such parts and announces
what it changes. A new court's number is the least one free; that there is one
below the number of courts and one more is a pigeonhole over the naturals
(`NumberType`).

`AccessProofs`, from `AccessAssumption`, proves the safety properties of the run
`access`, for any number of tabs, owners, PINs and connections:

- `AccessTypeCorrect`, `RefereeIsProved`, `CardIsCurrent`, `PinsStayWithOwners` and the
  action property `RoleIsKept` from `IInv == TypeOK /\ PinsInOrder /\ RefereeEntry /\
  UpIsLive /\ HonestTabs /\ QueuesInOrder /\ CardsInOrder`.

For the referee no order of messages matters (`RefereeEntry`): the PIN is judged
when SET_REF is served, and a new one empties the court in the same step. For the
card it does: `CardsInOrder` says what the card will show when all that is under way
has been heard (`WillShow`: the last list or answer decides). It rests on
`HonestTabs` and `QueuesInOrder`: only an owner's connection is ever sent a PIN, and
only a request of the tab's present connection is served. `PinsStayWithOwners`, which
no run checks, is the first half of that, stated by itself: a device whose user does
not know the owner PIN is never an owner to the hub and never shows a referee's PIN,
whatever is dropped, reloaded or restored.

`ClubPlayProofs`, from `ClubPlayAssumption`, proves the safety properties of the run
`clubplay`, for any number of phones, sessions, connections and messages:

- `ClubPlayTypeCorrect`, `RecordsCorrect`, `OldPhonesOut`, `ScorersCorrect` from
  `IInv == Sound(court, history) /\ Typed /\ RoomsAreLive /\ WhoIsIn /\ EndHeard`.

`Sound` is about court and records alone and has one lemma per operation of the
court: sessions are numbered within the PINs drawn (`Numbered`), an open court has a
PIN that all who are on it gave, an empty one has nobody (`Guarded`), and each
session that is over is recorded once. `WhoIsIn` is what makes `ScorersAreReferees`
inductive: a phone in the room keeps the score or is `Aware` that it does not,
by a flag of its page or by a message under way. An answer to JOIN that is still
under way opens a new page without flags, so it counts only if such a message
follows it; `AwareKept`, `AwareTold` and `AwareHeard` carry that through the queue.
`EndHeard` says the same of the end of the session, and is needed because
`ResetCourt` takes every phone off the court without telling it; `RoomsAreLive`
because a phone comes back with a connection that must not be in the room already.

`BracketProofs` also proves, from `ScreensAssumption`, the safety properties of the
run `screens`, for any courts of either kind, any number of acts and queues of any
length:

- `ScreensTypeCorrect`, `SpotlightFollows`, `SpotlightCorrect` from
  `ScreensInvariance: ScreensSpec => []ScreensInv` with `ScreensInv ==
  ScreensTypeOK /\ ScreensQueued /\ ScreenIsLive /\ ListInOrder /\ ClubInOrder /\
  RevisionInOrder /\ AsksInOrder /\ SubIsLast /\ SubsAlternate /\ MatchInOrder`.

Both properties speak of a television with nothing under way; the invariant says
what the queues owe it. Of the messages: the last word about each court, about the
club's courts and about the bracket is how they are, and with no word under way the
page has them so (`ListInOrder`, `ClubInOrder`, `RevisionInOrder`). The list needs it
court by court, because a `COURT_UPDATE` corrects one court of a list that is older.
Of the requests: the last one about a court subscribes to it exactly if it is in the
spotlight, and with none under way that has been done (`AsksInOrder`). The score
needs more. A MATCH_UPDATE is taken for the court in the spotlight whatever court it
is of, so `MatchInOrder` holds only once nothing about that court is asked any more,
and then no other room may be joined (`SoleRoom`): that is why the page subscribes
last of all (`SubIsLast`), and why a court is never subscribed to twice without being
left (`SubsAlternate`) - the hub answers a subscription with the score or, if it
refuses, with nothing, which would be wrong for a television that was in the room
already. What people do at the hub is one argument for
all of their acts: what a step sends is `Truths` about the state it leads to, and it
says what it changes (`TellingKeeps`). `untold` and `unsaid` are set by the steps
that leave something unsaid.

Only model-checked is what is out of the prover's reach: liveness
(`PendingIsWritten`, `RefereesLeave`, `EndReachesTheRoom`, `PhonesGetAnAnswer`,
`ButtonsComeBack`, `ButtonComesBack`, `ShowsTheMode`), ENABLED, and what a recursive
definition computes for every input (none of the modules has one). Every safety
property of a passing run, invariant or of steps, and both refinements are theorems
(`PodiumStands` for the four slots it is right with).
The disagreements of `padel_restart` and `persistence_finish` are counterexamples and
need no proof.

## 5. The plan

The safety properties of all runs are proved. What could still be said:

1. Courts that share a PIN: `findClubCourtByPin` takes the first that has it, and
   `CourtFlow` any. With the order in the model one could state which court a phone
   of the later one is joined to.
2. A state file that cannot be written: the save that failed is not repeated until
   the next change. `Persistence` has no failing write.
3. The reset token of the bracket: its expiry and its replacement by a second
   request, beside the page that holds it.
4. Reveals asked for two in a row, whose answers do not say whose phone they are.

## 6. Not modelled

- Names, phones, costs, elapsed times, encryption and formatting; validation of
  payloads; translation, themes, statistics, toasts and the layout of the pages;
  CSV, QR codes, certificates, the captive portal and the HTTP application: they
  decide nothing the properties are about.
- The limiters' windows and the tokens' expiry: they are met as choices (an attempt
  may be refused, a token accepted or not), which covers every count.
- The exchange of the reset token before `BRACKET_RESET`; only the confirmed reset
  is an action.
- The admin page's renaming, star and kiosk mode, the retention purge of the
  history, changes of the club's configuration, clubs without an encryption key.
- POST `/finish` as a television sees it (`Screens` has no such action; `CourtFlow` and
  `Persistence` have what it does to courts and file).
- Writes of the state file that fail; a restart of the hub as seen by the browsers.
- Score writes to the button's display, its name, its error texts.
