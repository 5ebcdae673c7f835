---------------------------- MODULE Persistence ----------------------------
(* What the hub writes to rallyos-state.json, when, and what a restart makes  *)
(* of it: PersistenceCoordinator, StateStore, the debounce timers of the      *)
(* court manager (600 ms) and of the bracket handler (2 s), the tournament    *)
(* routes, CLUB_RESET_SETUP, graceful stop, crash and boot.                   *)
(*                                                                            *)
(* A court's session and the bracket are seen through the stamp of the last   *)
(* change they took: whatever changes gets the next stamp, so that a saved    *)
(* value is up to date when its stamp is.                                     *)
EXTENDS Naturals, FiniteSets

CONSTANTS
  Courts,      \* ids a catalog record may get; never used twice (UUIDs)
  MaxChanges   \* bound: changes of courts and bracket in a behaviour

ASSUME ChangesAssumption == MaxChanges \in Nat

VARIABLES
  process,     \* "up", "stopped" (graceful) or "crashed"
  courts,      \* the runtime court of each id, in memory
  engine,      \* the bracket engine's bracket, in memory
  catalog,     \* ids in the inventory, written at once to a file of its own
  active,      \* those of them whose record is ACTIVE, not in MAINTENANCE or ARCHIVED
  fresh,       \* ids not given to a record yet
  snapshot,    \* the coordinator's document, in memory
  file,        \* rallyos-state.json
  courtTimer,  \* CourtManager.persistTimer is set
  slotTimer,   \* BracketHandler.saveTimer is set
  changes,     \* the last stamp given
  wiped,       \* history: parts of the snapshot CLUB_RESET_SETUP emptied, memory did not
  finished,    \* history: stamps of the sessions POST /finish cleared
  kept         \* history: what a graceful stop left in memory

memory == <<courts, engine, snapshot, courtTimer, slotTimer>>
disk == <<catalog, active, fresh, file>>
historyVars == <<wiped, finished, kept>>
vars == <<process, memory, disk, changes, historyVars>>

Stamps == 0..MaxChanges
Court == [mode: {"none", "club", "tournament"}, live: BOOLEAN, stamp: Stamps]
NoCourt == [mode |-> "none", live |-> FALSE, stamp |-> 0]
Brackets == [stamp: Stamps, bound: SUBSET Courts]
NoBracket == [stamp |-> 0, bound |-> {}]
Documents == [live: [Courts -> Court], bracket: Brackets]
EmptyDocument == [live |-> [c \in Courts |-> NoCourt], bracket |-> NoBracket]
NoFile == [exists |-> FALSE, doc |-> EmptyDocument]
FileOf(doc) == [exists |-> TRUE, doc |-> doc]

\* StateStore.load: what the file says, and nothing when there is none.
Loaded == file.doc

\* Boot with no file: the coordinator starts from an empty document.
Init ==
  /\ process = "up"
  /\ courts = [c \in Courts |-> NoCourt] /\ engine = NoBracket
  /\ catalog = {} /\ active = {} /\ fresh = Courts
  /\ snapshot = EmptyDocument /\ file = NoFile
  /\ courtTimer = FALSE /\ slotTimer = FALSE
  /\ changes = 0
  /\ wiped = {} /\ finished = {} /\ kept = EmptyDocument

Up == process = "up"
Now == changes + 1
Stamp == Up /\ changes < MaxChanges /\ changes' = Now

------------------------------------------------------------------------------
(* The two writers share the coordinator's snapshot and its one flush.        *)

SetBracket == snapshot' = [snapshot EXCEPT !.bracket = engine']
Flush == file' = FileOf(snapshot')

\* The rows persistState serializes: courts with a flow. A live flow of either
\* mode is serialized, an idle court is not.
Rows(cs) == [c \in Courts |-> IF cs[c].live THEN cs[c] ELSE NoCourt]

\* Mutant: the snapshot is brought up to date and not flushed.
PersistCourtsUnflushed ==
  /\ snapshot' = [snapshot EXCEPT !.live = Rows(courts')]
  /\ file' = file

\* persistState: the sessions go into the snapshot, the whole of it to disk.
PersistCourts ==
  /\ snapshot' = [snapshot EXCEPT !.live = Rows(courts')]
  /\ Flush

\* CourtManager.flush: now, and not by the timer.
FlushCourts == courtTimer' = FALSE /\ PersistCourts

\* Mutant: the timer that is running is not replaced but left out.
NotifyCourtsQuietly ==
  /\ courtTimer' = FALSE
  /\ UNCHANGED <<snapshot, file>>

\* notifyUpdate: the save is put off, or put off again.
NotifyCourts ==
  /\ courtTimer' = TRUE
  /\ UNCHANGED <<snapshot, file>>

\* scheduleDebouncedSave: the snapshot at once, the disk later.
SaveBracketLater ==
  /\ SetBracket
  /\ slotTimer' = TRUE
  /\ file' = file

\* persistNow: snapshot and disk at once; the sessions are the ones saved last.
SaveBracketNow ==
  /\ SetBracket
  /\ slotTimer' = FALSE
  /\ Flush

------------------------------------------------------------------------------
(* Courts. Which event may change a court when is CourtFlow's subject; here a *)
(* court gets a runtime entry from the catalog, starts a flow, goes on with   *)
(* it, or ends it; every such change goes through notifyUpdate.               *)

\* The entry a court has after ensureRuntime...Court in the given mode.
Ensured(c, mode) == IF courts[c].mode = "none" THEN [NoCourt EXCEPT !.mode = mode] ELSE courts[c]
Reachable(c) == courts[c].mode # "none" \/ c \in active

\* A change of one court by a club, referee or scoring event.
CourtChanges(c) ==
  /\ Stamp /\ Reachable(c)
  /\ \E mode \in {"club", "tournament"}, live \in BOOLEAN :
       /\ Ensured(c, mode).mode = mode
       /\ courts' = [courts EXCEPT ![c] = [mode |-> mode, live |-> live, stamp |-> Now]]
  /\ NotifyCourts
  /\ wiped' = wiped \ {"sessions"}
  /\ UNCHANGED <<process, engine, catalog, active, fresh, slotTimer, finished, kept>>

\* REGENERATE_PIN and GENERATE_COURT_PIN do not wait for the timer.
NewPin(c) ==
  /\ Stamp /\ Reachable(c)
  /\ courts' = [courts EXCEPT ![c] = [Ensured(c, "tournament") EXCEPT !.stamp = Now]]
  /\ FlushCourts
  /\ wiped' = wiped \ {"sessions"}
  /\ UNCHANGED <<process, engine, catalog, active, fresh, slotTimer, finished, kept>>

\* INVENTORY_ADD, written at once.
InventoryAdd(c) ==
  /\ Up /\ c \in fresh
  /\ catalog' = catalog \cup {c} /\ active' = active \cup {c} /\ fresh' = fresh \ {c}
  /\ UNCHANGED <<process, memory, file, changes, historyVars>>

\* INVENTORY_MAINTENANCE and INVENTORY_ARCHIVE, written at once: of a court that is
\* idle, bound to a bracket match or not, and of one whose club session is over.
InventoryStatus(c) ==
  /\ Up /\ c \in catalog
  /\ courts[c].live => courts[c].mode = "club"
  /\ active' \in {active \cup {c}, active \ {c}}
  /\ UNCHANGED <<process, memory, catalog, fresh, file, changes, historyVars>>

------------------------------------------------------------------------------
(* The bracket.                                                               *)

\* Courts after the release of the bound ones: TournamentFlowContract.release
\* frees a tournament court and leaves a club court alone.
Released == [c \in Courts |->
  IF c \in engine.bound /\ courts[c].mode = "tournament"
    THEN [courts[c] EXCEPT !.live = FALSE, !.stamp = Now] ELSE courts[c]]
ReleaseNotifies == courtTimer \/ \E c \in engine.bound : courts[c].mode # "none"

\* BRACKET_CREATE: a court must be active; bindings of an old one go.
BracketCreate ==
  /\ Stamp /\ active # {}
  /\ engine' = [stamp |-> Now, bound |-> {}]
  /\ SaveBracketNow
  /\ wiped' = wiped \ {"bracket"}
  /\ UNCHANGED <<process, courts, catalog, active, fresh, courtTimer, finished, kept>>

\* BRACKET_ASSIGN_PLAYER: the name waits for the timer.
BracketEdit ==
  /\ Stamp /\ engine # NoBracket
  /\ engine' = [engine EXCEPT !.stamp = Now]
  /\ SaveBracketLater
  /\ wiped' = wiped \ {"bracket"}
  /\ UNCHANGED <<process, courts, catalog, active, fresh, courtTimer, finished, kept>>

\* BRACKET_ASSIGN_COURT binds or unbinds and asks nothing of the court's flow.
BracketAssignCourt(c) ==
  /\ Stamp /\ engine # NoBracket
  /\ engine' \in {[stamp |-> Now, bound |-> engine.bound \cup ({c} \cap active)],
                 [stamp |-> Now, bound |-> engine.bound \ {c}]}
  /\ SaveBracketLater
  /\ wiped' = wiped \ {"bracket"}
  /\ UNCHANGED <<process, courts, catalog, active, fresh, courtTimer, finished, kept>>

\* TOURNAMENT_SELECT_TABLE: the binding waits for the slot timer, the runtime
\* entry it may bring about for the court timer.
BracketSelect(c) ==
  /\ Stamp /\ engine # NoBracket /\ c \in active /\ ~courts[c].live
  /\ engine' = [stamp |-> Now, bound |-> engine.bound \cup {c}]
  /\ courts' = [courts EXCEPT ![c] = Ensured(c, "tournament")]
  /\ courtTimer' = (courtTimer \/ courts[c].mode = "none")
  /\ SaveBracketLater
  /\ wiped' = wiped \ {"bracket"}
  /\ UNCHANGED <<process, catalog, active, fresh, finished, kept>>

\* INVENTORY_FORCE_END of a bound tournament court: flow cleared, match unbound.
ForceEnd(c) ==
  /\ Stamp /\ courts[c].mode = "tournament" /\ courts[c].live /\ c \in engine.bound
  /\ courts' = [courts EXCEPT ![c].live = FALSE, ![c].stamp = Now]
  /\ engine' = [stamp |-> Now, bound |-> engine.bound \ {c}]
  /\ courtTimer' = TRUE
  /\ SaveBracketLater
  /\ wiped' = wiped \ {"bracket", "sessions"}
  /\ UNCHANGED <<process, catalog, active, fresh, finished, kept>>

\* A result or an undo that leaves the tournament going: saved at once.
BracketResult ==
  /\ Stamp /\ engine # NoBracket
  /\ engine' = [engine EXCEPT !.stamp = Now]
  /\ SaveBracketNow
  /\ wiped' = wiped \ {"bracket"}
  /\ UNCHANGED <<process, courts, catalog, active, fresh, courtTimer, finished, kept>>

\* The final's result: saved, then all bound courts released and saved again,
\* with the sessions as they were saved last.
BracketCompleted ==
  /\ Stamp /\ engine # NoBracket
  /\ engine' = [stamp |-> Now, bound |-> {}]
  /\ courts' = Released /\ courtTimer' = ReleaseNotifies
  /\ SaveBracketNow
  /\ wiped' = wiped \ {"bracket"}
  /\ UNCHANGED <<process, catalog, active, fresh, finished, kept>>

\* BRACKET_RESET, confirmed. Only the release of bound courts clears the timer.
BracketReset ==
  /\ Stamp
  /\ engine' = NoBracket
  /\ courts' = Released /\ courtTimer' = ReleaseNotifies
  /\ slotTimer' = (slotTimer /\ engine.bound = {})
  /\ SetBracket /\ Flush
  /\ wiped' = wiped \ {"bracket"}
  /\ UNCHANGED <<process, catalog, active, fresh, finished, kept>>

------------------------------------------------------------------------------
(* The timers.                                                                *)

CourtTimerFires ==
  /\ Up /\ courtTimer
  /\ courts' = courts /\ FlushCourts
  /\ wiped' = wiped \ {"sessions"}
  /\ UNCHANGED <<process, engine, catalog, active, fresh, slotTimer, changes, finished, kept>>

SlotTimerFires ==
  /\ Up /\ slotTimer
  /\ slotTimer' = FALSE
  /\ file' = FileOf(snapshot)
  /\ UNCHANGED <<process, courts, engine, catalog, active, fresh, snapshot, courtTimer, changes, historyVars>>

------------------------------------------------------------------------------
(* Stop, crash and boot.                                                      *)

\* flushPending: the bracket's snapshot is current, only the disk waits for the timer.
FlushPending == file' = IF slotTimer THEN FileOf(snapshot') ELSE file

\* Mutant: SIGTERM leaves the sessions' save to its timer.
StopBracketOnly ==
  /\ Up /\ process' = "stopped"
  /\ courts' = courts /\ snapshot' = snapshot
  /\ FlushPending
  /\ kept' = [live |-> Rows(courts), bracket |-> engine]
  /\ courtTimer' = FALSE /\ slotTimer' = FALSE
  /\ UNCHANGED <<engine, catalog, active, fresh, changes, wiped, finished>>

\* SIGTERM: CourtManager.flush writes the whole document, so the flush of the
\* bracket's timer that follows writes the same again.
Stop ==
  /\ Up /\ process' = "stopped"
  /\ courts' = courts /\ FlushCourts
  /\ kept' = [live |-> Rows(courts), bracket |-> snapshot.bracket]
  /\ slotTimer' = FALSE
  /\ UNCHANGED <<engine, catalog, active, fresh, changes, wiped, finished>>

\* Memory and timers are gone; the write of a file is one rename.
Crash ==
  /\ Up /\ process' = "crashed"
  /\ courtTimer' = FALSE /\ slotTimer' = FALSE
  /\ UNCHANGED <<courts, engine, snapshot, disk, changes, historyVars>>

\* restoreState: a row of the file replaces the court's runtime entry unless the
\* catalog does not know the court; a bound court without an entry gets an idle
\* one if its record is ACTIVE.
RestoredRows(cs, doc) == [c \in Courts |->
  IF doc.live[c].live /\ c \in catalog THEN doc.live[c] ELSE cs[c]]

Restored(cs, doc, bracket) == [c \in Courts |->
  IF c \in bracket.bound \cap active /\ RestoredRows(cs, doc)[c].mode = "none"
    THEN [NoCourt EXCEPT !.mode = "tournament"] ELSE RestoredRows(cs, doc)[c]]

\* Boot: the snapshot and the bracket from the file, then restoreState, which
\* arms the timer when it restored something.
Boot ==
  /\ ~Up /\ process' = "up"
  /\ snapshot' = Loaded
  /\ engine' = Loaded.bracket
  /\ courts' = Restored([c \in Courts |-> NoCourt], Loaded, Loaded.bracket)
  /\ courtTimer' = (\E c \in Courts : courts'[c].mode # "none")
  /\ slotTimer' = FALSE
  /\ wiped' = {}
  /\ UNCHANGED <<disk, changes, finished, kept>>

------------------------------------------------------------------------------
(* The routes of the tournament and CLUB_RESET_SETUP.                         *)

\* POST /load: restoreState in a running hub; entries of other courts stay.
LoadRoute ==
  /\ Up /\ file.exists
  /\ courts' = Restored(courts, Loaded, snapshot.bracket)
  /\ courtTimer' = (courtTimer \/ courts' # courts \/ \E c \in catalog : Loaded.live[c].live)
  /\ UNCHANGED <<process, engine, disk, snapshot, slotTimer, changes, historyVars>>

\* POST /new deletes the file.
NewRoute ==
  /\ Up
  /\ file' = NoFile
  /\ UNCHANGED <<process, memory, catalog, active, fresh, changes, historyVars>>

\* The repository drops every tournament entry.
FinishTournament ==
  [c \in Courts |-> IF courts[c].mode = "tournament" THEN NoCourt ELSE courts[c]]

\* POST /finish: the bound courts are released, the file is deleted and every
\* tournament entry of the repository dropped. The snapshot is not touched but
\* for the release, and no timer is set by the deletion.
FinishRoute ==
  /\ Stamp /\ file.exists
  /\ engine' = IF engine.bound = {} THEN engine ELSE [stamp |-> Now, bound |-> {}]
  /\ courts' = FinishTournament
  /\ courtTimer' = ReleaseNotifies
  /\ slotTimer' = (slotTimer /\ engine.bound = {})
  /\ snapshot' = IF engine.bound = {} THEN snapshot ELSE [snapshot EXCEPT !.bracket = engine']
  /\ file' = NoFile
  /\ finished' = finished \cup {courts[c].stamp : c \in {d \in Courts :
                                  courts[d].mode = "tournament" /\ courts[d].live}}
  /\ wiped' = IF engine.bound = {} THEN wiped ELSE wiped \ {"bracket"}
  /\ UNCHANGED <<process, catalog, active, fresh, kept>>

\* What the owner asks for over HTTP.
TournamentRouter == LoadRoute \/ NewRoute \/ FinishRoute

\* CLUB_RESET_SETUP empties the catalog and the snapshot and writes it; the
\* runtime courts, the engine and the timers stay as they are.
ClubResetSetup ==
  /\ Up
  /\ catalog' = {} /\ active' = {}
  /\ snapshot' = EmptyDocument /\ file' = FileOf(EmptyDocument)
  /\ wiped' = {"sessions", "bracket"}
  /\ UNCHANGED <<process, courts, engine, fresh, courtTimer, slotTimer, changes, finished, kept>>

------------------------------------------------------------------------------
Next ==
  \/ \E c \in Courts : CourtChanges(c) \/ NewPin(c) \/ InventoryAdd(c) \/ InventoryStatus(c)
                         \/ BracketAssignCourt(c) \/ BracketSelect(c) \/ ForceEnd(c)
  \/ BracketCreate \/ BracketEdit \/ BracketResult \/ BracketCompleted \/ BracketReset
  \/ CourtTimerFires \/ SlotTimerFires
  \/ Stop \/ Crash \/ Boot
  \/ TournamentRouter \/ ClubResetSetup

Spec == Init /\ [][Next]_vars

\* Node runs a timer's callback once it is due and not replaced. Changes are
\* bounded, so a debounce is not pushed back for ever.
Fairness == WF_vars(CourtTimerFires) /\ WF_vars(SlotTimerFires)
FairSpec == Spec /\ Fairness

------------------------------------------------------------------------------
(* Properties.                                                                *)

TypeOK ==
  /\ process \in {"up", "stopped", "crashed"}
  /\ courts \in [Courts -> Court] /\ engine \in Brackets
  /\ catalog \subseteq Courts /\ active \subseteq catalog /\ fresh \subseteq Courts
  /\ snapshot \in Documents /\ file \in [exists: BOOLEAN, doc: Documents]
  /\ courtTimer \in BOOLEAN /\ slotTimer \in BOOLEAN
  /\ changes \in Stamps /\ wiped \subseteq {"sessions", "bracket"}
  /\ finished \subseteq Stamps /\ kept \in Documents

SavedSession(c) == file.doc.live[c] = courts[c]

\* When no timer is pending, the file - unless a route has deleted it or the
\* club reset emptied it - has every session that is going on and the bracket:
\* no writer forgets to save and none saves an old copy. A crash then loses nothing.
QuietMeansSaved ==
  Up /\ ~courtTimer /\ ~slotTimer /\ file.exists =>
    /\ "sessions" \notin wiped => \A c \in Courts : courts[c].live => SavedSession(c)
    /\ "bracket" \notin wiped => file.doc.bracket = engine

\* A graceful stop and the boot after it lose nothing: every session on a court
\* of the catalog goes on, one put in maintenance or archived meanwhile too, the
\* bracket is there, and each ACTIVE court it is bound to has a runtime entry with
\* a PIN for its referee again (a bound court may be in MAINTENANCE, or archived:
\* it gets none).  And no boot, after a crash either, brings a session to a court
\* that the catalog does not have.
StopThenBootKeeps ==
  [][~Up /\ process' = "up" =>
       /\ process = "stopped" =>
            /\ \A c \in catalog : kept.live[c].live => courts'[c] = kept.live[c]
            /\ engine' = kept.bracket
            /\ \A c \in engine'.bound \cap active : courts'[c].mode # "none"
       /\ \A c \in Courts : courts'[c].mode # "none" => c \in catalog]_vars

\* A pending save is written: once a timer is set, every session that is going
\* on, and the bracket the snapshot has, get to the file unless the hub stops or
\* POST /finish takes the bracket's save back together with the file.
PendingIsWritten ==
  /\ (Up /\ courtTimer) ~> (~Up \/ \A c \in Courts : courts[c].live => SavedSession(c))
  /\ (Up /\ slotTimer) ~> (~Up \/ (file.exists /\ file.doc.bracket = snapshot.bracket)
                                    \/ (~slotTimer /\ ~file.exists))

\* What POST /finish cleared does not come back ("clears the active tournament
\* state"): no court runs a match again that was running when it was finished.
FinishedStaysFinished == \A c \in Courts : courts[c].live => courts[c].stamp \notin finished
==============================================================================
