------------------------------ MODULE ClubAdmin ------------------------------
(***************************************************************************)
(* The club's administration: ClubAdminHandler, ClubSessionHistoryHandler  *)
(* with the stores of session records and of phone reveals, and the        *)
(* INVENTORY_* part of ClubCourtHandler on the hub; ClubAdminPage with     *)
(* its hooks useClubAdmin, useClubSessionHistory and useCourtInventory in  *)
(* several browser tabs; and the socket between them.                      *)
(*                                                                         *)
(* A setup draws an encryption key; keys are numbered, 0 is "the club is   *)
(* not configured".  A record's phone is sealed with the key of its day,   *)
(* or was typed at the desk and is not sealed at all (key 0).  The names   *)
(* of courts, what a session cost and the kiosk's data are left out: of a  *)
(* CLUB_KIOSK_DATA only that it arrives is told.                           *)
(***************************************************************************)
EXTENDS Naturals, Sequences, FiniteSets, SequencesExt, FiniteSetsExt

CONSTANTS
  Tabs,         \* browser tabs of administrators
  MaxCourts,    \* bound: courts ever created
  MaxRecords,   \* bound: session records ever made
  MaxKeys,      \* bound: setups
  MaxActs,      \* bound: acts of users and mishaps, all together
  MaxQueue      \* bound: requests under way when a user sends another

ASSUME ClubAdminAssumption == {MaxCourts, MaxRecords, MaxKeys, MaxActs, MaxQueue} \subseteq Nat \ {0}

CourtIds == 1 .. MaxCourts

VARIABLES
  config,    \* the key of the club's configuration
  inventory,   \* court-inventory.json
  runtime,   \* the courts' runtime entries
  busy,      \* the club sessions going on
  history,   \* session-history.json
  audit,     \* phone-reveal-audit.jsonl
  failed,    \* files a write to which has failed
  role,      \* tabs whose connection has the administrator's role
  pending,   \* tabs on whose connection a clear awaits its confirmation
  tab,       \* what the tab holds
  toHub,     \* requests under way
  toTab,     \* answers and broadcasts under way
  drawn,     \* courts, records and keys drawn so far
  acts       \* acts and mishaps so far

hub == <<config, inventory, runtime, busy, history, audit, failed, role, pending, drawn>>
adminVars == <<hub, tab, toHub, toTab, acts>>

CourtRecord == [id: Nat, number: Nat, status: {"ACTIVE", "MAINTENANCE", "ARCHIVED"}]
Record == [id: Nat, key: Nat]

\* Who has been shown the phone of which record.
Reveal == [tab: Tabs, record: Nat]

\* wanted is pendingRevealRef; revealed the session named in the modal and the
\* record whose phone it shows; shake the token the socket was created with.
Tab == [page: {"away", "loading", "admin", "setup"}, up: BOOLEAN, token: BOOLEAN, shake: BOOLEAN,
        isAdmin: BOOLEAN, verifying: BOOLEAN, resetting: BOOLEAN, loading: BOOLEAN,
        asking: BOOLEAN, wanted: Nat, revealed: [session: Nat, phone: Nat],
        catalog: Seq(CourtRecord), sessions: Seq(Record)]

AdminTypeOK ==
  /\ config \in Nat
  /\ inventory \in Seq(CourtRecord)
  /\ runtime \in [CourtIds -> {"none", "open", "finished"}]
  /\ busy \subseteq [court: Nat, key: Nat]
  /\ history \in Seq(Record)
  /\ audit \subseteq Reveal
  /\ failed \subseteq {"history", "audit"}
  /\ role \subseteq {t \in Tabs : tab[t].up}
  /\ pending \subseteq role
  /\ tab \in [Tabs -> Tab]

NoReveal == [session |-> 0, phone |-> 0]

\* The hooks of a page just mounted.
Mounted(t, page) ==
  [t EXCEPT !.page = page, !.isAdmin = FALSE, !.verifying = FALSE, !.resetting = FALSE,
            !.loading = FALSE, !.asking = FALSE, !.wanted = 0, !.revealed = NoReveal,
            !.catalog = <<>>, !.sessions = <<>>]

Fresh ==
  Mounted([page |-> "admin", up |-> TRUE, token |-> FALSE, shake |-> FALSE, isAdmin |-> FALSE,
           verifying |-> FALSE, resetting |-> FALSE, loading |-> FALSE, asking |-> FALSE,
           wanted |-> 0, revealed |-> NoReveal, catalog |-> <<>>, sessions |-> <<>>], "admin")

FirstCourt == [id |-> 1, number |-> 1, status |-> "ACTIVE"]

\* The club is configured and has one court and a record; some administrators are
\* at their dashboards, restored from the token, the others at the PIN screen.
AdminInit ==
  /\ config = 1 /\ inventory = <<FirstCourt>> /\ busy = {}
  /\ runtime = [c \in CourtIds |-> IF c = 1 THEN "open" ELSE "none"]
  /\ history = <<[id |-> 1, key |-> 1]>>
  /\ audit = {} /\ failed = {} /\ pending = {}
  /\ role \in SUBSET Tabs /\ role # {}
  /\ tab = [t \in Tabs |->
       IF t \in role
       THEN [Fresh EXCEPT !.token = TRUE, !.shake = TRUE, !.isAdmin = TRUE,
                              !.catalog = inventory, !.sessions = history]
       ELSE [Fresh EXCEPT !.catalog = inventory]]
  /\ toHub = [t \in Tabs |-> <<>>]
  /\ toTab = [t \in Tabs |-> <<>>]
  /\ drawn = [court |-> 1, record |-> 1, key |-> 1]
  /\ acts = 0
------------------------------------------------------------------------------
(* Messages.                                                                *)

\* court, record: what the request is about; good: the PIN is right; on: the
\* maintenance is to begin.
Request(type) == [type |-> type, court |-> 0, record |-> 0, good |-> FALSE, on |-> FALSE]

Event(type) == [type |-> type, catalog |-> <<>>, sessions |-> <<>>, ok |-> TRUE, phone |-> 0]

Inventory(cat) == [Event("INVENTORY_UPDATED") EXCEPT !.catalog = cat]
History(records) == [Event("CLUB_SESSION_HISTORY") EXCEPT !.sessions = records]

\* queues with ms for the connected tabs of T behind.
With(queues, T, ms) ==
  [t \in Tabs |-> IF t \in T /\ tab[t].up THEN queues[t] \o ms ELSE queues[t]]

Tell(T, ms) == toTab' = With(toTab, T, ms)
Refuse(t) == Tell({t}, <<Event("ERROR")>>)

\* The page t shows sends m.
Send(t, m) == toHub' = [toHub EXCEPT ![t] = Append(@, m)]

\* Requests of a type under way; the bounds count them, for the hub to serve them all.
UnderWay(types) ==
  Cardinality({p \in Tabs \X (1 .. MaxQueue + 1) :
                 p[2] \in DOMAIN toHub[p[1]] /\ toHub[p[1]][p[2]].type \in types})
CourtsBound == drawn.court + UnderWay({"INVENTORY_ADD", "CLUB_SETUP"}) < MaxCourts
KeysBound == drawn.key + UnderWay({"CLUB_SETUP"}) < MaxKeys
RecordsBound == drawn.record + Cardinality(busy) + UnderWay({"CLUB_ADMIN_OCCUPY"}) < MaxRecords

\* A user does something, or something goes wrong.
Act == acts < MaxActs /\ acts' = acts + 1
------------------------------------------------------------------------------
(* Sessions on the club's courts, as far as the administration sees them.   *)

Free(c) == \A s \in busy : s.court # c

\* A write of a file of the hub, or a failure of it, which is logged and no more.
Written(write, file) ==
  \/ write /\ UNCHANGED <<failed, acts>>
  \/ Act /\ failed' = failed \cup {file} /\ UNCHANGED <<history, audit>>

\* The key a phone typed by a player is sealed with, and whether today's opens r's.
Seal == config
Unseals(r) == config # 0 /\ r.key = config

\* A session never ends twice: no record is refused for its id.
Appended(record) == history' = Append(history, record)

\* onClubSessionEnd: the record is appended and every administrator is sent them all.
Ended(s, news) ==
  /\ drawn' = [drawn EXCEPT !.record = @ + 1]
  /\ busy' = busy \ {s}
  /\ runtime' = [runtime EXCEPT ![s.court] = "finished"]
  /\ Appended([id |-> drawn'.record, key |-> s.key])
  /\ toTab' = With(With(toTab, role, <<History(history')>>), Tabs, <<news>>)
  /\ UNCHANGED <<config, inventory, audit, failed, role, pending>>

\* A player joins with his phone number sealed, and ends the session.
PlayerJoins(c) ==
  /\ Act /\ RecordsBound /\ config # 0 /\ runtime[c] = "open" /\ Free(c)
  /\ busy' = busy \cup {[court |-> c, key |-> Seal]}
  /\ Tell(Tabs, <<Event("CLUB_KIOSK_DATA")>>)
  /\ UNCHANGED <<config, inventory, runtime, history, audit, failed, role, pending, drawn, tab, toHub>>

PlayerEnds(s) ==
  /\ Act /\ s \in busy /\ s.key # 0
  /\ Ended(s, Event("CLUB_KIOSK_DATA"))
  /\ UNCHANGED <<tab, toHub>>
------------------------------------------------------------------------------
(* The hub serves the tabs: who is an administrator.                        *)

IsAdmin(t) == t \in role

\* What an administrator is sent on a connection and whenever a page asks.
RestoredTo(t) == <<Event("CLUB_SESSION_RESTORED"), History(history)>>

\* CLUB_GET_CONFIG and INVENTORY_LIST, which a page sends together.
OnGet(t, m) ==
  /\ m.type = "GET"
  /\ toTab' = With(With(toTab, {t} \cap role, RestoredTo(t)), {t}, <<Inventory(inventory)>>)
  /\ UNCHANGED <<hub, acts>>

\* The limiter may refuse any attempt.
OnVerifyAdmin(t, m) ==
  /\ m.type = "CLUB_VERIFY_ADMIN"
  /\ \/ /\ config # 0 /\ m.good
        /\ role' = role \cup {t}
        /\ Tell({t}, <<Event("CLUB_ADMIN_VERIFIED"), History(history)>>)
     \/ Refuse(t) /\ UNCHANGED role
  /\ UNCHANGED <<config, inventory, runtime, busy, history, audit, failed, pending, drawn, acts>>

\* CourtNumberCounter: the lowest number no court in service or maintenance has.
Number(cat) ==
  Min(1 .. (Len(cat) + 1) \ {cat[i].number : i \in {j \in DOMAIN cat : cat[j].status # "ARCHIVED"}})

Added(cat) == Append(cat, [id |-> drawn.court + 1, number |-> Number(cat), status |-> "ACTIVE"])

\* ClubConfigStore writes at once what it will load; no key is no file.
SaveConfig(key) == config' = key

\* The setup asks for one court.
OnSetup(t, m) ==
  /\ m.type = "CLUB_SETUP"
  /\ \/ /\ config = 0
        /\ drawn' = [drawn EXCEPT !.key = @ + 1, !.court = @ + 1]
        /\ SaveConfig(drawn'.key)
        /\ inventory' = Added(inventory)
        /\ toTab' = With(With(toTab, Tabs, <<Inventory(inventory')>>),
                         {t}, <<Event("CLUB_SETUP_COMPLETE")>>)
     \/ config # 0 /\ Refuse(t) /\ UNCHANGED <<drawn, config, inventory>>
  /\ UNCHANGED <<runtime, busy, history, audit, failed, role, pending, acts>>

ClearedCatalog == <<>>

\* resetRuntimeState: courts with a runtime entry keep it, with the session on them.
\* Everybody is told, t of its request as well.
FactoryState(t) ==
  /\ inventory' = ClearedCatalog
  /\ toTab' = With(With(toTab, Tabs, <<Inventory(inventory')>>), {t}, <<Event("CLUB_SETUP_RESET")>>)

\* Factory state, the history excepted; administrators keep their role.
OnResetSetup(t, m) ==
  /\ m.type = "CLUB_RESET_SETUP"
  /\ \/ /\ IsAdmin(t) /\ config # 0
        /\ SaveConfig(0) /\ FactoryState(t)
     \/ /\ ~IsAdmin(t) \/ config = 0
        /\ Refuse(t) /\ UNCHANGED <<config, inventory>>
  /\ UNCHANGED <<runtime, busy, history, audit, failed, role, pending, drawn, acts>>
------------------------------------------------------------------------------
(* The history of sessions and the phones in it.                            *)

OnClearHistory(t, m) ==
  /\ m.type = "CLUB_CLEAR_HISTORY"
  /\ pending' = IF IsAdmin(t) THEN pending \cup {t} ELSE pending
  /\ UNCHANGED <<config, inventory, runtime, busy, history, audit, failed, role, drawn, toTab, acts>>

\* Thirty seconds after the request.
PendingExpires(t) ==
  /\ t \in pending
  /\ pending' = pending \ {t}
  /\ UNCHANGED <<config, inventory, runtime, busy, history, audit, failed, role, drawn, tab, toHub,
                 toTab, acts>>

\* Mutants: only the administrator who confirmed sees it; the reveals go as well.
ClearHearersAlone(t) == {t}
ClearedWithAudit == history' = <<>> /\ audit' = {}

ClearHearers(t) == role
Cleared == history' = <<>> /\ UNCHANGED audit

\* That nothing is left is told whether or not the file could be written.
OnConfirm(t, m) ==
  /\ m.type = "CLUB_CLEAR_HISTORY_CONFIRM"
  /\ \/ /\ IsAdmin(t) /\ t \in pending
        /\ pending' = pending \ {t}
        /\ Written(Cleared, "history")
        /\ Tell(ClearHearers(t), <<History(<<>>)>>)
     \/ /\ ~IsAdmin(t) \/ t \notin pending
        /\ UNCHANGED <<pending, history, audit, failed, toTab, acts>>
  /\ UNCHANGED <<config, inventory, runtime, busy, role, drawn>>

RevealResult(phone) ==
  [Event("CLUB_REVEAL_PHONE_RESULT") EXCEPT !.ok = (phone # 0), !.phone = phone]

\* The record is still there and its phone opens with the key of today.
Opens(id) == \E i \in DOMAIN history : history[i].id = id /\ Unseals(history[i])

Logged(reveal) == audit' = audit \cup {reveal}

OnRevealPhone(t, m) ==
  /\ m.type = "CLUB_REVEAL_PHONE"
  /\ \/ /\ IsAdmin(t) /\ Opens(m.record)
        /\ Written(Logged([tab |-> t, record |-> m.record]) /\ UNCHANGED history, "audit")
        /\ Tell({t}, <<RevealResult(m.record)>>)
     \/ /\ ~IsAdmin(t) \/ ~Opens(m.record)
        /\ Tell({t}, <<RevealResult(0)>>)
        /\ UNCHANGED <<history, audit, failed, acts>>
  /\ UNCHANGED <<config, inventory, runtime, busy, role, pending, drawn>>
------------------------------------------------------------------------------
(* The inventory of courts.                                                 *)

Listed(c) == \E i \in DOMAIN inventory : inventory[i].id = c
Active(c) == \E i \in DOMAIN inventory : inventory[i].id = c /\ inventory[i].status = "ACTIVE"

\* InventoryManager.setMaintenance and archive.
WithStatus(cat, c, status) ==
  [i \in DOMAIN cat |-> IF cat[i].id = c THEN [cat[i] EXCEPT !.status = status] ELSE cat[i]]

\* The catalog becomes cat and everybody is told.
Catalog(cat) ==
  /\ inventory' = cat
  /\ Tell(Tabs, <<Inventory(cat)>>)

OnAdd(t, m) ==
  /\ m.type = "INVENTORY_ADD"
  /\ \/ /\ IsAdmin(t)
        /\ Catalog(Added(inventory))
        /\ drawn' = [drawn EXCEPT !.court = @ + 1]
     \/ ~IsAdmin(t) /\ Refuse(t) /\ UNCHANGED <<inventory, drawn>>
  /\ UNCHANGED <<config, runtime, busy, history, audit, failed, role, pending, acts>>

\* Mutant: a court in use is refused without a word.
RefusedSilently(t) == UNCHANGED toTab
RefusedInUse(t) == Refuse(t)

\* INVENTORY_MAINTENANCE and INVENTORY_ARCHIVE of a court the catalog lists, in
\* whatever status, and nobody plays on.
Change(t, c, status) ==
  /\ \/ IsAdmin(t) /\ Listed(c) /\ Free(c) /\ Catalog(WithStatus(inventory, c, status))
     \/ /\ ~IsAdmin(t) \/ ~Listed(c)
        /\ Refuse(t) /\ UNCHANGED inventory
     \/ /\ IsAdmin(t) /\ Listed(c) /\ ~Free(c)
        /\ RefusedInUse(t) /\ UNCHANGED inventory
  /\ UNCHANGED <<config, runtime, busy, history, audit, failed, role, pending, drawn, acts>>

OnMaintenance(t, m) ==
  m.type = "INVENTORY_MAINTENANCE" /\ Change(t, m.court, IF m.on THEN "MAINTENANCE" ELSE "ACTIVE")

OnArchive(t, m) == m.type = "INVENTORY_ARCHIVE" /\ Change(t, m.court, "ARCHIVED")

\* CLUB_ADMIN_OCCUPY, which gives the court its runtime entry when the catalog has
\* it in service.  The desk sends the phone as it was typed.
OnOccupy(t, m) ==
  LET may    == IsAdmin(t) /\ (runtime[m.court] # "none" \/ Active(m.court))
      opened == [runtime EXCEPT ![m.court] = IF @ = "none" THEN "open" ELSE @]
      in     == may /\ config # 0 /\ opened[m.court] = "open" /\ Free(m.court)
  IN  /\ m.type = "CLUB_ADMIN_OCCUPY"
      /\ runtime' = IF may THEN opened ELSE runtime
      /\ busy' = IF in THEN busy \cup {[court |-> m.court, key |-> 0]} ELSE busy
      /\ toTab' = With(With(toTab, IF in \/ runtime' # runtime THEN Tabs ELSE {},
                            <<Event("CLUB_KIOSK_DATA")>>),
                       IF in THEN {} ELSE {t}, <<Event("ERROR")>>)
      /\ UNCHANGED <<config, inventory, history, audit, failed, role, pending, drawn, acts>>

OnResetCourt(t, m) ==
  LET may == IsAdmin(t) /\ runtime[m.court] = "finished"
  IN  /\ m.type = "CLUB_RESET_COURT"
      /\ runtime' = IF may THEN [runtime EXCEPT ![m.court] = "open"] ELSE runtime
      /\ IF may THEN Tell(Tabs, <<Event("CLUB_KIOSK_DATA")>>) ELSE Refuse(t)
      /\ UNCHANGED <<config, inventory, busy, history, audit, failed, role, pending, drawn, acts>>

OnForceEnd(t, m) ==
  /\ m.type = "INVENTORY_FORCE_END"
  /\ \/ IsAdmin(t) /\ \E s \in busy : s.court = m.court /\ Ended(s, Inventory(inventory))
     \/ (~IsAdmin(t) \/ Free(m.court)) /\ Refuse(t) /\ UNCHANGED hub
  /\ UNCHANGED acts

Serve(t) ==
  /\ toHub[t] # <<>>
  /\ toHub' = [toHub EXCEPT ![t] = Tail(@)]
  /\ LET m == Head(toHub[t])
     IN  \/ OnGet(t, m) \/ OnVerifyAdmin(t, m) \/ OnSetup(t, m) \/ OnResetSetup(t, m)
         \/ OnClearHistory(t, m) \/ OnConfirm(t, m) \/ OnRevealPhone(t, m)
         \/ OnAdd(t, m) \/ OnMaintenance(t, m) \/ OnArchive(t, m)
         \/ OnOccupy(t, m) \/ OnResetCourt(t, m) \/ OnForceEnd(t, m)
  /\ UNCHANGED tab
------------------------------------------------------------------------------
(* The administrators at their tabs.                                        *)

\* What its user can do on the page of t, with room for another request.
On(t, page) == Act /\ tab[t].page = page /\ tab[t].up /\ Len(toHub[t]) < MaxQueue

PinScreen(t) == On(t, "admin") /\ ~tab[t].isAdmin
Dashboard(t) == On(t, "admin") /\ tab[t].isAdmin

\* The records in the table of sessions.
Table(t) == {tab[t].sessions[i].id : i \in DOMAIN tab[t].sessions}

TypePin(t, good) ==
  /\ PinScreen(t) /\ ~tab[t].verifying
  /\ tab' = [tab EXCEPT ![t].verifying = TRUE]
  /\ Send(t, [Request("CLUB_VERIFY_ADMIN") EXCEPT !.good = good])
  /\ UNCHANGED <<hub, toTab>>

AskReset(t) ==
  /\ Dashboard(t) /\ ~tab[t].resetting
  /\ tab' = [tab EXCEPT ![t].resetting = TRUE]
  /\ Send(t, Request("CLUB_RESET_SETUP"))
  /\ UNCHANGED <<hub, toTab>>

SubmitSetup(t) ==
  /\ On(t, "setup") /\ ~tab[t].loading /\ CourtsBound /\ KeysBound
  /\ tab' = [tab EXCEPT ![t].loading = TRUE]
  /\ Send(t, Request("CLUB_SETUP"))
  /\ UNCHANGED <<hub, toTab>>

AskClear(t) ==
  /\ Dashboard(t) /\ tab[t].sessions # <<>> /\ ~tab[t].asking
  /\ tab' = [tab EXCEPT ![t].asking = TRUE]
  /\ Send(t, Request("CLUB_CLEAR_HISTORY"))
  /\ UNCHANGED <<hub, toTab>>

ConfirmClear(t) ==
  /\ Dashboard(t) /\ tab[t].asking
  /\ tab' = [tab EXCEPT ![t].asking = FALSE]
  /\ Send(t, Request("CLUB_CLEAR_HISTORY_CONFIRM"))
  /\ UNCHANGED <<hub, toTab>>

\* The user cancels, or thirty seconds have passed.
AskingEnds(t) ==
  /\ tab[t].asking
  /\ tab' = [tab EXCEPT ![t].asking = FALSE]
  /\ UNCHANGED <<hub, toHub, toTab, acts>>

RevealPhone(t, id) ==
  /\ Dashboard(t) /\ id \in Table(t)
  /\ tab' = [tab EXCEPT ![t].wanted = id]
  /\ Send(t, [Request("CLUB_REVEAL_PHONE") EXCEPT !.record = id])
  /\ UNCHANGED <<hub, toTab>>

ClosePhone(t) ==
  /\ tab[t].revealed # NoReveal
  /\ tab' = [tab EXCEPT ![t].revealed = NoReveal]
  /\ UNCHANGED <<hub, toHub, toTab, acts>>

\* emitAction: the buttons of the inventory wait for what the last one brings.
Emit(t, m) ==
  /\ Dashboard(t) /\ ~tab[t].loading
  /\ tab' = [tab EXCEPT ![t].loading = TRUE]
  /\ Send(t, m)
  /\ UNCHANGED <<hub, toTab>>

AddCourt(t) == CourtsBound /\ Emit(t, Request("INVENTORY_ADD"))

\* A row of the inventory the page shows.
RowsAt(t) == {tab[t].catalog[i] : i \in DOMAIN tab[t].catalog}
Shown(t) == {r \in RowsAt(t) : r.status # "ARCHIVED"}

ToggleMaintenance(t, row) ==
  Emit(t, [Request("INVENTORY_MAINTENANCE") EXCEPT !.court = row.id, !.on = row.status # "MAINTENANCE"])

OnRow(t, row, type) == Emit(t, [Request(type) EXCEPT !.court = row.id])

\* Archiving a court and ending its session are done from a dialog that asks first.
Confirmed(t, row) == \E type \in {"INVENTORY_ARCHIVE", "INVENTORY_FORCE_END"} : OnRow(t, row, type)

\* What the buttons of a row come to.
Buttons(t, row) ==
  \/ ToggleMaintenance(t, row)
  \/ RecordsBound /\ OnRow(t, row, "CLUB_ADMIN_OCCUPY")
  \/ OnRow(t, row, "CLUB_RESET_COURT")
  \/ Confirmed(t, row)

\* To the login page.  A page that waits for an answer stays.
Leave(t) ==
  /\ Act /\ tab[t].page = "admin" /\ ~tab[t].verifying
  /\ tab' = [tab EXCEPT ![t] = Mounted(@, "away")]
  /\ UNCHANGED <<hub, toHub, toTab>>

Asks(t) == IF tab[t].up THEN Send(t, Request("GET")) ELSE UNCHANGED toHub

Open(t) ==
  /\ Act /\ tab[t].page = "away"
  /\ tab' = [tab EXCEPT ![t] = Mounted(@, "admin")]
  /\ Asks(t)
  /\ UNCHANGED <<hub, toTab>>

\* verifyAdminPin and resetSetup give up after five seconds.
Timeout(t) ==
  /\ tab[t].verifying \/ tab[t].resetting
  /\ tab' = [tab EXCEPT ![t].verifying = FALSE, ![t].resetting = FALSE]
  /\ UNCHANGED <<hub, toHub, toTab, acts>>
------------------------------------------------------------------------------
(* Connections.                                                             *)

Disconnected(t) == [t EXCEPT !.isAdmin = FALSE, !.verifying = FALSE]

\* The connection of t is lost, with what is under way on it; t is then as next.
Lose(t, next) ==
  /\ role' = role \ {t}
  /\ pending' = pending \ {t}
  /\ toHub' = [toHub EXCEPT ![t] = <<>>]
  /\ toTab' = [toTab EXCEPT ![t] = <<>>]
  /\ tab' = [tab EXCEPT ![t] = [next EXCEPT !.up = FALSE]]
  /\ UNCHANGED <<config, inventory, runtime, busy, history, audit, failed, drawn>>

Drop(t) == Act /\ tab[t].up /\ Lose(t, Disconnected(tab[t]))

\* /club/admin is loaded, the socket created with the token there is.
Reload(t) == Act /\ Lose(t, [Mounted(tab[t], "loading") EXCEPT !.shake = tab[t].token])

\* The middleware gives the role to a socket with a token.  A page already there
\* asks; one that is not yet misses what the connection brings.
Connect(t) ==
  /\ ~tab[t].up
  /\ tab' = [tab EXCEPT ![t].up = TRUE]
  /\ role' = IF tab[t].shake THEN role \cup {t} ELSE role
  /\ toTab' = [toTab EXCEPT ![t] = <<Inventory(inventory)>> \o
                 IF tab[t].shake THEN <<Event("CLUB_SESSION_RESTORED"), History(history)>> ELSE <<>>]
  /\ IF tab[t].page = "admin" THEN Send(t, Request("GET")) ELSE UNCHANGED toHub
  /\ UNCHANGED <<config, inventory, runtime, busy, history, audit, failed, pending, drawn, acts>>

PageLoads(t) ==
  /\ tab[t].page = "loading"
  /\ tab' = [tab EXCEPT ![t].page = "admin"]
  /\ Asks(t)
  /\ UNCHANGED <<hub, toTab, acts>>

AdminHears(t, m) ==
  CASE m.type = "CLUB_SESSION_RESTORED" -> [t EXCEPT !.isAdmin = TRUE]
    [] m.type = "CLUB_ADMIN_VERIFIED" /\ t.verifying ->
         [t EXCEPT !.verifying = FALSE, !.isAdmin = TRUE, !.token = TRUE]
    [] m.type = "ERROR" -> [t EXCEPT !.verifying = FALSE, !.resetting = FALSE]
    [] m.type = "CLUB_SETUP_RESET" /\ t.resetting -> Mounted(t, "setup")
    [] OTHER -> t

HistoryHears(t, m) ==
  CASE m.type = "CLUB_SESSION_HISTORY" -> [t EXCEPT !.sessions = m.sessions]
    [] m.type = "CLUB_REVEAL_PHONE_RESULT" /\ t.wanted # 0 ->
         [t EXCEPT !.wanted = 0,
                   !.revealed = IF m.ok THEN [session |-> t.wanted, phone |-> m.phone] ELSE @]
    [] OTHER -> t

InventoryHears(t, m) ==
  CASE m.type = "INVENTORY_UPDATED" -> [t EXCEPT !.catalog = m.catalog, !.loading = FALSE]
    [] m.type \in {"CLUB_KIOSK_DATA", "ERROR"} -> [t EXCEPT !.loading = FALSE]
    [] OTHER -> t

\* The three hooks of the dashboard each hear what concerns them.
HeardOnAdmin(t, m) == InventoryHears(HistoryHears(AdminHears(t, m), m), m)

\* The wizard hears how its setup went; its last page leads to /club/admin by Reload.
HeardOnSetup(t, m) ==
  IF m.type \in {"CLUB_SETUP_COMPLETE", "ERROR"} THEN [t EXCEPT !.loading = FALSE] ELSE t

Receive(t) ==
  /\ toTab[t] # <<>>
  /\ toTab' = [toTab EXCEPT ![t] = Tail(@)]
  /\ tab' = [tab EXCEPT ![t] =
       CASE @.page = "admin" -> HeardOnAdmin(@, Head(toTab[t]))
         [] @.page = "setup" -> HeardOnSetup(@, Head(toTab[t]))
         [] OTHER -> @]
  /\ UNCHANGED <<hub, toHub, acts>>
------------------------------------------------------------------------------
AdminNext ==
  \/ \E c \in CourtIds : PlayerJoins(c)
  \/ \E s \in busy : PlayerEnds(s)
  \/ \E t \in Tabs :
       \/ \E good \in BOOLEAN : TypePin(t, good)
       \/ AskReset(t) \/ SubmitSetup(t) \/ AskClear(t) \/ ConfirmClear(t) \/ AskingEnds(t)
       \/ \E id \in 1 .. MaxRecords : RevealPhone(t, id)
       \/ ClosePhone(t) \/ AddCourt(t) \/ Leave(t) \/ Open(t) \/ Timeout(t)
       \/ \E row \in Shown(t) : Buttons(t, row)
       \/ Drop(t) \/ Reload(t) \/ Connect(t) \/ PageLoads(t) \/ PendingExpires(t)
       \/ Serve(t) \/ Receive(t)

AdminSpec == AdminInit /\ [][AdminNext]_adminVars

(* The event loops of hub and tabs run and a page that loads gets there: as   *)
(* long as some of that is due, some of it happens, and only finitely much    *)
(* of it follows each act.  Users need not act, timers need not run out and a *)
(* tab may stay without a connection.                                         *)
Due == \E t \in Tabs : Serve(t) \/ Receive(t) \/ PageLoads(t)

AdminFairSpec == AdminSpec /\ WF_adminVars(Due)
------------------------------------------------------------------------------
Settled(t) == tab[t].up /\ tab[t].page = "admin" /\ toHub[t] = <<>> /\ toTab[t] = <<>>

(* An administrator's page that has nothing to wait for shows the courts and  *)
(* the session records there are: after changes, clears and ends of sessions  *)
(* asked for elsewhere, a PIN, a reload or a lost connection.  Only a clear   *)
(* that could not be written leaves more than it shows.  And the dashboard is *)
(* there only with the role on the page's present connection.                 *)
DashboardIsCurrent ==
  \A t \in Tabs :
    /\ Settled(t) => tab[t].catalog = inventory
    /\ Settled(t) /\ tab[t].isAdmin /\ "history" \notin failed => tab[t].sessions = history
    /\ tab[t].isAdmin => t \in role

PhonesAt(t) ==
  {tab[t].revealed.phone} \cup {toTab[t][i].phone : i \in DOMAIN toTab[t]}

(* A phone that is shown, or on its way, was put on record first, even if the *)
(* session's own record has been cleared since; a failed write excepted.      *)
RevealsAreLogged ==
  "audit" \notin failed =>
    \A t \in Tabs : \A p \in PhonesAt(t) \ {0} : [tab |-> t, record |-> p] \in audit

ButtonsGone(t) == tab[t].up /\ tab[t].page = "admin" /\ tab[t].loading

(* The buttons of a dashboard that is connected come back, whatever became of *)
(* the request that took them, a connection lost in between included.         *)
ButtonsComeBack == \A t \in Tabs : ButtonsGone(t) ~> ~ButtonsGone(t)

==============================================================================
