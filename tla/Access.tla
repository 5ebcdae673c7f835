-------------------------------- MODULE Access --------------------------------
(***************************************************************************)
(* Who may referee a tournament court, and who may run the tournament: the *)
(* hub's AuthHandler, AdminHandler and connection lifecycle on one side,   *)
(* the browser's AuthContext, SocketProvider, dashboards and scoreboard on *)
(* the other, and the connection between them, which drops, comes back     *)
(* under a new socket id, and is noticed by the two ends at different      *)
(* moments.                                                                *)
(*                                                                         *)
(* One court; a device is one browser tab at one address.  PINs are        *)
(* numbered in the order they are issued, 0 is "no PIN".  Time is not      *)
(* counted: a timer may fire at any moment, and an attempt may leave the   *)
(* limiter's window at any moment.                                         *)
(***************************************************************************)
EXTENDS Naturals, Sequences, FiniteSets, SequencesExt

CONSTANTS
  Owners,       \* devices of the tournament's owner
  Referees,     \* devices of the referees
  Entries,      \* what the owner types as owner PIN: right (TRUE) or not
  MaxPin,       \* bound: PINs issued
  MaxConns,     \* bound: connections of a device
  MaxActs,      \* bound: acts of the users and mishaps, all together
  MaxQueue      \* bound: client events under way when a user sends another

ASSUME AccessAssumption ==
  /\ Owners \cap Referees = {}
  /\ Entries \subseteq BOOLEAN
  /\ {MaxPin, MaxConns, MaxActs, MaxQueue} \subseteq Nat \ {0}

Devices == Owners \cup Referees
Pins == 1 .. MaxPin

VARIABLES
  court,     \* the runtime court: its PIN (0: not materialised), status, referee entries
  live,      \* the connections the hub holds open, by device
  owner,     \* those with socket.data.isOwner
  tab,       \* what the browser tab holds
  toHub,     \* client events under way
  toTab,     \* server events under way
  acts       \* acts of the users and mishaps so far

vars == <<court, live, owner, tab, toHub, toTab, acts>>

MaybePin == 0 .. MaxPin
MaybeConn == 0 .. MaxConns
Roles == {"none", "owner", "referee"}
Pages == {"auth", "dashboard", "scoreboard", "revoked", "spectator"}

Tab == [conn: MaybeConn, up: BOOLEAN, role: Roles, page: Pages,
        ownerPin: BOOLEAN, courtPin: MaybePin,          \* AuthContext, in memory
        token: BOOLEAN,                                 \* sessionStorage
        handshake: BOOLEAN,                             \* the token the socket was made with
        pending: MaybePin,                              \* submitPin awaits its answer
        saved: MaybePin, restored: BOOLEAN,             \* the stored referee session
        list: BOOLEAN, shown: MaybePin]                 \* courts of useSocketState

\* An entry of players: the socket, and the PIN it proved.
Connection == [dev: Devices, conn: 1 .. MaxConns, proof: MaybePin]

HubMsg == [type: {"VERIFY_OWNER", "SET_REF", "REGENERATE_PIN", "GENERATE_COURT_PIN",
                  "GET_COURTS_WITH_PINS", "LIST_COURTS"},
           conn: 1 .. MaxConns + 1, pin: MaybePin, right: BOOLEAN]
TabMsg == [type: {"OWNER_VERIFIED", "REF_SET", "ERROR", "REF_REVOKED", "PIN_REGENERATED",
                  "COURT_LIST_WITH_PINS", "COURT_LIST"},
           pin: MaybePin]

TypeOK ==
  /\ court \in [pin: MaybePin, issued: MaybePin, players: SUBSET Connection]
  /\ live \in [Devices -> SUBSET (1 .. MaxConns)]
  /\ owner \in [Devices -> SUBSET (1 .. MaxConns)]
  /\ \A d \in Devices : owner[d] \subseteq live[d]
  /\ tab \in [Devices -> Tab]
  /\ toHub \in [Devices -> Seq(HubMsg)] /\ toTab \in [Devices -> Seq(TabMsg)]

FreshTab ==
  [conn |-> 0, up |-> FALSE, role |-> "none", page |-> "auth", ownerPin |-> FALSE,
   courtPin |-> 0, token |-> FALSE, handshake |-> FALSE, pending |-> 0, saved |-> 0,
   restored |-> FALSE, list |-> FALSE, shown |-> 0]

\* The tabs have been opened and their users logged in: the owner by PIN, the
\* referees without one.  The court has no PIN yet, or a referee who got it by its
\* first one.
Init ==
  \E busy \in {{}} \cup {{d} : d \in Referees} :
  LET pin == Cardinality(busy) IN
  /\ court = [pin |-> pin, issued |-> pin,
              players |-> {[dev |-> d, conn |-> 1, proof |-> pin] : d \in busy}]
  /\ live = [d \in Devices |-> {1}]
  /\ owner = [d \in Devices |-> IF d \in Owners THEN {1} ELSE {}]
  /\ tab = [d \in Devices |->
       [FreshTab EXCEPT !.conn = 1, !.up = TRUE, !.list = TRUE,
          !.role = IF d \in Owners THEN "owner" ELSE "referee", !.ownerPin = d \in Owners,
          !.token = d \in Owners,
          !.page = IF d \in busy THEN "scoreboard" ELSE "dashboard",
          !.courtPin = IF d \in busy THEN pin ELSE 0,
          !.saved = IF d \in busy THEN pin ELSE 0]]
  /\ toHub = [d \in Devices |-> <<>>]
  /\ toTab = [d \in Devices |-> <<>>]
  /\ acts = 0
------------------------------------------------------------------------------
(* Messages.                                                                *)

\* Events wait in socket.io's buffer for the next connection while there is none.
HubEvent(d, type, pin, right) ==
  [type |-> type, pin |-> pin, right |-> right,
   conn |-> IF tab[d].up THEN tab[d].conn ELSE tab[d].conn + 1]

\* A request that repeats one under way gets the same answer, and is left out.
AddIf(sent, q, e) == IF sent /\ e \notin Range(q) THEN Append(q, e) ELSE q

Emit(d, e) == toHub' = [toHub EXCEPT ![d] = AddIf(TRUE, @, e)]

\* Which error it is, no listener of these pages asks.
TabEvent(type, pin) == [type |-> type, pin |-> pin]
Error == TabEvent("ERROR", 0)
CourtList == TabEvent("COURT_LIST", 0)

Connected(d, c) == tab[d].up /\ tab[d].conn = c /\ c \in live[d]

\* An answer that repeats the last one under way changes nothing.
Append1(q, m) == IF q # <<>> /\ q[Len(q)] = m THEN q ELSE Append(q, m)

\* The list, to everybody.
Broadcast ==
  [e \in Devices |-> IF Connected(e, tab[e].conn) THEN Append1(toTab[e], CourtList) ELSE toTab[e]]

\* The answer to connection c of d, behind what the queues already have.
Answer(d, c, queues, m) ==
  toTab' = IF Connected(d, c) THEN [queues EXCEPT ![d] = Append1(@, m)] ELSE queues
------------------------------------------------------------------------------
(* The hub: one action per event it serves.                                 *)

\* A user does something, or something goes wrong.
Act == acts < MaxActs /\ acts' = acts + 1

\* isRateLimited counts every attempt of the address, accepted ones too: an event
\* may find the five of this minute used up.
IsRateLimited == BOOLEAN

OnVerifyOwner(d, m) ==
  /\ m.type = "VERIFY_OWNER"
  /\ \E limited \in IsRateLimited :
     \/ /\ ~limited /\ m.right
        /\ owner' = [owner EXCEPT ![d] = @ \cup {m.conn}]
        /\ Answer(d, m.conn, toTab, TabEvent("OWNER_VERIFIED", 0))
     \/ /\ limited \/ ~m.right
        /\ Answer(d, m.conn, toTab, Error)
        /\ UNCHANGED owner
  /\ UNCHANGED court

\* validatePin, on a court that has one.
ValidatesPin(p) == court.pin # 0 /\ p = court.pin

\* PlayerService.setReferee: the referee in office is dropped without a word.
SetReferee(d, c, p) ==
  {r \in court.players : r.dev = d /\ r.conn = c} \cup {[dev |-> d, conn |-> c, proof |-> p]}

OnSetRef(d, m) ==
  /\ m.type = "SET_REF"
  /\ \E limited \in IsRateLimited :
     \/ /\ ~limited /\ ValidatesPin(m.pin)
        /\ court' = [court EXCEPT !.players = SetReferee(d, m.conn, m.pin)]
        /\ Answer(d, m.conn, Broadcast, TabEvent("REF_SET", 0))
     \/ /\ limited \/ ~ValidatesPin(m.pin)
        /\ Answer(d, m.conn, toTab, Error)
        /\ UNCHANGED court
  /\ UNCHANGED owner

\* Mutant: the revocation goes to the referee of the court as already reset.
RevokedByResetCourt == {}

\* The referee read before the court is reset, if its socket is still there.
Revoked == {r \in court.players : Connected(r.dev, r.conn)}

\* Mutant: the new PIN leaves the court's entries alone.
ResetPinOnly == [court EXCEPT !.pin = court.issued + 1, !.issued = @ + 1]

\* CourtManager.regeneratePin: a new PIN, nobody on the court, a new match.
RegeneratePin ==
  [court EXCEPT !.pin = court.issued + 1, !.issued = @ + 1, !.players = {}]

\* An owner socket, the owner PIN in the request, or the court's own one in it.
MayRegenerate(d, m) == m.conn \in owner[d] \/ m.right \/ m.pin = court.pin

\* The new PIN, and a QR code of it, go to the socket that asked.
OnRegeneratePin(d, m) ==
  /\ m.type = "REGENERATE_PIN"
  /\ \/ /\ court.pin # 0 /\ MayRegenerate(d, m)
        /\ court.issued < MaxPin
        /\ court' = RegeneratePin
        /\ LET told == [e \in Devices |->
                         IF \E r \in Revoked : r.dev = e
                         THEN Append(toTab[e], TabEvent("REF_REVOKED", 0)) ELSE toTab[e]]
           IN  toTab' = IF Connected(d, m.conn)
                        THEN [told EXCEPT ![d] = Append(@, TabEvent("PIN_REGENERATED",
                                                                    court.issued + 1))]
                        ELSE told
     \/ /\ court.pin = 0 \/ ~MayRegenerate(d, m)
        /\ Answer(d, m.conn, toTab, Error)
        /\ UNCHANGED court
  /\ UNCHANGED owner

\* generateRefereePin: the court is materialised, with a PIN, when it is not.
OnGenerateCourtPin(d, m) ==
  /\ m.type = "GENERATE_COURT_PIN"
  /\ \/ /\ m.conn \in owner[d]
        /\ court' = IF court.pin = 0
                    THEN [court EXCEPT !.pin = court.issued + 1, !.issued = @ + 1] ELSE court
        /\ Answer(d, m.conn, Broadcast, TabEvent("PIN_REGENERATED", court'.pin))
     \/ /\ m.conn \notin owner[d]
        /\ Answer(d, m.conn, toTab, Error)
        /\ UNCHANGED court
  /\ UNCHANGED owner

\* An owner socket, or the owner PIN in the request.
OnGetCourtsWithPins(d, m) ==
  /\ m.type = "GET_COURTS_WITH_PINS"
  /\ Answer(d, m.conn, toTab,
       IF m.conn \in owner[d] \/ m.right
       THEN TabEvent("COURT_LIST_WITH_PINS", court.pin)
       ELSE Error)
  /\ UNCHANGED <<court, owner>>

OnListCourts(d, m) ==
  /\ m.type = "LIST_COURTS"
  /\ Answer(d, m.conn, toTab, CourtList)
  /\ UNCHANGED <<court, owner>>

Serve(d) ==
  /\ toHub[d] # <<>> /\ Head(toHub[d]).conn \in live[d]
  /\ toHub' = [toHub EXCEPT ![d] = Tail(@)]
  /\ LET m == Head(toHub[d])
     IN  \/ OnVerifyOwner(d, m)    \/ OnSetRef(d, m)     \/ OnRegeneratePin(d, m)
         \/ OnGenerateCourtPin(d, m) \/ OnGetCourtsWithPins(d, m) \/ OnListCourts(d, m)
  /\ UNCHANGED <<live, tab, acts>>

\* Mutant: whoever is on the court leaves with the socket that closed.
StayingNobody(d, c) == {}

\* The disconnect handler: the closed socket's entry leaves the court. What the
\* connection delivered before has been served by then, the rest is lost.
Staying(d, c) == {r \in court.players : r.dev # d \/ r.conn # c}

ServerDisconnect(d, c) ==
  /\ c \in live[d] /\ ~(tab[d].up /\ tab[d].conn = c)
  /\ \A i \in DOMAIN toHub[d] : toHub[d][i].conn # c
  /\ live' = [live EXCEPT ![d] = @ \ {c}]
  /\ owner' = [owner EXCEPT ![d] = @ \ {c}]
  /\ court' = [court EXCEPT !.players = Staying(d, c)]
  /\ toTab' = IF Staying(d, c) # court.players THEN Broadcast ELSE toTab
  /\ UNCHANGED <<tab, toHub, acts>>
------------------------------------------------------------------------------
(* The browser.                                                             *)

\* authStorage.clear() and the AuthContext state; the stored referee session,
\* the courts and the socket's handshake token stay.
LoggedOut(t) ==
  [t EXCEPT !.role = "none", !.ownerPin = FALSE, !.courtPin = 0, !.token = FALSE,
            !.page = "auth", !.pending = 0]

\* What the middleware may make of the token of the handshake: it restores the
\* owner, unless the token has expired, or the secret is another.
Verified(t) == {accepted \in BOOLEAN : accepted => t.handshake}

ApplySessionClaims(d, c, accepted) ==
  IF accepted THEN [owner EXCEPT ![d] = @ \cup {c}] ELSE owner

\* What the tab sends as soon as it is connected.
Greetings(d) ==
  LET t == tab[d]
      verified == AddIf(t.role = "owner" /\ t.ownerPin, toHub[d],
                        HubEvent(d, "VERIFY_OWNER", 0, TRUE))
      asked == AddIf(t.role = "owner" /\ t.page = "dashboard", verified,
                     HubEvent(d, "GET_COURTS_WITH_PINS", 0, t.ownerPin))
  IN  AddIf(t.page = "scoreboard" /\ t.courtPin # 0, asked,
            HubEvent(d, "SET_REF", t.courtPin, TRUE))

\* socket.io connects, the hub pushes the list, the client asks for it once more.
Connect(d) ==
  LET c == tab[d].conn + 1 IN
  /\ ~tab[d].up /\ c <= MaxConns
  /\ \A i \in DOMAIN toHub[d] : toHub[d][i].conn = c
  /\ tab' = [tab EXCEPT ![d].conn = c, ![d].up = TRUE]
  /\ live' = [live EXCEPT ![d] = @ \cup {c}]
  /\ \E accepted \in Verified(tab[d]) : owner' = ApplySessionClaims(d, c, accepted)
  /\ toTab' = [toTab EXCEPT ![d] = <<CourtList>>]
  /\ toHub' = [toHub EXCEPT ![d] = Greetings(d)]
  /\ UNCHANGED <<court, acts>>

\* The connection is gone for the client: what was under way to it is lost, and
\* SocketProvider logs a logged-in user out.
Drop(d) ==
  /\ Act
  /\ tab[d].up
  /\ tab' = [tab EXCEPT ![d] = [(IF @.role = "none" THEN @ ELSE LoggedOut(@))
                                EXCEPT !.up = FALSE, !.pending = 0]]
  /\ toTab' = [toTab EXCEPT ![d] = <<>>]
  /\ UNCHANGED <<court, live, owner, toHub>>

\* What a lost connection had not delivered never arrives.
LoseInFlight(d) ==
  /\ toHub[d] # <<>> /\ ~tab[d].up /\ Head(toHub[d]).conn <= tab[d].conn
  /\ toHub' = [toHub EXCEPT ![d] = Tail(@)]
  /\ UNCHANGED <<court, live, owner, tab, toTab, acts>>

\* The page is loaded again: memory is lost, with the events that wait for a
\* connection; the stored role comes back, the scoreboard takes the PIN of the
\* stored session.
Reload(d) ==
  LET t == tab[d]
      page == IF t.page = "revoked" THEN "scoreboard" ELSE t.page
  IN
  /\ Act /\ t.role # "none"
  /\ tab' = [tab EXCEPT ![d] =
       [FreshTab EXCEPT !.conn = t.conn, !.role = t.role, !.page = page,
          !.token = t.token, !.handshake = t.token,
          !.courtPin = IF page = "scoreboard" THEN t.saved ELSE 0,
          !.saved = t.saved, !.restored = t.restored]]
  /\ toTab' = [toTab EXCEPT ![d] = <<>>]
  /\ \E sent \in 0 .. Len(toHub[d]) :
       /\ \A i \in DOMAIN toHub[d] : i <= sent <=> toHub[d][i].conn <= t.conn
       /\ toHub' = [toHub EXCEPT ![d] = SubSeq(@, 1, sent)]
  /\ UNCHANGED <<court, live, owner>>

Unchanged == UNCHANGED <<court, live, owner, toTab>>

\* AuthContext.login.
Login(t, role) == [t EXCEPT !.role = role, !.page = "dashboard"]

\* AuthContext.setOwner and setSessionToken, with what useAuthFlow sets.
SetOwner(t) == [Login(t, "owner") EXCEPT !.ownerPin = TRUE, !.token = TRUE]

\* AuthPage: the referee needs no PIN to reach the dashboard.
LoginReferee(d) ==
  /\ Act /\ Len(toHub[d]) < MaxQueue
  /\ d \in Referees /\ tab[d].page = "auth"
  /\ tab' = [tab EXCEPT ![d] = Login(@, "referee")]
  /\ IF tab[d].up THEN Emit(d, HubEvent(d, "LIST_COURTS", 0, TRUE)) ELSE UNCHANGED toHub
  /\ Unchanged

\* AuthPage, useAuthFlow.submitPin.
SubmitOwnerPin(d, right) ==
  /\ Act /\ Len(toHub[d]) < MaxQueue
  /\ d \in Owners /\ tab[d].page = "auth" /\ tab[d].up
  /\ Emit(d, HubEvent(d, "VERIFY_OWNER", 0, right))
  /\ UNCHANGED tab /\ Unchanged

\* The dashboard's PIN modal, usePinSubmission.submitPin.  Of the wrong PINs the
\* former ones are the ones that matter.
SubmitCourtPin(d, p) ==
  /\ Act /\ Len(toHub[d]) < MaxQueue
  /\ tab[d].page = "dashboard" /\ tab[d].list /\ tab[d].pending = 0
  /\ p <= court.issued
  /\ tab' = [tab EXCEPT ![d].courtPin = p, ![d].pending = p]
  /\ Emit(d, HubEvent(d, "SET_REF", p, TRUE))
  /\ Unchanged

\* Five seconds without an answer.
PinTimeout(d) ==
  /\ tab[d].pending # 0
  /\ tab' = [tab EXCEPT ![d].pending = 0]
  /\ UNCHANGED <<toHub, acts>> /\ Unchanged

\* "Limpiar cancha" and "Generar PIN" on the owner's dashboard, which puts no PIN
\* into either request.
OwnerAsks(d, type) ==
  /\ Act /\ Len(toHub[d]) < MaxQueue
  /\ tab[d].role = "owner" /\ tab[d].page = "dashboard" /\ tab[d].up
  /\ type \in {"REGENERATE_PIN", "GENERATE_COURT_PIN"}
  /\ Emit(d, HubEvent(d, type, 0, FALSE))
  /\ UNCHANGED tab /\ Unchanged

\* Back to the dashboard, or from the spectators' list to the login page: the hub
\* is not told, a referee stays one.
Back(d) ==
  /\ Act
  /\ tab[d].page \in {"scoreboard", "spectator"}
  /\ tab' = [tab EXCEPT ![d].page = IF @ = "scoreboard" THEN "dashboard" ELSE "auth"]
  /\ UNCHANGED toHub /\ Unchanged

\* handleLogout of a dashboard; the socket stays connected.
Logout(d) ==
  /\ Act
  /\ tab[d].page = "dashboard"
  /\ tab' = [tab EXCEPT ![d] = [LoggedOut(@) EXCEPT !.restored = FALSE]]
  /\ UNCHANGED toHub /\ Unchanged

\* useRefRevoked: the page of the revoked referee turns to the spectators' list.
RevokedTimer(d) ==
  /\ tab[d].page = "revoked"
  /\ tab' = [tab EXCEPT ![d].page = "spectator"]
  /\ UNCHANGED <<toHub, acts>> /\ Unchanged

\* SocketProvider's effect depends on the whole socket context, which is a new
\* object whenever the list of courts changes hands.
VerifyAgain(t, m) ==
  /\ t.role = "owner" /\ t.ownerPin
  /\ m.type \in {"COURT_LIST", "COURT_LIST_WITH_PINS", "PIN_REGENERATED"}

\* Mutant: a list leaves the PINs on the cards.
ShownKept(t, m) == IF m.type \in {"COURT_LIST_WITH_PINS", "PIN_REGENERATED"} /\ t.shown = 0
                   THEN m.pin ELSE t.shown

\* COURT_LIST replaces the courts, the other two lay the PIN on them.
Shown(t, m) ==
  CASE m.type = "COURT_LIST" -> 0
    [] m.type \in {"COURT_LIST_WITH_PINS", "PIN_REGENERATED"} -> m.pin
    [] OTHER -> t.shown

\* The courts as the tab has them after m.
Listed(t, m) ==
  [t EXCEPT !.list = @ \/ m.type \in {"COURT_LIST", "COURT_LIST_WITH_PINS"},
            !.shown = Shown(t, m)]

\* The court is in no finished match here, whose session would be dropped.
FindAnyValidSession(t) == t.list /\ t.saved # 0

\* A dashboard's effect on the courts: a stored session is taken up once.
Dashboard(t) ==
  IF t.page = "dashboard" /\ FindAnyValidSession(t) /\ ~t.restored
  THEN [t EXCEPT !.restored = TRUE, !.courtPin = t.saved, !.page = "scoreboard", !.pending = 0]
  ELSE t

\* useRefereeSession: the PIN is kept in localStorage, past a reload.
SaveSession(t, pin) == [t EXCEPT !.saved = pin]

\* What the listeners of the tab do with m.
Heard(t, m) ==
  CASE m.type = "OWNER_VERIFIED" /\ t.page = "auth" ->
         SetOwner(t)
    [] m.type = "REF_SET" /\ t.pending # 0 ->
         [SaveSession(t, t.pending) EXCEPT !.pending = 0, !.page = "scoreboard"]
    [] m.type = "ERROR" -> [t EXCEPT !.pending = 0]
    [] m.type = "REF_REVOKED" /\ t.page = "scoreboard" -> [t EXCEPT !.page = "revoked"]
    [] OTHER -> t

\* What the effects of the new page and the new context send.
Replies(d, t, n, m) ==
  LET verified == AddIf(VerifyAgain(n, m) \/ (n.role = "owner" /\ t.role # "owner"), toHub[d],
                        HubEvent(d, "VERIFY_OWNER", 0, TRUE))
      proved == AddIf(n.page = "scoreboard" /\ t.page # "scoreboard", verified,
                      HubEvent(d, "SET_REF", n.courtPin, TRUE))
  IN  AddIf(/\ n.role = "owner" /\ n.page = "dashboard"
            /\ t.page # "dashboard" \/ m.type = "PIN_REGENERATED",
            proved, HubEvent(d, "GET_COURTS_WITH_PINS", 0, n.ownerPin))

Receive(d) ==
  /\ toTab[d] # <<>>
  /\ toTab' = [toTab EXCEPT ![d] = Tail(@)]
  /\ LET m == Head(toTab[d])
         t == tab[d]
         n == Dashboard(Heard(Listed(t, m), m))
     IN  tab' = [tab EXCEPT ![d] = n] /\ toHub' = [toHub EXCEPT ![d] = Replies(d, t, n, m)]
  /\ UNCHANGED <<court, live, owner, acts>>
------------------------------------------------------------------------------
Next ==
  \E d \in Devices :
    \/ Connect(d) \/ Drop(d) \/ LoseInFlight(d) \/ Reload(d)
    \/ Serve(d) \/ Receive(d)
    \/ \E c \in 1 .. MaxConns : ServerDisconnect(d, c)
    \/ LoginReferee(d) \/ Logout(d) \/ Back(d)
    \/ \E right \in Entries : SubmitOwnerPin(d, right)
    \/ \E p \in Pins : SubmitCourtPin(d, p)
    \/ \E type \in {"REGENERATE_PIN", "GENERATE_COURT_PIN"} : OwnerAsks(d, type)
    \/ PinTimeout(d) \/ RevokedTimer(d)

Spec == Init /\ [][Next]_vars

(* The event loops of hub and browser run, timers fire, and the hub notices  *)
(* a closed connection by its transport or its ping timeout: as long as      *)
(* something of that is due, something of it happens.  Only finitely much is *)
(* ever due, so nothing of it is put off for ever.                           *)
Due ==
  \E d \in Devices :
    \/ Serve(d) \/ Receive(d) \/ PinTimeout(d) \/ RevokedTimer(d)
    \/ \E c \in 1 .. MaxConns : ServerDisconnect(d, c)

Fairness == WF_vars(Due)

FairSpec == Spec /\ Fairness
------------------------------------------------------------------------------
(* A court has one referee at most, however many tabs send its PIN, and that  *)
(* one has proved the PIN the court has now: a new PIN ends every entry won   *)
(* with an older one, SET_REFs under way included.                            *)
RefereeProvedPin ==
  /\ Cardinality(court.players) <= 1
  /\ \A r \in court.players : r.proof = court.pin

(* The PIN on the card of the only owner's tab is the court's PIN, once no    *)
(* answer is under way that changes the card: an owner reads it out to a      *)
(* referee.  With a second owner's tab open it need not be: REGENERATE_PIN is *)
(* answered to the tab that asked, and the other one keeps the former PIN     *)
(* until its next list.                                                       *)
ShownPinIsCurrent ==
  \A d \in Owners :
    (Owners = {d} /\ tab[d].up /\ tab[d].shown # 0 /\ toTab[d] = <<>>)
      => tab[d].shown = court.pin

(* A referee loses the role by closing the connection, by a new PIN, or to    *)
(* one who has sent the PIN; never by the closing of another connection, such *)
(* as an earlier one of the same tab.                                         *)
RoleLostForAReason ==
  [][\A r \in court.players :
       r \notin court'.players =>
         \/ r.conn \notin live'[r.dev]
         \/ court'.pin # court.pin
         \/ \E q \in court'.players : q.proof = court.pin]_vars

OnScoreboard(d, p) == tab[d].up /\ tab[d].page = "scoreboard" /\ tab[d].courtPin = p
InOffice(d, p) == [dev |-> d, conn |-> tab[d].conn, proof |-> p] \in court.players

Ghosts == {r \in court.players : ~(tab[r.dev].up /\ tab[r.dev].conn = r.conn)}

(* The kill switch reaches the referee's hands: whatever drops, reloads and    *)
(* SET_REFs come between, the tab of the referee in office leaves the          *)
(* scoreboard, or is logged out, unless the PIN that it proved stays the       *)
(* court's for ever or it loses the office before there is a new PIN.  (The    *)
(* last PIN of the bound stays.)  Nothing is claimed of a referee whom another *)
(* has displaced with the same PIN: casos-de-uso.md:67 says that REF_REVOKED   *)
(* is sent for "PIN regenerated / displaced", but SET_REF sends the displaced  *)
(* one nothing (AuthHandler.ts:79-91), and its scoreboard stays.  And a       *)
(* referee whose tab is gone does not keep the court.                          *)
RefereesLeave ==
  /\ \A d \in Devices, p \in 1 .. MaxPin - 1 :
       (OnScoreboard(d, p) /\ InOffice(d, p))
         ~> (\/ [](court.pin = p)
             \/ court.pin = p /\ ~InOffice(d, p)
             \/ ~OnScoreboard(d, p))
  /\ Ghosts # {} ~> Ghosts = {}
==============================================================================
