------------------------------- MODULE ClubPlay -------------------------------
(***************************************************************************)
(* A club court and the phones that play on it: the club contract behind   *)
(* CourtManager, the ClubPlayerHandler and the player's part of the        *)
(* MatchEventHandler on the hub; AuthPage, ClubPlayPage and its hook       *)
(* useClubPlay on the phones; and the socket between them.                 *)
(*                                                                         *)
(* The PIN of a session lets any phone in, at the same time or later; the  *)
(* last one in keeps the score.  The admin's requests are served as they   *)
(* are made.  PINs are numbered in the order they are drawn and are all    *)
(* different; 0 is "no PIN".  A match is told apart only by its status:    *)
(* the one point that matters is the one that ends it.                     *)
(***************************************************************************)
EXTENDS Naturals, Sequences, FiniteSets

CONSTANTS
  Phones,       \* the phones, one tab each; also the names their players give
  Nobody,       \* no name was given
  AdminGuest,   \* the name the admin types for a session started at the desk
  MaxPin,       \* bound: PINs drawn, hence sessions
  MaxConns,     \* bound: connections of a phone
  MaxActs,      \* bound: acts of the users and mishaps, all together
  MaxQueue      \* bound: requests under way when a user sends another

ASSUME ClubPlayAssumption ==
  /\ Nobody \notin Phones /\ AdminGuest \notin Phones \cup {Nobody}
  /\ {MaxPin, MaxConns, MaxActs, MaxQueue} \subseteq Nat \ {0}

Names == Phones \cup {Nobody, AdminGuest}
Pins == 1 .. MaxPin
Matches == {"none", "WAITING", "LIVE", "FINISHED"}
Modes == {"none", "free", "match"}

VARIABLES
  court,     \* the runtime court
  history,   \* the session records
  live,      \* the connections the hub holds open, by phone
  room,      \* those in the court's room
  tab,       \* what the phone holds
  toHub,     \* requests under way
  toTab,     \* answers and broadcasts under way
  acts       \* acts and mishaps so far

vars == <<court, history, live, room, tab, toHub, toTab, acts>>

\* session and given are kept for the properties only: the number of the session
\* that runs or ran last, and the names given for it.
Court == [status: {"AVAILABLE", "RESERVED", "OCCUPIED", "FINISHED"},
          pin: 0 .. MaxPin, issued: 0 .. MaxPin, mode: Modes, match: Matches,
          who: Names, admin: BOOLEAN, session: 0 .. MaxPin, given: SUBSET Names,
          players: SUBSET [dev: Phones, conn: 1 .. MaxConns, proof: Pins]]

Record == [session: Pins, who: Names, endedBy: {"player", "admin"}, admin: BOOLEAN,
           given: SUBSET Names]

Tab == [conn: 1 .. MaxConns, up: BOOLEAN, page: {"auth", "play"},
        pin: 0 .. MaxPin,                    \* sessionStorage
        waiting: 0 .. MaxConns,              \* AuthPage, clubLoading: since which connection
        match: Matches, loading: BOOLEAN, error: BOOLEAN, first: BOOLEAN,
        reconnecting: 0 .. MaxConns, replaced: BOOLEAN, ended: 0 .. MaxPin,
        mode: Modes, confirm: BOOLEAN,       \* useClubPlay
        ending: BOOLEAN, named: BOOLEAN]     \* ClubPlayPage

HubMsg == [type: {"JOIN", "RECONNECT", "GET_MATCH_STATE", "RECORD_POINT", "START_FREE",
                  "NEW_MATCH", "RESET_MATCH", "END_SESSION"},
           conn: 1 .. MaxConns, pin: 0 .. MaxPin, who: Names, confirm: BOOLEAN]
TabMsg == [type: {"JOIN_RESULT", "RECONNECT_RESULT", "MATCH_UPDATE", "MATCH_RESET",
                  "FREE_STARTED", "END_SESSION_CONFIRM", "SESSION_ENDED", "REF_REVOKED"},
           ok: BOOLEAN, match: Matches, mode: Modes, session: 0 .. MaxPin]

TypeOK ==
  /\ court \in Court /\ history \in Seq(Record)
  /\ live \in [Phones -> SUBSET (1 .. MaxConns)] /\ room \in [Phones -> SUBSET (1 .. MaxConns)]
  /\ tab \in [Phones -> Tab]
  /\ toHub \in [Phones -> Seq(HubMsg)] /\ toTab \in [Phones -> Seq(TabMsg)]
  /\ acts \in 0 .. MaxActs

\* A hook just mounted: useClubPlay's and ClubPlayPage's initial state.
Mounted(t) ==
  [t EXCEPT !.match = "none", !.loading = TRUE, !.error = FALSE, !.first = TRUE,
            !.reconnecting = 0, !.replaced = FALSE, !.ended = 0, !.mode = "none",
            !.confirm = FALSE, !.ending = FALSE, !.named = FALSE, !.waiting = 0]

FreshTab ==
  Mounted([conn |-> 1, up |-> TRUE, page |-> "auth", pin |-> 0, waiting |-> 0,
           match |-> "none", loading |-> TRUE, error |-> FALSE, first |-> TRUE,
           reconnecting |-> 0, replaced |-> FALSE, ended |-> 0, mode |-> "none",
           confirm |-> FALSE, ending |-> FALSE, named |-> FALSE])

ActiveCourt == [status |-> "RESERVED", pin |-> 1, issued |-> 1, mode |-> "none",
                match |-> "WAITING", who |-> Nobody, admin |-> FALSE, session |-> 0,
                given |-> {}, players |-> {}]

\* The admin has activated the court; and nobody has come yet, or one phone plays
\* in free mode, which its player chose under his name.
Init ==
  /\ \E playing \in {{}} \cup {{d} : d \in Phones} :
       /\ court = IF playing = {} THEN ActiveCourt
                  ELSE [ActiveCourt EXCEPT !.status = "OCCUPIED", !.mode = "free",
                          !.match = "LIVE", !.who = CHOOSE d \in playing : TRUE,
                          !.session = 1, !.given = playing,
                          !.players = [dev: playing, conn: {1}, proof: {1}]]
       /\ room = [d \in Phones |-> IF d \in playing THEN {1} ELSE {}]
       /\ tab = [d \in Phones |->
            IF d \in playing
            THEN [FreshTab EXCEPT !.page = "play", !.pin = 1, !.match = "LIVE",
                    !.loading = FALSE, !.first = FALSE, !.mode = "free"]
            ELSE FreshTab]
  /\ history = <<>>
  /\ live = [d \in Phones |-> {1}]
  /\ toHub = [d \in Phones |-> <<>>]
  /\ toTab = [d \in Phones |-> <<>>]
  /\ acts = 0
------------------------------------------------------------------------------
(* Messages.                                                                *)

Request(d, type) ==
  [type |-> type, conn |-> tab[d].conn, pin |-> tab[d].pin, who |-> Nobody, confirm |-> FALSE]

Event(type) ==
  [type |-> type, ok |-> TRUE, match |-> "none", mode |-> "none", session |-> 0]

Connected(d, c) == tab[d].up /\ tab[d].conn = c /\ c \in live[d]

\* m to every connection of R, R[d] being a set of d's connections.
Told(R, m) ==
  [d \in Phones |-> IF \E c \in R[d] : Connected(d, c) THEN Append(toTab[d], m) ELSE toTab[d]]

ToRoom(m) == toTab' = Told(room, m)

\* m to connection c of d, behind the messages queues holds.
Then(queues, d, c, m) == IF Connected(d, c) THEN [queues EXCEPT ![d] = Append(@, m)] ELSE queues

Reply(d, c, m) == toTab' = Then(toTab, d, c, m)

\* A user does something, or something goes wrong.
Act == acts < MaxActs /\ acts' = acts + 1
------------------------------------------------------------------------------
(* The court: CourtManager's club operations and the contract under them.   *)

Activate ==
  [court EXCEPT !.status = "RESERVED", !.pin = court.issued + 1, !.issued = @ + 1]

\* The default match is started at once; the mode is asked for later.
Occupy(c, mode, who, admin) ==
  [c EXCEPT !.status = "OCCUPIED", !.mode = mode, !.match = "LIVE", !.who = who,
            !.admin = admin, !.session = @ + 1,
            !.given = {who} \ {Nobody}]

\* Mutant: a request without a name wipes the name given before.
StartWipingName(mode, who) ==
  [court EXCEPT !.mode = mode, !.who = who, !.given = @ \cup ({who} \ {Nobody})]

\* ClubFlowContract.start: a name is taken over when one is sent.
Start(mode, who) ==
  [court EXCEPT !.mode = mode, !.who = IF who = Nobody THEN @ ELSE who,
                !.given = @ \cup ({who} \ {Nobody})]

MayEnd == court.status = "OCCUPIED"

\* findClubCourtByPin; a court in neither status has no PIN that opens it.
FoundBy(p) == p = court.pin /\ court.status \in {"RESERVED", "OCCUPIED"}

StartFreePlay(who) == Start("free", who)

StartMatch(who) == [Start("match", who) EXCEPT !.match = "LIVE"]

\* resetMatch: the same match from the start.
Rematch == [court EXCEPT !.match = "LIVE"]

\* The court when endedBy ends the session; the force-ender signs first.
Ended(endedBy) ==
  [court EXCEPT !.status = "FINISHED", !.pin = 0, !.admin = @ \/ endedBy = "admin"]

\* Mutant: only the phone that keeps the score hears of the end.
HearersOfReferee ==
  [d \in Phones |-> {p.conn : p \in {q \in court.players : q.dev = d}}]

\* Who hears that the session is over: the room.
Hearers == room

\* onClubSessionEnd: the end is broadcast, and recorded from the court as it is now.
End(endedBy) ==
  /\ MayEnd
  /\ court' = Ended(endedBy)
  /\ history' = Append(history,
       [session |-> court.session, who |-> court'.who, endedBy |-> endedBy,
        admin |-> court'.admin, given |-> court.given])
  /\ toTab' = Told(Hearers, [Event("SESSION_ENDED") EXCEPT !.session = court.session])

\* Mutant: the phones of the last session stay on the court.
ResetKeepingPlayers ==
  [court EXCEPT !.status = "AVAILABLE", !.pin = 0, !.who = Nobody, !.admin = FALSE,
                !.mode = "none", !.match = "WAITING", !.given = {}]

Reset ==
  [court EXCEPT !.status = "AVAILABLE", !.pin = 0, !.who = Nobody, !.admin = FALSE,
                !.mode = "none", !.match = "WAITING", !.given = {}, !.players = {}]
------------------------------------------------------------------------------
(* The admin.                                                               *)

CourtOnly == UNCHANGED <<history, live, room, tab, toHub, toTab>>

ActivateCourt ==
  /\ Act /\ court.status = "AVAILABLE" /\ court.issued < MaxPin
  /\ court' = Activate
  /\ CourtOnly

DeactivateCourt ==
  /\ Act /\ court.status = "RESERVED"
  /\ court' = [court EXCEPT !.status = "AVAILABLE", !.pin = 0]
  /\ CourtOnly

\* A court still AVAILABLE is activated on the way.
AdminOccupy(mode) ==
  /\ Act
  /\ \/ court.status = "AVAILABLE" /\ court.issued < MaxPin
     \/ court.status = "RESERVED"
  /\ court' = Occupy(IF court.status = "AVAILABLE" THEN Activate ELSE court,
                     mode, AdminGuest, TRUE)
  /\ CourtOnly

ForceEnd ==
  /\ Act
  /\ End("admin")
  /\ UNCHANGED <<live, room, tab, toHub>>

ResetCourt ==
  /\ Act /\ court.status = "FINISHED"
  /\ court' = Reset
  /\ CourtOnly
------------------------------------------------------------------------------
(* The hub serves the phones.                                               *)

IsReferee(d, c) == \E p \in court.players : p.dev = d /\ p.conn = c

\* Mutant: the phone that loses the score to another is not told.
DisplacedUntold(d, c) == [e \in Phones |-> {}]

\* setRefereeDirect: whoever kept the score before.
Displaced(d, c) ==
  [e \in Phones |-> {p.conn : p \in {q \in court.players : q.dev = e /\ <<e, q.conn>> # <<d, c>>}}]

\* The phone takes over the score of court o, is in the room, and has its answer.
Enter(o, d, m, answer) ==
  /\ court' = [o EXCEPT !.players = {[dev |-> d, conn |-> m.conn, proof |-> m.pin]}]
  /\ room' = [room EXCEPT ![d] = @ \cup {m.conn}]
  /\ toTab' = Then(Told(Displaced(d, m.conn), Event("REF_REVOKED")), d, m.conn, answer)

Refuse(d, m, type) ==
  /\ Reply(d, m.conn, [Event(type) EXCEPT !.ok = FALSE])
  /\ UNCHANGED <<court, room>>

\* The limiter of wrong PINs may have the phone's address blocked, whatever it sends.
OnJoin(d, m) ==
  /\ m.type = "JOIN"
  /\ \/ /\ FoundBy(m.pin)
        /\ Enter(IF court.status = "RESERVED" THEN Occupy(court, "none", Nobody, FALSE) ELSE court,
                 d, m, Event("JOIN_RESULT"))
     \/ Refuse(d, m, "JOIN_RESULT")
  /\ UNCHANGED history

\* Mutant: no answer when there is nothing to come back to.
AnsweredIfOccupied(d, m) ==
  IF court.status = "OCCUPIED" THEN Refuse(d, m, "RECONNECT_RESULT")
  ELSE UNCHANGED <<court, room, toTab>>

Answered(d, m) == Refuse(d, m, "RECONNECT_RESULT")

OnReconnect(d, m) ==
  /\ m.type = "RECONNECT"
  /\ \/ /\ FoundBy(m.pin) /\ court.status = "OCCUPIED"
        /\ Enter(court, d, m, [Event("RECONNECT_RESULT")
                               EXCEPT !.match = court.match, !.mode = court.mode])
     \/ Answered(d, m)
  /\ UNCHANGED history

MatchUpdate(match) == [Event("MATCH_UPDATE") EXCEPT !.match = match]

OnGetMatchState(d, m) ==
  /\ m.type = "GET_MATCH_STATE"
  /\ Reply(d, m.conn, MatchUpdate(court.match))
  /\ UNCHANGED <<court, room, history>>

\* The point that ends the match.
OnRecordPoint(d, m) ==
  /\ m.type = "RECORD_POINT" /\ IsReferee(d, m.conn) /\ court.match \in {"LIVE", "FINISHED"}
  /\ court' = [court EXCEPT !.match = "FINISHED"]
  /\ ToRoom(MatchUpdate("FINISHED"))
  /\ UNCHANGED <<room, history>>

OnStartFree(d, m) ==
  /\ m.type = "START_FREE" /\ IsReferee(d, m.conn) /\ court.status = "OCCUPIED"
  /\ court' = StartFreePlay(m.who)
  /\ ToRoom(Event("FREE_STARTED"))
  /\ UNCHANGED <<room, history>>

OnNewMatch(d, m) ==
  /\ m.type = "NEW_MATCH" /\ IsReferee(d, m.conn) /\ court.status = "OCCUPIED"
  /\ court' = StartMatch(m.who)
  /\ ToRoom(MatchUpdate("LIVE"))
  /\ UNCHANGED <<room, history>>

OnResetMatch(d, m) ==
  /\ m.type = "RESET_MATCH" /\ IsReferee(d, m.conn) /\ court.status = "OCCUPIED"
  /\ court' = Rematch
  /\ ToRoom([Event("MATCH_RESET") EXCEPT !.match = "LIVE"])
  /\ UNCHANGED <<room, history>>

OnEndSession(d, m) ==
  /\ m.type = "END_SESSION" /\ IsReferee(d, m.conn)
  /\ \/ /\ ~m.confirm /\ court.status = "OCCUPIED"
        /\ Reply(d, m.conn, Event("END_SESSION_CONFIRM"))
        /\ UNCHANGED <<court, history>>
     \/ m.confirm /\ End("player")
  /\ UNCHANGED room

\* UNAUTHORIZED, SESSION_NOT_ACTIVE and the like: an ERROR the page does not hear.
OnRefused(d, m) ==
  /\ m.type \in {"RECORD_POINT", "START_FREE", "NEW_MATCH", "RESET_MATCH", "END_SESSION"}
  /\ \/ ~IsReferee(d, m.conn)
     \/ m.type = "RECORD_POINT" /\ court.match = "WAITING"
     \/ m.type # "RECORD_POINT" /\ court.status # "OCCUPIED"
  /\ UNCHANGED <<court, room, history, toTab>>

Serve(d) ==
  /\ toHub[d] # <<>> /\ Head(toHub[d]).conn \in live[d]
  /\ toHub' = [toHub EXCEPT ![d] = Tail(@)]
  /\ LET m == Head(toHub[d])
     IN  \/ OnJoin(d, m) \/ OnReconnect(d, m) \/ OnGetMatchState(d, m) \/ OnRecordPoint(d, m)
         \/ OnStartFree(d, m) \/ OnNewMatch(d, m) \/ OnResetMatch(d, m)
         \/ OnEndSession(d, m) \/ OnRefused(d, m)
  /\ UNCHANGED <<live, tab, acts>>

\* The hub notices that connection c is gone, once it has served what had arrived.
ServerDisconnect(d, c) ==
  /\ c \in live[d] /\ ~(tab[d].up /\ tab[d].conn = c)
  /\ \A i \in DOMAIN toHub[d] : toHub[d][i].conn # c
  /\ live' = [live EXCEPT ![d] = @ \ {c}]
  /\ room' = [room EXCEPT ![d] = @ \ {c}]
  /\ court' = [court EXCEPT !.players = {p \in @ : <<p.dev, p.conn>> # <<d, c>>}]
  /\ UNCHANGED <<history, tab, toHub, toTab, acts>>
------------------------------------------------------------------------------
(* The phone.                                                               *)

\* What the page shows; the form of a new match lies over it for a moment.
Stage(t) ==
  CASE t.page = "auth"                              -> "auth"
    [] t.page = "play" /\ t.error                   -> "error"
    [] t.page = "play" /\ ~t.error /\ t.reconnecting # 0 -> "reconnecting"
    [] OTHER ->
         IF t.loading \/ t.match = "none" THEN "loading"
         ELSE IF t.ended # 0 THEN "finished"
         ELSE CASE t.mode = "none" -> "config"
                [] t.mode = "free" -> "free"
                [] t.mode = "match" /\ t.match = "LIVE" -> "live"
                [] t.mode = "match" /\ t.match = "FINISHED" -> "postMatch"
                [] OTHER -> "loading"

\* The page's effect: an end asked for by the user is put to the hub.
EndingAsks(d, t) ==
  IF t.ending /\ ~t.confirm /\ t.ended = 0 /\ t.up
  THEN <<[Request(d, "END_SESSION") EXCEPT !.conn = t.conn]>> ELSE <<>>

Send(d, requests) == toHub' = [toHub EXCEPT ![d] = @ \o requests]

Unserved == UNCHANGED <<court, history, live, room, toTab>>

\* A user's act that sends something: on a connected phone, one at a time.
Asks(d) == Act /\ tab[d].up /\ Len(toHub[d]) < MaxQueue

\* AuthPage: any PIN may be typed; it is stored before the answer is known.
Join(d, p) ==
  /\ Asks(d) /\ tab[d].page = "auth" /\ tab[d].waiting = 0
  /\ tab' = [tab EXCEPT ![d].pin = p, ![d].waiting = tab[d].conn]
  /\ Send(d, <<[Request(d, "JOIN") EXCEPT !.pin = p]>>)
  /\ Unserved

\* "Modo libre" of the session form, with a name; "volver a libre" of a match, on or over, without.
PickFree(d) ==
  /\ Asks(d) /\ Stage(tab[d]) \in {"config", "live", "postMatch"}
  /\ tab' = [tab EXCEPT ![d].first = FALSE]
  /\ Send(d, <<[Request(d, "START_FREE")
                EXCEPT !.who = IF Stage(tab[d]) = "config" THEN d ELSE Nobody]>>)
  /\ Unserved

\* The form of a new match; the name of the session form is sent again later on.
NewMatch(d) ==
  /\ Asks(d) /\ Stage(tab[d]) \in {"config", "free", "postMatch"}
  /\ LET named == tab[d].named \/ Stage(tab[d]) = "config"
     IN  /\ tab' = [tab EXCEPT ![d].first = FALSE, ![d].mode = "match", ![d].named = named]
         /\ Send(d, <<[Request(d, "NEW_MATCH") EXCEPT !.who = IF named THEN d ELSE Nobody]>>)
  /\ Unserved

ResetMatch(d) ==
  /\ Asks(d) /\ Stage(tab[d]) = "postMatch"
  /\ tab' = [tab EXCEPT ![d].first = FALSE]
  /\ Send(d, <<Request(d, "RESET_MATCH")>>)
  /\ Unserved

ScorePoint(d) ==
  /\ Asks(d) /\ Stage(tab[d]) = "live" /\ ~tab[d].replaced
  /\ Send(d, <<Request(d, "RECORD_POINT")>>)
  /\ UNCHANGED tab /\ Unserved

\* "Terminar": works once, until the question is answered.
PressEnd(d) ==
  /\ Act /\ Len(toHub[d]) < MaxQueue
  /\ Stage(tab[d]) \in {"free", "live", "postMatch"} /\ ~tab[d].ending
  /\ tab' = [tab EXCEPT ![d].ending = TRUE]
  /\ Send(d, EndingAsks(d, tab'[d]))
  /\ Unserved

\* The modal closes at once, and the page's effect puts the question again.
ConfirmEnd(d) ==
  /\ Asks(d) /\ tab[d].page = "play" /\ tab[d].confirm
  /\ tab' = [tab EXCEPT ![d].confirm = FALSE]
  /\ Send(d, <<[Request(d, "END_SESSION") EXCEPT !.confirm = TRUE]>> \o EndingAsks(d, tab'[d]))
  /\ Unserved

CancelEnd(d) ==
  /\ Act /\ tab[d].page = "play" /\ tab[d].confirm
  /\ tab' = [tab EXCEPT ![d].confirm = FALSE, ![d].ending = FALSE]
  /\ UNCHANGED toHub /\ Unserved

\* "Volver al inicio": the socket stays, in the room too.
GoHome(d) ==
  /\ Act /\ Stage(tab[d]) \in {"finished", "error"}
  /\ tab' = [tab EXCEPT ![d] = [Mounted(@) EXCEPT !.page = "auth"]]
  /\ UNCHANGED toHub /\ Unserved

\* The hub gets some of what was under way to it, the phone nothing.
Lose(d) ==
  /\ toTab' = [toTab EXCEPT ![d] = <<>>]
  /\ \E n \in 0 .. Len(toHub[d]) : toHub' = [toHub EXCEPT ![d] = SubSeq(@, 1, n)]

Drop(d) ==
  /\ Act /\ tab[d].up
  /\ tab' = [tab EXCEPT ![d].up = FALSE]
  /\ Lose(d)
  /\ UNCHANGED <<court, history, live, room>>

Reload(d) ==
  /\ Act /\ tab[d].up /\ tab[d].page = "play"
  /\ tab' = [tab EXCEPT ![d] = [Mounted(@) EXCEPT !.up = FALSE]]
  /\ Lose(d)
  /\ UNCHANGED <<court, history, live, room>>

\* A new socket; the page asks for the match, and puts an unanswered end again.
Connect(d) ==
  LET c == tab[d].conn + 1 IN
  /\ ~tab[d].up /\ c <= MaxConns
  /\ tab' = [tab EXCEPT ![d] = [@ EXCEPT !.conn = c, !.up = TRUE, !.loading = TRUE]]
  /\ live' = [live EXCEPT ![d] = @ \cup {c}]
  /\ IF tab[d].page = "play"
     THEN Send(d, <<[Request(d, "GET_MATCH_STATE") EXCEPT !.conn = c]>> \o EndingAsks(d, tab'[d]))
     ELSE UNCHANGED toHub
  /\ UNCHANGED <<court, history, room, toTab, acts>>

\* The first match seen decides: a live one is taken up again with the stored PIN.
HeardMatch(t, match) ==
  LET seen == [t EXCEPT !.match = match, !.loading = FALSE, !.error = FALSE] IN
  CASE match # "FINISHED" /\ t.first /\ match = "LIVE" /\ t.pin # 0 ->
         [seen EXCEPT !.first = FALSE, !.reconnecting = t.conn]
    [] match # "FINISHED" /\ t.first /\ match = "LIVE" /\ t.pin = 0 ->
         [seen EXCEPT !.first = FALSE, !.error = TRUE]
    [] match # "FINISHED" /\ t.first /\ match # "LIVE" -> [seen EXCEPT !.first = FALSE]
    [] OTHER -> seen

Heard(t, m) ==
  CASE m.type = "MATCH_UPDATE" -> HeardMatch(t, m.match)
    [] m.type = "RECONNECT_RESULT" ->
         IF m.ok THEN [t EXCEPT !.reconnecting = 0, !.match = m.match, !.mode = m.mode,
                                !.error = FALSE]
         ELSE [t EXCEPT !.reconnecting = 0, !.error = TRUE]
    [] m.type = "REF_REVOKED"  -> [t EXCEPT !.replaced = TRUE]
    [] m.type = "FREE_STARTED" -> [t EXCEPT !.mode = "free"]
    [] m.type = "MATCH_RESET"  -> [t EXCEPT !.match = m.match, !.loading = FALSE]
    [] m.type = "END_SESSION_CONFIRM" -> [t EXCEPT !.confirm = TRUE]
    [] m.type = "SESSION_ENDED" ->
         [t EXCEPT !.pin = 0, !.ended = m.session, !.mode = "none", !.confirm = FALSE,
                   !.ending = FALSE]
    [] OTHER -> t

\* On the login page only the answer to a JOIN is heard; the play page is mounted
\* before the next event arrives.
Receive(d) ==
  /\ toTab[d] # <<>>
  /\ toTab' = [toTab EXCEPT ![d] = Tail(@)]
  /\ LET m == Head(toTab[d])
         t == tab[d]
     IN  \/ /\ t.page = "auth" /\ m.type = "JOIN_RESULT"
            /\ tab' = [tab EXCEPT ![d] = [Mounted(t) EXCEPT !.page = IF m.ok THEN "play" ELSE "auth"]]
            /\ Send(d, IF m.ok THEN <<Request(d, "GET_MATCH_STATE")>> ELSE <<>>)
         \/ /\ t.page = "auth" /\ m.type # "JOIN_RESULT"
            /\ UNCHANGED <<tab, toHub>>
         \/ /\ t.page = "play"
            /\ tab' = [tab EXCEPT ![d] = Heard(t, m)]
            /\ Send(d, IF tab'[d].reconnecting # t.reconnecting /\ t.reconnecting = 0
                       THEN <<Request(d, "RECONNECT")>> ELSE <<>>)
  /\ UNCHANGED <<court, history, live, room, acts>>
------------------------------------------------------------------------------
Next ==
  \/ ActivateCourt \/ DeactivateCourt \/ ForceEnd \/ ResetCourt
  \/ \E mode \in {"free", "match"} : AdminOccupy(mode)
  \/ \E d \in Phones :
       \/ \E p \in Pins : Join(d, p)
       \/ PickFree(d) \/ NewMatch(d) \/ ResetMatch(d) \/ ScorePoint(d)
       \/ PressEnd(d) \/ ConfirmEnd(d) \/ CancelEnd(d) \/ GoHome(d)
       \/ Drop(d) \/ Reload(d) \/ Connect(d)
       \/ Serve(d) \/ Receive(d)
       \/ \E c \in 1 .. MaxConns : ServerDisconnect(d, c)

Spec == Init /\ [][Next]_vars

(* The event loops of hub and phones run, a socket is noticed to be closed:  *)
(* as long as something of that is due, something of it happens, and only    *)
(* finitely much of it follows each act.  Nobody has to act, and a phone may *)
(* stay without a connection.                                                *)
Due ==
  \E d \in Phones : Serve(d) \/ Receive(d) \/ \E c \in 1 .. MaxConns : ServerDisconnect(d, c)

FairSpec == Spec /\ WF_vars(Due)
------------------------------------------------------------------------------
(* A session that is over has one record, one that is not has none: the       *)
(* player's confirmation, a second one and the admin's force-end race.  The   *)
(* record names one who was named for that very session, and nobody only if   *)
(* no name was given, whichever requests came without one or from a phone     *)
(* that had already been displaced; and an end by an admin is signed.         *)
RecordsTellTheTruth ==
  /\ \A s \in Pins :
       Cardinality({i \in DOMAIN history : history[i].session = s}) =
         IF s < court.session \/ (s = court.session /\ court.status # "OCCUPIED") THEN 1 ELSE 0
  /\ \A i \in DOMAIN history :
       LET r == history[i]
       IN  /\ IF r.given = {} THEN r.who = Nobody ELSE r.who \in r.given
           /\ r.endedBy = "admin" => r.admin

(* Whoever keeps the score of a session has proved that session's PIN: a      *)
(* phone left over from an earlier one does not get into the next.            *)
OldPhonesStayOut ==
  court.status = "OCCUPIED" => \A p \in court.players : p.proof = court.pin

ShowsControls(t) == t.up /\ Stage(t) \in {"free", "live", "postMatch"} /\ ~t.replaced

UnderWay(d, types) == \E i \in DOMAIN toTab[d] : toTab[d][i].type \in types

(* A phone in the room that offers its player the controls keeps the score,   *)
(* or is about to hear that it does not, however many phones come and go.     *)
ScorersAreReferees ==
  \A d \in Phones :
    (ShowsControls(tab[d]) /\ tab[d].conn \in room[d]) =>
      IsReferee(d, tab[d].conn) \/ UnderWay(d, {"REF_REVOKED", "SESSION_ENDED"})

InRoom(d, c) == Connected(d, c) /\ tab[d].page = "play" /\ c \in room[d]

(* The end of a session reaches every phone in the room, displaced ones       *)
(* included, unless its connection is lost first or its player goes away.     *)
EndReachesTheRoom ==
  \A d \in Phones, c \in 1 .. MaxConns :
    (InRoom(d, c) /\ court.status = "FINISHED")
      ~> (tab[d].ended # 0 \/ ~InRoom(d, c))

Waits(d) ==
  \/ tab[d].waiting = tab[d].conn
  \/ tab[d].page = "play" /\ (tab[d].reconnecting = tab[d].conn \/ tab[d].loading)
  \/ tab[d].ending /\ ~tab[d].confirm /\ IsReferee(d, tab[d].conn)

(* A phone that waits gets its answer, unless its connection is lost: a join, *)
(* a return to the court, the first look at the match, the question after     *)
(* "Terminar" on the phone that keeps the score.                              *)
PhonesGetAnAnswer ==
  \A d \in Phones, c \in 1 .. MaxConns :
    (Connected(d, c) /\ Waits(d)) ~> (~Waits(d) \/ ~Connected(d, c))
==============================================================================
