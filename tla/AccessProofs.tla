----------------------------- MODULE AccessProofs -----------------------------
(* Proofs about Access: whoever has tabs open, however often their sockets    *)
(* come and go, the court's referee is one who proved the PIN it has now, and *)
(* loses the role for a reason only; an owner who has one tab open reads the  *)
(* present PIN on it, and nobody but an owner reads any.                      *)
(*                                                                            *)
(* For the referee no order of the messages matters: a SET_REF is answered by *)
(* the PIN of the moment it is served, and a new PIN clears the court in the  *)
(* same step.  For the card it does: what the card will show is decided by    *)
(* the last list under way, and the hub tells the tab that asked for a new    *)
(* PIN behind everything it has told it before.  That needs that requests are *)
(* served on the connection their tab has now, and that only an owner's tab   *)
(* ever becomes an owner's connection.                                        *)
EXTENDS Access, FiniteSetTheorems, TLAPS

(* PINs are numbered in the order of their issue.                             *)
PinsInOrder ==
  court.pin <= court.issued /\ (court.pin = 0 => court.issued = 0)

(* The referee's entry is alone, proved the present PIN, and belongs to a     *)
(* connection the hub holds open.                                             *)
RefereeEntry ==
  /\ \A r, q \in court.players : r = q
  /\ \A r \in court.players : r.proof = court.pin /\ court.pin # 0 /\ r.conn \in live[r.dev]

(* A tab that has a connection has one that the hub knows.                    *)
UpIsLive == \A d \in Devices : tab[d].up => tab[d].conn \in live[d]

(* Only the owner's tab holds the owner's PIN, token or role, and shows PINs. *)
Honest(d, t) ==
  d \notin Owners =>
    t.role # "owner" /\ ~t.ownerPin /\ ~t.token /\ ~t.handshake /\ t.shown = 0

HonestTabs == \A d \in Devices : Honest(d, tab[d]) /\ (d \notin Owners => owner[d] = {})

(* What only an owner sends with the right PIN, and what only owners are sent.*)
OwnerRequests == {"VERIFY_OWNER", "GET_COURTS_WITH_PINS", "REGENERATE_PIN"}
OwnerAnswers == {"OWNER_VERIFIED", "COURT_LIST_WITH_PINS", "PIN_REGENERATED"}

(* What may be under way: requests of the tab's present connection, proofs of *)
(* ownership from and to owners only, PINs to owners only; no page asks for a *)
(* new PIN with a court's PIN (useSocketActions.ts:68).                       *)
SendableBy(d, t) ==
  {m \in HubMsg : /\ t.up => m.conn = t.conn
                  /\ m.type \in OwnerRequests /\ m.right => d \in Owners
                  /\ m.type = "REGENERATE_PIN" => m.pin = 0}

Sendable(d) == SendableBy(d, tab[d])

Receivable(d) == {m \in TabMsg : m.type \in OwnerAnswers => d \in Owners}

QueuesInOrder ==
  /\ \A d \in Devices : toHub[d] \in Seq(Sendable(d))
  /\ \A d \in Devices : toTab[d] \in Seq(Receivable(d))

(* The messages that change the card, and what it shows after one.            *)
Listing == {"COURT_LIST", "COURT_LIST_WITH_PINS", "PIN_REGENERATED"}
CardAfter(m) == IF m.type = "COURT_LIST" THEN 0 ELSE m.pin
Lists(q) == {i \in DOMAIN q : q[i].type \in Listing}

(* A card that shows s will show no PIN or p when it has heard all of q.      *)
WillShow(q, s, p) ==
  /\ Lists(q) = {} => s \in {0, p}
  /\ \A i \in Lists(q) : (\A j \in Lists(q) : j <= i) => CardAfter(q[i]) \in {0, p}

CardsInOrder ==
  \A d \in Owners :
    Owners = {d} /\ tab[d].up => WillShow(toTab[d], tab[d].shown, court.pin)

(* The inductive invariant.                                                   *)
IInv ==
  TypeOK /\ PinsInOrder /\ RefereeEntry /\ UpIsLive /\ HonestTabs /\ QueuesInOrder /\ CardsInOrder
------------------------------------------------------------------------------
(* The constants.                                                             *)

LEMMA Numbers ==
  /\ MaxPin \in Nat \ {0} /\ MaxConns \in Nat \ {0}
  /\ MaybePin = 0 .. MaxPin /\ MaybeConn = 0 .. MaxConns /\ 0 \in MaybePin
  BY AccessAssumption DEF MaybePin, MaybeConn

LEMMA TabTypes ==
  /\ 0 \in MaybePin /\ "none" \in Roles /\ "owner" \in Roles /\ "referee" \in Roles
  /\ \A page \in {"auth", "dashboard", "scoreboard", "revoked", "spectator"} : page \in Pages
  BY Numbers DEF Roles, Pages
------------------------------------------------------------------------------
(* Queues.                                                                    *)

LEMMA TailType ==
  ASSUME NEW S, NEW q \in Seq(S), q # <<>>
  PROVE  Head(q) \in S /\ Tail(q) \in Seq(S)
  OBVIOUS

LEMMA AddIfType ==
  ASSUME NEW S, NEW q \in Seq(S), NEW m, NEW sent \in BOOLEAN, sent => m \in S
  PROVE  AddIf(sent, q, m) \in Seq(S)
  BY DEF AddIf

(* A queue whose members all belong to T is a queue over T.                   *)
LEMMA SeqNarrow ==
  ASSUME NEW S, NEW T, NEW q \in Seq(S), \A i \in DOMAIN q : q[i] \in T
  PROVE  q \in Seq(T)
  OBVIOUS

LEMMA SubSeqType ==
  ASSUME NEW S, NEW T, NEW q \in Seq(S), NEW n \in 0 .. Len(q), \A i \in 1 .. n : q[i] \in T
  PROVE  SubSeq(q, 1, n) \in Seq(T)
  OBVIOUS

(* A list that shows no PIN or p settles the card, whatever came before.      *)
LEMMA ListSettles ==
  ASSUME NEW q \in Seq(TabMsg), NEW m \in TabMsg, NEW s, NEW p,
         m.type \in Listing, CardAfter(m) \in {0, p}
  PROVE  WillShow(Append1(q, m), s, p)
<1> DEFINE r == Append1(q, m)
<1>1. r \in Seq(TabMsg) /\ Len(r) \in DOMAIN r /\ r[Len(r)] = m
  BY DEF Append1
<1>2. Len(r) \in Lists(r)
  BY <1>1 DEF Lists
<1>3. \A i \in Lists(r) : i <= Len(r)
  BY <1>1 DEF Lists
<1> HIDE DEF r
<1>4. \A i \in Lists(r) : (\A j \in Lists(r) : j <= i) => i = Len(r)
  BY <1>1, <1>2, <1>3 DEF Lists
<1>5. WillShow(r, s, p)
  BY <1>1, <1>2, <1>4 DEF WillShow
<1> QED  BY <1>5 DEF r

(* Any other message leaves the card to what comes before it.                 *)
LEMMA OthersLeaveCard ==
  ASSUME NEW q \in Seq(TabMsg), NEW m \in TabMsg, NEW s, NEW p,
         m.type \notin Listing, WillShow(q, s, p)
  PROVE  WillShow(Append1(q, m), s, p) /\ WillShow(Append(q, m), s, p)
<1>1. Lists(Append(q, m)) = Lists(q) /\ \A i \in Lists(q) : Append(q, m)[i] = q[i]
  BY DEF Lists
<1>2. WillShow(Append(q, m), s, p)
  BY <1>1 DEF WillShow
<1> QED  BY <1>2 DEF Append1

(* Hearing the next message leaves what the card will show.                   *)
LEMMA HearingKeepsCard ==
  ASSUME NEW q \in Seq(TabMsg), q # <<>>, NEW s, NEW p, WillShow(q, s, p)
  PROVE  WillShow(Tail(q), IF Head(q).type \in Listing THEN CardAfter(Head(q)) ELSE s, p)
<1> DEFINE r == Tail(q)
<1>1. Len(r) = Len(q) - 1 /\ r \in Seq(TabMsg) /\ \A i \in 1 .. Len(r) : r[i] = q[i + 1]
  OBVIOUS
<1>2. Head(q) = q[1] /\ Len(q) >= 1 /\ Len(q) \in Nat
  OBVIOUS
<1> HIDE DEF r
<1>3. \A i \in 1 .. Len(r) : i \in Lists(r) <=> i + 1 \in Lists(q)
  BY <1>1, <1>2 DEF Lists
<1>4. \A j \in Lists(q) : j = 1 \/ j - 1 \in Lists(r)
  BY <1>1, <1>2 DEF Lists
<1>5. CASE Lists(r) = {}
  <2>1. Lists(q) \subseteq {1} /\ (1 \in Lists(q) <=> Head(q).type \in Listing)
    BY <1>2, <1>4, <1>5 DEF Lists
  <2> QED  BY <1>2, <1>5, <2>1 DEF WillShow, r
<1>6. CASE Lists(r) # {}
  <2>1. ASSUME NEW i \in Lists(r), \A j \in Lists(r) : j <= i
        PROVE  CardAfter(r[i]) \in {0, p}
    <3>1. i \in 1 .. Len(r) /\ i + 1 \in Lists(q) /\ r[i] = q[i + 1]
      BY <1>1, <1>3 DEF Lists
    <3>2. \A j \in Lists(q) : j <= i + 1
      BY <1>2, <1>4, <2>1, <3>1 DEF Lists
    <3> QED  BY <3>1, <3>2 DEF WillShow
  <2> QED  BY <1>6, <2>1 DEF WillShow, r
<1> QED  BY <1>5, <1>6

(* While there is no PIN, the card will show none.                            *)
LEMMA NoPinYet ==
  ASSUME NEW q, NEW s, NEW p, WillShow(q, s, 0)
  PROVE  WillShow(q, s, p)
  BY DEF WillShow
------------------------------------------------------------------------------
(* Requests and answers.                                                      *)

HubTypes == {"VERIFY_OWNER", "SET_REF", "REGENERATE_PIN", "GENERATE_COURT_PIN",
             "GET_COURTS_WITH_PINS", "LIST_COURTS"}

(* A tab sends on its present connection, or for the next one.                *)
LEMMA HubEventType ==
  ASSUME IInv, NEW d \in Devices, NEW type \in HubTypes, NEW pin \in MaybePin,
         NEW right \in BOOLEAN, type \in OwnerRequests /\ right => d \in Owners,
         type = "REGENERATE_PIN" => pin = 0
  PROVE  /\ HubEvent(d, type, pin, right) \in Sendable(d)
         /\ HubEvent(d, type, pin, right).conn = IF tab[d].up THEN tab[d].conn ELSE tab[d].conn + 1
<1>1. tab[d].conn \in MaybeConn /\ MaxConns \in Nat
  BY Numbers DEF IInv, TypeOK, Tab
<1>2. tab[d].up => tab[d].conn \in 1 .. MaxConns
  BY DEF IInv, TypeOK, UpIsLive
<1>3. HubEvent(d, type, pin, right) \in HubMsg
  <2>1. (IF tab[d].up THEN tab[d].conn ELSE tab[d].conn + 1) \in 1 .. MaxConns + 1
    BY <1>1, <1>2, Numbers
  <2> QED  BY <2>1 DEF HubEvent, HubMsg, HubTypes
<1> QED  BY <1>3 DEF Sendable, SendableBy, HubEvent, HubTypes

(* Queues to the tabs that are typed, bring ownership and PINs to owners only,*)
(* and will leave no card with another PIN than p.                                *)
Orderly(queues, p) ==
  /\ queues \in [Devices -> Seq(TabMsg)]
  /\ \A d \in Devices : queues[d] \in Seq(Receivable(d))
  /\ \A d \in Owners : Owners = {d} /\ tab[d].up => WillShow(queues[d], tab[d].shown, p)

LEMMA CourtListType ==
  CourtList \in TabMsg /\ CourtList.type = "COURT_LIST"
  BY Numbers DEF CourtList, TabEvent, TabMsg

LEMMA BroadcastOrderly ==
  ASSUME NEW p, Orderly(toTab, p)
  PROVE  Orderly(Broadcast, p)
<1>1. \A d \in Devices : CourtList \in Receivable(d) /\ Receivable(d) \subseteq TabMsg
  BY CourtListType DEF Receivable, OwnerAnswers
<1>2. \A d \in Devices : Append1(toTab[d], CourtList) \in Seq(TabMsg)
                         /\ Append1(toTab[d], CourtList) \in Seq(Receivable(d))
  BY <1>1, CourtListType DEF Orderly, Append1
<1>3. Broadcast \in [Devices -> Seq(TabMsg)] /\ \A d \in Devices : Broadcast[d] \in Seq(Receivable(d))
  BY <1>2 DEF Broadcast, Orderly
<1>4. ASSUME NEW d \in Owners, Owners = {d}, tab[d].up
      PROVE  WillShow(Broadcast[d], tab[d].shown, p)
  <2>1. d \in Devices /\ toTab[d] \in Seq(TabMsg) /\ WillShow(toTab[d], tab[d].shown, p)
    BY <1>4 DEF Devices, Orderly
  <2>2. WillShow(Append1(toTab[d], CourtList), tab[d].shown, p)
    BY <2>1, CourtListType, ListSettles DEF CardAfter, Listing
  <2> QED  BY <2>1, <2>2 DEF Broadcast
<1> QED  BY <1>3, <1>4 DEF Orderly

LEMMA AnswerOrderly ==
  ASSUME NEW d \in Devices, NEW c, NEW p, NEW queues, Orderly(queues, p),
         NEW m \in Receivable(d), m.type \in Listing => CardAfter(m) \in {0, p},
         Answer(d, c, queues, m)
  PROVE  Orderly(toTab', p)
<1>1. m \in TabMsg /\ queues[d] \in Seq(TabMsg)
  BY DEF Receivable, Orderly
<1>2. Append1(queues[d], m) \in Seq(TabMsg) /\ Append1(queues[d], m) \in Seq(Receivable(d))
  BY <1>1 DEF Append1, Orderly
<1>3. CASE ~Connected(d, c)
  BY <1>3 DEF Answer
<1>4. CASE Connected(d, c)
  <2>1. toTab' = [queues EXCEPT ![d] = Append1(queues[d], m)]
    BY <1>4 DEF Answer
  <2>2. /\ toTab' \in [Devices -> Seq(TabMsg)]
        /\ \A e \in Devices : toTab'[e] \in Seq(Receivable(e))
    BY <1>2, <2>1 DEF Orderly
  <2>3. ASSUME NEW e \in Owners, Owners = {e}, tab[e].up
        PROVE  WillShow(toTab'[e], tab[e].shown, p)
    <3>1. e \in Devices /\ WillShow(queues[e], tab[e].shown, p)
      BY <2>3 DEF Devices, Orderly
    <3>2. WillShow(Append1(queues[d], m), tab[d].shown, p) \/ e # d
      BY <1>1, <3>1, ListSettles, OthersLeaveCard
    <3> QED  BY <2>1, <3>1, <3>2 DEF Orderly
  <2> QED  BY <2>2, <2>3 DEF Orderly
<1> QED  BY <1>3, <1>4

LEMMA QueuesOrderly ==
  ASSUME IInv
  PROVE  Orderly(toTab, court.pin)
  BY DEF IInv, TypeOK, QueuesInOrder, CardsInOrder, Orderly
------------------------------------------------------------------------------
(* The hub.                                                                   *)

(* The court and the owners' connections as a handler may leave them.         *)
CourtTyped ==
  court \in [pin: MaybePin, issued: MaybePin, players: SUBSET Connection]

OwnersTyped ==
  /\ owner \in [Devices -> SUBSET (1 .. MaxConns)]
  /\ \A d \in Devices : owner[d] \subseteq live[d] /\ (d \notin Owners => owner[d] = {})

(* A handler that leaves court, owners and answers in order keeps everything. *)
LEMMA Handled ==
  ASSUME IInv, NEW d \in Devices, toHub[d] # <<>>, toHub' = [toHub EXCEPT ![d] = Tail(@)],
         UNCHANGED <<live, tab>>, Orderly(toTab', court'.pin),
         CourtTyped', PinsInOrder', RefereeEntry', OwnersTyped'
  PROVE  IInv'
<1>1. \A e \in Devices : Sendable(e)' = Sendable(e) /\ Receivable(e)' = Receivable(e)
  BY DEF Sendable, SendableBy, Receivable
<1>2. \A e \in Devices : toHub'[e] \in Seq(Sendable(e)) /\ toHub'[e] \in Seq(HubMsg)
  BY TailType DEF IInv, TypeOK, QueuesInOrder
<1>3. TypeOK'
  BY <1>2 DEF IInv, TypeOK, CourtTyped, OwnersTyped, Orderly
<1>4. UpIsLive' /\ HonestTabs'
  BY DEF IInv, UpIsLive, HonestTabs, Honest, OwnersTyped
<1>5. QueuesInOrder' /\ CardsInOrder'
  BY <1>1, <1>2 DEF QueuesInOrder, CardsInOrder, Orderly
<1> QED  BY <1>3, <1>4, <1>5 DEF IInv

(* What an error or an answer without a card's PIN has to satisfy.            *)
LEMMA TabEventType ==
  ASSUME NEW d \in Devices, NEW pin \in MaybePin,
         NEW type \in {"OWNER_VERIFIED", "REF_SET", "ERROR", "REF_REVOKED", "PIN_REGENERATED",
                       "COURT_LIST_WITH_PINS", "COURT_LIST"},
         type \in OwnerAnswers => d \in Owners
  PROVE  /\ TabEvent(type, pin) \in Receivable(d)
         /\ CardAfter(TabEvent(type, pin)) = IF type = "COURT_LIST" THEN 0 ELSE pin
         /\ TabEvent(type, pin).type = type
  BY DEF TabEvent, Receivable, TabMsg, CardAfter

LEMMA ErrorOrderly ==
  ASSUME IInv, NEW d \in Devices, NEW c, Answer(d, c, toTab, Error)
  PROVE  Orderly(toTab', court.pin)
<1>1. 0 \in MaybePin
  BY Numbers
<1>2. Error \in Receivable(d) /\ Error.type \notin Listing
  BY <1>1, TabEventType DEF Error, Listing, OwnerAnswers
<1> QED  BY <1>2, QueuesOrderly, AnswerOrderly

LEMMA CourtKept ==
  ASSUME IInv, UNCHANGED <<court, live>>
  PROVE  CourtTyped' /\ PinsInOrder' /\ RefereeEntry'
  BY DEF IInv, TypeOK, CourtTyped, PinsInOrder, RefereeEntry

LEMMA OwnersKept ==
  ASSUME IInv, UNCHANGED <<owner, live>>
  PROVE  OwnersTyped'
  BY DEF IInv, TypeOK, HonestTabs, OwnersTyped

LEMMA OnVerifyOwnerStep ==
  ASSUME IInv, NEW d \in Devices, NEW m \in Sendable(d), m.conn \in live[d],
         UNCHANGED live, OnVerifyOwner(d, m)
  PROVE  /\ Orderly(toTab', court'.pin)
         /\ CourtTyped' /\ PinsInOrder' /\ RefereeEntry' /\ OwnersTyped'
<1>1. UNCHANGED court
  BY DEF OnVerifyOwner
<1>2. CourtTyped' /\ PinsInOrder' /\ RefereeEntry'
  BY <1>1, CourtKept
<1>3. CASE /\ m.right
           /\ owner' = [owner EXCEPT ![d] = @ \cup {m.conn}]
           /\ Answer(d, m.conn, toTab, TabEvent("OWNER_VERIFIED", 0))
  <2>1. d \in Owners
    BY <1>3 DEF OnVerifyOwner, Sendable, SendableBy, OwnerRequests
  <2>2. OwnersTyped'
    BY <1>3, <2>1 DEF IInv, TypeOK, HonestTabs, OwnersTyped
  <2>3. TabEvent("OWNER_VERIFIED", 0) \in Receivable(d)
        /\ TabEvent("OWNER_VERIFIED", 0).type \notin Listing
    BY <2>1, Numbers, TabEventType DEF Listing
  <2>4. Orderly(toTab', court.pin)
    BY <1>3, <2>3, QueuesOrderly, AnswerOrderly
  <2> QED  BY <1>1, <1>2, <2>2, <2>4
<1>4. CASE Answer(d, m.conn, toTab, Error) /\ UNCHANGED owner
  BY <1>1, <1>2, <1>4, ErrorOrderly, OwnersKept
<1> QED  BY <1>3, <1>4 DEF OnVerifyOwner

LEMMA OnSetRefStep ==
  ASSUME IInv, NEW d \in Devices, NEW m \in Sendable(d), m.conn \in live[d],
         UNCHANGED live, OnSetRef(d, m)
  PROVE  /\ Orderly(toTab', court'.pin)
         /\ CourtTyped' /\ PinsInOrder' /\ RefereeEntry' /\ OwnersTyped'
<1>1. OwnersTyped'
  BY OwnersKept DEF OnSetRef
<1>2. CASE /\ ValidatesPin(m.pin)
           /\ court' = [court EXCEPT !.players = SetReferee(d, m.conn, m.pin)]
           /\ Answer(d, m.conn, Broadcast, TabEvent("REF_SET", 0))
  <2> DEFINE r == [dev |-> d, conn |-> m.conn, proof |-> m.pin]
  <2>1. m.pin = court.pin /\ court.pin # 0 /\ court.pin \in MaybePin /\ m.conn \in 1 .. MaxConns
    BY <1>2 DEF ValidatesPin, IInv, TypeOK
  <2>2. r \in Connection
    BY <2>1 DEF Connection
  <2>3. \A q \in court.players : q.dev = d /\ q.conn = m.conn => q = r
    BY <2>1 DEF IInv, TypeOK, RefereeEntry, Connection
  <2>4. SetReferee(d, m.conn, m.pin) = {r}
    BY <2>3 DEF SetReferee
  <2>5. court'.pin = court.pin /\ court'.issued = court.issued /\ court'.players = {r} /\ CourtTyped'
    BY <1>2, <2>2, <2>4 DEF IInv, TypeOK, CourtTyped
  <2>6. PinsInOrder' /\ RefereeEntry'
    BY <2>1, <2>5 DEF IInv, PinsInOrder, RefereeEntry
  <2>7. TabEvent("REF_SET", 0) \in Receivable(d) /\ TabEvent("REF_SET", 0).type \notin Listing
    BY Numbers, TabEventType DEF Listing, OwnerAnswers
  <2>8. Orderly(toTab', court.pin)
    BY <1>2, <2>7, QueuesOrderly, BroadcastOrderly, AnswerOrderly
  <2> QED  BY <1>1, <2>5, <2>6, <2>8
<1>3. CASE Answer(d, m.conn, toTab, Error) /\ UNCHANGED court
  BY <1>1, <1>3, ErrorOrderly, CourtKept
<1> QED  BY <1>2, <1>3 DEF OnSetRef

(* The court's record with other PINs.                                        *)
LEMMA CourtFields ==
  ASSUME NEW S, NEW Entry, NEW c \in [pin: S, issued: S, players: SUBSET Entry], NEW pin \in S
  PROVE  /\ LET n == [c EXCEPT !.pin = pin, !.issued = pin]
            IN  /\ n \in [pin: S, issued: S, players: SUBSET Entry]
                /\ n.pin = pin /\ n.issued = pin /\ n.players = c.players
         /\ LET n == [c EXCEPT !.pin = pin, !.issued = pin, !.players = {}]
            IN  /\ n \in [pin: S, issued: S, players: SUBSET Entry]
                /\ n.pin = pin /\ n.issued = pin /\ n.players = {}
<1>1. LET n == [c EXCEPT !.pin = pin, !.issued = pin]
      IN  /\ n \in [pin: S, issued: S, players: SUBSET Entry]
          /\ n.pin = pin /\ n.issued = pin /\ n.players = c.players
  OBVIOUS
<1>2. LET n == [c EXCEPT !.pin = pin, !.issued = pin, !.players = {}]
      IN  /\ n \in [pin: S, issued: S, players: SUBSET Entry]
          /\ n.pin = pin /\ n.issued = pin /\ n.players = {}
  OBVIOUS
<1> QED  BY <1>1, <1>2

(* The sole owner's tab that is connected is connected by the connection its  *)
(* request was served on, so the new PIN is told to it, last.                 *)
LEMMA OnRegeneratePinStep ==
  ASSUME IInv, NEW d \in Devices, NEW m \in Sendable(d), m.conn \in live[d],
         UNCHANGED live, OnRegeneratePin(d, m)
  PROVE  /\ Orderly(toTab', court'.pin)
         /\ CourtTyped' /\ PinsInOrder' /\ RefereeEntry' /\ OwnersTyped'
<1>1. OwnersTyped'
  BY OwnersKept DEF OnRegeneratePin
<1>2. CASE Answer(d, m.conn, toTab, Error) /\ UNCHANGED court
  BY <1>1, <1>2, ErrorOrderly, CourtKept
<1> DEFINE told == [e \in Devices |->
                     IF \E r \in Revoked : r.dev = e
                     THEN Append(toTab[e], TabEvent("REF_REVOKED", 0)) ELSE toTab[e]]
           new == court.issued + 1
           answer == TabEvent("PIN_REGENERATED", new)
<1>3. CASE /\ court.pin # 0 /\ MayRegenerate(d, m) /\ court.issued < MaxPin
           /\ court' = RegeneratePin
           /\ toTab' = IF Connected(d, m.conn)
                       THEN [told EXCEPT ![d] = Append(@, answer)] ELSE told
  <2>0. /\ court.issued \in MaybePin /\ new \in 1 .. MaxPin /\ new \in MaybePin
        /\ court \in [pin: MaybePin, issued: MaybePin, players: SUBSET Connection]
    BY <1>3, Numbers DEF IInv, TypeOK
  <2> HIDE DEF new
  <2>1. court'.pin = new /\ court'.issued = new /\ court'.players = {} /\ CourtTyped'
    <3>1. court' = [court EXCEPT !.pin = new, !.issued = new, !.players = {}]
      BY <1>3 DEF RegeneratePin, new
    <3> QED  BY <2>0, <3>1, CourtFields DEF CourtTyped
  <2>2. PinsInOrder' /\ RefereeEntry'
    BY <2>0, <2>1 DEF PinsInOrder, RefereeEntry
  <2>3. \A e \in Devices : told[e] \in Seq(TabMsg) /\ told[e] \in Seq(Receivable(e))
    <3>1. \A e \in Devices : TabEvent("REF_REVOKED", 0) \in Receivable(e)
                              /\ TabEvent("REF_REVOKED", 0) \in TabMsg
      BY Numbers, TabEventType DEF Receivable, OwnerAnswers
    <3>2. \A e \in Devices : toTab[e] \in Seq(TabMsg) /\ toTab[e] \in Seq(Receivable(e))
      BY DEF IInv, TypeOK, QueuesInOrder
    <3> QED  BY <3>1, <3>2
  <2>4. /\ d \in Owners /\ answer \in Receivable(d) /\ answer \in TabMsg
        /\ answer.type \in Listing /\ CardAfter(answer) = new
    <3>1. m.conn \in owner[d] => d \in Owners
      BY DEF IInv, HonestTabs
    <3>2. m.pin = 0 /\ (m.right => d \in Owners)
      BY DEF OnRegeneratePin, Sendable, SendableBy, OwnerRequests
    <3>3. d \in Owners
      BY <1>3, <3>1, <3>2 DEF MayRegenerate
    <3> QED  BY <2>0, <3>3, TabEventType DEF Listing, Receivable
  <2> HIDE DEF told, answer
  <2>5. told \in [Devices -> Seq(TabMsg)]
    BY <2>3 DEF told
  <2>6. /\ toTab' \in [Devices -> Seq(TabMsg)]
        /\ \A e \in Devices : toTab'[e] \in Seq(Receivable(e))
    BY <1>3, <2>3, <2>4, <2>5
  <2>7. ASSUME NEW e \in Owners, Owners = {e}, tab[e].up
        PROVE  WillShow(toTab'[e], tab[e].shown, new)
    <3>1. d = e
      BY <2>4, <2>7
    <3>2. Connected(d, m.conn)
      BY <2>7, <3>1 DEF Sendable, SendableBy, Connected, IInv, UpIsLive
    <3>3. toTab'[e] = Append(told[d], answer) /\ told[d] \in Seq(TabMsg)
      BY <1>3, <2>3, <2>5, <3>1, <3>2
    <3>4. Append(told[d], answer) = Append1(Append(told[d], answer), answer)
      BY <2>4, <3>3 DEF Append1
    <3>5. Append(told[d], answer) \in Seq(TabMsg) /\ CardAfter(answer) \in {0, new}
      BY <2>4, <3>3
    <3>6. WillShow(Append1(Append(told[d], answer), answer), tab[e].shown, new)
      BY <2>4, <3>5, ListSettles
    <3> QED  BY <3>3, <3>4, <3>6
  <2>8. Orderly(toTab', court'.pin)
    BY <2>1, <2>6, <2>7 DEF Orderly
  <2> QED  BY <1>1, <2>1, <2>2, <2>8
<1> QED  BY <1>2, <1>3 DEF OnRegeneratePin

LEMMA OnGenerateCourtPinStep ==
  ASSUME IInv, NEW d \in Devices, NEW m \in Sendable(d), m.conn \in live[d],
         UNCHANGED live, OnGenerateCourtPin(d, m)
  PROVE  /\ Orderly(toTab', court'.pin)
         /\ CourtTyped' /\ PinsInOrder' /\ RefereeEntry' /\ OwnersTyped'
<1>1. OwnersTyped'
  BY OwnersKept DEF OnGenerateCourtPin
<1>2. CASE Answer(d, m.conn, toTab, Error) /\ UNCHANGED court
  BY <1>1, <1>2, ErrorOrderly, CourtKept
<1>3. CASE /\ m.conn \in owner[d]
           /\ court' = IF court.pin = 0
                       THEN [court EXCEPT !.pin = court.issued + 1, !.issued = @ + 1] ELSE court
           /\ Answer(d, m.conn, Broadcast, TabEvent("PIN_REGENERATED", court'.pin))
  <2>1. CourtTyped' /\ PinsInOrder' /\ RefereeEntry'
    <3>1. CASE court.pin = 0
      <4>1. /\ court.issued = 0 /\ 1 \in MaybePin
            /\ court \in [pin: MaybePin, issued: MaybePin, players: SUBSET Connection]
        BY <3>1, Numbers DEF IInv, TypeOK, PinsInOrder
      <4>2. /\ court'.pin = 1 /\ court'.issued = 1 /\ court'.players = court.players
            /\ CourtTyped'
        <5>1. court' = [court EXCEPT !.pin = 1, !.issued = 1]
          BY <1>3, <3>1, <4>1
        <5> QED  BY <4>1, <5>1, CourtFields DEF CourtTyped
      <4>3. court.players = {}
        BY <3>1 DEF IInv, RefereeEntry
      <4> QED  BY <4>2, <4>3 DEF PinsInOrder, RefereeEntry
    <3>2. CASE court.pin # 0
      BY <1>3, <3>2, CourtKept
    <3> QED  BY <3>1, <3>2
  <2>2. Orderly(toTab, court'.pin)
    <3>1. CASE court.pin = 0
      BY <3>1, QueuesOrderly, NoPinYet DEF Orderly
    <3>2. CASE court.pin # 0
      BY <1>3, <3>2, QueuesOrderly
    <3> QED  BY <3>1, <3>2
  <2>3. court'.pin \in MaybePin
    BY <2>1 DEF CourtTyped
  <2>4. Orderly(toTab', court'.pin)
    <3>1. d \in Owners
      BY <1>3 DEF IInv, HonestTabs
    <3> QED  BY <1>3, <2>2, <2>3, <3>1, BroadcastOrderly, TabEventType, AnswerOrderly
  <2> QED  BY <1>1, <2>1, <2>4
<1> QED  BY <1>2, <1>3 DEF OnGenerateCourtPin

LEMMA OnGetCourtsWithPinsStep ==
  ASSUME IInv, NEW d \in Devices, NEW m \in Sendable(d),
         UNCHANGED live, OnGetCourtsWithPins(d, m)
  PROVE  /\ Orderly(toTab', court'.pin)
         /\ CourtTyped' /\ PinsInOrder' /\ RefereeEntry' /\ OwnersTyped'
<1>1. UNCHANGED <<court, owner>>
  BY DEF OnGetCourtsWithPins
<1>2. CASE /\ m.conn \in owner[d] \/ m.right
           /\ Answer(d, m.conn, toTab, TabEvent("COURT_LIST_WITH_PINS", court.pin))
  <2>1. court.pin \in MaybePin /\ d \in Owners
    <3>1. m.conn \in owner[d] => d \in Owners
      BY DEF IInv, HonestTabs
    <3>2. m.right => d \in Owners
      BY <1>2 DEF OnGetCourtsWithPins, Sendable, SendableBy, OwnerRequests
    <3> QED  BY <1>2, <3>1, <3>2 DEF IInv, TypeOK
  <2>2. Orderly(toTab', court.pin)
    BY <1>2, <2>1, QueuesOrderly, TabEventType, AnswerOrderly
  <2> QED  BY <1>1, <2>2, CourtKept, OwnersKept
<1>3. CASE Answer(d, m.conn, toTab, Error)
  BY <1>1, <1>3, ErrorOrderly, CourtKept, OwnersKept
<1> QED  BY <1>2, <1>3 DEF OnGetCourtsWithPins

LEMMA OnListCourtsStep ==
  ASSUME IInv, NEW d \in Devices, NEW m \in Sendable(d), UNCHANGED live, OnListCourts(d, m)
  PROVE  /\ Orderly(toTab', court'.pin)
         /\ CourtTyped' /\ PinsInOrder' /\ RefereeEntry' /\ OwnersTyped'
<1>1. CourtList \in Receivable(d) /\ CardAfter(CourtList) = 0
  BY CourtListType DEF Receivable, OwnerAnswers, CardAfter
<1>2. Orderly(toTab', court.pin)
  BY <1>1, QueuesOrderly, AnswerOrderly DEF OnListCourts
<1> QED  BY <1>2, CourtKept, OwnersKept DEF OnListCourts

LEMMA ServeStep ==
  ASSUME IInv, NEW d \in Devices, Serve(d)
  PROVE  IInv'
<1> DEFINE m == Head(toHub[d])
<1>1. m \in Sendable(d) /\ m.conn \in live[d] /\ toHub[d] # <<>>
  BY TailType DEF Serve, IInv, QueuesInOrder
<1>2. UNCHANGED <<live, tab>> /\ toHub' = [toHub EXCEPT ![d] = Tail(@)]
  BY DEF Serve
<1>3. \/ OnVerifyOwner(d, m) \/ OnSetRef(d, m) \/ OnRegeneratePin(d, m)
      \/ OnGenerateCourtPin(d, m) \/ OnGetCourtsWithPins(d, m) \/ OnListCourts(d, m)
  BY DEF Serve
<1> HIDE DEF m
<1>4. /\ Orderly(toTab', court'.pin)
      /\ CourtTyped' /\ PinsInOrder' /\ RefereeEntry' /\ OwnersTyped'
  BY <1>1, <1>2, <1>3, OnVerifyOwnerStep, OnSetRefStep, OnRegeneratePinStep,
     OnGenerateCourtPinStep, OnGetCourtsWithPinsStep, OnListCourtsStep
<1> QED  BY <1>1, <1>2, <1>4, Handled

LEMMA ServerDisconnectStep ==
  ASSUME IInv, NEW d \in Devices, NEW c \in 1 .. MaxConns, ServerDisconnect(d, c)
  PROVE  IInv'
<1> USE DEF ServerDisconnect
<1>1. /\ live' \in [Devices -> SUBSET (1 .. MaxConns)]
      /\ \A e \in Devices : live'[e] \subseteq live[e]
      /\ \A e \in Devices : e # d => live'[e] = live[e]
      /\ live'[d] = live[d] \ {c}
  BY DEF IInv, TypeOK
<1>2. CourtTyped' /\ PinsInOrder'
  BY DEF IInv, TypeOK, CourtTyped, PinsInOrder, Staying
<1>3. RefereeEntry'
  BY <1>1 DEF IInv, TypeOK, RefereeEntry, Staying, Connection
<1>4. OwnersTyped'
  BY <1>1 DEF IInv, TypeOK, HonestTabs, OwnersTyped
<1>5. Orderly(toTab', court.pin)
  BY QueuesOrderly, BroadcastOrderly
<1>6. TypeOK'
  BY <1>1, <1>2, <1>4, <1>5 DEF IInv, TypeOK, CourtTyped, OwnersTyped, Orderly
<1>7. UpIsLive'
  BY <1>1 DEF IInv, UpIsLive
<1>8. HonestTabs'
  BY <1>4 DEF IInv, HonestTabs, Honest, OwnersTyped
<1>9. QueuesInOrder'
  BY <1>5 DEF IInv, QueuesInOrder, Orderly, Sendable, SendableBy, Receivable
<1>10. CardsInOrder'
  BY <1>5 DEF IInv, TypeOK, CardsInOrder, Orderly
<1> QED  BY <1>2, <1>3, <1>6, <1>7, <1>8, <1>9, <1>10 DEF IInv
------------------------------------------------------------------------------
(* The browser.                                                               *)

LEMMA BrowserStep ==
  ASSUME IInv, NEW d \in Devices, NEW n \in Tab, Honest(d, n),
         NEW q \in Seq(SendableBy(d, n)), NEW r \in Seq(Receivable(d)),
         tab' = [tab EXCEPT ![d] = n], toHub' = [toHub EXCEPT ![d] = q],
         toTab' = [toTab EXCEPT ![d] = r], UNCHANGED court,
         live' \in [Devices -> SUBSET (1 .. MaxConns)],
         \A e \in Devices : live[e] \subseteq live'[e],
         n.up => n.conn \in live'[d],
         Owners = {d} /\ n.up => WillShow(r, n.shown, court.pin),
         OwnersTyped'
  PROVE  IInv'
<1>1. tab' \in [Devices -> Tab] /\ tab'[d] = n /\ \A e \in Devices : e # d => tab'[e] = tab[e]
  BY DEF IInv, TypeOK
<1>2. toHub'[d] = q /\ toTab'[d] = r
      /\ \A e \in Devices : e # d => toHub'[e] = toHub[e] /\ toTab'[e] = toTab[e]
  BY DEF IInv, TypeOK
<1>3. \A e \in Devices : SendableBy(e, tab'[e]) \subseteq HubMsg /\ Receivable(e) \subseteq TabMsg
  BY DEF SendableBy, Receivable
<1>4. QueuesInOrder'
  <2>1. \A e \in Devices : Sendable(e)' = SendableBy(e, tab'[e]) /\ Receivable(e)' = Receivable(e)
    BY DEF Sendable, SendableBy, Receivable
  <2>2. \A e \in Devices : e # d => SendableBy(e, tab'[e]) = Sendable(e)
    BY <1>1 DEF Sendable
  <2> QED  BY <1>1, <1>2, <2>1, <2>2 DEF IInv, QueuesInOrder
<1>5. TypeOK'
  <2>1. toHub' \in [Devices -> Seq(HubMsg)] /\ toTab' \in [Devices -> Seq(TabMsg)]
    <3>1. q \in Seq(HubMsg) /\ r \in Seq(TabMsg)
      BY <1>1, <1>3
    <3> QED  BY <3>1 DEF IInv, TypeOK
  <2> QED  BY <1>1, <2>1 DEF IInv, TypeOK, OwnersTyped
<1>6. PinsInOrder' /\ RefereeEntry'
  BY DEF IInv, TypeOK, PinsInOrder, RefereeEntry, Connection
<1>7. UpIsLive'
  BY <1>1 DEF IInv, UpIsLive
<1>8. HonestTabs'
  BY <1>1 DEF IInv, HonestTabs, OwnersTyped, Honest
<1>9. CardsInOrder'
  BY <1>1, <1>2 DEF IInv, CardsInOrder, Devices
<1> QED  BY <1>4, <1>5, <1>6, <1>7, <1>8, <1>9 DEF IInv

(* Nothing of the connection or the card changes, and what the tab sends is   *)
(* of its present connection.                                                 *)
LEMMA QuietStep ==
  ASSUME IInv, NEW d \in Devices, NEW n \in Tab, Honest(d, n),
         n.conn = tab[d].conn, n.up = tab[d].up, n.shown = tab[d].shown,
         NEW q \in Seq(Sendable(d)),
         tab' = [tab EXCEPT ![d] = n], toHub' = [toHub EXCEPT ![d] = q], Unchanged
  PROVE  IInv'
<1>1. UNCHANGED <<court, live, owner, toTab>>
  BY DEF Unchanged
<1>2. q \in Seq(SendableBy(d, n))
  BY DEF Sendable, SendableBy
<1>3. toTab' = [toTab EXCEPT ![d] = toTab[d]] /\ toTab[d] \in Seq(Receivable(d))
  BY <1>1 DEF IInv, TypeOK, QueuesInOrder
<1>4. OwnersTyped'
  BY <1>1, OwnersKept
<1>5. n.up => n.conn \in live'[d]
  BY <1>1 DEF IInv, UpIsLive
<1>6. Owners = {d} /\ n.up => WillShow(toTab[d], n.shown, court.pin)
  BY DEF IInv, CardsInOrder
<1> QED  BY <1>1, <1>2, <1>3, <1>4, <1>5, <1>6, BrowserStep DEF IInv, TypeOK

(* A tab's record, its queue, and itself put back.                            *)
LEMMA TabFacts ==
  ASSUME IInv, NEW d \in Devices
  PROVE  /\ tab[d] \in Tab /\ Honest(d, tab[d])
         /\ toHub[d] \in Seq(Sendable(d)) /\ toHub[d] \in Seq(HubMsg)
         /\ tab = [tab EXCEPT ![d] = tab[d]]
         /\ toHub = [toHub EXCEPT ![d] = toHub[d]]
  BY DEF IInv, TypeOK, HonestTabs, QueuesInOrder

LEMMA ConnectStep ==
  ASSUME IInv, NEW d \in Devices, Connect(d)
  PROVE  IInv'
<1> DEFINE t == tab[d]
           c == t.conn + 1
           n == [t EXCEPT !.conn = c, !.up = TRUE]
           S == {m \in Sendable(d) : m.conn = c}
<1>1. ~t.up /\ c \in 1 .. MaxConns /\ t \in Tab /\ Honest(d, t)
  <2>1. t.conn \in MaybeConn
    BY TabFacts DEF Tab
  <2> QED  BY <2>1, TabFacts, Numbers DEF Connect
<1>2. n \in Tab /\ n.conn = c /\ n.up /\ n.shown = t.shown /\ Honest(d, n)
  <2>1. c \in MaybeConn
    BY <1>1, Numbers
  <2> QED  BY <1>1, <2>1 DEF Tab, Honest
<1>3. tab' = [tab EXCEPT ![d] = n]
  BY <1>1, TabFacts DEF Connect, IInv, TypeOK, Tab
<1>4. toHub[d] \in Seq(S)
  <2>1. \A i \in DOMAIN toHub[d] : toHub[d][i] \in S
    BY TabFacts DEF Connect
  <2> QED  BY <2>1, TabFacts, SeqNarrow
<1>5. Greetings(d) \in Seq(S)
  <2>1. /\ t.role = "owner" /\ t.ownerPin => HubEvent(d, "VERIFY_OWNER", 0, TRUE) \in S
        /\ HubEvent(d, "GET_COURTS_WITH_PINS", 0, t.ownerPin) \in S
        /\ HubEvent(d, "SET_REF", t.courtPin, TRUE) \in S
    <3>1. t.ownerPin \in BOOLEAN /\ t.courtPin \in MaybePin /\ 0 \in MaybePin
      BY <1>1, Numbers DEF Tab
    <3>2. t.ownerPin => d \in Owners
      BY <1>1 DEF Honest
    <3>3. \A type \in HubTypes, pin \in MaybePin, right \in BOOLEAN :
            (/\ type \in OwnerRequests /\ right => d \in Owners
             /\ type = "REGENERATE_PIN" => pin = 0) => HubEvent(d, type, pin, right) \in S
      BY <1>1, HubEventType
    <3> QED  BY <3>1, <3>2, <3>3 DEF HubTypes, OwnerRequests
  <2> QED  BY <1>4, <2>1, AddIfType DEF Greetings
<1>6. Greetings(d) \in Seq(SendableBy(d, n))
  BY <1>2, <1>5 DEF Sendable, SendableBy
<1>7. <<CourtList>> = Append1(<<>>, CourtList) /\ <<CourtList>> \in Seq(Receivable(d))
  BY CourtListType DEF Append1, Receivable, OwnerAnswers
<1>8. WillShow(<<CourtList>>, n.shown, court.pin)
  <2>1. <<>> \in Seq(TabMsg) /\ CourtList.type \in Listing /\ CardAfter(CourtList) \in {0, court.pin}
    BY CourtListType DEF CardAfter, Listing
  <2>2. WillShow(Append1(<<>>, CourtList), n.shown, court.pin)
    BY <2>1, CourtListType, ListSettles
  <2> QED  BY <1>7, <2>2
<1>9. /\ live' \in [Devices -> SUBSET (1 .. MaxConns)] /\ c \in live'[d]
      /\ \A e \in Devices : live[e] \subseteq live'[e]
  BY <1>1 DEF Connect, IInv, TypeOK
<1>10. OwnersTyped'
  <2>1. PICK accepted \in Verified(t) : owner' = ApplySessionClaims(d, c, accepted)
    BY DEF Connect
  <2>2. accepted => d \in Owners
    BY <1>1, <2>1 DEF Verified, Honest
  <2> QED  BY <1>1, <1>9, <2>1, <2>2 DEF ApplySessionClaims, IInv, TypeOK, HonestTabs, OwnersTyped
<1>11. /\ toHub' = [toHub EXCEPT ![d] = Greetings(d)]
       /\ toTab' = [toTab EXCEPT ![d] = <<CourtList>>] /\ UNCHANGED court
  BY DEF Connect
<1> HIDE DEF n, c, S, t
<1> QED  BY <1>2, <1>3, <1>6, <1>7, <1>8, <1>9, <1>10, <1>11, BrowserStep

(* A tab that has no connection may have anything under way.                  *)
LEMMA GoneStep ==
  ASSUME IInv, NEW d \in Devices, NEW n \in Tab, Honest(d, n), ~n.up,
         NEW q \in Seq(SendableBy(d, n)), tab' = [tab EXCEPT ![d] = n],
         toHub' = [toHub EXCEPT ![d] = q], toTab' = [toTab EXCEPT ![d] = <<>>],
         UNCHANGED <<court, live, owner>>
  PROVE  IInv'
<1>1. OwnersTyped'
  BY OwnersKept
<1>2. <<>> \in Seq(Receivable(d))
  OBVIOUS
<1>3. live' \in [Devices -> SUBSET (1 .. MaxConns)]
  BY DEF IInv, TypeOK
<1> QED  BY <1>1, <1>2, <1>3, BrowserStep

LEMMA LoggedOutType ==
  ASSUME NEW d, NEW t \in Tab, Honest(d, t)
  PROVE  /\ LoggedOut(t) \in Tab /\ Honest(d, LoggedOut(t))
         /\ LoggedOut(t).conn = t.conn /\ LoggedOut(t).up = t.up /\ LoggedOut(t).shown = t.shown
  BY TabTypes DEF LoggedOut, Tab, Honest

LEMMA DropStep ==
  ASSUME IInv, NEW d \in Devices, Drop(d)
  PROVE  IInv'
<1> DEFINE t == IF tab[d].role = "none" THEN tab[d] ELSE LoggedOut(tab[d])
           n == [t EXCEPT !.up = FALSE, !.pending = 0]
<1>1. t \in Tab /\ Honest(d, t)
  BY TabFacts, LoggedOutType
<1>2. tab' = [tab EXCEPT ![d] = n]
  BY DEF Drop, IInv, TypeOK
<1> HIDE DEF t
<1>3. n \in Tab /\ Honest(d, n) /\ ~n.up
  BY <1>1, TabTypes DEF Tab, Honest
<1>4. toHub[d] \in Seq(SendableBy(d, n))
  <2>1. Sendable(d) \subseteq SendableBy(d, n)
    BY <1>3 DEF Sendable, SendableBy
  <2> QED  BY <2>1, TabFacts
<1>5. /\ toHub' = [toHub EXCEPT ![d] = toHub[d]] /\ toTab' = [toTab EXCEPT ![d] = <<>>]
      /\ UNCHANGED <<court, live, owner>>
  BY TabFacts DEF Drop
<1> HIDE DEF n
<1> QED  BY <1>2, <1>3, <1>4, <1>5, GoneStep

LEMMA ReloadStep ==
  ASSUME IInv, NEW d \in Devices, Reload(d)
  PROVE  IInv'
<1> DEFINE t == tab[d]
           page == IF t.page = "revoked" THEN "scoreboard" ELSE t.page
           n == [FreshTab EXCEPT !.conn = t.conn, !.role = t.role, !.page = page,
                   !.token = t.token, !.handshake = t.token,
                   !.courtPin = IF page = "scoreboard" THEN t.saved ELSE 0,
                   !.saved = t.saved, !.restored = t.restored]
<1>1. t \in Tab /\ Honest(d, t) /\ toHub[d] \in Seq(Sendable(d))
  BY TabFacts
<1>2. tab' = [tab EXCEPT ![d] = n]
  BY DEF Reload
<1>3. n \in Tab /\ Honest(d, n) /\ ~n.up
  <2>1. page \in Pages /\ (IF page = "scoreboard" THEN t.saved ELSE 0) \in MaybePin
    BY <1>1, TabTypes DEF Tab
  <2>2. FreshTab \in Tab /\ ~FreshTab.up /\ ~FreshTab.ownerPin /\ FreshTab.shown = 0
    BY TabTypes, Numbers DEF Tab, FreshTab
  <2> HIDE DEF page
  <2>3. n \in Tab
    BY <1>1, <2>1, <2>2 DEF Tab
  <2>4. /\ n.up = FreshTab.up /\ n.ownerPin = FreshTab.ownerPin /\ n.shown = FreshTab.shown
        /\ n.role = t.role /\ n.token = t.token /\ n.handshake = t.token
    BY <2>2 DEF Tab
  <2> QED  BY <1>1, <2>2, <2>3, <2>4 DEF Honest
<1>4. PICK sent \in 0 .. Len(toHub[d]) : toHub' = [toHub EXCEPT ![d] = SubSeq(@, 1, sent)]
  BY DEF Reload
<1>5. SubSeq(toHub[d], 1, sent) \in Seq(SendableBy(d, n))
  <2>1. \A i \in 1 .. sent : toHub[d][i] \in SendableBy(d, n)
    BY <1>1, <1>3, <1>4 DEF Sendable, SendableBy
  <2> QED  BY <1>1, <1>4, <2>1, SubSeqType
<1>6. toTab' = [toTab EXCEPT ![d] = <<>>] /\ UNCHANGED <<court, live, owner>>
  BY DEF Reload
<1> HIDE DEF n, t
<1> QED  BY <1>2, <1>3, <1>4, <1>5, <1>6, GoneStep

LEMMA LoseInFlightStep ==
  ASSUME IInv, NEW d \in Devices, LoseInFlight(d)
  PROVE  IInv'
<1>1. Tail(toHub[d]) \in Seq(Sendable(d))
  BY TabFacts, TailType DEF LoseInFlight
<1> QED  BY <1>1, TabFacts, QuietStep DEF LoseInFlight, Unchanged

(* An act of the user that leaves the tab, or turns it to n, and may send e.  *)
LEMMA ActStep ==
  ASSUME IInv, NEW d \in Devices, NEW n \in Tab, Honest(d, n),
         n.conn = tab[d].conn, n.up = tab[d].up, n.shown = tab[d].shown,
         tab' = [tab EXCEPT ![d] = n], Unchanged,
         UNCHANGED toHub \/ \E e \in Sendable(d) : Emit(d, e)
  PROVE  IInv'
<1>1. CASE UNCHANGED toHub
  <2>1. toHub' = [toHub EXCEPT ![d] = toHub[d]] /\ toHub[d] \in Seq(Sendable(d))
    BY <1>1, TabFacts
  <2> QED  BY <2>1, QuietStep
<1>2. ASSUME NEW e \in Sendable(d), Emit(d, e)
      PROVE  IInv'
  <2>1. AddIf(TRUE, toHub[d], e) \in Seq(Sendable(d))
    BY TabFacts, AddIfType
  <2>2. toHub' = [toHub EXCEPT ![d] = AddIf(TRUE, toHub[d], e)]
    BY <1>2 DEF Emit
  <2> QED  BY <2>1, <2>2, QuietStep
<1> QED  BY <1>1, <1>2

LEMMA UserSteps ==
  ASSUME IInv, NEW d \in Devices,
         \/ LoginReferee(d) \/ Logout(d) \/ Back(d)
         \/ \E right \in Entries : SubmitOwnerPin(d, right)
         \/ \E p \in Pins : SubmitCourtPin(d, p)
         \/ \E type \in {"REGENERATE_PIN", "GENERATE_COURT_PIN"} : OwnerAsks(d, type)
         \/ PinTimeout(d) \/ RevokedTimer(d)
  PROVE  IInv'
<1> DEFINE t == tab[d]
<1>1. t \in Tab /\ Honest(d, t) /\ tab = [tab EXCEPT ![d] = t]
  BY TabFacts
<1>2. CASE LoginReferee(d)
  <2> DEFINE n == Login(t, "referee")
  <2>1. n \in Tab /\ Honest(d, n) /\ n.conn = t.conn /\ n.up = t.up /\ n.shown = t.shown
    <3>1. t \in Tab /\ Honest(d, t)
      BY <1>1
    <3>2. n \in Tab /\ n.conn = t.conn /\ n.up = t.up /\ n.shown = t.shown
      BY ONLY <3>1, TabTypes DEF Login, Tab
    <3>3. Honest(d, n)
      BY ONLY <3>1, TabTypes DEF Login, Tab, Honest
    <3> QED  BY <3>2, <3>3
  <2>2. HubEvent(d, "LIST_COURTS", 0, TRUE) \in Sendable(d)
    BY Numbers, HubEventType DEF HubTypes, OwnerRequests
  <2>3. tab' = [tab EXCEPT ![d] = n]
    BY <1>2 DEF LoginReferee
  <2> HIDE DEF n
  <2> QED  BY <1>2, <2>1, <2>2, <2>3, ActStep DEF LoginReferee
<1>3. CASE Logout(d)
  <2> DEFINE out == LoggedOut(t)
             n == [out EXCEPT !.restored = FALSE]
  <2>1. n \in Tab /\ Honest(d, n) /\ n.conn = t.conn /\ n.up = t.up /\ n.shown = t.shown
    <3>1. /\ out \in Tab /\ Honest(d, out)
          /\ out.conn = t.conn /\ out.up = t.up /\ out.shown = t.shown
      BY <1>1, LoggedOutType
    <3> HIDE DEF out
    <3>2. n \in Tab /\ n.conn = out.conn /\ n.up = out.up /\ n.shown = out.shown
      BY ONLY <3>1 DEF Tab
    <3>3. Honest(d, n)
      BY ONLY <3>1 DEF Tab, Honest
    <3> HIDE DEF n
    <3> QED  BY ONLY <3>1, <3>2, <3>3
  <2>2. tab' = [tab EXCEPT ![d] = n]
    BY <1>3 DEF Logout
  <2> HIDE DEF n
  <2> QED  BY <1>3, <2>1, <2>2, ActStep DEF Logout
<1>4. CASE Back(d)
  <2> DEFINE page == IF t.page = "scoreboard" THEN "dashboard" ELSE "auth"
             n == [t EXCEPT !.page = page]
  <2>1. page \in Pages
    BY TabTypes
  <2>2. tab' = [tab EXCEPT ![d] = n]
    BY <1>4 DEF Back
  <2> HIDE DEF page
  <2>3. n \in Tab /\ Honest(d, n) /\ n.conn = t.conn /\ n.up = t.up /\ n.shown = t.shown
    BY <1>1, <2>1 DEF Tab, Honest
  <2> HIDE DEF n
  <2> QED  BY <1>4, <2>2, <2>3, ActStep DEF Back
<1>5. ASSUME NEW right \in Entries, SubmitOwnerPin(d, right)
      PROVE  IInv'
  <2>1. HubEvent(d, "VERIFY_OWNER", 0, right) \in Sendable(d)
    BY <1>5, Numbers, AccessAssumption, HubEventType DEF HubTypes, SubmitOwnerPin
  <2> QED  BY <1>1, <1>5, <2>1, ActStep DEF SubmitOwnerPin
<1>6. ASSUME NEW p \in Pins, SubmitCourtPin(d, p)
      PROVE  IInv'
  <2> DEFINE n == [t EXCEPT !.courtPin = p, !.pending = p]
  <2>1. p \in MaybePin
    BY Numbers DEF Pins
  <2>2. n \in Tab /\ Honest(d, n) /\ n.conn = t.conn /\ n.up = t.up /\ n.shown = t.shown
    BY <1>1, <2>1 DEF Tab, Honest
  <2>3. HubEvent(d, "SET_REF", p, TRUE) \in Sendable(d)
    BY <2>1, HubEventType DEF HubTypes, OwnerRequests
  <2>4. tab' = [tab EXCEPT ![d] = n]
    BY <1>6 DEF SubmitCourtPin, IInv, TypeOK
  <2> HIDE DEF n
  <2> QED  BY <1>6, <2>2, <2>3, <2>4, ActStep DEF SubmitCourtPin
<1>7. ASSUME NEW type \in {"REGENERATE_PIN", "GENERATE_COURT_PIN"}, OwnerAsks(d, type)
      PROVE  IInv'
  <2>1. HubEvent(d, type, 0, FALSE) \in Sendable(d)
    BY Numbers, HubEventType DEF HubTypes
  <2> QED  BY <1>1, <1>7, <2>1, ActStep DEF OwnerAsks
<1>8. CASE PinTimeout(d)
  <2> DEFINE n == [t EXCEPT !.pending = 0]
  <2>1. n \in Tab /\ Honest(d, n) /\ n.conn = t.conn /\ n.up = t.up /\ n.shown = t.shown
    BY <1>1, TabTypes DEF Tab, Honest
  <2>2. tab' = [tab EXCEPT ![d] = n]
    BY <1>8 DEF PinTimeout
  <2> HIDE DEF n
  <2> QED  BY <1>8, <2>1, <2>2, ActStep DEF PinTimeout
<1>9. CASE RevokedTimer(d)
  <2> DEFINE n == [t EXCEPT !.page = "spectator"]
  <2>1. n \in Tab /\ Honest(d, n) /\ n.conn = t.conn /\ n.up = t.up /\ n.shown = t.shown
    BY <1>1, TabTypes DEF Tab, Honest
  <2>2. tab' = [tab EXCEPT ![d] = n]
    BY <1>9 DEF RevokedTimer
  <2> HIDE DEF n
  <2> QED  BY <1>9, <2>1, <2>2, ActStep DEF RevokedTimer
<1> QED  BY <1>2, <1>3, <1>4, <1>5, <1>6, <1>7, <1>8, <1>9

(* What the listeners and effects make of a tab.                              *)
Kept(d, t, n) ==
  n \in Tab /\ Honest(d, n) /\ n.conn = t.conn /\ n.up = t.up /\ n.shown = t.shown

LEMMA ListedType ==
  ASSUME NEW d, NEW t \in Tab, Honest(d, t), NEW m \in Receivable(d)
  PROVE  /\ Listed(t, m) \in Tab /\ Honest(d, Listed(t, m))
         /\ Listed(t, m).conn = t.conn /\ Listed(t, m).up = t.up
         /\ Listed(t, m).shown = IF m.type \in Listing THEN CardAfter(m) ELSE t.shown
<1>1. Shown(t, m) = (IF m.type \in Listing THEN CardAfter(m) ELSE t.shown)
  BY DEF Shown, Listing, CardAfter
<1>2. Shown(t, m) \in MaybePin
  BY Numbers DEF Shown, Receivable, TabMsg, Tab
<1>3. (t.list \/ m.type \in {"COURT_LIST", "COURT_LIST_WITH_PINS"}) \in BOOLEAN
  OBVIOUS
<1>4. d \notin Owners => t.shown = 0 /\ Shown(t, m) = 0
  BY DEF Honest, Shown, Receivable, OwnerAnswers
<1>5. /\ Listed(t, m) \in Tab /\ Listed(t, m).shown = Shown(t, m)
      /\ Listed(t, m).conn = t.conn /\ Listed(t, m).up = t.up
      /\ Listed(t, m).role = t.role /\ Listed(t, m).ownerPin = t.ownerPin
      /\ Listed(t, m).token = t.token /\ Listed(t, m).handshake = t.handshake
  BY <1>2, <1>3 DEF Listed, Tab
<1> QED  BY <1>1, <1>4, <1>5 DEF Honest

LEMMA HeardType ==
  ASSUME NEW d, NEW t \in Tab, Honest(d, t), NEW m \in Receivable(d)
  PROVE  Kept(d, t, Heard(t, m))
<1>1. CASE m.type = "OWNER_VERIFIED" /\ t.page = "auth"
  <2>1. d \in Owners /\ Heard(t, m) = SetOwner(t)
    BY <1>1 DEF Receivable, OwnerAnswers, Heard
  <2>2. SetOwner(t) \in Tab /\ SetOwner(t).conn = t.conn /\ SetOwner(t).up = t.up /\ SetOwner(t).shown = t.shown
    BY ONLY t \in Tab, TabTypes DEF SetOwner, Login, Tab
  <2>3. Honest(d, SetOwner(t))
    BY <2>1 DEF Honest
  <2> QED  BY <2>1, <2>2, <2>3 DEF Kept
<1>2. CASE m.type = "REF_SET" /\ t.pending # 0
  <2> DEFINE n == [SaveSession(t, t.pending) EXCEPT !.pending = 0, !.page = "scoreboard"]
  <2>1. Heard(t, m) = n
    BY <1>2 DEF Heard
  <2>2. n \in Tab /\ n.conn = t.conn /\ n.up = t.up /\ n.shown = t.shown
    BY ONLY t \in Tab, TabTypes DEF SaveSession, Tab
  <2>3. Honest(d, n)
    BY ONLY t \in Tab, Honest(d, t), TabTypes DEF SaveSession, Tab, Honest
  <2> HIDE DEF n
  <2> QED  BY <2>1, <2>2, <2>3 DEF Kept
<1>3. CASE m.type = "ERROR"
  BY <1>3, TabTypes DEF Heard, Tab, Honest, Kept
<1>4. CASE m.type = "REF_REVOKED" /\ t.page = "scoreboard"
  <2>1. Heard(t, m) = [t EXCEPT !.page = "revoked"]
    BY <1>4 DEF Heard
  <2> QED  BY <2>1, TabTypes DEF Tab, Honest, Kept
<1>5. CASE Heard(t, m) = t
  BY <1>5 DEF Kept
<1> QED  BY <1>1, <1>2, <1>3, <1>4, <1>5 DEF Heard

LEMMA DashboardType ==
  ASSUME NEW d, NEW t \in Tab, Honest(d, t)
  PROVE  Kept(d, t, Dashboard(t))
  BY TabTypes DEF Dashboard, Tab, Honest, Kept

LEMMA RepliesType ==
  ASSUME IInv, NEW d \in Devices, NEW t, NEW n \in Tab, NEW m, Honest(d, n)
  PROVE  Replies(d, t, n, m) \in Seq(Sendable(d))
<1>1. \A type \in HubTypes, pin \in MaybePin, right \in BOOLEAN :
        (/\ type \in OwnerRequests /\ right => d \in Owners
         /\ type = "REGENERATE_PIN" => pin = 0)
          => HubEvent(d, type, pin, right) \in Sendable(d)
  BY HubEventType
<1>2. n.courtPin \in MaybePin /\ 0 \in MaybePin /\ n.ownerPin \in BOOLEAN
  BY TabTypes DEF Tab
<1>3. n.role = "owner" \/ n.ownerPin => d \in Owners
  BY DEF Honest
<1>4. /\ n.role = "owner" => HubEvent(d, "VERIFY_OWNER", 0, TRUE) \in Sendable(d)
      /\ HubEvent(d, "SET_REF", n.courtPin, TRUE) \in Sendable(d)
      /\ HubEvent(d, "GET_COURTS_WITH_PINS", 0, n.ownerPin) \in Sendable(d)
  BY <1>1, <1>2, <1>3 DEF HubTypes, OwnerRequests
<1>5. VerifyAgain(n, m) \/ (n.role = "owner" /\ t.role # "owner") => n.role = "owner"
  BY DEF VerifyAgain
<1> QED  BY <1>4, <1>5, TabFacts, AddIfType DEF Replies

LEMMA ReceiveStep ==
  ASSUME IInv, NEW d \in Devices, Receive(d)
  PROVE  IInv'
<1> DEFINE m == Head(toTab[d])
           t == tab[d]
           listed == Listed(t, m)
           heard == Heard(listed, m)
           n == Dashboard(heard)
<1>1. /\ toTab[d] # <<>> /\ toTab' = [toTab EXCEPT ![d] = Tail(@)]
      /\ tab' = [tab EXCEPT ![d] = n] /\ toHub' = [toHub EXCEPT ![d] = Replies(d, t, n, m)]
      /\ UNCHANGED <<court, live, owner>>
  BY DEF Receive
<1>2. m \in Receivable(d) /\ Tail(toTab[d]) \in Seq(Receivable(d)) /\ t \in Tab /\ Honest(d, t)
  BY <1>1, TailType, TabFacts DEF IInv, QueuesInOrder
<1> HIDE DEF t, m
<1>3. /\ listed \in Tab /\ Honest(d, listed) /\ listed.conn = t.conn /\ listed.up = t.up
      /\ listed.shown = IF m.type \in Listing THEN CardAfter(m) ELSE t.shown
  BY <1>2, ListedType
<1> HIDE DEF listed
<1>4. Kept(d, listed, heard)
  BY <1>2, <1>3, HeardType
<1> HIDE DEF heard
<1>5. Kept(d, heard, n)
  BY <1>4, DashboardType DEF Kept
<1> HIDE DEF n
<1>6. /\ n \in Tab /\ Honest(d, n) /\ n.conn = t.conn /\ n.up = t.up
      /\ n.shown = IF m.type \in Listing THEN CardAfter(m) ELSE t.shown
  BY <1>3, <1>4, <1>5 DEF Kept
<1>7. Replies(d, t, n, m) \in Seq(SendableBy(d, n))
  <2>1. Sendable(d) = SendableBy(d, n)
    BY <1>6 DEF Sendable, SendableBy, t
  <2> QED  BY <1>6, <2>1, RepliesType
<1>8. Owners = {d} /\ n.up => WillShow(Tail(toTab[d]), n.shown, court.pin)
  <2>1. toTab[d] \in Seq(TabMsg)
    BY DEF IInv, TypeOK
  <2>2. Owners = {d} /\ n.up => WillShow(toTab[d], t.shown, court.pin)
    BY <1>6 DEF IInv, CardsInOrder, t
  <2> QED  BY <1>1, <1>6, <2>1, <2>2, HearingKeepsCard DEF m
<1>9. OwnersTyped' /\ live' \in [Devices -> SUBSET (1 .. MaxConns)]
      /\ (n.up => n.conn \in live'[d])
  BY <1>1, <1>6, OwnersKept DEF IInv, TypeOK, UpIsLive, t
<1> QED  BY <1>1, <1>2, <1>6, <1>7, <1>8, <1>9, BrowserStep
------------------------------------------------------------------------------
(* The specification.                                                         *)

LEMMA InitCorrect ==
  ASSUME Init
  PROVE  IInv
<1>1. PICK busy \in {{}} \cup {{d} : d \in Referees} :
        /\ court = [pin |-> Cardinality(busy), issued |-> Cardinality(busy),
                    players |-> {[dev |-> d, conn |-> 1, proof |-> Cardinality(busy)] : d \in busy}]
        /\ tab = [d \in Devices |->
             [FreshTab EXCEPT !.conn = 1, !.up = TRUE, !.list = TRUE,
                !.role = IF d \in Owners THEN "owner" ELSE "referee", !.ownerPin = d \in Owners,
                !.token = d \in Owners,
                !.page = IF d \in busy THEN "scoreboard" ELSE "dashboard",
                !.courtPin = IF d \in busy THEN Cardinality(busy) ELSE 0,
                !.saved = IF d \in busy THEN Cardinality(busy) ELSE 0]]
  BY DEF Init
<1>2. /\ live = [d \in Devices |-> {1}]
      /\ owner = [d \in Devices |-> IF d \in Owners THEN {1} ELSE {}]
      /\ toHub = [d \in Devices |-> <<>>]
      /\ toTab = [d \in Devices |-> <<>>]
  BY DEF Init
<1> DEFINE pin == Cardinality(busy)
<1>3. /\ pin \in {0, 1} /\ (pin = 0 => busy = {})
      /\ busy \subseteq Referees /\ \A d, e \in busy : d = e
  <2>1. CASE busy = {}
    BY <2>1, FS_EmptySet
  <2>2. ASSUME NEW d \in Referees, busy = {d}
        PROVE  pin = 1
    BY <2>2, FS_Singleton
  <2> QED  BY <2>1, <2>2
<1>4. pin \in MaybePin /\ 0 \in MaybePin /\ 1 \in 1 .. MaxConns /\ 1 \in MaybeConn
  BY <1>3, Numbers
<1> HIDE DEF pin
<1>5. court.pin = pin /\ court.issued = pin
      /\ court.players = {[dev |-> d, conn |-> 1, proof |-> pin] : d \in busy}
  BY <1>1 DEF pin
<1>6. court \in [pin: MaybePin, issued: MaybePin, players: SUBSET Connection]
  <2>1. \A d \in busy : [dev |-> d, conn |-> 1, proof |-> pin] \in Connection
    BY <1>3, <1>4 DEF Connection, Devices
  <2> QED  BY <1>1, <1>4, <2>1 DEF pin
<1>7. /\ \A d \in Devices : tab[d] \in Tab /\ tab[d].up /\ tab[d].conn = 1 /\ tab[d].shown = 0
                           /\ Honest(d, tab[d])
      /\ tab \in [Devices -> Tab]
  <2>1. FreshTab \in Tab /\ FreshTab.shown = 0 /\ ~FreshTab.handshake
    BY TabTypes, Numbers DEF Tab, FreshTab
  <2>2. ASSUME NEW d \in Devices
        PROVE  /\ tab[d] \in Tab /\ tab[d].up /\ tab[d].conn = 1 /\ tab[d].shown = 0
               /\ Honest(d, tab[d])
    <3> DEFINE role == IF d \in Owners THEN "owner" ELSE "referee"
               page == IF d \in busy THEN "scoreboard" ELSE "dashboard"
               known == IF d \in busy THEN pin ELSE 0
               mine == d \in Owners
    <3>1. role \in Roles /\ page \in Pages /\ known \in MaybePin /\ mine \in BOOLEAN
          /\ (~mine => role # "owner")
      BY <1>4, TabTypes
    <3>2. tab[d] = [FreshTab EXCEPT !.conn = 1, !.up = TRUE, !.list = TRUE, !.role = role,
                      !.ownerPin = mine, !.token = mine, !.page = page,
                      !.courtPin = known, !.saved = known]
      BY <1>1 DEF pin
    <3>3. mine = (d \in Owners)
      OBVIOUS
    <3> HIDE DEF role, page, known, mine
    <3> DEFINE opened == [FreshTab EXCEPT !.conn = 1, !.up = TRUE, !.list = TRUE, !.role = role]
               proved == [opened EXCEPT !.ownerPin = mine, !.token = mine]
               placed == [proved EXCEPT !.page = page, !.courtPin = known, !.saved = known]
    <3>4. tab[d] = placed
      BY ONLY <3>2 DEF FreshTab
    <3>5. 1 \in MaybeConn /\ FreshTab \in Tab /\ FreshTab.shown = 0 /\ ~FreshTab.handshake
      BY <1>4, <2>1
    <3>6. /\ opened \in Tab /\ opened.up /\ opened.conn = 1 /\ opened.shown = 0
          /\ opened.role = role /\ ~opened.handshake
      BY ONLY <3>1, <3>5 DEF Tab
    <3> HIDE DEF opened
    <3>7. /\ proved \in Tab /\ proved.up /\ proved.conn = 1 /\ proved.shown = 0
          /\ proved.role = role /\ ~proved.handshake /\ proved.ownerPin = mine /\ proved.token = mine
      BY ONLY <3>1, <3>6 DEF Tab
    <3> HIDE DEF proved
    <3>8. /\ placed \in Tab /\ placed.up /\ placed.conn = 1 /\ placed.shown = 0
          /\ placed.role = role /\ ~placed.handshake /\ placed.ownerPin = mine /\ placed.token = mine
      BY ONLY <3>1, <3>7 DEF Tab
    <3> HIDE DEF placed
    <3> QED  BY <3>1, <3>3, <3>4, <3>8 DEF Honest
  <2> QED  BY <1>1, <2>2
<1>8. TypeOK
  BY <1>2, <1>4, <1>6, <1>7 DEF TypeOK
<1>9. PinsInOrder /\ RefereeEntry
  <2>1. \A r \in court.players : r.proof = pin /\ r.conn \in live[r.dev] /\ pin # 0
    BY <1>2, <1>3, <1>5 DEF Devices
  <2>2. \A r, q \in court.players : r = q
    BY <1>3, <1>5
  <2> QED  BY <1>3, <1>5, <2>1, <2>2 DEF PinsInOrder, RefereeEntry
<1>10. UpIsLive /\ HonestTabs
  BY <1>2, <1>7 DEF UpIsLive, HonestTabs
<1>11. QueuesInOrder
  BY <1>2 DEF QueuesInOrder
<1>12. CardsInOrder
  BY <1>2, <1>7 DEF CardsInOrder, WillShow, Lists, Devices
<1> QED  BY <1>8, <1>9, <1>10, <1>11, <1>12 DEF IInv

LEMMA NextCorrect ==
  ASSUME IInv, [Next]_vars
  PROVE  IInv'
<1>1. CASE UNCHANGED vars
  BY <1>1 DEF vars, IInv, TypeOK, PinsInOrder, RefereeEntry, UpIsLive, HonestTabs, QueuesInOrder,
              Sendable, SendableBy, Receivable, CardsInOrder
<1>2. ASSUME NEW d \in Devices,
             \/ Connect(d) \/ Drop(d) \/ LoseInFlight(d) \/ Reload(d)
             \/ Serve(d) \/ Receive(d)
             \/ \E c \in 1 .. MaxConns : ServerDisconnect(d, c)
      PROVE  IInv'
  BY <1>2, ConnectStep, DropStep, LoseInFlightStep, ReloadStep, ServeStep, ReceiveStep,
     ServerDisconnectStep
<1> QED  BY <1>1, <1>2, UserSteps DEF Next

LEMMA Invariance == Spec => []IInv
  BY InitCorrect, NextCorrect, PTL DEF Spec

(* Every variable keeps its type, whoever has tabs open; every connection the *)
(* hub takes for an owner's is one it holds open.                             *)
THEOREM AccessTypeCorrect == Spec => []TypeOK
  BY Invariance, PTL DEF IInv

(* A court never has two referees, and its referee has proved the PIN the     *)
(* court has now, not one that was replaced before or while the SET_REF was   *)
(* under way.                                                                 *)
THEOREM RefereeIsProved == Spec => []RefereeProvedPin
<1>1. ASSUME IInv
      PROVE  RefereeProvedPin
  <2>1. \A r \in court.players : r.proof = court.pin
    BY <1>1 DEF IInv, RefereeEntry
  <2>2. Cardinality(court.players) <= 1
    <3>1. CASE court.players = {}
      BY <3>1, FS_EmptySet
    <3>2. ASSUME NEW r \in court.players
          PROVE  Cardinality(court.players) <= 1
      <4>1. court.players = {r}
        BY <1>1 DEF IInv, RefereeEntry
      <4> QED  BY <4>1, FS_Singleton
    <3> QED  BY <3>1, <3>2
  <2> QED  BY <2>1, <2>2 DEF RefereeProvedPin
<1> QED  BY <1>1, Invariance, PTL

(* An owner with one tab never reads an outdated PIN off the card of a        *)
(* connected tab that has heard everything the hub has told it.               *)
THEOREM CardIsCurrent == Spec => []ShownPinIsCurrent
<1>1. ASSUME IInv
      PROVE  ShownPinIsCurrent
  <2>1. \A d \in Devices : toTab[d] = <<>> => Lists(toTab[d]) = {}
    BY DEF Lists
  <2> QED  BY <1>1, <2>1 DEF ShownPinIsCurrent, IInv, CardsInOrder, WillShow, Devices
<1> QED  BY <1>1, Invariance, PTL

(* The hub takes no connection for an owner's but those of devices whose user *)
(* knows the owner PIN, and to no others is a referee's PIN on its way, as    *)
(* the pages ask for it: AdminHandler.ts:51-54 would also answer whoever puts *)
(* the court's PIN into REGENERATE_PIN, and no page does.  What it broadcasts *)
(* and what a connection left behind for the next one is told without PINs.   *)
PinsToOwnersOnly ==
  \A d \in Devices \ Owners :
    /\ owner[d] = {} /\ tab[d].role # "owner" /\ tab[d].shown = 0
    /\ \A i \in DOMAIN toTab[d] : toTab[d][i].type \notin OwnerAnswers

(* As the pages ask (AdminHandler.ts:46-83, useSocketActions.ts:66-68),       *)
(* PIN_REGENERATED and COURT_LIST_WITH_PINS reach owners only, through every  *)
(* drop, reload, restored token and login on the way.                         *)
THEOREM PinsStayWithOwners == Spec => []PinsToOwnersOnly
<1>1. ASSUME IInv, NEW d \in Devices \ Owners
      PROVE  /\ owner[d] = {} /\ tab[d].role # "owner" /\ tab[d].shown = 0
             /\ \A i \in DOMAIN toTab[d] : toTab[d][i].type \notin OwnerAnswers
  <2>1. owner[d] = {} /\ tab[d].role # "owner" /\ tab[d].shown = 0
    BY <1>1 DEF IInv, HonestTabs, Honest
  <2>2. toTab[d] \in Seq(Receivable(d))
    BY <1>1 DEF IInv, QueuesInOrder
  <2>3. \A i \in DOMAIN toTab[d] : toTab[d][i] \in Receivable(d)
    BY <2>2
  <2> QED  BY <2>1, <2>3 DEF Receivable
<1>2. IInv => PinsToOwnersOnly
  BY <1>1 DEF PinsToOwnersOnly
<1> QED  BY <1>2, Invariance, PTL

(* The role is lost with the connection, by a new PIN, or to one who has sent *)
(* the PIN: the disconnect of another connection never takes it.              *)
THEOREM RoleIsKept == Spec => RoleLostForAReason
<1> DEFINE Reason(r) == \/ r.conn \notin live'[r.dev]
                        \/ court'.pin # court.pin
                        \/ \E q \in court'.players : q.proof = court.pin
           Justified == \A r \in court.players : r \notin court'.players => Reason(r)
<1>1. ASSUME IInv, [Next]_vars
      PROVE  Justified
  <2>1. CASE UNCHANGED court
    BY <2>1
  <2>2. ASSUME NEW d \in Devices, NEW m, OnSetRef(d, m)
        PROVE  Justified
    <3>1. UNCHANGED court \/ ( /\ ValidatesPin(m.pin)
                               /\ court'.players = SetReferee(d, m.conn, m.pin))
      BY <1>1, <2>2 DEF OnSetRef, IInv, TypeOK
    <3>2. CASE ValidatesPin(m.pin) /\ court'.players = SetReferee(d, m.conn, m.pin)
      <4> DEFINE q == [dev |-> d, conn |-> m.conn, proof |-> m.pin]
      <4>1. q \in court'.players /\ q.proof = court.pin
        BY <3>2 DEF SetReferee, ValidatesPin
      <4> QED  BY <4>1
    <3> QED  BY <3>1, <3>2
  <2>3. ASSUME NEW d \in Devices, NEW m, OnRegeneratePin(d, m)
        PROVE  Justified
    <3>1. CASE court' = RegeneratePin
      <4>1. court'.pin = court.issued + 1
        BY <1>1, <3>1 DEF RegeneratePin, IInv, TypeOK
      <4>2. court.pin <= court.issued /\ court.pin \in MaybePin /\ court.issued \in MaybePin
        BY <1>1 DEF IInv, TypeOK, PinsInOrder
      <4>3. court'.pin # court.pin
        BY <4>1, <4>2, Numbers
      <4> QED  BY <4>3
    <3> QED  BY <2>3, <3>1 DEF OnRegeneratePin
  <2>4. ASSUME NEW d \in Devices, NEW m, OnGenerateCourtPin(d, m)
        PROVE  Justified
    <3>1. court'.players = court.players
      BY <1>1, <2>4 DEF OnGenerateCourtPin, IInv, TypeOK
    <3> QED  BY <3>1
  <2>5. ASSUME NEW d \in Devices, NEW c \in 1 .. MaxConns, ServerDisconnect(d, c)
        PROVE  Justified
    <3>1. court'.players = Staying(d, c) /\ c \notin live'[d]
      BY <1>1, <2>5 DEF ServerDisconnect, IInv, TypeOK
    <3> QED  BY <3>1 DEF Staying
  <2>6. ASSUME NEW d \in Devices, Serve(d)
        PROVE  Justified
    BY <2>1, <2>2, <2>3, <2>4, <2>6
       DEF Serve, OnVerifyOwner, OnGetCourtsWithPins, OnListCourts
  <2>7. CASE UNCHANGED vars
    BY <2>1, <2>7 DEF vars
  <2>8. ASSUME NEW d \in Devices,
               \/ Connect(d) \/ Drop(d) \/ LoseInFlight(d) \/ Reload(d) \/ Receive(d)
               \/ LoginReferee(d) \/ Logout(d) \/ Back(d)
               \/ \E right \in Entries : SubmitOwnerPin(d, right)
               \/ \E p \in Pins : SubmitCourtPin(d, p)
               \/ \E type \in {"REGENERATE_PIN", "GENERATE_COURT_PIN"} : OwnerAsks(d, type)
               \/ PinTimeout(d) \/ RevokedTimer(d)
        PROVE  Justified
    <3>1. UNCHANGED court
      BY <2>8 DEF Connect, Drop, LoseInFlight, Reload, Receive, LoginReferee, Logout, Back,
                  SubmitOwnerPin, SubmitCourtPin, OwnerAsks, PinTimeout, RevokedTimer, Unchanged
    <3> QED  BY <2>1, <3>1
  <2> QED  BY <1>1, <2>5, <2>6, <2>7, <2>8 DEF Next
<1>2. IInv /\ [Next]_vars => [Justified]_vars
  BY <1>1
<1> QED  BY <1>2, Invariance, PTL DEF Spec, RoleLostForAReason
==============================================================================
