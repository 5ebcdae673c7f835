---------------------------- MODULE ClubPlayProofs ----------------------------
(***************************************************************************)
(* The club court and its phones are correct for every number of phones,   *)
(* sessions, connections and requests under way: every session that is     *)
(* over has one truthful record, no phone of an earlier session keeps the  *)
(* score of a later one, and a phone that offers the controls keeps the    *)
(* score or is about to hear that it does not.                             *)
(*                                                                         *)
(* The proof has two halves.  The court's half (Sound) speaks of the court *)
(* and the session records alone.  The phones' half follows what each      *)
(* phone in the room is aware of (Aware): the flags its page has set, the  *)
(* messages under way to it, and their order, since an answer that lets it *)
(* in again wipes the flags.                                               *)
(***************************************************************************)
EXTENDS ClubPlay, FiniteSetTheorems, TLAPS

Statuses == {"AVAILABLE", "RESERVED", "OCCUPIED", "FINISHED"}
Player == [dev : Phones, conn : 1 .. MaxConns, proof : Pins]

------------------------------------------------------------------------------
(* The court and the session records.                                         *)

(* RecordsTellTheTruth, of any court and records.                             *)
Over(c, s) == s < c.session \/ (s = c.session /\ c.status # "OCCUPIED")

RecordsOf(h, s) == {i \in DOMAIN h : h[i].session = s}

Recorded(c, h) ==
  \A s \in Pins : Cardinality(RecordsOf(h, s)) = IF Over(c, s) THEN 1 ELSE 0

NamedFor(who, given) == IF given = {} THEN who = Nobody ELSE who \in given

Truthful(h) ==
  \A i \in DOMAIN h : NamedFor(h[i].who, h[i].given) /\ (h[i].endedBy = "admin" => h[i].admin)

(* Sessions are numbered no faster than PINs are drawn, so a court that may   *)
(* be occupied has a number for it.                                           *)
Numbered(c) ==
  /\ c.session <= c.issued
  /\ c.status = "RESERVED" => c.session < c.issued
  /\ c.status = "OCCUPIED" => c.session # 0

(* A court that lets phones in has a PIN, and those it let in gave it; one    *)
(* that waits for a session has nobody on it.                                 *)
Guarded(c) ==
  /\ c.status \in {"RESERVED", "OCCUPIED"} => c.pin # 0
  /\ c.status \in {"AVAILABLE", "RESERVED"} => c.players = {}
  /\ c.status = "OCCUPIED" => \A p \in c.players : p.proof = c.pin

(* The court's half of the inductive invariant.                               *)
Sound(c, h) ==
  /\ c \in Court /\ h \in Seq(Record)
  /\ Numbered(c) /\ Guarded(c) /\ (c.status = "OCCUPIED" => NamedFor(c.who, c.given))
  /\ Recorded(c, h) /\ Truthful(h)

LEMMA Constants ==
  /\ MaxPin \in Nat \ {0} /\ MaxConns \in Nat \ {0} /\ MaxActs \in Nat \ {0}
  /\ Nobody \notin Phones /\ AdminGuest \notin Phones /\ AdminGuest # Nobody
BY ClubPlayAssumption

LEMMA CourtFields ==
  ASSUME NEW c \in Court
  PROVE  /\ c.status \in Statuses /\ c.pin \in 0 .. MaxPin /\ c.issued \in 0 .. MaxPin
         /\ c.mode \in Modes /\ c.match \in Matches /\ c.who \in Names /\ c.admin \in BOOLEAN
         /\ c.session \in 0 .. MaxPin /\ c.given \in SUBSET Names /\ c.players \in SUBSET Player
BY DEF Court, Statuses, Player

(* The record is about session, end and number of the session alone.          *)
LEMMA RecordedFrom ==
  ASSUME NEW c, NEW h, Recorded(c, h), NEW o,
         o.session = c.session, o.status = "OCCUPIED" <=> c.status = "OCCUPIED"
  PROVE  Recorded(o, h)
BY DEF Recorded, Over

(* activate: a new PIN, and a number in hand for the session.                 *)
LEMMA ActivateSound ==
  ASSUME NEW h, Sound(court, h), court.status = "AVAILABLE", court.issued < MaxPin
  PROVE  Sound(Activate, h) /\ Activate.status = "RESERVED" /\ Activate.players = court.players
<1> DEFINE n == court.issued + 1
           c == [court EXCEPT !.status = "RESERVED", !.pin = n, !.issued = n]
<1>1. Activate = c
  BY DEF Activate, Sound, Court
<1>2. court \in Court /\ court.issued \in Nat /\ court.session \in Nat /\ n \in 0 .. MaxPin
  BY CourtFields, Constants DEF Sound
<1>3. court.session < n /\ n # 0
  BY <1>2 DEF Sound, Numbered
<1> HIDE DEF n
<1>4. /\ c \in Court /\ c.status = "RESERVED" /\ c.pin = n /\ c.issued = n
      /\ c.session = court.session /\ c.players = court.players
  BY <1>2 DEF Court
<1> HIDE DEF c
<1>5. Recorded(c, h)
  BY <1>4, RecordedFrom DEF Sound
<1> QED BY <1>1, <1>2, <1>3, <1>4, <1>5 DEF Sound, Numbered, Guarded

(* deactivate: the court is free again, its PIN void.                         *)
LEMMA DeactivateSound ==
  ASSUME NEW h, Sound(court, h), court.status = "RESERVED"
  PROVE  Sound([court EXCEPT !.status = "AVAILABLE", !.pin = 0], h)
<1> DEFINE c == [court EXCEPT !.status = "AVAILABLE", !.pin = 0]
<1>1. /\ c \in Court /\ c.status = "AVAILABLE" /\ c.issued = court.issued
      /\ c.session = court.session /\ c.players = court.players
  <2>1. court \in Court /\ 0 \in 0 .. MaxPin
    BY Constants DEF Sound
  <2> QED BY <2>1 DEF Court
<1> HIDE DEF c
<1>2. Recorded(c, h)
  BY <1>1, RecordedFrom DEF Sound
<1> QED BY <1>1, <1>2 DEF Sound, Numbered, Guarded, c

(* The session begins: the one before it is over, and nobody is on record for *)
(* the new one.                                                               *)
LEMMA OccupySound ==
  ASSUME NEW c, NEW h, Sound(c, h), c.status = "RESERVED",
         NEW mode \in Modes, NEW who \in Names, NEW admin \in BOOLEAN
  PROVE  LET o == Occupy(c, mode, who, admin)
         IN  Sound(o, h) /\ o.status = "OCCUPIED" /\ o.players = c.players /\ o.pin = c.pin
<1> DEFINE given == {who} \ {Nobody}
           n == c.session + 1
           o == [c EXCEPT !.status = "OCCUPIED", !.mode = mode, !.match = "LIVE", !.who = who,
                          !.admin = admin, !.session = n, !.given = given]
<1>1. c \in Court /\ c.session \in Nat /\ c.issued \in 0 .. MaxPin /\ c.session < c.issued
  BY CourtFields, Constants DEF Sound, Numbered
<1>2. Occupy(c, mode, who, admin) = o
  BY <1>1 DEF Occupy, Court
<1>3. n \in 0 .. MaxPin /\ n <= c.issued /\ n # 0 /\ n = c.session + 1
  BY <1>1, Constants
<1>4. given \in SUBSET Names /\ NamedFor(who, given)
  BY DEF NamedFor
<1>5. "LIVE" \in Matches
  BY DEF Matches
<1> HIDE DEF given, n
<1>6. /\ o \in Court /\ o.status = "OCCUPIED" /\ o.session = n /\ o.issued = c.issued
      /\ o.players = c.players /\ o.pin = c.pin /\ o.who = who /\ o.given = given
  BY <1>1, <1>3, <1>4, <1>5 DEF Court
<1> HIDE DEF o
<1>7. Recorded(o, h)
  <2>1. \A s \in Pins : Over(o, s) <=> Over(c, s)
    BY <1>1, <1>3, <1>6, Constants DEF Over, Pins, Sound
  <2> QED BY <2>1 DEF Sound, Recorded
<1> QED BY <1>2, <1>3, <1>4, <1>6, <1>7 DEF Sound, Numbered, Guarded, o

(* A match that starts, starts again or ends leaves all that alone.           *)
LEMMA MatchSound ==
  ASSUME NEW c, NEW h, Sound(c, h), NEW match \in Matches
  PROVE  LET o == [c EXCEPT !.match = match]
         IN  Sound(o, h) /\ o.status = c.status /\ o.players = c.players
<1> DEFINE o == [c EXCEPT !.match = match]
<1>1. /\ o \in Court /\ o.status = c.status /\ o.session = c.session /\ o.issued = c.issued
      /\ o.players = c.players /\ o.pin = c.pin /\ o.who = c.who /\ o.given = c.given
  BY DEF Sound, Court
<1> HIDE DEF o
<1>2. Recorded(o, h)
  BY <1>1, RecordedFrom DEF Sound
<1> QED BY <1>1, <1>2 DEF Sound, Numbered, Guarded, o

(* start: a name that is sent is taken over and is one of those given.        *)
LEMMA StartSound ==
  ASSUME NEW h, Sound(court, h), NEW mode \in Modes, NEW who \in Names
  PROVE  LET o == Start(mode, who)
         IN  Sound(o, h) /\ o.status = court.status /\ o.players = court.players
<1> DEFINE name == IF who = Nobody THEN court.who ELSE who
           given == court.given \cup ({who} \ {Nobody})
           o == [court EXCEPT !.mode = mode, !.who = name, !.given = given]
<1>1. Start(mode, who) = o
  BY DEF Start, Sound, Court
<1>2. name \in Names /\ given \in SUBSET Names
  BY CourtFields DEF Sound
<1>3. NamedFor(court.who, court.given) => NamedFor(name, given)
  BY DEF NamedFor
<1> HIDE DEF name, given
<1>4. /\ o \in Court /\ o.status = court.status /\ o.session = court.session
      /\ o.issued = court.issued /\ o.players = court.players /\ o.pin = court.pin
      /\ o.who = name /\ o.given = given
  BY <1>2 DEF Sound, Court
<1> HIDE DEF o
<1>5. Recorded(o, h)
  BY <1>4, RecordedFrom DEF Sound
<1> QED BY <1>1, <1>3, <1>4, <1>5 DEF Sound, Numbered, Guarded

(* A phone comes in with the PIN of a session that runs, or some leave.       *)
LEMMA PlayersSound ==
  ASSUME NEW c, NEW h, Sound(c, h), NEW players \in SUBSET Player,
         \/ players \subseteq c.players
         \/ c.status = "OCCUPIED" /\ \A p \in players : p.proof = c.pin
  PROVE  Sound([c EXCEPT !.players = players], h)
<1> DEFINE o == [c EXCEPT !.players = players]
<1>1. /\ o \in Court /\ o.status = c.status /\ o.session = c.session /\ o.issued = c.issued
      /\ o.players = players /\ o.pin = c.pin /\ o.who = c.who /\ o.given = c.given
  BY DEF Sound, Court, Player
<1> HIDE DEF o
<1>2. Recorded(o, h)
  BY <1>1, RecordedFrom DEF Sound
<1>3. Guarded(o)
  BY <1>1 DEF Sound, Guarded
<1> QED BY <1>1, <1>2, <1>3 DEF Sound, Numbered, o

(* reset: the court is empty, and its last session is still over.             *)
LEMMA ResetSound ==
  ASSUME NEW h, Sound(court, h), court.status = "FINISHED"
  PROVE  Sound(Reset, h) /\ Reset.status = "AVAILABLE" /\ Reset.players = {}
<1>1. /\ court \in Court /\ 0 \in 0 .. MaxPin /\ Nobody \in Names /\ "none" \in Modes
      /\ "WAITING" \in Matches
  BY Constants DEF Sound, Names, Modes, Matches
<1>2. /\ Reset \in Court /\ Reset.status = "AVAILABLE" /\ Reset.session = court.session
      /\ Reset.issued = court.issued /\ Reset.players = {}
  BY <1>1 DEF Reset, Court
<1>3. Recorded(Reset, h)
  BY <1>2, RecordedFrom DEF Sound
<1> QED BY <1>2, <1>3 DEF Sound, Numbered, Guarded

LEMMA RecordsFinite ==
  ASSUME NEW h \in Seq(Record), NEW s
  PROVE  IsFiniteSet(RecordsOf(h, s)) /\ Cardinality(RecordsOf(h, s)) \in Nat
<1>1. IsFiniteSet(1 .. Len(h)) /\ RecordsOf(h, s) \subseteq 1 .. Len(h)
  BY FS_Interval DEF RecordsOf
<1>2. IsFiniteSet(RecordsOf(h, s))
  BY <1>1, FS_Subset
<1> QED BY <1>2, FS_CardinalityType

LEMMA OneMoreRecord ==
  ASSUME NEW h \in Seq(Record), NEW r \in Record, NEW s
  PROVE  Cardinality(RecordsOf(Append(h, r), s))
           = Cardinality(RecordsOf(h, s)) + (IF r.session = s THEN 1 ELSE 0)
<1> DEFINE n == Len(h) + 1
<1>1. /\ DOMAIN Append(h, r) = (DOMAIN h) \cup {n} /\ n \notin DOMAIN h
      /\ Append(h, r)[n] = r /\ \A i \in DOMAIN h : Append(h, r)[i] = h[i]
  OBVIOUS
<1> HIDE DEF n
<1>2. CASE r.session = s
  <2>1. RecordsOf(Append(h, r), s) = RecordsOf(h, s) \cup {n}
    BY <1>1, <1>2 DEF RecordsOf
  <2>2. n \notin RecordsOf(h, s)
    BY <1>1 DEF RecordsOf
  <2> QED BY <1>2, <2>1, <2>2, RecordsFinite, FS_AddElement
<1>3. CASE r.session # s
  <2>1. RecordsOf(Append(h, r), s) = RecordsOf(h, s)
    BY <1>1, <1>3 DEF RecordsOf
  <2> QED BY <1>3, <2>1, RecordsFinite
<1> QED BY <1>2, <1>3

(* onClubSessionEnd: the session that ran is over and on record, once, with   *)
(* the name it went by; an admin who ends it has signed.                      *)
LEMMA EndSound ==
  ASSUME Sound(court, history), NEW endedBy \in {"player", "admin"}, End(endedBy)
  PROVE  /\ Sound(court', history') /\ court'.status = "FINISHED"
         /\ court'.players = court.players
<1> DEFINE admin == court.admin \/ endedBy = "admin"
           c == [court EXCEPT !.status = "FINISHED", !.pin = 0, !.admin = admin]
           r == [session |-> court.session, who |-> c.who, endedBy |-> endedBy,
                 admin |-> c.admin, given |-> court.given]
<1>1. /\ court \in Court /\ court.status = "OCCUPIED" /\ court.session \in Pins
      /\ history \in Seq(Record) /\ 0 \in 0 .. MaxPin /\ court.given \in SUBSET Names
      /\ court.who \in Names
  <2>1. court.session \in 0 .. MaxPin /\ court.session # 0
    BY CourtFields DEF Sound, Numbered, End, MayEnd
  <2> QED BY <2>1, Constants, CourtFields DEF Sound, End, MayEnd, Pins
<1>2. court' = c
  BY <1>1 DEF End, Ended, Court
<1>3. history' = Append(history, r)
  BY <1>2 DEF End
<1>4. admin \in BOOLEAN /\ (endedBy = "admin" => admin = TRUE)
  OBVIOUS
<1> HIDE DEF admin
<1>5. /\ c \in Court /\ c.status = "FINISHED" /\ c.session = court.session /\ c.issued = court.issued
      /\ c.players = court.players /\ c.who = court.who /\ c.admin = admin /\ c.given = court.given
  BY <1>1, <1>4 DEF Court
<1> HIDE DEF c
<1>6. /\ r \in Record /\ r.session = court.session /\ r.who = court.who
      /\ r.given = court.given /\ r.endedBy = endedBy /\ r.admin = admin
  BY <1>1, <1>4, <1>5 DEF Record
<1> HIDE DEF r
<1>7. Recorded(c, Append(history, r))
  <2> SUFFICES ASSUME NEW s \in Pins
               PROVE  Cardinality(RecordsOf(Append(history, r), s)) = IF Over(c, s) THEN 1 ELSE 0
    BY DEF Recorded
  <2>1. Cardinality(RecordsOf(Append(history, r), s))
          = Cardinality(RecordsOf(history, s)) + (IF court.session = s THEN 1 ELSE 0)
    BY <1>1, <1>6, OneMoreRecord
  <2>2. Cardinality(RecordsOf(history, s)) = IF Over(court, s) THEN 1 ELSE 0
    BY DEF Sound, Recorded
  <2>3. Over(c, s) <=> (Over(court, s) \/ s = court.session)
    BY <1>1, <1>5, Constants DEF Over, Pins
  <2>4. s = court.session => ~Over(court, s)
    BY <1>1, Constants DEF Over, Pins
  <2> QED BY <2>1, <2>2, <2>3, <2>4
<1>8. Append(history, r) \in Seq(Record) /\ Truthful(Append(history, r))
  <2>1. NamedFor(r.who, r.given) /\ (r.endedBy = "admin" => r.admin)
    BY <1>1, <1>4, <1>6 DEF Sound
  <2>2. \A i \in DOMAIN Append(history, r) :
          Append(history, r)[i] = r \/ (i \in DOMAIN history /\ Append(history, r)[i] = history[i])
    BY <1>1
  <2>3. Append(history, r) \in Seq(Record)
    BY <1>1, <1>6
  <2> QED BY <2>1, <2>2, <2>3 DEF Sound, Truthful
<1> QED BY <1>2, <1>3, <1>5, <1>7, <1>8 DEF Sound, Numbered, Guarded

------------------------------------------------------------------------------
(* The phone.                                                                 *)

LEMMA TabFields ==
  ASSUME NEW t \in Tab
  PROVE  /\ t.conn \in 1 .. MaxConns /\ t.up \in BOOLEAN /\ t.page \in {"auth", "play"}
         /\ t.pin \in 0 .. MaxPin /\ t.waiting \in 0 .. MaxConns /\ t.match \in Matches
         /\ t.loading \in BOOLEAN /\ t.error \in BOOLEAN /\ t.first \in BOOLEAN
         /\ t.reconnecting \in 0 .. MaxConns /\ t.replaced \in BOOLEAN
         /\ t.ended \in 0 .. MaxPin /\ t.mode \in Modes /\ t.confirm \in BOOLEAN
         /\ t.ending \in BOOLEAN /\ t.named \in BOOLEAN
BY DEF Tab

LEMMA Zeros ==
  /\ 0 \in 0 .. MaxConns /\ 0 \in 0 .. MaxPin
  /\ {"none", "LIVE", "FINISHED"} \subseteq Matches
  /\ {"none", "free", "match"} \subseteq Modes
  /\ Nobody \in Names /\ AdminGuest \in Names /\ Phones \subseteq Names
  /\ \A c \in 1 .. MaxConns : c \in 0 .. MaxConns
  /\ \A p \in Pins : p \in 0 .. MaxPin /\ p # 0
BY Constants DEF Matches, Modes, Names, Pins

(* What tells the player that the score is not his: the flags of his page.    *)
Flagged(t) == t.replaced \/ t.ended # 0

(* The page is the same one, of the same connection, with the same flags.     *)
SamePage(t, u) ==
  /\ u.conn = t.conn /\ u.up = t.up /\ u.page = t.page
  /\ u.replaced = t.replaced /\ u.ended = t.ended

LEMMA MountedType ==
  ASSUME NEW t \in Tab
  PROVE  /\ Mounted(t) \in Tab /\ Mounted(t).conn = t.conn /\ Mounted(t).up = t.up
         /\ Mounted(t).page = t.page /\ ~Flagged(Mounted(t))
<1> DEFINE r == [t EXCEPT !.match = "none", !.loading = TRUE, !.error = FALSE, !.first = TRUE]
           s == [r EXCEPT !.reconnecting = 0, !.replaced = FALSE, !.ended = 0, !.mode = "none"]
           u == [s EXCEPT !.confirm = FALSE, !.ending = FALSE, !.named = FALSE, !.waiting = 0]
<1>1. Mounted(t) = u
  BY DEF Mounted
<1>2. r \in Tab /\ r.conn = t.conn /\ r.up = t.up /\ r.page = t.page
  BY Zeros DEF Tab
<1> HIDE DEF r
<1>3. /\ s \in Tab /\ s.conn = r.conn /\ s.up = r.up /\ s.page = r.page
      /\ s.replaced = FALSE /\ s.ended = 0
  BY <1>2, Zeros DEF Tab
<1> HIDE DEF s
<1>4. u \in Tab /\ SamePage(s, u)
  <2>1. s \in Tab
    BY <1>3
  <2> QED BY ONLY <2>1, Zeros DEF Tab, SamePage
<1> HIDE DEF u
<1> QED BY <1>1, <1>2, <1>3, <1>4 DEF SamePage, Flagged

LEMMA HeardMatchType ==
  ASSUME NEW t \in Tab, NEW match \in Matches
  PROVE  HeardMatch(t, match) \in Tab /\ SamePage(t, HeardMatch(t, match))
<1> DEFINE seen == [t EXCEPT !.match = match, !.loading = FALSE, !.error = FALSE]
<1>1. seen \in Tab /\ SamePage(t, seen) /\ t.conn \in 0 .. MaxConns
  BY TabFields, Zeros DEF Tab, SamePage
<1>2. \/ HeardMatch(t, match) = [seen EXCEPT !.first = FALSE, !.reconnecting = t.conn]
      \/ HeardMatch(t, match) = [seen EXCEPT !.first = FALSE, !.error = TRUE]
      \/ HeardMatch(t, match) = [seen EXCEPT !.first = FALSE]
      \/ HeardMatch(t, match) = seen
  BY DEF HeardMatch
<1> HIDE DEF seen
<1>3. /\ [seen EXCEPT !.first = FALSE, !.reconnecting = t.conn] \in Tab
      /\ SamePage(seen, [seen EXCEPT !.first = FALSE, !.reconnecting = t.conn])
  BY <1>1 DEF Tab, SamePage
<1>4. /\ [seen EXCEPT !.first = FALSE, !.error = TRUE] \in Tab
      /\ SamePage(seen, [seen EXCEPT !.first = FALSE, !.error = TRUE])
  BY <1>1 DEF Tab, SamePage
<1>5. /\ [seen EXCEPT !.first = FALSE] \in Tab
      /\ SamePage(seen, [seen EXCEPT !.first = FALSE])
  BY <1>1 DEF Tab, SamePage
<1> QED BY <1>1, <1>2, <1>3, <1>4, <1>5 DEF SamePage

(* What a page is after a message: the same tab, that remembers what it was   *)
(* told, and is told of its end by no other message than SESSION_ENDED.       *)
HeardBy(t, m, u) ==
  /\ u \in Tab /\ u.conn = t.conn /\ u.up = t.up /\ u.page = t.page
  /\ u.replaced = (t.replaced \/ m.type = "REF_REVOKED")
  /\ u.ended = IF m.type = "SESSION_ENDED" THEN m.session ELSE t.ended

(* A message that leaves the page where it is and is neither of the two.      *)
LEMMA HeardInPlace ==
  ASSUME NEW t \in Tab, NEW m, NEW u \in Tab, SamePage(t, u),
         m.type # "REF_REVOKED", m.type # "SESSION_ENDED"
  PROVE  HeardBy(t, m, u)
<1>1. t.replaced \in BOOLEAN
  BY TabFields
<1> QED BY <1>1 DEF HeardBy, SamePage

(* No message makes a page forget what it was told.                           *)
LEMMA HeardType ==
  ASSUME NEW t \in Tab, NEW m \in TabMsg
  PROVE  LET u == Heard(t, m)
         IN  /\ u \in Tab /\ u.conn = t.conn /\ u.up = t.up /\ u.page = t.page
             /\ u.replaced = (t.replaced \/ m.type = "REF_REVOKED")
             /\ u.ended = IF m.type = "SESSION_ENDED" THEN m.session ELSE t.ended
<1> DEFINE u == Heard(t, m)
<1> SUFFICES HeardBy(t, m, u)
  BY DEF HeardBy
<1>1. /\ m.match \in Matches /\ m.mode \in Modes /\ m.session \in 0 .. MaxPin
      /\ m.ok \in BOOLEAN /\ t.replaced \in BOOLEAN
  BY TabFields DEF TabMsg
<1>2. CASE m.type = "MATCH_UPDATE"
  <2>1. u = HeardMatch(t, m.match)
    BY <1>2 DEF Heard
  <2> HIDE DEF u
  <2>2. u \in Tab /\ SamePage(t, u)
    BY <1>1, <2>1, HeardMatchType
  <2> QED BY <1>2, <2>2, HeardInPlace
<1>3. CASE m.type = "RECONNECT_RESULT"
  <2> DEFINE r == [t EXCEPT !.reconnecting = 0]
             s == [r EXCEPT !.match = m.match]
             q == [s EXCEPT !.mode = m.mode]
             ok == [q EXCEPT !.error = FALSE]
             no == [r EXCEPT !.error = TRUE]
  <2>1. u = ok \/ u = no
    BY <1>3 DEF Heard
  <2>2. r \in Tab /\ SamePage(t, r)
    BY Zeros DEF Tab, SamePage
  <2> HIDE DEF u, r
  <2>3. s \in Tab /\ SamePage(r, s)
    BY <1>1, <2>2 DEF Tab, SamePage
  <2>4. no \in Tab /\ SamePage(r, no)
    BY <2>2 DEF Tab, SamePage
  <2> HIDE DEF s, no
  <2>5. q \in Tab /\ SamePage(s, q)
    BY <1>1, <2>3 DEF Tab, SamePage
  <2> HIDE DEF q
  <2>6. ok \in Tab /\ SamePage(q, ok)
    BY <2>5 DEF Tab, SamePage
  <2> HIDE DEF ok
  <2>7. u \in Tab /\ SamePage(t, u)
    BY <2>1, <2>2, <2>3, <2>4, <2>5, <2>6 DEF SamePage
  <2> QED BY <1>3, <2>7, HeardInPlace
<1>4. CASE m.type = "REF_REVOKED"
  <2>1. u = [t EXCEPT !.replaced = TRUE]
    BY <1>4 DEF Heard
  <2> QED BY <1>4, <2>1 DEF Tab, HeardBy
<1>5. CASE m.type = "FREE_STARTED"
  <2>1. u = [t EXCEPT !.mode = "free"]
    BY <1>5 DEF Heard
  <2> HIDE DEF u
  <2>2. u \in Tab /\ SamePage(t, u)
    BY <2>1, Zeros DEF Tab, SamePage
  <2> QED BY <1>5, <2>2, HeardInPlace
<1>6. CASE m.type = "MATCH_RESET"
  <2>1. u = [t EXCEPT !.match = m.match, !.loading = FALSE]
    BY <1>6 DEF Heard
  <2> HIDE DEF u
  <2>2. u \in Tab /\ SamePage(t, u)
    BY <1>1, <2>1 DEF Tab, SamePage
  <2> QED BY <1>6, <2>2, HeardInPlace
<1>7. CASE m.type = "END_SESSION_CONFIRM"
  <2>1. u = [t EXCEPT !.confirm = TRUE]
    BY <1>7 DEF Heard
  <2> HIDE DEF u
  <2>2. u \in Tab /\ SamePage(t, u)
    BY <2>1 DEF Tab, SamePage
  <2> QED BY <1>7, <2>2, HeardInPlace
<1>8. CASE m.type = "SESSION_ENDED"
  <2> DEFINE s == [t EXCEPT !.pin = 0, !.ended = m.session]
             r == [s EXCEPT !.mode = "none"]
  <2>1. u = [r EXCEPT !.confirm = FALSE, !.ending = FALSE]
    BY <1>8 DEF Heard
  <2>2. /\ s \in Tab /\ s.ended = m.session
        /\ s.conn = t.conn /\ s.up = t.up /\ s.page = t.page /\ s.replaced = t.replaced
    BY <1>1, Zeros DEF Tab
  <2> HIDE DEF s
  <2>3. r \in Tab /\ SamePage(s, r)
    BY <2>2, Zeros DEF Tab, SamePage
  <2> HIDE DEF r, u
  <2>4. u \in Tab /\ SamePage(r, u)
    BY <2>1, <2>3 DEF Tab, SamePage
  <2>5. /\ u.conn = t.conn /\ u.up = t.up /\ u.page = t.page
        /\ u.replaced = t.replaced /\ u.ended = m.session
    BY <2>2, <2>3, <2>4 DEF SamePage
  <2> QED BY <1>1, <1>8, <2>4, <2>5 DEF HeardBy
<1>9. CASE m.type = "JOIN_RESULT"
  <2>1. u = t
    BY <1>9 DEF Heard
  <2> HIDE DEF u
  <2> QED BY <1>9, <2>1, HeardInPlace DEF SamePage
<1> QED BY <1>2, <1>3, <1>4, <1>5, <1>6, <1>7, <1>8, <1>9 DEF TabMsg

------------------------------------------------------------------------------
(* What is under way.                                                         *)

(* The requests that a page puts.                                             *)
LEMMA RequestType ==
  ASSUME NEW m \in HubMsg
  PROVE  /\ \A p \in 0 .. MaxPin : [m EXCEPT !.pin = p] \in HubMsg
         /\ \A who \in Names : [m EXCEPT !.who = who] \in HubMsg
BY DEF HubMsg

HubTypes == {"JOIN", "RECONNECT", "GET_MATCH_STATE", "RECORD_POINT", "START_FREE",
             "NEW_MATCH", "RESET_MATCH", "END_SESSION"}

LEMMA Requested ==
  ASSUME tab \in [Phones -> Tab], NEW d \in Phones
  PROVE  /\ \A type \in HubTypes : Request(d, type) \in HubMsg
         /\ \A t \in Tab : EndingAsks(d, t) \in Seq(HubMsg)
<1>1. \A type \in HubTypes : Request(d, type) \in HubMsg
  BY TabFields, Zeros DEF Request, HubMsg, HubTypes
<1>2. ASSUME NEW t \in Tab PROVE EndingAsks(d, t) \in Seq(HubMsg)
  <2>1. [Request(d, "END_SESSION") EXCEPT !.conn = t.conn] \in HubMsg
    BY <1>1, TabFields DEF HubMsg, HubTypes
  <2> QED BY <2>1 DEF EndingAsks
<1> QED BY <1>1, <1>2

LEMMA SentType ==
  ASSUME toHub \in [Phones -> Seq(HubMsg)], NEW d \in Phones, NEW requests \in Seq(HubMsg),
         Send(d, requests)
  PROVE  toHub' \in [Phones -> Seq(HubMsg)]
<1>1. toHub[d] \o requests \in Seq(HubMsg)
  OBVIOUS
<1> QED BY <1>1 DEF Send

LEMMA EventType ==
  \A type \in {"JOIN_RESULT", "RECONNECT_RESULT", "MATCH_UPDATE", "MATCH_RESET", "FREE_STARTED",
               "END_SESSION_CONFIRM", "SESSION_ENDED", "REF_REVOKED"} : Event(type) \in TabMsg
BY Zeros DEF Event, TabMsg

(* An end that is told has the number of its session.                         *)
News == {m \in TabMsg : m.type = "SESSION_ENDED" => m.session # 0}

(* The hub's answer lets the phone in.                                        *)
LetsIn(m) == m.type = "JOIN_RESULT" /\ m.ok

LEMMA NewsType ==
  /\ \A type \in {"JOIN_RESULT", "RECONNECT_RESULT", "MATCH_UPDATE", "MATCH_RESET", "FREE_STARTED",
                 "END_SESSION_CONFIRM", "REF_REVOKED"} :
       Event(type) \in News /\ Event(type).type = type
  /\ \A type \in {"JOIN_RESULT", "RECONNECT_RESULT"} :
       LET m == [Event(type) EXCEPT !.ok = FALSE] IN m \in News /\ ~LetsIn(m)
  /\ \A match \in Matches : MatchUpdate(match) \in News /\ ~LetsIn(MatchUpdate(match))
  /\ LET m == [Event("MATCH_RESET") EXCEPT !.match = "LIVE"] IN m \in News /\ ~LetsIn(m)
  /\ \A match \in Matches, mode \in Modes :
       LET m == [Event("RECONNECT_RESULT") EXCEPT !.match = match, !.mode = mode]
       IN  m \in News /\ ~LetsIn(m)
  /\ \A s \in Pins :
       LET m == [Event("SESSION_ENDED") EXCEPT !.session = s]
       IN  m \in News /\ ~LetsIn(m) /\ m.type = "SESSION_ENDED"
<1>1. \A type \in {"JOIN_RESULT", "RECONNECT_RESULT", "MATCH_UPDATE", "MATCH_RESET", "FREE_STARTED",
                 "END_SESSION_CONFIRM", "REF_REVOKED"} :
       Event(type) \in News /\ Event(type).type = type
  BY EventType DEF News, Event
<1>2. ASSUME NEW type \in {"JOIN_RESULT", "RECONNECT_RESULT"}
      PROVE  LET m == [Event(type) EXCEPT !.ok = FALSE] IN m \in News /\ ~LetsIn(m)
  BY Zeros DEF News, Event, TabMsg, LetsIn
<1>3. ASSUME NEW match \in Matches
      PROVE  MatchUpdate(match) \in News /\ ~LetsIn(MatchUpdate(match))
  BY Zeros DEF News, Event, MatchUpdate, TabMsg, LetsIn
<1>4. LET m == [Event("MATCH_RESET") EXCEPT !.match = "LIVE"] IN m \in News /\ ~LetsIn(m)
  BY Zeros DEF News, Event, TabMsg, LetsIn
<1>5. ASSUME NEW match \in Matches, NEW mode \in Modes
      PROVE  LET m == [Event("RECONNECT_RESULT") EXCEPT !.match = match, !.mode = mode]
             IN  m \in News /\ ~LetsIn(m)
  BY Zeros DEF News, Event, TabMsg, LetsIn
<1>6. ASSUME NEW s \in Pins
      PROVE  LET m == [Event("SESSION_ENDED") EXCEPT !.session = s]
             IN  m \in News /\ ~LetsIn(m) /\ m.type = "SESSION_ENDED"
  BY Zeros DEF News, Event, TabMsg, LetsIn
<1> QED BY <1>1, <1>2, <1>3, <1>4, <1>5, <1>6

Queues == [Phones -> Seq(News)]

LEMMA ToldQueues ==
  ASSUME toTab \in Queues, NEW R, NEW m \in News
  PROVE  /\ Told(R, m) \in Queues
         /\ \A d \in Phones :
              Told(R, m)[d] = IF \E c \in R[d] : Connected(d, c) THEN Append(toTab[d], m)
                              ELSE toTab[d]
<1>1. \A d \in Phones : Append(toTab[d], m) \in Seq(News) /\ toTab[d] \in Seq(News)
  BY DEF Queues
<1> QED BY <1>1 DEF Told, Queues

LEMMA ThenQueues ==
  ASSUME NEW queues \in Queues, NEW d \in Phones, NEW c, NEW m \in News
  PROVE  /\ Then(queues, d, c, m) \in Queues
         /\ \A e \in Phones :
              \/ Then(queues, d, c, m)[e] = queues[e]
              \/ e = d /\ Then(queues, d, c, m)[e] = Append(queues[e], m)
<1>1. Append(queues[d], m) \in Seq(News)
  BY DEF Queues
<1> QED BY <1>1 DEF Then, Queues

------------------------------------------------------------------------------
(* Awareness.                                                                 *)

Follows(q, i, types) == \E j \in DOMAIN q : j > i /\ q[j].type \in types

(* The page has heard, or will hear from a message of these types, that the   *)
(* score is not its own; and so will the page that an answer under way opens. *)
Aware(t, q, types, heard) ==
  /\ \A i \in DOMAIN q : LetsIn(q[i]) => Follows(q, i, types)
  /\ t.page = "play" => heard \/ Follows(q, 0, types)

Ends == {"SESSION_ENDED"}
Revokes == {"REF_REVOKED", "SESSION_ENDED"}

LEMMA Appended ==
  ASSUME NEW q \in Seq(News), NEW m \in News
  PROVE  /\ DOMAIN Append(q, m) = 1 .. Len(q) + 1 /\ DOMAIN q = 1 .. Len(q) /\ Len(q) \in Nat
         /\ \A i \in DOMAIN q : Append(q, m)[i] = q[i]
         /\ Append(q, m)[Len(q) + 1] = m
OBVIOUS

(* Other messages behind what is under way change nothing of it.              *)
LEMMA AwareKept ==
  ASSUME NEW t, NEW q \in Seq(News), NEW m \in News, NEW types, NEW heard,
         ~LetsIn(m), Aware(t, q, types, heard)
  PROVE  Aware(t, Append(q, m), types, heard)
<1> DEFINE r == Append(q, m)
<1>1. /\ DOMAIN r = 1 .. Len(q) + 1 /\ DOMAIN q = 1 .. Len(q) /\ Len(q) \in Nat
      /\ \A i \in DOMAIN q : r[i] = q[i]
      /\ r[Len(q) + 1] = m
  BY Appended
<1> HIDE DEF r
<1>2. \A i : Follows(q, i, types) => Follows(r, i, types)
  BY <1>1 DEF Follows
<1>3. \A i \in DOMAIN r : LetsIn(r[i]) => i \in DOMAIN q
  BY <1>1
<1> QED BY <1>1, <1>2, <1>3 DEF Aware, r

(* The message itself makes aware.                                            *)
LEMMA AwareTold ==
  ASSUME NEW t, NEW q \in Seq(News), NEW m \in News, NEW types, NEW heard,
         ~LetsIn(m), m.type \in types
  PROVE  Aware(t, Append(q, m), types, heard)
<1> DEFINE r == Append(q, m)
<1>1. /\ DOMAIN r = 1 .. Len(q) + 1 /\ Len(q) \in Nat
      /\ r[Len(q) + 1] = m
  BY Appended
<1> HIDE DEF r
<1>2. \A i \in 0 .. Len(q) : Follows(r, i, types)
  BY <1>1 DEF Follows
<1>3. \A i \in DOMAIN r : LetsIn(r[i]) => i \in 0 .. Len(q)
  BY <1>1
<1>4. 0 \in 0 .. Len(q)
  BY <1>1
<1> QED BY <1>2, <1>3, <1>4 DEF Aware, r

(* A message is heard: what follows an answer that opens the page is still to *)
(* come, and what an open page hears it does not forget.                      *)
LEMMA AwareHeard ==
  ASSUME NEW t, NEW u, NEW q \in Seq(News), q # <<>>, NEW types, NEW before, NEW after,
         Aware(t, q, types, before),
         u.page = "play" =>
           \/ LetsIn(Head(q))
           \/ t.page = "play" /\ (before => after) /\ (Head(q).type \in types => after)
  PROVE  Aware(u, Tail(q), types, after)
<1> DEFINE r == Tail(q)
<1>1. /\ DOMAIN q = 1 .. Len(q) /\ Len(q) \in Nat /\ Len(q) > 0 /\ Head(q) = q[1]
      /\ DOMAIN r = 1 .. Len(q) - 1 /\ \A i \in DOMAIN r : r[i] = q[i + 1]
  OBVIOUS
<1> HIDE DEF r
<1>2. \A i \in 1 .. Len(q) : Follows(q, i, types) => Follows(r, i - 1, types)
  <2> SUFFICES ASSUME NEW i \in 1 .. Len(q), NEW j \in DOMAIN q, j > i, q[j].type \in types
               PROVE  Follows(r, i - 1, types)
    BY DEF Follows
  <2>1. j - 1 \in DOMAIN r /\ j - 1 > i - 1 /\ r[j - 1] = q[j]
    BY <1>1
  <2> QED BY <2>1 DEF Follows
<1>3. \A i \in DOMAIN r : LetsIn(r[i]) => Follows(r, i, types)
  <2> SUFFICES ASSUME NEW i \in DOMAIN r, LetsIn(r[i])
               PROVE  Follows(r, i, types)
    OBVIOUS
  <2>1. i + 1 \in DOMAIN q /\ LetsIn(q[i + 1]) /\ i + 1 \in 1 .. Len(q) /\ (i + 1) - 1 = i
    BY <1>1
  <2>2. Follows(q, i + 1, types)
    BY <2>1 DEF Aware
  <2> QED BY <1>2, <2>1, <2>2
<1>4. ASSUME u.page = "play" PROVE after \/ Follows(r, 0, types)
  <2>1. CASE LetsIn(Head(q))
    <3>1. 1 \in DOMAIN q /\ 1 \in 1 .. Len(q) /\ 1 - 1 = 0
      BY <1>1
    <3>2. Follows(q, 1, types)
      BY <1>1, <2>1, <3>1 DEF Aware
    <3> QED BY <1>2, <3>1, <3>2
  <2>2. CASE /\ t.page = "play" /\ (before => after) /\ (Head(q).type \in types => after)
    <3>1. CASE before
      BY <2>2, <3>1
    <3>2. CASE Follows(q, 0, types)
      <4>1. PICK j \in DOMAIN q : q[j].type \in types
        BY <3>2 DEF Follows
      <4>2. CASE j = 1
        BY <1>1, <2>2, <4>1, <4>2
      <4>3. CASE j # 1
        <5>1. j - 1 \in DOMAIN r /\ j - 1 > 0 /\ r[j - 1] = q[j]
          BY <1>1, <4>3
        <5> QED BY <4>1, <5>1 DEF Follows
      <4> QED BY <4>2, <4>3
    <3> QED BY <2>2, <3>1, <3>2 DEF Aware
  <2> QED BY <1>4, <2>1, <2>2
<1> QED BY <1>3, <1>4 DEF Aware, r

------------------------------------------------------------------------------
(* The inductive invariant.                                                   *)

IsInRoom(d) == tab[d].up /\ tab[d].conn \in room[d]

KnowsReferee(d) == Aware(tab[d], toTab[d], Revokes, Flagged(tab[d]))
KnowsEnd(d) == Aware(tab[d], toTab[d], Ends, tab[d].ended # 0)

(* A phone in the room keeps the score or is aware that it does not.          *)
WhoIsIn == \A d \in Phones : IsInRoom(d) => IsReferee(d, tab[d].conn) \/ KnowsReferee(d)

(* Once the session is over, every phone in the room is aware of that, so the *)
(* court can be emptied.                                                      *)
EndHeard == court.status = "FINISHED" => \A d \in Phones : IsInRoom(d) => KnowsEnd(d)

(* The connection a phone will have next is not in the room yet.              *)
RoomsAreLive == \A d \in Phones : room[d] \subseteq live[d] /\ live[d] \subseteq 1 .. tab[d].conn

Typed ==
  /\ live \in [Phones -> SUBSET (1 .. MaxConns)] /\ room \in [Phones -> SUBSET (1 .. MaxConns)]
  /\ tab \in [Phones -> Tab]
  /\ toHub \in [Phones -> Seq(HubMsg)] /\ toTab \in Queues
  /\ acts \in 0 .. MaxActs

IInv == Sound(court, history) /\ Typed /\ RoomsAreLive /\ WhoIsIn /\ EndHeard

(* The phones stay as they are but for what is said to them.                  *)
Said ==
  /\ toTab' \in Queues
  /\ \A e \in Phones :
       \/ toTab'[e] = toTab[e]
       \/ \E m \in News : ~LetsIn(m) /\ toTab'[e] = Append(toTab[e], m)

LEMMA SaidKeeps ==
  ASSUME Typed, Said, tab' = tab, NEW e \in Phones
  PROVE  (KnowsReferee(e) => KnowsReferee(e)') /\ (KnowsEnd(e) => KnowsEnd(e)')
<1>1. toTab[e] \in Seq(News)
  BY DEF Typed, Queues
<1>2. CASE toTab'[e] = toTab[e]
  BY <1>2 DEF KnowsReferee, KnowsEnd, Aware, Follows, Flagged, Revokes, Ends
<1>3. CASE \E m \in News : ~LetsIn(m) /\ toTab'[e] = Append(toTab[e], m)
  <2>1. PICK m \in News : ~LetsIn(m) /\ toTab'[e] = Append(toTab[e], m)
    BY <1>3
  <2>2. Aware(tab[e], toTab[e], Revokes, Flagged(tab[e]))
          => Aware(tab[e], toTab'[e], Revokes, Flagged(tab[e]))
    BY <1>1, <2>1, AwareKept
  <2>3. Aware(tab[e], toTab[e], Ends, tab[e].ended # 0)
          => Aware(tab[e], toTab'[e], Ends, tab[e].ended # 0)
    BY <1>1, <2>1, AwareKept
  <2>4. /\ KnowsReferee(e)' <=> Aware(tab[e], toTab'[e], Revokes, Flagged(tab[e]))
        /\ KnowsEnd(e)' <=> Aware(tab[e], toTab'[e], Ends, tab[e].ended # 0)
    BY DEF KnowsReferee, KnowsEnd, Aware, Follows, Flagged, Revokes, Ends
  <2> QED BY <2>2, <2>3, <2>4 DEF KnowsReferee, KnowsEnd
<1> QED BY <1>2, <1>3 DEF Said

LEMMA EndIsMore == \A d \in Phones : KnowsEnd(d) => KnowsReferee(d)
BY DEF KnowsEnd, KnowsReferee, Aware, Follows, Ends, Revokes, Flagged

(* Every phone knows what it knew; nobody comes into the room or onto the     *)
(* court, or leaves the court.                                                *)
LEMMA KnowledgeKept ==
  ASSUME WhoIsIn, EndHeard, court'.players = court.players,
         court'.status = "FINISHED" => court.status = "FINISHED",
         \A d \in Phones : IsInRoom(d)' =>
           /\ IsInRoom(d) /\ tab'[d].conn = tab[d].conn
           /\ KnowsReferee(d) => KnowsReferee(d)'
           /\ KnowsEnd(d) => KnowsEnd(d)'
  PROVE  WhoIsIn' /\ EndHeard'
<1>1. \A d \in Phones : IsInRoom(d)' =>
        (IsReferee(d, tab[d].conn) => IsReferee(d, tab[d].conn)')
  BY DEF IsReferee
<1>2. WhoIsIn'
  BY <1>1 DEF WhoIsIn
<1>3. EndHeard'
  BY DEF EndHeard
<1> QED BY <1>2, <1>3

(* The court changes, but not who is on it, and its end is no news.           *)
LEMMA CourtChanges ==
  ASSUME IInv, Sound(court', history'), court'.players = court.players,
         court'.status = "FINISHED" => court.status = "FINISHED",
         Said, toHub' \in [Phones -> Seq(HubMsg)], acts' \in 0 .. MaxActs,
         UNCHANGED <<live, room, tab>>
  PROVE  IInv'
<1>1. Typed' /\ RoomsAreLive'
  BY DEF IInv, Typed, RoomsAreLive, Said
<1>2. \A d \in Phones : IsInRoom(d)' =>
           /\ IsInRoom(d) /\ tab'[d].conn = tab[d].conn
           /\ KnowsReferee(d) => KnowsReferee(d)'
           /\ KnowsEnd(d) => KnowsEnd(d)'
  BY SaidKeeps DEF IInv, IsInRoom
<1>3. WhoIsIn' /\ EndHeard'
  BY <1>2, KnowledgeKept DEF IInv
<1> QED BY <1>1, <1>3 DEF IInv

LEMMA NothingSaid ==
  ASSUME toTab \in Queues, UNCHANGED toTab
  PROVE  Said
BY DEF Said

LEMMA ToldSaid ==
  ASSUME toTab \in Queues, NEW R, NEW m \in News, ~LetsIn(m), toTab' = Told(R, m)
  PROVE  Said
BY ToldQueues DEF Said

LEMMA RepliedSaid ==
  ASSUME toTab \in Queues, NEW d \in Phones, NEW c, NEW m \in News, ~LetsIn(m), Reply(d, c, m)
  PROVE  Said
BY ThenQueues DEF Said, Reply

(* The end of the session is told to the room, on which every phone in it is  *)
(* aware of it.                                                               *)
LEMMA EndKeeps ==
  ASSUME IInv, NEW endedBy \in {"player", "admin"}, End(endedBy),
         toHub' \in [Phones -> Seq(HubMsg)], acts' \in 0 .. MaxActs,
         UNCHANGED <<live, room, tab>>
  PROVE  IInv'
<1> DEFINE m == [Event("SESSION_ENDED") EXCEPT !.session = court.session]
<1>1. Sound(court', history')
  BY EndSound DEF IInv
<1>2. court.session \in Pins
  BY CourtFields DEF IInv, Sound, Numbered, End, MayEnd, Pins
<1>3. m \in News /\ ~LetsIn(m) /\ m.type = "SESSION_ENDED"
  BY <1>2, NewsType
<1>4. toTab' = Told(room, m)
  BY DEF End, Hearers
<1> HIDE DEF m
<1>5. /\ toTab' \in Queues
      /\ \A d \in Phones : IsInRoom(d) => toTab'[d] = Append(toTab[d], m)
  BY <1>3, <1>4, ToldQueues DEF IInv, Typed, RoomsAreLive, IsInRoom, Connected
<1>6. ASSUME NEW d \in Phones, IsInRoom(d)' PROVE KnowsEnd(d)'
  <2>1. toTab'[d] = Append(toTab[d], m) /\ toTab[d] \in Seq(News)
    BY <1>5, <1>6 DEF IsInRoom, IInv, Typed, Queues
  <2>2. Aware(tab'[d], toTab'[d], Ends, tab'[d].ended # 0)
    BY <1>3, <2>1, AwareTold DEF Ends
  <2> QED BY <2>2 DEF KnowsEnd, Aware, Follows, Ends
<1>7. WhoIsIn' /\ EndHeard'
  <2>1. \A d \in Phones : KnowsEnd(d)' => KnowsReferee(d)'
    BY EndIsMore DEF KnowsEnd, KnowsReferee, Aware, Follows, Ends, Revokes, Flagged
  <2> QED BY <1>6, <2>1 DEF WhoIsIn, EndHeard
<1>8. Typed' /\ RoomsAreLive'
  BY <1>5 DEF IInv, Typed, RoomsAreLive
<1> QED BY <1>1, <1>7, <1>8 DEF IInv

(* setRefereeDirect: the phone that comes in keeps the score, and the one     *)
(* that kept it before is told so, ahead of all that is said later.           *)
LEMMA EnterKeeps ==
  ASSUME IInv, NEW o, Sound(o, history), o.status = "OCCUPIED",
         NEW d \in Phones, NEW m \in HubMsg, m.pin = o.pin, m.conn \in live[d],
         NEW answer \in News, Enter(o, d, m, answer),
         toHub' \in [Phones -> Seq(HubMsg)], acts' \in 0 .. MaxActs,
         UNCHANGED <<history, live, tab>>
  PROVE  IInv'
<1> DEFINE player == [dev |-> d, conn |-> m.conn, proof |-> m.pin]
           revoked == Event("REF_REVOKED")
           queues == Told(Displaced(d, m.conn), revoked)
<1>1. /\ m.conn \in 1 .. MaxConns /\ m.pin \in Pins /\ o \in Court
      /\ room \in [Phones -> SUBSET (1 .. MaxConns)]
  <2>1. m.conn \in 1 .. MaxConns /\ m.pin \in 0 .. MaxPin
    BY DEF HubMsg
  <2> QED BY <2>1, Constants DEF Sound, Guarded, Pins, IInv, Typed
<1>2. /\ court' = [o EXCEPT !.players = {player}]
      /\ room' = [room EXCEPT ![d] = @ \cup {m.conn}]
      /\ toTab' = Then(queues, d, m.conn, answer)
  BY DEF Enter
<1>3. player \in Player /\ player.proof = o.pin /\ player.dev = d /\ player.conn = m.conn
  BY <1>1 DEF Player
<1> HIDE DEF player
<1>4. /\ Sound(court', history') /\ court'.status = "OCCUPIED" /\ court'.players = {player}
  <2>1. Sound([o EXCEPT !.players = {player}], history)
    BY <1>3, PlayersSound
  <2> QED BY <1>1, <1>2, <2>1 DEF Court
<1>5. revoked \in News /\ revoked.type = "REF_REVOKED" /\ ~LetsIn(revoked)
  BY NewsType DEF LetsIn
<1> HIDE DEF revoked
<1>6. /\ queues \in Queues
      /\ \A e \in Phones :
           queues[e] = IF \E c \in Displaced(d, m.conn)[e] : Connected(e, c)
                       THEN Append(toTab[e], revoked) ELSE toTab[e]
  BY <1>5, ToldQueues DEF IInv, Typed
<1> HIDE DEF queues
<1>7. /\ toTab' \in Queues
      /\ \A e \in Phones : <<e, tab[e].conn>> # <<d, m.conn>> => toTab'[e] = queues[e]
  <2>1. toTab' \in Queues
    BY <1>2, <1>6, ThenQueues
  <2>2. ASSUME NEW e \in Phones, <<e, tab[e].conn>> # <<d, m.conn>> PROVE toTab'[e] = queues[e]
    <3>1. CASE e # d
      BY <1>2, <1>6, <3>1, ThenQueues
    <3>2. CASE e = d
      <4>1. ~Connected(d, m.conn)
        BY <2>2, <3>2 DEF Connected
      <4> QED BY <1>2, <4>1 DEF Then
    <3> QED BY <3>1, <3>2
  <2> QED BY <2>1, <2>2
<1>8. ASSUME NEW e \in Phones, IsInRoom(e)'
      PROVE  IsReferee(e, tab[e].conn)' \/ KnowsReferee(e)'
  <2>1. CASE <<e, tab[e].conn>> = <<d, m.conn>>
    BY <1>3, <1>4, <2>1 DEF IsReferee
  <2>2. CASE <<e, tab[e].conn>> # <<d, m.conn>>
    <3>1. IsInRoom(e) /\ Connected(e, tab[e].conn) /\ toTab[e] \in Seq(News)
      BY <1>1, <1>2, <1>8, <2>2 DEF IsInRoom, Connected, IInv, RoomsAreLive, Typed, Queues
    <3>2. Aware(tab[e], queues[e], Revokes, Flagged(tab[e]))
      <4>1. CASE IsReferee(e, tab[e].conn)
        <5>1. tab[e].conn \in Displaced(d, m.conn)[e]
          BY <2>2, <4>1 DEF IsReferee, Displaced
        <5>2. queues[e] = Append(toTab[e], revoked)
          BY <1>6, <3>1, <5>1
        <5> QED BY <1>5, <3>1, <5>2, AwareTold DEF Revokes
      <4>2. CASE ~IsReferee(e, tab[e].conn)
        <5>1. Aware(tab[e], toTab[e], Revokes, Flagged(tab[e]))
          BY <3>1, <4>2 DEF IInv, WhoIsIn, KnowsReferee
        <5>2. queues[e] = toTab[e] \/ queues[e] = Append(toTab[e], revoked)
          BY <1>6
        <5> QED BY <1>5, <3>1, <5>1, <5>2, AwareKept
      <4> QED BY <4>1, <4>2
    <3>3. toTab'[e] = queues[e]
      BY <1>7, <2>2
    <3>4. Aware(tab[e], toTab'[e], Revokes, Flagged(tab[e]))
      BY <3>2, <3>3
    <3> QED BY <3>4 DEF KnowsReferee, Aware, Follows, Flagged, Revokes
  <2> QED BY <2>1, <2>2
<1>9. WhoIsIn' /\ EndHeard'
  BY <1>4, <1>8 DEF WhoIsIn, EndHeard
<1>10. Typed' /\ RoomsAreLive'
  <2>1. \A e \in Phones : room'[e] = IF e = d THEN room[e] \cup {m.conn} ELSE room[e]
    BY <1>1, <1>2
  <2>2. room' \in [Phones -> SUBSET (1 .. MaxConns)]
    BY <1>1, <1>2
  <2>3. \A e \in Phones : room'[e] \subseteq live[e]
    BY <2>1 DEF IInv, RoomsAreLive
  <2> QED BY <1>7, <2>2, <2>3 DEF IInv, Typed, RoomsAreLive
<1> QED BY <1>4, <1>9, <1>10 DEF IInv

(* The hub notices that a connection is gone, which is not the one its phone  *)
(* has now.                                                                   *)
LEMMA DisconnectKeeps ==
  ASSUME IInv, NEW d \in Phones, NEW c, ServerDisconnect(d, c)
  PROVE  IInv'
<1> DEFINE players == {p \in court.players : <<p.dev, p.conn>> # <<d, c>>}
<1>1. /\ court \in Court /\ live \in [Phones -> SUBSET (1 .. MaxConns)]
      /\ room \in [Phones -> SUBSET (1 .. MaxConns)]
  BY DEF IInv, Typed, Sound
<1>2. /\ court' = [court EXCEPT !.players = players] /\ history' = history
      /\ live' = [live EXCEPT ![d] = @ \ {c}] /\ room' = [room EXCEPT ![d] = @ \ {c}]
      /\ tab' = tab /\ toHub' = toHub /\ toTab' = toTab /\ acts' = acts
      /\ ~(tab[d].up /\ tab[d].conn = c)
  BY DEF ServerDisconnect
<1>3. Sound(court', history') /\ court'.status = court.status /\ court'.players = players
  <2>1. players \in SUBSET Player /\ players \subseteq court.players
    BY <1>1, CourtFields
  <2> HIDE DEF players
  <2>2. Sound([court EXCEPT !.players = players], history)
    BY <2>1, PlayersSound DEF IInv
  <2> QED BY <1>1, <1>2, <2>2 DEF Court
<1>4. \A e \in Phones :
        /\ room'[e] = IF e = d THEN room[e] \ {c} ELSE room[e]
        /\ live'[e] = IF e = d THEN live[e] \ {c} ELSE live[e]
  BY <1>1, <1>2
<1>5. Typed' /\ RoomsAreLive'
  <2>1. live' \in [Phones -> SUBSET (1 .. MaxConns)] /\ room' \in [Phones -> SUBSET (1 .. MaxConns)]
    BY <1>1, <1>2
  <2> QED BY <1>2, <1>4, <2>1 DEF IInv, Typed, RoomsAreLive
<1>6. ASSUME NEW e \in Phones, IsInRoom(e)'
      PROVE  /\ IsInRoom(e) /\ tab'[e] = tab[e] /\ toTab'[e] = toTab[e]
             /\ IsReferee(e, tab[e].conn) => IsReferee(e, tab[e].conn)'
  <2>1. IsInRoom(e) /\ tab[e].up
    BY <1>2, <1>4, <1>6 DEF IsInRoom
  <2>2. <<e, tab[e].conn>> # <<d, c>>
    BY <1>2, <2>1
  <2> QED BY <1>2, <1>3, <2>1, <2>2 DEF IsReferee
<1>7. \A e \in Phones :
        /\ KnowsReferee(e) => KnowsReferee(e)'
        /\ KnowsEnd(e) => KnowsEnd(e)'
  BY <1>2 DEF KnowsReferee, KnowsEnd, Aware, Follows, Flagged, Revokes, Ends
<1>8. WhoIsIn' /\ EndHeard'
  BY <1>2, <1>3, <1>6, <1>7 DEF IInv, WhoIsIn, EndHeard
<1> QED BY <1>3, <1>5, <1>8 DEF IInv

(* The admin empties the court, when every phone in the room knows of the     *)
(* end.                                                                       *)
LEMMA ResetKeeps ==
  ASSUME IInv, ResetCourt
  PROVE  IInv'
<1>1. court.status = "FINISHED" /\ court' = Reset /\ acts' \in 0 .. MaxActs
  BY Constants DEF ResetCourt, Act, IInv, Typed
<1>2. Sound(court', history') /\ court'.status = "AVAILABLE"
  BY <1>1, ResetSound DEF IInv, ResetCourt, CourtOnly
<1>3. UNCHANGED <<live, room, tab, toHub, toTab>>
  BY DEF ResetCourt, CourtOnly
<1>4. \A d \in Phones : IsInRoom(d)' => KnowsReferee(d)'
  <2>1. \A d \in Phones : IsInRoom(d)' => KnowsReferee(d)
    BY <1>1, <1>3, EndIsMore DEF IInv, EndHeard, IsInRoom
  <2> QED BY <1>3, <2>1 DEF KnowsReferee, Aware, Follows, Flagged, Revokes
<1> QED BY <1>1, <1>2, <1>3, <1>4 DEF IInv, Typed, RoomsAreLive, WhoIsIn, EndHeard

------------------------------------------------------------------------------
(* The users' acts.                                                           *)

LEMMA ActType == ASSUME acts \in 0 .. MaxActs, Act PROVE acts' \in 0 .. MaxActs
BY Constants DEF Act

(* One phone's page changes: it leaves the room by it, or goes back to the    *)
(* login, or keeps its flags; what is under way is kept, or lost with the     *)
(* connection.                                                                *)
LEMMA PageChanges ==
  ASSUME IInv, NEW d \in Phones, NEW u \in Tab, tab' = [tab EXCEPT ![d] = u],
         u.conn = tab[d].conn, UNCHANGED <<court, history, live, room>>,
         toHub' \in [Phones -> Seq(HubMsg)], acts' \in 0 .. MaxActs, toTab' \in Queues,
         \A e \in Phones : e # d => toTab'[e] = toTab[e],
         u.up => /\ tab[d].up /\ toTab'[d] = toTab[d]
                 /\ u.page = "auth" \/ SamePage(tab[d], u)
  PROVE  IInv'
<1>1. tab' \in [Phones -> Tab] /\ tab'[d] = u /\ \A e \in Phones : e # d => tab'[e] = tab[e]
  BY DEF IInv, Typed
<1>2. Typed' /\ RoomsAreLive' /\ Sound(court', history')
  BY <1>1 DEF IInv, Typed, RoomsAreLive
<1>3. ASSUME NEW e \in Phones, IsInRoom(e)'
      PROVE  /\ IsInRoom(e) /\ tab'[e].conn = tab[e].conn
             /\ KnowsReferee(e) => KnowsReferee(e)'
             /\ KnowsEnd(e) => KnowsEnd(e)'
  <2>1. CASE e # d
    <3>1. tab'[e] = tab[e] /\ toTab'[e] = toTab[e]
      BY <1>1, <2>1
    <3> QED BY <1>3, <3>1 DEF IsInRoom, KnowsReferee, KnowsEnd, Aware, Follows, Flagged, Revokes, Ends
  <2>2. CASE e = d
    <3>1. /\ tab'[e] = u /\ u.up /\ toTab'[e] = toTab[e] /\ IsInRoom(e)
      BY <1>1, <1>3, <2>2 DEF IsInRoom
    <3>2. u.page = "auth" \/ SamePage(tab[e], u)
      BY <2>2, <3>1
    <3>3. /\ u.page = "play" => /\ tab[e].page = "play" /\ Flagged(u) = Flagged(tab[e])
                                 /\ u.ended = tab[e].ended
      BY <3>2 DEF Flagged, SamePage
    <3>4. KnowsReferee(e) => KnowsReferee(e)'
      BY <3>1, <3>3 DEF KnowsReferee, Aware, Follows, Flagged, Revokes
    <3>5. KnowsEnd(e) => KnowsEnd(e)'
      BY <3>1, <3>3 DEF KnowsEnd, Aware, Follows, Ends
    <3> QED BY <2>2, <3>1, <3>4, <3>5
  <2> QED BY <2>1, <2>2
<1>4. WhoIsIn' /\ EndHeard'
  BY <1>3, KnowledgeKept DEF IInv
<1> QED BY <1>2, <1>4 DEF IInv

(* A page that sends something, or nothing, and keeps its flags.              *)
LEMMA PageSends ==
  ASSUME IInv, NEW d \in Phones, NEW u \in Tab, tab' = [tab EXCEPT ![d] = u],
         SamePage(tab[d], u), NEW requests \in Seq(HubMsg),
         Send(d, requests) \/ UNCHANGED toHub, Unserved, Act
  PROVE  IInv'
<1>1. toHub' \in [Phones -> Seq(HubMsg)] /\ acts' \in 0 .. MaxActs
  BY SentType, ActType DEF IInv, Typed
<1>2. UNCHANGED <<court, history, live, room, toTab>> /\ toTab \in Queues
  BY DEF Unserved, IInv, Typed
<1>3. u.conn = tab[d].conn /\ u.up = tab[d].up
  BY DEF SamePage
<1> QED BY <1>1, <1>2, <1>3, PageChanges

LEMMA UserActs ==
  ASSUME IInv, NEW d \in Phones,
         \/ \E p \in Pins : Join(d, p)
         \/ PickFree(d) \/ NewMatch(d) \/ ResetMatch(d) \/ ScorePoint(d)
         \/ PressEnd(d) \/ ConfirmEnd(d) \/ CancelEnd(d)
  PROVE  IInv'
<1> DEFINE t == tab[d]
<1>1. /\ t \in Tab /\ tab \in [Phones -> Tab] /\ <<>> \in Seq(HubMsg) /\ d \in Names
      /\ t.conn \in 0 .. MaxConns
  BY TabFields, Zeros DEF IInv, Typed
<1>2. \A type \in HubTypes : Request(d, type) \in HubMsg
  BY <1>1, Requested
<1>3. \A u \in Tab : EndingAsks(d, u) \in Seq(HubMsg)
  BY <1>1, Requested
<1>4. \A m \in HubMsg : <<m>> \in Seq(HubMsg) /\ \A q \in Seq(HubMsg) : <<m>> \o q \in Seq(HubMsg)
  OBVIOUS
<1>5. ASSUME NEW p \in Pins, Join(d, p) PROVE IInv'
  <2> DEFINE u == [t EXCEPT !.pin = p, !.waiting = t.conn]
             m == [Request(d, "JOIN") EXCEPT !.pin = p]
  <2>1. u \in Tab /\ SamePage(t, u)
    BY <1>1, Zeros DEF Tab, SamePage
  <2>2. tab' = [tab EXCEPT ![d] = u]
    BY <1>1, <1>5 DEF Join
  <2>3. m \in HubMsg
    <3>1. Request(d, "JOIN") \in HubMsg /\ p \in 0 .. MaxPin
      BY <1>2, Zeros DEF HubTypes
    <3> QED BY <3>1, RequestType
  <2>4. Send(d, <<m>>) /\ Unserved /\ Act
    BY <1>5 DEF Join, Asks
  <2> HIDE DEF u, m
  <2> QED BY <1>4, <2>1, <2>2, <2>3, <2>4, PageSends
<1>6. ASSUME PickFree(d) PROVE IInv'
  <2> DEFINE u == [t EXCEPT !.first = FALSE]
             who == IF Stage(tab[d]) = "config" THEN d ELSE Nobody
             m == [Request(d, "START_FREE") EXCEPT !.who = who]
  <2>1. u \in Tab /\ SamePage(t, u)
    BY <1>1 DEF Tab, SamePage
  <2>2. tab' = [tab EXCEPT ![d] = u]
    BY <1>1, <1>6 DEF PickFree
  <2>3. m \in HubMsg
    <3>1. who \in Names /\ Request(d, "START_FREE") \in HubMsg
      BY <1>1, <1>2, Zeros DEF HubTypes
    <3> HIDE DEF who
    <3> QED BY <3>1, RequestType
  <2>4. Send(d, <<m>>) /\ Unserved /\ Act
    BY <1>6 DEF PickFree, Asks
  <2> HIDE DEF u, m
  <2> QED BY <1>4, <2>1, <2>2, <2>3, <2>4, PageSends
<1>7. ASSUME NewMatch(d) PROVE IInv'
  <2> DEFINE named == tab[d].named \/ Stage(tab[d]) = "config"
             u == [t EXCEPT !.first = FALSE, !.mode = "match", !.named = named]
             who == IF named THEN d ELSE Nobody
             m == [Request(d, "NEW_MATCH") EXCEPT !.who = who]
  <2>1. u \in Tab /\ SamePage(t, u)
    <3>1. named \in BOOLEAN
      OBVIOUS
    <3> HIDE DEF named
    <3> QED BY <1>1, <3>1, Zeros DEF Tab, SamePage
  <2>2. tab' = [tab EXCEPT ![d] = u]
    BY <1>1, <1>7 DEF NewMatch
  <2>3. m \in HubMsg
    <3>1. who \in Names /\ Request(d, "NEW_MATCH") \in HubMsg
      BY <1>1, <1>2, Zeros DEF HubTypes
    <3> HIDE DEF who
    <3> QED BY <3>1, RequestType
  <2>4. Send(d, <<m>>) /\ Unserved /\ Act
    BY <1>7 DEF NewMatch, Asks
  <2> HIDE DEF u, m
  <2> QED BY <1>4, <2>1, <2>2, <2>3, <2>4, PageSends
<1>8. ASSUME ResetMatch(d) PROVE IInv'
  <2> DEFINE u == [t EXCEPT !.first = FALSE]
  <2>1. u \in Tab /\ SamePage(t, u)
    BY <1>1 DEF Tab, SamePage
  <2>2. tab' = [tab EXCEPT ![d] = u]
    BY <1>1, <1>8 DEF ResetMatch
  <2>3. Request(d, "RESET_MATCH") \in HubMsg
    BY <1>2 DEF HubTypes
  <2>4. Send(d, <<Request(d, "RESET_MATCH")>>) /\ Unserved /\ Act
    BY <1>8 DEF ResetMatch, Asks
  <2> HIDE DEF u
  <2> QED BY <1>4, <2>1, <2>2, <2>3, <2>4, PageSends
<1>9. ASSUME ScorePoint(d) PROVE IInv'
  <2>1. tab' = [tab EXCEPT ![d] = t]
    BY <1>1, <1>9 DEF ScorePoint
  <2>2. SamePage(t, t)
    BY DEF SamePage
  <2>3. Request(d, "RECORD_POINT") \in HubMsg
    BY <1>2 DEF HubTypes
  <2>4. Send(d, <<Request(d, "RECORD_POINT")>>) /\ Unserved /\ Act
    BY <1>9 DEF ScorePoint, Asks
  <2> HIDE DEF t
  <2> QED BY <1>1, <1>4, <2>1, <2>2, <2>3, <2>4, PageSends DEF t
<1>10. ASSUME PressEnd(d) PROVE IInv'
  <2> DEFINE u == [t EXCEPT !.ending = TRUE]
  <2>1. u \in Tab /\ SamePage(t, u)
    BY <1>1 DEF Tab, SamePage
  <2>2. tab' = [tab EXCEPT ![d] = u]
    BY <1>1, <1>10 DEF PressEnd
  <2>3. Send(d, EndingAsks(d, u)) /\ Unserved /\ Act
    BY <1>1, <1>10, <2>2 DEF PressEnd
  <2> HIDE DEF u
  <2> QED BY <1>3, <2>1, <2>2, <2>3, PageSends
<1>11. ASSUME ConfirmEnd(d) PROVE IInv'
  <2> DEFINE u == [t EXCEPT !.confirm = FALSE]
             m == [Request(d, "END_SESSION") EXCEPT !.confirm = TRUE]
  <2>1. u \in Tab /\ SamePage(t, u)
    BY <1>1 DEF Tab, SamePage
  <2>2. tab' = [tab EXCEPT ![d] = u]
    BY <1>1, <1>11 DEF ConfirmEnd
  <2>3. m \in HubMsg
    BY <1>2 DEF HubTypes, HubMsg
  <2>4. Send(d, <<m>> \o EndingAsks(d, u)) /\ Unserved /\ Act
    BY <1>1, <1>11, <2>2 DEF ConfirmEnd, Asks
  <2> HIDE DEF u, m
  <2>5. <<m>> \o EndingAsks(d, u) \in Seq(HubMsg)
    BY <1>3, <1>4, <2>1, <2>3
  <2> QED BY <2>1, <2>2, <2>4, <2>5, PageSends
<1>12. ASSUME CancelEnd(d) PROVE IInv'
  <2> DEFINE u == [t EXCEPT !.confirm = FALSE, !.ending = FALSE]
  <2>1. u \in Tab /\ SamePage(t, u)
    BY <1>1 DEF Tab, SamePage
  <2>2. tab' = [tab EXCEPT ![d] = u]
    BY <1>1, <1>12 DEF CancelEnd
  <2>3. UNCHANGED toHub /\ Unserved /\ Act
    BY <1>12 DEF CancelEnd
  <2> HIDE DEF u
  <2> QED BY <1>1, <2>1, <2>2, <2>3, PageSends
<1> QED BY <1>5, <1>6, <1>7, <1>8, <1>9, <1>10, <1>11, <1>12

LEMMA GoHomeKeeps ==
  ASSUME IInv, NEW d \in Phones, GoHome(d)
  PROVE  IInv'
<1> DEFINE t == tab[d]
           mounted == Mounted(t)
           u == [mounted EXCEPT !.page = "auth"]
<1>1. t \in Tab /\ tab \in [Phones -> Tab]
  BY DEF IInv, Typed
<1>2. mounted \in Tab /\ mounted.conn = t.conn /\ mounted.up = t.up
  BY <1>1, MountedType
<1> HIDE DEF mounted
<1>3. u \in Tab /\ u.conn = t.conn /\ u.up = t.up /\ u.page = "auth"
  BY <1>2 DEF Tab
<1>4. tab' = [tab EXCEPT ![d] = u]
  BY <1>1 DEF GoHome, mounted
<1> HIDE DEF u
<1>5. /\ UNCHANGED <<court, history, live, room, toHub, toTab>> /\ acts' \in 0 .. MaxActs
      /\ toTab \in Queues /\ toHub \in [Phones -> Seq(HubMsg)]
  BY ActType DEF GoHome, Unserved, IInv, Typed
<1> QED BY <1>3, <1>4, <1>5, PageChanges

LEMMA LoseType ==
  ASSUME Typed, NEW d \in Phones, Lose(d)
  PROVE  /\ toTab' \in Queues /\ toHub' \in [Phones -> Seq(HubMsg)]
         /\ \A e \in Phones : e # d => toTab'[e] = toTab[e]
<1>1. PICK n \in 0 .. Len(toHub[d]) : toHub' = [toHub EXCEPT ![d] = SubSeq(@, 1, n)]
  BY DEF Lose
<1>2. toHub[d] \in Seq(HubMsg) /\ <<>> \in Seq(News)
  BY DEF Typed
<1>3. SubSeq(toHub[d], 1, n) \in Seq(HubMsg)
  BY <1>2
<1>4. toTab' = [toTab EXCEPT ![d] = <<>>]
  BY DEF Lose
<1> QED BY <1>1, <1>2, <1>3, <1>4 DEF Typed, Queues

(* The connection is lost; a page that is loaded anew forgets its flags.      *)
LEMMA DropKeeps ==
  ASSUME IInv, NEW d \in Phones, Drop(d) \/ Reload(d)
  PROVE  IInv'
<1> DEFINE t == tab[d]
           mounted == Mounted(t)
           u == IF Drop(d) THEN [t EXCEPT !.up = FALSE] ELSE [mounted EXCEPT !.up = FALSE]
<1>1. t \in Tab /\ tab \in [Phones -> Tab]
  BY DEF IInv, Typed
<1>2. mounted \in Tab /\ mounted.conn = t.conn
  BY <1>1, MountedType
<1> HIDE DEF mounted
<1>3. u \in Tab /\ u.conn = t.conn /\ u.up = FALSE
  BY <1>1, <1>2 DEF Tab
<1>4. tab' = [tab EXCEPT ![d] = u]
  BY <1>1 DEF Drop, Reload, mounted
<1> HIDE DEF u
<1>5. Lose(d) /\ Act /\ UNCHANGED <<court, history, live, room>>
  BY DEF Drop, Reload
<1>6. /\ toTab' \in Queues /\ toHub' \in [Phones -> Seq(HubMsg)]
      /\ \A e \in Phones : e # d => toTab'[e] = toTab[e]
      /\ acts' \in 0 .. MaxActs
  BY <1>5, LoseType, ActType DEF IInv, Typed
<1> QED BY <1>3, <1>4, <1>5, <1>6, PageChanges

(* The new connection is in no room.                                          *)
LEMMA ConnectKeeps ==
  ASSUME IInv, NEW d \in Phones, Connect(d)
  PROVE  IInv'
<1> DEFINE t == tab[d]
           c == tab[d].conn + 1
           u == [t EXCEPT !.conn = c, !.up = TRUE, !.loading = TRUE]
           m == [Request(d, "GET_MATCH_STATE") EXCEPT !.conn = c]
<1>1. /\ t \in Tab /\ tab \in [Phones -> Tab] /\ t.conn \in 1 .. MaxConns
      /\ live \in [Phones -> SUBSET (1 .. MaxConns)]
  BY TabFields DEF IInv, Typed
<1>2. c \in 1 .. MaxConns /\ c > t.conn
  BY <1>1, Constants DEF Connect
<1>3. /\ tab' = [tab EXCEPT ![d] = u] /\ live' = [live EXCEPT ![d] = @ \cup {c}]
      /\ UNCHANGED <<court, history, room, toTab, acts>>
  BY <1>1 DEF Connect
<1>4. toHub' \in [Phones -> Seq(HubMsg)]
  <2>1. m \in HubMsg
    <3>1. Request(d, "GET_MATCH_STATE") \in HubMsg
      BY <1>1, Requested DEF HubTypes
    <3>2. \A r \in HubMsg : [r EXCEPT !.conn = c] \in HubMsg
      BY <1>2 DEF HubMsg
    <3> QED BY <3>1, <3>2
  <2>2. EndingAsks(d, tab'[d]) \in Seq(HubMsg)
    <3>1. u \in Tab
      BY <1>1, <1>2 DEF Tab
    <3>2. tab'[d] = u
      BY <1>1, <1>3
    <3> HIDE DEF u
    <3> QED BY <1>1, <3>1, <3>2, Requested
  <2>3. <<m>> \o EndingAsks(d, tab'[d]) \in Seq(HubMsg)
    BY <2>1, <2>2
  <2>4. Send(d, <<m>> \o EndingAsks(d, tab'[d])) \/ UNCHANGED toHub
    BY DEF Connect
  <2> QED BY <2>3, <2>4, SentType DEF IInv, Typed
<1> HIDE DEF c
<1>5. u \in Tab /\ u.conn = c
  BY <1>1, <1>2 DEF Tab
<1> HIDE DEF u
<1>6. tab' \in [Phones -> Tab] /\ tab'[d] = u /\ \A e \in Phones : e # d => tab'[e] = tab[e]
  BY <1>1, <1>3, <1>5
<1>7. live' \in [Phones -> SUBSET (1 .. MaxConns)]
  BY <1>1, <1>2, <1>3
<1>8. RoomsAreLive'
  <2>1. \A e \in Phones : live'[e] = IF e = d THEN live[e] \cup {c} ELSE live[e]
    BY <1>1, <1>3
  <2>2. ASSUME NEW e \in Phones PROVE room[e] \subseteq live'[e] /\ live'[e] \subseteq 1 .. tab'[e].conn
    <3>1. room[e] \subseteq live[e] /\ live[e] \subseteq 1 .. tab[e].conn
      BY DEF IInv, RoomsAreLive
    <3>2. CASE e # d
      BY <1>6, <2>1, <3>1, <3>2
    <3>3. CASE e = d
      <4>1. live[d] \subseteq 1 .. c /\ c \in 1 .. c
        BY <1>1, <1>2, <3>1, <3>3
      <4> QED BY <1>5, <1>6, <2>1, <3>1, <3>3, <4>1
    <3> QED BY <3>2, <3>3
  <2> QED BY <1>3, <2>2 DEF RoomsAreLive
<1>9. c \notin room[d]
  BY <1>1, <1>2 DEF IInv, RoomsAreLive
<1>10. ASSUME NEW e \in Phones, IsInRoom(e)'
      PROVE  /\ IsInRoom(e) /\ tab'[e].conn = tab[e].conn
             /\ KnowsReferee(e) => KnowsReferee(e)'
             /\ KnowsEnd(e) => KnowsEnd(e)'
  <2>1. e # d
    BY <1>3, <1>5, <1>6, <1>9, <1>10 DEF IsInRoom
  <2>2. tab'[e] = tab[e] /\ toTab'[e] = toTab[e] /\ room'[e] = room[e]
    BY <1>3, <1>6, <2>1
  <2> QED BY <1>10, <2>2 DEF IsInRoom, KnowsReferee, KnowsEnd, Aware, Follows, Flagged, Revokes, Ends
<1>11. WhoIsIn' /\ EndHeard'
  BY <1>3, <1>10, KnowledgeKept DEF IInv
<1> QED BY <1>3, <1>4, <1>6, <1>7, <1>8, <1>11 DEF IInv, Typed

------------------------------------------------------------------------------
(* A phone hears a message.                                                   *)

(* How the page takes message m.                                              *)
Takes(t, u, m) ==
  /\ u \in Tab /\ u.conn = t.conn /\ u.up = t.up
  /\ u.page = "play" =>
       \/ LetsIn(m)
       \/ /\ t.page = "play"
          /\ u.replaced = (t.replaced \/ m.type = "REF_REVOKED")
          /\ u.ended = IF m.type = "SESSION_ENDED" THEN m.session ELSE t.ended

LEMMA MessageTaken ==
  ASSUME IInv, NEW d \in Phones, NEW u, toTab[d] # <<>>, Takes(tab[d], u, Head(toTab[d])),
         tab' = [tab EXCEPT ![d] = u], toTab' = [toTab EXCEPT ![d] = Tail(@)],
         toHub' \in [Phones -> Seq(HubMsg)], UNCHANGED <<court, history, live, room, acts>>
  PROVE  IInv'
<1> DEFINE q == toTab[d]
           m == Head(q)
           t == tab[d]
<1>1. /\ tab \in [Phones -> Tab] /\ toTab \in [Phones -> Seq(News)] /\ u \in Tab /\ t \in Tab
      /\ u.conn = t.conn /\ u.up = t.up
  BY DEF IInv, Typed, Queues, Takes
<1>2. q \in Seq(News) /\ m \in News /\ Tail(q) \in Seq(News)
  <2>1. q \in Seq(News) /\ q # <<>>
    BY <1>1
  <2> HIDE DEF q
  <2> QED BY <2>1
<1>3. /\ tab' \in [Phones -> Tab] /\ tab'[d] = u /\ \A e \in Phones : e # d => tab'[e] = tab[e]
      /\ toTab' \in Queues /\ toTab'[d] = Tail(q) /\ \A e \in Phones : e # d => toTab'[e] = toTab[e]
  BY <1>1, <1>2 DEF Queues
<1>4. Typed' /\ RoomsAreLive' /\ Sound(court', history')
  BY <1>1, <1>3 DEF IInv, Typed, RoomsAreLive
<1>5. m.type = "SESSION_ENDED" => m.session # 0
  BY <1>2 DEF News
<1>6. ASSUME Aware(t, q, Revokes, Flagged(t)) PROVE Aware(u, Tail(q), Revokes, Flagged(u))
  <2>1. u.page = "play" =>
          \/ LetsIn(m)
          \/ /\ t.page = "play" /\ (Flagged(t) => Flagged(u))
             /\ (m.type \in Revokes => Flagged(u))
    BY <1>5 DEF Takes, Flagged, Revokes
  <2> QED BY <1>2, <1>6, <2>1, AwareHeard
<1>7. ASSUME Aware(t, q, Ends, t.ended # 0) PROVE Aware(u, Tail(q), Ends, u.ended # 0)
  <2>1. u.page = "play" =>
          \/ LetsIn(m)
          \/ /\ t.page = "play" /\ (t.ended # 0 => u.ended # 0)
             /\ (m.type \in Ends => u.ended # 0)
    BY <1>5 DEF Takes, Ends
  <2> QED BY <1>2, <1>7, <2>1, AwareHeard
<1>8. ASSUME NEW e \in Phones, IsInRoom(e)'
      PROVE  /\ IsInRoom(e) /\ tab'[e].conn = tab[e].conn
             /\ KnowsReferee(e) => KnowsReferee(e)'
             /\ KnowsEnd(e) => KnowsEnd(e)'
  <2>1. CASE e # d
    <3>1. tab'[e] = tab[e] /\ toTab'[e] = toTab[e]
      BY <1>3, <2>1
    <3> QED BY <1>8, <3>1 DEF IsInRoom, KnowsReferee, KnowsEnd, Aware, Follows, Flagged, Revokes, Ends
  <2>2. CASE e = d
    <3>1. IsInRoom(e) /\ tab'[e] = u /\ toTab'[e] = Tail(q)
      BY <1>1, <1>3, <1>8, <2>2 DEF IsInRoom
    <3>2. KnowsReferee(e)' <=> Aware(u, Tail(q), Revokes, Flagged(u))
      BY <3>1 DEF KnowsReferee, Aware, Follows, Flagged, Revokes
    <3>3. KnowsEnd(e)' <=> Aware(u, Tail(q), Ends, u.ended # 0)
      BY <3>1 DEF KnowsEnd, Aware, Follows, Ends
    <3> QED BY <1>1, <1>6, <1>7, <2>2, <3>1, <3>2, <3>3 DEF KnowsReferee, KnowsEnd
  <2> QED BY <2>1, <2>2
<1>9. WhoIsIn' /\ EndHeard'
  BY <1>8, KnowledgeKept DEF IInv
<1> QED BY <1>4, <1>9 DEF IInv

LEMMA ReceiveKeeps ==
  ASSUME IInv, NEW d \in Phones, Receive(d)
  PROVE  IInv'
<1> DEFINE t == tab[d]
           m == Head(toTab[d])
<1>1. /\ t \in Tab /\ tab \in [Phones -> Tab] /\ toHub \in [Phones -> Seq(HubMsg)]
      /\ <<>> \in Seq(HubMsg) /\ toTab[d] # <<>> /\ m \in TabMsg
  <2>1. toTab[d] \in Seq(News) /\ toTab[d] # <<>>
    BY DEF IInv, Typed, Queues, Receive
  <2>2. m \in News
    BY <2>1
  <2> QED BY <2>1, <2>2 DEF IInv, Typed, News
<1>2. toTab' = [toTab EXCEPT ![d] = Tail(@)] /\ UNCHANGED <<court, history, live, room, acts>>
  BY DEF Receive
<1>3. \A type \in HubTypes : <<Request(d, type)>> \in Seq(HubMsg)
  BY <1>1, Requested
<1>4. CASE /\ t.page = "auth" /\ m.type = "JOIN_RESULT"
           /\ tab' = [tab EXCEPT ![d] = [Mounted(t) EXCEPT !.page = IF m.ok THEN "play" ELSE "auth"]]
           /\ Send(d, IF m.ok THEN <<Request(d, "GET_MATCH_STATE")>> ELSE <<>>)
  <2> DEFINE page == IF m.ok THEN "play" ELSE "auth"
             mounted == Mounted(t)
             u == [mounted EXCEPT !.page = page]
             requests == IF m.ok THEN <<Request(d, "GET_MATCH_STATE")>> ELSE <<>>
  <2>1. mounted \in Tab /\ mounted.conn = t.conn /\ mounted.up = t.up /\ page \in {"auth", "play"}
    BY <1>1, MountedType
  <2>2. page = "play" => LetsIn(m)
    BY <1>4 DEF LetsIn
  <2>3. tab' = [tab EXCEPT ![d] = u] /\ Send(d, requests)
    BY <1>4
  <2>4. requests \in Seq(HubMsg)
    BY <1>1, <1>3 DEF HubTypes
  <2> HIDE DEF mounted, page, requests
  <2>5. Takes(t, u, m)
    BY <2>1, <2>2 DEF Takes, Tab
  <2> HIDE DEF u
  <2>6. toHub' \in [Phones -> Seq(HubMsg)]
    BY <1>1, <2>3, <2>4, SentType
  <2> QED BY <1>1, <1>2, <2>3, <2>5, <2>6, MessageTaken
<1>5. CASE t.page = "auth" /\ m.type # "JOIN_RESULT" /\ UNCHANGED <<tab, toHub>>
  <2>1. Takes(t, t, m) /\ tab' = [tab EXCEPT ![d] = t]
    BY <1>1, <1>5 DEF Takes
  <2> QED BY <1>1, <1>2, <1>5, <2>1, MessageTaken
<1>6. CASE /\ t.page = "play"
           /\ tab' = [tab EXCEPT ![d] = Heard(t, m)]
           /\ Send(d, IF tab'[d].reconnecting # t.reconnecting /\ t.reconnecting = 0
                      THEN <<Request(d, "RECONNECT")>> ELSE <<>>)
  <2> DEFINE u == Heard(t, m)
             requests == IF tab'[d].reconnecting # t.reconnecting /\ t.reconnecting = 0
                         THEN <<Request(d, "RECONNECT")>> ELSE <<>>
  <2>1. Takes(t, u, m)
    BY <1>1, <1>6, HeardType DEF Takes
  <2>2. requests \in Seq(HubMsg)
    BY <1>1, <1>3 DEF HubTypes
  <2>3. tab' = [tab EXCEPT ![d] = u] /\ Send(d, requests)
    BY <1>6
  <2> HIDE DEF u, requests
  <2>4. toHub' \in [Phones -> Seq(HubMsg)]
    BY <1>1, <2>2, <2>3, SentType
  <2> QED BY <1>1, <1>2, <2>1, <2>3, <2>4, MessageTaken
<1> QED BY <1>4, <1>5, <1>6 DEF Receive

------------------------------------------------------------------------------
(* The hub serves a request; the admin's requests.                            *)

LEMMA ServeKeeps ==
  ASSUME IInv, NEW d \in Phones, Serve(d)
  PROVE  IInv'
<1> DEFINE m == Head(toHub[d])
<1>1. /\ m \in HubMsg /\ m.conn \in live[d] /\ toHub' \in [Phones -> Seq(HubMsg)]
      /\ acts' \in 0 .. MaxActs /\ UNCHANGED <<live, tab>>
  <2>1. /\ toHub[d] \in Seq(HubMsg) /\ toHub[d] # <<>> /\ toHub \in [Phones -> Seq(HubMsg)]
        /\ toHub' = [toHub EXCEPT ![d] = Tail(@)]
    BY DEF IInv, Typed, Serve
  <2>2. Tail(toHub[d]) \in Seq(HubMsg) /\ m \in HubMsg
    BY <2>1
  <2> QED BY <2>1, <2>2 DEF IInv, Typed, Serve
<1>2. /\ court \in Court /\ court.match \in Matches /\ court.mode \in Modes /\ m.who \in Names
      /\ Sound(court, history) /\ toTab \in Queues
  BY <1>1, CourtFields DEF IInv, Sound, Typed, HubMsg
<1> HIDE DEF m
<1>3. ASSUME UNCHANGED <<court, room, history>>, Said PROVE IInv'
  BY <1>1, <1>3, CourtChanges DEF IInv
<1>4. ASSUME NEW type \in {"JOIN_RESULT", "RECONNECT_RESULT"}, Refuse(d, m, type), UNCHANGED history
      PROVE  IInv'
  <2>1. Said
    BY <1>2, <1>4, NewsType, RepliedSaid DEF Refuse
  <2> QED BY <1>3, <1>4, <2>1 DEF Refuse
<1>5. ASSUME NEW c, Sound(c, history), c.status = court.status, c.players = court.players,
             court' = c, UNCHANGED <<room, history>>,
             NEW n \in News, ~LetsIn(n), ToRoom(n)
      PROVE  IInv'
  <2>1. Said
    BY <1>2, <1>5, ToldSaid DEF ToRoom
  <2> QED BY <1>1, <1>5, <2>1, CourtChanges
<1>6. ASSUME OnJoin(d, m) PROVE IInv'
  <2>1. CASE Refuse(d, m, "JOIN_RESULT")
    BY <1>4, <1>6, <2>1 DEF OnJoin
  <2>2. CASE /\ FoundBy(m.pin)
             /\ Enter(IF court.status = "RESERVED" THEN Occupy(court, "none", Nobody, FALSE)
                      ELSE court, d, m, Event("JOIN_RESULT"))
    <3> DEFINE o == IF court.status = "RESERVED" THEN Occupy(court, "none", Nobody, FALSE) ELSE court
    <3>1. Sound(o, history) /\ o.status = "OCCUPIED" /\ m.pin = o.pin
      <4>1. CASE court.status = "RESERVED"
        <5>1. "none" \in Modes /\ Nobody \in Names /\ FALSE \in BOOLEAN
          BY Zeros
        <5>2. LET new == Occupy(court, "none", Nobody, FALSE)
              IN  Sound(new, history) /\ new.status = "OCCUPIED" /\ new.pin = court.pin
          BY <1>2, <4>1, <5>1, OccupySound
        <5>3. o = Occupy(court, "none", Nobody, FALSE) /\ m.pin = court.pin
          BY <2>2, <4>1 DEF FoundBy
        <5> HIDE DEF o
        <5> QED BY ONLY <5>2, <5>3
      <4>2. CASE court.status # "RESERVED"
        BY <1>2, <2>2, <4>2 DEF FoundBy
      <4> QED BY <4>1, <4>2
    <3> HIDE DEF o
    <3>2. Event("JOIN_RESULT") \in News /\ Enter(o, d, m, Event("JOIN_RESULT"))
      BY <2>2, NewsType DEF o
    <3> QED BY <1>1, <1>6, <3>1, <3>2, EnterKeeps DEF OnJoin
  <2> QED BY <1>6, <2>1, <2>2 DEF OnJoin
<1>7. ASSUME OnReconnect(d, m) PROVE IInv'
  <2> DEFINE answer == [Event("RECONNECT_RESULT") EXCEPT !.match = court.match, !.mode = court.mode]
  <2>1. CASE Answered(d, m)
    BY <1>4, <1>7, <2>1 DEF OnReconnect, Answered
  <2>2. CASE /\ FoundBy(m.pin) /\ court.status = "OCCUPIED" /\ Enter(court, d, m, answer)
    <3>1. answer \in News
      BY <1>2, NewsType
    <3> HIDE DEF answer
    <3> QED BY <1>1, <1>2, <1>7, <2>2, <3>1, EnterKeeps DEF OnReconnect, FoundBy
  <2> QED BY <1>7, <2>1, <2>2 DEF OnReconnect
<1>8. ASSUME OnGetMatchState(d, m) PROVE IInv'
  <2>1. Said
    BY <1>2, <1>8, NewsType, RepliedSaid DEF OnGetMatchState
  <2> QED BY <1>3, <1>8, <2>1 DEF OnGetMatchState
<1>9. ASSUME OnRecordPoint(d, m) PROVE IInv'
  <2>1. MatchUpdate("FINISHED") \in News /\ ~LetsIn(MatchUpdate("FINISHED")) /\ "FINISHED" \in Matches
    BY NewsType, Zeros
  <2>2. LET c == [court EXCEPT !.match = "FINISHED"]
        IN  Sound(c, history) /\ c.status = court.status /\ c.players = court.players
    BY <1>2, <2>1, MatchSound
  <2> QED BY <1>5, <1>9, <2>1, <2>2 DEF OnRecordPoint
<1>10. ASSUME OnStartFree(d, m) PROVE IInv'
  <2>1. Event("FREE_STARTED") \in News /\ ~LetsIn(Event("FREE_STARTED")) /\ "free" \in Modes
    BY NewsType, Zeros DEF LetsIn
  <2>2. LET c == Start("free", m.who)
        IN  Sound(c, history) /\ c.status = court.status /\ c.players = court.players
    BY <1>2, <2>1, StartSound
  <2> QED BY <1>5, <1>10, <2>1, <2>2 DEF OnStartFree, StartFreePlay
<1>11. ASSUME OnNewMatch(d, m) PROVE IInv'
  <2>1. /\ MatchUpdate("LIVE") \in News /\ ~LetsIn(MatchUpdate("LIVE")) /\ "LIVE" \in Matches
        /\ "match" \in Modes
    BY NewsType, Zeros
  <2> DEFINE started == Start("match", m.who)
             c == [started EXCEPT !.match = "LIVE"]
  <2>2. Sound(started, history) /\ started.status = court.status /\ started.players = court.players
    BY <1>2, <2>1, StartSound
  <2>3. court' = [Start("match", m.who) EXCEPT !.match = "LIVE"]
    BY <1>11 DEF OnNewMatch, StartMatch
  <2> HIDE DEF started
  <2>4. Sound(c, history) /\ c.status = court.status /\ c.players = court.players
    BY <2>1, <2>2, MatchSound
  <2>5. court' = c
    BY <2>3 DEF started
  <2> HIDE DEF c
  <2> QED BY <1>5, <1>11, <2>1, <2>4, <2>5 DEF OnNewMatch
<1>12. ASSUME OnResetMatch(d, m) PROVE IInv'
  <2> DEFINE n == [Event("MATCH_RESET") EXCEPT !.match = "LIVE"]
  <2>1. n \in News /\ ~LetsIn(n) /\ "LIVE" \in Matches
    BY NewsType, Zeros
  <2> HIDE DEF n
  <2>2. LET c == [court EXCEPT !.match = "LIVE"]
        IN  Sound(c, history) /\ c.status = court.status /\ c.players = court.players
    BY <1>2, <2>1, MatchSound
  <2>3. ToRoom(n) /\ court' = [court EXCEPT !.match = "LIVE"] /\ UNCHANGED <<room, history>>
    BY <1>12 DEF OnResetMatch, Rematch, n
  <2> QED BY <1>5, <2>1, <2>2, <2>3
<1>13. ASSUME OnEndSession(d, m) PROVE IInv'
  <2>1. CASE ~m.confirm
    <3>1. Said
      BY <1>2, <1>13, <2>1, NewsType, RepliedSaid DEF OnEndSession, LetsIn
    <3> QED BY <1>3, <1>13, <2>1, <3>1 DEF OnEndSession
  <2>2. CASE m.confirm
    BY <1>1, <1>13, <2>2, EndKeeps DEF OnEndSession
  <2> QED BY <2>1, <2>2
<1>14. ASSUME OnRefused(d, m) PROVE IInv'
  BY <1>2, <1>3, <1>14, NothingSaid DEF OnRefused
<1> QED BY <1>6, <1>7, <1>8, <1>9, <1>10, <1>11, <1>12, <1>13, <1>14 DEF Serve, m

LEMMA AdminActs ==
  ASSUME IInv,
         \/ ActivateCourt \/ DeactivateCourt \/ ForceEnd
         \/ \E mode \in {"free", "match"} : AdminOccupy(mode)
  PROVE  IInv'
<1>1. /\ Sound(court, history) /\ court \in Court /\ toTab \in Queues
      /\ toHub \in [Phones -> Seq(HubMsg)] /\ acts \in 0 .. MaxActs
  BY DEF IInv, Sound, Typed
<1>2. ASSUME NEW c, Sound(c, history), c.players = court.players, c.status # "FINISHED",
             court' = c, Act, CourtOnly
      PROVE  IInv'
  BY <1>1, <1>2, ActType, NothingSaid, CourtChanges DEF CourtOnly
<1>3. ASSUME ActivateCourt PROVE IInv'
  BY <1>1, <1>2, <1>3, ActivateSound DEF ActivateCourt
<1>4. ASSUME DeactivateCourt PROVE IInv'
  <2> DEFINE c == [court EXCEPT !.status = "AVAILABLE", !.pin = 0]
  <2>1. Sound(c, history)
    BY <1>1, <1>4, DeactivateSound DEF DeactivateCourt
  <2>2. c.players = court.players /\ c.status # "FINISHED"
    BY <1>1 DEF Court
  <2>3. court' = c
    BY <1>4 DEF DeactivateCourt
  <2> HIDE DEF c
  <2> QED BY <1>2, <1>4, <2>1, <2>2, <2>3 DEF DeactivateCourt
<1>5. ASSUME ForceEnd PROVE IInv'
  BY <1>1, <1>5, ActType, EndKeeps DEF ForceEnd
<1>6. ASSUME NEW mode \in {"free", "match"}, AdminOccupy(mode) PROVE IInv'
  <2> DEFINE b == IF court.status = "AVAILABLE" THEN Activate ELSE court
             c == Occupy(b, mode, AdminGuest, TRUE)
  <2>1. Sound(b, history) /\ b.status = "RESERVED" /\ b.players = court.players
    BY <1>1, <1>6, ActivateSound DEF AdminOccupy
  <2>2. court' = c
    BY <1>6 DEF AdminOccupy
  <2> HIDE DEF b
  <2>3. Sound(c, history) /\ c.status = "OCCUPIED" /\ c.players = court.players
    <3>1. mode \in Modes /\ AdminGuest \in Names /\ TRUE \in BOOLEAN
      BY DEF Modes, Names
    <3> QED BY <2>1, <3>1, OccupySound
  <2> HIDE DEF c
  <2> QED BY <1>2, <1>6, <2>2, <2>3 DEF AdminOccupy
<1> QED BY <1>3, <1>4, <1>5, <1>6

------------------------------------------------------------------------------
(* The invariant holds at first and is kept by every step.                    *)

LEMMA NoRecords ==
  \A s : Cardinality(RecordsOf(<<>>, s)) = 0
<1>1. \A s : RecordsOf(<<>>, s) = {}
  BY DEF RecordsOf
<1> QED BY <1>1, FS_EmptySet

LEMMA FreshTabType ==
  /\ FreshTab \in Tab /\ FreshTab.conn = 1 /\ FreshTab.up /\ FreshTab.page = "auth"
  /\ ~Flagged(FreshTab)
<1> DEFINE t == [conn |-> 1, up |-> TRUE, page |-> "auth", pin |-> 0, waiting |-> 0,
                 match |-> "none", loading |-> TRUE, error |-> FALSE, first |-> TRUE,
                 reconnecting |-> 0, replaced |-> FALSE, ended |-> 0, mode |-> "none",
                 confirm |-> FALSE, ending |-> FALSE, named |-> FALSE]
<1>1. 1 \in 1 .. MaxConns
  BY Constants
<1>2. t \in Tab /\ t.conn = 1 /\ t.up /\ t.page = "auth"
  BY <1>1, Zeros DEF Tab
<1>3. FreshTab = Mounted(t)
  BY DEF FreshTab
<1> HIDE DEF t
<1> QED BY <1>2, <1>3, MountedType

(* The court that waits for its first session.                                *)
LEMMA ActiveCourtSound ==
  /\ Sound(ActiveCourt, <<>>) /\ ActiveCourt.status = "RESERVED" /\ ActiveCourt.players = {}
  /\ ActiveCourt.pin = 1 /\ ActiveCourt.session = 0
<1>1. 1 \in 0 .. MaxPin /\ "WAITING" \in Matches
  BY Constants DEF Matches
<1>2. ActiveCourt \in Court
  BY <1>1, Zeros DEF ActiveCourt, Court
<1>3. Recorded(ActiveCourt, <<>>)
  <2>1. \A s \in Pins : ~Over(ActiveCourt, s)
    BY Constants DEF Over, ActiveCourt, Pins
  <2> QED BY <2>1, NoRecords DEF Recorded
<1>4. <<>> \in Seq(Record) /\ Truthful(<<>>)
  BY DEF Truthful
<1>5. Numbered(ActiveCourt) /\ Guarded(ActiveCourt)
  BY DEF Numbered, Guarded, ActiveCourt
<1> QED BY <1>2, <1>3, <1>4, <1>5 DEF Sound, ActiveCourt

(* The court on which one phone plays in free mode.                           *)
LEMMA FreeCourtSound ==
  ASSUME NEW d \in Phones
  PROVE  LET c == [ActiveCourt EXCEPT !.status = "OCCUPIED", !.mode = "free", !.match = "LIVE",
                     !.who = d, !.session = 1, !.given = {d},
                     !.players = [dev: {d}, conn: {1}, proof: {1}]]
         IN  Sound(c, <<>>) /\ c.status = "OCCUPIED" /\ c.players = [dev: {d}, conn: {1}, proof: {1}]
<1> DEFINE players == [dev: {d}, conn: {1}, proof: {1}]
           c == [ActiveCourt EXCEPT !.status = "OCCUPIED", !.mode = "free", !.match = "LIVE",
                   !.who = d, !.session = 1, !.given = {d}, !.players = players]
<1>1. /\ 1 \in 0 .. MaxPin /\ 1 \in Pins /\ 1 \in 1 .. MaxConns /\ d \in Names
      /\ "free" \in Modes /\ "LIVE" \in Matches /\ {d} \in SUBSET Names
  BY Constants, Zeros DEF Pins
<1>2. players \in SUBSET Player /\ \A p \in players : p.proof = 1
  BY <1>1 DEF Player
<1> HIDE DEF players
<1>3. /\ c \in Court /\ c.status = "OCCUPIED" /\ c.session = 1 /\ c.issued = 1 /\ c.pin = 1
      /\ c.who = d /\ c.given = {d} /\ c.players = players
  BY <1>1, <1>2 DEF ActiveCourt, Court, Player
<1> HIDE DEF c
<1>4. Recorded(c, <<>>)
  <2>1. \A s \in Pins : ~Over(c, s)
    BY <1>3, Constants DEF Over, Pins
  <2> QED BY <2>1, NoRecords DEF Recorded
<1>5. <<>> \in Seq(Record) /\ Truthful(<<>>)
  BY DEF Truthful
<1>6. Numbered(c) /\ Guarded(c) /\ NamedFor(c.who, c.given)
  BY <1>2, <1>3 DEF Numbered, Guarded, NamedFor
<1> QED BY <1>3, <1>4, <1>5, <1>6 DEF Sound, c, players

LEMMA InitIInv ==
  ASSUME Init
  PROVE  IInv
<1>1. PICK playing \in {{}} \cup {{d} : d \in Phones} :
       /\ court = IF playing = {} THEN ActiveCourt
                  ELSE [ActiveCourt EXCEPT !.status = "OCCUPIED", !.mode = "free",
                          !.match = "LIVE", !.who = CHOOSE d \in playing : TRUE,
                          !.session = 1, !.given = playing,
                          !.players = [dev: playing, conn: {1}, proof: {1}]]
       /\ room = [d \in Phones |-> IF d \in playing THEN {1} ELSE {}]
       /\ tab = [d \in Phones |->
            IF d \in playing
            THEN [FreshTab EXCEPT !.page = "play", !.pin = 1, !.match = "LIVE",
                    !.loading = FALSE, !.first = FALSE, !.mode = "free"]
            ELSE FreshTab]
  BY DEF Init
<1>2. /\ history = <<>> /\ live = [d \in Phones |-> {1}] /\ toHub = [d \in Phones |-> <<>>]
      /\ toTab = [d \in Phones |-> <<>>] /\ acts = 0
  BY DEF Init
<1>3. /\ Sound(court, history) /\ court.status \in {"RESERVED", "OCCUPIED"}
      /\ \A d \in playing : IsReferee(d, 1)
  <2>1. CASE playing = {}
    BY <1>1, <1>2, <2>1, ActiveCourtSound
  <2>2. CASE playing # {}
    <3>1. PICK d \in Phones : playing = {d}
      BY <2>2
    <3>2. (CHOOSE e \in playing : TRUE) = d
      BY <3>1
    <3> DEFINE players == [dev: {d}, conn: {1}, proof: {1}]
    <3>3. Sound(court, history) /\ court.status = "OCCUPIED" /\ court.players = players
      BY <1>1, <1>2, <2>2, <3>1, <3>2, FreeCourtSound
    <3>4. [dev |-> d, conn |-> 1, proof |-> 1] \in players
      OBVIOUS
    <3> HIDE DEF players
    <3> QED BY <3>1, <3>3, <3>4 DEF IsReferee
  <2> QED BY <2>1, <2>2
<1>4. 1 \in 1 .. MaxConns /\ 1 \in 0 .. MaxPin /\ 0 \in 0 .. MaxActs
  BY Constants
<1>5. /\ tab \in [Phones -> Tab] /\ \A d \in Phones : tab[d].conn = 1
  <2> DEFINE t == [FreshTab EXCEPT !.page = "play", !.pin = 1, !.match = "LIVE",
                     !.loading = FALSE, !.first = FALSE, !.mode = "free"]
  <2>1. t \in Tab /\ t.conn = 1
    BY <1>4, FreshTabType, Zeros DEF Tab
  <2> HIDE DEF t
  <2>2. tab = [d \in Phones |-> IF d \in playing THEN t ELSE FreshTab]
    BY <1>1 DEF t
  <2> QED BY <2>1, <2>2, FreshTabType
<1>6. Typed /\ RoomsAreLive
  <2>1. <<>> \in Seq(HubMsg) /\ <<>> \in Seq(News)
    OBVIOUS
  <2> QED BY <1>1, <1>2, <1>4, <1>5, <2>1 DEF Typed, RoomsAreLive, Queues
<1>7. WhoIsIn
  <2>1. \A d \in Phones : IsInRoom(d) => d \in playing
    BY <1>1, <1>5 DEF IsInRoom
  <2> QED BY <1>3, <1>5, <2>1 DEF WhoIsIn
<1>8. EndHeard
  BY <1>3 DEF EndHeard
<1> QED BY <1>3, <1>6, <1>7, <1>8 DEF IInv

LEMMA NextIInv ==
  ASSUME IInv, [Next]_vars
  PROVE  IInv'
<1>1. ASSUME ActivateCourt \/ DeactivateCourt \/ ForceEnd PROVE IInv'
  BY <1>1, AdminActs
<1>2. ASSUME ResetCourt PROVE IInv'
  BY <1>2, ResetKeeps
<1>3. ASSUME \E mode \in {"free", "match"} : AdminOccupy(mode) PROVE IInv'
  BY <1>3, AdminActs
<1>4. ASSUME NEW d \in Phones,
             \/ \E p \in Pins : Join(d, p)
             \/ PickFree(d) \/ NewMatch(d) \/ ResetMatch(d) \/ ScorePoint(d)
             \/ PressEnd(d) \/ ConfirmEnd(d) \/ CancelEnd(d)
      PROVE  IInv'
  BY <1>4, UserActs
<1>5. ASSUME NEW d \in Phones, GoHome(d) PROVE IInv'
  BY <1>5, GoHomeKeeps
<1>6. ASSUME NEW d \in Phones, Drop(d) \/ Reload(d) PROVE IInv'
  BY <1>6, DropKeeps
<1>7. ASSUME NEW d \in Phones, Connect(d) PROVE IInv'
  BY <1>7, ConnectKeeps
<1>8. ASSUME NEW d \in Phones, Serve(d) PROVE IInv'
  BY <1>8, ServeKeeps
<1>9. ASSUME NEW d \in Phones, Receive(d) PROVE IInv'
  BY <1>9, ReceiveKeeps
<1>10. ASSUME NEW d \in Phones, NEW c \in 1 .. MaxConns, ServerDisconnect(d, c) PROVE IInv'
  BY <1>10, DisconnectKeeps
<1>11. ASSUME UNCHANGED vars PROVE IInv'
  <2>1. /\ court' = court /\ history' = history /\ live' = live /\ room' = room /\ tab' = tab
        /\ toHub' = toHub /\ toTab' = toTab /\ acts' = acts
    BY <1>11 DEF vars
  <2>2. Said
    BY <2>1, NothingSaid DEF IInv, Typed
  <2> QED BY <2>1, <2>2, CourtChanges DEF IInv, Typed
<1> QED BY <1>1, <1>2, <1>3, <1>4, <1>5, <1>6, <1>7, <1>8, <1>9, <1>10, <1>11 DEF Next

LEMMA InductiveInvariant == Spec => []IInv
BY InitIInv, NextIInv, PTL DEF Spec

------------------------------------------------------------------------------
(* What follows.                                                              *)

(* The court, the session records, the rooms, the pages and the queues have   *)
(* their types: the queues only ever hold messages of the protocol, and the   *)
(* numbers of sessions and PINs stay within those drawn.                      *)
THEOREM ClubPlayTypeCorrect == Spec => []TypeOK
<1>1. ASSUME IInv PROVE TypeOK
  <2>1. \A q : q \in Seq(News) => q \in Seq(TabMsg)
    <3> SUFFICES ASSUME NEW q \in Seq(News) PROVE q \in Seq(TabMsg)
      OBVIOUS
    <3>1. Len(q) \in Nat /\ q \in [1 .. Len(q) -> News]
      OBVIOUS
    <3>2. q \in [1 .. Len(q) -> TabMsg]
      BY <3>1 DEF News
    <3> QED BY <3>1, <3>2
  <2>2. toTab \in [Phones -> Seq(TabMsg)]
    BY <1>1, <2>1 DEF IInv, Typed, Queues
  <2> QED BY <1>1, <2>2 DEF IInv, Sound, Typed, TypeOK
<1> QED BY <1>1, InductiveInvariant, PTL

(* onClubSessionEnd runs once for each session, whoever ends it: a session    *)
(* that is over has exactly one record, which names somebody named for that   *)
(* very session, and an end by an admin is signed.                            *)
THEOREM RecordsCorrect == Spec => []RecordsTellTheTruth
<1>1. ASSUME IInv PROVE RecordsTellTheTruth
  <2>1. Recorded(court, history) /\ Truthful(history)
    BY <1>1 DEF IInv, Sound
  <2>2. ASSUME NEW s \in Pins
        PROVE  Cardinality({i \in DOMAIN history : history[i].session = s}) =
                 IF s < court.session \/ (s = court.session /\ court.status # "OCCUPIED")
                 THEN 1 ELSE 0
    BY <2>1 DEF Recorded, RecordsOf, Over
  <2>3. ASSUME NEW i \in DOMAIN history
        PROVE  LET r == history[i]
               IN  /\ IF r.given = {} THEN r.who = Nobody ELSE r.who \in r.given
                   /\ r.endedBy = "admin" => r.admin
    BY <2>1 DEF Truthful, NamedFor
  <2> QED BY <2>2, <2>3 DEF RecordsTellTheTruth
<1> QED BY <1>1, InductiveInvariant, PTL

(* setRefereeDirect and the reset of the court: whoever keeps the score of a  *)
(* session gave the PIN of that session, however late his connection closes.  *)
THEOREM OldPhonesOut == Spec => []OldPhonesStayOut
<1>1. ASSUME IInv PROVE OldPhonesStayOut
  BY <1>1 DEF IInv, Sound, Guarded, OldPhonesStayOut
<1> QED BY <1>1, InductiveInvariant, PTL

(* The controls are on the play page, before the end of the session is heard. *)
LEMMA ControlsShown ==
  ASSUME NEW t \in Tab, Stage(t) \in {"free", "live", "postMatch"}
  PROVE  t.page = "play" /\ t.ended = 0
<1>1. t.page \in {"auth", "play"}
  BY TabFields
<1>2. t.page = "auth" => Stage(t) = "auth"
  BY DEF Stage
<1>3. t.page = "play" /\ t.error => Stage(t) = "error"
  BY DEF Stage
<1>4. t.page = "play" /\ ~t.error /\ t.reconnecting # 0 => Stage(t) = "reconnecting"
  BY DEF Stage
<1>5. t.page = "play" /\ ~t.error /\ t.reconnecting = 0 /\ t.ended # 0
        => Stage(t) \in {"loading", "finished"}
  BY DEF Stage
<1> QED BY <1>1, <1>2, <1>3, <1>4, <1>5

(* A phone in the room that shows the controls keeps the score, or is told    *)
(* that it does not: handing the score over, ending the session and emptying  *)
(* the court all send what the pages concerned have yet to hear.              *)
THEOREM ScorersCorrect == Spec => []ScorersAreReferees
<1>1. ASSUME IInv, NEW d \in Phones, ShowsControls(tab[d]), tab[d].conn \in room[d]
      PROVE  IsReferee(d, tab[d].conn) \/ UnderWay(d, {"REF_REVOKED", "SESSION_ENDED"})
  <2>1. tab[d].up /\ ~tab[d].replaced /\ Stage(tab[d]) \in {"free", "live", "postMatch"}
    BY <1>1 DEF ShowsControls
  <2>2. tab[d].page = "play" /\ tab[d].ended = 0
    BY <1>1, <2>1, ControlsShown DEF IInv, Typed
  <2>3. IsReferee(d, tab[d].conn) \/ KnowsReferee(d)
    BY <1>1, <2>1 DEF IInv, WhoIsIn, IsInRoom
  <2>4. KnowsReferee(d) => Follows(toTab[d], 0, Revokes)
    BY <2>1, <2>2 DEF KnowsReferee, Aware, Flagged
  <2> QED BY <2>3, <2>4 DEF Follows, Revokes, UnderWay
<1>2. ASSUME IInv PROVE ScorersAreReferees
  BY <1>1, <1>2 DEF ScorersAreReferees
<1> QED BY <1>2, InductiveInvariant, PTL
==============================================================================
