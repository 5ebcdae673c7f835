--------------------------- MODULE BracketProofs ----------------------------
(* Theorems about Screens, the hub and a television that shows the courts and *)
(* the bracket, for any courts of either kind; and about Bracket for every    *)
(* size, every set of names and every set of slots the owner edits.           *)
EXTENDS Bracket, BracketEngineProofs, Screens, FiniteSetTheorems, WellFoundedInduction

------------------------------------------------------------------------------
(* The hub and its television.                                                *)

(* What queues are asked: whether a word of W is in q, whether the last one is *)
(* the truth, and whether each is t or followed by it.                        *)
NoWord(q, W) == \A i \in DOMAIN q : q[i] \notin W
LastIsTrue(q, W, T) ==
  \A i \in DOMAIN q : q[i] \in W /\ (\A j \in DOMAIN q : j > i => q[j] \notin W) => q[i] \in T
LeadsTo(q, W, t) == \A i \in DOMAIN q : q[i] \in W => \E j \in DOMAIN q : j >= i /\ q[j] = t

(* The messages to the television and its requests.                           *)
Updates == UNION {[kind : {"update"}, court : {c}, of : Snapshot({c})] : c \in TournamentCourts}

Message ==
  [kind : {"list"}, of : Snapshot(TournamentCourts)]
  \cup [kind : {"club"}, of : Snapshot(ClubCourts)]
  \cup Updates
  \cup [kind : {"match"}, of : Match]
  \cup [kind : {"mode"}, of : Modes]
  \cup [kind : {"bracket"}, of : Nat]

Request ==
  [kind : {"list", "mode", "config"}, court : {None}] \cup [kind : {"sub", "unsub"}, court : ScreenCourts]

ScreensQueued == down \in Seq(Message) /\ up \in Seq(Request)

(* The messages that speak of court c, of the club's courts, of the bracket   *)
(* and of matches; those of the first that say what star and under say.       *)
CourtWords(c) == {m \in Message : m.kind = "list" \/ (m.kind = "update" /\ m.court = c)}
ClubWords == {m \in Message : m.kind = "club"}
BracketWords == {m \in Message : m.kind = "bracket"}
MatchWords == {m \in Message : m.kind = "match"}

Says(list, c, starred, courtsUnder) ==
  (c \in list.starred <=> c \in starred) /\ (c \in list.under <=> c \in courtsUnder)
CourtTruth(c, starred, courtsUnder) == {m \in CourtWords(c) : Says(m.of, c, starred, courtsUnder)}

(* The television's requests about court c, and about any.                    *)
Asks(c) == {Ask("sub", c), Ask("unsub", c)}
AllAsks == {Ask(kind, c) : kind \in {"sub", "unsub"}, c \in ScreenCourts}

(* Nothing is under way to a television that is not connected.                *)
ScreenIsLive == tv.conn # "up" => room = {} /\ down = <<>>

(* The list agrees with the hub about each tournament court, unless a message *)
(* about it is under way, and then the last one does.                         *)
ListInOrder ==
  tv.conn = "up" =>
    \A c \in TournamentCourts :
      /\ LastIsTrue(down, CourtWords(c), CourtTruth(c, star, under))
      /\ NoWord(down, CourtWords(c)) => Says(tv.list, c, star, under)

(* So does the club's page, unless it has still to ask.                       *)
ClubInOrder ==
  tv.conn = "up" /\ ~unsaid =>
    /\ LastIsTrue(down, ClubWords, {ClubData(star, under)})
    /\ tv.page = "club" /\ NoWord(down, ClubWords) /\ NoWord(up, {Ask("config", None)})
       => tv.club = Public(ClubCourts, star, under)

RevisionInOrder ==
  tv.conn = "up" =>
    /\ LastIsTrue(down, BracketWords, {BracketIs(revision)})
    /\ NoWord(down, BracketWords) => tv.bracket = revision

(* The last request about a court subscribes to it if it is in the spotlight, *)
(* and leaves it if not; without one that has been done, unless it was missed. *)
AsksInOrder ==
  \A c \in ScreenCourts :
    /\ LeadsTo(up, Asks(c), Ask(IF c = tv.sub THEN "sub" ELSE "unsub", c))
    /\ NoWord(up, Asks(c)) => /\ c \in room => c = tv.sub
                              /\ c = tv.sub /\ ~missed => c \in room

(* The subscription to the court in the spotlight is asked for last.          *)
SubIsLast == tv.sub # None => LeadsTo(up, AllAsks, Ask("sub", tv.sub))

(* Nobody subscribes twice without leaving in between.                        *)
Alternate(q, listening) ==
  \A c \in ScreenCourts : \A k \in DOMAIN q :
    q[k] = Ask("sub", c) =>
      /\ c \in listening => \E j \in DOMAIN q : j < k /\ q[j] = Ask("unsub", c)
      /\ \A i \in DOMAIN q : i < k /\ q[i] = Ask("sub", c) =>
           \E j \in DOMAIN q : i < j /\ j < k /\ q[j] = Ask("unsub", c)

SubsAlternate == Alternate(up, room)

(* Once it is subscribed to, the last message about a match is about that of  *)
(* the court in the spotlight and has its score.                              *)
MatchInOrder ==
  tv.sub \in room \ untold /\ NoWord(up, Asks(tv.sub)) =>
    /\ LastIsTrue(down, MatchWords, {MatchUpdate(tv.sub, score[tv.sub])})
    /\ NoWord(down, MatchWords) => tv.match = MatchUpdate(tv.sub, score[tv.sub]).of

(* The inductive invariant of the hub and its television.                     *)
ScreensInv ==
  /\ ScreensTypeOK /\ ScreensQueued /\ ScreenIsLive /\ ListInOrder /\ ClubInOrder
  /\ RevisionInOrder /\ AsksInOrder /\ SubIsLast /\ SubsAlternate /\ MatchInOrder

(* Queues.  A message added or heard.                                         *)
LEMMA AddedWords ==
  ASSUME NEW S, NEW q \in Seq(S), NEW ms \in Seq(S), NEW W
  PROVE  /\ NoWord(q \o ms, W) <=> NoWord(q, W) /\ NoWord(ms, W)
         /\ \A T : LastIsTrue(ms, W, T) /\ (NoWord(ms, W) => LastIsTrue(q, W, T))
                     => LastIsTrue(q \o ms, W, T)
         /\ \A t : LeadsTo(ms, W, t) /\ (LeadsTo(q, W, t) \/ \E i \in DOMAIN ms : ms[i] = t)
                     => LeadsTo(q \o ms, W, t)
<1> DEFINE r == q \o ms
           n == Len(q)
<1>1. /\ r \in Seq(S) /\ n \in Nat /\ Len(ms) \in Nat /\ Len(r) = n + Len(ms)
      /\ DOMAIN q = 1 .. n /\ DOMAIN ms = 1 .. Len(ms) /\ DOMAIN r = 1 .. Len(r)
  OBVIOUS
<1>2. /\ \A i \in DOMAIN q : i \in DOMAIN r /\ r[i] = q[i]
      /\ \A i \in DOMAIN ms : i + n \in DOMAIN r /\ r[i + n] = ms[i]
      /\ \A i \in DOMAIN r : i \in DOMAIN q \/ i - n \in DOMAIN ms
      /\ \A i \in DOMAIN r : i \notin DOMAIN q => r[i] = ms[i - n]
  BY <1>1
<1> HIDE DEF r, n
<1>3. NoWord(r, W) <=> NoWord(q, W) /\ NoWord(ms, W)
  BY <1>1, <1>2 DEF NoWord
<1>4. ASSUME NEW T, LastIsTrue(ms, W, T), NoWord(ms, W) => LastIsTrue(q, W, T)
      PROVE  LastIsTrue(r, W, T)
  <2> SUFFICES ASSUME NEW i \in DOMAIN r, r[i] \in W, \A j \in DOMAIN r : j > i => r[j] \notin W
               PROVE  r[i] \in T
    BY DEF LastIsTrue
  <2>1. CASE i \in DOMAIN q
    <3>1. NoWord(ms, W)
      <4> SUFFICES ASSUME NEW j \in DOMAIN ms PROVE ms[j] \notin W
        BY DEF NoWord
      <4>1. j + n \in DOMAIN r /\ j + n > i /\ r[j + n] = ms[j]
        BY <1>1, <1>2, <2>1
      <4>. QED BY <4>1
    <3>2. q[i] \in W /\ \A j \in DOMAIN q : j > i => q[j] \notin W
      BY <1>2, <2>1
    <3>. QED BY <3>1, <3>2, <1>2, <1>4, <2>1 DEF LastIsTrue
  <2>2. CASE i \notin DOMAIN q
    <3>1. i - n \in DOMAIN ms /\ ms[i - n] = r[i] /\ i \in Nat
      BY <1>1, <1>2, <2>2
    <3>2. ASSUME NEW j \in DOMAIN ms, j > i - n PROVE ms[j] \notin W
      <4>1. j + n \in DOMAIN r /\ j + n > i /\ r[j + n] = ms[j]
        BY <1>1, <1>2, <3>1, <3>2
      <4>. QED BY <4>1
    <3>. QED BY <3>1, <3>2, <1>4 DEF LastIsTrue
  <2>. QED BY <2>1, <2>2
<1>5. ASSUME NEW t, LeadsTo(ms, W, t), LeadsTo(q, W, t) \/ \E i \in DOMAIN ms : ms[i] = t
      PROVE  LeadsTo(r, W, t)
  <2> SUFFICES ASSUME NEW i \in DOMAIN r, r[i] \in W
               PROVE  \E j \in DOMAIN r : j >= i /\ r[j] = t
    BY DEF LeadsTo
  <2>1. CASE i \in DOMAIN q
    <3>1. CASE LeadsTo(q, W, t)
      <4>1. PICK j \in DOMAIN q : j >= i /\ q[j] = t
        BY <1>2, <2>1, <3>1 DEF LeadsTo
      <4>. QED BY <4>1, <1>2
    <3>2. CASE \E j \in DOMAIN ms : ms[j] = t
      <4>1. PICK j \in DOMAIN ms : ms[j] = t
        BY <3>2
      <4>2. j + n \in DOMAIN r /\ j + n >= i /\ r[j + n] = t
        BY <1>1, <1>2, <2>1, <4>1
      <4>. QED BY <4>2
    <3>. QED BY <3>1, <3>2, <1>5
  <2>2. CASE i \notin DOMAIN q
    <3>1. i - n \in DOMAIN ms /\ ms[i - n] = r[i] /\ i \in Nat
      BY <1>1, <1>2, <2>2
    <3>2. PICK j \in DOMAIN ms : j >= i - n /\ ms[j] = t
      BY <3>1, <1>5 DEF LeadsTo
    <3>3. j + n \in DOMAIN r /\ j + n >= i /\ r[j + n] = t
      BY <1>1, <1>2, <3>1, <3>2
    <3>. QED BY <3>3
  <2>. QED BY <2>1, <2>2
<1>. QED BY <1>3, <1>4, <1>5 DEF r

(* The first message heard, the rest left: what was true of the queue.         *)
LEMMA HeardWords ==
  ASSUME NEW S, NEW q \in Seq(S), q # <<>>, NEW W
  PROVE  /\ Tail(q) \in Seq(S) /\ Head(q) \in S
         /\ NoWord(q, W) <=> NoWord(Tail(q), W) /\ Head(q) \notin W
         /\ \A T : LastIsTrue(q, W, T) => /\ LastIsTrue(Tail(q), W, T)
                                          /\ NoWord(Tail(q), W) /\ Head(q) \in W => Head(q) \in T
         /\ \A t : LeadsTo(q, W, t) => /\ LeadsTo(Tail(q), W, t)
                                       /\ Head(q) \in W /\ Head(q) # t =>
                                            \E j \in DOMAIN Tail(q) : Tail(q)[j] = t
<1> DEFINE r == Tail(q)
           n == Len(q)
<1>1. /\ r \in Seq(S) /\ n \in Nat /\ n > 0 /\ Len(r) = n - 1 /\ Head(q) = q[1] /\ Head(q) \in S
      /\ DOMAIN q = 1 .. n /\ DOMAIN r = 1 .. (n - 1)
  OBVIOUS
<1>2. /\ \A i \in DOMAIN r : i + 1 \in DOMAIN q /\ q[i + 1] = r[i]
      /\ \A i \in DOMAIN q : i # 1 => i - 1 \in DOMAIN r /\ r[i - 1] = q[i]
      /\ 1 \in DOMAIN q
  BY <1>1
<1> HIDE DEF r, n
<1>3. NoWord(q, W) <=> NoWord(r, W) /\ Head(q) \notin W
  BY <1>1, <1>2 DEF NoWord
<1>4. ASSUME NEW T, LastIsTrue(q, W, T) PROVE LastIsTrue(r, W, T)
  <2> SUFFICES ASSUME NEW i \in DOMAIN r, r[i] \in W, \A j \in DOMAIN r : j > i => r[j] \notin W
               PROVE  r[i] \in T
    BY DEF LastIsTrue
  <2>1. i + 1 \in DOMAIN q /\ q[i + 1] = r[i] /\ i \in Nat
    BY <1>1, <1>2
  <2>2. ASSUME NEW j \in DOMAIN q, j > i + 1 PROVE q[j] \notin W
    <3>1. j - 1 \in DOMAIN r /\ j - 1 > i /\ r[j - 1] = q[j]
      BY <1>1, <1>2, <2>1, <2>2
    <3>. QED BY <3>1
  <2>. QED BY <2>1, <2>2, <1>4 DEF LastIsTrue
<1>5. ASSUME NEW T, LastIsTrue(q, W, T), NoWord(r, W), Head(q) \in W PROVE Head(q) \in T
  <2>1. ASSUME NEW j \in DOMAIN q, j > 1 PROVE q[j] \notin W
    BY <1>2, <1>5, <2>1 DEF NoWord
  <2>. QED BY <1>1, <1>2, <1>5, <2>1 DEF LastIsTrue
<1>6. ASSUME NEW t, LeadsTo(q, W, t) PROVE LeadsTo(r, W, t)
  <2> SUFFICES ASSUME NEW i \in DOMAIN r, r[i] \in W
               PROVE  \E j \in DOMAIN r : j >= i /\ r[j] = t
    BY DEF LeadsTo
  <2>1. i + 1 \in DOMAIN q /\ q[i + 1] = r[i] /\ i \in Nat /\ i >= 1
    BY <1>1, <1>2
  <2>2. PICK j \in DOMAIN q : j >= i + 1 /\ q[j] = t
    BY <2>1, <1>6 DEF LeadsTo
  <2>3. j - 1 \in DOMAIN r /\ j - 1 >= i /\ r[j - 1] = t
    BY <1>1, <1>2, <2>1, <2>2
  <2>. QED BY <2>3
<1>7. ASSUME NEW t, LeadsTo(q, W, t), Head(q) \in W, Head(q) # t
      PROVE  \E j \in DOMAIN r : r[j] = t
  <2>1. PICK j \in DOMAIN q : q[j] = t
    BY <1>1, <1>2, <1>7 DEF LeadsTo
  <2>2. j # 1
    BY <1>1, <1>7, <2>1
  <2>. QED BY <1>2, <2>1, <2>2
<1>. QED BY <1>1, <1>3, <1>4, <1>5, <1>6, <1>7 DEF r

(* A queue of one message, or none.                                           *)
LEMMA OneWord ==
  /\ \A S : <<>> \in Seq(S)
  /\ \A S : \A m \in S : <<m>> \in Seq(S)
  /\ \A W : NoWord(<<>>, W)
  /\ \A W, m : NoWord(<<m>>, W) <=> m \notin W
  BY DEF NoWord

(* Of a queue that is empty everything is true.                               *)
LEMMA NothingSaid ==
  /\ \A W, T : LastIsTrue(<<>>, W, T)
  /\ \A W, t : LeadsTo(<<>>, W, t)
  BY DEF LastIsTrue, LeadsTo

(* All that the hub tells its screens of star, courts, scores and bracket:    *)
(* each message has them as they are, and matches go to the room.             *)
Truths(starred, courtsUnder, points, v, listening) ==
  {CourtList(starred, courtsUnder), ClubData(starred, courtsUnder), BracketIs(v)}
  \cup {CourtUpdate(c, starred, courtsUnder) : c \in TournamentCourts}
  \cup {MatchUpdate(c, points[c]) : c \in listening}
  \cup {ModeIs(m) : m \in Modes}

(* What kind of words the messages are.                                       *)
LEMMA WordKinds ==
  ASSUME NEW starred \in SUBSET ScreenCourts, NEW courtsUnder \in SUBSET ScreenCourts
  PROVE  /\ CourtList(starred, courtsUnder) \in Message
         /\ \A c : CourtList(starred, courtsUnder) \in CourtWords(c)
         /\ ClubData(starred, courtsUnder) \in ClubWords
         /\ \A c \in TournamentCourts : CourtUpdate(c, starred, courtsUnder) \in CourtWords(c)
         /\ \A v \in Nat : BracketIs(v) \in BracketWords
         /\ \A c \in ScreenCourts : \A p \in 0 .. MaxScore : MatchUpdate(c, p) \in MatchWords
         /\ \A m \in Modes : ModeIs(m) \in Message
<1>1. CourtList(starred, courtsUnder) \in Message
  BY DEF CourtList, Public, Message, Snapshot
<1>2. ClubData(starred, courtsUnder) \in Message
  BY DEF ClubData, Public, Message, Snapshot
<1>3. ASSUME NEW c \in TournamentCourts PROVE CourtUpdate(c, starred, courtsUnder) \in Message
  <2>1. CourtUpdate(c, starred, courtsUnder) \in [kind : {"update"}, court : {c}, of : Snapshot({c})]
    BY DEF CourtUpdate, Public, Snapshot
  <2>2. CourtUpdate(c, starred, courtsUnder) \in Updates
    BY <1>3, <2>1 DEF Updates
  <2>. QED BY <2>2 DEF Message
<1>4. \A v \in Nat : BracketIs(v) \in Message
  BY DEF BracketIs, Message
<1>5. \A c \in ScreenCourts : \A p \in 0 .. MaxScore : MatchUpdate(c, p) \in Message
  BY DEF MatchUpdate, Message, Match
<1>6. \A m \in Modes : ModeIs(m) \in Message
  BY DEF ModeIs, Message
<1>. QED
  BY <1>1, <1>2, <1>3, <1>4, <1>5, <1>6
  DEF CourtWords, ClubWords, BracketWords, MatchWords, CourtList, ClubData, CourtUpdate, BracketIs, MatchUpdate

(* What is told so is true of every court.                                    *)
LEMMA TruthsAreTrue ==
  ASSUME NEW starred \in SUBSET ScreenCourts, NEW courtsUnder \in SUBSET ScreenCourts,
         NEW points \in [ScreenCourts -> 0 .. MaxScore], NEW v \in Nat,
         NEW listening \in SUBSET ScreenCourts,
         NEW ms \in Seq(Truths(starred, courtsUnder, points, v, listening))
  PROVE  /\ ms \in Seq(Message)
         /\ \A c \in TournamentCourts : LastIsTrue(ms, CourtWords(c), CourtTruth(c, starred, courtsUnder))
         /\ LastIsTrue(ms, ClubWords, {ClubData(starred, courtsUnder)})
         /\ LastIsTrue(ms, BracketWords, {BracketIs(v)})
         /\ \A c : listening \subseteq {c} => LastIsTrue(ms, MatchWords, {MatchUpdate(c, points[c])})
<1> DEFINE told == Truths(starred, courtsUnder, points, v, listening)
<1>1. told \subseteq Message
  <2>1. {CourtList(starred, courtsUnder), ClubData(starred, courtsUnder), BracketIs(v)} \subseteq Message
    BY WordKinds DEF ClubWords, BracketWords
  <2>2. \A c \in TournamentCourts : CourtUpdate(c, starred, courtsUnder) \in Message
    BY WordKinds DEF CourtWords
  <2>3. \A c \in listening : MatchUpdate(c, points[c]) \in Message
    BY WordKinds DEF MatchWords
  <2>. QED BY <2>1, <2>2, <2>3, WordKinds DEF Truths
<1>2. \A i \in DOMAIN ms : ms[i] \in told
  OBVIOUS
<1>7. ms \in Seq(Message)
  BY <1>1
<1>8. ASSUME NEW m \in told
      PROVE  \/ m = CourtList(starred, courtsUnder) /\ m.kind = "list"
             \/ m = ClubData(starred, courtsUnder) /\ m.kind = "club"
             \/ m = BracketIs(v) /\ m.kind = "bracket"
             \/ \E c \in TournamentCourts :
                  m = CourtUpdate(c, starred, courtsUnder) /\ m.kind = "update" /\ m.court = c
             \/ \E c \in listening : m = MatchUpdate(c, points[c]) /\ m.kind = "match"
             \/ m.kind = "mode"
  <2>1. /\ CourtList(starred, courtsUnder).kind = "list" /\ ClubData(starred, courtsUnder).kind = "club"
        /\ BracketIs(v).kind = "bracket"
    BY DEF CourtList, ClubData, BracketIs
  <2>2. \A c : CourtUpdate(c, starred, courtsUnder).kind = "update"
               /\ CourtUpdate(c, starred, courtsUnder).court = c
    BY DEF CourtUpdate
  <2>3. (\A c : MatchUpdate(c, points[c]).kind = "match") /\ \A x : ModeIs(x).kind = "mode"
    BY DEF MatchUpdate, ModeIs
  <2>4. \/ m \in {CourtList(starred, courtsUnder), ClubData(starred, courtsUnder), BracketIs(v)}
        \/ \E c \in TournamentCourts : m = CourtUpdate(c, starred, courtsUnder)
        \/ \E c \in listening : m = MatchUpdate(c, points[c])
        \/ \E x \in Modes : m = ModeIs(x)
    BY <1>8 DEF Truths
  <2>. QED BY <2>1, <2>2, <2>3, <2>4
<1> HIDE DEF told
<1>3. ASSUME NEW c \in TournamentCourts, NEW m \in told, m \in CourtWords(c)
      PROVE  m \in CourtTruth(c, starred, courtsUnder)
  <2>1. m.kind = "list" \/ (m.kind = "update" /\ m.court = c)
    BY <1>3 DEF CourtWords
  <2>2. m = CourtList(starred, courtsUnder) \/ m = CourtUpdate(c, starred, courtsUnder)
    BY <2>1, <1>8
  <2>3. Says(m.of, c, starred, courtsUnder)
    BY <2>2 DEF CourtList, CourtUpdate, Public, Says
  <2>. QED BY <2>3, <1>3 DEF CourtTruth
<1>4. ASSUME NEW m \in told, m \in ClubWords PROVE m = ClubData(starred, courtsUnder)
  BY <1>4, <1>8 DEF ClubWords
<1>5. ASSUME NEW m \in told, m \in BracketWords PROVE m = BracketIs(v)
  BY <1>5, <1>8 DEF BracketWords
<1>6. ASSUME NEW m \in told, m \in MatchWords PROVE \E c \in listening : m = MatchUpdate(c, points[c])
  BY <1>6, <1>8 DEF MatchWords
<1>. QED BY <1>2, <1>3, <1>4, <1>5, <1>6, <1>7 DEF LastIsTrue

(* Courts are positive: None is not one of them.                              *)
LEMMA NoneIsNone == None \notin ScreenCourts /\ ScreenCourts \subseteq Nat
  BY ScreensAssumption DEF None, ScreenCourts

(* With nothing asked about the court in the spotlight, nothing is asked about *)
(* any, and no other room is joined.                                          *)
LEMMA SoleRoom ==
  ASSUME ScreensInv, tv.sub # None, NoWord(up, Asks(tv.sub))
  PROVE  NoWord(up, AllAsks) /\ room \subseteq {tv.sub}
<1>1. NoWord(up, AllAsks)
  <2>1. LeadsTo(up, AllAsks, Ask("sub", tv.sub))
    BY DEF ScreensInv, SubIsLast
  <2>2. Ask("sub", tv.sub) \in Asks(tv.sub)
    BY DEF Asks
  <2>. QED BY <2>1, <2>2 DEF NoWord, LeadsTo
<1>2. ASSUME NEW c \in room PROVE c = tv.sub
  <2>1. c \in ScreenCourts
    BY <1>2 DEF ScreensInv, ScreensTypeOK
  <2>2. Asks(c) \subseteq AllAsks
    BY <2>1 DEF Asks, AllAsks
  <2>3. NoWord(up, Asks(c))
    BY <1>1, <2>2 DEF NoWord
  <2>. QED BY <1>2, <2>1, <2>3 DEF ScreensInv, AsksInOrder
<1>. QED BY <1>1, <1>2

(* What people do at the hub: a change that is told of as it is, to the room  *)
(* and to everyone, keeps the order of what is under way.                     *)
LEMMA TellingKeeps ==
  ASSUME ScreensInv, ScreensTypeOK', ActLeaves,
         NEW ms \in Seq(Truths(star', under', score', revision', room)), Emit(ms),
         \A c \in TournamentCourts :
           NoWord(ms, CourtWords(c)) => (c \in star' <=> c \in star) /\ (c \in under' <=> c \in under),
         ~unsaid' /\ NoWord(ms, ClubWords) =>
           ~unsaid /\ Public(ClubCourts, star', under') = Public(ClubCourts, star, under),
         NoWord(ms, BracketWords) => revision' = revision,
         \A c \in room : c \notin untold' /\ NoWord(ms, MatchWords) => c \notin untold /\ score'[c] = score[c]
  PROVE  ScreensInv'
<1>1. /\ room' = room /\ tv' = tv /\ up' = up /\ missed' = missed
      /\ down' = IF tv.conn = "up" THEN down \o ms ELSE down
  BY DEF ActLeaves, Emit
<1>2. /\ star' \in SUBSET ScreenCourts /\ under' \in SUBSET ScreenCourts
      /\ score' \in [ScreenCourts -> 0 .. MaxScore] /\ revision' \in Nat /\ room \in SUBSET ScreenCourts
  BY DEF ScreensInv, ScreensTypeOK
<1>3. /\ ms \in Seq(Message)
      /\ \A c \in TournamentCourts : LastIsTrue(ms, CourtWords(c), CourtTruth(c, star', under'))
      /\ LastIsTrue(ms, ClubWords, {ClubData(star', under')})
      /\ LastIsTrue(ms, BracketWords, {BracketIs(revision')})
      /\ \A c : room \subseteq {c} => LastIsTrue(ms, MatchWords, {MatchUpdate(c, score'[c])})
  BY <1>2, TruthsAreTrue
<1>4. down \in Seq(Message) /\ up \in Seq(Request)
  BY DEF ScreensInv, ScreensQueued
<1>5. ScreensQueued' /\ ScreenIsLive'
  BY <1>1, <1>3, <1>4 DEF ScreensInv, ScreensQueued, ScreenIsLive
<1>6. AsksInOrder' /\ SubIsLast' /\ SubsAlternate'
  BY <1>1 DEF ScreensInv, AsksInOrder, SubIsLast, SubsAlternate
<1>7. ASSUME tv.conn = "up"
      PROVE  \A W : /\ NoWord(down', W) <=> NoWord(down, W) /\ NoWord(ms, W)
                   /\ \A T : LastIsTrue(ms, W, T) /\ (NoWord(ms, W) => LastIsTrue(down, W, T))
                               => LastIsTrue(down', W, T)
  <2>1. down' = down \o ms
    BY <1>1, <1>7
  <2>. QED BY <1>3, <1>4, <2>1, AddedWords
<1>8. ListInOrder'
  <2> SUFFICES ASSUME tv.conn = "up", NEW c \in TournamentCourts
               PROVE  /\ LastIsTrue(down', CourtWords(c), CourtTruth(c, star', under'))
                      /\ NoWord(down', CourtWords(c)) => Says(tv.list, c, star', under')
    BY <1>1 DEF ListInOrder
  <2>1. /\ LastIsTrue(down, CourtWords(c), CourtTruth(c, star, under))
        /\ NoWord(down, CourtWords(c)) => Says(tv.list, c, star, under)
    BY DEF ScreensInv, ListInOrder
  <2>2. NoWord(ms, CourtWords(c)) => CourtTruth(c, star', under') = CourtTruth(c, star, under)
    BY DEF CourtTruth, Says
  <2>3. NoWord(ms, CourtWords(c)) => (Says(tv.list, c, star, under) => Says(tv.list, c, star', under'))
    BY DEF Says
  <2>4. NoWord(ms, CourtWords(c)) => LastIsTrue(down, CourtWords(c), CourtTruth(c, star', under'))
    BY <2>1, <2>2
  <2>. QED BY <1>3, <1>7, <2>1, <2>3, <2>4
<1>9. ClubInOrder'
  <2> SUFFICES ASSUME tv.conn = "up", ~unsaid'
               PROVE  /\ LastIsTrue(down', ClubWords, {ClubData(star', under')})
                      /\ tv.page = "club" /\ NoWord(down', ClubWords) /\ NoWord(up, {Ask("config", None)})
                         => tv.club = Public(ClubCourts, star', under')
    BY <1>1 DEF ClubInOrder
  <2>1. NoWord(ms, ClubWords) =>
          /\ LastIsTrue(down, ClubWords, {ClubData(star', under')})
          /\ tv.page = "club" /\ NoWord(down, ClubWords) /\ NoWord(up, {Ask("config", None)})
             => tv.club = Public(ClubCourts, star', under')
    BY DEF ScreensInv, ClubInOrder, ClubData
  <2>. QED BY <1>3, <1>7, <2>1
<1>10. RevisionInOrder'
  <2> SUFFICES ASSUME tv.conn = "up"
               PROVE  /\ LastIsTrue(down', BracketWords, {BracketIs(revision')})
                      /\ NoWord(down', BracketWords) => tv.bracket = revision'
    BY <1>1 DEF RevisionInOrder
  <2>1. NoWord(ms, BracketWords) =>
          /\ LastIsTrue(down, BracketWords, {BracketIs(revision')})
          /\ NoWord(down, BracketWords) => tv.bracket = revision'
    BY DEF ScreensInv, RevisionInOrder
  <2>. QED BY <1>3, <1>7, <2>1
<1>11. MatchInOrder'
  <2> SUFFICES ASSUME tv.sub \in room \ untold', NoWord(up, Asks(tv.sub))
               PROVE  /\ LastIsTrue(down', MatchWords, {MatchUpdate(tv.sub, score'[tv.sub])})
                      /\ NoWord(down', MatchWords) => tv.match = MatchUpdate(tv.sub, score'[tv.sub]).of
    BY <1>1 DEF MatchInOrder
  <2>1. tv.sub # None /\ tv.conn = "up"
    BY <1>2, NoneIsNone DEF ScreensInv, ScreenIsLive
  <2>2. room \subseteq {tv.sub}
    BY <2>1, SoleRoom
  <2>3. LastIsTrue(ms, MatchWords, {MatchUpdate(tv.sub, score'[tv.sub])})
    BY <1>3, <2>2
  <2>4. NoWord(ms, MatchWords) =>
          /\ LastIsTrue(down, MatchWords, {MatchUpdate(tv.sub, score'[tv.sub])})
          /\ NoWord(down, MatchWords) => tv.match = MatchUpdate(tv.sub, score'[tv.sub]).of
    BY DEF ScreensInv, MatchInOrder
  <2>. QED BY <1>3, <1>7, <2>1, <2>3, <2>4
<1>. QED BY <1>5, <1>6, <1>8, <1>9, <1>10, <1>11 DEF ScreensInv

(* What the pieces say that the hub's messages are made of.                   *)
LEMMA ToldWords ==
  ASSUME NEW starred \in SUBSET ScreenCourts, NEW courtsUnder \in SUBSET ScreenCourts,
         NEW points, NEW v, NEW listening, NEW c \in ScreenCourts
  PROVE  /\ Told(c, starred, courtsUnder) \in Seq(Truths(starred, courtsUnder, points, v, listening))
         /\ c \in ClubCourts => ~NoWord(Told(c, starred, courtsUnder), ClubWords)
         /\ c \notin ClubCourts =>
              \A d \in TournamentCourts : ~NoWord(Told(c, starred, courtsUnder), CourtWords(d))
<1>1. ClubData(starred, courtsUnder) \in ClubWords /\ \A d : CourtList(starred, courtsUnder) \in CourtWords(d)
  BY WordKinds
<1>2. {ClubData(starred, courtsUnder), CourtList(starred, courtsUnder)}
        \subseteq Truths(starred, courtsUnder, points, v, listening)
  BY DEF Truths
<1>3. \/ c \in ClubCourts /\ Told(c, starred, courtsUnder) = <<ClubData(starred, courtsUnder)>>
      \/ c \notin ClubCourts /\ Told(c, starred, courtsUnder) = <<CourtList(starred, courtsUnder)>>
  BY DEF Told
<1>4. CASE c \in ClubCourts
  <2>1. ~NoWord(<<ClubData(starred, courtsUnder)>>, ClubWords)
    BY <1>1, OneWord
  <2>2. <<ClubData(starred, courtsUnder)>> \in Seq(Truths(starred, courtsUnder, points, v, listening))
    BY <1>2, OneWord
  <2>3. Told(c, starred, courtsUnder) = <<ClubData(starred, courtsUnder)>>
    BY <1>3, <1>4
  <2>. QED BY ONLY <2>1, <2>2, <2>3, <1>4
<1>5. CASE c \notin ClubCourts
  <2>1. \A d : ~NoWord(<<CourtList(starred, courtsUnder)>>, CourtWords(d))
    BY <1>1, OneWord
  <2>2. <<CourtList(starred, courtsUnder)>> \in Seq(Truths(starred, courtsUnder, points, v, listening))
    BY <1>2, OneWord
  <2>. QED BY <2>1, <2>2, <1>3, <1>5
<1>. QED BY <1>4, <1>5

(* What the room of a court is told, if the television is in it.              *)
LEMMA RoomWords ==
  ASSUME NEW starred, NEW courtsUnder, NEW points, NEW v, NEW c \in ScreenCourts, points[c] \in 0 .. MaxScore
  PROVE  /\ ToRoom(c, MatchUpdate(c, points[c])) \in Seq(Truths(starred, courtsUnder, points, v, room))
         /\ c \in room => ~NoWord(ToRoom(c, MatchUpdate(c, points[c])), MatchWords)
<1>1. MatchUpdate(c, points[c]) \in MatchWords
  BY WordKinds
<1>2. c \in room => MatchUpdate(c, points[c]) \in Truths(starred, courtsUnder, points, v, room)
  BY DEF Truths
<1>. QED BY <1>1, <1>2, OneWord DEF ToRoom

(* Messages one after the other.                                              *)
LEMMA Joined ==
  ASSUME NEW S, NEW q \in Seq(S), NEW ms \in Seq(S)
  PROVE  q \o ms \in Seq(S) /\ \A W : NoWord(q \o ms, W) <=> NoWord(q, W) /\ NoWord(ms, W)
  BY AddedWords

(* A change of one court that everyone is told of, with what is told before   *)
(* and after.                                                                 *)
LEMMA CourtIsTold ==
  ASSUME ScreensInv, ScreensTypeOK', ActLeaves, NEW c \in ScreenCourts,
         NEW before \in Seq(Truths(star', under', score', revision', room)),
         NEW after \in Seq(Truths(star', under', score', revision', room)),
         Emit(before \o Told(c, star', under') \o after),
         \A d \in ScreenCourts \ {c} :
           /\ (d \in star' <=> d \in star) /\ (d \in under' <=> d \in under)
           /\ score'[d] = score[d] /\ (d \notin untold' => d \notin untold),
         ~unsaid' => ~unsaid \/ c \in ClubCourts,
         NoWord(before, BracketWords) => revision' = revision,
         c \in room /\ c \notin untold' => ~NoWord(after, MatchWords)
  PROVE  ScreensInv'
<1> DEFINE told == Told(c, star', under')
           S == Truths(star', under', score', revision', room)
           first == before \o told
           ms == first \o after
<1>1. ScreensTypeOK /\ star' \in SUBSET ScreenCourts /\ under' \in SUBSET ScreenCourts
  BY DEF ScreensInv, ScreensTypeOK
<1>2. /\ told \in Seq(S)
      /\ c \in ClubCourts => ~NoWord(told, ClubWords)
      /\ c \notin ClubCourts => \A d \in TournamentCourts : ~NoWord(told, CourtWords(d))
  BY <1>1, ToldWords
<1> HIDE DEF told, S
<1>10. before \in Seq(S) /\ after \in Seq(S)
  BY DEF S
<1>3. first \in Seq(S) /\ \A W : NoWord(first, W) <=> NoWord(before, W) /\ NoWord(told, W)
  BY <1>2, <1>10, Joined
<1> HIDE DEF first
<1>4. /\ ms \in Seq(S)
      /\ \A W : NoWord(ms, W) <=> NoWord(before, W) /\ NoWord(told, W) /\ NoWord(after, W)
  BY <1>3, <1>10, Joined
<1>5. Emit(ms)
  BY DEF told, first
<1> HIDE DEF ms
<1>6. ASSUME NEW d \in TournamentCourts, NoWord(ms, CourtWords(d))
      PROVE  (d \in star' <=> d \in star) /\ (d \in under' <=> d \in under)
  <2>1. d # c /\ d \in ScreenCourts
    BY <1>2, <1>4, <1>6, ScreensAssumption DEF ScreenCourts
  <2>. QED BY <2>1
<1>7. ASSUME ~unsaid', NoWord(ms, ClubWords)
      PROVE  ~unsaid /\ Public(ClubCourts, star', under') = Public(ClubCourts, star, under)
  <2>1. c \notin ClubCourts /\ ~unsaid
    BY <1>2, <1>4, <1>7
  <2>2. \A d \in ClubCourts : (d \in star' <=> d \in star) /\ (d \in under' <=> d \in under)
    BY <2>1 DEF ScreenCourts
  <2>. QED BY <2>1, <2>2 DEF Public
<1>8. NoWord(ms, BracketWords) => revision' = revision
  BY <1>4
<1>9. \A d \in room : d \notin untold' /\ NoWord(ms, MatchWords) => d \notin untold /\ score'[d] = score[d]
  BY <1>1, <1>4 DEF ScreensTypeOK
<1>. QED BY <1>4, <1>5, <1>6, <1>7, <1>8, <1>9, TellingKeeps DEF S

(* The same when nothing is told before.                                      *)
LEMMA CourtIsToldFirst ==
  ASSUME NEW S, NEW told \in Seq(S), NEW after \in Seq(S)
  PROVE  told \o after = <<>> \o told \o after /\ told = <<>> \o told \o <<>>
<1>1. <<>> \o told = told
  OBVIOUS
<1>2. told \o <<>> = told
  OBVIOUS
<1>. QED BY <1>1, <1>2

(* A point that does not win, a match that begins, one that is reset and a    *)
(* session that ends.                                                         *)
LEMMA RecordPointKeeps ==
  ASSUME ScreensInv, NEW c \in ScreenCourts, RecordPoint(c)
  PROVE  ScreensInv'
<1> DEFINE told == Told(c, star', under')
           match == ToRoom(c, MatchUpdate(c, score'[c]))
           S == Truths(star', under', score', revision', room)
<1>1. ScreensTypeOK
  BY DEF ScreensInv
<1>2. /\ ActLeaves /\ Emit(told \o match) /\ star' = star /\ under' = under /\ revision' = revision
      /\ untold' = untold \ {c} /\ unsaid' = (unsaid /\ c \notin ClubCourts) /\ mode' = mode
      /\ score' = [score EXCEPT ![c] = @ + 1] /\ score[c] + 1 < MaxScore /\ acts' = acts + 1
  BY DEF RecordPoint, Act
<1>3. ScreensTypeOK'
  <2>1. score' \in [ScreenCourts -> 0 .. MaxScore]
    BY <1>1, <1>2, ScreensAssumption DEF ScreensTypeOK
  <2>. QED BY <1>1, <1>2, <2>1 DEF ScreensTypeOK, ActLeaves
<1>4. told \in Seq(S) /\ match \in Seq(S) /\ (c \in room => ~NoWord(match, MatchWords))
  BY <1>1, <1>2, <1>3, ToldWords, RoomWords DEF ScreensTypeOK
<1>5. \A d \in ScreenCourts \ {c} : score'[d] = score[d]
  BY <1>1, <1>2 DEF ScreensTypeOK
<1> HIDE DEF match
<1>6. Emit(<<>> \o told \o match)
  BY <1>2, <1>4, CourtIsToldFirst
<1>. QED BY <1>2, <1>3, <1>4, <1>5, <1>6, CourtIsTold, OneWord

(* The court's next match.                                                    *)
LEMMA StartMatchKeeps ==
  ASSUME ScreensInv, NEW c \in ScreenCourts, StartMatch(c)
  PROVE  ScreensInv'
<1> DEFINE told == Told(c, star', under')
           match == ToRoom(c, MatchUpdate(c, score'[c]))
           S == Truths(star', under', score', revision', room)
<1>1. ScreensTypeOK
  BY DEF ScreensInv
<1>2. /\ ActLeaves /\ star' = star /\ under' = under \cup {c} /\ revision' = revision
      /\ untold' = untold \ {c} /\ unsaid' = (unsaid /\ c \notin ClubCourts) /\ mode' = mode
      /\ score' = [score EXCEPT ![c] = 0] /\ acts' = acts + 1
      /\ Emit(Told(c, star, under') \o ToRoom(c, MatchUpdate(c, 0)))
  BY DEF StartMatch, Act
<1>3. ScreensTypeOK'
  <2>1. score' \in [ScreenCourts -> 0 .. MaxScore]
    BY <1>1, <1>2, ScreensAssumption DEF ScreensTypeOK
  <2>. QED BY <1>1, <1>2, <2>1 DEF ScreensTypeOK, ActLeaves
<1>4. told \in Seq(S) /\ match \in Seq(S) /\ (c \in room => ~NoWord(match, MatchWords))
  BY <1>1, <1>2, <1>3, ToldWords, RoomWords DEF ScreensTypeOK
<1>5. score'[c] = 0 /\ \A d \in ScreenCourts \ {c} : score'[d] = score[d]
  BY <1>1, <1>2 DEF ScreensTypeOK
<1>7. Emit(told \o match)
  BY <1>2, <1>5
<1> HIDE DEF match
<1>6. Emit(<<>> \o told \o match)
  BY <1>4, <1>7, CourtIsToldFirst
<1>. QED BY <1>2, <1>3, <1>4, <1>5, <1>6, CourtIsTold, OneWord

(* A match reset: the room is not told, which untold records.                 *)
LEMMA ResetMatchKeeps ==
  ASSUME ScreensInv, NEW c \in ScreenCourts, ResetMatch(c)
  PROVE  ScreensInv'
<1> DEFINE told == Told(c, star', under')
           S == Truths(star', under', score', revision', room)
<1>1. ScreensTypeOK
  BY DEF ScreensInv
<1>2. /\ ActLeaves /\ Emit(told) /\ star' = star /\ under' = under \cup {c} /\ revision' = revision
      /\ untold' = untold \cup {c} /\ unsaid' = (unsaid /\ c \notin ClubCourts) /\ mode' = mode
      /\ score' = [score EXCEPT ![c] = 0] /\ acts' = acts + 1
  BY DEF ResetMatch, Act
<1>3. ScreensTypeOK'
  <2>1. score' \in [ScreenCourts -> 0 .. MaxScore]
    BY <1>1, <1>2, ScreensAssumption DEF ScreensTypeOK
  <2>. QED BY <1>1, <1>2, <2>1 DEF ScreensTypeOK, ActLeaves
<1>4. told \in Seq(S)
  BY <1>1, <1>2, <1>3, ToldWords DEF ScreensTypeOK
<1>5. \A d \in ScreenCourts \ {c} : score'[d] = score[d]
  BY <1>1, <1>2 DEF ScreensTypeOK
<1>6. Emit(<<>> \o told \o <<>>)
  BY <1>2, <1>4, OneWord, CourtIsToldFirst
<1>. QED BY <1>2, <1>3, <1>5, <1>6, CourtIsTold, OneWord

(* A session ended.                                                           *)
LEMMA EndSessionKeeps ==
  ASSUME ScreensInv, NEW c \in ScreenCourts, EndSession(c)
  PROVE  ScreensInv'
<1> DEFINE told == Told(c, star', under')
           S == Truths(star', under', score', revision', room)
<1>1. ScreensTypeOK
  BY DEF ScreensInv
<1>2. /\ ActLeaves /\ Emit(told) /\ star' = star /\ under' = under \ {c} /\ revision' = revision
      /\ untold' = untold \cup {c} /\ unsaid' = FALSE /\ c \in ClubCourts /\ mode' = mode
      /\ score' = [score EXCEPT ![c] = 0] /\ acts' = acts + 1
  BY DEF EndSession, Act
<1>3. ScreensTypeOK'
  <2>1. score' \in [ScreenCourts -> 0 .. MaxScore]
    BY <1>1, <1>2, ScreensAssumption DEF ScreensTypeOK
  <2>2. under' \subseteq ScreenCourts /\ untold' \subseteq ScreenCourts /\ acts' \in Nat
    BY <1>1, <1>2 DEF ScreensTypeOK
  <2>. QED BY <1>1, <1>2, <2>1, <2>2 DEF ScreensTypeOK, ActLeaves
<1>4. told \in Seq(S)
  BY <1>1, <1>2, <1>3, ToldWords DEF ScreensTypeOK
<1>5. \A d \in ScreenCourts \ {c} : score'[d] = score[d]
  BY <1>1, <1>2 DEF ScreensTypeOK
<1>6. Emit(<<>> \o told \o <<>>)
  BY <1>2, <1>4, OneWord, CourtIsToldFirst
<1>. QED BY <1>2, <1>3, <1>5, <1>6, CourtIsTold, OneWord

(* Nothing changes for the screens but the mode.                              *)
LEMMA SetKioskModeKeeps ==
  ASSUME ScreensInv, NEW m \in Modes, SetKioskMode(m)
  PROVE  ScreensInv'
<1>1. ScreensTypeOK
  BY DEF ScreensInv
<1>2. /\ ActLeaves /\ Emit(<<ModeIs(m)>>) /\ mode' = m /\ acts' = acts + 1
      /\ UNCHANGED <<star, under, score, revision, untold, unsaid>>
  BY DEF SetKioskMode, Act
<1>3. ScreensTypeOK'
  BY <1>1, <1>2 DEF ScreensTypeOK, ActLeaves
<1>4. <<ModeIs(m)>> \in Seq(Truths(star', under', score', revision', room))
  <2>1. ModeIs(m) \in Truths(star', under', score', revision', room)
    BY DEF Truths
  <2>. QED BY <2>1, OneWord
<1>. QED BY <1>2, <1>3, <1>4, TellingKeeps

(* The winning point on a club court changes its score only; on a tournament  *)
(* court star and bracket too, which is told before.                          *)
LEMMA MatchWonKeeps ==
  ASSUME ScreensInv, NEW c \in ScreenCourts, MatchWon(c)
  PROVE  ScreensInv'
<1> DEFINE told == Told(c, star', under')
           match == ToRoom(c, MatchUpdate(c, score'[c]))
           S == Truths(star', under', score', revision', room)
<1>1. ScreensTypeOK
  BY DEF ScreensInv
<1>2. /\ ActLeaves /\ acts' = acts + 1 /\ score' = [score EXCEPT ![c] = MaxScore] /\ untold' = untold \ {c}
      /\ unsaid' = (unsaid /\ c \notin ClubCourts) /\ mode' = mode
  BY DEF MatchWon, Act
<1>3. score' \in [ScreenCourts -> 0 .. MaxScore] /\ score'[c] = MaxScore
  BY <1>1, <1>2, ScreensAssumption DEF ScreensTypeOK
<1>4. \A d \in ScreenCourts \ {c} : score'[d] = score[d]
  BY <1>1, <1>2 DEF ScreensTypeOK
<1>5. CASE c \in ClubCourts
  <2>1. star' = star /\ under' = under /\ revision' = revision
    BY <1>5 DEF MatchWon
  <2>2. Emit(match \o told \o match)
    BY <1>3, <1>5, <2>1 DEF MatchWon
  <2>3. ScreensTypeOK'
    BY <1>1, <1>2, <1>3, <2>1 DEF ScreensTypeOK, ActLeaves
  <2>4. match \in Seq(S) /\ (c \in room => ~NoWord(match, MatchWords))
    BY <1>3, RoomWords
  <2> HIDE DEF match
  <2>. QED BY <1>2, <1>4, <2>1, <2>2, <2>3, <2>4, CourtIsTold
<1>6. CASE c \notin ClubCourts
  <2> DEFINE unstarred == IF c \in star THEN <<CourtUpdate(c, star', under')>> ELSE <<>>
             before == unstarred \o <<BracketIs(revision')>>
  <2>1. star' = star \ {c} /\ under' = under \ {c} /\ revision' = revision + 1
    BY <1>6 DEF MatchWon
  <2>2. Emit(before \o told \o match)
    BY <1>3, <1>6 DEF MatchWon
  <2>3. ScreensTypeOK'
    <3>1. star' \subseteq ScreenCourts /\ (\A d, e \in star' : d = e) /\ under' \subseteq ScreenCourts /\ revision' \in Nat
      BY <1>1, <2>1 DEF ScreensTypeOK
    <3>. QED BY <1>1, <1>2, <1>3, <3>1 DEF ScreensTypeOK, ActLeaves
  <2>4. match \in Seq(S) /\ (c \in room => ~NoWord(match, MatchWords))
    BY <1>3, RoomWords
  <2>5. before \in Seq(S) /\ ~NoWord(before, BracketWords)
    <3>1. c \in TournamentCourts
      BY <1>6 DEF ScreenCourts
    <3>2. CourtUpdate(c, star', under') \in S /\ BracketIs(revision') \in S
      BY <3>1 DEF Truths
    <3>3. BracketIs(revision') \in BracketWords
      BY <2>3, WordKinds DEF ScreensTypeOK
    <3> HIDE DEF S
    <3>4. unstarred \in Seq(S) /\ <<BracketIs(revision')>> \in Seq(S)
      BY <3>2, OneWord
    <3>5. ~NoWord(<<BracketIs(revision')>>, BracketWords)
      BY <3>3, OneWord
    <3> HIDE DEF unstarred
    <3>. QED BY <3>4, <3>5, Joined
  <2> HIDE DEF match, before
  <2>6. \A d \in ScreenCourts \ {c} : (d \in star' <=> d \in star) /\ (d \in under' <=> d \in under)
    BY <2>1
  <2>. QED BY <1>2, <1>4, <2>2, <2>3, <2>4, <2>5, <2>6, CourtIsTold
<1>. QED BY <1>5, <1>6

(* The smallest of one court is that court.                                   *)
LEMMA MinOfOne ==
  ASSUME NEW S, S \subseteq ScreenCourts, S # {}, \A c, d \in S : c = d
  PROVE  S = {Min(S)}
<1>1. PICK c \in S : S = {c} /\ c \in Nat
  BY NoneIsNone
<1>2. \A x \in {c} : (\A y \in {c} : x <= y) <=> TRUE
  BY <1>1
<1>3. Min({c}) = c
  BY <1>2 DEF Min
<1>. QED BY <1>1, <1>3

(* A court that gets or loses the star is told of by itself.                  *)
LEMMA StarringWords ==
  ASSUME NEW starred \in SUBSET ScreenCourts, under \in SUBSET ScreenCourts,
         NEW points, NEW v, NEW listening, NEW c \in ScreenCourts
  PROVE  /\ Starring(c, starred) \in Seq(Truths(starred, under, points, v, listening))
         /\ c \in ClubCourts => ~NoWord(Starring(c, starred), ClubWords) /\ SaysClub(Starring(c, starred))
         /\ c \notin ClubCourts => ~NoWord(Starring(c, starred), CourtWords(c))
<1>1. CASE c \in ClubCourts
  <2>1. Starring(c, starred) = <<ClubData(starred, under)>> /\ ClubData(starred, under).kind = "club"
    BY <1>1 DEF Starring, ClubData
  <2>2. ClubData(starred, under) \in Truths(starred, under, points, v, listening)
    BY DEF Truths
  <2>3. <<ClubData(starred, under)>> \in Seq(Truths(starred, under, points, v, listening))
    BY <2>2, OneWord
  <2>4. ~NoWord(<<ClubData(starred, under)>>, ClubWords)
    BY WordKinds, OneWord
  <2>5. SaysClub(<<ClubData(starred, under)>>)
    BY <2>1 DEF SaysClub
  <2>. QED BY <1>1, <2>1, <2>3, <2>4, <2>5
<1>2. CASE c \notin ClubCourts
  <2>1. Starring(c, starred) = <<CourtUpdate(c, starred, under)>> /\ c \in TournamentCourts
    BY <1>2 DEF Starring, ScreenCourts
  <2>2. CourtUpdate(c, starred, under) \in Truths(starred, under, points, v, listening)
    BY <2>1 DEF Truths
  <2>3. <<CourtUpdate(c, starred, under)>> \in Seq(Truths(starred, under, points, v, listening))
    BY <2>2, OneWord
  <2>4. ~NoWord(<<CourtUpdate(c, starred, under)>>, CourtWords(c))
    BY <2>1, WordKinds, OneWord
  <2>. QED BY <1>2, <2>1, <2>3, <2>4
<1>. QED BY <1>1, <1>2

(* The star taken away.                                                       *)
LEMMA ClearFeaturedKeeps ==
  ASSUME ScreensInv, ClearFeatured
  PROVE  ScreensInv'
<1> DEFINE c == Min(star)
           ms == Starring(c, star')
           S == Truths(star', under', score', revision', room)
<1>1. ScreensTypeOK
  BY DEF ScreensInv
<1>2. /\ ActLeaves /\ Emit(ms) /\ acts' = acts + 1 /\ star # {} /\ star' = {}
      /\ unsaid' = (unsaid /\ star \cap ClubCourts = {})
      /\ UNCHANGED <<under, score, mode, revision, untold>>
  BY DEF ClearFeatured, Act
<1>3. star = {c} /\ c \in ScreenCourts
  BY <1>1, <1>2, MinOfOne DEF ScreensTypeOK
<1>4. ScreensTypeOK'
  BY <1>1, <1>2 DEF ScreensTypeOK, ActLeaves
<1>5. /\ ms \in Seq(S)
      /\ c \in ClubCourts => ~NoWord(ms, ClubWords)
      /\ c \notin ClubCourts => ~NoWord(ms, CourtWords(c))
  <2>1. under \in SUBSET ScreenCourts /\ star' \in SUBSET ScreenCourts
    BY <1>1, <1>4 DEF ScreensTypeOK
  <2>. QED BY <1>2, <1>3, <2>1, StarringWords
<1> HIDE DEF c, ms
<1>6. ASSUME NEW d \in TournamentCourts, NoWord(ms, CourtWords(d))
      PROVE  (d \in star' <=> d \in star) /\ (d \in under' <=> d \in under)
  BY <1>2, <1>3, <1>5, <1>6, ScreensAssumption
<1>7. ASSUME ~unsaid', NoWord(ms, ClubWords)
      PROVE  ~unsaid /\ Public(ClubCourts, star', under') = Public(ClubCourts, star, under)
  <2>1. star \cap ClubCourts = {} /\ ~unsaid
    BY <1>2, <1>3, <1>5, <1>7
  <2>. QED BY <1>2, <2>1 DEF Public
<1>. QED BY <1>2, <1>4, <1>5, <1>6, <1>7, TellingKeeps

(* The star moves: a tournament court that loses it is told of, a club's only *)
(* if the one that gets it is one too.                                        *)
LEMMA SetFeaturedKeeps ==
  ASSUME ScreensInv, NEW c \in ScreenCourts, SetFeatured(c)
  PROVE  ScreensInv'
<1> DEFINE first == IF star = {c} THEN <<>> ELSE Unstarring
           then == Starring(c, {c})
           ms == first \o then
           S == Truths(star', under', score', revision', room)
<1>1. ScreensTypeOK
  BY DEF ScreensInv
<1>2. /\ ActLeaves /\ Emit(ms) /\ acts' = acts + 1 /\ star' = {c}
      /\ unsaid' = ((unsaid \/ (star \ {c}) \cap ClubCourts # {}) /\ ~SaysClub(ms))
      /\ UNCHANGED <<under, score, mode, revision, untold>>
  BY DEF SetFeatured, Act, Sole
<1>3. ScreensTypeOK'
  <2>1. star' \subseteq ScreenCourts /\ (\A d, e \in star' : d = e) /\ unsaid' \in BOOLEAN
    BY <1>2
  <2>. QED BY <1>1, <1>2, <2>1 DEF ScreensTypeOK, ActLeaves
<1>4. /\ then \in Seq(S)
      /\ c \in ClubCourts => ~NoWord(then, ClubWords)
      /\ c \notin ClubCourts => ~NoWord(then, CourtWords(c))
  <2>1. under \in SUBSET ScreenCourts /\ star' \in SUBSET ScreenCourts
    BY <1>1, <1>3 DEF ScreensTypeOK
  <2>. QED BY <1>2, <2>1, StarringWords
<1>5. first \in Seq(S) /\ \A d \in (star \ {c}) \cap TournamentCourts : ~NoWord(first, CourtWords(d))
  <2> DEFINE others == star \cap TournamentCourts
             o == Min(others)
  <2>1. CASE star = {c} \/ others = {}
    <3>1. first = <<>>
      BY <2>1 DEF Unstarring
    <3>2. (star \ {c}) \cap TournamentCourts = {}
      BY <2>1
    <3>. QED BY <3>1, <3>2, OneWord
  <2>2. CASE star # {c} /\ others # {}
    <3>1. others = {o} /\ o \in TournamentCourts
      BY <1>1, <2>2, MinOfOne DEF ScreensTypeOK
    <3>2. first = <<CourtUpdate(o, {}, under)>>
      BY <2>2 DEF Unstarring
    <3>3. o # c
      BY <1>1, <2>2, <3>1 DEF ScreensTypeOK
    <3>4. CourtUpdate(o, {}, under) = CourtUpdate(o, star', under')
      BY <1>2, <3>3 DEF CourtUpdate, Public
    <3>5. CourtUpdate(o, star', under') \in S
      BY <3>1 DEF Truths
    <3>6. CourtUpdate(o, star', under') \in CourtWords(o)
      BY <1>3, <3>1, WordKinds DEF ScreensTypeOK
    <3> HIDE DEF S, o
    <3>7. first \in Seq(S) /\ ~NoWord(first, CourtWords(o))
      BY <3>2, <3>4, <3>5, <3>6, OneWord
    <3>. QED BY <3>1, <3>7
  <2>. QED BY <2>1, <2>2
<1> HIDE DEF first, then, S
<1>6. ms \in Seq(S) /\ \A W : NoWord(ms, W) <=> NoWord(first, W) /\ NoWord(then, W)
  BY <1>4, <1>5, Joined
<1>7. ms \in Seq(Message)
  <2>1. /\ star' \in SUBSET ScreenCourts /\ under' \in SUBSET ScreenCourts /\ revision' \in Nat
        /\ score' \in [ScreenCourts -> 0 .. MaxScore] /\ room \in SUBSET ScreenCourts
    BY <1>1, <1>3 DEF ScreensTypeOK
  <2>. QED BY <1>6, <2>1, TruthsAreTrue DEF S
<1> HIDE DEF ms
<1>8. ASSUME NEW d \in TournamentCourts, NoWord(ms, CourtWords(d))
      PROVE  (d \in star' <=> d \in star) /\ (d \in under' <=> d \in under)
  <2>1. d # c
    BY <1>4, <1>6, <1>8, ScreensAssumption
  <2>. QED BY <1>2, <1>5, <1>6, <1>8, <2>1
<1>9. ASSUME ~unsaid', NoWord(ms, ClubWords)
      PROVE  ~unsaid /\ Public(ClubCourts, star', under') = Public(ClubCourts, star, under)
  <2>1. ~SaysClub(ms)
    BY <1>7, <1>9 DEF SaysClub, NoWord, ClubWords
  <2>2. c \notin ClubCourts
    BY <1>4, <1>6, <1>9
  <2>3. ~unsaid /\ star \cap ClubCourts = {} /\ star' \cap ClubCourts = {}
    BY <1>2, <1>9, <2>1, <2>2
  <2>. QED BY <1>2, <2>3 DEF Public
<1>. QED BY <1>2, <1>3, <1>6, <1>8, <1>9, TellingKeeps DEF S

(* What a message is by its kind.                                             *)
LEMMA MessageKinds ==
  ASSUME NEW m \in Message
  PROVE  \/ m.kind = "list" /\ m.of \in Snapshot(TournamentCourts)
         \/ m.kind = "club" /\ m.of \in Snapshot(ClubCourts)
         \/ /\ m.kind = "update" /\ m.court \in TournamentCourts
            /\ m.of.starred \subseteq {m.court} /\ m.of.under \subseteq {m.court}
         \/ m.kind = "match" /\ m.of \in Match
         \/ m.kind = "mode" /\ m.of \in Modes
         \/ m.kind = "bracket" /\ m.of \in Nat
<1>1. CASE m \in Updates
  <2>1. PICK c \in TournamentCourts : m \in [kind : {"update"}, court : {c}, of : Snapshot({c})]
    BY <1>1 DEF Updates
  <2>. QED BY <2>1 DEF Snapshot
<1>2. CASE m \notin Updates
  <2>1. \/ m \in [kind : {"list"}, of : Snapshot(TournamentCourts)]
        \/ m \in [kind : {"club"}, of : Snapshot(ClubCourts)]
        \/ m \in [kind : {"match"}, of : Match]
        \/ m \in [kind : {"mode"}, of : Modes]
        \/ m \in [kind : {"bracket"}, of : Nat]
    BY <1>2 DEF Message
  <2>. QED BY <2>1
<1>. QED BY <1>1, <1>2

(* The television takes in a message: it changes what is of its kind.         *)
LEMMA ReceivedKinds ==
  ASSUME ScreensTypeOK, NEW m \in Message
  PROVE  /\ Received(m) \in Television
         /\ Received(m).conn = tv.conn /\ Received(m).page = tv.page /\ Received(m).sub = tv.sub
         /\ m.kind = "list" => Received(m).list = m.of
         /\ m.kind = "update" => Received(m).list = Merged(tv.list, m)
         /\ m.kind \notin {"list", "update"} => Received(m).list = tv.list
         /\ m.kind = "club" /\ tv.page = "club" => Received(m).club = m.of
         /\ m.kind # "club" => Received(m).club = tv.club
         /\ m.kind = "bracket" => Received(m).bracket = m.of
         /\ m.kind # "bracket" => Received(m).bracket = tv.bracket
         /\ m.kind = "match" /\ tv.sub # None => Received(m).match = m.of
         /\ m.kind # "match" => Received(m).match = tv.match
<1>1. tv \in Television
  BY DEF ScreensTypeOK
<1>2. CASE m.kind = "list" /\ m.of \in Snapshot(TournamentCourts)
  <2>1. Received(m) = [tv EXCEPT !.list = m.of]
    BY <1>2 DEF Received
  <2>. QED BY <1>1, <1>2, <2>1 DEF Television
<1>3. CASE /\ m.kind = "update" /\ m.court \in TournamentCourts
           /\ m.of.starred \subseteq {m.court} /\ m.of.under \subseteq {m.court}
  <2>1. Received(m) = [tv EXCEPT !.list = Merged(tv.list, m)]
    BY <1>1, <1>3 DEF Received, Television
  <2>2. tv.list \in Snapshot(TournamentCourts)
    BY <1>1 DEF Television
  <2>3. Merged(tv.list, m) \in Snapshot(TournamentCourts)
    BY <1>3, <2>2 DEF Merged, Snapshot
  <2>. QED BY <1>1, <1>3, <2>1, <2>3 DEF Television
<1>4. CASE m.kind = "bracket" /\ m.of \in Nat
  <2>1. Received(m) = [tv EXCEPT !.bracket = m.of]
    BY <1>4 DEF Received
  <2>. QED BY <1>1, <1>4, <2>1 DEF Television
<1>5. CASE m.kind = "mode" /\ m.of \in Modes
  <2>1. Received(m) = tv \/ Received(m) = [tv EXCEPT !.wanted = m.of]
    BY <1>5 DEF Received
  <2>. QED BY <1>1, <1>5, <2>1 DEF Television
<1>6. CASE m.kind = "club" /\ m.of \in Snapshot(ClubCourts)
  <2>1. Received(m) = IF tv.page = "club" THEN [tv EXCEPT !.club = m.of] ELSE tv
    BY <1>6 DEF Received
  <2>. QED BY <1>1, <1>6, <2>1 DEF Television
<1>7. CASE m.kind = "match" /\ m.of \in Match
  <2>1. Received(m) = IF tv.sub # None THEN [tv EXCEPT !.match = m.of] ELSE tv
    BY <1>7 DEF Received
  <2>. QED BY <1>1, <1>7, <2>1 DEF Television
<1>. QED BY <1>2, <1>3, <1>4, <1>5, <1>6, <1>7, MessageKinds

(* A message that is heard: what was under way is what is under way or shown. *)
LEMMA DeliverKeeps ==
  ASSUME ScreensInv, Deliver
  PROVE  ScreensInv'
<1> DEFINE m == Head(down)
<1>1. ScreensTypeOK /\ ScreensQueued
  BY DEF ScreensInv
<1>2. /\ tv.conn = "up" /\ down # <<>> /\ tv' = Received(m) /\ down' = Tail(down)
      /\ UNCHANGED <<star, under, score, mode, revision, room, up, untold, unsaid, missed, acts>>
  BY DEF Deliver, hub
<1>3. m \in Message /\ down' \in Seq(Message)
  BY <1>1, <1>2 DEF ScreensQueued
<1>4. \A W : /\ NoWord(down, W) <=> NoWord(down', W) /\ m \notin W
             /\ \A T : LastIsTrue(down, W, T) => /\ LastIsTrue(down', W, T)
                                                 /\ NoWord(down', W) /\ m \in W => m \in T
  BY <1>1, <1>2, HeardWords DEF ScreensQueued
<1>5. /\ tv' \in Television /\ tv'.conn = tv.conn /\ tv'.page = tv.page /\ tv'.sub = tv.sub
  BY <1>1, <1>2, <1>3, ReceivedKinds
<1> HIDE DEF m
<1>6. ScreensTypeOK' /\ ScreensQueued' /\ ScreenIsLive'
  BY <1>1, <1>2, <1>3, <1>5 DEF ScreensTypeOK, ScreensQueued, ScreenIsLive
<1>7. AsksInOrder' /\ SubIsLast' /\ SubsAlternate'
  BY <1>2, <1>5 DEF ScreensInv, AsksInOrder, SubIsLast, SubsAlternate
<1>8. ListInOrder'
  <2> SUFFICES ASSUME NEW c \in TournamentCourts
               PROVE  /\ LastIsTrue(down', CourtWords(c), CourtTruth(c, star, under))
                      /\ NoWord(down', CourtWords(c)) => Says(tv'.list, c, star, under)
    BY <1>2 DEF ListInOrder
  <2>1. /\ LastIsTrue(down, CourtWords(c), CourtTruth(c, star, under))
        /\ NoWord(down, CourtWords(c)) => Says(tv.list, c, star, under)
    BY <1>2 DEF ScreensInv, ListInOrder
  <2>2. ASSUME NoWord(down', CourtWords(c)), m \in CourtWords(c) PROVE Says(tv'.list, c, star, under)
    <3>1. Says(m.of, c, star, under)
      BY <1>4, <2>1, <2>2 DEF CourtTruth
    <3>2. CASE m.kind = "list"
      BY <1>1, <1>2, <1>3, <3>1, <3>2, ReceivedKinds
    <3>3. CASE m.kind = "update" /\ m.court = c
      <4>1. tv'.list = Merged(tv.list, m)
        BY <1>1, <1>2, <1>3, <3>3, ReceivedKinds
      <4>. QED BY <3>1, <3>3, <4>1 DEF Merged, Says
    <3>. QED BY <2>2, <3>2, <3>3 DEF CourtWords
  <2>3. ASSUME NoWord(down', CourtWords(c)), m \notin CourtWords(c) PROVE Says(tv'.list, c, star, under)
    <3>1. Says(tv.list, c, star, under)
      BY <1>4, <2>1, <2>3
    <3>2. CASE m.kind \notin {"list", "update"}
      BY <1>1, <1>2, <1>3, <3>1, <3>2, ReceivedKinds
    <3>3. CASE m.kind = "update" /\ m.court # c
      <4>1. tv'.list = Merged(tv.list, m)
        BY <1>1, <1>2, <1>3, <3>3, ReceivedKinds
      <4>2. m.of.starred \subseteq {m.court} /\ m.of.under \subseteq {m.court}
        BY <1>3, <3>3, MessageKinds
      <4>. QED BY <3>1, <3>3, <4>1, <4>2 DEF Merged, Says
    <3>. QED BY <1>3, <2>3, <3>2, <3>3 DEF CourtWords
  <2>. QED BY <1>4, <2>1, <2>2, <2>3
<1>9. ClubInOrder'
  <2> SUFFICES ASSUME ~unsaid
               PROVE  /\ LastIsTrue(down', ClubWords, {ClubData(star, under)})
                      /\ tv.page = "club" /\ NoWord(down', ClubWords) /\ NoWord(up, {Ask("config", None)})
                         => tv'.club = Public(ClubCourts, star, under)
    BY <1>2, <1>5 DEF ClubInOrder
  <2>1. /\ LastIsTrue(down, ClubWords, {ClubData(star, under)})
        /\ tv.page = "club" /\ NoWord(down, ClubWords) /\ NoWord(up, {Ask("config", None)})
           => tv.club = Public(ClubCourts, star, under)
    BY <1>2 DEF ScreensInv, ClubInOrder
  <2>2. m \in ClubWords <=> m.kind = "club"
    BY <1>3 DEF ClubWords
  <2>3. ClubData(star, under).of = Public(ClubCourts, star, under)
    BY DEF ClubData
  <2>4. (m.kind = "club" /\ tv.page = "club" => tv'.club = m.of) /\ (m.kind # "club" => tv'.club = tv.club)
    BY <1>1, <1>2, <1>3, ReceivedKinds
  <2>. QED BY <1>4, <2>1, <2>2, <2>3, <2>4
<1>10. RevisionInOrder'
  <2>1. /\ LastIsTrue(down, BracketWords, {BracketIs(revision)})
        /\ NoWord(down, BracketWords) => tv.bracket = revision
    BY <1>2 DEF ScreensInv, RevisionInOrder
  <2>2. (m \in BracketWords <=> m.kind = "bracket") /\ BracketIs(revision).of = revision
    BY <1>3 DEF BracketWords, BracketIs
  <2>3. (m.kind = "bracket" => tv'.bracket = m.of) /\ (m.kind # "bracket" => tv'.bracket = tv.bracket)
    BY <1>1, <1>2, <1>3, ReceivedKinds
  <2>4. /\ LastIsTrue(down', BracketWords, {BracketIs(revision)})
        /\ NoWord(down', BracketWords) => tv'.bracket = revision
    BY <1>4, <2>1, <2>2, <2>3
  <2>. QED BY <1>2, <2>4 DEF RevisionInOrder
<1>11. MatchInOrder'
  <2> SUFFICES ASSUME tv.sub \in room \ untold, NoWord(up, Asks(tv.sub))
               PROVE  /\ LastIsTrue(down', MatchWords, {MatchUpdate(tv.sub, score[tv.sub])})
                      /\ NoWord(down', MatchWords) => tv'.match = MatchUpdate(tv.sub, score[tv.sub]).of
    BY <1>2, <1>5 DEF MatchInOrder
  <2>1. /\ LastIsTrue(down, MatchWords, {MatchUpdate(tv.sub, score[tv.sub])})
        /\ NoWord(down, MatchWords) => tv.match = MatchUpdate(tv.sub, score[tv.sub]).of
    BY DEF ScreensInv, MatchInOrder
  <2>2. m \in MatchWords <=> m.kind = "match"
    BY <1>3 DEF MatchWords
  <2>3. tv.sub # None
    BY <1>1, NoneIsNone DEF ScreensTypeOK
  <2>4. (m.kind = "match" => tv'.match = m.of) /\ (m.kind # "match" => tv'.match = tv.match)
    BY <1>1, <1>2, <1>3, <2>3, ReceivedKinds
  <2>. QED BY <1>4, <2>1, <2>2, <2>4
<1>. QED BY <1>6, <1>7, <1>8, <1>9, <1>10, <1>11 DEF ScreensInv

(* Requests differ by kind and court.                                         *)
LEMMA AskKinds ==
  ASSUME NEW k, NEW c, NEW l, NEW d
  PROVE  Ask(k, c) = Ask(l, d) <=> k = l /\ c = d
  BY DEF Ask

(* What the requests are.                                                     *)
LEMMA RequestKinds ==
  /\ \A r \in Request :
       /\ r = Ask(r.kind, r.court)
       /\ \/ r.kind \in {"list", "mode", "config"} /\ r.court = None
          \/ r.kind \in {"sub", "unsub"} /\ r.court \in ScreenCourts
  /\ {Ask("list", None), Ask("mode", None), Ask("config", None)} \subseteq Request
  /\ \A c \in ScreenCourts : Asks(c) \subseteq Request
  BY DEF Request, Ask, Asks

(* What the hub tells a socket that connects.                                 *)
LEMMA PushedWords ==
  ASSUME ScreensTypeOK
  PROVE  /\ Pushed \in Seq(Message)
         /\ \A c \in TournamentCourts : /\ LastIsTrue(Pushed, CourtWords(c), CourtTruth(c, star, under))
                                        /\ ~NoWord(Pushed, CourtWords(c))
         /\ LastIsTrue(Pushed, ClubWords, {ClubData(star, under)}) /\ ~NoWord(Pushed, ClubWords)
         /\ LastIsTrue(Pushed, BracketWords, {BracketIs(revision)}) /\ ~NoWord(Pushed, BracketWords)
<1> DEFINE S == Truths(star, under, score, revision, {})
<1>1. /\ star \in SUBSET ScreenCourts /\ under \in SUBSET ScreenCourts /\ revision \in Nat
      /\ score \in [ScreenCourts -> 0 .. MaxScore] /\ mode \in Modes
  BY DEF ScreensTypeOK
<1>2. {CourtList(star, under), ClubData(star, under), ModeIs(mode), BracketIs(revision)} \subseteq S
  BY <1>1 DEF Truths
<1>3. \A m1, m2, m3, m4 \in S : <<m1, m2, m3, m4>> \in Seq(S)
  OBVIOUS
<1>4. Pushed \in Seq(S)
  BY <1>2, <1>3 DEF Pushed
<1>5. \A W : CourtList(star, under) \in W => ~NoWord(Pushed, W)
  BY DEF Pushed, NoWord
<1>6. \A W : ClubData(star, under) \in W => ~NoWord(Pushed, W)
  BY DEF Pushed, NoWord
<1>7. \A W : BracketIs(revision) \in W => ~NoWord(Pushed, W)
  BY DEF Pushed, NoWord
<1>8. /\ \A c : CourtList(star, under) \in CourtWords(c)
      /\ ClubData(star, under) \in ClubWords /\ BracketIs(revision) \in BracketWords
  BY <1>1, WordKinds
<1>9. {} \in SUBSET ScreenCourts
  OBVIOUS
<1> HIDE DEF S
<1>10. /\ Pushed \in Seq(Message)
       /\ \A c \in TournamentCourts : LastIsTrue(Pushed, CourtWords(c), CourtTruth(c, star, under))
       /\ LastIsTrue(Pushed, ClubWords, {ClubData(star, under)})
       /\ LastIsTrue(Pushed, BracketWords, {BracketIs(revision)})
  BY <1>1, <1>4, <1>9, TruthsAreTrue DEF S
<1>. QED BY <1>5, <1>6, <1>7, <1>8, <1>10

(* A page that is new is told everything, and has asked for the courts.       *)
LEMMA NewPageType == NewPage \in Television /\ NewPage.sub = None
  BY ScreensAssumption DEF NewPage, Television, EmptyList, Snapshot, NoMatch, Match, Pages, Modes, None

LEMMA AsksForCourtsOnly ==
  /\ AsksForCourts \in Seq(Request)
  /\ NoWord(AsksForCourts, AllAsks) /\ \A c \in ScreenCourts : NoWord(AsksForCourts, Asks(c))
<1> DEFINE m == Ask("list", None)
<1>1. m \in Request /\ m \notin AllAsks /\ \A c \in ScreenCourts : m \notin Asks(c)
  BY RequestKinds, AskKinds DEF Asks, AllAsks
<1> HIDE DEF m
<1>2. AsksForCourts = <<m>>
  BY DEF AsksForCourts, m
<1>. QED BY <1>1, <1>2, OneWord

(* So a new page satisfies the invariant.                                     *)
LEMMA NewInOrder ==
  ScreensTypeOK /\ tv = NewPage /\ room = {} /\ down = Pushed /\ up = AsksForCourts => ScreensInv
<1> SUFFICES ASSUME ScreensTypeOK, tv = NewPage, room = {}, down = Pushed, up = AsksForCourts
             PROVE  ScreensInv
  OBVIOUS
<1>1. tv.conn = "up" /\ tv.sub = None /\ tv.page = "none"
  BY DEF NewPage
<1>2. ScreensQueued /\ ScreenIsLive
  BY <1>1, PushedWords, AsksForCourtsOnly DEF ScreensQueued, ScreenIsLive
<1>3. ListInOrder /\ ClubInOrder /\ RevisionInOrder
  BY PushedWords DEF ListInOrder, ClubInOrder, RevisionInOrder
<1>4. \A c \in ScreenCourts : \A k \in DOMAIN up : up[k] \notin Asks(c)
  BY AsksForCourtsOnly DEF NoWord
<1>5. AsksInOrder
  BY <1>1, <1>4, NoneIsNone DEF AsksInOrder, LeadsTo, NoWord
<1>6. SubsAlternate
  BY <1>4 DEF SubsAlternate, Alternate, Asks
<1>7. SubIsLast /\ MatchInOrder
  BY <1>1 DEF SubIsLast, MatchInOrder
<1>. QED BY <1>2, <1>3, <1>5, <1>6, <1>7 DEF ScreensInv

(* The first page is such a page.                                             *)
LEMMA ScreensInitInv == ScreensInit => ScreensInv
<1> SUFFICES ASSUME ScreensInit PROVE ScreensInv
  OBVIOUS
<1>1. ScreensTypeOK
  <2>1. score \in [ScreenCourts -> 0 .. MaxScore]
    BY ScreensAssumption DEF ScreensInit
  <2>2. under \subseteq ScreenCourts /\ mode \in Modes
    BY DEF ScreensInit, ScreenCourts, Modes
  <2>. QED BY <2>1, <2>2, NewPageType DEF ScreensInit, ScreensTypeOK
<1>. QED BY <1>1, NewInOrder DEF ScreensInit

(* And so is one that is loaded again.                                        *)
LEMMA ReloadKeeps == ScreensInv /\ Reload => ScreensInv'
<1> SUFFICES ASSUME ScreensInv, Reload PROVE ScreensInv'
  OBVIOUS
<1>1. /\ tv.conn = "lost" /\ tv' = NewPage /\ up' = AsksForCourts /\ unsaid' = FALSE /\ missed' = FALSE
      /\ UNCHANGED <<star, under, score, mode, revision, room, untold, acts>>
      /\ down' = Pushed
  BY DEF Reload, hub
<1>2. Pushed' = Pushed /\ AsksForCourts' = AsksForCourts
  BY <1>1 DEF Pushed, AsksForCourts
<1>3. room' = {}
  BY <1>1 DEF ScreensInv, ScreenIsLive
<1>4. ScreensTypeOK'
  BY <1>1, NewPageType DEF ScreensInv, ScreensTypeOK
<1>5. (ScreensTypeOK /\ tv = NewPage /\ room = {} /\ down = Pushed /\ up = AsksForCourts => ScreensInv)'
  BY NewInOrder, PTL
<1>. QED BY <1>1, <1>2, <1>3, <1>4, <1>5

(* A socket that connects again is told everything anew.                      *)
LEMMA ReconnectKeeps == ScreensInv /\ Reconnect => ScreensInv'
<1> SUFFICES ASSUME ScreensInv, Reconnect PROVE ScreensInv'
  OBVIOUS
<1>1. /\ tv.conn = "lost" /\ tv' = [tv EXCEPT !.conn = "up"] /\ down' = Pushed /\ unsaid' = FALSE
      /\ UNCHANGED <<star, under, score, mode, revision, room, up, untold, missed, acts>>
  BY DEF Reconnect, hub
<1>2. ScreensTypeOK /\ room' = {}
  BY <1>1 DEF ScreensInv, ScreenIsLive
<1>3. /\ tv' \in Television /\ tv'.conn = "up" /\ tv'.sub = tv.sub /\ tv'.page = tv.page
  BY <1>1, <1>2 DEF ScreensTypeOK, Television
<1>4. ScreensTypeOK'
  BY <1>1, <1>2, <1>3 DEF ScreensTypeOK
<1>5. ScreensQueued' /\ ScreenIsLive'
  BY <1>1, <1>2, <1>3, PushedWords DEF ScreensInv, ScreensQueued, ScreenIsLive
<1>6. ListInOrder' /\ ClubInOrder' /\ RevisionInOrder'
  BY <1>1, <1>2, PushedWords DEF ListInOrder, ClubInOrder, RevisionInOrder
<1>7. AsksInOrder' /\ SubIsLast' /\ SubsAlternate'
  BY <1>1, <1>3 DEF ScreensInv, AsksInOrder, SubIsLast, SubsAlternate
<1>8. MatchInOrder'
  BY <1>2 DEF MatchInOrder
<1>. QED BY <1>4, <1>5, <1>6, <1>7, <1>8 DEF ScreensInv

(* A page that gives up hears nothing any more.                               *)
LEMMA GiveUpKeeps == ScreensInv /\ GiveUp => ScreensInv'
<1> SUFFICES ASSUME ScreensInv, GiveUp PROVE ScreensInv'
  OBVIOUS
<1>1. /\ tv.conn = "lost" /\ tv' = [tv EXCEPT !.conn = "dead"]
      /\ UNCHANGED <<star, under, score, mode, revision, room, down, up, untold, unsaid, missed, acts>>
  BY DEF GiveUp, hub
<1>2. ScreensTypeOK /\ room = {} /\ down = <<>>
  BY <1>1 DEF ScreensInv, ScreenIsLive
<1>3. /\ tv' \in Television /\ tv'.conn = "dead" /\ tv'.sub = tv.sub /\ tv'.page = tv.page
  BY <1>1, <1>2 DEF ScreensTypeOK, Television
<1>4. ScreensTypeOK'
  BY <1>1, <1>2, <1>3 DEF ScreensTypeOK
<1>5. ScreensQueued' /\ ScreenIsLive'
  BY <1>1, <1>2 DEF ScreensInv, ScreensQueued, ScreenIsLive
<1>6. ListInOrder' /\ ClubInOrder' /\ RevisionInOrder'
  BY <1>3 DEF ListInOrder, ClubInOrder, RevisionInOrder
<1>7. AsksInOrder' /\ SubIsLast' /\ SubsAlternate'
  BY <1>1, <1>3 DEF ScreensInv, AsksInOrder, SubIsLast, SubsAlternate
<1>8. MatchInOrder'
  BY <1>1, <1>2 DEF MatchInOrder
<1>. QED BY <1>4, <1>5, <1>6, <1>7, <1>8 DEF ScreensInv

(* A connection lost takes with it what was under way, and the room.          *)
LEMMA TvDropKeeps == ScreensInv /\ Drop => ScreensInv'
<1> SUFFICES ASSUME ScreensInv, Drop PROVE ScreensInv'
  OBVIOUS
<1>1. /\ tv' = [tv EXCEPT !.conn = "lost"] /\ room' = {} /\ down' = <<>> /\ up' = <<>> /\ missed' = TRUE
      /\ acts' = acts + 1 /\ UNCHANGED <<star, under, score, mode, revision, untold, unsaid>>
  BY DEF Drop, Act, hub
<1>2. ScreensTypeOK
  BY DEF ScreensInv
<1>3. /\ tv' \in Television /\ tv'.conn = "lost" /\ tv'.sub = tv.sub /\ tv'.page = tv.page
  BY <1>1, <1>2 DEF ScreensTypeOK, Television
<1>4. ScreensTypeOK'
  BY <1>1, <1>2, <1>3 DEF ScreensTypeOK
<1>5. ScreensQueued' /\ ScreenIsLive'
  BY <1>1, OneWord DEF ScreensQueued, ScreenIsLive
<1>6. ListInOrder' /\ ClubInOrder' /\ RevisionInOrder'
  BY <1>3 DEF ListInOrder, ClubInOrder, RevisionInOrder
<1>7. AsksInOrder' /\ SubIsLast' /\ SubsAlternate' /\ MatchInOrder'
  BY <1>1, <1>3, NothingSaid DEF AsksInOrder, SubIsLast, SubsAlternate, Alternate, MatchInOrder
<1>. QED BY <1>4, <1>5, <1>6, <1>7 DEF ScreensInv

(* Requests that are served, and requests that are added, in turns.           *)
LEMMA ServedAlternate ==
  ASSUME NEW S, NEW q \in Seq(S), q # <<>>, NEW listening, NEW after,
         Alternate(q, listening),
         \A c \in ScreenCourts : c \in after =>
           (c \in listening \/ Head(q) = Ask("sub", c)) /\ Head(q) # Ask("unsub", c)
  PROVE  Alternate(Tail(q), after)
<1> DEFINE r == Tail(q)
           n == Len(q)
<1>1. /\ n \in Nat /\ n > 0 /\ Head(q) = q[1] /\ DOMAIN q = 1 .. n /\ DOMAIN r = 1 .. (n - 1)
      /\ \A i \in 1 .. (n - 1) : r[i] = q[i + 1]
  OBVIOUS
<1> HIDE DEF r, n
<1>2. /\ \A i \in DOMAIN r : i + 1 \in DOMAIN q /\ q[i + 1] = r[i]
      /\ \A i \in DOMAIN q : i # 1 => i - 1 \in DOMAIN r /\ r[i - 1] = q[i]
      /\ 1 \in DOMAIN q /\ DOMAIN q \subseteq Nat /\ DOMAIN r \subseteq Nat
  BY <1>1
<1> SUFFICES ASSUME NEW c \in ScreenCourts, NEW k \in DOMAIN r, r[k] = Ask("sub", c)
             PROVE  /\ c \in after => \E j \in DOMAIN r : j < k /\ r[j] = Ask("unsub", c)
                    /\ \A i \in DOMAIN r : i < k /\ r[i] = Ask("sub", c) =>
                         \E j \in DOMAIN r : i < j /\ j < k /\ r[j] = Ask("unsub", c)
  BY DEF Alternate, r
<1>3. k + 1 \in DOMAIN q /\ q[k + 1] = Ask("sub", c) /\ k \in Nat /\ k >= 1
  BY <1>1, <1>2
<1>4. /\ c \in listening => \E j \in DOMAIN q : j < k + 1 /\ q[j] = Ask("unsub", c)
      /\ \A i \in DOMAIN q : i < k + 1 /\ q[i] = Ask("sub", c) =>
           \E j \in DOMAIN q : i < j /\ j < k + 1 /\ q[j] = Ask("unsub", c)
  BY <1>3 DEF Alternate
<1>5. ASSUME c \in after PROVE \E j \in DOMAIN r : j < k /\ r[j] = Ask("unsub", c)
  <2>1. PICK j \in DOMAIN q : j < k + 1 /\ q[j] = Ask("unsub", c) /\ j # 1
    <3>1. CASE c \in listening
      BY <1>1, <1>4, <1>5, <3>1
    <3>2. CASE Head(q) = Ask("sub", c)
      <4>1. 1 < k + 1 /\ q[1] = Ask("sub", c) /\ 1 \in DOMAIN q
        BY <1>1, <1>2, <1>3, <3>2
      <4>2. PICK j \in DOMAIN q : 1 < j /\ j < k + 1 /\ q[j] = Ask("unsub", c)
        BY <1>4, <4>1
      <4>. QED BY <4>2
    <3>. QED BY <1>5, <3>1, <3>2
  <2>2. j - 1 \in DOMAIN r /\ r[j - 1] = Ask("unsub", c) /\ j - 1 < k
    BY <1>2, <1>3, <2>1
  <2>. QED BY <2>2
<1>6. ASSUME NEW i \in DOMAIN r, i < k, r[i] = Ask("sub", c)
      PROVE  \E j \in DOMAIN r : i < j /\ j < k /\ r[j] = Ask("unsub", c)
  <2>1. i + 1 \in DOMAIN q /\ q[i + 1] = Ask("sub", c) /\ i + 1 < k + 1 /\ i \in Nat /\ i >= 1
    BY <1>1, <1>2, <1>3, <1>6
  <2>2. PICK j \in DOMAIN q : i + 1 < j /\ j < k + 1 /\ q[j] = Ask("unsub", c)
    BY <1>4, <2>1
  <2>3. j # 1 /\ j \in Nat
    BY <1>2, <2>1, <2>2
  <2>4. j - 1 \in DOMAIN r /\ r[j - 1] = Ask("unsub", c)
    BY <1>2, <2>2, <2>3
  <2>5. i < j - 1 /\ j - 1 < k
    BY <1>3, <2>1, <2>2, <2>3
  <2>. QED BY <2>4, <2>5
<1>. QED BY <1>5, <1>6

(* A request added, which subscribes only to a court that was left last.      *)
LEMMA AddedAlternate ==
  ASSUME NEW S, NEW q \in Seq(S), NEW m \in S, NEW listening, Alternate(q, listening),
         \A c \in ScreenCourts : m = Ask("sub", c) =>
           LeadsTo(q, Asks(c), Ask("unsub", c)) /\ (NoWord(q, Asks(c)) => c \notin listening)
  PROVE  Alternate(q \o <<m>>, listening)
<1> DEFINE r == q \o <<m>>
           n == Len(q)
<1>1. /\ n \in Nat /\ DOMAIN q = 1 .. n /\ DOMAIN r = 1 .. (n + 1) /\ r[n + 1] = m
      /\ \A i \in DOMAIN q : i \in DOMAIN r /\ r[i] = q[i]
      /\ \A i \in DOMAIN r : i \in DOMAIN q \/ i = n + 1
  OBVIOUS
<1> HIDE DEF r, n
<1> SUFFICES ASSUME NEW c \in ScreenCourts, NEW k \in DOMAIN r, r[k] = Ask("sub", c)
             PROVE  /\ c \in listening => \E j \in DOMAIN r : j < k /\ r[j] = Ask("unsub", c)
                    /\ \A i \in DOMAIN r : i < k /\ r[i] = Ask("sub", c) =>
                         \E j \in DOMAIN r : i < j /\ j < k /\ r[j] = Ask("unsub", c)
  BY DEF Alternate, r
<1>2. CASE k \in DOMAIN q
  <2>1. /\ c \in listening => \E j \in DOMAIN q : j < k /\ q[j] = Ask("unsub", c)
        /\ \A i \in DOMAIN q : i < k /\ q[i] = Ask("sub", c) =>
             \E j \in DOMAIN q : i < j /\ j < k /\ q[j] = Ask("unsub", c)
    BY <1>1, <1>2 DEF Alternate
  <2>2. \A i \in DOMAIN r : i < k => i \in DOMAIN q
    BY <1>1, <1>2
  <2>. QED BY <1>1, <2>1, <2>2
<1>3. CASE k \notin DOMAIN q
  <2>1. k = n + 1 /\ m = Ask("sub", c)
    BY <1>1, <1>3
  <2>2. LeadsTo(q, Asks(c), Ask("unsub", c)) /\ (NoWord(q, Asks(c)) => c \notin listening)
    BY <2>1
  <2>3. \A i \in DOMAIN q : i < k /\ i \in Nat
    BY <1>1, <2>1
  <2>4. ASSUME c \in listening PROVE \E j \in DOMAIN q : q[j] = Ask("unsub", c)
    BY <2>2, <2>4 DEF NoWord, LeadsTo
  <2>5. ASSUME NEW i \in DOMAIN r, i < k, r[i] = Ask("sub", c)
        PROVE  \E j \in DOMAIN q : i < j /\ q[j] = Ask("unsub", c)
    <3>1. i \in DOMAIN q /\ q[i] = Ask("sub", c) /\ Ask("sub", c) \in Asks(c)
      BY <1>1, <2>1, <2>5 DEF Asks
    <3>2. PICK j \in DOMAIN q : j >= i /\ q[j] = Ask("unsub", c)
      BY <2>2, <3>1 DEF LeadsTo
    <3>3. j # i
      BY <3>1, <3>2, AskKinds
    <3>. QED BY <2>3, <3>1, <3>2, <3>3
  <2>. QED BY <1>1, <2>3, <2>4, <2>5
<1>. QED BY <1>2, <1>3

(* A request is served: the answer is as things are, and the room is joined   *)
(* or left.                                                                   *)
LEMMA AnswerWords ==
  ASSUME ScreensTypeOK, NEW ask \in Request, NEW listening,
         ask.kind = "sub" /\ ask.court \in star => ask.court \in listening
  PROVE  /\ Answer(ask) \in Seq(Truths(star, under, score, revision, listening))
         /\ ask.kind = "config" => ~NoWord(Answer(ask), ClubWords)
         /\ ask.kind = "sub" /\ ask.court \in star =>
              Answer(ask) = <<MatchUpdate(ask.court, score[ask.court])>>
<1> DEFINE S == Truths(star, under, score, revision, listening)
<1>1. CASE ask.kind = "mode"
  <2>1. Answer(ask) = <<ModeIs(mode)>>
    BY <1>1 DEF Answer
  <2>2. ModeIs(mode) \in S
    BY DEF Truths, ScreensTypeOK
  <2> HIDE DEF S
  <2>3. <<ModeIs(mode)>> \in Seq(S)
    BY <2>2, OneWord
  <2>. QED BY <1>1, <2>1, <2>3 DEF S
<1>5. CASE ask.kind = "list"
  <2>1. Answer(ask) = <<CourtList(star, under)>>
    BY <1>5 DEF Answer
  <2>2. CourtList(star, under) \in S
    BY DEF Truths
  <2> HIDE DEF S
  <2>3. <<CourtList(star, under)>> \in Seq(S)
    BY <2>2, OneWord
  <2>. QED BY <1>5, <2>1, <2>3 DEF S
<1>2. CASE ask.kind = "config"
  <2>1. Answer(ask) = <<ClubData(star, under)>>
    BY <1>2 DEF Answer
  <2>2. ClubData(star, under) \in S
    BY DEF Truths
  <2>3. ClubData(star, under) \in ClubWords
    BY WordKinds DEF ScreensTypeOK
  <2> HIDE DEF S
  <2>4. <<ClubData(star, under)>> \in Seq(S)
    BY <2>2, OneWord
  <2>5. ~NoWord(<<ClubData(star, under)>>, ClubWords)
    BY <2>3, OneWord
  <2>. QED BY <1>2, <2>1, <2>4, <2>5 DEF S
<1>3. CASE ask.kind = "sub" /\ ask.court \in star
  <2>1. Answer(ask) = <<MatchUpdate(ask.court, score[ask.court])>>
    BY <1>3 DEF Answer
  <2>2. MatchUpdate(ask.court, score[ask.court]) \in S
    BY <1>3 DEF Truths
  <2> HIDE DEF S
  <2>3. <<MatchUpdate(ask.court, score[ask.court])>> \in Seq(S)
    BY <2>2, OneWord
  <2>. QED BY <1>3, <2>1, <2>3 DEF S
<1>4. CASE ask.kind = "unsub" \/ (ask.kind = "sub" /\ ask.court \notin star)
  <2>1. Answer(ask) = <<>>
    BY <1>4 DEF Answer
  <2>. QED BY <1>4, <2>1, OneWord
<1>. QED BY <1>1, <1>2, <1>3, <1>4, <1>5, RequestKinds

(* The hub serves the first request.                                          *)
LEMMA TvServeKeeps ==
  ASSUME ScreensInv, Serve
  PROVE  ScreensInv'
<1> DEFINE ask == Head(up)
           joins == ask.kind = "sub" /\ ask.court \in star
           ms == Answer(ask)
<1>1. ScreensTypeOK /\ ScreensQueued
  BY DEF ScreensInv
<1>2. /\ tv.conn = "up" /\ up # <<>> /\ up' = Tail(up) /\ down' = down \o ms
      /\ room' = IF joins THEN room \cup {ask.court}
                 ELSE IF ask.kind = "unsub" THEN room \ {ask.court} ELSE room
      /\ untold' = IF joins THEN untold \ {ask.court} ELSE untold
      /\ unsaid' = (unsaid /\ ask.kind # "config")
      /\ missed' = (missed \/ (ask.kind = "sub" /\ ~joins))
      /\ UNCHANGED <<star, under, score, mode, revision, tv, acts>>
  BY DEF Serve, hub
<1>3. ask \in Request /\ up' \in Seq(Request)
  BY <1>1, <1>2 DEF ScreensQueued
<1>4. \A W : /\ NoWord(up, W) <=> NoWord(up', W) /\ ask \notin W
             /\ \A t : LeadsTo(up, W, t) => /\ LeadsTo(up', W, t)
                                            /\ ask \in W /\ ask # t => ~NoWord(up', {t})
  <2>1. up \in Seq(Request)
    BY <1>1 DEF ScreensQueued
  <2>. QED BY <1>2, <2>1, HeardWords DEF NoWord
<1>5. /\ ms \in Seq(Truths(star, under, score, revision, room'))
      /\ ask.kind = "config" => ~NoWord(ms, ClubWords)
      /\ joins => ms = <<MatchUpdate(ask.court, score[ask.court])>>
  <2>1. joins => ask.court \in room'
    BY <1>2
  <2>. QED BY <1>1, <1>3, <2>1, AnswerWords
<1>6. ask = Ask(ask.kind, ask.court)
      /\ \/ ask.kind \in {"list", "mode", "config"} /\ ask.court = None
         \/ ask.kind \in {"sub", "unsub"} /\ ask.court \in ScreenCourts
  BY <1>3, RequestKinds
<1> HIDE DEF ask, ms
<1>7. ScreensTypeOK'
  <2>1. room' \subseteq ScreenCourts /\ untold' \subseteq ScreenCourts
    BY <1>1, <1>2, <1>6 DEF ScreensTypeOK
  <2>. QED BY <1>1, <1>2, <2>1 DEF ScreensTypeOK
<1>8. /\ ms \in Seq(Message)
      /\ \A c \in TournamentCourts : LastIsTrue(ms, CourtWords(c), CourtTruth(c, star, under))
      /\ LastIsTrue(ms, ClubWords, {ClubData(star, under)})
      /\ LastIsTrue(ms, BracketWords, {BracketIs(revision)})
      /\ \A c : room' \subseteq {c} => LastIsTrue(ms, MatchWords, {MatchUpdate(c, score[c])})
  <2>1. /\ star \in SUBSET ScreenCourts /\ under \in SUBSET ScreenCourts /\ revision \in Nat
        /\ score \in [ScreenCourts -> 0 .. MaxScore] /\ room' \in SUBSET ScreenCourts
    BY <1>1, <1>7 DEF ScreensTypeOK
  <2>. QED BY <1>5, <2>1, TruthsAreTrue
<1>9. \A W : /\ NoWord(down', W) <=> NoWord(down, W) /\ NoWord(ms, W)
             /\ \A T : LastIsTrue(ms, W, T) /\ (NoWord(ms, W) => LastIsTrue(down, W, T))
                         => LastIsTrue(down', W, T)
  BY <1>1, <1>2, <1>8, AddedWords DEF ScreensQueued
<1>10. ScreensQueued' /\ ScreenIsLive'
  BY <1>1, <1>2, <1>3, <1>8 DEF ScreensQueued, ScreenIsLive
<1>11. ListInOrder'
  <2> SUFFICES ASSUME NEW c \in TournamentCourts
               PROVE  /\ LastIsTrue(down', CourtWords(c), CourtTruth(c, star, under))
                      /\ NoWord(down', CourtWords(c)) => Says(tv.list, c, star, under)
    BY <1>2 DEF ListInOrder
  <2>1. /\ LastIsTrue(down, CourtWords(c), CourtTruth(c, star, under))
        /\ NoWord(down, CourtWords(c)) => Says(tv.list, c, star, under)
    BY <1>2 DEF ScreensInv, ListInOrder
  <2>. QED BY <1>8, <1>9, <2>1
<1>12. RevisionInOrder'
  <2>1. /\ LastIsTrue(down, BracketWords, {BracketIs(revision)})
        /\ NoWord(down, BracketWords) => tv.bracket = revision
    BY <1>2 DEF ScreensInv, RevisionInOrder
  <2>2. /\ LastIsTrue(down', BracketWords, {BracketIs(revision)})
        /\ NoWord(down', BracketWords) => tv.bracket = revision
    BY <1>8, <1>9, <2>1
  <2>. QED BY <1>2, <2>2 DEF RevisionInOrder
<1>13. ClubInOrder'
  <2> SUFFICES ASSUME ~unsaid'
               PROVE  /\ LastIsTrue(down', ClubWords, {ClubData(star, under)})
                      /\ tv.page = "club" /\ NoWord(down', ClubWords) /\ NoWord(up', {Ask("config", None)})
                         => tv.club = Public(ClubCourts, star, under)
    BY <1>2 DEF ClubInOrder
  <2>1. CASE ask.kind = "config"
    BY <1>5, <1>8, <1>9, <2>1
  <2>2. CASE ask.kind # "config"
    <3>1. ask \notin {Ask("config", None)}
      BY <2>2, <1>6, AskKinds
    <3>2. /\ LastIsTrue(down, ClubWords, {ClubData(star, under)})
          /\ tv.page = "club" /\ NoWord(down, ClubWords) /\ NoWord(up, {Ask("config", None)})
             => tv.club = Public(ClubCourts, star, under)
      BY <1>2, <2>2 DEF ScreensInv, ClubInOrder
    <3>. QED BY <1>4, <1>8, <1>9, <3>1, <3>2
  <2>. QED BY <2>1, <2>2
<1>14. \A c \in ScreenCourts :
         /\ ask = Ask("sub", c) <=> ask.kind = "sub" /\ ask.court = c
         /\ ask = Ask("unsub", c) <=> ask.kind = "unsub" /\ ask.court = c
  BY <1>6, AskKinds
<1>15. AsksInOrder'
  <2> SUFFICES ASSUME NEW c \in ScreenCourts
               PROVE  /\ LeadsTo(up', Asks(c), Ask(IF c = tv.sub THEN "sub" ELSE "unsub", c))
                      /\ NoWord(up', Asks(c)) => /\ c \in room' => c = tv.sub
                                                 /\ c = tv.sub /\ ~missed' => c \in room'
    BY <1>2 DEF AsksInOrder
  <2> DEFINE t == Ask(IF c = tv.sub THEN "sub" ELSE "unsub", c)
  <2>1. /\ LeadsTo(up, Asks(c), t)
        /\ NoWord(up, Asks(c)) => /\ c \in room => c = tv.sub
                                  /\ c = tv.sub /\ ~missed => c \in room
    BY DEF ScreensInv, AsksInOrder
  <2>2. t \in Asks(c)
    BY DEF Asks
  <2> HIDE DEF t
  <2>3. ASSUME NoWord(up', Asks(c)), ask \in Asks(c) PROVE ask = t
    <3>1. NoWord(up', {t})
      BY <2>2, <2>3 DEF NoWord
    <3>. QED BY <1>4, <2>1, <2>3, <3>1
  <2>4. ASSUME NoWord(up', Asks(c)), ask \in Asks(c)
        PROVE  (c \in room' => c = tv.sub) /\ (c = tv.sub /\ ~missed' => c \in room')
    <3>1. CASE c = tv.sub
      <4>1. ask = Ask("sub", c)
        BY <2>3, <2>4, <3>1 DEF t
      <4>. QED BY <1>2, <1>14, <3>1, <4>1
    <3>2. CASE c # tv.sub
      <4>1. ask = Ask("unsub", c)
        BY <2>3, <2>4, <3>2 DEF t
      <4>. QED BY <1>2, <1>14, <3>2, <4>1
    <3>. QED BY <3>1, <3>2
  <2>5. ASSUME NoWord(up', Asks(c)), ask \notin Asks(c)
        PROVE  (c \in room' => c = tv.sub) /\ (c = tv.sub /\ ~missed' => c \in room')
    <3>1. NoWord(up, Asks(c))
      BY <1>4, <2>5
    <3>2. ask # Ask("sub", c) /\ ask # Ask("unsub", c)
      BY <2>5 DEF Asks
    <3>3. (c \in room' <=> c \in room) /\ (~missed' => ~missed)
      BY <1>2, <1>14, <3>2
    <3>. QED BY <2>1, <3>1, <3>3
  <2>6. LeadsTo(up', Asks(c), t)
    BY <1>4, <2>1
  <2>. QED BY <2>4, <2>5, <2>6 DEF t
<1>16. SubIsLast'
  <2>1. tv.sub # None => LeadsTo(up', AllAsks, Ask("sub", tv.sub))
    BY <1>4 DEF ScreensInv, SubIsLast
  <2>. QED BY <1>2, <2>1 DEF SubIsLast
<1>17. SubsAlternate'
  <2>1. up \in Seq(Request) /\ Alternate(up, room)
    BY <1>1 DEF ScreensInv, SubsAlternate, ScreensQueued
  <2>2. \A c \in ScreenCourts : c \in room' => (c \in room \/ ask = Ask("sub", c)) /\ ask # Ask("unsub", c)
    BY <1>2, <1>14
  <2>3. Alternate(Tail(up), room')
    BY <1>2, <2>1, <2>2, ServedAlternate DEF ask
  <2>. QED BY <1>2, <2>3 DEF SubsAlternate
<1>18. MatchInOrder'
  <2> DEFINE c == tv.sub
  <2> SUFFICES ASSUME c \in room' \ untold', NoWord(up', Asks(c))
               PROVE  /\ LastIsTrue(down', MatchWords, {MatchUpdate(c, score[c])})
                      /\ NoWord(down', MatchWords) => tv.match = MatchUpdate(c, score[c]).of
    BY <1>2 DEF MatchInOrder
  <2>1. c \in ScreenCourts /\ c # None
    BY <1>7, NoneIsNone DEF ScreensTypeOK
  <2> HIDE DEF c
  <2>2. ask # Ask("unsub", c)
    BY <1>2, <1>14, <2>1
  <2>3. CASE ask = Ask("sub", c)
    <3>1. joins
      <4>1. SUFFICES ASSUME ~joins PROVE FALSE
        OBVIOUS
      <4>2. c \in room
        BY <1>2, <1>14, <2>1, <2>3, <4>1
      <4>3. up \in Seq(Request) /\ Alternate(up, room)
        BY <1>1 DEF ScreensInv, SubsAlternate, ScreensQueued
      <4>4. 1 \in DOMAIN up /\ up[1] = Ask("sub", c) /\ \A j \in DOMAIN up : ~(j < 1)
        BY <1>2, <2>3, <4>3 DEF ask
      <4>. QED BY <2>1, <4>2, <4>3, <4>4 DEF Alternate
    <3>2. ms = <<MatchUpdate(c, score[c])>>
      BY <1>5, <1>14, <2>1, <2>3, <3>1
    <3>3. MatchUpdate(c, score[c]) \in MatchWords
      BY <1>1, <2>1, WordKinds DEF ScreensTypeOK
    <3>4. LastIsTrue(ms, MatchWords, {MatchUpdate(c, score[c])}) /\ ~NoWord(ms, MatchWords)
      BY <3>2, <3>3, OneWord DEF LastIsTrue
    <3>. QED BY <1>9, <3>4
  <2>4. CASE ask # Ask("sub", c)
    <3>1. NoWord(up, Asks(c))
      BY <1>4, <2>2, <2>4 DEF Asks
    <3>2. NoWord(up, AllAsks) /\ room \subseteq {c}
      BY <2>1, <3>1, SoleRoom DEF c
    <3>3. ask \notin AllAsks
      BY <1>4, <3>2
    <3>4. ask.kind \notin {"sub", "unsub"}
      BY <1>6, <3>3 DEF AllAsks
    <3>5. room' = room /\ untold' = untold
      BY <1>2, <3>4
    <3>6. /\ LastIsTrue(down, MatchWords, {MatchUpdate(c, score[c])})
          /\ NoWord(down, MatchWords) => tv.match = MatchUpdate(c, score[c]).of
      BY <3>1, <3>5 DEF ScreensInv, MatchInOrder, c
    <3>7. LastIsTrue(ms, MatchWords, {MatchUpdate(c, score[c])})
      BY <1>8, <3>2, <3>5
    <3>. QED BY <1>9, <3>6, <3>7
  <2>. QED BY <2>3, <2>4
<1>. QED BY <1>7, <1>10, <1>11, <1>12, <1>13, <1>15, <1>16, <1>17, <1>18 DEF ScreensInv

(* Min, defined by CHOOSE, is a member of every nonempty set of naturals.      *)
LEMMA LeastCourt ==
  ASSUME NEW S, S \subseteq Nat, S # {}
  PROVE  Min(S) \in S
<1> DEFINE T == {1 .. n : n \in S}
<1>1. T \subseteq FiniteSubsetsOf(Nat)
  BY FS_Interval DEF FiniteSubsetsOf
<1>2. PICK m \in S : \A k \in S : <<1 .. k, 1 .. m>> \notin StrictSubsetOrdering(Nat)
  <2>1. IsWellFoundedOn(StrictSubsetOrdering(Nat), FiniteSubsetsOf(Nat)) /\ T # {}
    BY FS_StrictSubsetOrderingWellFounded
  <2> HIDE DEF T
  <2>2. PICK x \in T : \A y \in T : <<y, x>> \notin StrictSubsetOrdering(Nat)
    BY <1>1, <2>1, WFMin
  <2>. QED BY <2>2 DEF T
<1>3. ASSUME NEW k \in S, ~(m <= k) PROVE FALSE
  <2>1. k \in Nat /\ m \in Nat /\ k < m
    BY <1>3
  <2>2. 1 .. k \subseteq 1 .. m /\ m \in 1 .. m /\ m \notin 1 .. k
    BY <2>1
  <2>3. 1 .. k \in SUBSET Nat /\ 1 .. m \in SUBSET Nat /\ 1 .. k # 1 .. m
    BY <2>1, <2>2
  <2>4. <<1 .. k, 1 .. m>> \in StrictSubsetOrdering(Nat)
    BY <2>2, <2>3 DEF StrictSubsetOrdering
  <2>. QED BY <1>2, <2>4
<1>. QED BY <1>3 DEF Min

(* The court a snapshot puts in the spotlight is one of its courts.           *)
LEMMA SpotlightType ==
  ASSUME NEW courts, courts \subseteq ScreenCourts, NEW snapshot \in Snapshot(courts)
  PROVE  Spotlight(snapshot) \in courts \cup {None}
<1> DEFINE S == snapshot.starred \cap snapshot.under
<1>1. S \subseteq courts /\ S \subseteq Nat
  BY NoneIsNone DEF Snapshot
<1>2. S # {} => Min(S) \in S
  <2> HIDE DEF S
  <2>. QED BY <1>1, LeastCourt
<1>. QED BY <1>1, <1>2 DEF Spotlight

(* A page that is mounted asks for the mode.                                  *)
LEMMA MountKeeps ==
  ASSUME ScreensInv, Mount
  PROVE  ScreensInv'
<1> DEFINE m == Ask("mode", None)
<1>1. ScreensTypeOK /\ ScreensQueued
  BY DEF ScreensInv
<1>2. /\ tv.page = "none" /\ tv' = [tv EXCEPT !.page = "loading"] /\ up' = up \o <<m>>
      /\ UNCHANGED <<star, under, score, mode, revision, room, down, untold, unsaid, missed, acts>>
  BY DEF Mount, AsksOnMount, hub
<1>3. /\ tv' \in Television /\ tv'.sub = tv.sub /\ tv.sub = None /\ tv'.page = "loading" /\ tv'.conn = tv.conn
      /\ tv'.list = tv.list /\ tv'.bracket = tv.bracket
  <2>1. tv \in Television /\ (tv.sub # None => tv.page \in {"tournament", "club"})
    BY <1>1 DEF ScreensTypeOK
  <2>2. tv.sub = None
    BY <1>2, <2>1
  <2>. QED BY <1>2, <2>1, <2>2 DEF Television, Pages
<1>4. ScreensTypeOK'
  BY <1>1, <1>2, <1>3 DEF ScreensTypeOK
<1>5. m \in Request /\ \A c \in ScreenCourts : m \notin Asks(c) /\ m # Ask("sub", c)
  BY RequestKinds, AskKinds DEF Asks
<1> HIDE DEF m
<1>6. <<m>> \in Seq(Request) /\ \A c \in ScreenCourts : NoWord(<<m>>, Asks(c))
  BY <1>5, OneWord
<1>7. \A c \in ScreenCourts : \A t : LeadsTo(<<m>>, Asks(c), t)
  BY <1>6 DEF LeadsTo, NoWord
<1>8. up \in Seq(Request)
  BY <1>1 DEF ScreensQueued
<1>9. ScreensQueued' /\ ScreenIsLive'
  BY <1>1, <1>2, <1>3, <1>6 DEF ScreensInv, ScreensQueued, ScreenIsLive
<1>10. ListInOrder' /\ ClubInOrder' /\ RevisionInOrder'
  <2>1. ListInOrder'
    BY <1>2, <1>3 DEF ScreensInv, ListInOrder
  <2>2. ClubInOrder'
    BY <1>2, <1>3 DEF ScreensInv, ClubInOrder
  <2>3. RevisionInOrder'
    BY <1>2, <1>3 DEF ScreensInv, RevisionInOrder
  <2>. QED BY <2>1, <2>2, <2>3
<1>11. AsksInOrder'
  <2> SUFFICES ASSUME NEW c \in ScreenCourts
               PROVE  /\ LeadsTo(up', Asks(c), Ask(IF c = tv.sub THEN "sub" ELSE "unsub", c))
                      /\ NoWord(up', Asks(c)) => /\ c \in room => c = tv.sub
                                                 /\ c = tv.sub /\ ~missed => c \in room
    BY <1>2, <1>3 DEF AsksInOrder
  <2>1. /\ LeadsTo(up, Asks(c), Ask(IF c = tv.sub THEN "sub" ELSE "unsub", c))
        /\ NoWord(up, Asks(c)) => /\ c \in room => c = tv.sub
                                  /\ c = tv.sub /\ ~missed => c \in room
    BY DEF ScreensInv, AsksInOrder
  <2>2. /\ NoWord(up', Asks(c)) <=> NoWord(up, Asks(c)) /\ NoWord(<<m>>, Asks(c))
        /\ \A t : LeadsTo(up, Asks(c), t) => LeadsTo(up', Asks(c), t)
    BY <1>2, <1>6, <1>7, <1>8, AddedWords
  <2>. QED BY <2>1, <2>2
<1>12. SubIsLast' /\ MatchInOrder'
  BY <1>1, <1>2, <1>3, NoneIsNone DEF SubIsLast, MatchInOrder, ScreensTypeOK
<1>13. SubsAlternate'
  <2>1. Alternate(up, room)
    BY DEF ScreensInv, SubsAlternate
  <2>. QED BY <1>2, <1>5, <1>8, <2>1, AddedAlternate DEF SubsAlternate
<1>. QED BY <1>4, <1>9, <1>10, <1>11, <1>12, <1>13 DEF ScreensInv

(* The page leaves the court that was in its spotlight and enters another: of *)
(* either there may be none, and they may be the same.                        *)
LEMMA LeaveWords ==
  ASSUME NEW c \in ScreenCourts \cup {None}
  PROVE  /\ Leave(c) \in Seq(Request) /\ Enter(c) \in Seq(Request)
         /\ c = None => Leave(c) = <<>> /\ Enter(c) = <<>>
         /\ c # None => Leave(c) = <<Ask("unsub", c)>> /\ Enter(c) = <<Ask("sub", c)>>
<1>1. c # None => Ask("unsub", c) \in Request /\ Ask("sub", c) \in Request
  BY RequestKinds DEF Asks
<1>. QED BY <1>1, OneWord DEF Leave, Enter

(* So the requests of either are in order, whatever was asked in between.     *)
LEMMA SwitchWords ==
  ASSUME ScreensInv, NEW new \in ScreenCourts \cup {None}, NEW mid,
         mid = <<>> \/ mid = <<Ask("config", None)>>
  PROVE  LET q == up \o Leave(tv.sub) \o mid \o Enter(new)
         IN  /\ q \in Seq(Request)
             /\ \A c \in ScreenCourts :
                  /\ LeadsTo(q, Asks(c), Ask(IF c = new THEN "sub" ELSE "unsub", c))
                  /\ NoWord(q, Asks(c)) => c \notin room /\ c # new
             /\ new # None => LeadsTo(q, AllAsks, Ask("sub", new))
             /\ Alternate(q, room)
             /\ \A W : NoWord(q, W) => NoWord(up, W) /\ NoWord(mid, W)
<1> DEFINE old == tv.sub
           left == up \o Leave(old)
           asked == left \o mid
           q == asked \o Enter(new)
<1>1. ScreensTypeOK /\ up \in Seq(Request) /\ Alternate(up, room) /\ AsksInOrder /\ old \in ScreenCourts \cup {None}
  BY DEF ScreensInv, ScreensQueued, SubsAlternate, ScreensTypeOK, Television
<1>2. /\ Leave(old) \in Seq(Request) /\ Enter(new) \in Seq(Request)
      /\ old = None => Leave(old) = <<>>
      /\ old # None => Leave(old) = <<Ask("unsub", old)>>
      /\ new = None => Enter(new) = <<>>
      /\ new # None => Enter(new) = <<Ask("sub", new)>>
  BY <1>1, LeaveWords
<1>3. mid \in Seq(Request) /\ \A c \in ScreenCourts : NoWord(mid, Asks(c))
  <2>1. \A c \in ScreenCourts : Ask("config", None) \notin Asks(c)
    BY AskKinds DEF Asks
  <2>2. Ask("config", None) \in Request
    BY RequestKinds
  <2>3. CASE mid = <<>>
    BY <2>3, OneWord
  <2>4. CASE mid = <<Ask("config", None)>>
    <3>1. <<Ask("config", None)>> \in Seq(Request)
      BY ONLY <2>2, OneWord
    <3>2. \A c \in ScreenCourts : NoWord(<<Ask("config", None)>>, Asks(c))
      BY ONLY <2>1, OneWord
    <3>. QED BY ONLY <2>4, <3>1, <3>2
  <2>. QED BY <2>3, <2>4
<1> HIDE DEF old
<1>4. /\ left \in Seq(Request)
      /\ \A W : /\ NoWord(left, W) <=> NoWord(up, W) /\ NoWord(Leave(old), W)
                /\ \A t : LeadsTo(Leave(old), W, t) /\ (LeadsTo(up, W, t) \/ \E i \in DOMAIN Leave(old) : Leave(old)[i] = t)
                            => LeadsTo(left, W, t)
  BY <1>1, <1>2, AddedWords
<1> HIDE DEF left
<1>5. /\ asked \in Seq(Request)
      /\ \A W : /\ NoWord(asked, W) <=> NoWord(left, W) /\ NoWord(mid, W)
                /\ \A t : LeadsTo(mid, W, t) /\ LeadsTo(left, W, t) => LeadsTo(asked, W, t)
  BY <1>3, <1>4, AddedWords
<1> HIDE DEF asked
<1>6. /\ q \in Seq(Request)
      /\ \A W : /\ NoWord(q, W) <=> NoWord(asked, W) /\ NoWord(Enter(new), W)
                /\ \A t : LeadsTo(Enter(new), W, t) /\ (LeadsTo(asked, W, t) \/ \E i \in DOMAIN Enter(new) : Enter(new)[i] = t)
                            => LeadsTo(q, W, t)
  BY <1>2, <1>5, AddedWords
<1> HIDE DEF q
<1>7. ASSUME NEW c \in ScreenCourts
      PROVE  /\ LeadsTo(asked, Asks(c), Ask("unsub", c))
             /\ NoWord(asked, Asks(c)) => c \notin room
  <2>1. Ask("unsub", c) \in Asks(c) /\ Ask("sub", c) \in Asks(c)
    BY DEF Asks
  <2>2. LeadsTo(mid, Asks(c), Ask("unsub", c))
    BY <1>3 DEF LeadsTo, NoWord
  <2>3. CASE c = old
    <3>1. old # None
      BY <2>3, NoneIsNone
    <3>2. LeadsTo(Leave(old), Asks(c), Ask("unsub", c)) /\ \E i \in DOMAIN Leave(old) : Leave(old)[i] = Ask("unsub", c)
      <4>1. Leave(old) = <<Ask("unsub", c)>>
        BY <1>2, <2>3, <3>1
      <4>2. DOMAIN <<Ask("unsub", c)>> = {1} /\ <<Ask("unsub", c)>>[1] = Ask("unsub", c)
        OBVIOUS
      <4>3. DOMAIN Leave(old) = {1} /\ Leave(old)[1] = Ask("unsub", c)
        BY ONLY <4>1, <4>2
      <4>. QED BY ONLY <4>3 DEF LeadsTo
    <3>3. LeadsTo(left, Asks(c), Ask("unsub", c)) /\ ~NoWord(left, Asks(c))
      <4>1. ~NoWord(Leave(old), Asks(c))
        BY ONLY <2>1, <3>2 DEF NoWord
      <4>2. LeadsTo(left, Asks(c), Ask("unsub", c))
        BY ONLY <1>4, <3>2
      <4>. QED BY ONLY <1>4, <4>1, <4>2
    <3>. QED BY <1>5, <2>2, <3>3
  <2>4. CASE c # old
    <3>1. LeadsTo(up, Asks(c), Ask("unsub", c)) /\ (NoWord(up, Asks(c)) => c \notin room)
      BY <1>1, <2>4 DEF AsksInOrder, old
    <3>2. NoWord(Leave(old), Asks(c))
      <4>1. old # None => Ask("unsub", old) \notin Asks(c)
        BY <2>4, AskKinds DEF Asks
      <4>. QED BY <1>2, <4>1, OneWord
    <3>3. LeadsTo(left, Asks(c), Ask("unsub", c)) /\ (NoWord(left, Asks(c)) => c \notin room)
      BY <1>4, <3>1, <3>2 DEF LeadsTo, NoWord
    <3>. QED BY <1>5, <2>2, <3>3
  <2>. QED BY <2>3, <2>4
<1>8. ASSUME NEW c \in ScreenCourts
      PROVE  /\ LeadsTo(q, Asks(c), Ask(IF c = new THEN "sub" ELSE "unsub", c))
             /\ NoWord(q, Asks(c)) => c \notin room /\ c # new
  <2>1. CASE c = new
    <3>1. Enter(new) = <<Ask("sub", c)>> /\ Ask("sub", c) \in Asks(c)
      BY <1>2, <2>1, NoneIsNone DEF Asks
    <3>2. LeadsTo(Enter(new), Asks(c), Ask("sub", c)) /\ \E i \in DOMAIN Enter(new) : Enter(new)[i] = Ask("sub", c)
      BY <3>1 DEF LeadsTo
    <3>3. ~NoWord(Enter(new), Asks(c))
      BY <3>1, OneWord
    <3>. QED BY <1>6, <2>1, <3>2, <3>3
  <2>2. CASE c # new
    <3>1. NoWord(Enter(new), Asks(c))
      <4>1. new # None => Ask("sub", new) \notin Asks(c)
        BY <2>2, AskKinds DEF Asks
      <4>. QED BY <1>2, <4>1, OneWord
    <3>2. LeadsTo(Enter(new), Asks(c), Ask("unsub", c))
      BY <3>1 DEF LeadsTo, NoWord
    <3>. QED BY <1>6, <1>7, <2>2, <3>2
  <2>. QED BY <2>1, <2>2
<1>9. ASSUME new # None PROVE LeadsTo(q, AllAsks, Ask("sub", new))
  <2>1. LeadsTo(Enter(new), AllAsks, Ask("sub", new)) /\ \E i \in DOMAIN Enter(new) : Enter(new)[i] = Ask("sub", new)
    BY <1>2, <1>9 DEF LeadsTo
  <2>. QED BY <1>6, <2>1
<1>10. Alternate(q, room)
  <2>1. Alternate(left, room)
    <3>1. CASE old = None
      <4>1. left = up
        BY <1>1, <1>2, <3>1 DEF left
      <4>. QED BY <1>1, <4>1
    <3>2. CASE old # None
      <4>1. Ask("unsub", old) \in Request /\ left = up \o <<Ask("unsub", old)>>
        BY <1>1, <1>2, <3>2, RequestKinds DEF left, Asks
      <4>2. \A c \in ScreenCourts : Ask("unsub", old) # Ask("sub", c)
        BY AskKinds
      <4>. QED BY <1>1, <4>1, <4>2, AddedAlternate
    <3>. QED BY <3>1, <3>2
  <2>2. Alternate(asked, room)
    <3>1. CASE mid = <<>>
      <4>1. asked = left
        BY <1>4, <3>1 DEF asked
      <4>. QED BY <2>1, <4>1
    <3>2. CASE mid = <<Ask("config", None)>>
      <4>1. Ask("config", None) \in Request /\ asked = left \o <<Ask("config", None)>>
        BY <3>2, RequestKinds DEF asked
      <4>2. \A c \in ScreenCourts : Ask("config", None) # Ask("sub", c)
        BY AskKinds
      <4>. QED BY <1>4, <2>1, <4>1, <4>2, AddedAlternate
    <3>. QED BY <3>1, <3>2
  <2>3. CASE new = None
    <3>1. q = asked
      BY <1>2, <1>5, <2>3 DEF q
    <3>. QED BY <2>2, <3>1
  <2>4. CASE new # None
    <3>1. Ask("sub", new) \in Request /\ q = asked \o <<Ask("sub", new)>> /\ new \in ScreenCourts
      BY <1>2, <2>4, RequestKinds DEF q, Asks
    <3>2. \A c \in ScreenCourts : Ask("sub", new) = Ask("sub", c) => c = new
      BY AskKinds
    <3>. QED BY <1>5, <1>7, <2>2, <3>1, <3>2, AddedAlternate
  <2>. QED BY <2>3, <2>4
<1>11. \A W : NoWord(q, W) => NoWord(up, W) /\ NoWord(mid, W)
  BY <1>4, <1>5, <1>6
<1>. QED BY <1>6, <1>8, <1>9, <1>10, <1>11 DEF q, asked, left, old

(* What is rendered keeps the order: the page has a court in its spotlight or *)
(* none, and has asked for it; a club's page that is new has asked for the    *)
(* club's courts.                                                             *)
LEMMA RenderedKeeps ==
  ASSUME ScreensInv, NEW new \in ScreenCourts \cup {None}, NEW mid,
         mid = <<>> \/ mid = <<Ask("config", None)>>,
         tv' \in Television, tv'.sub = new, new # None => tv'.page \in {"tournament", "club"},
         tv'.conn = tv.conn /\ tv'.list = tv.list /\ tv'.bracket = tv.bracket,
         tv'.page = "club" => mid = <<Ask("config", None)>> \/ (tv.page = "club" /\ tv'.club = tv.club),
         up' = up \o Leave(tv.sub) \o mid \o Enter(new),
         UNCHANGED <<star, under, score, mode, revision, room, down, untold, unsaid, missed, acts>>
  PROVE  ScreensInv'
<1>1. /\ up' \in Seq(Request)
      /\ \A c \in ScreenCourts :
           /\ LeadsTo(up', Asks(c), Ask(IF c = new THEN "sub" ELSE "unsub", c))
           /\ NoWord(up', Asks(c)) => c \notin room /\ c # new
      /\ new # None => LeadsTo(up', AllAsks, Ask("sub", new))
      /\ Alternate(up', room)
      /\ \A W : NoWord(up', W) => NoWord(up, W) /\ NoWord(mid, W)
  BY SwitchWords
<1>2. ScreensTypeOK'
  BY DEF ScreensInv, ScreensTypeOK
<1>3. ScreensQueued' /\ ScreenIsLive'
  BY <1>1 DEF ScreensInv, ScreensQueued, ScreenIsLive
<1>4. ListInOrder'
  BY DEF ScreensInv, ListInOrder
<1>5. RevisionInOrder'
  BY DEF ScreensInv, RevisionInOrder
<1>6. ClubInOrder'
  <2> SUFFICES ASSUME tv.conn = "up", ~unsaid
               PROVE  /\ LastIsTrue(down, ClubWords, {ClubData(star, under)})
                      /\ tv'.page = "club" /\ NoWord(down, ClubWords) /\ NoWord(up', {Ask("config", None)})
                         => tv'.club = Public(ClubCourts, star, under)
    BY DEF ClubInOrder
  <2>1. /\ LastIsTrue(down, ClubWords, {ClubData(star, under)})
        /\ tv.page = "club" /\ NoWord(down, ClubWords) /\ NoWord(up, {Ask("config", None)})
           => tv.club = Public(ClubCourts, star, under)
    BY DEF ScreensInv, ClubInOrder
  <2>2. mid = <<Ask("config", None)>> => ~NoWord(up', {Ask("config", None)})
    BY <1>1, OneWord
  <2>. QED BY <1>1, <2>1, <2>2
<1>7. AsksInOrder'
  BY <1>1 DEF AsksInOrder
<1>8. SubIsLast' /\ SubsAlternate'
  BY <1>1 DEF SubIsLast, SubsAlternate
<1>9. MatchInOrder'
  <2>1. \A c \in ScreenCourts : c = new => ~NoWord(up', Asks(c))
    BY <1>1
  <2>2. room \subseteq ScreenCourts
    BY DEF ScreensInv, ScreensTypeOK
  <2>. QED BY <2>1, <2>2 DEF MatchInOrder
<1>. QED BY <1>2, <1>3, <1>4, <1>5, <1>6, <1>7, <1>8, <1>9 DEF ScreensInv

(* Render, to another page or to another court in the spotlight.              *)
LEMMA RenderKeeps ==
  ASSUME ScreensInv, Render
  PROVE  ScreensInv'
<1>1. ScreensTypeOK /\ up \in Seq(Request) /\ tv \in Television /\ tv.sub \in ScreenCourts \cup {None}
  BY DEF ScreensInv, ScreensQueued, ScreensTypeOK, Television
<1>2. UNCHANGED <<star, under, score, mode, revision, room, down, untold, unsaid, missed, acts>>
  BY DEF Render, hub
<1>3. /\ tv.list \in Snapshot(TournamentCourts) /\ tv.club \in Snapshot(ClubCourts) /\ tv.match \in Match
      /\ tv.wanted \in Modes \cup {"loading"} /\ tv.page \in Pages
  BY <1>1 DEF Television
<1>4. /\ Spotlight(tv.list) \in ScreenCourts \cup {None} /\ Spotlight(tv.club) \in ScreenCourts \cup {None}
  BY <1>3, SpotlightType DEF ScreenCourts
<1>5. NoMatch \in Match /\ EmptyList \in Snapshot(ClubCourts)
  BY ScreensAssumption DEF NoMatch, Match, EmptyList, Snapshot
<1>6. CASE tv.wanted # tv.page
           /\ LET new == IF tv.wanted = "tournament" THEN Spotlight(tv.list) ELSE None
              IN  /\ tv' = [tv EXCEPT !.page = tv.wanted, !.sub = new, !.match = NoMatch, !.club = EmptyList]
                  /\ up' = up \o Leave(tv.sub) \o Mounts(tv.wanted) \o Enter(new)
  <2> DEFINE new == IF tv.wanted = "tournament" THEN Spotlight(tv.list) ELSE None
             mid == Mounts(tv.wanted)
  <2>1. new \in ScreenCourts \cup {None} /\ (new # None => tv.wanted = "tournament")
    BY <1>4
  <2>2. /\ tv' = [tv EXCEPT !.page = tv.wanted, !.sub = new, !.match = NoMatch, !.club = EmptyList]
        /\ up' = up \o Leave(tv.sub) \o mid \o Enter(new)
    BY <1>6
  <2> HIDE DEF new
  <2>3. /\ tv' \in Television /\ tv'.sub = new /\ tv'.page = tv.wanted
        /\ tv'.conn = tv.conn /\ tv'.list = tv.list /\ tv'.bracket = tv.bracket
    BY <1>1, <1>3, <1>5, <2>1, <2>2 DEF Television, Pages
  <2>4. /\ mid = <<>> \/ mid = <<Ask("config", None)>>
        /\ tv.wanted = "club" => mid = <<Ask("config", None)>>
    BY DEF Mounts
  <2> HIDE DEF mid
  <2>. QED BY <1>2, <2>1, <2>2, <2>3, <2>4, RenderedKeeps
<1>7. CASE tv.wanted = tv.page /\ Chosen(tv.page) # tv.sub
           /\ LET new == Chosen(tv.page)
              IN  /\ tv' = [tv EXCEPT !.sub = new, !.match = Kept(tv.page, new)]
                  /\ up' = up \o Switch(tv.sub, new)
  <2> DEFINE new == Chosen(tv.page)
  <2>1. new \in ScreenCourts \cup {None} /\ (new # None => tv.page \in {"tournament", "club"})
    BY <1>4 DEF Chosen
  <2>2. tv' = [tv EXCEPT !.sub = new, !.match = Kept(tv.page, new)] /\ up' = up \o Switch(tv.sub, new)
    BY <1>7
  <2> HIDE DEF new
  <2>3. Kept(tv.page, new) \in Match
    BY <1>3, <1>5 DEF Kept
  <2>4. /\ tv' \in Television /\ tv'.sub = new /\ tv'.page = tv.page /\ tv'.club = tv.club
        /\ tv'.conn = tv.conn /\ tv'.list = tv.list /\ tv'.bracket = tv.bracket
    BY <1>1, <2>1, <2>2, <2>3 DEF Television
  <2>5. up' = up \o Leave(tv.sub) \o <<>> \o Enter(new)
    <3>1. Leave(tv.sub) \in Seq(Request) /\ Enter(new) \in Seq(Request)
      BY <1>1, <2>1, LeaveWords
    <3>2. \A a, b, c \in Seq(Request) : a \o (b \o c) = a \o b \o <<>> \o c
      OBVIOUS
    <3>. QED BY <1>1, <2>2, <3>1, <3>2 DEF Switch
  <2>. QED BY <1>2, <2>1, <2>4, <2>5, RenderedKeeps
<1>. QED BY <1>6, <1>7 DEF Render

(* Every step of the hub, of the connection and of the television.            *)
LEMMA ScreensStep == ScreensInv /\ [ScreensNext]_screensVars => ScreensInv'
<1> SUFFICES ASSUME ScreensInv, [ScreensNext]_screensVars PROVE ScreensInv'
  OBVIOUS
<1>1. CASE People
  <2>1. CASE ClearFeatured
    BY <2>1, ClearFeaturedKeeps
  <2>2. ASSUME NEW m \in Modes, SetKioskMode(m) PROVE ScreensInv'
    BY <2>2, SetKioskModeKeeps
  <2>3. ASSUME NEW c \in ScreenCourts, SetFeatured(c) PROVE ScreensInv'
    BY <2>3, SetFeaturedKeeps
  <2>4. ASSUME NEW c \in ScreenCourts, RecordPoint(c) PROVE ScreensInv'
    BY <2>4, RecordPointKeeps
  <2>5. ASSUME NEW c \in ScreenCourts, MatchWon(c) PROVE ScreensInv'
    BY <2>5, MatchWonKeeps
  <2>6. ASSUME NEW c \in ScreenCourts, StartMatch(c) PROVE ScreensInv'
    BY <2>6, StartMatchKeeps
  <2>7. ASSUME NEW c \in ScreenCourts, ResetMatch(c) PROVE ScreensInv'
    BY <2>7, ResetMatchKeeps
  <2>8. ASSUME NEW c \in ScreenCourts, EndSession(c) PROVE ScreensInv'
    BY <2>8, EndSessionKeeps
  <2>. QED BY <1>1, <2>1, <2>2, <2>3, <2>4, <2>5, <2>6, <2>7, <2>8 DEF People
<1>2. CASE Goes
  BY <1>2, TvServeKeeps, DeliverKeeps, MountKeeps, RenderKeeps DEF Goes
<1>3. CASE Comes
  BY <1>3, ReconnectKeeps, ReloadKeeps, GiveUpKeeps DEF Comes
<1>4. CASE Drop
  BY <1>4, TvDropKeeps
<1>5. CASE UNCHANGED screensVars
  BY <1>5 DEF screensVars, ScreensInv, ScreensTypeOK, ScreensQueued, ScreenIsLive, ListInOrder, ClubInOrder,
              RevisionInOrder, AsksInOrder, SubIsLast, SubsAlternate, MatchInOrder
<1>. QED BY <1>1, <1>2, <1>3, <1>4, <1>5 DEF ScreensNext

(* In every reachable state the last word about each court, about the club's  *)
(* courts and about the bracket is how they are, and the last request about a *)
(* court is what the page in front of it needs.                               *)
THEOREM ScreensInvariance == ScreensSpec => []ScreensInv
<1>. QED BY ScreensInitInv, ScreensStep, PTL DEF ScreensSpec

(* The hub and its television keep their types: at most one court is featured *)
(* (SpotlightHandler's setFeatured and clearFeatured), and a court is in the  *)
(* spotlight only on the pages that have one.                                 *)
THEOREM ScreensTypeCorrect == ScreensSpec => []ScreensTypeOK
<1>1. ScreensInv => ScreensTypeOK
  BY DEF ScreensInv
<1>. QED BY <1>1, ScreensInvariance, PTL

(* When nothing is under way the tournament's page has the starred court in   *)
(* its spotlight, and so has the club's unless its star went without a word   *)
(* (SpotlightHandler's setFeatured): for any courts, and however the messages *)
(* of hub and television cross and connections are lost.                      *)
THEOREM SpotlightFollows == ScreensSpec => []SpotlightFollowsStar
<1>1. ScreensInv => SpotlightFollowsStar
  <2> SUFFICES ASSUME ScreensInv, Quiet
               PROVE  /\ tv.page = "tournament" => tv.sub = Starred(TournamentCourts)
                      /\ tv.page = "club" /\ ~unsaid => tv.sub = Starred(ClubCourts)
    BY DEF SpotlightFollowsStar
  <2>1. tv.conn = "up" /\ down = <<>> /\ up = <<>> /\ Chosen(tv.page) = tv.sub
    BY DEF Quiet
  <2>2. tv.list \in Snapshot(TournamentCourts)
    BY DEF ScreensInv, ScreensTypeOK, Television
  <2>3. \A c \in TournamentCourts : Says(tv.list, c, star, under)
    BY <2>1, OneWord DEF ScreensInv, ListInOrder
  <2>4. tv.list.starred \cap tv.list.under = (star \cap TournamentCourts) \cap (under \cap TournamentCourts)
    BY <2>2, <2>3 DEF Snapshot, Says
  <2>5. Spotlight(tv.list) = Starred(TournamentCourts)
    BY <2>4 DEF Spotlight, Starred, Public
  <2>6. tv.page = "club" /\ ~unsaid => tv.club = Public(ClubCourts, star, under)
    BY <2>1, OneWord DEF ScreensInv, ClubInOrder
  <2>. QED BY <2>1, <2>5, <2>6 DEF Chosen, Starred
<1>. QED BY <1>1, ScreensInvariance, PTL

(* When nothing is under way the television hears the matches of the court in *)
(* its spotlight and no other, shows its score, and keeps the hub's bracket.  *)
THEOREM SpotlightCorrect == ScreensSpec => []SpotlightIsCurrent
<1>1. ScreensInv => SpotlightIsCurrent
  <2> SUFFICES ASSUME ScreensInv, Quiet
               PROVE  /\ room \subseteq {tv.sub}
                      /\ tv.sub # None /\ ~missed => tv.sub \in room
                      /\ tv.sub \in room \ untold => tv.match = [court |-> tv.sub, score |-> score[tv.sub]]
                      /\ tv.bracket = revision
    BY DEF SpotlightIsCurrent
  <2>1. tv.conn = "up" /\ down = <<>> /\ up = <<>>
    BY DEF Quiet
  <2>2. (\A W : NoWord(down, W)) /\ \A W : NoWord(up, W)
    BY <2>1, OneWord
  <2>3. tv.sub \in ScreenCourts \cup {None} /\ room \subseteq ScreenCourts
    BY DEF ScreensInv, ScreensTypeOK, Television
  <2>4. \A c \in ScreenCourts : (c \in room => c = tv.sub) /\ (c = tv.sub /\ ~missed => c \in room)
    BY <2>2 DEF ScreensInv, AsksInOrder
  <2>5. tv.sub \in room \ untold => tv.match = MatchUpdate(tv.sub, score[tv.sub]).of
    BY <2>2 DEF ScreensInv, MatchInOrder
  <2>6. tv.bracket = revision
    BY <2>1, <2>2 DEF ScreensInv, RevisionInOrder
  <2>. QED BY <2>3, <2>4, <2>5, <2>6 DEF MatchUpdate
<1>. QED BY <1>1, ScreensInvariance, PTL

------------------------------------------------------------------------------
(* The bracket.                                                               *)
USE RoundsAssumption, NobodyAssumption, NoCourtAssumption, OwnerSlotsAssumption

(* The inductive invariant: types, statuses, and the two facts about names.   *)

IInv == TypeOK /\ StatusesAgree /\ Propagation /\ WinnersStand

(* The invariant holds before the first bracket is created.                   *)
LEMMA InitIInv == Init => IInv
<1> SUFFICES ASSUME Init PROVE IInv
  OBVIOUS
<1>1. bracket \in Brackets /\ Agrees(bracket)
  BY BlankLemma DEF Init, NoBracket
<1>2. \A m \in Matches : bracket.state[m] = "PENDING" /\ \A s \in Slots : bracket.player[m][s] = Nobody
  BY DEF Init, NoBracket, Blank
<1>3. Propagation /\ WinnersStand
  BY <1>2, Tree, ThirdPlaceIsAMatch DEF Propagation, WinnersStand, Propagates, Stand, Entry
<1>. QED BY <1>1, <1>3 DEF IInv, TypeOK, StatusesAgree, Init

(* A blank bracket satisfies the invariant whatever it replaces.              *)
LEMMA CreateStep == IInv /\ (OnCreate \/ OnReset) => IInv'
<1> SUFFICES ASSUME OnCreate \/ OnReset PROVE IInv'
  OBVIOUS
<1>1. PICK status \in {"NONE", "SETUP"}, third \in BOOLEAN : bracket' = Blank(status, third)
  BY DEF OnCreate, OnReset, Create, NoBracket
<1>2. bracket' \in Brackets /\ Agrees(bracket') /\ byHand' = {}
  BY <1>1, BlankLemma DEF OnCreate, OnReset
<1>3. \A m \in Matches : bracket'.state[m] = "PENDING" /\ \A s \in Slots : bracket'.player[m][s] = Nobody
  BY <1>1 DEF Blank
<1>4. Propagation' /\ WinnersStand'
  BY <1>3, Tree, ThirdPlaceIsAMatch DEF Propagation, WinnersStand, Propagates, Stand, Entry
<1>. QED BY <1>2, <1>4 DEF IInv, TypeOK, StatusesAgree

(* The owner's edits: what they disturb they record in byHand.                *)
LEMMA AssignStep ==
  ASSUME NEW m \in Matches, NEW s \in Slots, IInv, OnAssignPlayer(m, s)
  PROVE  IInv'
<1>1. PICK name \in Names \cup {Nobody} : bracket' = AssignPlayer(bracket, m, s, name)
  BY DEF OnAssignPlayer
<1>2. bracket \in Brackets /\ byHand \subseteq Matches \X Slots /\ Agrees(bracket)
  BY DEF IInv, TypeOK, StatusesAgree
<1>3. /\ bracket' \in Brackets
      /\ bracket'.winner = bracket.winner
      /\ \A n \in Matches : bracket'.state[n] = "COMPLETED" <=> bracket.state[n] = "COMPLETED"
      /\ \A n \in Matches, t \in Slots :
           <<n, t>> # <<m, s>> => bracket'.player[n][t] = bracket.player[n][t]
      /\ Agrees(bracket')
  BY <1>1, <1>2, AssignLemma
<1>4. /\ byHand \subseteq byHand' /\ byHand' \subseteq Matches \X Slots
      /\ <<m, s>> \in byHand' \/ (m[1] <= 1 /\ bracket.state[m] # "COMPLETED")
  <2>1. m[1] \in Int
    BY DEF Matches, Main, ThirdPlace
  <2>. QED BY <1>2, <2>1 DEF OnAssignPlayer
<1>5. ASSUME NEW f \in NonFinal, Target(f) \notin byHand'
      PROVE  /\ bracket'.state[f] # "COMPLETED" => Entry(bracket', f) = Nobody
             /\ bracket'.state[f] = "COMPLETED" /\ ~Rewritten(byHand', f)
                => Entry(bracket', f) = WinnerName(bracket', f)
  <2>1. /\ f \in Matches /\ Downstream(f) \in Matches /\ Side(f) \in Slots
        /\ Downstream(f)[1] > 1 /\ Downstream(f)[1] \in Int
    BY Tree, ThirdPlaceIsAMatch DEF NonFinal, Main
  <2>2. Target(f) # <<m, s>>
    <3>1. CASE <<m, s>> \in byHand'
      BY <1>5, <3>1 DEF Target
    <3>2. CASE m[1] <= 1
      <4>1. Downstream(f) # m
        BY <2>1, <3>2
      <4>. QED BY <4>1 DEF Target
    <3>. QED BY <1>4, <3>1, <3>2
  <2>3. Entry(bracket', f) = Entry(bracket, f)
    BY <1>3, <2>1, <2>2 DEF Entry, Target
  <2>4. Target(f) \notin byHand
    BY <1>4, <1>5
  <2>5. ASSUME bracket'.state[f] = "COMPLETED", ~Rewritten(byHand', f)
        PROVE  Entry(bracket', f) = WinnerName(bracket', f)
    <3>1. bracket.state[f] = "COMPLETED" /\ ~Rewritten(byHand, f) /\ f # m
      BY <1>3, <1>4, <2>1, <2>5 DEF Rewritten, Slots
    <3>2. bracket.winner[f] \in Slots
      BY <1>2, <2>1, <3>1 DEF Agrees, Brackets
    <3>3. WinnerName(bracket', f) = WinnerName(bracket, f)
      BY <1>3, <2>1, <3>1, <3>2 DEF WinnerName
    <3>. QED BY <2>3, <2>4, <3>1, <3>3 DEF IInv, Propagation, Propagates
  <2>. QED BY <1>3, <2>1, <2>3, <2>4, <2>5 DEF IInv, Propagation, Propagates
<1>6. ASSUME NEW f \in Main, bracket'.state[f] = "COMPLETED", <<f, bracket'.winner[f]>> \notin byHand'
      PROVE  WinnerName(bracket', f) # Nobody
  <2>1. /\ f \in Matches /\ bracket.state[f] = "COMPLETED"
        /\ <<f, bracket.winner[f]>> \notin byHand
    BY <1>3, <1>4, <1>6, ThirdPlaceIsAMatch
  <2>2. bracket.winner[f] \in Slots
    BY <1>2, <2>1 DEF Agrees, Brackets
  <2>3. <<f, bracket.winner[f]>> # <<m, s>>
    BY <1>3, <1>4, <1>6, <2>1
  <2>4. WinnerName(bracket', f) = WinnerName(bracket, f)
    BY <1>3, <2>1, <2>2, <2>3 DEF WinnerName
  <2>. QED BY <2>1, <2>4 DEF IInv, WinnersStand, Stand
<1>. QED BY <1>3, <1>4, <1>5, <1>6 DEF IInv, TypeOK, StatusesAgree, Propagation, WinnersStand, Propagates, Stand

(* A declared winner: the slot it advances into was empty or the owner's, so  *)
(* no result already decided changes its meaning.                             *)
LEMMA WinnerKeepsNames ==
  ASSUME NEW b \in Brackets, NEW hand, NEW m \in Matches, NEW s \in Slots,
         CanSetWinner(b, m, s), Agrees(b), Propagates(b, hand), Stand(b, hand)
  PROVE  LET c == SetWinner(b, m, s) IN Propagates(c, hand) /\ Stand(c, hand)
<1> DEFINE c == SetWinner(b, m, s)
<1>1. /\ c.winner = [b.winner EXCEPT ![m] = s]
      /\ c.state[m] = "COMPLETED"
      /\ \A n \in Matches \ {m} : c.state[n] = "COMPLETED" <=> b.state[n] = "COMPLETED"
      /\ m \in NonFinal => c.player[Downstream(m)][Side(m)] = b.player[m][s]
      /\ \A n \in Matches, t \in Slots :
           ~(m \in NonFinal /\ n = Downstream(m) /\ t = Side(m)) => c.player[n][t] = b.player[n][t]
  BY SetWinnerLemma
<1>2. b.player[m][s] # Nobody /\ b.state[m] = "READY"
  BY DEF CanSetWinner
<1>3. c.winner[m] = s /\ \A n \in Matches \ {m} : c.winner[n] = b.winner[n]
  BY <1>1 DEF Brackets
<1>4. m \in NonFinal => Downstream(m) # m
  <2>1. ASSUME m \in NonFinal PROVE Downstream(m)[1] = m[1] + 1 /\ m[1] \in Int
    BY <2>1, Tree DEF NonFinal, Main
  <2>. QED BY <2>1
<1>5. c.player[m][s] = b.player[m][s]
  BY <1>1, <1>4
<1> HIDE DEF c
<1>6. ASSUME NEW f \in Main, f # m, c.state[f] = "COMPLETED", <<f, b.winner[f]>> \notin hand
      PROVE  WinnerName(c, f) = WinnerName(b, f) /\ WinnerName(b, f) # Nobody
  <2>1. f \in Matches /\ b.state[f] = "COMPLETED" /\ b.winner[f] \in Slots
    BY <1>1, <1>6, ThirdPlaceIsAMatch DEF Agrees, Brackets
  <2>2. WinnerName(b, f) # Nobody
    BY <1>6, <2>1 DEF Stand
  <2>3. ASSUME m \in NonFinal, f = Downstream(m), b.winner[f] = Side(m)
        PROVE  FALSE
    <3>1. Entry(b, m) = Nobody
      BY <1>2, <1>6, <2>3 DEF Propagates, Target
    <3>. QED BY <2>2, <2>3, <3>1 DEF Entry, WinnerName
  <2>4. c.player[f][b.winner[f]] = b.player[f][b.winner[f]]
    BY <1>1, <2>1, <2>3
  <2>. QED BY <1>3, <1>6, <2>1, <2>2, <2>4 DEF WinnerName
<1>7. Stand(c, hand)
  <2>1. ASSUME NEW f \in Main, c.state[f] = "COMPLETED", <<f, c.winner[f]>> \notin hand
        PROVE  WinnerName(c, f) # Nobody
    <3>1. CASE f = m
      BY <1>2, <1>3, <1>5, <3>1 DEF WinnerName
    <3>2. CASE f # m
      BY <1>3, <1>6, <2>1, <3>2, ThirdPlaceIsAMatch
    <3>. QED BY <3>1, <3>2
  <2>. QED BY <2>1 DEF Stand
<1>8. Propagates(c, hand)
  <2>1. ASSUME NEW f \in NonFinal, Target(f) \notin hand
        PROVE  /\ c.state[f] # "COMPLETED" => Entry(c, f) = Nobody
               /\ c.state[f] = "COMPLETED" /\ ~Rewritten(hand, f) => Entry(c, f) = WinnerName(c, f)
    <3>1. f \in Main /\ f \in Matches /\ Downstream(f) \in Matches /\ Side(f) \in Slots
      BY Tree, ThirdPlaceIsAMatch
    <3>2. CASE f = m
      BY <1>1, <1>3, <1>5, <3>2 DEF Entry, WinnerName
    <3>3. CASE f # m
      <4>1. Entry(c, f) = Entry(b, f)
        BY <1>1, <3>1, <3>3, OneFeeder DEF Entry
      <4>2. ASSUME c.state[f] = "COMPLETED", ~Rewritten(hand, f)
            PROVE  Entry(c, f) = WinnerName(c, f)
        <5>1. b.state[f] = "COMPLETED" /\ b.winner[f] \in Slots
          BY <1>1, <3>1, <3>3, <4>2 DEF Agrees, Brackets
        <5>2. <<f, b.winner[f]>> \notin hand
          BY <4>2, <5>1 DEF Rewritten, Slots
        <5>. QED BY <1>6, <2>1, <3>1, <3>3, <4>1, <4>2, <5>1, <5>2 DEF Propagates
      <4>. QED BY <1>1, <2>1, <3>1, <3>3, <4>1, <4>2 DEF Propagates
    <3>. QED BY <3>2, <3>3
  <2>. QED BY <2>1 DEF Propagates
<1>. QED BY <1>7, <1>8 DEF c

(* Feeding the third-place match leaves the main bracket as it is.            *)
LEMMA FeedKeepsNames ==
  ASSUME NEW b \in Brackets, NEW hand, NEW m \in Main, NEW loser \in Slots,
         Agrees(b), Propagates(b, hand), Stand(b, hand)
  PROVE  LET c == FeedThirdPlace(b, m, loser) IN Propagates(c, hand) /\ Stand(c, hand)
<1> DEFINE c == FeedThirdPlace(b, m, loser)
<1>1. /\ c.winner = b.winner
      /\ \A n \in Matches : c.state[n] = "COMPLETED" <=> b.state[n] = "COMPLETED"
      /\ \A n \in Main : c.player[n] = b.player[n]
  BY FeedLemma
<1> HIDE DEF c
<1>2. \A f \in NonFinal : /\ f \in Main /\ f \in Matches
                         /\ Entry(c, f) = Entry(b, f) /\ WinnerName(c, f) = WinnerName(b, f)
  BY <1>1, Tree, ThirdPlaceIsAMatch DEF Entry, WinnerName
<1>3. Propagates(c, hand)
  BY <1>1, <1>2 DEF Propagates
<1>4. Stand(c, hand)
  BY <1>1, ThirdPlaceIsAMatch DEF Stand, WinnerName
<1>. QED BY <1>3, <1>4 DEF c

(* An undo empties exactly the slots fed by the matches it reverts, and every *)
(* decided match whose slot it empties is reverted too.                       *)
LEMMA UndoKeepsNames ==
  ASSUME NEW b \in Brackets, NEW hand, NEW m \in Matches,
         Agrees(b), Propagates(b, hand), Stand(b, hand)
  PROVE  LET c == UndoMatch(b, m) IN Propagates(c, hand) /\ Stand(c, hand)
<1> DEFINE c == UndoMatch(b, m)
           R == Reverted(b, m)
<1>1. /\ \A n \in Matches : c.state[n] = "COMPLETED" <=> b.state[n] = "COMPLETED" /\ n \notin R
      /\ \A n \in Matches \ R : c.winner[n] = b.winner[n]
      /\ \A n \in Main, t \in Slots : c.player[n][t] = NameLeft(b, R, n, t)
  BY UndoLemma
<1>2. \A n \in R \cap NonFinal : b.state[Downstream(n)] = "COMPLETED" => Downstream(n) \in R
  BY RevertedClosed
<1> HIDE DEF c, R
<1>3. ASSUME NEW f \in Main, f \notin R, b.state[f] = "COMPLETED"
      PROVE  WinnerName(c, f) = WinnerName(b, f)
  <2>1. f \in Matches /\ b.winner[f] \in Slots
    BY <1>3, ThirdPlaceIsAMatch DEF Agrees, Brackets
  <2>2. \A t \in Slots : <<f, t>> \notin Emptied(R)
    BY <1>2, <1>3 DEF Emptied
  <2>3. c.winner[f] = b.winner[f]
    BY <1>1, <1>3, <2>1
  <2>4. c.player[f][b.winner[f]] = b.player[f][b.winner[f]]
    BY <1>1, <1>3, <2>1, <2>2 DEF NameLeft
  <2>. QED BY <2>3, <2>4 DEF WinnerName
<1>4. Stand(c, hand)
  <2>1. ASSUME NEW f \in Main, c.state[f] = "COMPLETED", <<f, c.winner[f]>> \notin hand
        PROVE  WinnerName(c, f) # Nobody
    <3>1. b.state[f] = "COMPLETED" /\ f \notin R /\ c.winner[f] = b.winner[f]
      BY <1>1, <2>1, ThirdPlaceIsAMatch
    <3>. QED BY <1>3, <2>1, <3>1 DEF Stand
  <2>. QED BY <2>1 DEF Stand
<1>5. Propagates(c, hand)
  <2>1. ASSUME NEW f \in NonFinal, Target(f) \notin hand
        PROVE  /\ c.state[f] # "COMPLETED" => Entry(c, f) = Nobody
               /\ c.state[f] = "COMPLETED" /\ ~Rewritten(hand, f) => Entry(c, f) = WinnerName(c, f)
    <3>1. /\ f \in Main /\ f \in Matches /\ Downstream(f) \in Main /\ Side(f) \in Slots
      BY Tree, ThirdPlaceIsAMatch
    <3>2. CASE f \in R
      <4>1. <<Downstream(f), Side(f)>> \in Emptied(R)
        BY <3>2 DEF Emptied
      <4>2. Entry(c, f) = Nobody
        BY <1>1, <3>1, <4>1 DEF Entry, NameLeft
      <4>. QED BY <1>1, <3>1, <3>2, <4>2
    <3>3. CASE f \notin R
      <4>1. <<Downstream(f), Side(f)>> \notin Emptied(R)
        BY <3>3, OneFeeder DEF Emptied
      <4>2. Entry(c, f) = Entry(b, f)
        BY <1>1, <3>1, <4>1 DEF Entry, NameLeft
      <4>. QED BY <1>1, <1>3, <2>1, <3>1, <3>3, <4>2 DEF Propagates
    <3>. QED BY <3>2, <3>3
  <2>. QED BY <2>1 DEF Propagates
<1>. QED BY <1>4, <1>5 DEF c

(* A result set by the owner preserves the invariant.                         *)
LEMMA SetWinnerStep ==
  ASSUME NEW m \in Matches, NEW s \in Slots, IInv, OnSetWinner(m, s)
  PROVE  IInv'
<1>1. CanSetWinner(bracket, m, s) /\ bracket' = SetWinner(bracket, m, s) /\ byHand' = byHand
  BY DEF OnSetWinner
<1>. QED BY <1>1, SetWinnerLemma, WinnerKeepsNames
         DEF IInv, TypeOK, StatusesAgree, Propagation, WinnersStand

(* A result from a court, the third-place feed included, preserves the        *)
(* invariant.                                                                 *)
LEMMA CourtResultStep ==
  ASSUME NEW m \in Matches, NEW name \in Names, IInv, CourtResult(m, name)
  PROVE  IInv'
<1> DEFINE s == NamedSlot(bracket, m, name)
           b == SetWinner(bracket, m, s)
<1>1. s \in Slots /\ Other(s) \in Slots
  BY DEF NamedSlot, Slots, Other
<1>2. /\ CanSetWinner(bracket, m, s) /\ byHand' = byHand
      /\ bracket' = IF CanFeedThirdPlace(b, m, Other(s)) THEN FeedThirdPlace(b, m, Other(s)) ELSE b
  BY DEF CourtResult, CanDecide, Decide
<1>3. bracket \in Brackets /\ byHand \subseteq Matches \X Slots
  BY DEF IInv, TypeOK
<1>4. b \in Brackets /\ Agrees(b) /\ Propagates(b, byHand) /\ Stand(b, byHand)
  BY <1>1, <1>2, <1>3, SetWinnerLemma, WinnerKeepsNames
     DEF IInv, StatusesAgree, Propagation, WinnersStand
<1> HIDE DEF b, s
<1>5. CASE CanFeedThirdPlace(b, m, Other(s))
  <2>1. m \in Main
    BY <1>5 DEF CanFeedThirdPlace
  <2>. QED BY <1>1, <1>2, <1>3, <1>4, <1>5, <2>1, FeedLemma, FeedKeepsNames
           DEF IInv, TypeOK, StatusesAgree, Propagation, WinnersStand
<1>6. CASE ~CanFeedThirdPlace(b, m, Other(s))
  BY <1>2, <1>3, <1>4, <1>6 DEF IInv, TypeOK, StatusesAgree, Propagation, WinnersStand
<1>. QED BY <1>5, <1>6

(* An undo preserves the invariant.                                           *)
LEMMA UndoStep ==
  ASSUME NEW m \in Matches, IInv, OnUndoMatch(m)
  PROVE  IInv'
<1>1. bracket' = UndoMatch(bracket, m) /\ byHand' = byHand
  BY DEF OnUndoMatch
<1>. QED BY <1>1, UndoLemma, UndoKeepsNames
         DEF IInv, TypeOK, StatusesAgree, Propagation, WinnersStand

(* The invariant holds in every state of every behaviour of the bracket,      *)
(* whatever mix of edits, results, undos, creations and resets led there.     *)
THEOREM Invariance == Spec => []IInv
<1>1. IInv /\ [Next]_vars => IInv'
  <2> SUFFICES ASSUME IInv, [Next]_vars PROVE IInv'
    OBVIOUS
  <2>1. CASE OnCreate \/ OnReset
    BY <2>1, CreateStep
  <2>2. ASSUME NEW m \in Matches, NEW s \in Slots, OnAssignPlayer(m, s) PROVE IInv'
    BY <2>2, AssignStep
  <2>3. ASSUME NEW m \in Matches, NEW s \in Slots, OnSetWinner(m, s) PROVE IInv'
    BY <2>3, SetWinnerStep
  <2>4. ASSUME NEW m \in Matches, NEW name \in Names, CourtResult(m, name) PROVE IInv'
    BY <2>4, CourtResultStep
  <2>5. ASSUME NEW m \in Matches, OnUndoMatch(m) PROVE IInv'
    BY <2>5, UndoStep
  <2>6. CASE UNCHANGED vars
    BY <2>6 DEF vars, IInv, TypeOK, StatusesAgree, Propagation, WinnersStand
  <2>. QED BY <2>1, <2>2, <2>3, <2>4, <2>5, <2>6 DEF Next
<1>. QED BY <1>1, InitIInv, PTL DEF Spec

(* Type correctness of the bracket (BracketEngine.ts).                        *)
THEOREM TypeCorrect == Spec => []TypeOK
<1>1. IInv => TypeOK
  BY DEF IInv
<1>. QED BY <1>1, Invariance, PTL

(* No stored status is ever stale: StatusesAgree (computeStatus,              *)
(* recomputeBracketStatus).                                                   *)
THEOREM StatusesCorrect == Spec => []StatusesAgree
<1>1. IInv => StatusesAgree
  BY DEF IInv
<1>. QED BY <1>1, Invariance, PTL

(* Advancing and undoing keep the names in step: Propagation (advanceWinner,  *)
(* cascadeUndo).                                                              *)
THEOREM NamesPropagate == Spec => []Propagation
<1>1. IInv => Propagation
  BY DEF IInv
<1>. QED BY <1>1, Invariance, PTL

(* No decided match of the main bracket loses its winner: WinnersStand        *)
(* (cascadeUndo).                                                             *)
THEOREM WinnersKeepStanding == Spec => []WinnersStand
<1>1. IInv => WinnersStand
  BY DEF IInv
<1>. QED BY <1>1, Invariance, PTL

------------------------------------------------------------------------------
(* The podium.  Who the third-place match holds is a fact of the semifinals:  *)
(* a name the owner did not write there is the loser of the semifinal of that *)
(* side.  It is inductive with four slots, where an undo reaches a semifinal  *)
(* only directly; with eight, a semifinal reached from a quarterfinal has lost*)
(* the name by which clearThirdPlaceSlot looks for its loser.                 *)

ThirdFrom(b, hand) ==
  \A m \in NonFinal :
    /\ IsSemifinal(m) /\ <<ThirdPlace, Side(m)>> \notin hand /\ ~Rewritten(hand, m)
    /\ b.player[ThirdPlace][Side(m)] # Nobody
    => /\ b.thirdPlace /\ b.state[m] = "COMPLETED"
       /\ b.player[ThirdPlace][Side(m)] = LoserName(b, m)

ThirdInv == Rounds = 2 => ThirdFrom(bracket, byHand)

(* The semifinals are the two matches that feed the final, one for each side. *)
LEMMA SemifinalsMeet ==
  /\ \A m \in NonFinal : IsSemifinal(m) => Downstream(m) = FinalMatch
  /\ \A s \in Slots : \E m \in NonFinal : IsSemifinal(m) /\ Side(m) = s
<1>1. ASSUME NEW m \in NonFinal, IsSemifinal(m) PROVE Downstream(m) = FinalMatch
  <2>1. m \in (1..Rounds) \X (0..15) /\ m[2] < 2
    BY <1>1 DEF NonFinal, Main, IsSemifinal, Pow2
  <2>. QED BY <1>1, <2>1 DEF Downstream, FinalMatch, IsSemifinal
<1>2. ASSUME NEW p \in {0, 1}
      PROVE  <<Rounds - 1, p>> \in NonFinal /\ IsSemifinal(<<Rounds - 1, p>>)
  BY DEF NonFinal, Main, IsSemifinal, Pow2
<1>3. Side(<<Rounds - 1, 0>>) = "A" /\ Side(<<Rounds - 1, 1>>) = "B"
  BY DEF Side
<1>. QED BY <1>1, <1>2, <1>3 DEF Slots

(* An edit of a decided semifinal or of the third-place match is recorded.    *)
LEMMA AssignKeepsThird ==
  ASSUME NEW m \in Matches, NEW s \in Slots, IInv, OnAssignPlayer(m, s),
         ThirdFrom(bracket, byHand)
  PROVE  ThirdFrom(bracket', byHand')
<1>1. PICK name \in Names \cup {Nobody} : bracket' = AssignPlayer(bracket, m, s, name)
  BY DEF OnAssignPlayer
<1>2. bracket \in Brackets /\ Agrees(bracket)
  BY DEF IInv, TypeOK, StatusesAgree
<1>3. /\ bracket'.winner = bracket.winner
      /\ \A n \in Matches : bracket'.state[n] = "COMPLETED" <=> bracket.state[n] = "COMPLETED"
      /\ \A n \in Matches, t \in Slots :
           <<n, t>> # <<m, s>> => bracket'.player[n][t] = bracket.player[n][t]
  BY <1>1, <1>2, AssignLemma
<1>4. bracket'.thirdPlace = bracket.thirdPlace
  BY <1>1, <1>2 DEF AssignPlayer, Brackets
<1>5. /\ byHand \subseteq byHand'
      /\ m = ThirdPlace \/ bracket.state[m] = "COMPLETED" => <<m, s>> \in byHand'
  BY DEF OnAssignPlayer, ThirdPlace
<1>6. ASSUME NEW f \in NonFinal, IsSemifinal(f), <<ThirdPlace, Side(f)>> \notin byHand',
             ~Rewritten(byHand', f), bracket'.player[ThirdPlace][Side(f)] # Nobody
      PROVE  /\ bracket'.thirdPlace /\ bracket'.state[f] = "COMPLETED"
             /\ bracket'.player[ThirdPlace][Side(f)] = LoserName(bracket', f)
  <2>1. f \in Matches /\ Side(f) \in Slots
    BY Tree, ThirdPlaceIsAMatch
  <2>2. bracket'.player[ThirdPlace][Side(f)] = bracket.player[ThirdPlace][Side(f)]
    BY <1>3, <1>5, <1>6, <2>1, ThirdPlaceIsAMatch
  <2>3. /\ bracket.thirdPlace /\ bracket.state[f] = "COMPLETED"
        /\ bracket.player[ThirdPlace][Side(f)] = LoserName(bracket, f)
    BY <1>5, <1>6, <2>2 DEF ThirdFrom, Rewritten
  <2>4. f # m
    BY <1>5, <1>6, <2>3 DEF Rewritten, Slots
  <2>5. Other(bracket.winner[f]) \in Slots
    BY DEF Other, Slots
  <2>6. LoserName(bracket', f) = LoserName(bracket, f)
    BY <1>3, <2>1, <2>4, <2>5 DEF LoserName
  <2>. QED BY <1>3, <1>4, <2>1, <2>2, <2>3, <2>6
<1>. QED BY <1>6 DEF ThirdFrom

(* A result decides a semifinal whose third-place slot was empty, and changes *)
(* the slots of no semifinal: with four slots nothing feeds one.              *)
LEMMA WinnerKeepsThird ==
  ASSUME NEW b \in Brackets, NEW hand, NEW m \in Matches, NEW s \in Slots,
         Rounds = 2, CanSetWinner(b, m, s), ThirdFrom(b, hand)
  PROVE  ThirdFrom(SetWinner(b, m, s), hand)
<1> DEFINE c == SetWinner(b, m, s)
<1>1. /\ c.winner = [b.winner EXCEPT ![m] = s]
      /\ \A n \in Matches \ {m} : c.state[n] = "COMPLETED" <=> b.state[n] = "COMPLETED"
      /\ \A n \in Matches, t \in Slots :
           ~(m \in NonFinal /\ n = Downstream(m) /\ t = Side(m)) => c.player[n][t] = b.player[n][t]
  BY SetWinnerLemma
<1>2. c.thirdPlace = b.thirdPlace /\ b.state[m] = "READY"
  BY DEF SetWinner, CanSetWinner, Brackets
<1> HIDE DEF c
<1>3. ASSUME NEW f \in NonFinal, IsSemifinal(f), <<ThirdPlace, Side(f)>> \notin hand,
             ~Rewritten(hand, f), c.player[ThirdPlace][Side(f)] # Nobody
      PROVE  /\ c.thirdPlace /\ c.state[f] = "COMPLETED"
             /\ c.player[ThirdPlace][Side(f)] = LoserName(c, f)
  <2>1. f \in Main /\ f \in Matches /\ Side(f) \in Slots /\ f[1] = 1
    BY <1>3, Tree, ThirdPlaceIsAMatch DEF IsSemifinal
  <2>2. m \in NonFinal => Downstream(m) # ThirdPlace /\ Downstream(m) # f
    <3>1. ASSUME m \in NonFinal PROVE m[1] \in 1..Rounds /\ Downstream(m)[1] = m[1] + 1
      BY <3>1, Tree DEF Main
    <3>2. ASSUME m \in NonFinal PROVE Downstream(m) \in Main
      BY <3>2, Tree
    <3>3. ASSUME m \in NonFinal PROVE Downstream(m)[1] # f[1]
      BY <2>1, <3>1, <3>3
    <3>. QED BY <3>2, <3>3, Tree
  <2>3. c.player[ThirdPlace][Side(f)] = b.player[ThirdPlace][Side(f)]
    BY <1>1, <2>1, <2>2, ThirdPlaceIsAMatch
  <2>4. /\ b.thirdPlace /\ b.state[f] = "COMPLETED"
        /\ b.player[ThirdPlace][Side(f)] = LoserName(b, f)
    BY <1>3, <2>3 DEF ThirdFrom
  <2>5. f # m /\ Other(b.winner[f]) \in Slots
    BY <1>2, <2>4 DEF Other, Slots
  <2>6. c.winner[f] = b.winner[f]
    BY <1>1, <2>1, <2>5 DEF Brackets
  <2>7. LoserName(c, f) = LoserName(b, f)
    BY <1>1, <2>1, <2>2, <2>5, <2>6 DEF LoserName
  <2>. QED BY <1>1, <1>2, <2>1, <2>3, <2>4, <2>5, <2>7
<1>. QED BY <1>3 DEF ThirdFrom, c

(* What setThirdPlaceLoser writes is the loser of the semifinal it is for.    *)
LEMMA FeedKeepsThird ==
  ASSUME NEW b \in Brackets, NEW hand, NEW m \in Matches, NEW s \in Slots, b.winner[m] = s,
         CanFeedThirdPlace(b, m, Other(s)), ThirdFrom(b, hand)
  PROVE  ThirdFrom(FeedThirdPlace(b, m, Other(s)), hand)
<1> DEFINE c == FeedThirdPlace(b, m, Other(s))
           name == b.player[m][Other(s)]
<1>1. m \in Main /\ IsSemifinal(m) /\ b.thirdPlace /\ b.state[m] = "COMPLETED"
  BY DEF CanFeedThirdPlace
<1>2. m \in NonFinal /\ Other(s) \in Slots /\ Side(m) \in Slots
  BY <1>1 DEF NonFinal, IsSemifinal, Other, Side, Slots
<1>3. /\ c.winner = b.winner
      /\ \A n \in Matches : c.state[n] = "COMPLETED" <=> b.state[n] = "COMPLETED"
      /\ \A n \in Main : c.player[n] = b.player[n]
  BY <1>1, <1>2, FeedLemma
<1>4. /\ c.thirdPlace = b.thirdPlace
      /\ \A t \in Slots : \/ c.player[ThirdPlace][t] = b.player[ThirdPlace][t]
                          \/ t = Side(m) /\ c.player[ThirdPlace][t] = name
  <2> DEFINE slots == [b.player[ThirdPlace] EXCEPT ![Side(m)] = name]
  <2>1. c = b \/ c = [b EXCEPT !.player[ThirdPlace] = slots, !.state[ThirdPlace] = Open(slots)]
    BY DEF FeedThirdPlace
  <2>2. CASE c = b
    <3> HIDE DEF c
    <3>. QED BY <2>2
  <2>3. CASE c = [b EXCEPT !.player[ThirdPlace] = slots, !.state[ThirdPlace] = Open(slots)]
    <3> HIDE DEF c
    <3>1. c.thirdPlace = b.thirdPlace /\ c.player[ThirdPlace] = slots
      BY <2>3, ThirdPlaceIsAMatch DEF Brackets
    <3>2. b.player[ThirdPlace] \in [Slots -> Names \cup {Nobody}]
      BY ThirdPlaceIsAMatch DEF Brackets
    <3> HIDE DEF name
    <3>3. \A t \in Slots : slots[t] = b.player[ThirdPlace][t] \/ (t = Side(m) /\ slots[t] = name)
      BY <3>2
    <3>. QED BY <3>1, <3>3
  <2>. QED BY <2>1, <2>2, <2>3
<1>5. name = LoserName(b, m)
  BY DEF LoserName
<1> HIDE DEF c, name
<1>6. ASSUME NEW f \in NonFinal, IsSemifinal(f), <<ThirdPlace, Side(f)>> \notin hand,
             ~Rewritten(hand, f), c.player[ThirdPlace][Side(f)] # Nobody
      PROVE  /\ c.thirdPlace /\ c.state[f] = "COMPLETED"
             /\ c.player[ThirdPlace][Side(f)] = LoserName(c, f)
  <2>1. f \in Main /\ f \in Matches /\ Side(f) \in Slots
    BY Tree, ThirdPlaceIsAMatch
  <2>2. LoserName(c, f) = LoserName(b, f)
    BY <1>3, <2>1 DEF LoserName
  <2>3. CASE c.player[ThirdPlace][Side(f)] = b.player[ThirdPlace][Side(f)]
    BY <1>3, <1>4, <1>6, <2>1, <2>2, <2>3 DEF ThirdFrom
  <2>4. CASE Side(f) = Side(m) /\ c.player[ThirdPlace][Side(f)] = name
    <3>1. f = m
      BY <1>1, <1>2, <1>6, <2>4, SemifinalsMeet, OneFeeder
    <3>. QED BY <1>1, <1>3, <1>4, <1>5, <2>1, <2>2, <2>4, <3>1
  <2>. QED BY <1>4, <2>1, <2>3, <2>4
<1>. QED BY <1>6 DEF ThirdFrom, c

(* An undo that reverts a semifinal takes its loser out of the third-place    *)
(* match.                                                                     *)
LEMMA UndoKeepsThird ==
  ASSUME NEW b \in Brackets, NEW hand, NEW m \in Matches,
         Rounds = 2, Agrees(b), ThirdFrom(b, hand)
  PROVE  ThirdFrom(UndoMatch(b, m), hand)
<1> DEFINE c == UndoMatch(b, m)
           R == Reverted(b, m)
           freed == FreedThird(b, R)
<1>1. /\ \A n \in Matches : c.state[n] = "COMPLETED" <=> b.state[n] = "COMPLETED" /\ n \notin R
      /\ \A n \in Matches \ R : c.winner[n] = b.winner[n]
      /\ \A n \in Main, t \in Slots : c.player[n][t] = NameLeft(b, R, n, t)
  BY UndoLemma
<1>2. c.thirdPlace = b.thirdPlace
  BY DEF UndoMatch, Brackets
<1>3. \A t \in Slots : c.player[ThirdPlace][t] =
        IF t \in freed THEN Nobody ELSE NameLeft(b, R, ThirdPlace, t)
  BY ThirdPlaceIsAMatch DEF UndoMatch, Brackets
<1>4. \A f \in NonFinal, t \in Slots :
        IsSemifinal(f) => <<f, t>> \notin Emptied(R) /\ <<ThirdPlace, t>> \notin Emptied(R)
  <2>1. ASSUME NEW e \in Emptied(R) PROVE e[1] \in Main /\ e[1][1] > 1
    <3>1. PICK n \in NonFinal : e = <<Downstream(n), Side(n)>>
      BY <2>1 DEF Emptied
    <3>2. n[1] \in 1..Rounds /\ Downstream(n)[1] = n[1] + 1 /\ Downstream(n) \in Main
      BY Tree DEF Main
    <3>. QED BY <3>1, <3>2
  <2>2. \A f \in NonFinal : IsSemifinal(f) => f[1] = 1
    BY DEF IsSemifinal
  <2> HIDE DEF R
  <2>. QED BY <2>1, <2>2, Tree
<1> HIDE DEF c, R, freed
<1>5. ASSUME NEW f \in NonFinal, IsSemifinal(f), <<ThirdPlace, Side(f)>> \notin hand,
             ~Rewritten(hand, f), c.player[ThirdPlace][Side(f)] # Nobody
      PROVE  /\ c.thirdPlace /\ c.state[f] = "COMPLETED"
             /\ c.player[ThirdPlace][Side(f)] = LoserName(c, f)
  <2>1. f \in Main /\ f \in Matches /\ Side(f) \in Slots
    BY Tree, ThirdPlaceIsAMatch
  <2>2. Side(f) \notin freed /\ c.player[ThirdPlace][Side(f)] = b.player[ThirdPlace][Side(f)]
    BY <1>3, <1>4, <1>5, <2>1 DEF NameLeft
  <2>3. /\ b.thirdPlace /\ b.state[f] = "COMPLETED"
        /\ b.player[ThirdPlace][Side(f)] = LoserName(b, f)
    BY <1>5, <2>2 DEF ThirdFrom
  <2>4. b.winner[f] # "none" /\ Other(b.winner[f]) \in Slots
    BY <2>1, <2>3 DEF Agrees, Other, Slots
  <2>5. NameLeft(b, R, f, Other(b.winner[f])) = LoserName(b, f)
    BY <1>4, <1>5, <2>4 DEF NameLeft, LoserName
  <2>6. f \notin R
    BY <1>5, <2>1, <2>2, <2>3, <2>4, <2>5 DEF FreedThird, freed
  <2>7. LoserName(c, f) = LoserName(b, f)
    BY <1>1, <2>1, <2>4, <2>5, <2>6 DEF LoserName
  <2>. QED BY <1>1, <1>2, <2>1, <2>2, <2>3, <2>6, <2>7
<1>. QED BY <1>5 DEF ThirdFrom, c

(* The third-place match holds losers of the semifinals in every state of a   *)
(* four-slot bracket.                                                         *)
THEOREM ThirdPlaceInvariance == Spec => []ThirdInv
<1>1. Init => ThirdInv
  BY ThirdPlaceIsAMatch, Tree DEF Init, NoBracket, Blank, ThirdInv, ThirdFrom
<1>2. IInv /\ ThirdInv /\ [Next]_vars => ThirdInv'
  <2> SUFFICES ASSUME IInv, ThirdInv, [Next]_vars, Rounds = 2
               PROVE  ThirdFrom(bracket', byHand')
    BY DEF ThirdInv
  <2>1. bracket \in Brackets /\ Agrees(bracket) /\ ThirdFrom(bracket, byHand)
    BY DEF IInv, TypeOK, StatusesAgree, ThirdInv
  <2>2. CASE OnCreate \/ OnReset
    <3>1. \A s \in Slots : bracket'.player[ThirdPlace][s] = Nobody
      BY <2>2, ThirdPlaceIsAMatch DEF OnCreate, OnReset, Create, NoBracket, Blank
    <3>. QED BY <3>1, Tree DEF ThirdFrom
  <2>3. ASSUME NEW m \in Matches, NEW s \in Slots, OnAssignPlayer(m, s)
        PROVE  ThirdFrom(bracket', byHand')
    BY <2>1, <2>3, AssignKeepsThird
  <2>4. ASSUME NEW m \in Matches, NEW s \in Slots, OnSetWinner(m, s)
        PROVE  ThirdFrom(bracket', byHand')
    BY <2>1, <2>4, WinnerKeepsThird DEF OnSetWinner
  <2>5. ASSUME NEW m \in Matches, NEW name \in Names, CourtResult(m, name)
        PROVE  ThirdFrom(bracket', byHand')
    <3> DEFINE s == NamedSlot(bracket, m, name)
               b == SetWinner(bracket, m, s)
    <3>1. s \in Slots
      BY DEF NamedSlot, Slots
    <3>2. /\ CanSetWinner(bracket, m, s) /\ byHand' = byHand
          /\ bracket' = IF CanFeedThirdPlace(b, m, Other(s))
                        THEN FeedThirdPlace(b, m, Other(s)) ELSE b
      BY <2>5 DEF CourtResult, CanDecide, Decide
    <3>3. b \in Brackets /\ b.winner = [bracket.winner EXCEPT ![m] = s]
      BY <2>1, <3>1, <3>2, SetWinnerLemma
    <3>4. b.winner[m] = s
      BY <2>1, <3>3 DEF Brackets
    <3>5. ThirdFrom(b, byHand)
      BY <2>1, <3>1, <3>2, WinnerKeepsThird
    <3> HIDE DEF b, s
    <3>. QED BY <3>1, <3>2, <3>3, <3>4, <3>5, FeedKeepsThird
  <2>6. ASSUME NEW m \in Matches, OnUndoMatch(m)
        PROVE  ThirdFrom(bracket', byHand')
    BY <2>1, <2>6, UndoKeepsThird DEF OnUndoMatch
  <2>7. CASE UNCHANGED vars
    BY <2>1, <2>7 DEF vars
  <2>. QED BY <2>2, <2>3, <2>4, <2>5, <2>6, <2>7 DEF Next
<1>. QED BY <1>1, <1>2, Invariance, PTL DEF Spec

(* The final two names of a completed bracket, for every size: nobody but the *)
(* winners of the semifinals, each in the slot its semifinal feeds.           *)
FinalistsStand ==
  LET semis == {m \in NonFinal : IsSemifinal(m)}
      decided == {m \in semis : bracket.state[m] = "COMPLETED"}
      podium == Podium(bracket)
  IN  /\ bracket.status = "COMPLETED"
      /\ \A m \in semis \cup {FinalMatch} : ~Rewritten(byHand, m)
      => /\ podium.champion # Nobody
         /\ {podium.champion, podium.runnerUp} =
              {IF m \in decided THEN WinnerName(bracket, m) ELSE Nobody : m \in semis}

(* It follows from the statuses, the propagated names and the winner standing *)
(* in the final.                                                              *)
LEMMA FinalistsFromIInv == IInv => FinalistsStand
<1> DEFINE semis == {m \in NonFinal : IsSemifinal(m)}
           decided == {m \in semis : bracket.state[m] = "COMPLETED"}
           sent == {IF m \in decided THEN WinnerName(bracket, m) ELSE Nobody : m \in semis}
           podium == Podium(bracket)
<1> SUFFICES ASSUME IInv, bracket.status = "COMPLETED",
                    \A m \in semis \cup {FinalMatch} : ~Rewritten(byHand, m)
             PROVE  podium.champion # Nobody /\ {podium.champion, podium.runnerUp} = sent
  BY DEF FinalistsStand
<1>1. bracket \in Brackets /\ Agrees(bracket)
  BY DEF IInv, TypeOK, StatusesAgree
<1>2. bracket.state[FinalMatch] = "COMPLETED"
  BY <1>1 DEF Agrees, StatusFrom
<1>3. bracket.winner[FinalMatch] \in Slots
  BY <1>1, <1>2, ThirdPlaceIsAMatch DEF Agrees, Brackets
<1>4. podium.champion = WinnerName(bracket, FinalMatch) /\ podium.runnerUp = LoserName(bracket, FinalMatch)
  BY DEF Podium
<1>5. podium.champion # Nobody
  <2>1. <<FinalMatch, bracket.winner[FinalMatch]>> \notin byHand
    BY <1>3 DEF Rewritten, Slots
  <2>. QED BY <1>2, <1>4, <2>1, Tree DEF IInv, WinnersStand, Stand
<1>6. {podium.champion, podium.runnerUp} = {bracket.player[FinalMatch][s] : s \in Slots}
  BY <1>3, <1>4 DEF WinnerName, LoserName, Other, Slots
<1>7. \A m \in semis : bracket.player[FinalMatch][Side(m)] =
        IF m \in decided THEN WinnerName(bracket, m) ELSE Nobody
  <2>1. ASSUME NEW m \in semis
        PROVE  bracket.player[FinalMatch][Side(m)] =
                 IF m \in decided THEN WinnerName(bracket, m) ELSE Nobody
    <3>1. m \in NonFinal /\ Downstream(m) = FinalMatch /\ Side(m) \in Slots
      BY SemifinalsMeet, Tree
    <3>2. Target(m) \notin byHand /\ ~Rewritten(byHand, m)
      BY <3>1 DEF Target, Rewritten, Slots
    <3>. QED BY <3>1, <3>2 DEF IInv, Propagation, Propagates, Entry
  <2>. QED BY <2>1
<1>8. {bracket.player[FinalMatch][s] : s \in Slots} = sent
  <2>1. \A m \in semis : Side(m) \in Slots
    BY Tree
  <2>2. \A s \in Slots : \E m \in semis : Side(m) = s
    BY SemifinalsMeet
  <2> HIDE DEF semis, decided
  <2>. QED BY <1>7, <2>1, <2>2
<1>. QED BY <1>5, <1>6, <1>8

(* Champion and runner-up are what the semifinals sent to the final, for      *)
(* every size of bracket: FinalistsStand (derivePodium).                      *)
THEOREM FinalistsCorrect == Spec => []FinalistsStand
<1>. QED BY FinalistsFromIInv, Invariance, PTL

(* With four slots the whole podium is what the results say, the third place  *)
(* included: PodiumStands (derivePodium, setThirdPlaceLoser,                  *)
(* clearThirdPlaceSlot).                                                      *)
THEOREM PodiumCorrect == Spec => [](Rounds = 2 => PodiumStands)
<1>1. IInv /\ ThirdInv => (Rounds = 2 => PodiumStands)
  <2> DEFINE semis == {m \in NonFinal : IsSemifinal(m)}
             decided == {m \in semis : bracket.state[m] = "COMPLETED"}
             podium == Podium(bracket)
  <2> SUFFICES ASSUME IInv, ThirdInv, Rounds = 2, bracket.status = "COMPLETED",
                      \A m \in semis \cup {FinalMatch, ThirdPlace} : ~Rewritten(byHand, m)
               PROVE  podium.thirdPlace \in {LoserName(bracket, m) : m \in decided} \cup {Nobody}
    BY FinalistsFromIInv DEF FinalistsStand, PodiumStands
  <2>1. CASE bracket.state[ThirdPlace] # "COMPLETED"
    BY <2>1 DEF Podium
  <2>2. CASE bracket.state[ThirdPlace] = "COMPLETED"
    <3>1. podium.thirdPlace = WinnerName(bracket, ThirdPlace) /\ bracket.winner[ThirdPlace] \in Slots
      BY <2>2, ThirdPlaceIsAMatch DEF Podium, IInv, TypeOK, StatusesAgree, Agrees, Brackets
    <3>2. PICK m \in semis : Side(m) = bracket.winner[ThirdPlace]
      BY <3>1, SemifinalsMeet
    <3>3. <<ThirdPlace, Side(m)>> \notin byHand /\ ~Rewritten(byHand, m)
      BY <3>1, <3>2 DEF Rewritten, Slots
    <3>4. CASE WinnerName(bracket, ThirdPlace) = Nobody
      BY <3>1, <3>4
    <3>5. CASE WinnerName(bracket, ThirdPlace) # Nobody
      <4>1. m \in decided /\ WinnerName(bracket, ThirdPlace) = LoserName(bracket, m)
        BY <3>2, <3>3, <3>5 DEF ThirdInv, ThirdFrom, WinnerName
      <4>. QED BY <3>1, <4>1
    <3>. QED BY <3>4, <3>5
  <2>. QED BY <2>1, <2>2
<1>. QED BY <1>1, Invariance, ThirdPlaceInvariance, PTL
============================================================================
