------------------------------ MODULE PadelProofs ------------------------------
(***************************************************************************)
(* The padel engine is correct for every set of match settings, every      *)
(* length of the undo history and every bound on the scores, restarts in   *)
(* the middle of a match included: it keeps its type, records complete     *)
(* sets only, never mixes the counts of a game and of a tiebreak, turns    *)
(* the sides with games and sets, and is a best-of-n match until a restart *)
(* empties its score.                                                      *)
(*                                                                         *)
(* The lemmas go up the rules: from the award of a set through the end of  *)
(* a game to a point.  Each says of an operator that it keeps the type and *)
(* the counts apart, that it keeps the result or awards one set (Onward),  *)
(* and what it does to the sides (SidesFollow).                            *)
(***************************************************************************)
EXTENDS PadelMatch, FiniteSetTheorems, TLAPS

(* OneCountAtATime, of any state, without the board.                          *)
OneCount(m) ==
  /\ m.isTiebreak => m.padelPoints = Nil
  /\ ~m.isTiebreak => m.tiebreakPoints = Nil
  /\ \E p \in Players : m.padelPoints[p] # Advantage

(* A score that a set may end with.                                           *)
Complete(c, s) ==
  LET diff == s[Leader(s)] - s[Other(Leader(s))]
  IN  \/ s[Leader(s)] >= c.gamesPerSet /\ diff >= 2
      \/ s[Leader(s)] >= 7 /\ diff >= 1

(* The result stands.                                                         *)
ResultKept(m, r) ==
  /\ r.config = m.config /\ r.sets = m.sets /\ r.setHistory = m.setHistory
  /\ r.status = m.status /\ r.winner = m.winner

(* One complete set was awarded to q, and with it perhaps the match.          *)
SetWon(m, r, q) ==
  /\ r.config = m.config
  /\ r.sets = [m.sets EXCEPT ![q] = @ + 1]
  /\ \E s \in Games : /\ r.setHistory = Append(m.setHistory, s)
                      /\ Leader(s) = q /\ Complete(m.config, s)
  /\ IF \E p \in Players : r.sets[p] >= SetsNeeded(m.config)
     THEN r.status = "FINISHED" /\ r.winner = Leader(r.sets)
     ELSE r.status = m.status /\ r.winner = m.winner

Onward(m, r) == ResultKept(m, r) \/ \E q \in Players : SetWon(m, r, q)

(* SidesFollowTheGames, of any two states.                                    *)
GameEnds(m, r) ==
  ~m.isTiebreak /\ (\E p \in Players : m.padelPoints[p] >= Forty) /\ r.padelPoints = Nil

SidesFollow(m, r) ==
  m.swappedSides # r.swappedSides
    <=> (GameEnds(m, r) /\ (m.currentSet["A"] + m.currentSet["B"]) % 2 = 0)
          # (Len(r.setHistory) > Len(m.setHistory))

------------------------------------------------------------------------------
(* Players, scores, sets.                                                     *)

LEMMA PlayersType ==
  /\ \A s : Leader(s) \in Players
  /\ \A p \in Players : Other(p) \in Players /\ Other(p) # p
  /\ Nil \in Games
BY DEF Leader, Other, Players, Nil, Games

LEMMA NeededType == \A c \in PadelConfig : SetsNeeded(c) \in Nat \ {0}
<1> SUFFICES ASSUME NEW c \in PadelConfig PROVE SetsNeeded(c) \in Nat \ {0}
  OBVIOUS
<1>1. c.bestOf \in Nat \ {0}
  BY DEF PadelConfig
<1> QED BY <1>1 DEF SetsNeeded

(* One more for a player.                                                     *)
LEMMA OneMore ==
  ASSUME NEW g \in Games, NEW p \in Players
  PROVE  /\ [g EXCEPT ![p] = @ + 1] \in Games
         /\ [g EXCEPT ![p] = @ + 1][p] = g[p] + 1
         /\ [g EXCEPT ![p] = @ + 1][Other(p)] = g[Other(p)]
         /\ [g EXCEPT ![p] = @ + 1]["A"] + [g EXCEPT ![p] = @ + 1]["B"] = g["A"] + g["B"] + 1
         /\ [g EXCEPT ![p] = @ + 1] # Nil
<1>1. g["A"] \in Nat /\ g["B"] \in Nat /\ g \in [Players -> Nat]
  BY DEF Games, Players
<1>2. CASE p = "A"
  BY <1>1, <1>2 DEF Games, Players, Other, Nil
<1>3. CASE p = "B"
  BY <1>1, <1>3 DEF Games, Players, Other, Nil
<1> QED BY <1>2, <1>3 DEF Players

(* Games that make a set are complete.                                        *)
LEMMA MadeIsComplete ==
  ASSUME NEW c \in PadelConfig, NEW g \in Games, GamesMakeSet(c, g)
  PROVE  Complete(c, g)
BY DEF GamesMakeSet, Complete

(* Seven to six is.                                                           *)
LEMMA TiebreakIsComplete ==
  ASSUME NEW c, NEW w \in Players
  PROVE  LET s == [q \in Players |-> IF q = w THEN 7 ELSE 6]
         IN  s \in Games /\ Leader(s) = w /\ Complete(c, s)
<1> DEFINE s == [q \in Players |-> IF q = w THEN 7 ELSE 6]
<1>1. s \in Games /\ s[w] = 7 /\ s[Other(w)] = 6
  BY PlayersType DEF Games
<1>2. Leader(s) = w
  BY <1>1 DEF Leader, Other, Players
<1> HIDE DEF s
<1>3. Complete(c, s)
  BY <1>1, <1>2 DEF Complete
<1> QED BY <1>1, <1>2, <1>3 DEF s

(* WinSet: the set is recorded and the sides change; the match may be over.   *)
LEMMA WinSetResult ==
  ASSUME NEW m \in PadelState, NEW p \in Players, NEW s \in Games
  PROVE  LET r == WinSet(m, p, s)
         IN  /\ r \in PadelState /\ r.history = m.history /\ r.config = m.config
             /\ r.padelPoints = m.padelPoints /\ r.isTiebreak = m.isTiebreak
             /\ r.tiebreakPoints = m.tiebreakPoints
             /\ r.swappedSides = ~m.swappedSides
             /\ r.setHistory = Append(m.setHistory, s)
             /\ r.sets = [m.sets EXCEPT ![p] = @ + 1]
             /\ IF \E q \in Players : r.sets[q] >= SetsNeeded(m.config)
                THEN r.status = "FINISHED" /\ r.winner = Leader(r.sets)
                ELSE r.status = m.status /\ r.winner = m.winner
<1> DEFINE sets == [m.sets EXCEPT ![p] = @ + 1]
           record == Append(m.setHistory, s)
           server == Other(m.serving)
           sides == ~m.swappedSides
           won == [m EXCEPT !.sets = sets, !.setHistory = record, !.currentSet = Nil,
                            !.serving = server, !.swappedSides = sides]
<1>1. m.sets \in Games /\ m.setHistory \in Seq(Games) /\ m.serving \in Players
  BY DEF PadelState
<1>2. /\ sets \in Games /\ record \in Seq(Games) /\ server \in Players
      /\ sides \in BOOLEAN /\ Nil \in Games
  <2>1. sets \in Games
    BY <1>1, OneMore
  <2>2. record \in Seq(Games)
    BY <1>1
  <2> QED BY <1>1, <2>1, <2>2, PlayersType
<1>3. WinSet(m, p, s) = CheckMatchWin(won)
  BY DEF WinSet
<1> HIDE DEF sets, record, server, sides
<1>4. /\ won \in PadelState /\ won.history = m.history /\ won.config = m.config
      /\ won.padelPoints = m.padelPoints /\ won.isTiebreak = m.isTiebreak
      /\ won.tiebreakPoints = m.tiebreakPoints /\ won.swappedSides = sides
      /\ won.setHistory = record /\ won.sets = sets
      /\ won.status = m.status /\ won.winner = m.winner
  BY <1>2 DEF PadelState
<1> HIDE DEF won
<1>5. CASE \E q \in Players : won.sets[q] >= SetsNeeded(won.config)
  <2>1. CheckMatchWin(won) = [won EXCEPT !.status = "FINISHED", !.winner = Leader(won.sets)]
    BY <1>5 DEF CheckMatchWin
  <2>2. Leader(won.sets) \in Players
    BY PlayersType
  <2> DEFINE leader == Leader(won.sets)
             over == [won EXCEPT !.status = "FINISHED", !.winner = leader]
  <2> HIDE DEF leader
  <2>3. /\ over \in PadelState /\ over.history = won.history /\ over.config = won.config
        /\ over.padelPoints = won.padelPoints /\ over.isTiebreak = won.isTiebreak
        /\ over.tiebreakPoints = won.tiebreakPoints /\ over.swappedSides = won.swappedSides
        /\ over.setHistory = won.setHistory /\ over.sets = won.sets
        /\ over.status = "FINISHED" /\ over.winner = leader
    BY <1>4, <2>2 DEF PadelState, leader
  <2>4. WinSet(m, p, s) = over
    BY <1>3, <2>1 DEF leader
  <2> HIDE DEF over
  <2> QED BY <1>4, <1>5, <2>3, <2>4 DEF sets, record, sides, leader
<1>6. CASE ~\E q \in Players : won.sets[q] >= SetsNeeded(won.config)
  <2>1. CheckMatchWin(won) = won
    BY <1>6 DEF CheckMatchWin
  <2> QED BY <1>3, <1>4, <1>6, <2>1 DEF sets, record, sides
<1> QED BY <1>5, <1>6

(* What a rule makes of a match: in order, with the undo history it had.      *)
Ruled(m, r) ==
  r \in PadelState /\ r.history = m.history /\ OneCount(r) /\ Onward(m, r)

(* The sides change with the end of a set and else not.                       *)
Turned(m, r) ==
  m.swappedSides # r.swappedSides <=> Len(r.setHistory) > Len(m.setHistory)

(* No points of a game, no tiebreak.                                          *)
AtLove(m) == m.padelPoints = Nil /\ ~m.isTiebreak /\ m.tiebreakPoints = Nil

LEMMA LoveIsOneCount == \A m : m.padelPoints = Nil /\ m.tiebreakPoints = Nil => OneCount(m)
BY DEF OneCount, Nil, Players, Advantage

LEMMA WinSetRuled ==
  ASSUME NEW m \in PadelState, AtLove(m), NEW s \in Games, Complete(m.config, s)
  PROVE  LET r == WinSet(m, Leader(s), s)
         IN  Ruled(m, r) /\ Turned(m, r) /\ AtLove(r)
<1> DEFINE q == Leader(s)
           r == WinSet(m, q, s)
<1>1. q \in Players /\ Leader(s) = q
  BY PlayersType
<1> HIDE DEF q
<1>2. /\ r \in PadelState /\ r.history = m.history /\ r.config = m.config
      /\ r.padelPoints = m.padelPoints /\ r.isTiebreak = m.isTiebreak
      /\ r.tiebreakPoints = m.tiebreakPoints
      /\ r.swappedSides = ~m.swappedSides
      /\ r.setHistory = Append(m.setHistory, s)
      /\ r.sets = [m.sets EXCEPT ![q] = @ + 1]
      /\ IF \E p \in Players : r.sets[p] >= SetsNeeded(m.config)
         THEN r.status = "FINISHED" /\ r.winner = Leader(r.sets)
         ELSE r.status = m.status /\ r.winner = m.winner
  BY <1>1, WinSetResult
<1> HIDE DEF r
<1>3. SetWon(m, r, q)
  BY <1>1, <1>2 DEF SetWon
<1>4. AtLove(r) /\ OneCount(r)
  BY <1>2, LoveIsOneCount DEF AtLove
<1>5. Turned(m, r)
  <2>1. m.setHistory \in Seq(Games) /\ m.swappedSides \in BOOLEAN
    BY DEF PadelState
  <2>2. Len(r.setHistory) > Len(m.setHistory)
    BY <1>2, <2>1
  <2> QED BY <1>2, <2>1, <2>2 DEF Turned
<1> QED BY <1>1, <1>2, <1>3, <1>4, <1>5 DEF Ruled, Onward, r, q

(* TiebreakStarts: nothing but the count changes.                             *)
LEMMA TiebreakIsStarted ==
  ASSUME NEW m \in PadelState, m.padelPoints = Nil
  PROVE  LET r == TiebreakStarts(m)
         IN  /\ Ruled(m, r) /\ ResultKept(m, r) /\ r.swappedSides = m.swappedSides
             /\ r.isTiebreak /\ r.padelPoints = Nil
<1> DEFINE r == TiebreakStarts(m)
<1>1. /\ r \in PadelState /\ r.history = m.history /\ ResultKept(m, r)
      /\ r.swappedSides = m.swappedSides /\ r.isTiebreak /\ r.padelPoints = m.padelPoints
      /\ r.tiebreakPoints = Nil
  BY PlayersType DEF TiebreakStarts, PadelState, ResultKept
<1> HIDE DEF r
<1>2. OneCount(r)
  BY <1>1, LoveIsOneCount
<1> QED BY <1>1, <1>2 DEF Ruled, Onward, r

LEMMA CheckSetRuled ==
  ASSUME NEW m \in PadelState, AtLove(m)
  PROVE  LET r == CheckSetWin(m)
         IN  Ruled(m, r) /\ Turned(m, r) /\ r.padelPoints = Nil
<1> DEFINE r == CheckSetWin(m)
           g == m.currentSet
<1>1. m.config \in PadelConfig /\ g \in Games /\ m.setHistory \in Seq(Games)
  BY DEF PadelState
<1>2. CASE GamesMakeSet(m.config, g)
  <2>1. r = WinSet(m, Leader(g), g)
    BY <1>2 DEF CheckSetWin
  <2>2. Complete(m.config, g)
    BY <1>1, <1>2, MadeIsComplete
  <2> HIDE DEF r, g
  <2> QED BY <1>1, <2>1, <2>2, WinSetRuled DEF AtLove, r
<1>3. CASE ~GamesMakeSet(m.config, g) /\ g = Level(m.config)
  <2>1. r = TiebreakStarts(m)
    BY <1>3 DEF CheckSetWin
  <2> HIDE DEF r, g
  <2>2. Ruled(m, r) /\ ResultKept(m, r) /\ r.swappedSides = m.swappedSides /\ r.padelPoints = Nil
    BY <2>1, TiebreakIsStarted DEF AtLove
  <2>3. Turned(m, r)
    BY <1>1, <2>2 DEF Turned, ResultKept
  <2> QED BY <2>2, <2>3 DEF r
<1>4. CASE ~GamesMakeSet(m.config, g) /\ g # Level(m.config)
  <2>1. r = m
    BY <1>4 DEF CheckSetWin
  <2> HIDE DEF r, g
  <2> QED BY <1>1, <2>1, LoveIsOneCount DEF AtLove, Ruled, Turned, Onward, ResultKept, r
<1> QED BY <1>2, <1>3, <1>4

(* The result stands or goes on also from a match of the same result.         *)
LEMMA OnwardFrom ==
  ASSUME NEW m, NEW k, NEW r, ResultKept(m, k), Onward(k, r)
  PROVE  Onward(m, r)
BY DEF ResultKept, Onward, SetWon

(* WinGame: one game more; the sides change with an odd game, and with a set. *)
LEMMA WinGameRuled ==
  ASSUME NEW m \in PadelState, OneCount(m), ~m.isTiebreak, NEW p \in Players,
         m.padelPoints[p] >= Forty
  PROVE  Ruled(m, WinGame(m, p)) /\ SidesFollow(m, WinGame(m, p))
<1> DEFINE games == [m.currentSet EXCEPT ![p] = @ + 1]
           odd == (games["A"] + games["B"]) % 2 = 1
           sides == m.swappedSides # odd
           server == Other(m.serving)
           k == [m EXCEPT !.currentSet = games, !.padelPoints = Nil, !.serving = server,
                          !.swappedSides = sides]
           before == m.currentSet["A"] + m.currentSet["B"]
           r == WinGame(m, p)
<1>1. /\ m.currentSet \in Games /\ m.serving \in Players /\ m.swappedSides \in BOOLEAN
      /\ m.tiebreakPoints = Nil /\ before \in Nat
  BY DEF PadelState, OneCount, Games, Players
<1>2. games \in Games /\ games["A"] + games["B"] = before + 1 /\ server \in Players
  BY <1>1, OneMore, PlayersType
<1>3. odd <=> before % 2 = 0
  BY <1>1, <1>2
<1>4. r = CheckSetWin(k)
  BY DEF WinGame
<1> HIDE DEF games, odd, server, before
<1>5. sides \in BOOLEAN
  OBVIOUS
<1> HIDE DEF sides
<1>6. /\ k \in PadelState /\ k.history = m.history /\ ResultKept(m, k)
      /\ k.padelPoints = Nil /\ k.isTiebreak = m.isTiebreak
      /\ k.tiebreakPoints = m.tiebreakPoints /\ k.swappedSides = sides
  <2>1. Nil \in [Players -> PadelPoint]
    BY DEF Nil, PadelPoint, Love, Advantage
  <2> QED BY <1>2, <1>5, <2>1 DEF PadelState, ResultKept
<1> HIDE DEF k, r
<1>7. Ruled(k, r) /\ Turned(k, r) /\ r.padelPoints = Nil
  BY <1>1, <1>4, <1>6, CheckSetRuled DEF AtLove
<1>8. Ruled(m, r)
  BY <1>6, <1>7, OnwardFrom DEF Ruled
<1>9. SidesFollow(m, r)
  <2>1. GameEnds(m, r)
    BY <1>7 DEF GameEnds
  <2>2. r.swappedSides \in BOOLEAN
    BY <1>8 DEF Ruled, PadelState
  <2>3. k.setHistory = m.setHistory
    BY <1>6 DEF ResultKept
  <2> DEFINE longer == Len(r.setHistory) > Len(m.setHistory)
  <2>4. (sides # r.swappedSides) <=> longer
    BY <1>6, <1>7, <2>3 DEF Turned
  <2>5. SidesFollow(m, r) <=> ((m.swappedSides # r.swappedSides) <=> ((before % 2 = 0) # longer))
    BY <2>1 DEF SidesFollow, before
  <2>6. (m.swappedSides # r.swappedSides) <=> (odd # longer)
    <3> longer \in BOOLEAN /\ odd \in BOOLEAN
      BY DEF odd
    <3> HIDE DEF longer
    <3> QED BY <1>1, <1>5, <2>2, <2>4 DEF sides
  <2> HIDE DEF longer
  <2> QED BY <1>3, <2>5, <2>6
<1> QED BY <1>8, <1>9 DEF r

------------------------------------------------------------------------------
(* Points.                                                                    *)

(* A point of a tiebreak: it is counted, or ends the set as 7-6.              *)
LEMMA TiebreakPointRuled ==
  ASSUME NEW m \in PadelState, m.isTiebreak, m.padelPoints = Nil, NEW p \in Players
  PROVE  LET r == TiebreakPoint(m, p)
         IN  Ruled(m, r) /\ Turned(m, r)
<1> DEFINE t == [m.tiebreakPoints EXCEPT ![p] = @ + 1]
           w == Leader(t)
           server == IF (t["A"] + t["B"]) % 2 = 0 THEN Other(m.serving) ELSE m.serving
           wins == t[w] >= m.config.tiebreakPoints /\ t[w] - t[Other(w)] >= 2
           r == TiebreakPoint(m, p)
<1>1. /\ m.tiebreakPoints \in Games /\ m.serving \in Players
      /\ m.setHistory \in Seq(Games) /\ m.swappedSides \in BOOLEAN
  BY DEF PadelState
<1>2. t \in Games /\ server \in Players /\ w \in Players
  BY <1>1, OneMore, PlayersType
<1>3. CASE wins
  <2> DEFINE k == [m EXCEPT !.isTiebreak = FALSE, !.tiebreakPoints = Nil]
             s == [q \in Players |-> IF q = w THEN 7 ELSE 6]
  <2>1. r = WinSet(k, w, s)
    BY <1>3 DEF TiebreakPoint
  <2> HIDE DEF w
  <2>2. s \in Games /\ Leader(s) = w /\ Complete(m.config, s)
    BY <1>2, TiebreakIsComplete
  <2>3. /\ k \in PadelState /\ k.history = m.history /\ ResultKept(m, k) /\ AtLove(k)
        /\ k.swappedSides = m.swappedSides
    BY PlayersType DEF PadelState, ResultKept, AtLove
  <2> HIDE DEF k, s, r
  <2>4. k.config = m.config /\ k.setHistory = m.setHistory
    BY <2>3 DEF ResultKept
  <2>5. Ruled(k, r) /\ Turned(k, r)
    BY <2>1, <2>2, <2>3, <2>4, WinSetRuled
  <2>6. Ruled(m, r)
    BY <2>3, <2>5, OnwardFrom DEF Ruled
  <2> QED BY <2>3, <2>4, <2>5, <2>6 DEF Turned, r
<1>4. CASE ~wins
  <2>1. r = [m EXCEPT !.tiebreakPoints = t, !.serving = server]
    BY <1>4 DEF TiebreakPoint
  <2> HIDE DEF r, t, server
  <2>2. /\ r \in PadelState /\ r.history = m.history /\ ResultKept(m, r)
        /\ r.swappedSides = m.swappedSides /\ r.isTiebreak = m.isTiebreak
        /\ r.padelPoints = m.padelPoints
    BY <1>2, <2>1 DEF PadelState, ResultKept
  <2>3. OneCount(r)
    BY <2>2 DEF OneCount, Nil, Players, Advantage
  <2> QED BY <1>1, <2>2, <2>3 DEF Ruled, Turned, Onward, ResultKept, r
<1> QED BY <1>3, <1>4

(* Points of a game that are given anew, none of them Nil, disturb nothing.   *)
LEMMA PointsGiven ==
  ASSUME NEW m \in PadelState, OneCount(m), ~m.isTiebreak,
         NEW points \in [Players -> PadelPoint], points # Nil,
         \E p \in Players : points[p] # Advantage
  PROVE  LET r == [m EXCEPT !.padelPoints = points]
         IN  Ruled(m, r) /\ SidesFollow(m, r)
<1> DEFINE r == [m EXCEPT !.padelPoints = points]
<1>1. /\ r \in PadelState /\ r.history = m.history /\ ResultKept(m, r)
      /\ r.swappedSides = m.swappedSides /\ r.isTiebreak = m.isTiebreak
      /\ r.padelPoints = points /\ r.tiebreakPoints = m.tiebreakPoints
  BY DEF PadelState, ResultKept
<1> HIDE DEF r
<1>2. m.setHistory \in Seq(Games) /\ m.swappedSides \in BOOLEAN
  BY DEF PadelState
<1>3. OneCount(r)
  BY <1>1 DEF OneCount
<1>4. ~GameEnds(m, r)
  BY <1>1 DEF GameEnds
<1> QED BY <1>1, <1>2, <1>3, <1>4 DEF Ruled, SidesFollow, Onward, ResultKept, r

(* Outside a game's end the sides follow the sets.                            *)
LEMMA TurnedFollows ==
  ASSUME NEW m, NEW r, Turned(m, r), m.isTiebreak \/ m.padelPoints = Nil
  PROVE  SidesFollow(m, r)
<1>1. ~GameEnds(m, r)
  BY DEF GameEnds, Nil, Forty
<1> QED BY <1>1 DEF Turned, SidesFollow

LEMMA RegularPointRuled ==
  ASSUME NEW m \in PadelState, OneCount(m), ~m.isTiebreak, NEW p \in Players
  PROVE  Ruled(m, RegularPoint(m, p)) /\ SidesFollow(m, RegularPoint(m, p))
<1> DEFINE mine == m.padelPoints[p]
           theirs == m.padelPoints[Other(p)]
           wins == \/ mine = Advantage
                   \/ mine = Forty /\ theirs = Forty /\ m.config.goldenPoint
                   \/ mine = Forty /\ theirs < Forty
           level == m.currentSet = Level(m.config) /\ m.padelPoints = Nil
           r == RegularPoint(m, p)
<1>1. /\ m.padelPoints \in [Players -> PadelPoint] /\ Other(p) \in Players /\ Other(p) # p
      /\ mine \in 0 .. 4 /\ theirs \in 0 .. 4
      /\ \A q \in Players : q = p \/ q = Other(p)
  BY PlayersType DEF PadelState, PadelPoint, Love, Advantage, Players, Other
<1>2. CASE level
  <2> DEFINE k == TiebreakStarts(m)
  <2>1. r = TiebreakPoint(k, p)
    BY <1>2 DEF RegularPoint
  <2>2. /\ Ruled(m, k) /\ ResultKept(m, k) /\ k.swappedSides = m.swappedSides
        /\ k.isTiebreak /\ k.padelPoints = Nil
    BY <1>2, TiebreakIsStarted
  <2> HIDE DEF k, r
  <2>3. Ruled(k, r) /\ Turned(k, r)
    BY <2>1, <2>2, TiebreakPointRuled DEF Ruled
  <2>4. Ruled(m, r)
    BY <2>2, <2>3, OnwardFrom DEF Ruled
  <2>5. Turned(m, r)
    BY <2>2, <2>3 DEF Turned, ResultKept
  <2> QED BY <1>2, <2>4, <2>5, TurnedFollows DEF r
<1>3. CASE ~level /\ wins
  <2>1. r = WinGame(m, p)
    BY <1>3 DEF RegularPoint
  <2>2. m.padelPoints[p] >= Forty
    BY <1>3 DEF Forty, Advantage
  <2> QED BY <2>1, <2>2, WinGameRuled
<1>4. CASE ~level /\ ~wins /\ theirs = Advantage
  <2> DEFINE points == [q \in Players |-> Forty]
  <2>1. r = [m EXCEPT !.padelPoints = points]
    BY <1>4 DEF RegularPoint
  <2>2. /\ points \in [Players -> PadelPoint] /\ points # Nil
        /\ \E q \in Players : points[q] # Advantage
    BY DEF PadelPoint, Love, Forty, Advantage, Nil, Players
  <2> HIDE DEF points
  <2> QED BY <2>1, <2>2, PointsGiven
<1>5. CASE ~level /\ ~wins /\ theirs # Advantage
  <2> DEFINE points == [m.padelPoints EXCEPT ![p] = mine + 1]
  <2>1. r = [m EXCEPT !.padelPoints = points]
    BY <1>5 DEF RegularPoint
  <2>2. points[p] = mine + 1 /\ points[Other(p)] = theirs
    BY <1>1
  <2>3. points \in [Players -> PadelPoint]
    BY <1>1, <1>5 DEF PadelPoint, Love, Advantage
  <2>4. points # Nil /\ \E q \in Players : points[q] # Advantage
    BY <1>1, <1>5, <2>2 DEF Nil
  <2> HIDE DEF points
  <2> QED BY <2>1, <2>3, <2>4, PointsGiven
<1> QED BY <1>2, <1>3, <1>4, <1>5

(* A point, whatever is counted.                                              *)
LEMMA RecordScoreRuled ==
  ASSUME NEW m \in PadelState, OneCount(m), NEW p \in Players
  PROVE  Ruled(m, PadelRecordScore(m, p)) /\ SidesFollow(m, PadelRecordScore(m, p))
<1>1. CASE m.isTiebreak
  <2>1. Ruled(m, TiebreakPoint(m, p)) /\ Turned(m, TiebreakPoint(m, p))
    BY <1>1, TiebreakPointRuled DEF OneCount
  <2> QED BY <1>1, <2>1, TurnedFollows DEF PadelRecordScore
<1>2. CASE ~m.isTiebreak
  BY <1>2, RegularPointRuled DEF PadelRecordScore
<1> QED BY <1>1, <1>2

------------------------------------------------------------------------------
(* Corrections, and the rules of table tennis after a restart.                *)

(* The counts are in order and the result stands.                             *)
Corrected(m, r) ==
  r \in PadelState /\ r.history = m.history /\ OneCount(r) /\ ResultKept(m, r)

LEMMA PadelSubtractCorrects ==
  ASSUME NEW m \in PadelState, OneCount(m), NEW p \in Players
  PROVE  LET r == PadelSubtractScore(m, p)
         IN  Corrected(m, r) /\ r.swappedSides = m.swappedSides /\ ~GameEnds(m, r)
<1> DEFINE r == PadelSubtractScore(m, p)
<1>1. /\ m.padelPoints \in [Players -> PadelPoint] /\ Other(p) \in Players /\ Other(p) # p
      /\ m.padelPoints[p] \in 0 .. 4
      /\ \A q \in Players : q = p \/ q = Other(p)
      /\ m.tiebreakPoints \in Games /\ m.currentSet \in Games /\ m.serving \in Players
  BY PlayersType DEF PadelState, PadelPoint, Love, Advantage, Players, Other
<1>2. CASE m.isTiebreak
  <2> DEFINE t == [m.tiebreakPoints EXCEPT ![p] = IF @ > 0 THEN @ - 1 ELSE 0]
  <2>1. r = [m EXCEPT !.tiebreakPoints = t]
    BY <1>2 DEF PadelSubtractScore
  <2>2. t \in Games
    BY <1>1 DEF Games
  <2> HIDE DEF r, t
  <2>3. /\ r \in PadelState /\ r.history = m.history /\ ResultKept(m, r)
        /\ r.swappedSides = m.swappedSides /\ r.isTiebreak = m.isTiebreak
        /\ r.padelPoints = m.padelPoints
    BY <2>1, <2>2 DEF PadelState, ResultKept
  <2>4. OneCount(r)
    BY <1>2, <2>3 DEF OneCount
  <2> QED BY <1>2, <2>3, <2>4 DEF Corrected, GameEnds, r
<1>3. CASE ~m.isTiebreak /\ m.padelPoints = Nil /\ m.currentSet[p] > 0
  <2> DEFINE games == [m.currentSet EXCEPT ![p] = @ - 1]
             points == [q \in Players |-> IF q = p THEN Advantage ELSE Forty]
             server == Other(m.serving)
  <2>1. r = [m EXCEPT !.currentSet = games, !.serving = server, !.padelPoints = points]
    BY <1>3 DEF PadelSubtractScore
  <2>2. games \in Games /\ server \in Players
    BY <1>1, <1>3, PlayersType DEF Games
  <2>3. points \in [Players -> PadelPoint] /\ points[Other(p)] = Forty /\ points # Nil
    BY <1>1 DEF PadelPoint, Love, Forty, Advantage, Nil
  <2> HIDE DEF r, games, points, server
  <2>4. /\ r \in PadelState /\ r.history = m.history /\ ResultKept(m, r)
        /\ r.swappedSides = m.swappedSides /\ r.isTiebreak = m.isTiebreak
        /\ r.padelPoints = points /\ r.tiebreakPoints = m.tiebreakPoints
    BY <2>1, <2>2, <2>3 DEF PadelState, ResultKept
  <2>5. OneCount(r)
    BY <1>1, <1>3, <2>3, <2>4 DEF OneCount, Forty, Advantage
  <2> QED BY <2>3, <2>4, <2>5 DEF Corrected, GameEnds, r
<1>4. CASE ~m.isTiebreak /\ ~(m.padelPoints = Nil /\ m.currentSet[p] > 0)
  <2> DEFINE points == [m.padelPoints EXCEPT ![p] = IF @ > Love THEN @ - 1 ELSE Love]
  <2>1. r = [m EXCEPT !.padelPoints = points]
    BY <1>4 DEF PadelSubtractScore
  <2>2. /\ points \in [Players -> PadelPoint] /\ points[p] # Advantage
        /\ points[Other(p)] = m.padelPoints[Other(p)]
        /\ points[p] = 0 => m.padelPoints[p] <= 1
    BY <1>1 DEF PadelPoint, Love, Advantage
  <2> HIDE DEF r, points
  <2>3. /\ r \in PadelState /\ r.history = m.history /\ ResultKept(m, r)
        /\ r.swappedSides = m.swappedSides /\ r.isTiebreak = m.isTiebreak
        /\ r.padelPoints = points /\ r.tiebreakPoints = m.tiebreakPoints
    BY <2>1, <2>2 DEF PadelState, ResultKept
  <2>4. OneCount(r)
    BY <1>4, <2>2, <2>3 DEF OneCount
  <2>5. points = Nil => \A q \in Players : m.padelPoints[q] <= 1
    BY <1>1, <2>2 DEF Nil
  <2>6. ~GameEnds(m, r)
    BY <1>1, <2>3, <2>5 DEF GameEnds, Forty, PadelPoint, Love, Advantage
  <2> QED BY <2>3, <2>4, <2>6 DEF Corrected, r
<1> QED BY <1>2, <1>3, <1>4

(* Nobody is told from these fields what the score is.                        *)
LEMMA GamesCorrected ==
  ASSUME NEW m \in PadelState, OneCount(m), NEW games \in Games, NEW server \in Players
  PROVE  Corrected(m, [m EXCEPT !.currentSet = games, !.serving = server])
<1> DEFINE r == [m EXCEPT !.currentSet = games, !.serving = server]
<1>1. /\ r \in PadelState /\ r.history = m.history /\ ResultKept(m, r)
      /\ r.isTiebreak = m.isTiebreak /\ r.padelPoints = m.padelPoints
      /\ r.tiebreakPoints = m.tiebreakPoints
  BY DEF PadelState, ResultKept
<1> HIDE DEF r
<1> QED BY <1>1 DEF Corrected, OneCount, r

LEMMA SidesCorrected ==
  ASSUME NEW m \in PadelState, OneCount(m), NEW sides \in BOOLEAN, NEW middle \in BOOLEAN
  PROVE  Corrected(m, [m EXCEPT !.swappedSides = sides, !.midSetSwapped = middle])
<1> DEFINE r == [m EXCEPT !.swappedSides = sides, !.midSetSwapped = middle]
<1>1. /\ r \in PadelState /\ r.history = m.history /\ ResultKept(m, r)
      /\ r.isTiebreak = m.isTiebreak /\ r.padelPoints = m.padelPoints
      /\ r.tiebreakPoints = m.tiebreakPoints
  BY DEF PadelState, ResultKept
<1> HIDE DEF r
<1> QED BY <1>1 DEF Corrected, OneCount, r

LEMMA CorrectedFrom ==
  ASSUME NEW m, NEW k, NEW r, Corrected(m, k), Corrected(k, r)
  PROVE  Corrected(m, r)
BY DEF Corrected, ResultKept

LEMMA ServingCorrected ==
  ASSUME NEW m \in PadelState, OneCount(m)
  PROVE  Corrected(m, UpdateServing(m))
<1> DEFINE interval == IF \A p \in Players : m.currentSet[p] >= 10 THEN 1 ELSE 2
           total == m.currentSet["A"] + m.currentSet["B"]
           server == IF total % interval = 0 THEN Other(m.serving) ELSE m.serving
           r == [m EXCEPT !.serving = server]
<1>1. UpdateServing(m) = r
  BY DEF UpdateServing
<1>2. server \in Players
  BY PlayersType DEF PadelState
<1> HIDE DEF server
<1>3. /\ r \in PadelState /\ r.history = m.history /\ ResultKept(m, r)
      /\ r.isTiebreak = m.isTiebreak /\ r.padelPoints = m.padelPoints
      /\ r.tiebreakPoints = m.tiebreakPoints
  BY <1>2 DEF PadelState, ResultKept
<1> HIDE DEF r
<1> QED BY <1>1, <1>3 DEF Corrected, OneCount

(* A point or a correction of table tennis.                                   *)
LEMMA LooseGames ==
  ASSUME NEW m \in PadelState, OneCount(m), NEW games \in Games
  PROVE  LET k == [m EXCEPT !.currentSet = games]
         IN  Corrected(m, UpdateServing(k)) /\ Corrected(m, UpdateServing(SwapAtMiddle(k)))
<1> DEFINE k == [m EXCEPT !.currentSet = games]
           s == SwapAtMiddle(k)
<1>1. Corrected(m, k)
  <2>1. k = [m EXCEPT !.currentSet = games, !.serving = m.serving] /\ m.serving \in Players
    BY DEF PadelState
  <2> HIDE DEF k
  <2> QED BY <2>1, GamesCorrected
<1> HIDE DEF k
<1>2. Corrected(k, s)
  <2>1. k.swappedSides \in BOOLEAN /\ k.midSetSwapped \in BOOLEAN /\ OneCount(k) /\ k \in PadelState
    BY <1>1 DEF Corrected, PadelState
  <2>2. CASE CheckSideSwap(k)
    <3> DEFINE sides == ~k.swappedSides
    <3>1. s = [k EXCEPT !.swappedSides = sides, !.midSetSwapped = TRUE]
      BY <2>2 DEF SwapAtMiddle
    <3>2. sides \in BOOLEAN
      OBVIOUS
    <3> HIDE DEF sides
    <3> QED BY <2>1, <3>1, <3>2, SidesCorrected
  <2>3. CASE ~CheckSideSwap(k)
    BY <2>1, <2>3 DEF SwapAtMiddle, Corrected, ResultKept
  <2> QED BY <2>2, <2>3
<1> HIDE DEF s
<1>3. Corrected(m, s)
  BY <1>1, <1>2, CorrectedFrom
<1>4. Corrected(k, UpdateServing(k)) /\ Corrected(s, UpdateServing(s))
  BY <1>1, <1>3, ServingCorrected DEF Corrected
<1> QED BY <1>1, <1>3, <1>4, CorrectedFrom DEF k, s

LEMMA LooseRecordCorrects ==
  ASSUME NEW m \in PadelState, OneCount(m), NEW p \in Players
  PROVE  Corrected(m, LooseRecordScore(m, p))
<1>1. [m.currentSet EXCEPT ![p] = @ + 1] \in Games
  BY OneMore DEF PadelState
<1> QED BY <1>1, LooseGames DEF LooseRecordScore

LEMMA LooseSubtractCorrects ==
  ASSUME NEW m \in PadelState, OneCount(m), NEW p \in Players, m.currentSet[p] > 0
  PROVE  Corrected(m, SubtractScore(m, p))
<1>1. [m.currentSet EXCEPT ![p] = @ - 1] \in Games
  BY DEF PadelState, Games
<1> QED BY <1>1, LooseGames DEF SubtractScore

------------------------------------------------------------------------------
(* The undo history, a restart, a new match.                                  *)

Entry == [pointsBefore : Games, pointsAfter : Games]

(* A state with a history of at most MaxHistory actions, its counts in order. *)
Playable(m) == m \in PadelState /\ Len(m.history) <= MaxHistory /\ OneCount(m)

(* Only the history and the games differ.                                     *)
Logged(r, a) ==
  /\ ResultKept(r, a) /\ a.swappedSides = r.swappedSides /\ a.isTiebreak = r.isTiebreak
  /\ a.padelPoints = r.padelPoints /\ a.tiebreakPoints = r.tiebreakPoints

(* addToHistory: r is m after an action that left the history alone.          *)
LEMMA HistoryAdded ==
  ASSUME NEW m, NEW r, Playable(m), r \in PadelState, OneCount(r), r.history = m.history
  PROVE  LET a == AddToHistory(r, m.currentSet)
         IN  Playable(a) /\ Logged(r, a)
<1> DEFINE e == [pointsBefore |-> m.currentSet, pointsAfter |-> r.currentSet]
           h == Append(m.history, e)
           k == IF Len(h) > MaxHistory THEN Tail(h) ELSE h
           a == [r EXCEPT !.history = k]
<1>1. e \in Entry /\ m.history \in Seq(Entry)
  BY DEF Playable, PadelState, Entry
<1>2. h \in Seq(Entry) /\ Len(h) = Len(m.history) + 1 /\ h # <<>>
  BY <1>1
<1>3. k \in Seq(Entry) /\ Len(k) <= MaxHistory
  BY <1>1, <1>2, MaxHistoryAssumption DEF Playable
<1>4. AddToHistory(r, m.currentSet) = a
  BY <1>1 DEF AddToHistory
<1> HIDE DEF k
<1>5. a \in PadelState /\ a.history = k /\ Logged(r, a)
  BY <1>3 DEF PadelState, Entry, ResultKept, Logged
<1> HIDE DEF a
<1> QED BY <1>3, <1>4, <1>5 DEF Playable, Logged, OneCount

(* undoLast: the games before the last entry come back, with a shorter        *)
(* history.                                                                   *)
LEMMA GamesUndone ==
  ASSUME NEW m, Playable(m), m.history # <<>>
  PROVE  LET last == Len(m.history)
             r == [m EXCEPT !.currentSet = m.history[last].pointsBefore,
                            !.history = SubSeq(@, 1, last - 1)]
         IN  Playable(r) /\ Logged(m, r)
<1> DEFINE n == Len(m.history)
           h == SubSeq(m.history, 1, n - 1)
           s == m.history[n].pointsBefore
           r == [m EXCEPT !.currentSet = s, !.history = h]
<1>1. m.history \in Seq(Entry) /\ n \in Nat \ {0} /\ m.history[n] \in Entry
  <2>1. m.history \in Seq(Entry) /\ m.history # <<>>
    BY DEF Playable, PadelState, Entry
  <2> HIDE DEF Entry
  <2> QED BY <2>1
<1>2. h \in Seq(Entry) /\ Len(h) = n - 1
  BY <1>1
<1>3. s \in Games
  BY <1>1 DEF Entry
<1>4. Len(h) <= MaxHistory
  BY <1>1, <1>2, MaxHistoryAssumption DEF Playable
<1> HIDE DEF h, s
<1>5. r \in PadelState /\ r.history = h /\ Logged(m, r)
  BY <1>2, <1>3 DEF Playable, PadelState, Entry, ResultKept, Logged
<1> HIDE DEF r
<1>6. Playable(r) /\ Logged(m, r)
  BY <1>4, <1>5 DEF Playable, Logged, OneCount
<1> QED BY <1>6 DEF r, s, h, n

(* UNDO_LAST, by the rules of either sport.                                   *)
LEMMA ActionUndone ==
  ASSUME Playable(match), OnUndoLast
  PROVE  /\ Playable(match') /\ ResultKept(match, match')
         /\ rules # "tableTennis" =>
              match'.padelPoints = match.padelPoints /\ match'.swappedSides = match.swappedSides
<1> DEFINE last == Len(match.history)
           r == [match EXCEPT !.currentSet = match.history[last].pointsBefore,
                              !.history = SubSeq(@, 1, last - 1)]
<1>1. Playable(r) /\ Logged(match, r)
  BY GamesUndone DEF OnUndoLast
<1>2. match' = IF rules = "tableTennis" THEN UpdateServing(r) ELSE r
  BY DEF OnUndoLast, UndoLast
<1> HIDE DEF r
<1>3. Corrected(r, UpdateServing(r))
  BY <1>1, ServingCorrected DEF Playable
<1>4. CASE rules = "tableTennis"
  BY <1>1, <1>2, <1>3, <1>4 DEF Corrected, Playable, Logged, ResultKept
<1>5. CASE rules # "tableTennis"
  BY <1>1, <1>2, <1>5 DEF Logged
<1> QED BY <1>4, <1>5

(* The record of sets, the end and the winner outlive a restart; the count of *)
(* sets starts from nil.                                                      *)
LEMMA Restarted ==
  ASSUME NEW m, Playable(m)
  PROVE  LET r == FromState(Saved(m))
         IN  /\ Playable(r) /\ r.config = m.config /\ r.setHistory = m.setHistory
             /\ r.status = m.status /\ r.winner = m.winner
<1> DEFINE row == Saved(m)
           r == [m EXCEPT !.sets = Nil, !.currentSet = Nil, !.serving = "A"]
<1>1. DOMAIN row = {"score", "fields"} /\ row.fields = m
  BY DEF Saved, GetState
<1> HIDE DEF row
<1>2. FromState(row) = r
  BY <1>1 DEF FromState
<1>3. /\ r \in PadelState /\ r.history = m.history /\ r.config = m.config
      /\ r.setHistory = m.setHistory /\ r.status = m.status /\ r.winner = m.winner
      /\ r.isTiebreak = m.isTiebreak /\ r.padelPoints = m.padelPoints
      /\ r.tiebreakPoints = m.tiebreakPoints
  <2>1. Nil \in Games /\ "A" \in Players
    BY PlayersType DEF Players
  <2> QED BY <2>1 DEF Playable, PadelState
<1> HIDE DEF r
<1> QED BY <1>2, <1>3 DEF Playable, OneCount, row

(* A new engine has no sets, no winner and no history.                        *)
NewMatch(m) ==
  Playable(m) /\ m.sets = Nil /\ m.setHistory = <<>> /\ m.winner = NoWinner /\ m.status # "FINISHED"

LEMMA InitialIsNew ==
  ASSUME NEW c \in PadelConfig
  PROVE  /\ NewMatch(PadelInitialState(c))
         /\ NewMatch([PadelInitialState(c) EXCEPT !.status = "LIVE"])
<1> DEFINE m == PadelInitialState(c)
           live == [m EXCEPT !.status = "LIVE"]
<1>1. c.initialScore \in Games /\ c.initialServer \in Players
  BY DEF PadelConfig
<1>2. Nil \in [Players -> PadelPoint] /\ Nil \in Games
  BY DEF Nil, PadelPoint, Love, Advantage, Games
<1>3. /\ m \in PadelState /\ m.sets = Nil /\ m.setHistory = <<>> /\ m.winner = NoWinner
      /\ m.status = "WAITING" /\ m.padelPoints = Nil /\ m.tiebreakPoints = Nil
      /\ m.history = <<>>
  BY <1>1, <1>2 DEF PadelInitialState, PadelState
<1> HIDE DEF m
<1>4. /\ live \in PadelState /\ live.sets = Nil /\ live.setHistory = <<>>
      /\ live.winner = NoWinner /\ live.status = "LIVE" /\ live.padelPoints = Nil
      /\ live.tiebreakPoints = Nil /\ live.history = <<>>
  BY <1>3 DEF PadelState
<1> HIDE DEF live
<1>5. Len(<<>>) = 0 /\ OneCount(m) /\ OneCount(live)
  BY <1>3, <1>4, LoveIsOneCount
<1>6. Playable(m) /\ Playable(live)
  BY <1>3, <1>4, <1>5, MaxHistoryAssumption DEF Playable
<1>7. NewMatch(m) /\ NewMatch(live)
  BY <1>3, <1>4, <1>6 DEF NewMatch
<1> QED BY <1>7 DEF m, live

LEMMA StartedIsNew ==
  ASSUME NEW c \in PadelConfig
  PROVE  NewMatch(PadelStarted(c))
<1> DEFINE d == [c EXCEPT !.initialScore = Nil, !.initialServer = "A"]
<1>1. d \in PadelConfig
  BY PlayersType DEF PadelConfig, Players
<1> QED BY <1>1, InitialIsNew DEF PadelStarted

------------------------------------------------------------------------------
(* The record of the sets.                                                    *)

\* The sets on record won by a player.
WonBy(h, p) == {i \in DOMAIN h : Leader(h[i]) = p}

LEMMA WonByFinite ==
  ASSUME NEW h \in Seq(Games), NEW p \in Players
  PROVE  IsFiniteSet(WonBy(h, p)) /\ Cardinality(WonBy(h, p)) \in Nat
<1>1. IsFiniteSet(1 .. Len(h)) /\ WonBy(h, p) \subseteq 1 .. Len(h)
  BY FS_Interval DEF WonBy
<1>2. IsFiniteSet(WonBy(h, p))
  BY <1>1, FS_Subset
<1> QED BY <1>2, FS_CardinalityType

(* A set more on record counts for the player who leads in it.                *)
LEMMA OneMoreSet ==
  ASSUME NEW h \in Seq(Games), NEW s \in Games, NEW p \in Players
  PROVE  Cardinality(WonBy(Append(h, s), p))
           = Cardinality(WonBy(h, p)) + (IF Leader(s) = p THEN 1 ELSE 0)
<1> DEFINE n == Len(h) + 1
<1>1. /\ DOMAIN Append(h, s) = (DOMAIN h) \cup {n} /\ n \notin DOMAIN h
      /\ Append(h, s)[n] = s /\ \A i \in DOMAIN h : Append(h, s)[i] = h[i]
  OBVIOUS
<1> HIDE DEF n
<1>2. CASE Leader(s) = p
  <2>1. WonBy(Append(h, s), p) = WonBy(h, p) \cup {n} /\ n \notin WonBy(h, p)
    BY <1>1, <1>2 DEF WonBy
  <2> QED BY <1>2, <2>1, WonByFinite, FS_AddElement
<1>3. CASE Leader(s) # p
  <2>1. WonBy(Append(h, s), p) = WonBy(h, p)
    BY <1>1, <1>3 DEF WonBy
  <2> QED BY <1>3, <2>1, WonByFinite
<1> QED BY <1>2, <1>3

LEMMA NothingRecorded == \A p \in Players : Cardinality(WonBy(<<>>, p)) = 0
<1>1. \A p \in Players : WonBy(<<>>, p) = {}
  BY DEF WonBy
<1> QED BY <1>1, FS_EmptySet

(* SetsAreComplete, of any state.                                             *)
AllComplete(m) == \A i \in DOMAIN m.setHistory : Complete(m.config, m.setHistory[i])

(* While padel is played the count of sets is the record, and a match goes on *)
(* until somebody has the sets needed; a match is over when it has a winner.  *)
(* A restart empties the count of sets, not the record.                       *)
Counted(m, sport) ==
  /\ m.status = "FINISHED" <=> m.winner # NoWinner
  /\ sport = "padel" =>
       /\ \A p \in Players : Cardinality(WonBy(m.setHistory, p)) = m.sets[p]
       /\ m.status # "FINISHED" => \A p \in Players : m.sets[p] < SetsNeeded(m.config)

RecordKept == Counted(match, rules)

(* The inductive invariant.                                                   *)
IInv == TypeOK /\ OneCount(match) /\ SetsAreComplete /\ RecordKept

LEMMA Names == SetsAreComplete <=> AllComplete(match)
BY DEF SetsAreComplete, AllComplete, Complete

LEMMA NewIsCounted ==
  ASSUME NEW m, NewMatch(m)
  PROVE  AllComplete(m) /\ Counted(m, "padel")
<1>1. \A p \in Players : m.sets[p] = 0
  BY DEF NewMatch, Nil
<1>2. SetsNeeded(m.config) \in Nat \ {0}
  BY NeededType DEF NewMatch, Playable, PadelState
<1>3. m.setHistory = <<>>
  BY DEF NewMatch
<1>4. AllComplete(m)
  BY <1>3 DEF AllComplete
<1> QED BY <1>1, <1>2, <1>3, <1>4, NothingRecorded DEF NewMatch, Counted

(* A set is won in a match that is not over: it is on record and counted.     *)
LEMMA SetCounted ==
  ASSUME NEW m \in PadelState, m.status = "LIVE", Counted(m, "padel"), AllComplete(m),
         NEW r \in PadelState, NEW q \in Players, SetWon(m, r, q)
  PROVE  /\ AllComplete(r) /\ Counted(r, "padel")
         /\ \A p \in Players : r.sets[p] = IF p = q THEN m.sets[p] + 1 ELSE m.sets[p]
         /\ r.winner = IF m.sets[q] + 1 = SetsNeeded(m.config) THEN q ELSE NoWinner
<1>1. PICK s \in Games : /\ r.setHistory = Append(m.setHistory, s)
                         /\ Leader(s) = q /\ Complete(m.config, s)
  BY DEF SetWon
<1>2. /\ m.setHistory \in Seq(Games) /\ m.sets \in Games /\ r.config = m.config
      /\ \A p \in Players : m.sets[p] \in Nat
      /\ SetsNeeded(m.config) \in Nat
  BY NeededType DEF PadelState, SetWon, Games
<1>3. \A p \in Players : r.sets[p] = IF p = q THEN m.sets[p] + 1 ELSE m.sets[p]
  BY <1>2 DEF SetWon, Games
<1>4. \A p \in Players : Cardinality(WonBy(r.setHistory, p)) = r.sets[p]
  <2>1. \A p \in Players : Cardinality(WonBy(m.setHistory, p)) = m.sets[p]
    BY DEF Counted
  <2> SUFFICES ASSUME NEW p \in Players
               PROVE  Cardinality(WonBy(r.setHistory, p)) = r.sets[p]
    OBVIOUS
  <2>2. Cardinality(WonBy(r.setHistory, p))
          = Cardinality(WonBy(m.setHistory, p)) + (IF q = p THEN 1 ELSE 0)
    BY <1>1, <1>2, OneMoreSet
  <2> QED BY <1>2, <1>3, <2>1, <2>2
<1>5. AllComplete(r)
  <2> DEFINE h == m.setHistory
  <2>1. h \in Seq(Games)
    BY <1>2
  <2> HIDE DEF h
  <2>2. \A i \in DOMAIN Append(h, s) :
          Append(h, s)[i] = s \/ (i \in DOMAIN h /\ Append(h, s)[i] = h[i])
    BY <2>1
  <2>3. r.setHistory = Append(h, s) /\ \A i \in DOMAIN h : Complete(m.config, h[i])
    BY <1>1 DEF h, AllComplete
  <2>4. \A i \in DOMAIN Append(h, s) : Complete(m.config, Append(h, s)[i])
    <3> HIDE DEF Complete
    <3> QED BY <1>1, <2>2, <2>3
  <2> QED BY <1>2, <2>3, <2>4 DEF AllComplete
<1>6. m.winner = NoWinner /\ \A p \in Players : m.sets[p] < SetsNeeded(m.config)
  BY DEF Counted
<1>7. (\E p \in Players : r.sets[p] >= SetsNeeded(m.config)) <=> m.sets[q] + 1 = SetsNeeded(m.config)
  BY <1>2, <1>3, <1>6
<1>8. CASE m.sets[q] + 1 = SetsNeeded(m.config)
  <2>1. Leader(r.sets) = q
    BY <1>2, <1>3, <1>6, <1>8 DEF Leader, Players
  <2>2. r.status = "FINISHED" /\ r.winner = q /\ q # NoWinner
    BY <1>2, <1>7, <1>8, <2>1, NoWinnerAssumption DEF SetWon
  <2> QED BY <1>3, <1>4, <1>5, <1>8, <2>2 DEF Counted
<1>9. CASE m.sets[q] + 1 # SetsNeeded(m.config)
  <2>1. r.status = "LIVE" /\ r.winner = NoWinner
    BY <1>2, <1>6, <1>7, <1>9 DEF SetWon
  <2>2. \A p \in Players : r.sets[p] < SetsNeeded(r.config)
    BY <1>2, <1>3, <1>6, <1>9
  <2> QED BY <1>3, <1>4, <1>5, <1>9, <2>1, <2>2 DEF Counted
<1> QED BY <1>8, <1>9

------------------------------------------------------------------------------
(* The steps of the engine.                                                   *)

(* A step begins a new match, goes over to table tennis, lets the result      *)
(* stand, or awards a set of a match of padel that is not over.               *)
Course ==
  \/ NewMatch(match') /\ rules' = "padel"
  \/ /\ Playable(match')
     /\ \/ /\ rules' = "tableTennis" /\ match'.config = match.config
           /\ match'.setHistory = match.setHistory
           /\ match'.status = match.status /\ match'.winner = match.winner
        \/ rules' = rules /\ ResultKept(match, match')
        \/ /\ rules = "padel" /\ rules' = "padel" /\ match.status = "LIVE"
           /\ \E q \in Players : SetWon(match, match', q)

(* SidesFollowTheGames, of one step.                                          *)
SidesRuled ==
  \/ ConfigureMatch \/ StartMatch \/ OnSwapSides \/ Restart \/ rules = "tableTennis"
  \/ SidesFollow(match, match')

LEMMA NewEngines ==
  ASSUME ConfigureMatch \/ StartMatch
  PROVE  Course
BY InitialIsNew, StartedIsNew, PadelConfigsAssumption DEF ConfigureMatch, StartMatch, Course

LEMMA PointPlayed ==
  ASSUME Playable(match), rules \in SportRules, NEW p \in Players, OnRecordPoint(p)
  PROVE  Course /\ SidesRuled
<1> DEFINE r == Scored(p)
<1>1. match.status = "LIVE" /\ rules' = rules /\ match' = AddToHistory(r, match.currentSet)
  BY DEF OnRecordPoint
<1>2. CASE rules = "padel"
  <2>1. r = PadelRecordScore(match, p)
    BY <1>2 DEF Scored
  <2> HIDE DEF r
  <2>2. Ruled(match, r) /\ SidesFollow(match, r)
    BY <2>1, RecordScoreRuled DEF Playable
  <2>3. Playable(match') /\ Logged(r, match')
    BY <1>1, <2>2, HistoryAdded DEF Ruled
  <2>4. ResultKept(match, match') \/ \E q \in Players : SetWon(match, match', q)
    BY <2>2, <2>3 DEF Ruled, Onward, Logged, ResultKept, SetWon
  <2>5. SidesFollow(match, match')
    BY <2>2, <2>3 DEF Logged, ResultKept, SidesFollow, GameEnds
  <2> QED BY <1>1, <1>2, <2>3, <2>4, <2>5 DEF Course, SidesRuled
<1>3. CASE rules = "tableTennis"
  <2>1. r = LooseRecordScore(match, p)
    BY <1>3 DEF Scored
  <2> HIDE DEF r
  <2>2. Corrected(match, r)
    BY <2>1, LooseRecordCorrects DEF Playable
  <2>3. Playable(match') /\ Logged(r, match')
    BY <1>1, <2>2, HistoryAdded DEF Corrected
  <2>4. ResultKept(match, match')
    BY <2>2, <2>3 DEF Corrected, Logged, ResultKept
  <2> QED BY <1>1, <1>3, <2>3, <2>4 DEF Course, SidesRuled
<1> QED BY <1>2, <1>3 DEF SportRules

LEMMA PointCorrected ==
  ASSUME Playable(match), rules \in SportRules, NEW p \in Players, OnSubtractPoint(p)
  PROVE  Course /\ SidesRuled
<1> DEFINE r == IF rules = "padel" THEN PadelSubtractScore(match, p) ELSE SubtractScore(match, p)
<1>1. rules' = rules /\ match' = AddToHistory(r, match.currentSet)
  BY DEF OnSubtractPoint
<1>2. Corrected(match, r)
  BY PadelSubtractCorrects, LooseSubtractCorrects DEF Playable, OnSubtractPoint, SportRules
<1>3. rules = "padel" => r.swappedSides = match.swappedSides /\ ~GameEnds(match, r)
  BY PadelSubtractCorrects DEF Playable
<1> HIDE DEF r
<1>4. Playable(match') /\ Logged(r, match')
  BY <1>1, <1>2, HistoryAdded DEF Corrected
<1>5. ResultKept(match, match')
  BY <1>2, <1>4 DEF Corrected, Logged, ResultKept
<1>6. rules = "padel" => SidesFollow(match, match')
  <2>1. Len(match.setHistory) \in Nat
    BY DEF Playable, PadelState
  <2> QED BY <1>3, <1>4, <1>5, <2>1 DEF Logged, ResultKept, SidesFollow, GameEnds
<1> QED BY <1>1, <1>4, <1>5, <1>6 DEF Course, SidesRuled, SportRules

(* Everything else lets the result stand.                                     *)
LEMMA OtherSteps ==
  ASSUME Playable(match), rules \in SportRules
  PROVE  /\ OnUndoLast => Course /\ SidesRuled
         /\ \A p \in Players : OnSetServer(p) => Course /\ SidesRuled
         /\ OnSwapSides => Course
         /\ Restart => Course
         /\ UNCHANGED vars => Course
<1>1. /\ match \in PadelState /\ OneCount(match) /\ Len(match.setHistory) \in Nat
      /\ match.currentSet \in Games /\ match.serving \in Players
      /\ match.swappedSides \in BOOLEAN /\ match.midSetSwapped \in BOOLEAN
  BY DEF Playable, PadelState
<1>2. ASSUME OnUndoLast PROVE Course /\ SidesRuled
  <2>1. /\ Playable(match') /\ ResultKept(match, match') /\ rules' = rules
        /\ rules # "tableTennis" =>
             match'.padelPoints = match.padelPoints /\ match'.swappedSides = match.swappedSides
    BY <1>2, ActionUndone DEF OnUndoLast
  <2>2. rules # "tableTennis" => ~GameEnds(match, match')
    BY <2>1 DEF GameEnds, Nil, Forty
  <2> QED BY <1>1, <2>1, <2>2 DEF Course, SidesRuled, SidesFollow, ResultKept
<1>3. ASSUME NEW p \in Players, OnSetServer(p) PROVE Course /\ SidesRuled
  <2>1. match' = [match EXCEPT !.serving = p] /\ rules' = rules
    BY <1>3 DEF OnSetServer, SetServer
  <2>2. /\ match' \in PadelState /\ match'.history = match.history /\ Logged(match, match')
    BY <1>1, <2>1 DEF PadelState, Logged, ResultKept
  <2>3. Playable(match')
    BY <1>1, <2>2 DEF Playable, Logged, OneCount
  <2>4. ~GameEnds(match, match')
    BY <2>2 DEF Logged, GameEnds, Nil, Forty
  <2> QED BY <1>1, <2>1, <2>2, <2>3, <2>4 DEF Logged, Course, SidesRuled, SidesFollow, ResultKept
<1>4. ASSUME OnSwapSides PROVE Course
  <2> DEFINE sides == ~match.swappedSides
             middle == match.midSetSwapped
             r == [match EXCEPT !.swappedSides = sides, !.midSetSwapped = middle]
  <2>1. sides \in BOOLEAN /\ middle \in BOOLEAN
    BY <1>1
  <2>2. match' = r /\ rules' = rules
    BY <1>1, <1>4 DEF OnSwapSides, SwapSides, PadelState
  <2> HIDE DEF sides, middle
  <2>3. Corrected(match, match')
    BY <1>1, <2>1, <2>2, SidesCorrected
  <2> QED BY <2>2, <2>3 DEF Corrected, Course, Playable
<1>5. ASSUME Restart PROVE Course
  BY <1>5, Restarted DEF Restart, Course
<1>6. ASSUME UNCHANGED vars PROVE Course
  BY <1>6 DEF vars, Course, ResultKept, Playable
<1> QED BY <1>2, <1>3, <1>4, <1>5, <1>6

LEMMA StepCourse ==
  ASSUME Playable(match), rules \in SportRules, [Next]_vars
  PROVE  Course
BY NewEngines, PointPlayed, PointCorrected, OtherSteps DEF Next

(* Whatever its course, a step keeps the record.                              *)
LEMMA CourseKeeps ==
  ASSUME TypeOK, AllComplete(match), RecordKept, Course
  PROVE  /\ Playable(match') /\ rules' \in SportRules
         /\ AllComplete(match') /\ Counted(match', rules')
<1>1. CASE NewMatch(match') /\ rules' = "padel"
  <2>1. Playable(match')
    BY <1>1 DEF NewMatch
  <2> QED BY <1>1, <2>1, NewIsCounted DEF SportRules
<1>2. CASE /\ Playable(match') /\ rules' = "tableTennis" /\ match'.config = match.config
           /\ match'.setHistory = match.setHistory
           /\ match'.status = match.status /\ match'.winner = match.winner
  BY <1>2 DEF RecordKept, Counted, AllComplete, SportRules
<1>3. CASE Playable(match') /\ rules' = rules /\ ResultKept(match, match')
  BY <1>3 DEF RecordKept, Counted, AllComplete, ResultKept, TypeOK
<1>4. CASE /\ Playable(match') /\ rules = "padel" /\ rules' = "padel" /\ match.status = "LIVE"
           /\ \E q \in Players : SetWon(match, match', q)
  BY <1>4, SetCounted DEF RecordKept, TypeOK, Playable, SportRules
<1> QED BY <1>1, <1>2, <1>3, <1>4 DEF Course

------------------------------------------------------------------------------
(* The theorems.                                                              *)

LEMMA InitIInv == Init => IInv
<1> SUFFICES ASSUME Init PROVE IInv
  OBVIOUS
<1>1. PICK c \in PadelConfigs : match = PadelInitialState(c) /\ rules = "padel"
  BY DEF Init
<1>2. NewMatch(match)
  BY <1>1, InitialIsNew, PadelConfigsAssumption
<1> QED BY <1>1, <1>2, NewIsCounted, Names
     DEF NewMatch, Playable, IInv, TypeOK, RecordKept, SportRules

LEMMA NextIInv == IInv /\ [Next]_vars => IInv'
<1> SUFFICES ASSUME IInv, [Next]_vars PROVE IInv'
  OBVIOUS
<1>1. Playable(match) /\ rules \in SportRules /\ AllComplete(match) /\ RecordKept /\ TypeOK
  BY Names DEF IInv, TypeOK, Playable
<1>2. Course
  BY <1>1, StepCourse
<1>3. /\ Playable(match') /\ rules' \in SportRules
      /\ AllComplete(match') /\ Counted(match', rules')
  BY <1>1, <1>2, CourseKeeps
<1>4. SetsAreComplete' <=> AllComplete(match')
  BY DEF SetsAreComplete, AllComplete, Complete
<1> QED BY <1>3, <1>4 DEF IInv, TypeOK, Playable, RecordKept

LEMMA InductiveInvariant == Spec => []IInv
BY InitIInv, NextIInv, PTL DEF Spec

(* padel.rules.ts and the engine around it keep their type for all settings:  *)
(* points between 0 and AD, games and sets that no correction, undo or        *)
(* restart makes negative, an undo history within MAX_HISTORY_LENGTH.         *)
THEOREM PadelTypeCorrect == Spec => []TypeOK
BY InductiveInvariant, PTL DEF IInv

(* checkSetWin and processTiebreakPoint put no set on record that is not      *)
(* complete, whatever undoLast does to the games it is judged by.             *)
THEOREM CompleteSetsCorrect == Spec => []SetsAreComplete
BY InductiveInvariant, PTL DEF IInv

(* undoLast, setHistory and checkMatchWin: while padel is played the sets of  *)
(* each player are exactly those on record that he leads in, a match is over  *)
(* when it has a winner, and it goes on while nobody has the sets needed;     *)
(* after a restart, which empties that count, the record still stands.        *)
THEOREM PadelRecordCorrect == Spec => []RecordKept
BY InductiveInvariant, PTL DEF IInv

(* Each half of a padel board is about the player named on it.                *)
LEMMA BoardHalves ==
  ASSUME NEW m, m.swappedSides \in BOOLEAN, NEW side \in Sides
  PROVE  LET board == PadelBoard(m, side)
             p == board.scores
         IN  /\ board.shown.name = p
             /\ board.games = m.currentSet[p]
             /\ board.points = m.padelPoints[p]
<1> DEFINE p == HandleScorePoint(m, TapOf(side))
<1>1. /\ p = IF side = "left" THEN LeftPlayer(m) ELSE RightPlayer(m)
      /\ GetState(m).games = m.currentSet
      /\ \A points : ApplySwapToDisplay(m, points, side) = points[p]
  BY DEF Sides, HandleScorePoint, TapOf, GetState, ApplySwapToDisplay, Raw, Opposite,
         LeftPlayer, RightPlayer
<1> HIDE DEF p
<1>2. SwappedDisplay(m, side).name = p
  BY <1>1 DEF SwappedDisplay
<1> QED BY <1>1, <1>2 DEF PadelBoard, ShownPoints, p

(* A game and a tiebreak are never counted together, and the board of         *)
(* PadelPointDisplay is about the players named on it, in every match.        *)
THEOREM OneCountCorrect == Spec => []OneCountAtATime
<1>1. IInv => OneCountAtATime
  <2> SUFFICES ASSUME IInv PROVE OneCountAtATime
    OBVIOUS
  <2>1. OneCount(match) /\ match.swappedSides \in BOOLEAN
    BY DEF IInv, TypeOK, PadelState
  <2>2. \A side \in Sides : HandleScorePoint(match, TapOf(side)) \in Players
    BY DEF HandleScorePoint, LeftPlayer, RightPlayer, Players
  <2>3. \A side \in Sides :
          LET board == PadelBoard(match, side)
              p == board.scores
          IN  /\ board.shown.name = p
              /\ board.games = match.currentSet[p]
              /\ board.points = IF match.isTiebreak THEN 0 ELSE match.padelPoints[p]
    <3> SUFFICES ASSUME NEW side \in Sides
                 PROVE  LET p == PadelBoard(match, side).scores
                        IN  /\ PadelBoard(match, side).shown.name = p
                            /\ PadelBoard(match, side).games = match.currentSet[p]
                            /\ PadelBoard(match, side).points
                                 = IF match.isTiebreak THEN 0 ELSE match.padelPoints[p]
      OBVIOUS
    <3>1. PadelBoard(match, side).scores \in Players
      BY <2>2 DEF PadelBoard
    <3>2. match.isTiebreak => match.padelPoints[PadelBoard(match, side).scores] = 0
      BY <2>1, <3>1 DEF OneCount, Nil
    <3> QED BY <2>1, <3>2, BoardHalves
  <2> QED BY <2>1, <2>3 DEF OneCountAtATime, OneCount
<1> QED BY <1>1, InductiveInvariant, PTL

(* In padel the sides change by hand, or with a point that ends an odd game   *)
(* or a set but not both, for all settings, through undos and corrections;    *)
(* of every sixth point of a tiebreak, where the rules of padel.rules.ts:17   *)
(* have a change and the code none, nothing is said.                          *)
THEOREM PadelSidesCorrect == Spec => SidesFollowTheGames
<1> DEFINE total == match.tiebreakPoints["A"] + match.tiebreakPoints["B"]
           sixth == match'.isTiebreak /\ total' > total /\ total' % 6 = 0
<1>1. ASSUME IInv, Next PROVE SidesRuled
  <2>1. Playable(match) /\ rules \in SportRules
    BY <1>1 DEF IInv, TypeOK, Playable
  <2> QED BY <1>1, <2>1, PointPlayed, PointCorrected, OtherSteps DEF Next, SidesRuled
<1>2. IInv /\ [Next]_vars => [SidesRuled \/ sixth]_vars
  BY <1>1
<1>3. [SidesRuled \/ sixth]_vars =>
        [\/ ConfigureMatch \/ StartMatch \/ OnSwapSides \/ Restart \/ rules = "tableTennis"
         \/ sixth
         \/ LET setEnds == Len(match'.setHistory) > Len(match.setHistory)
                gameEnds == /\ ~match.isTiebreak
                            /\ \E p \in Players : match.padelPoints[p] >= Forty
                            /\ match'.padelPoints = Nil
                before == match.currentSet["A"] + match.currentSet["B"]
            IN  match.swappedSides # match'.swappedSides
                  <=> (gameEnds /\ before % 2 = 0) # setEnds]_vars
  BY DEF SidesRuled, SidesFollow, GameEnds
<1> QED BY <1>2, <1>3, InductiveInvariant, PTL DEF Spec, SidesFollowTheGames

(* Until the hub is restarted a padel match is a best-of-n match: every step  *)
(* begins a match, awards one set of an open one, or leaves sets and winner   *)
(* alone, for all settings.                                                   *)
THEOREM PadelEngineImplementsBestOf == Spec => PadelImplementsBestOf
<1>1. Init => PadelBestOfN!Init
  <2> SUFFICES ASSUME NEW c \in PadelConfigs, match = PadelInitialState(c)
               PROVE  PadelBestOfN!Init
    BY DEF Init
  <2>1. NewMatch(match)
    BY InitialIsNew, PadelConfigsAssumption
  <2>2. SetsNeeded(match.config) \in Nat \ {0}
    BY <2>1, NeededType DEF NewMatch, Playable, PadelState
  <2> QED BY <2>1, <2>2 DEF NewMatch, Nil, PadelBestOfN!Init
<1>2. IInv /\ [Next]_vars => [rules' = "tableTennis" \/ PadelBestOfN!Next]_(PadelBestOfN!vars)
  <2> SUFFICES ASSUME IInv, [Next]_vars, rules' # "tableTennis"
               PROVE  [PadelBestOfN!Next]_(PadelBestOfN!vars)
    OBVIOUS
  <2>1. Playable(match) /\ rules \in SportRules /\ AllComplete(match) /\ RecordKept /\ TypeOK
    BY Names DEF IInv, TypeOK, Playable
  <2>2. Course
    BY <2>1, StepCourse
  <2>3. CASE NewMatch(match')
    <3>1. SetsNeeded(match'.config) \in Nat \ {0}
      BY <2>3, NeededType DEF NewMatch, Playable, PadelState
    <3> QED BY <2>3, <3>1 DEF NewMatch, Nil, PadelBestOfN!Next, PadelBestOfN!Begin, PadelBestOfN!Init
  <2>4. CASE ResultKept(match, match')
    BY <2>4 DEF ResultKept, PadelBestOfN!vars
  <2>5. CASE /\ Playable(match') /\ rules = "padel" /\ rules' = "padel"
             /\ match.status = "LIVE" /\ \E q \in Players : SetWon(match, match', q)
    <3>1. PICK q \in Players : SetWon(match, match', q)
      BY <2>5
    <3>2. /\ match'.config = match.config
          /\ match'.winner = IF match.sets[q] + 1 = SetsNeeded(match.config) THEN q ELSE NoWinner
      <4>1. /\ Counted(match, "padel") /\ match \in PadelState /\ match' \in PadelState
            /\ AllComplete(match) /\ match.status = "LIVE"
        BY <2>1, <2>5 DEF RecordKept, Playable
      <4>2. match'.config = match.config
        BY <3>1 DEF SetWon
      <4> QED BY <3>1, <4>1, <4>2, SetCounted
    <3>3. match.winner = NoWinner
      BY <2>1, <2>5 DEF RecordKept, Counted
    <3>4. match'.sets = [match.sets EXCEPT ![q] = @ + 1]
      BY <3>1 DEF SetWon
    <3>5. PadelBestOfN!WinSet(q)
      BY <3>2, <3>3, <3>4 DEF PadelBestOfN!WinSet
    <3> QED BY <3>5 DEF PadelBestOfN!Next
  <2> QED BY <2>2, <2>3, <2>4, <2>5 DEF Course
<1> QED BY <1>1, <1>2, InductiveInvariant, PTL DEF Spec, PadelImplementsBestOf
==============================================================================
