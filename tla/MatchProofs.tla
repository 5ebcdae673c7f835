----------------------------- MODULE MatchProofs ------------------------------
(***************************************************************************)
(* The match engine is correct for every set of match settings, every      *)
(* length of the undo history and every bound on the scores: it keeps its  *)
(* type, a winner has the sets, the record of the sets proves it, the undo *)
(* history leads to the score shown, every behaviour is one of a best-of-n *)
(* match, and what the page and the boards make of the engine's state      *)
(* agrees with it.                                                         *)
(*                                                                         *)
(* The lemmas follow a point through the rules.  Serving and the swap at   *)
(* the middle of a set change neither score nor result (Presented), so     *)
(* what a point does to the result is what the award of a set does.        *)
(*                                                                         *)
(* The last part is about the button that scores points in a match: until  *)
(* a bridge is let go of while it is searching or opening the link, the    *)
(* page's own bridge and no other, however many there are, hears a press.  *)
(***************************************************************************)
EXTENDS MatchEngine, RallyTap, FiniteSetTheorems, TLAPS

(* Two states differ at most in who serves and who stands where.              *)
Presented(m, r) ==
  /\ r.config = m.config /\ r.sets = m.sets /\ r.currentSet = m.currentSet
  /\ r.setHistory = m.setHistory /\ r.status = m.status /\ r.winner = m.winner
  /\ r.history = m.history

(* Nothing but the score of the current set and who serves has changed.       *)
ResultKept(m, r) ==
  /\ r.config = m.config /\ r.sets = m.sets /\ r.setHistory = m.setHistory
  /\ r.status = m.status /\ r.winner = m.winner

(* One set of m was awarded, and with it perhaps the match: AwardSet.         *)
SetWon(m, r, p) ==
  /\ r.config = m.config
  /\ r.sets = [m.sets EXCEPT ![p] = @ + 1]
  /\ \E s \in Score : /\ s[p] > s[Other(p)] /\ SetComplete(m.config, s)
                       /\ r.setHistory = Append(m.setHistory, s)
  /\ IF m.sets[p] + 1 >= SetsNeeded(m.config)
     THEN r.status = "FINISHED" /\ r.winner = p
     ELSE r.status = m.status /\ r.winner = m.winner

(* SetsNeeded: bestOf is positive, so at least one set is needed.             *)
LEMMA NeededType == \A c \in Config : SetsNeeded(c) \in Nat \ {0}
<1> SUFFICES ASSUME NEW c \in Config PROVE SetsNeeded(c) \in Nat \ {0}
  OBVIOUS
<1>1. c.bestOf \in Nat \ {0}
  BY DEF Config
<1> QED BY <1>1 DEF SetsNeeded

(* Leader and Other name a player.                                            *)
LEMMA PlayersType ==
  /\ \A s : Leader(s) \in Players
  /\ \A p \in Players : Other(p) \in Players
BY DEF Leader, Other, Players

(* Another score of the current set.                                          *)
LEMMA ScoreReplaced ==
  \A m \in Match, s \in Score :
    LET r == [m EXCEPT !.currentSet = s]
    IN  r \in Match /\ ResultKept(m, r) /\ r.history = m.history /\ r.currentSet = s
BY DEF Match, ResultKept

(* updateServing and checkSideSwap: the type is kept, score and result too.   *)
LEMMA ServingPresented ==
  \A m \in Match : UpdateServing(m) \in Match /\ Presented(m, UpdateServing(m))
<1> SUFFICES ASSUME NEW m \in Match
             PROVE  UpdateServing(m) \in Match /\ Presented(m, UpdateServing(m))
  OBVIOUS
<1>1. \A p \in Players : [m EXCEPT !.serving = p] \in Match
  BY DEF Match
<1>2. \A p \in Players : Presented(m, [m EXCEPT !.serving = p])
  BY DEF Match, Presented
<1>3. m.serving \in Players /\ Other(m.serving) \in Players
  BY PlayersType DEF Match
<1>4. \E p \in Players : UpdateServing(m) = [m EXCEPT !.serving = p]
  BY ONLY <1>3 DEF UpdateServing
<1> QED BY ONLY <1>1, <1>2, <1>4

LEMMA SidesPresented ==
  \A m \in Match : SwapAtMiddle(m) \in Match /\ Presented(m, SwapAtMiddle(m))
<1> SUFFICES ASSUME NEW m \in Match
             PROVE  SwapAtMiddle(m) \in Match /\ Presented(m, SwapAtMiddle(m))
  OBVIOUS
<1> DEFINE r == [m EXCEPT !.swappedSides = ~@, !.midSetSwapped = TRUE]
<1>1. r \in Match
  BY DEF Match
<1>2. Presented(m, r)
  BY DEF Match, Presented
<1>3. Presented(m, m)
  BY DEF Presented
<1>4. SwapAtMiddle(m) \in {r, m}
  BY DEF SwapAtMiddle
<1> HIDE DEF r
<1> QED BY ONLY <1>1, <1>2, <1>3, <1>4, m \in Match

(* applySetWinCheck: a complete set is awarded to the leader.                 *)
LEMMA AwardType ==
  \A m \in Match :
    SetComplete(m.config, m.currentSet) =>
      /\ AwardSet(m) \in Match
      /\ AwardSet(m).history = m.history
      /\ SetWon(m, AwardSet(m), Leader(m.currentSet))
<1> SUFFICES ASSUME NEW m \in Match, SetComplete(m.config, m.currentSet)
             PROVE  /\ AwardSet(m) \in Match
                    /\ AwardSet(m).history = m.history
                    /\ SetWon(m, AwardSet(m), Leader(m.currentSet))
  OBVIOUS
<1> DEFINE p == Leader(m.currentSet)
           won == [m EXCEPT !.sets[p] = @ + 1, !.setHistory = Append(@, m.currentSet)]
<1>1. p \in Players
  BY PlayersType
<1>2. /\ won \in Match /\ won.history = m.history /\ won.config = m.config
      /\ won.sets = [m.sets EXCEPT ![p] = @ + 1] /\ won.sets[p] = m.sets[p] + 1
      /\ won.status = m.status /\ won.winner = m.winner
      /\ won.setHistory = Append(m.setHistory, m.currentSet)
  <2> DEFINE sets == [m.sets EXCEPT ![p] = @ + 1]
             hist == Append(m.setHistory, m.currentSet)
             first == [m EXCEPT !.sets = sets]
  <2>1. m.sets \in [Players -> Nat] /\ m.currentSet \in Score /\ m.setHistory \in Seq(Score)
    BY DEF Match
  <2>2. sets \in [Players -> Nat] /\ sets[p] = m.sets[p] + 1
    BY <2>1, <1>1
  <2>3. hist \in Seq(Score)
    BY <2>1
  <2>4. won = [first EXCEPT !.setHistory = hist]
    BY DEF Match
  <2> HIDE DEF p, won, sets, hist
  <2>5. /\ first \in Match /\ first.history = m.history /\ first.config = m.config
        /\ first.sets = sets /\ first.status = m.status /\ first.winner = m.winner
    BY <2>2 DEF Match
  <2> HIDE DEF first
  <2>6. [first EXCEPT !.setHistory = hist] \in Match
    BY <2>3, <2>5 DEF Match
  <2>7. LET r == [first EXCEPT !.setHistory = hist]
        IN  /\ r.history = first.history /\ r.config = first.config /\ r.sets = first.sets
            /\ r.status = first.status /\ r.winner = first.winner /\ r.setHistory = hist
    BY <2>5 DEF Match
  <2> QED BY ONLY <2>2, <2>4, <2>5, <2>6, <2>7 DEF sets, hist
<1>3. m.config.handicap \in Score
  BY DEF Match, Config
<1>6. m.currentSet \in Score /\ m.currentSet[p] > m.currentSet[Other(p)]
  <2>1. m.currentSet \in [Players -> Int] /\ m.config.minDifference \in Nat \ {0}
    BY DEF Match, Config, Score
  <2>2. m.currentSet[p] \in Int /\ m.currentSet[Other(p)] \in Int
    BY <1>1, <2>1, PlayersType
  <2>3. m.currentSet[p] - m.currentSet[Other(p)] >= m.config.minDifference
    BY DEF SetComplete
  <2> QED BY <2>1, <2>2, <2>3 DEF Score
<1> HIDE DEF p, won
<1>4. CASE won.sets[p] >= SetsNeeded(m.config)
  <2>1. AwardSet(m) = [won EXCEPT !.status = "FINISHED", !.winner = p]
    BY <1>4 DEF AwardSet, p, won
  <2>2. AwardSet(m) \in Match
    BY <2>1, <1>1, <1>2 DEF Match
  <2>3. /\ AwardSet(m).history = won.history /\ AwardSet(m).config = won.config
        /\ AwardSet(m).sets = won.sets /\ AwardSet(m).setHistory = won.setHistory
        /\ AwardSet(m).status = "FINISHED" /\ AwardSet(m).winner = p
    BY <2>1, <1>2 DEF Match
  <2>4. SetWon(m, AwardSet(m), p)
    BY <2>3, <1>2, <1>4, <1>6, SetComplete(m.config, m.currentSet) DEF SetWon
  <2> QED BY <2>2, <2>3, <2>4, <1>2 DEF p
<1>5. CASE ~(won.sets[p] >= SetsNeeded(m.config))
  <2>1. AwardSet(m) = [won EXCEPT !.currentSet = m.config.handicap,
                                  !.swappedSides = ~@, !.midSetSwapped = FALSE]
    BY <1>5 DEF AwardSet, p, won
  <2>2. AwardSet(m) \in Match
    BY <2>1, <1>2, <1>3 DEF Match
  <2>3. /\ AwardSet(m).history = won.history /\ AwardSet(m).config = won.config
        /\ AwardSet(m).sets = won.sets /\ AwardSet(m).setHistory = won.setHistory
        /\ AwardSet(m).status = won.status /\ AwardSet(m).winner = won.winner
    BY <2>1, <1>2 DEF Match
  <2>4. SetWon(m, AwardSet(m), p)
    BY <2>3, <1>2, <1>5, <1>6, SetComplete(m.config, m.currentSet) DEF SetWon
  <2> QED BY <2>2, <2>3, <2>4, <1>2 DEF p
<1> QED BY <1>4, <1>5

(* recordScore: a point keeps the result or awards one set.                   *)
LEMMA PointResult ==
  \A m \in Match, p \in Players :
    /\ RecordScore(m, p) \in Match
    /\ RecordScore(m, p).history = m.history
    /\ \/ ResultKept(m, RecordScore(m, p))
       \/ \E q \in Players : SetWon(m, RecordScore(m, p), q)
<1> SUFFICES ASSUME NEW m \in Match, NEW p \in Players
             PROVE  /\ RecordScore(m, p) \in Match
                    /\ RecordScore(m, p).history = m.history
                    /\ \/ ResultKept(m, RecordScore(m, p))
                       \/ \E q \in Players : SetWon(m, RecordScore(m, p), q)
  OBVIOUS
<1> DEFINE one == [m EXCEPT !.currentSet[p] = @ + 1]
           two == ApplySetWinCheck(one)
           three == SwapAtMiddle(two)
<1>1. one \in Match /\ ResultKept(m, one) /\ one.history = m.history
  <2>1. m.currentSet \in [Players -> Int]
    BY DEF Match, Score
  <2>2. [m.currentSet EXCEPT ![p] = @ + 1] \in Score
    BY <2>1 DEF Score
  <2> QED BY <2>2, ScoreReplaced
<1> HIDE DEF one
<1>2. /\ two \in Match /\ two.history = m.history
      /\ ResultKept(m, two) \/ \E q \in Players : SetWon(m, two, q)
  <2>1. CASE SetComplete(one.config, one.currentSet)
    <3>1. two = AwardSet(one)
      BY <2>1 DEF ApplySetWinCheck
    <3>2. /\ two \in Match /\ two.history = one.history
          /\ SetWon(one, two, Leader(one.currentSet))
      BY <2>1, <3>1, <1>1, AwardType
    <3>3. SetWon(m, two, Leader(one.currentSet))
      BY <3>2, <1>1 DEF SetWon, ResultKept
    <3> QED BY <3>2, <3>3, <1>1, PlayersType
  <2>2. CASE ~SetComplete(one.config, one.currentSet)
    BY <2>2, <1>1 DEF ApplySetWinCheck
  <2> QED BY <2>1, <2>2
<1> HIDE DEF two
<1>3. three \in Match /\ Presented(two, three)
  BY <1>2, SidesPresented
<1> HIDE DEF three
<1>4. RecordScore(m, p) = UpdateServing(three)
  BY DEF RecordScore, one, two, three
<1>5. UpdateServing(three) \in Match /\ Presented(three, UpdateServing(three))
  BY <1>3, ServingPresented
<1> QED BY <1>2, <1>3, <1>4, <1>5 DEF Presented, ResultKept, SetWon

(* subtractScore changes nothing but the score and the server.                *)
LEMMA CorrectionResult ==
  \A m \in Match, p \in Players :
    /\ SubtractScore(m, p) \in Match
    /\ SubtractScore(m, p).history = m.history
    /\ ResultKept(m, SubtractScore(m, p))
<1> SUFFICES ASSUME NEW m \in Match, NEW p \in Players
             PROVE  /\ SubtractScore(m, p) \in Match
                    /\ SubtractScore(m, p).history = m.history
                    /\ ResultKept(m, SubtractScore(m, p))
  OBVIOUS
<1> DEFINE one == [m EXCEPT !.currentSet[p] = @ - 1]
<1>1. one \in Match /\ ResultKept(m, one) /\ one.history = m.history
  <2>1. m.currentSet \in [Players -> Int]
    BY DEF Match, Score
  <2>2. [m.currentSet EXCEPT ![p] = @ - 1] \in Score
    BY <2>1 DEF Score
  <2> QED BY <2>2, ScoreReplaced
<1> HIDE DEF one
<1>2. SubtractScore(m, p) = UpdateServing(one)
  BY DEF SubtractScore, one
<1> QED BY <1>1, <1>2, ServingPresented DEF Presented, ResultKept

------------------------------------------------------------------------------
(* The undo history.                                                          *)

Entry == [pointsBefore : Score, pointsAfter : Score]

(* HistoryLeadsHere, of any state.                                            *)
Leads(m) ==
  /\ \A i \in 1 .. Len(m.history) - 1 :
       m.history[i].pointsAfter = m.history[i + 1].pointsBefore
  /\ m.history # <<>> => m.history[Len(m.history)].pointsAfter = m.currentSet

(* A state with a history of at most MaxHistory actions.                      *)
Capped(m) == m \in Match /\ Len(m.history) <= MaxHistory

(* addToHistory: r is m after an action that left the history alone; the      *)
(* entry goes from m's score to r's, and dropping the oldest breaks no link.  *)
LEMMA HistoryAdded ==
  ASSUME NEW m, NEW r, Capped(m), r \in Match, r.history = m.history
  PROVE  LET a == AddToHistory(r, m.currentSet)
         IN  /\ Capped(a) /\ ResultKept(r, a)
             /\ Leads(m) => Leads(a)
<1> DEFINE e == [pointsBefore |-> m.currentSet, pointsAfter |-> r.currentSet]
           h == Append(m.history, e)
           k == IF Len(h) > MaxHistory THEN Tail(h) ELSE h
           a == AddToHistory(r, m.currentSet)
<1>1. e \in Entry /\ m.history \in Seq(Entry)
  BY DEF Capped, Match, Entry
<1>2. h \in Seq(Entry) /\ Len(h) = Len(m.history) + 1 /\ h # <<>> /\ h[Len(h)] = e
  BY <1>1
<1>3. k \in Seq(Entry) /\ Len(k) <= MaxHistory /\ k # <<>> /\ k[Len(k)] = e
  BY <1>2, MaxHistoryAssumption DEF Capped
<1>4. a = [r EXCEPT !.history = k]
  BY DEF AddToHistory
<1> HIDE DEF k, a
<1>5. /\ a \in Match /\ a.history = k /\ a.currentSet = r.currentSet /\ ResultKept(r, a)
  BY <1>3, <1>4 DEF Match, Entry, ResultKept
<1>6. ASSUME Leads(m) PROVE Leads(a)
  <2>1. \A i \in 1 .. Len(h) - 1 : h[i].pointsAfter = h[i + 1].pointsBefore
    <3> SUFFICES ASSUME NEW i \in 1 .. Len(h) - 1
                 PROVE  h[i].pointsAfter = h[i + 1].pointsBefore
      OBVIOUS
    <3>1. i \in 1 .. Len(m.history) /\ h[i] = m.history[i]
      BY <1>1, <1>2
    <3>2. CASE i = Len(m.history)
      <4>1. h[i + 1] = e /\ m.history # <<>>
        BY <1>1, <1>2, <3>1, <3>2
      <4> QED BY <4>1, <3>1, <3>2, <1>6 DEF Leads
    <3>3. CASE i # Len(m.history)
      <4>1. i \in 1 .. Len(m.history) - 1 /\ h[i + 1] = m.history[i + 1]
        BY <1>1, <3>1, <3>3
      <4> QED BY <4>1, <3>1, <1>6 DEF Leads
    <3> QED BY <3>2, <3>3
  <2> HIDE DEF h
  <2>2. \A i \in 1 .. Len(k) - 1 : k[i].pointsAfter = k[i + 1].pointsBefore
    <3>1. CASE k = h
      BY <3>1, <2>1
    <3>2. CASE k = Tail(h)
      <4>1. /\ Len(k) = Len(h) - 1
            /\ \A i \in 1 .. Len(k) : k[i] = h[i + 1]
        BY <3>2, <1>2
      <4> SUFFICES ASSUME NEW i \in 1 .. Len(k) - 1
                   PROVE  k[i].pointsAfter = k[i + 1].pointsBefore
        OBVIOUS
      <4>2. i + 1 \in 1 .. Len(h) - 1 /\ i \in 1 .. Len(k) /\ i + 1 \in 1 .. Len(k)
        BY <4>1, <1>2, <1>3
      <4> QED BY <4>1, <4>2, <2>1
    <3> QED BY <3>1, <3>2 DEF k
  <2> QED BY <2>2, <1>3, <1>5 DEF Leads
<1>7. Capped(a)
  BY <1>3, <1>5 DEF Capped
<1> QED BY <1>5, <1>6, <1>7 DEF a

(* recordPoint, subtractPoint: what they do to the result, and that they      *)
(* extend the history.                                                        *)
LEMMA PointRecorded ==
  ASSUME NEW m, Capped(m), NEW p \in Players
  PROVE  LET r == RecordPoint(m, p)
         IN  /\ Capped(r)
             /\ Leads(m) => Leads(r)
             /\ \/ ResultKept(m, r)
                \/ m.status = "LIVE" /\ \E q \in Players : SetWon(m, r, q)
<1> DEFINE s == RecordScore(m, p)
           a == AddToHistory(s, m.currentSet)
<1>1. /\ s \in Match /\ s.history = m.history
      /\ ResultKept(m, s) \/ \E q \in Players : SetWon(m, s, q)
  BY PointResult DEF Capped
<1> HIDE DEF s
<1>2. Capped(a) /\ ResultKept(s, a) /\ (Leads(m) => Leads(a))
  BY <1>1, HistoryAdded
<1>3. RecordPoint(m, p) = IF m.status = "LIVE" THEN a ELSE m
  BY DEF RecordPoint, s
<1> HIDE DEF a
<1>4. CASE m.status = "LIVE"
  BY <1>1, <1>2, <1>3, <1>4 DEF ResultKept, SetWon
<1>5. CASE m.status # "LIVE"
  BY <1>3, <1>5 DEF ResultKept
<1> QED BY <1>4, <1>5

LEMMA PointSubtracted ==
  ASSUME NEW m, Capped(m), NEW p \in Players
  PROVE  LET r == SubtractPoint(m, p)
         IN  Capped(r) /\ (Leads(m) => Leads(r)) /\ ResultKept(m, r)
<1> DEFINE s == SubtractScore(m, p)
           a == AddToHistory(s, m.currentSet)
<1>1. s \in Match /\ s.history = m.history /\ ResultKept(m, s)
  BY CorrectionResult DEF Capped
<1> HIDE DEF s
<1>2. Capped(a) /\ ResultKept(s, a) /\ (Leads(m) => Leads(a))
  BY <1>1, HistoryAdded
<1>3. SubtractPoint(m, p) = IF m.status = "LIVE" THEN a ELSE m
  BY DEF SubtractPoint, s
<1> HIDE DEF a
<1> QED BY <1>1, <1>2, <1>3 DEF ResultKept

(* undoLast: the score before the last entry is the score after the one       *)
(* before it, so the shorter history leads to it.                             *)
LEMMA ActionUndone ==
  ASSUME NEW m, Capped(m), m.history # <<>>
  PROVE  LET r == UndoLast(m)
         IN  Capped(r) /\ (Leads(m) => Leads(r)) /\ ResultKept(m, r)
<1> DEFINE n == Len(m.history)
           h == SubSeq(m.history, 1, n - 1)
           s == m.history[n].pointsBefore
           back == [m EXCEPT !.currentSet = s, !.history = h]
<1>1. m.history \in Seq(Entry) /\ n \in Nat \ {0} /\ m.history[n] \in Entry
  <2>1. m.history \in Seq(Entry) /\ m.history # <<>>
    BY DEF Capped, Match, Entry
  <2> HIDE DEF Entry
  <2> QED BY <2>1
<1>2. /\ h \in Seq(Entry) /\ Len(h) = n - 1
      /\ \A i \in 1 .. n - 1 : h[i] = m.history[i]
  BY <1>1
<1>3. s \in Score
  BY <1>1 DEF Entry
<1> HIDE DEF n, h, s
<1>4. /\ back \in Match /\ back.history = h /\ back.currentSet = s
      /\ ResultKept(m, back)
  BY <1>2, <1>3 DEF Capped, Match, Entry, ResultKept
<1>5. UndoLast(m) = UpdateServing(back)
  BY DEF UndoLast, h, s, n
<1> HIDE DEF back
<1>6. UndoLast(m) \in Match /\ Presented(back, UndoLast(m))
  BY <1>4, <1>5, ServingPresented
<1>7. Capped(UndoLast(m))
  BY <1>1, <1>2, <1>4, <1>6, MaxHistoryAssumption DEF Capped, Presented, n
<1>8. ASSUME Leads(m) PROVE Leads(UndoLast(m))
  <2>1. \A i \in 1 .. Len(h) - 1 : h[i].pointsAfter = h[i + 1].pointsBefore
    <3> SUFFICES ASSUME NEW i \in 1 .. Len(h) - 1
                 PROVE  h[i].pointsAfter = h[i + 1].pointsBefore
      OBVIOUS
    <3>1. i \in 1 .. n - 1 /\ i + 1 \in 1 .. n - 1
      BY <1>1, <1>2
    <3>2. m.history[i].pointsAfter = m.history[i + 1].pointsBefore
      BY <3>1, <1>8 DEF Leads, n
    <3> QED BY <1>2, <3>1, <3>2
  <2>2. ASSUME h # <<>> PROVE h[Len(h)].pointsAfter = s
    <3>1. n - 1 \in 1 .. n - 1
      BY <1>1, <1>2, <2>2
    <3>2. m.history[n - 1].pointsAfter = m.history[(n - 1) + 1].pointsBefore
      BY <3>1, <1>8 DEF Leads, n
    <3> QED BY <1>1, <1>2, <3>1, <3>2 DEF s
  <2> QED BY <2>1, <2>2, <1>4, <1>6 DEF Leads, Presented
<1> QED BY <1>4, <1>6, <1>7, <1>8 DEF Presented, ResultKept

------------------------------------------------------------------------------
(* The record of the sets, which the page counts.                             *)

(* The numbers of the sets that p has won.                                    *)
WonBy(h, p) == {i \in DOMAIN h : h[i][p] > h[i][Other(p)]}

LEMMA WonByFinite ==
  ASSUME NEW h \in Seq(Score), NEW p \in Players
  PROVE  IsFiniteSet(WonBy(h, p)) /\ Cardinality(WonBy(h, p)) \in Nat
<1>1. IsFiniteSet(1 .. Len(h)) /\ WonBy(h, p) \subseteq 1 .. Len(h)
  BY FS_Interval DEF WonBy
<1>2. IsFiniteSet(WonBy(h, p))
  BY <1>1, FS_Subset
<1> QED BY <1>2, FS_CardinalityType

(* A set more on record counts for the player who has more points in it.      *)
LEMMA OneMoreSet ==
  ASSUME NEW h \in Seq(Score), NEW s \in Score, NEW q \in Players, s[q] > s[Other(q)],
         NEW p \in Players
  PROVE  Cardinality(WonBy(Append(h, s), p))
           = Cardinality(WonBy(h, p)) + (IF p = q THEN 1 ELSE 0)
<1> DEFINE n == Len(h) + 1
<1>1. /\ DOMAIN Append(h, s) = (DOMAIN h) \cup {n} /\ n \notin DOMAIN h
      /\ Append(h, s)[n] = s /\ \A i \in DOMAIN h : Append(h, s)[i] = h[i]
  OBVIOUS
<1>2. s[p] > s[Other(p)] <=> p = q
  <2>1. s["A"] \in Int /\ s["B"] \in Int
    BY DEF Score, Players
  <2> QED BY <2>1 DEF Players, Other
<1> HIDE DEF n
<1>3. CASE p = q
  <2>1. WonBy(Append(h, s), p) = WonBy(h, p) \cup {n} /\ n \notin WonBy(h, p)
    BY <1>1, <1>2, <1>3 DEF WonBy
  <2> QED BY <1>3, <2>1, WonByFinite, FS_AddElement
<1>4. CASE p # q
  <2>1. WonBy(Append(h, s), p) = WonBy(h, p)
    BY <1>1, <1>2, <1>4 DEF WonBy
  <2> QED BY <1>4, <2>1, WonByFinite
<1> QED BY <1>3, <1>4

(* The record tells how many sets a player has won, in sets that are over.    *)
OnRecord(m) ==
  /\ \A p \in Players : Cardinality(WonBy(m.setHistory, p)) = m.sets[p]
  /\ \A i \in DOMAIN m.setHistory : SetComplete(m.config, m.setHistory[i])

LEMMA RecordAdded ==
  ASSUME NEW m \in Match, NEW r \in Match, NEW q \in Players, SetWon(m, r, q), OnRecord(m)
  PROVE  OnRecord(r)
<1>1. PICK s \in Score : /\ s[q] > s[Other(q)] /\ SetComplete(m.config, s)
                         /\ r.setHistory = Append(m.setHistory, s)
  BY DEF SetWon
<1>2. m.setHistory \in Seq(Score) /\ m.sets \in [Players -> Nat] /\ r.config = m.config
  BY DEF Match, SetWon
<1>3. \A p \in Players : r.sets[p] = m.sets[p] + (IF p = q THEN 1 ELSE 0)
  BY <1>2 DEF SetWon
<1>4. \A p \in Players : Cardinality(WonBy(r.setHistory, p)) = r.sets[p]
  BY <1>1, <1>2, <1>3, OneMoreSet DEF OnRecord
<1>5. \A i \in DOMAIN r.setHistory : SetComplete(r.config, r.setHistory[i])
  <2>1. \A i \in DOMAIN m.setHistory : SetComplete(m.config, m.setHistory[i])
    BY DEF OnRecord
  <2>2. \A i \in DOMAIN r.setHistory :
          \/ r.setHistory[i] = s
          \/ i \in DOMAIN m.setHistory /\ r.setHistory[i] = m.setHistory[i]
    BY <1>1, <1>2
  <2> QED BY <1>1, <1>2, <2>1, <2>2
<1> QED BY <1>4, <1>5 DEF OnRecord

------------------------------------------------------------------------------
(* The steps of the engine.                                                   *)

(* WinnerHasTheSets, of any state.                                            *)
Decided(m) ==
  /\ m.status = "FINISHED" <=> m.winner # NoWinner
  /\ \A p \in Players :
       /\ m.sets[p] <= SetsNeeded(m.config)
       /\ m.winner = p <=> m.sets[p] = SetsNeeded(m.config)

(* The sets on record are the sets won, each of them over by the rules.       *)
SetsOnRecord == OnRecord(match)

(* The inductive invariant.                                                   *)
IInv == TypeOK /\ WinnerHasTheSets /\ HistoryLeadsHere /\ SetsOnRecord

LEMMA Names ==
  /\ TypeOK <=> Capped(match)
  /\ WinnerHasTheSets <=> Decided(match)
  /\ HistoryLeadsHere <=> Leads(match)
BY DEF TypeOK, Capped, WinnerHasTheSets, Decided, HistoryLeadsHere, Leads

(* A new engine is in order: it has no sets, no winner and no history.        *)
NewEngine(m) ==
  /\ m \in Match /\ m.sets = [p \in Players |-> 0] /\ m.history = <<>>
  /\ m.setHistory = <<>>
  /\ m.winner = NoWinner /\ m.status # "FINISHED"

LEMMA InitialIsNew == \A c \in Config : NewEngine(InitialState(c))
<1> SUFFICES ASSUME NEW c \in Config PROVE NewEngine(InitialState(c))
  OBVIOUS
<1>1. [p \in Players |-> IF c.initialScore[p] # 0 THEN c.initialScore[p]
                         ELSE c.handicap[p]] \in Score
  BY DEF Config, Score
<1>2. c.initialServer \in Players
  BY DEF Config
<1> QED BY <1>1, <1>2 DEF InitialState, Match, NewEngine

LEMMA StartedIsNew == \A c \in Config : NewEngine(Started(c))
<1> SUFFICES ASSUME NEW c \in Config PROVE NewEngine(Started(c))
  OBVIOUS
<1> DEFINE d == [c EXCEPT !.initialScore = [p \in Players |-> 0], !.initialServer = "A"]
           i == InitialState(d)
<1>1. d \in Config
  <2>1. [p \in Players |-> 0] \in Score /\ "A" \in Players
    BY DEF Score, Players
  <2> QED BY <2>1 DEF Config
<1> HIDE DEF d
<1>2. NewEngine(i)
  BY <1>1, InitialIsNew
<1>3. Started(c) = [i EXCEPT !.status = "LIVE"]
  BY DEF Started, d
<1> HIDE DEF i
<1> QED BY <1>2, <1>3 DEF NewEngine, Match

(* So a new engine satisfies the invariant.                                   *)
LEMMA FreshMatch ==
  ASSUME NEW m, NewEngine(m)
  PROVE  Capped(m) /\ Decided(m) /\ Leads(m) /\ OnRecord(m)
<1>1. SetsNeeded(m.config) \in Nat \ {0}
  BY NeededType DEF NewEngine, Match
<1>2. Capped(m) /\ Leads(m)
  BY MaxHistoryAssumption DEF NewEngine, Capped, Leads
<1>3. Decided(m)
  BY <1>1, NoWinnerAssumption DEF NewEngine, Decided
<1>4. OnRecord(m)
  <2>1. \A p \in Players : WonBy(m.setHistory, p) = {} /\ m.sets[p] = 0
    BY DEF NewEngine, WonBy
  <2>2. DOMAIN m.setHistory = {}
    BY DEF NewEngine
  <2> QED BY <2>1, <2>2, FS_EmptySet DEF OnRecord
<1> QED BY <1>2, <1>3, <1>4

(* The result of m stands, or one set more decides a match that was open.     *)
Advances(m, r) ==
  \/ ResultKept(m, r)
  \/ m.status = "LIVE" /\ \E q \in Players : SetWon(m, r, q)

(* A match is decided exactly when a set reaches the sets needed.             *)
LEMMA DecidedKept ==
  ASSUME NEW m \in Match, NEW r \in Match, Decided(m), Advances(m, r)
  PROVE  Decided(r)
<1>1. CASE ResultKept(m, r)
  BY <1>1 DEF ResultKept, Decided
<1>2. CASE m.status = "LIVE" /\ \E q \in Players : SetWon(m, r, q)
  <2>1. PICK q \in Players : SetWon(m, r, q)
    BY <1>2
  <2>2. SetsNeeded(m.config) \in Nat \ {0} /\ m.sets \in [Players -> Nat]
    BY NeededType DEF Match
  <2>3. m.winner = NoWinner /\ \A p \in Players : m.sets[p] < SetsNeeded(m.config)
    BY <1>2, <2>2, NoWinnerAssumption DEF Decided
  <2>4. /\ r.config = m.config /\ r.sets[q] = m.sets[q] + 1
        /\ \A p \in Players \ {q} : r.sets[p] = m.sets[p]
    BY <2>1, <2>2 DEF SetWon
  <2>5. CASE m.sets[q] + 1 >= SetsNeeded(m.config)
    <3>1. r.status = "FINISHED" /\ r.winner = q
      BY <2>1, <2>5 DEF SetWon
    <3> QED BY <2>2, <2>3, <2>4, <2>5, <3>1, NoWinnerAssumption DEF Decided
  <2>6. CASE ~(m.sets[q] + 1 >= SetsNeeded(m.config))
    <3>1. r.status = "LIVE" /\ r.winner = NoWinner
      BY <1>2, <2>1, <2>3, <2>6 DEF SetWon
    <3> QED BY <2>2, <2>3, <2>4, <2>6, <3>1, NoWinnerAssumption DEF Decided
  <2> QED BY <2>5, <2>6
<1> QED BY <1>1, <1>2 DEF Advances

Begins == NewEngine(match')

(* Every step begins a match or takes it on as a point, a correction, an undo *)
(* or a change of server or sides may.                                        *)
LEMMA StepResult ==
  ASSUME Capped(match), Next
  PROVE  \/ Begins
         \/ Capped(match)' /\ (Leads(match) => Leads(match)') /\ Advances(match, match')
<1>1. CASE ConfigureMatch \/ StartMatch
  BY <1>1, InitialIsNew, StartedIsNew, ConfigsAssumption
     DEF ConfigureMatch, StartMatch, Begins
<1>2. ASSUME NEW p \in Players, OnRecordPoint(p)
      PROVE  Capped(match)' /\ (Leads(match) => Leads(match)') /\ Advances(match, match')
  <2>1. match' = RecordPoint(match, p)
    BY <1>2 DEF OnRecordPoint
  <2> QED BY <2>1, PointRecorded DEF Advances, Capped, Leads
<1>3. ASSUME NEW p \in Players, OnSubtractPoint(p)
      PROVE  Capped(match)' /\ (Leads(match) => Leads(match)') /\ Advances(match, match')
  <2>1. match' = SubtractPoint(match, p)
    BY <1>3 DEF OnSubtractPoint
  <2> QED BY <2>1, PointSubtracted DEF Advances, Capped, Leads
<1>4. CASE OnUndoLast
  <2>1. match.history # <<>> /\ match' = UndoLast(match)
    BY <1>4 DEF OnUndoLast
  <2> QED BY <2>1, ActionUndone DEF Advances, Capped, Leads
<1>5. ASSUME NEW p \in Players, OnSetServer(p)
      PROVE  Capped(match)' /\ (Leads(match) => Leads(match)') /\ Advances(match, match')
  <2>1. match' \in Match /\ Presented(match, match')
    BY <1>5 DEF OnSetServer, SetServer, Capped, Match, Presented
  <2> QED BY <2>1 DEF Presented, Advances, ResultKept, Capped, Leads
<1>6. CASE OnSwapSides
  <2>1. match' \in Match /\ Presented(match, match')
    BY <1>6 DEF OnSwapSides, SwapSides, Capped, Match, Presented
  <2> QED BY <2>1 DEF Presented, Advances, ResultKept, Capped, Leads
<1> QED BY <1>1, <1>2, <1>3, <1>4, <1>5, <1>6 DEF Next

LEMMA InitIInv == Init => IInv
BY FreshMatch, InitialIsNew, ConfigsAssumption, Names DEF Init, IInv, SetsOnRecord

LEMMA NextIInv == IInv /\ [Next]_match => IInv'
<1> SUFFICES ASSUME Capped(match), Decided(match), Leads(match), OnRecord(match), [Next]_match
             PROVE  Capped(match)' /\ Decided(match)' /\ Leads(match)' /\ OnRecord(match)'
  BY DEF IInv, TypeOK, Capped, WinnerHasTheSets, Decided, HistoryLeadsHere, Leads, SetsOnRecord
<1>1. CASE UNCHANGED match
  BY <1>1 DEF Capped, Decided, Leads, OnRecord
<1>2. CASE Next
  <2>1. CASE Begins
    BY <2>1, FreshMatch DEF Begins, Capped, Decided, Leads, OnRecord
  <2>2. CASE ~Begins
    <3>1. Capped(match)' /\ Leads(match)' /\ Advances(match, match')
      BY <1>2, <2>2, StepResult
    <3>2. Decided(match')
      BY <3>1, DecidedKept DEF Capped
    <3>3. OnRecord(match')
      BY <3>1, RecordAdded DEF Capped, Advances, ResultKept, OnRecord
    <3> QED BY <3>1, <3>2, <3>3 DEF Decided, OnRecord
  <2> QED BY <2>1, <2>2
<1> QED BY <1>1, <1>2

LEMMA InductiveInvariant == Spec => []IInv
BY InitIInv, NextIInv, PTL DEF Spec

(* matchEngine.ts keeps its type for every setting, and its undo history is   *)
(* never longer than MAX_HISTORY_LENGTH.                                      *)
THEOREM MatchTypeCorrect == Spec => []TypeOK
BY InductiveInvariant, PTL DEF IInv

(* applySetWinCheck decides a match exactly when a player has won the sets    *)
(* needed, for every length of match and whatever is corrected or undone.     *)
THEOREM WinnerCorrect == Spec => []WinnerHasTheSets
BY InductiveInvariant, PTL DEF IInv

(* addToHistory and undoLast keep the undo history a gapless way to the score *)
(* shown, for every length of the history.                                    *)
THEOREM HistoryCorrect == Spec => []HistoryLeadsHere
BY InductiveInvariant, PTL DEF IInv

(* The record of a match proves its result: every set that applySetWinCheck   *)
(* put on it is over by isSetComplete, for the settings the match was begun   *)
(* with, and a player is the winner exactly when he has won as many of these  *)
(* sets as are needed.                                                        *)
ResultOnRecord ==
  /\ \A i \in DOMAIN match.setHistory : SetComplete(match.config, match.setHistory[i])
  /\ \A p \in Players :
       /\ SetsWon(match, p) <= SetsNeeded(match.config)
       /\ match.winner = p <=> SetsWon(match, p) = SetsNeeded(match.config)

(* So the record that recordScore keeps, and the page counts, bears the       *)
(* result out, whatever was corrected or undone on the way.                   *)
THEOREM RecordCorrect == Spec => []ResultOnRecord
<1>1. ASSUME Decided(match), OnRecord(match)
      PROVE  ResultOnRecord
  <2>1. \A p \in Players : SetsWon(match, p) = match.sets[p]
    BY <1>1 DEF OnRecord, WonBy, SetsWon
  <2> QED BY <1>1, <2>1 DEF ResultOnRecord, OnRecord, Decided
<1>2. IInv => ResultOnRecord
  BY <1>1, Names DEF IInv, SetsOnRecord
<1> QED BY <1>2, InductiveInvariant, PTL

(* useMatchDisplay counts the sets from their record and by the length of the *)
(* longest match, and still ends the match on the page exactly when the       *)
(* engine does, for every best-of-n, the even ones too.                       *)
THEOREM PageCorrect == Spec => []PageEndsWithEngine
<1>1. ASSUME Capped(match), Decided(match), OnRecord(match)
      PROVE  PageEndsWithEngine
  <2> DEFINE n == SetsNeeded(match.config)
  <2>1. match.config.bestOf \in Nat \ {0} /\ match.sets \in [Players -> Nat]
    BY <1>1 DEF Capped, Match, Config
  <2>2. SetsNeededOf(TotalSets(match)) = n /\ n \in Nat
    BY <2>1 DEF SetsNeededOf, TotalSets, SetsNeeded
  <2>3. \A p \in Players : SetsWon(match, p) = match.sets[p]
    BY <1>1 DEF OnRecord, WonBy, SetsWon
  <2> HIDE DEF n
  <2>4. DisplayedWinners(match) = {p \in Players : match.sets[p] >= n}
    BY <2>2, <2>3 DEF DisplayedWinners
  <2>5. \A p \in Players : match.sets[p] >= n <=> match.winner = p
    BY <1>1, <2>1, <2>2 DEF Decided, n
  <2>6. match.winner \in Players \cup {NoWinner}
    BY <1>1 DEF Capped, Match
  <2>7. DisplayedWinners(match) # {} => match.status = "FINISHED"
    BY <1>1, <2>4, <2>5, NoWinnerAssumption DEF Decided
  <2> QED BY <2>7 DEF PageEndsWithEngine, IsMatchOver
<1>2. IInv => PageEndsWithEngine
  BY <1>1, Names DEF IInv, SetsOnRecord
<1> QED BY <1>2, InductiveInvariant, PTL

(* The scoreboard and the television turn the same player to the same side    *)
(* with the same points, and a tap scores for the player shown there, in      *)
(* every state of a match.                                                    *)
LEMMA BoardsAlwaysAgree ==
  ASSUME NEW m, NEW points, m.swappedSides \in BOOLEAN
  PROVE  BoardsAgree(m, points)
<1> DEFINE at == [side \in Sides |-> IF side = "left" THEN LeftPlayer(m) ELSE RightPlayer(m)]
<1>1. at \in [Sides -> Players] /\ at["left"] # at["right"]
  BY DEF Sides, Players, LeftPlayer, RightPlayer
<1>2. \A side \in Sides :
        LET shown == [name |-> at[side], sets |-> SetsWon(m, at[side]),
                      serving |-> m.serving = at[side]]
        IN  /\ Scoreboard(m, points, side)
                 = [shown |-> shown, points |-> points[at[side]], scores |-> at[side]]
            /\ Kiosk(m, points, side) = [shown |-> shown, points |-> points[at[side]]]
  <2>1. \A side \in Sides :
          /\ ApplySwapToDisplay(m, points, side) = points[at[side]]
          /\ GetDisplayValues(m, points, side) = points[at[side]]
          /\ HandleScorePoint(m, TapOf(side)) = at[side]
          /\ at[side] = IF side = "left" THEN LeftPlayer(m) ELSE RightPlayer(m)
    BY DEF Sides, ApplySwapToDisplay, GetDisplayValues, HandleScorePoint, TapOf, Raw, Opposite,
           LeftPlayer, RightPlayer
  <2> HIDE DEF at
  <2> QED BY <2>1 DEF Scoreboard, Kiosk, SwappedDisplay
<1> HIDE DEF at
<1> QED BY <1>1, <1>2 DEF BoardsAgree

THEOREM BoardsCorrect == Spec => []ScreensAgree
<1>1. IInv => ScreensAgree
  BY BoardsAlwaysAgree DEF IInv, TypeOK, Match, ScreensAgree
<1> QED BY <1>1, InductiveInvariant, PTL

(* The engine is a best-of-n match: every step begins a match, awards one set *)
(* of an open match, or leaves the result alone.                              *)
THEOREM EngineImplementsBestOf == Spec => ImplementsBestOf
<1>1. Init => BestOfN!Init
  <2> SUFFICES ASSUME NEW c \in Configs, match = InitialState(c) PROVE BestOfN!Init
    BY DEF Init
  <2> QED BY InitialIsNew, ConfigsAssumption, NeededType DEF NewEngine, Match, BestOfN!Init
<1>2. IInv /\ [Next]_match => [BestOfN!Next]_(BestOfN!vars)
  <2> SUFFICES ASSUME Capped(match), Decided(match), [Next]_match
               PROVE  [BestOfN!Next]_(BestOfN!vars)
    BY Names DEF IInv
  <2>1. CASE UNCHANGED match
    BY <2>1 DEF BestOfN!vars
  <2>2. CASE Begins
    BY <2>2, NeededType
       DEF Begins, NewEngine, Match, BestOfN!Next, BestOfN!Begin, BestOfN!Init
  <2>3. CASE ResultKept(match, match')
    BY <2>3 DEF ResultKept, BestOfN!vars
  <2>4. CASE match.status = "LIVE" /\ \E q \in Players : SetWon(match, match', q)
    <3>1. PICK q \in Players : SetWon(match, match', q)
      BY <2>4
    <3>2. SetsNeeded(match.config) \in Nat \ {0} /\ match.sets \in [Players -> Nat]
      BY NeededType DEF Capped, Match
    <3>3. match.winner = NoWinner /\ match.sets[q] < SetsNeeded(match.config)
      BY <2>4, <3>2, NoWinnerAssumption DEF Decided
    <3>4. BestOfN!WinSet(q)
      BY <3>1, <3>2, <3>3 DEF SetWon, BestOfN!WinSet
    <3> QED BY <3>4 DEF BestOfN!Next
  <2> QED BY <2>1, <2>2, <2>3, <2>4, StepResult DEF Advances
<1> QED BY <1>1, <1>2, InductiveInvariant, PTL DEF Spec, ImplementsBestOf, BestOfN!Spec
------------------------------------------------------------------------------
(* Who stands where.                                                          *)

(* What SidesFollowTheSets says of a point, of any two states.                *)
SidesFollow(m, r) ==
  LET nextSet == Len(r.setHistory) > Len(m.setHistory) /\ r.status = "LIVE"
      turned == m.midSetSwapped /\ ~nextSet
      middle == r.status = "LIVE" /\ FiveInLastSet(r) /\ ~turned
      tooLate == r.status = "FINISHED" /\ FiveInLastSet(r) /\ ~turned
  IN  /\ r.swappedSides # m.swappedSides <=> tooLate \/ nextSet # middle
      /\ r.midSetSwapped <=> turned \/ middle \/ tooLate

(* And of everything else.                                                    *)
SidesStay(m, r) == r.swappedSides = m.swappedSides /\ r.midSetSwapped = m.midSetSwapped

(* Nothing that has to do with the sides has changed.                         *)
Stands(m, r) ==
  /\ r.swappedSides = m.swappedSides /\ r.midSetSwapped = m.midSetSwapped
  /\ r.setHistory = m.setHistory /\ r.status = m.status

(* Nor has the score.                                                         *)
Alike(m, r) ==
  /\ Stands(m, r)
  /\ r.config = m.config /\ r.sets = m.sets /\ r.currentSet = m.currentSet

LEMMA AlikeFollows ==
  ASSUME NEW m, NEW r, NEW s, SidesFollow(m, r), Alike(r, s)
  PROVE  SidesFollow(m, s)
<1>1. FiveInLastSet(r) = FiveInLastSet(s)
  BY DEF Alike, FiveInLastSet
<1> QED BY <1>1 DEF Alike, Stands, SidesFollow

LEMMA ScoreStands ==
  \A m \in Match : \A s, h :
    /\ Stands(m, [m EXCEPT !.currentSet = s])
    /\ Stands(m, [m EXCEPT !.history = h])
    /\ Stands(m, [m EXCEPT !.currentSet = s, !.history = h])
BY DEF Match, Stands

LEMMA ServingStands == \A m \in Match : Alike(m, UpdateServing(m))
BY DEF Match, Stands, Alike, UpdateServing

LEMMA LogAlike == \A m \in Match : \A before : Alike(m, AddToHistory(m, before))
BY DEF Match, Stands, Alike, AddToHistory

(* The award of a set turns the sides unless it ends the match.               *)
LEMMA AwardTurns ==
  ASSUME NEW m \in Match, m.status = "LIVE"
  PROVE  LET r == AwardSet(m)
         IN  /\ r.setHistory = Append(m.setHistory, m.currentSet)
             /\ \/ /\ r.status = "FINISHED"
                   /\ r.swappedSides = m.swappedSides /\ r.midSetSwapped = m.midSetSwapped
                \/ /\ r.status = "LIVE"
                   /\ r.swappedSides = ~m.swappedSides /\ r.midSetSwapped = FALSE
<1> DEFINE p == Leader(m.currentSet)
           won == [m EXCEPT !.sets[p] = @ + 1, !.setHistory = Append(@, m.currentSet)]
<1>1. /\ won.setHistory = Append(m.setHistory, m.currentSet) /\ won.status = "LIVE"
      /\ won.swappedSides = m.swappedSides /\ won.midSetSwapped = m.midSetSwapped
      /\ DOMAIN won = DOMAIN m
  BY DEF Match
<1>2. /\ AwardSet(m) = IF won.sets[p] >= SetsNeeded(m.config)
                       THEN [won EXCEPT !.status = "FINISHED", !.winner = p]
                       ELSE [won EXCEPT !.currentSet = m.config.handicap,
                                        !.swappedSides = ~@, !.midSetSwapped = FALSE]
  BY DEF AwardSet
<1>3. {"setHistory", "status", "swappedSides", "midSetSwapped"} \subseteq DOMAIN won
  BY <1>1 DEF Match
<1> HIDE DEF won, p
<1> QED BY <1>1, <1>2, <1>3

(* checkSideSwap: the change with 5 points is remembered, so it comes once.   *)
LEMMA MiddleTurns ==
  ASSUME NEW m \in Match
  PROVE  LET r == SwapAtMiddle(m)
         IN  /\ r.setHistory = m.setHistory /\ r.status = m.status
             /\ r.config = m.config /\ r.sets = m.sets /\ r.currentSet = m.currentSet
             /\ r.swappedSides # m.swappedSides <=> FiveInLastSet(m) /\ ~m.midSetSwapped
             /\ r.midSetSwapped <=> m.midSetSwapped \/ FiveInLastSet(m)
<1> DEFINE turned == [m EXCEPT !.swappedSides = ~@, !.midSetSwapped = TRUE]
<1>1. CheckSideSwap(m) <=> FiveInLastSet(m) /\ ~m.midSetSwapped
  BY DEF CheckSideSwap, FiveInLastSet
<1>2. m.swappedSides \in BOOLEAN /\ m.midSetSwapped \in BOOLEAN
  BY DEF Match
<1>3. /\ turned.setHistory = m.setHistory /\ turned.status = m.status
      /\ turned.config = m.config /\ turned.sets = m.sets
      /\ turned.currentSet = m.currentSet
      /\ turned.swappedSides = ~m.swappedSides /\ turned.midSetSwapped = TRUE
  BY DEF Match
<1>4. SwapAtMiddle(m) = IF CheckSideSwap(m) THEN turned ELSE m
  BY DEF SwapAtMiddle
<1> HIDE DEF turned
<1> QED BY <1>1, <1>2, <1>3, <1>4

LEMMA PointSides ==
  ASSUME NEW m \in Match, m.status = "LIVE", NEW p \in Players
  PROVE  SidesFollow(m, RecordScore(m, p))
<1> DEFINE one == [m EXCEPT !.currentSet[p] = @ + 1]
           two == ApplySetWinCheck(one)
           three == SwapAtMiddle(two)
           four == UpdateServing(three)
<1>1. one \in Match /\ Stands(m, one)
  <2>1. m.currentSet \in [Players -> Int]
    BY DEF Match, Score
  <2>2. [m.currentSet EXCEPT ![p] = @ + 1] \in Score
    BY <2>1 DEF Score
  <2> QED BY <2>2, ScoreReplaced, ScoreStands
<1> HIDE DEF one
<1>2. two \in Match /\ two.swappedSides \in BOOLEAN /\ two.midSetSwapped \in BOOLEAN
  BY <1>1, AwardType DEF ApplySetWinCheck, Match
<1>3. \/ Stands(m, two)
      \/ /\ Len(two.setHistory) > Len(m.setHistory)
         /\ \/ /\ two.status = "FINISHED"
               /\ two.swappedSides = m.swappedSides /\ two.midSetSwapped = m.midSetSwapped
            \/ /\ two.status = "LIVE"
               /\ two.swappedSides = ~m.swappedSides /\ two.midSetSwapped = FALSE
  <2>1. CASE SetComplete(one.config, one.currentSet)
    <3>1. two = AwardSet(one) /\ one.status = "LIVE"
      BY <1>1, <2>1 DEF ApplySetWinCheck, Stands
    <3>2. m.setHistory \in Seq(Score) /\ one.currentSet \in Score
      BY <1>1 DEF Match
    <3>3. Len(Append(m.setHistory, one.currentSet)) > Len(m.setHistory)
      BY <3>2
    <3> QED BY <1>1, <3>1, <3>3, AwardTurns DEF Stands
  <2>2. CASE ~SetComplete(one.config, one.currentSet)
    BY <1>1, <2>2 DEF ApplySetWinCheck
  <2> QED BY <2>1, <2>2
<1> HIDE DEF two
<1>4. /\ three \in Match /\ three.setHistory = two.setHistory /\ three.status = two.status
      /\ FiveInLastSet(three) = FiveInLastSet(two)
      /\ three.swappedSides # two.swappedSides <=> FiveInLastSet(two) /\ ~two.midSetSwapped
      /\ three.midSetSwapped <=> two.midSetSwapped \/ FiveInLastSet(two)
      /\ three.swappedSides \in BOOLEAN /\ three.midSetSwapped \in BOOLEAN
  <2>1. three \in Match
    BY <1>2, SidesPresented
  <2>2. three.swappedSides \in BOOLEAN /\ three.midSetSwapped \in BOOLEAN
    BY <2>1 DEF Match
  <2> QED BY ONLY <1>2, <2>1, <2>2, MiddleTurns DEF FiveInLastSet, three
<1> HIDE DEF three
<1>5. Alike(three, four)
  BY <1>4, ServingStands
<1> HIDE DEF four
<1>6. /\ Len(m.setHistory) \in Nat /\ m.swappedSides \in BOOLEAN /\ m.midSetSwapped \in BOOLEAN
      /\ RecordScore(m, p) = four
  BY DEF Match, RecordScore, four, three, two, one
<1>7. SidesFollow(m, three)
  BY <1>2, <1>3, <1>4, <1>6 DEF Stands, SidesFollow
<1> QED BY <1>5, <1>6, <1>7, AlikeFollows

(* checkSideSwap and applySetWinCheck: for all settings, and whatever is      *)
(* corrected or undone, a point changes the sides exactly when it begins the  *)
(* next set or is the first with 5 in the last one, the end of a match won a  *)
(* set early included, which is the code's and not the rule's; and nothing    *)
(* but points and a change by hand does.                                      *)
THEOREM SidesCorrect == Spec => SidesFollowTheSets
<1>1. ASSUME match \in Match, Next
      PROVE  [SidesStep]_match
  <2>1. ASSUME NEW p \in Players, OnRecordPoint(p)
        PROVE  SidesFollow(match, match') \/ match' = match
    <3>1. CASE match.status = "LIVE"
      <4> DEFINE r == RecordScore(match, p)
      <4>1. SidesFollow(match, r) /\ r \in Match
        BY <1>1, <3>1, PointSides, PointResult
      <4>2. match' = AddToHistory(r, match.currentSet)
        BY <2>1, <3>1 DEF OnRecordPoint, RecordPoint
      <4> HIDE DEF r
      <4>3. SidesFollow(match, match')
        BY <4>1, <4>2, LogAlike, AlikeFollows
      <4> QED BY <4>3
    <3>2. CASE match.status # "LIVE"
      BY <2>1, <3>2 DEF OnRecordPoint, RecordPoint
    <3> QED BY <3>1, <3>2
  <2>2. ASSUME NEW p \in Players, OnSubtractPoint(p)
        PROVE  SidesStay(match, match')
    <3>1. CASE match.status = "LIVE"
      <4> DEFINE one == [match EXCEPT !.currentSet[p] = @ - 1]
                 r == UpdateServing(one)
      <4>1. one \in Match /\ Stands(match, one)
        <5>1. match.currentSet \in [Players -> Int]
          BY <1>1 DEF Match, Score
        <5>2. [match.currentSet EXCEPT ![p] = @ - 1] \in Score
          BY <5>1 DEF Score
        <5> QED BY <1>1, <5>2, ScoreReplaced, ScoreStands
      <4>2. match' = AddToHistory(r, match.currentSet)
        BY <2>2, <3>1 DEF OnSubtractPoint, SubtractPoint, SubtractScore
      <4> HIDE DEF one
      <4>3. r \in Match /\ Stands(one, r)
        BY <4>1, ServingStands, ServingPresented DEF Alike
      <4> HIDE DEF r
      <4>4. Stands(r, match')
        BY <4>2, <4>3, LogAlike DEF Alike
      <4> QED BY <4>1, <4>3, <4>4 DEF Stands, SidesStay
    <3>2. CASE match.status # "LIVE"
      BY <2>2, <3>2 DEF OnSubtractPoint, SubtractPoint, SidesStay
    <3> QED BY <3>1, <3>2
  <2>3. ASSUME OnUndoLast
        PROVE  SidesStay(match, match')
    <3> DEFINE back == [match EXCEPT !.currentSet = match.history[Len(match.history)].pointsBefore,
                                     !.history = SubSeq(@, 1, Len(match.history) - 1)]
    <3>1. match' = UpdateServing(back)
      BY <2>3 DEF OnUndoLast, UndoLast
    <3>2. Stands(match, back)
      BY <1>1, ScoreStands
    <3>3. DOMAIN back = DOMAIN match
      OBVIOUS
    <3> HIDE DEF back
    <3>4. Stands(back, match')
      BY <1>1, <3>1, <3>3 DEF Match, UpdateServing, Stands
    <3> QED BY <3>2, <3>4 DEF Stands, SidesStay
  <2>4. ASSUME NEW p \in Players, OnSetServer(p)
        PROVE  SidesStay(match, match')
    BY <1>1, <2>4 DEF OnSetServer, SetServer, Match, SidesStay
  <2>5. CASE \E p \in Players : OnRecordPoint(p)
    BY <2>1, <2>5 DEF SidesFollow, SidesStep
  <2>6. CASE OnUndoLast \/ \E p \in Players : OnSubtractPoint(p) \/ OnSetServer(p)
    BY <2>2, <2>3, <2>4, <2>6 DEF SidesStay, SidesStep
  <2>7. CASE ConfigureMatch \/ StartMatch \/ OnSwapSides
    BY <2>7 DEF SidesStep
  <2> QED BY <1>1, <2>5, <2>6, <2>7 DEF Next
<1>2. IInv /\ [Next]_match => [SidesStep]_match
  BY <1>1 DEF IInv, TypeOK
<1> QED BY <1>2, InductiveInvariant, PTL DEF Spec, SidesFollowTheSets
------------------------------------------------------------------------------
(* The button that scores points in the match.  A task rests at an await; what *)
(* can be said of it is whose it is, and whether its bridge will hear of it    *)
(* when the page lets go of that bridge.                                       *)

(* Only a bridge that the page has made has a task.                           *)
TasksOfMade == \A i \in Active : task[i].of <= cur

(* The page has let go of every bridge it made before the present one.        *)
OldOnesGone == \A b \in Bridges : b < cur => bridge[b].abort
(* A bridge not made yet was never let go of.                                 *)
NewOnesUntouched == \A b \in Bridges : b > cur => ~bridge[b].loose

(* What is searching, opening or setting up belongs to the page's bridge, or  *)
(* to one that was let go of while it opened the link.  A loop that only      *)
(* waits belongs to neither: it finds its bridge gone when the delay is over. *)
TasksAreHeld ==
  \A i \in Active :
    task[i].at \in {"scan", "open", "setup"} => task[i].of = cur \/ bridge[task[i].of].loose

(* What is asked over the link is asked by a bridge that will close it: this  *)
(* is why disconnect() of that bridge ends it.                                *)
SetupOverLink ==
  \A i \in Active : task[i].at = "setup" => link /\ bridge[task[i].of].server

(* The present bridge was made for this visit and this state of the match.    *)
PageIsOf == bridge[cur].visit = visit /\ bridge[cur].socket = live

(* Of the bridges a page has let go of only those hear the button again that  *)
(* were searching or opening the link at that moment (disconnect()).          *)
LetGoStaysSo == \A b \in subs : b = cur \/ bridge[b].loose

(* What the page may say as long as no bridge is loose: a bridge let go of by *)
(* the button has nothing left but what fails by itself, and a page that says *)
(* "connected" hears the device or is still setting it up.                     *)
SaysConnected ==
  NoneLoose =>
    /\ bridge[cur].abort => \A i \in Active : task[i].of = cur => task[i].at \in {"broken", "delay"}
    /\ status = "connected" => /\ ~bridge[cur].abort
                               /\ link => cur \in subs \/ \E i \in Active : task[i].of = cur

(* The invariant of the button.                                               *)
TapInv ==
  /\ TapTypeOK /\ TasksOfMade /\ OldOnesGone /\ NewOnesUntouched
  /\ TasksAreHeld /\ SetupOverLink /\ PageIsOf /\ LetGoStaysSo /\ SaysConnected

USE RallyTapAssumption

(* The bounds are positive numbers, and the page's first bridge is one.       *)
LEMMA Bounds == /\ MaxReconnectAttempts \in Nat \ {0} /\ MaxBridges \in Nat \ {0}
                /\ MaxTasks \in Nat \ {0} /\ 1 \in Bridges
BY DEF Bridges

(* What a step writes on one bridge leaves the rest of the bridge alone.      *)
LEMMA DeviceSet ==
  \A r \in Bridge : LET s == [r EXCEPT !.device = TRUE]
                    IN  /\ s \in Bridge /\ s.abort = r.abort /\ s.server = r.server
                        /\ s.socket = r.socket /\ s.visit = r.visit /\ s.loose = r.loose
BY DEF Bridge

LEMMA ServerSet ==
  \A r \in Bridge : LET s == [r EXCEPT !.server = TRUE]
                    IN  /\ s \in Bridge /\ s.abort = r.abort /\ s.server
                        /\ s.socket = r.socket /\ s.visit = r.visit /\ s.loose = r.loose
BY DEF Bridge

LEMMA AbortCleared ==
  \A r \in Bridge : LET s == [r EXCEPT !.abort = FALSE]
                    IN  /\ s \in Bridge /\ ~s.abort /\ s.server = r.server
                        /\ s.socket = r.socket /\ s.visit = r.visit /\ s.loose = r.loose
BY DEF Bridge

(* A delay that its timer no longer names is the same task otherwise.         *)
LEMMA TimerCleared ==
  \A t \in Task : LET s == [t EXCEPT !.timer = FALSE]
                  IN  s \in Task /\ s.of = t.of /\ s.kind = t.kind /\ s.at = t.at
BY DEF Task

(* A page that is opened has one bridge and nothing under way.                *)
LEMMA TapInitLemma == TapInit => TapInv
<1> SUFFICES ASSUME TapInit PROVE TapInv
  OBVIOUS
<1>1. Active = {} /\ subs = {} /\ cur = 1
  BY DEF TapInit, Active, Under, NoTask
<1>2. NoTask \in Task /\ Made(1, TRUE) \in Bridge
  <2>1. NoTask \in Task
    BY Bounds DEF NoTask, Task
  <2>2. Made(1, TRUE) \in Bridge
    BY Bounds DEF Made, Bridge
  <2> QED BY <2>1, <2>2
<1>3. TapTypeOK
  <2>1. bridge \in [Bridges -> Bridge] /\ task \in [Slots -> Task]
    BY <1>2 DEF TapInit
  <2>2. cur \in Bridges /\ visit \in 1 .. cur
    BY Bounds DEF TapInit
  <2>3. link \in BOOLEAN /\ live \in BOOLEAN /\ subs = {} /\ watch = {} /\ status = "idle"
    BY DEF TapInit
  <2>. QED BY <2>1, <2>2, <2>3 DEF TapTypeOK
<1>4. NewOnesUntouched /\ PageIsOf
  BY Bounds DEF TapInit, Made, NewOnesUntouched, PageIsOf
<1>5. OldOnesGone
  BY <1>1 DEF OldOnesGone, Bridges
<1>6. SaysConnected
  BY <1>1 DEF TapInit, SaysConnected
<1>. QED
  BY <1>1, <1>3, <1>4, <1>5, <1>6 DEF TapInv, TasksOfMade, TasksAreHeld, SetupOverLink, LetGoStaysSo

(* connect(): the device is chosen, and the link is opened next.              *)
LEMMA FoundStep == ASSUME NEW i \in Slots, TapInv, Found(i) PROVE TapInv'
<1> DEFINE b == task[i].of
<1>1. TapTypeOK /\ task[i] \in Task /\ b \in Bridges /\ i \in Active /\ task[i].at = "scan"
  BY DEF TapInv, TapTypeOK, Task, Found, Active
<1>2. /\ task' = [task EXCEPT ![i] = [task[i] EXCEPT !.at = "open"]]
      /\ bridge' = [bridge EXCEPT ![b] = [bridge[b] EXCEPT !.device = TRUE]]
      /\ UNCHANGED <<link, subs, watch, cur, visit, live>>
  BY DEF Found
<1>3. Active' = Active
  BY <1>1, <1>2 DEF Active, Under, TapTypeOK, Task
<1>4. \A c \in Bridges : /\ bridge'[c] \in Bridge
                         /\ bridge'[c].abort = bridge[c].abort /\ bridge'[c].server = bridge[c].server
                         /\ bridge'[c].socket = bridge[c].socket /\ bridge'[c].visit = bridge[c].visit
                         /\ bridge'[c].loose = bridge[c].loose
  <2>1. \A c \in Bridges : bridge[c] \in Bridge
    BY <1>1 DEF TapTypeOK
  <2>2. \A c \in Bridges : bridge'[c] = IF c = b THEN [bridge[c] EXCEPT !.device = TRUE] ELSE bridge[c]
    BY <1>1, <1>2 DEF TapTypeOK
  <2>3. \A c \in Bridges : c # b => bridge'[c] = bridge[c]
    BY ONLY <2>2
  <2>4. b \in Bridges /\ bridge'[b] = [bridge[b] EXCEPT !.device = TRUE]
    BY ONLY <1>1, <2>2
  <2>5. LET s == bridge'[b] IN /\ s \in Bridge /\ s.abort = bridge[b].abort /\ s.server = bridge[b].server
                             /\ s.socket = bridge[b].socket /\ s.visit = bridge[b].visit
                             /\ s.loose = bridge[b].loose
    BY ONLY <2>1, <2>4, DeviceSet
  <2>. QED BY ONLY <2>1, <2>3, <2>5
<1>5. \A j \in Slots : /\ task'[j] \in Task /\ task'[j].of = task[j].of
                       /\ j # i => task'[j] = task[j]
  BY <1>1, <1>2 DEF TapTypeOK, Task
<1>6. task'[i].at = "open"
  BY <1>1, <1>2 DEF TapTypeOK, Task
<1>7. status' \in {status, "connecting"}
  BY DEF Found, Says
<1>8. TapTypeOK'
  <2>1. bridge' \in [Bridges -> Bridge] /\ task' \in [Slots -> Task]
    BY <1>1, <1>2, <1>4, <1>5 DEF TapTypeOK
  <2>. QED BY <1>1, <1>2, <1>7, <2>1 DEF TapTypeOK
<1>. QED
  BY <1>1, <1>2, <1>3, <1>4, <1>5, <1>6, <1>7, <1>8 DEF TapInv, TasksOfMade, OldOnesGone, NewOnesUntouched, TasksAreHeld,
     SetupOverLink, PageIsOf, LetGoStaysSo, SaysConnected, NoneLoose, Active, TapTypeOK, Bridges

(* After the step, task j waits or fails, or is where it was.                 *)
Calm(j) ==
  j \in Active' =>
    /\ task'[j].of <= cur
    /\ \/ task'[j].at \in {"broken", "delay"}
       \/ j \in Active /\ task'[j].of = task[j].of /\ task'[j].at = task[j].at

(* A step that touches no bridge, adds no listener and begins no search keeps *)
(* the invariant, if "connected" is said no longer than it is true.           *)
LEMMA CalmLemma ==
  ASSUME TapInv, TapTypeOK', UNCHANGED <<bridge, cur, visit, live>>, subs' \subseteq subs,
         \A j \in Slots : Calm(j),
         link' = link \/ \A j \in Active' : task'[j].at # "setup",
         NoneLoose /\ status' = "connected" =>
           /\ status = "connected"
           /\ link' => link /\ (cur \in subs' \/ \E j \in Active' : task'[j].of = cur)
  PROVE  TapInv'
<1>1. Active' \subseteq Slots /\ Active \subseteq Slots
  BY DEF Active
<1>2. TasksOfMade'
  BY <1>1 DEF Calm, TasksOfMade
<1>3. TasksAreHeld' /\ SetupOverLink'
  BY <1>1 DEF Calm, TapInv, TasksAreHeld, SetupOverLink
<1>4. OldOnesGone' /\ NewOnesUntouched' /\ PageIsOf' /\ LetGoStaysSo'
  BY DEF TapInv, OldOnesGone, NewOnesUntouched, PageIsOf, LetGoStaysSo
<1>5. SaysConnected'
  BY <1>1 DEF Calm, TapInv, SaysConnected, NoneLoose
<1>. QED BY <1>2, <1>3, <1>4, <1>5 DEF TapInv

(* A bridge that was made is the page's or has been let go of.                *)
LEMMA OldMeansGone ==
  ASSUME TapInv, NEW b \in Bridges, b <= cur
  PROVE  b = cur \/ bridge[b].abort
BY DEF TapInv, OldOnesGone, TapTypeOK, Bridges

(* A task ends: for the page's own bridge only with an error told.            *)
LEMMA EndsLemma ==
  ASSUME TapInv, NEW i \in Active, task' = [task EXCEPT ![i] = NoTask],
         UNCHANGED <<link, subs, watch, bridge, cur, visit, live>>,
         status' = status \/ status' = "error",
         NoneLoose /\ task[i].of = cur /\ status = "connected" => status' = "error"
  PROVE  TapInv'
<1>1. i \in Slots /\ NoTask \in Task
  BY Bounds DEF Active, NoTask, Task
<1>2. TapTypeOK /\ task' \in [Slots -> Task]
  BY <1>1 DEF TapInv, TapTypeOK
<1>3. TapTypeOK'
  BY <1>2 DEF TapTypeOK
<1>4. \A j \in Slots : j \in Active' <=> j \in Active /\ j # i
  BY <1>1, <1>2 DEF Active, Under, NoTask, TapTypeOK
<1>5. \A j \in Slots : j # i => task'[j] = task[j]
  BY <1>2 DEF TapTypeOK
<1>6. \A j \in Slots : Calm(j)
  BY <1>4, <1>5 DEF Calm, TapInv, TasksOfMade
<1>7. ASSUME NoneLoose, status' = "connected"
      PROVE  status = "connected" /\ (link' => link /\ (cur \in subs' \/ \E j \in Active' : task'[j].of = cur))
  BY <1>1, <1>4, <1>5, <1>7 DEF TapInv, SaysConnected, Active
<1>. QED BY <1>3, <1>6, <1>7, CalmLemma

(* connect(): no device was chosen.                                           *)
LEMMA NotFoundStep == ASSUME NEW i \in Slots, TapInv, NotFound(i) PROVE TapInv'
<1>1. i \in Active
  BY DEF NotFound, Active
<1>2. NoneLoose /\ task[i].of = cur => status' = "error"
  BY DEF NotFound, Says, TapInv, PageIsOf
<1>. QED BY <1>1, <1>2, EndsLemma DEF NotFound, Says

(* attemptReconnect(): the next delay of a loop.                              *)
LEMMA AgainLemma ==
  ASSUME TapInv, NEW i \in Active, ~bridge[task[i].of].abort, task[i].attempt < MaxReconnectAttempts,
         task' = Waiting(task, i, task[i].of, task[i].attempt + 1),
         UNCHANGED <<link, subs, watch, bridge, cur, visit, live, status>>
  PROVE  TapInv'
<1> DEFINE b == task[i].of
           n == task[i].attempt + 1
<1>1. TapTypeOK /\ i \in Slots /\ task[i] \in Task /\ b \in Bridges /\ n \in 1 .. MaxReconnectAttempts
  BY Bounds DEF TapInv, TapTypeOK, Active, Task
<1>2. task' \in [Slots -> Task]
  <2>1. Begun("loop", b, "delay", n) \in Task
    BY <1>1 DEF Begun, Task
  <2>2. task \in [Slots -> Task] /\ \A j \in Slots : [task[j] EXCEPT !.timer = FALSE] \in Task
    BY <1>1, TimerCleared DEF TapTypeOK
  <2>. QED BY ONLY <2>1, <2>2, task' = Waiting(task, i, b, n) DEF Waiting
<1>3. TapTypeOK'
  BY <1>1, <1>2 DEF TapTypeOK
<1>4. \A j \in Slots : /\ j \in Active' <=> j \in Active
                       /\ task'[j].of = task[j].of
                       /\ task'[j].at \in {task[j].at, "delay"}
  BY <1>1 DEF Waiting, Begun, Active, Under, TapTypeOK, Task
<1>5. \A j \in Slots : Calm(j)
  BY <1>4 DEF Calm, TapInv, TasksOfMade
<1>6. (\E j \in Active : task[j].of = cur) => \E j \in Active' : task'[j].of = cur
  BY <1>4 DEF Active
<1>. QED BY <1>3, <1>5, <1>6, CalmLemma DEF TapInv, SaysConnected

(* attemptReconnect(): an attempt failed; another, or the end of the loop.    *)
LEMMA NextAttemptStep ==
  ASSUME TapInv, NEW i \in Active, NextAttempt(i),
         UNCHANGED <<link, subs, watch, bridge, cur, visit, live>>
  PROVE  TapInv'
<1> DEFINE b == task[i].of
<1>1. TapTypeOK /\ task[i] \in Task /\ b \in Bridges /\ b <= cur
  BY DEF TapInv, TapTypeOK, Active, Task, TasksOfMade
<1>2. NoneLoose /\ status = "connected" => ~bridge[cur].abort
  BY DEF TapInv, SaysConnected
<1>3. bridge[cur].visit = visit
  BY DEF TapInv, PageIsOf
<1>4. CASE task[i].attempt = MaxReconnectAttempts
  <2>1. task' = [task EXCEPT ![i] = NoTask] /\ Exhausted(b)
    BY <1>4 DEF NextAttempt
  <2>2. status' = status \/ status' = "error"
    BY <2>1 DEF Exhausted, Says
  <2>3. NoneLoose /\ b = cur /\ status = "connected" => status' = "error"
    BY <1>2, <1>3, <2>1 DEF Exhausted, Says
  <2>. QED BY <2>1, <2>2, <2>3, EndsLemma
<1>5. CASE task[i].attempt # MaxReconnectAttempts /\ bridge[b].abort
  <2>1. task' = [task EXCEPT ![i] = NoTask] /\ status' = status
    BY <1>5 DEF NextAttempt
  <2>. QED BY <1>2, <1>5, <2>1, EndsLemma
<1>6. CASE task[i].attempt # MaxReconnectAttempts /\ ~bridge[b].abort
  <2>1. task' = Waiting(task, i, b, task[i].attempt + 1) /\ status' = status
    BY <1>6 DEF NextAttempt
  <2>2. task[i].attempt < MaxReconnectAttempts
    BY <1>1, <1>6, Bounds DEF Task
  <2>. QED BY <1>6, <2>1, <2>2, AgainLemma
<1>. QED BY <1>4, <1>5, <1>6

(* What was asked over the link is refused.                                   *)
LEMMA FailedStep == ASSUME NEW i \in Slots, TapInv, Failed(i) PROVE TapInv'
<1>1. i \in Active
  BY DEF Failed, Active
<1>2. CASE task[i].kind = "loop" /\ NextAttempt(i)
  BY <1>1, <1>2, NextAttemptStep DEF Failed
<1>3. CASE Says(task[i].of, "error") /\ task' = [task EXCEPT ![i] = NoTask]
  <2>1. task[i].of = cur => status' = "error"
    BY <1>3 DEF Says, TapInv, PageIsOf
  <2>. QED BY <1>1, <1>3, <2>1, EndsLemma DEF Failed, Says
<1>. QED BY <1>2, <1>3 DEF Failed

(* attemptReconnect(): the delay is over; abort is looked at again.           *)
LEMMA WaitedStep == ASSUME NEW i \in Slots, TapInv, Waited(i) PROVE TapInv'
<1> DEFINE b == task[i].of
<1>1. TapTypeOK /\ i \in Active /\ task[i] \in Task /\ b \in Bridges /\ b <= cur /\ task[i].at = "delay"
  BY DEF TapInv, TapTypeOK, Active, Task, TasksOfMade, Waited
<1>2. UNCHANGED <<link, subs, watch, bridge, cur, visit, live>>
  BY DEF Waited
<1>3. CASE bridge[b].abort /\ task' = [task EXCEPT ![i] = NoTask] /\ UNCHANGED status
  BY <1>1, <1>2, <1>3, EndsLemma DEF TapInv, SaysConnected
<1>4. CASE NextAttempt(i)
  BY <1>1, <1>2, <1>4, NextAttemptStep
<1>5. CASE ~bridge[b].abort /\ task' = [task EXCEPT ![i].at = "open"] /\ UNCHANGED status
  <2>1. b = cur
    BY <1>1, <1>5, OldMeansGone
  <2>2. /\ task' = [task EXCEPT ![i] = [task[i] EXCEPT !.at = "open"]]
        /\ [task[i] EXCEPT !.at = "open"] \in Task
    BY <1>1, <1>5 DEF Task
  <2>3. task' \in [Slots -> Task]
    BY <1>1, <2>2 DEF TapTypeOK
  <2>4. TapTypeOK'
    BY <1>1, <1>2, <1>5, <2>3 DEF TapTypeOK
  <2>5. \A j \in Slots : /\ task'[j].of = task[j].of /\ task'[j].kind = task[j].kind
                         /\ j # i => task'[j] = task[j]
    BY <1>1, <2>2 DEF TapTypeOK, Task
  <2>6. task'[i].at = "open"
    BY <1>1, <2>2 DEF TapTypeOK, Task
  <2>7. Active' = Active
    BY <2>5 DEF Active, Under
  <2>8. TasksOfMade' /\ TasksAreHeld' /\ SetupOverLink'
    BY <1>2, <2>1, <2>5, <2>6, <2>7 DEF TapInv, TasksOfMade, TasksAreHeld, SetupOverLink, Active
  <2>9. OldOnesGone' /\ NewOnesUntouched' /\ PageIsOf' /\ LetGoStaysSo'
    BY <1>2 DEF TapInv, OldOnesGone, NewOnesUntouched, PageIsOf, LetGoStaysSo
  <2>10. SaysConnected'
    BY <1>2, <1>5, <2>1, <2>5, <2>7 DEF TapInv, SaysConnected, NoneLoose, Active
  <2>. QED BY <2>4, <2>8, <2>9, <2>10 DEF TapInv
<1>. QED BY <1>3, <1>4, <1>5 DEF Waited

(* gatt.connect() succeeds, for the page's bridge or a loose one.             *)
LEMMA OpenedStep == ASSUME NEW i \in Slots, TapInv, Opened(i) PROVE TapInv'
<1> DEFINE b == task[i].of
<1>1. TapTypeOK /\ task[i] \in Task /\ b \in Bridges /\ i \in Active /\ task[i].at = "open"
  BY DEF TapInv, TapTypeOK, Task, Opened, Active
<1>2. /\ task' = [task EXCEPT ![i] = [task[i] EXCEPT !.at = "setup"]]
      /\ bridge' = [bridge EXCEPT ![b] = [bridge[b] EXCEPT !.server = TRUE]]
      /\ link' = TRUE /\ UNCHANGED <<subs, watch, cur, visit, live, status>>
  BY DEF Opened
<1>3. \A c \in Bridges : /\ bridge'[c] \in Bridge
                         /\ bridge'[c].abort = bridge[c].abort
                         /\ bridge'[c].socket = bridge[c].socket /\ bridge'[c].visit = bridge[c].visit
                         /\ bridge'[c].loose = bridge[c].loose
                         /\ bridge[c].server \/ c = b => bridge'[c].server
  <2>1. \A c \in Bridges : bridge[c] \in Bridge
    BY <1>1 DEF TapTypeOK
  <2>2. \A c \in Bridges : bridge'[c] = IF c = b THEN [bridge[c] EXCEPT !.server = TRUE] ELSE bridge[c]
    BY <1>1, <1>2 DEF TapTypeOK
  <2>3. \A c \in Bridges : c # b => bridge'[c] = bridge[c]
    BY ONLY <2>2
  <2>4. b \in Bridges /\ bridge'[b] = [bridge[b] EXCEPT !.server = TRUE]
    BY ONLY <1>1, <2>2
  <2>5. LET s == bridge'[b] IN /\ s \in Bridge /\ s.abort = bridge[b].abort /\ s.server
                             /\ s.socket = bridge[b].socket /\ s.visit = bridge[b].visit
                             /\ s.loose = bridge[b].loose
    BY ONLY <2>1, <2>4, ServerSet
  <2>. QED BY ONLY <2>1, <2>3, <2>5
<1>4. \A j \in Slots : /\ task'[j] \in Task /\ task'[j].of = task[j].of /\ task'[j].kind = task[j].kind
                       /\ j # i => task'[j] = task[j]
  BY <1>1, <1>2 DEF TapTypeOK, Task
<1>5. task'[i].at = "setup"
  BY <1>1, <1>2 DEF TapTypeOK, Task
<1>6. Active' = Active
  BY <1>4 DEF Active, Under
<1>7. TapTypeOK'
  <2>1. bridge' \in [Bridges -> Bridge] /\ task' \in [Slots -> Task]
    BY <1>1, <1>2, <1>3, <1>4 DEF TapTypeOK
  <2>. QED BY <1>1, <1>2, <2>1 DEF TapTypeOK
<1>8. cur \in Bridges /\ subs \subseteq Bridges
  BY <1>1 DEF TapTypeOK, Bridges
<1>9. TasksOfMade' /\ TasksAreHeld' /\ SetupOverLink'
  BY <1>1, <1>2, <1>3, <1>4, <1>5, <1>6
     DEF TapInv, TasksOfMade, TasksAreHeld, SetupOverLink, Active, TapTypeOK, Task
<1>10. OldOnesGone' /\ NewOnesUntouched' /\ PageIsOf' /\ LetGoStaysSo'
  BY <1>2, <1>3, <1>8 DEF TapInv, OldOnesGone, NewOnesUntouched, PageIsOf, LetGoStaysSo
<1>11. NoneLoose' => b = cur /\ ~bridge[cur].abort /\ NoneLoose
  BY <1>1, <1>3 DEF TapInv, TasksAreHeld, SaysConnected, NoneLoose
<1>12. SaysConnected'
  BY <1>1, <1>2, <1>3, <1>4, <1>6, <1>8, <1>11 DEF SaysConnected
<1>. QED BY <1>7, <1>9, <1>10, <1>12 DEF TapInv

(* Notifications have started: the bridge hears the button.                   *)
LEMMA ReadyStep == ASSUME NEW i \in Slots, TapInv, Ready(i) PROVE TapInv'
<1> DEFINE b == task[i].of
<1>1. TapTypeOK /\ task[i] \in Task /\ b \in Bridges /\ i \in Active /\ task[i].at = "setup" /\ b <= cur
  BY DEF TapInv, TapTypeOK, Task, Ready, Active, TasksOfMade
<1>2. /\ task' = [task EXCEPT ![i] = NoTask] /\ subs' = subs \cup {b}
      /\ UNCHANGED <<link, bridge, cur, visit, live>>
      /\ status' \in {status, "connected"} /\ watch' \subseteq watch \cup {b}
  BY DEF Ready, Hears, Says
<1>3. link /\ (b = cur \/ bridge[b].loose)
  BY <1>1 DEF TapInv, SetupOverLink, TasksAreHeld
<1>4. TapTypeOK'
  <2>1. NoTask \in Task
    BY Bounds DEF NoTask, Task
  <2>2. b \in 1 .. cur
    BY <1>1 DEF Bridges, TapTypeOK
  <2>3. task' \in [Slots -> Task]
    BY <1>1, <1>2, <2>1 DEF TapTypeOK
  <2>. QED BY <1>1, <1>2, <1>3, <2>2, <2>3 DEF TapTypeOK
<1>5. \A j \in Slots : j \in Active' => j \in Active /\ task'[j] = task[j]
  BY <1>1, <1>2 DEF Active, Under, NoTask, TapTypeOK
<1>6. TasksOfMade' /\ TasksAreHeld' /\ SetupOverLink'
  BY <1>2, <1>5 DEF TapInv, TasksOfMade, TasksAreHeld, SetupOverLink, Active
<1>7. OldOnesGone' /\ NewOnesUntouched' /\ PageIsOf' /\ LetGoStaysSo'
  BY <1>2, <1>3 DEF TapInv, OldOnesGone, NewOnesUntouched, PageIsOf, LetGoStaysSo
<1>8. NoneLoose => b = cur /\ ~bridge[cur].abort
  BY <1>1, <1>3 DEF TapInv, SaysConnected, NoneLoose
<1>9. SaysConnected'
  BY <1>2, <1>5, <1>8 DEF TapInv, SaysConnected, NoneLoose, Active
<1>. QED BY <1>4, <1>6, <1>7, <1>9 DEF TapInv

(* connect(): a bridge that was let go of is the page's again.                *)
LEMMA PressConnectStep == ASSUME TapInv, PressConnect PROVE TapInv'
<1> DEFINE i == FreeSlot
           t == Begun("connect", cur, "scan", 1)
<1>1. TapTypeOK /\ cur \in Bridges /\ i \in Slots /\ i \notin Active
  BY DEF TapInv, TapTypeOK, PressConnect, Connect, FreeSlot, FreeSlots
<1>2. /\ task' = [task EXCEPT ![i] = t] /\ t \in Task
      /\ bridge' = [bridge EXCEPT ![cur] = [bridge[cur] EXCEPT !.abort = FALSE]]
      /\ UNCHANGED <<link, subs, watch, cur, visit, live>>
  BY <1>1, Bounds DEF PressConnect, Connect, Begun, Task
<1>3. status' = "scanning"
  BY DEF PressConnect, Connect, Says, TapInv, PageIsOf
<1>4. \A c \in Bridges : /\ bridge'[c] \in Bridge
                         /\ c # cur => bridge'[c].abort = bridge[c].abort
                         /\ bridge'[c].server = bridge[c].server
                         /\ bridge'[c].socket = bridge[c].socket /\ bridge'[c].visit = bridge[c].visit
                         /\ bridge'[c].loose = bridge[c].loose
                         /\ c = cur => ~bridge'[c].abort
  <2>1. \A c \in Bridges : bridge[c] \in Bridge
    BY <1>1 DEF TapTypeOK
  <2>2. \A c \in Bridges : bridge'[c] = IF c = cur THEN [bridge[c] EXCEPT !.abort = FALSE] ELSE bridge[c]
    BY <1>1, <1>2 DEF TapTypeOK
  <2>3. \A c \in Bridges : c # cur => bridge'[c] = bridge[c]
    BY ONLY <2>2
  <2>4. cur \in Bridges /\ bridge'[cur] = [bridge[cur] EXCEPT !.abort = FALSE]
    BY ONLY <1>1, <2>2
  <2>5. LET s == bridge'[cur] IN /\ s \in Bridge /\ ~s.abort /\ s.server = bridge[cur].server
                               /\ s.socket = bridge[cur].socket /\ s.visit = bridge[cur].visit
                               /\ s.loose = bridge[cur].loose
    BY ONLY <2>1, <2>4, AbortCleared
  <2>. QED BY ONLY <2>1, <2>3, <2>5
<1>5. ~bridge'[cur].abort
  BY <1>1, <1>4
<1>6. task'[i] = t /\ \A j \in Slots : j # i => task'[j] = task[j]
  BY <1>1, <1>2 DEF TapTypeOK
<1>7. t.of = cur /\ t.at = "scan" /\ t.kind = "connect"
  BY DEF Begun
<1>8. Active' = Active \cup {i}
  BY <1>1, <1>6, <1>7 DEF Active, Under
<1> HIDE DEF i, t
<1>9. TapTypeOK'
  <2>1. bridge' \in [Bridges -> Bridge] /\ task' \in [Slots -> Task]
    BY <1>1, <1>2, <1>4 DEF TapTypeOK
  <2>. QED BY <1>1, <1>2, <1>3, <2>1 DEF TapTypeOK
<1>10. subs \subseteq Bridges /\ cur \in Nat
  BY <1>1 DEF TapTypeOK, Bridges
<1>11. \A j \in Active : task[j].of \in Bridges /\ j \in Slots
  BY <1>1 DEF TapTypeOK, Task, Active
<1>12. TasksOfMade' /\ TasksAreHeld' /\ SetupOverLink'
  BY <1>1, <1>2, <1>4, <1>6, <1>7, <1>8, <1>10, <1>11
     DEF TapInv, TasksOfMade, TasksAreHeld, SetupOverLink
<1>13. OldOnesGone' /\ NewOnesUntouched' /\ PageIsOf' /\ LetGoStaysSo'
  BY <1>1, <1>2, <1>4, <1>10 DEF TapInv, OldOnesGone, NewOnesUntouched, PageIsOf, LetGoStaysSo
<1>14. SaysConnected'
  BY <1>2, <1>3, <1>5 DEF SaysConnected
<1>. QED BY <1>9, <1>12, <1>13, <1>14 DEF TapInv

(* The end of the link changes of the tasks only where they rest.             *)
LEMMA CutLemma ==
  ASSUME TapInv, NEW tasks \in [Slots -> Task], NEW phases
  PROVE  /\ Cut(tasks, phases) \in [Slots -> Task]
         /\ \A j \in Slots : /\ Cut(tasks, phases)[j].of = tasks[j].of
                             /\ Cut(tasks, phases)[j].kind = tasks[j].kind
                             /\ Cut(tasks, phases)[j].at =
                                  IF tasks[j].at \in phases THEN "broken" ELSE tasks[j].at
BY DEF Cut, Task

(* handleDisconnect: the link is lost, a loop begins or the error is told.    *)
LEMMA LinkLostStep == ASSUME TapInv, LinkLost PROVE TapInv'
<1> DEFINE tasks == Cut(task, {"setup"})
           minds == {b \in watch : ~bridge[b].abort}
           b == CHOOSE c \in minds : TRUE
<1>1. TapTypeOK /\ task \in [Slots -> Task] /\ cur \in Bridges /\ watch \subseteq 1 .. cur
  BY DEF TapInv, TapTypeOK
<1>2. /\ tasks \in [Slots -> Task]
      /\ \A j \in Slots : /\ tasks[j].of = task[j].of /\ tasks[j].kind = task[j].kind
                          /\ tasks[j].at # "setup"
                          /\ tasks[j].at \in {task[j].at, "broken"}
  BY <1>1, CutLemma
<1> HIDE DEF tasks
<1>3. /\ link' = FALSE /\ subs' = {} /\ UNCHANGED <<watch, bridge, cur, visit, live>>
      /\ Heard(tasks)
  BY DEF LinkLost, tasks
<1>4. CASE task' = tasks /\ status' \in {status, "error"}
  <2>1. TapTypeOK'
    BY <1>1, <1>2, <1>3, <1>4 DEF TapTypeOK
  <2>2. \A j \in Slots : Calm(j) /\ (j \in Active' => task'[j].at # "setup")
    BY <1>2, <1>4 DEF Calm, Active, Under, TapInv, TasksOfMade
  <2>3. Active' \subseteq Slots
    BY DEF Active
  <2>. QED BY <1>3, <1>4, <2>1, <2>2, <2>3, CalmLemma
<1>5. CASE /\ minds # {} /\ FreeSlots # {}
           /\ task' = Waiting(tasks, FreeSlot, b, 1) /\ status' \in {status, "reconnecting"}
  <2>1. FreeSlot \in Slots /\ b \in Bridges /\ b <= cur
    <3>1. FreeSlot \in Slots
      BY <1>5 DEF FreeSlot, FreeSlots
    <3>2. b \in 1 .. cur
      BY <1>1, <1>5
    <3>. QED BY <1>1, <3>1, <3>2 DEF Bridges
  <2> DEFINE f == FreeSlot
  <2> HIDE DEF f, b, minds
  <2>2. task' \in [Slots -> Task]
    <3>1. Begun("loop", b, "delay", 1) \in Task
      BY <2>1, Bounds DEF Begun, Task
    <3>2. \A j \in Slots : [tasks[j] EXCEPT !.timer = FALSE] \in Task
      BY <1>2, TimerCleared
    <3>. QED BY <1>2, <1>5, <3>1, <3>2 DEF Waiting
  <2>3. TapTypeOK'
    BY <1>1, <1>3, <1>5, <2>2 DEF TapTypeOK
  <2>4. \A j \in Slots : IF j = f THEN task'[j].of = b /\ task'[j].at = "delay"
                         ELSE /\ task'[j].of = tasks[j].of /\ task'[j].kind = tasks[j].kind
                              /\ task'[j].at = tasks[j].at
    BY <1>2, <1>5, <2>1 DEF Waiting, Begun, Task, f
  <2>5. \A j \in Slots : Calm(j) /\ (j \in Active' => task'[j].at # "setup")
    BY <1>2, <2>1, <2>4 DEF Calm, Active, Under, TapInv, TasksOfMade
  <2>6. Active' \subseteq Slots
    BY DEF Active
  <2>. QED BY <1>3, <1>5, <2>3, <2>5, <2>6, CalmLemma
<1>. QED BY <1>3, <1>4, <1>5 DEF Heard, Says

(* disconnect() begins nothing, and whatever bridge is set up afterwards does *)
(* so over a link that is still there.                                        *)
LEMMA DisconnectLemma ==
  ASSUME TapInv, Disconnect(cur)
  PROVE  /\ task' \in [Slots -> Task]
         /\ Active' \subseteq Active
         /\ \A j \in Active' : /\ task'[j].of = task[j].of
                               /\ task'[j].at \in {task[j].at, "broken"}
                               /\ task'[j].at = "setup" => task[j].of # cur /\ link'
         /\ subs' \subseteq subs \ {cur} /\ (subs' # {} => link')
         /\ watch' \subseteq watch /\ link' \in BOOLEAN /\ status' = "idle"
<1> DEFINE kept == [i \in Slots |-> IF Under(i) /\ task[i].of = cur /\ task[i].timer /\ task[i].at = "delay"
                                    THEN NoTask ELSE task[i]]
<1>1. TapTypeOK /\ task \in [Slots -> Task] /\ NoTask \in Task
  BY Bounds DEF TapInv, TapTypeOK, NoTask, Task
<1>2. kept \in [Slots -> Task] /\ \A j \in Slots : kept[j] = task[j] \/ kept[j].kind = "none"
  BY <1>1 DEF NoTask
<1> HIDE DEF kept
<1>3. /\ task' = IF Closes(cur) THEN Cut(kept, {"open", "setup"}) ELSE kept
      /\ link' = (link /\ ~Closes(cur))
      /\ subs' = IF Closes(cur) THEN {} ELSE subs \ {cur}
      /\ watch' \subseteq watch /\ status' = "idle"
  BY DEF Disconnect, kept
<1>4. task' \in [Slots -> Task]
      /\ \A j \in Slots : /\ task'[j].of = kept[j].of /\ task'[j].kind = kept[j].kind
                          /\ task'[j].at \in {kept[j].at, "broken"}
                          /\ Closes(cur) => task'[j].at # "setup"
  <2>1. CASE Closes(cur)
    BY <1>2, <1>3, <2>1, CutLemma
  <2>2. CASE ~Closes(cur)
    BY <1>2, <1>3, <2>2
  <2>. QED BY <2>1, <2>2
<1>5. \A j \in Active' : j \in Active /\ kept[j] = task[j]
  BY <1>2, <1>4 DEF Active, Under
<1>6. ASSUME NEW j \in Active', task'[j].at = "setup"
      PROVE  task[j].of # cur /\ link'
  <2>1. j \in Active /\ task[j].at = "setup" /\ ~Closes(cur)
    BY <1>4, <1>5, <1>6 DEF Active
  <2>2. link /\ bridge[task[j].of].server
    BY <2>1 DEF TapInv, SetupOverLink
  <2>. QED BY <1>3, <2>1, <2>2 DEF Closes
<1>7. subs' # {} => link'
  BY <1>1, <1>3 DEF TapTypeOK
<1>8. \A j \in Active' : j \in Slots
  BY DEF Active
<1>9. link' \in BOOLEAN
  BY <1>3
<1>. QED BY <1>3, <1>4, <1>5, <1>6, <1>7, <1>8, <1>9

(* The button on the page lets go of the bridge, which stays the page's.      *)
LEMMA PressDisconnectStep == ASSUME TapInv, PressDisconnect PROVE TapInv'
<1>1. TapTypeOK /\ cur \in Bridges /\ bridge[cur] \in Bridge
  BY DEF TapInv, TapTypeOK
<1>2. /\ bridge' = [bridge EXCEPT ![cur] = LetGo(cur)]
      /\ UNCHANGED <<cur, visit, live>> /\ Disconnect(cur)
  BY DEF PressDisconnect
<1>3. /\ LetGo(cur) \in Bridge /\ LetGo(cur).abort /\ LetGo(cur).visit = bridge[cur].visit
      /\ LetGo(cur).socket = bridge[cur].socket
      /\ LetGo(cur).loose = (bridge[cur].loose \/ Opening(cur))
  BY <1>1 DEF LetGo, Bridge
<1>4. \A c \in Bridges : IF c = cur THEN bridge'[c] = LetGo(cur) ELSE bridge'[c] = bridge[c]
  BY <1>1, <1>2 DEF TapTypeOK
<1>5. /\ task' \in [Slots -> Task]
      /\ Active' \subseteq Active
      /\ \A j \in Active' : /\ task'[j].of = task[j].of
                            /\ task'[j].at \in {task[j].at, "broken"}
                            /\ task'[j].at = "setup" => task[j].of # cur /\ link'
      /\ subs' \subseteq subs \ {cur} /\ (subs' # {} => link')
      /\ watch' \subseteq watch /\ link' \in BOOLEAN /\ status' = "idle"
  BY <1>2, DisconnectLemma
<1>6. \A j \in Active : j \in Slots /\ task[j].of \in Bridges
  BY <1>1 DEF Active, TapTypeOK, Task
<1>7. bridge' \in [Bridges -> Bridge]
  BY <1>1, <1>2, <1>3 DEF TapTypeOK
<1>8. TapTypeOK'
  BY <1>1, <1>2, <1>5, <1>7 DEF TapTypeOK
<1>9. TasksOfMade' /\ TasksAreHeld' /\ SetupOverLink'
  BY <1>2, <1>3, <1>4, <1>5, <1>6 DEF TapInv, TasksOfMade, TasksAreHeld, SetupOverLink
<1>10. subs \subseteq Bridges /\ cur \in Nat
  BY <1>1 DEF TapTypeOK, Bridges
<1>11. OldOnesGone' /\ NewOnesUntouched' /\ PageIsOf' /\ LetGoStaysSo'
  BY <1>1, <1>2, <1>3, <1>4, <1>5, <1>10 DEF TapInv, OldOnesGone, NewOnesUntouched, PageIsOf, LetGoStaysSo, Bridges
<1>12. SaysConnected'
  <2>1. ASSUME NoneLoose', NEW j \in Active', task'[j].of = cur
        PROVE  task'[j].at \in {"broken", "delay"}
    <3>1. j \in Active /\ task[j].of = cur /\ ~Opening(cur)
      BY <1>1, <1>3, <1>4, <1>5, <2>1 DEF NoneLoose
    <3>2. task[j].at \notin {"scan", "open"}
      BY <3>1 DEF Opening
    <3>3. task'[j] \in Task
      BY <1>5, <1>6, <3>1
    <3>. QED BY <1>5, <2>1, <3>2, <3>3 DEF Task
  <2>. QED BY <1>2, <1>5, <2>1 DEF SaysConnected
<1>. QED BY <1>8, <1>9, <1>11, <1>12 DEF TapInv

(* The effect of the hook: the bridge is let go of and another takes over.    *)
LEMMA RenewedStep ==
  ASSUME TapInv, NEW home \in 1 .. cur + 1, NEW socket \in BOOLEAN, Renewed(home, socket),
         visit' = home, live' = socket
  PROVE  TapInv'
<1> DEFINE n == cur + 1
           m == Made(home, socket)
<1>1. TapTypeOK /\ cur \in Bridges /\ bridge[cur] \in Bridge /\ n \in Bridges
  BY Bounds DEF TapInv, TapTypeOK, Renewed, Bridges
<1>2. /\ bridge' = [bridge EXCEPT ![cur] = LetGo(cur), ![n] = m]
      /\ cur' = n /\ Disconnect(cur)
  BY DEF Renewed
<1>3. /\ LetGo(cur) \in Bridge /\ LetGo(cur).abort
      /\ LetGo(cur).loose = (bridge[cur].loose \/ Opening(cur))
  BY <1>1 DEF LetGo, Bridge
<1>4. m \in Bridge /\ m.visit = home /\ m.socket = socket /\ ~m.loose /\ ~m.abort
  BY <1>1 DEF Made, Bridge, Bridges
<1> HIDE DEF m
<1>5. cur # n /\ cur < n /\ cur \in Nat
  BY <1>1 DEF Bridges
<1>6. bridge'[n] = m /\ bridge'[cur] = LetGo(cur)
      /\ \A c \in Bridges : c # cur /\ c # n => bridge'[c] = bridge[c]
  BY <1>1, <1>2, <1>5 DEF TapTypeOK
<1>7. /\ task' \in [Slots -> Task]
      /\ Active' \subseteq Active
      /\ \A j \in Active' : /\ task'[j].of = task[j].of
                            /\ task'[j].at \in {task[j].at, "broken"}
                            /\ task'[j].at = "setup" => task[j].of # cur /\ link'
      /\ subs' \subseteq subs \ {cur} /\ (subs' # {} => link')
      /\ watch' \subseteq watch /\ link' \in BOOLEAN /\ status' = "idle"
  BY <1>2, DisconnectLemma
<1>8. \A j \in Active : j \in Slots /\ task[j].of \in Bridges /\ task[j].of <= cur /\ task[j].of # n
  BY <1>1, <1>5 DEF Active, TapTypeOK, Task, TapInv, TasksOfMade, Bridges
<1>9. bridge' \in [Bridges -> Bridge]
  BY <1>1, <1>2, <1>3, <1>4 DEF TapTypeOK
<1>10. TapTypeOK'
  <2>1. subs' \subseteq 1 .. n /\ watch' \subseteq 1 .. n /\ home \in 1 .. n
    BY <1>1, <1>5, <1>7 DEF TapTypeOK
  <2>. QED BY <1>1, <1>2, <1>7, <1>9, <2>1 DEF TapTypeOK
<1>11. TasksOfMade' /\ SetupOverLink'
  <2>1. ASSUME NEW j \in Active' PROVE task'[j].of <= n
    <3>1. task'[j].of \in Nat /\ task'[j].of <= cur
      BY <1>7, <1>8 DEF Bridges
    <3>. QED BY <1>5, <3>1
  <2>2. ASSUME NEW j \in Active', task'[j].at = "setup" PROVE link' /\ bridge'[task'[j].of].server
    <3>1. j \in Active /\ task[j].at = "setup" /\ task'[j].of = task[j].of /\ task[j].of # cur /\ link'
      BY <1>7, <2>2
    <3>. QED BY <1>6, <1>8, <3>1 DEF TapInv, SetupOverLink
  <2>. QED BY <1>2, <2>1, <2>2 DEF TasksOfMade, SetupOverLink
<1>12. TasksAreHeld'
  <2>1. ASSUME NEW j \in Active', task'[j].at \in {"scan", "open", "setup"}
        PROVE  bridge'[task'[j].of].loose
    <3>1. j \in Active /\ task[j].at = task'[j].at /\ task'[j].of = task[j].of
      BY <1>7, <2>1
    <3>2. CASE task[j].of = cur
      BY <1>3, <1>6, <1>7, <2>1, <3>1, <3>2 DEF Opening
    <3>3. CASE task[j].of # cur
      BY <1>6, <1>8, <2>1, <3>1, <3>3 DEF TapInv, TasksAreHeld
    <3>. QED BY <3>2, <3>3
  <2>. QED BY <2>1 DEF TasksAreHeld
<1>13. OldOnesGone'
  <2>1. ASSUME NEW c \in Bridges, c < n PROVE bridge'[c].abort
    <3>1. c \in Nat /\ (c = cur \/ c < cur) /\ c # n
      BY <1>5, <2>1 DEF Bridges
    <3>. QED BY <1>3, <1>6, <3>1 DEF TapInv, OldOnesGone
  <2>. QED BY <1>2, <2>1 DEF OldOnesGone
<1>14. NewOnesUntouched' /\ PageIsOf'
  <2>1. ASSUME NEW c \in Bridges, c > n PROVE ~bridge'[c].loose
    <3>1. c > cur /\ c # cur /\ c # n
      BY <1>5, <2>1 DEF Bridges
    <3>. QED BY <1>6, <3>1 DEF TapInv, NewOnesUntouched
  <2>2. PageIsOf'
    BY <1>2, <1>4, <1>6 DEF PageIsOf
  <2>. QED BY <1>2, <2>1, <2>2 DEF NewOnesUntouched
<1>15. LetGoStaysSo'
  <2>1. ASSUME NEW c \in subs' PROVE bridge'[c].loose
    <3>1. c \in subs /\ c # cur /\ c \in Bridges /\ c # n
      BY <1>1, <1>5, <1>7, <2>1 DEF TapTypeOK, Bridges
    <3>. QED BY <1>6, <3>1 DEF TapInv, LetGoStaysSo
  <2>. QED BY <2>1 DEF LetGoStaysSo
<1>16. SaysConnected'
  BY <1>2, <1>4, <1>6, <1>7 DEF SaysConnected
<1>. QED BY <1>10, <1>11, <1>12, <1>13, <1>14, <1>15, <1>16 DEF TapInv

(* Every step of the button keeps the invariant.                              *)
LEMMA TapStep == TapInv /\ [TapNext]_vars => TapInv'
<1> SUFFICES ASSUME TapInv, [TapNext]_vars PROVE TapInv'
  OBVIOUS
<1>1. CASE PressConnect
  BY <1>1, PressConnectStep
<1>2. CASE PressDisconnect
  BY <1>2, PressDisconnectStep
<1>3. visit \in 1 .. cur /\ cur \in Nat /\ live \in BOOLEAN
  BY DEF TapInv, TapTypeOK, Bridges
<1>4. CASE MatchTurns
  <2>1. /\ Renewed(visit, ~live) /\ visit' = visit /\ live' = ~live
        /\ visit \in 1 .. cur + 1 /\ (~live) \in BOOLEAN
    BY <1>3, <1>4 DEF MatchTurns
  <2>. QED BY <2>1, RenewedStep
<1>5. CASE PageReopened
  BY <1>3, <1>5, RenewedStep DEF PageReopened
<1>6. CASE LinkLost
  BY <1>6, LinkLostStep
<1>7. CASE Progress
  BY <1>7, FoundStep, NotFoundStep, OpenedStep, ReadyStep, FailedStep, WaitedStep DEF Progress
<1>8. CASE UNCHANGED vars
  BY <1>8 DEF vars, TapInv, TapTypeOK, TasksOfMade, OldOnesGone, NewOnesUntouched, TasksAreHeld,
     SetupOverLink, PageIsOf, LetGoStaysSo, SaysConnected, NoneLoose, Active, Under
<1>. QED BY <1>1, <1>2, <1>4, <1>5, <1>6, <1>7, <1>8 DEF TapNext

(* The invariant holds from the first visit on.                               *)
THEOREM TapInvariance == TapSpec => []TapInv
BY TapInitLemma, TapStep, PTL DEF TapSpec

(* The bridge's fields, the tasks and the page keep their types, for any      *)
(* number of bridges, tasks and attempts (BLEBridge, useRallyTapBridge); a    *)
(* bridge hears the device only over the link.                                *)
THEOREM TapTypeCorrect == TapSpec => []TapTypeOK
<1>1. TapInv => TapTypeOK
  BY DEF TapInv
<1>. QED BY <1>1, TapInvariance, PTL

(* useRallyTapBridge, for any number of bridges, tasks and attempts: as long  *)
(* as no bridge has been let go of while it searched or opened the link, a    *)
(* page at rest that says "connected" has exactly its own bridge listening,   *)
(* so each press of the button is one point, however often the link was lost, *)
(* the match turned and the page was reopened before.                         *)
THEOREM ConnectedCorrect == TapSpec => []ConnectedCounts
<1>1. TapInv => ConnectedCounts
  <2> SUFFICES ASSUME TapInv, NoneLoose, Active = {}, live, link, status = "connected"
               PROVE  Scorers = {cur}
    BY DEF ConnectedCounts
  <2>1. cur \in Bridges
    BY DEF TapInv, TapTypeOK
  <2>2. cur \in subs
    BY <2>1 DEF TapInv, SaysConnected
  <2>3. \A b \in subs : b = cur
    BY <2>1 DEF TapInv, TapTypeOK, LetGoStaysSo, NoneLoose, Bridges
  <2>4. bridge[cur].socket
    BY DEF TapInv, PageIsOf
  <2>. QED BY <2>2, <2>3, <2>4 DEF Scorers
<1>. QED BY <1>1, TapInvariance, PTL
==============================================================================
