-------------------------- MODULE BracketEngineProofs -------------------------
(* Lemmas about the bracket's operators, for every size and every set of     *)
(* names: the shape of the tree, and what each operation does to a bracket.  *)
EXTENDS BracketEngine, TLAPS

USE RoundsAssumption, NobodyAssumption, NoCourtAssumption

------------------------------------------------------------------------------
(* The shape of the tree.                                                     *)

(* Every match below the final has a downstream match in the main bracket, of *)
(* the next round, and the third-place match is not in the main bracket.      *)
LEMMA Tree ==
  /\ FinalMatch \in Main
  /\ ThirdPlace \notin Main
  /\ \A m \in NonFinal :
       /\ m \in Main
       /\ Downstream(m) \in Main
       /\ Downstream(m)[1] = m[1] + 1
       /\ Side(m) \in Slots
<1>1. FinalMatch \in Main
  BY DEF FinalMatch, Main, Pow2
<1>2. ThirdPlace \notin Main
  BY DEF ThirdPlace, Main
<1>3. ASSUME NEW m \in NonFinal
      PROVE  m \in Main /\ Downstream(m) \in Main /\ Downstream(m)[1] = m[1] + 1
             /\ Side(m) \in Slots
  <2>1. m \in Main /\ m[1] < Rounds
    BY <1>3 DEF NonFinal
  <2>2. m[1] \in 1..Rounds /\ m[2] \in 0..15 /\ m[2] < Pow2(Rounds - m[1])
    BY <2>1 DEF Main
  <2>3. m[2] \div 2 \in 0..15 /\ m[2] \div 2 < Pow2(Rounds - (m[1] + 1))
    BY <2>1, <2>2 DEF Pow2
  <2> DEFINE d == <<m[1] + 1, m[2] \div 2>>
  <2>5. m[1] + 1 \in 1..Rounds
    BY <2>1, <2>2
  <2>6. d \in (1..Rounds) \X (0..15) /\ d[1] = m[1] + 1 /\ d[2] = m[2] \div 2
    BY <2>3, <2>5
  <2>4. d \in Main
    BY <2>3, <2>6 DEF Main
  <2>. QED
    BY <2>1, <2>2, <2>4 DEF Downstream, Side, Slots
<1>. QED BY <1>1, <1>2, <1>3

(* Two matches never feed the same slot.                                      *)
LEMMA OneFeeder ==
  \A m, n \in NonFinal : Downstream(m) = Downstream(n) /\ Side(m) = Side(n) => m = n
<1> SUFFICES ASSUME NEW m \in NonFinal, NEW n \in NonFinal,
                    Downstream(m) = Downstream(n), Side(m) = Side(n)
             PROVE  m = n
  OBVIOUS
<1>1. /\ m \in (1..Rounds) \X (0..15) /\ n \in (1..Rounds) \X (0..15)
  BY DEF NonFinal, Main
<1>2. m[1] = n[1] /\ m[2] \div 2 = n[2] \div 2
  BY <1>1 DEF Downstream
<1>3. m[2] % 2 = 0 <=> n[2] % 2 = 0
  BY DEF Side
<1>4. m[2] = n[2]
  BY <1>1, <1>2, <1>3
<1>. QED BY <1>1, <1>2, <1>4

(* Going down one step from a match on the path stays on the path, and the    *)
(* path has one match per round.                                              *)
LEMMA PathSteps ==
  \A m \in Matches, n \in Matches :
    n \in ({m} \cup Path[m]) \cap NonFinal =>
      /\ Downstream(n) \in Path[m]
      /\ \A k \in Path[m] : k[1] <= Downstream(n)[1] => k = Downstream(n) \/ k[1] <= n[1]
<1> SUFFICES ASSUME NEW m \in Matches, NEW n \in Matches,
                    n \in ({m} \cup Path[m]) \cap NonFinal
             PROVE  /\ Downstream(n) \in Path[m]
                    /\ \A k \in Path[m] : k[1] <= Downstream(n)[1]
                                          => k = Downstream(n) \/ k[1] <= n[1]
  OBVIOUS
<1>1. /\ n \in Main /\ Downstream(n) \in Main /\ Downstream(n)[1] = n[1] + 1
      /\ n[1] < Rounds
  BY Tree DEF NonFinal
<1>2. Path[m] = {k \in Main : k[1] > m[1] /\ k[2] = m[2] \div Pow2(k[1] - m[1])}
  BY DEF Path
<1>3. m \in Main
  <2>1. CASE m = n
    BY <2>1, <1>1
  <2>2. CASE n \in Path[m] /\ m = ThirdPlace
    BY <2>2, <1>2, <1>1 DEF ThirdPlace, Main
  <2>. QED BY <2>1, <2>2 DEF Matches
<1>4. /\ m[1] \in 1..Rounds /\ m[2] \in 0..15
      /\ n[1] \in 1..Rounds /\ n[2] \in 0..15
  BY <1>1, <1>3 DEF Main
<1>5. n[1] >= m[1] /\ n[2] = m[2] \div Pow2(n[1] - m[1])
  <2>1. CASE m = n
    BY <2>1, <1>4 DEF Pow2
  <2>2. CASE n \in Path[m]
    BY <2>2, <1>2, <1>4
  <2>. QED BY <2>1, <2>2
<1>6. n[1] - m[1] \in 0..3
  BY <1>1, <1>4, <1>5
<1>7. n[2] \div 2 = m[2] \div Pow2(n[1] + 1 - m[1])
  <2>1. CASE n[1] - m[1] = 0
    <3>1. n[1] + 1 - m[1] = 1
      BY <2>1, <1>4
    <3>2. Pow2(n[1] - m[1]) = 1 /\ Pow2(n[1] + 1 - m[1]) = 2
      BY <2>1, <3>1 DEF Pow2
    <3>3. m[2] \div 1 = m[2]
      BY <1>4
    <3>. QED BY <3>2, <3>3, <1>5
  <2>2. CASE n[1] - m[1] = 1
    BY <2>2, <1>4, <1>5 DEF Pow2
  <2>3. CASE n[1] - m[1] = 2
    BY <2>3, <1>4, <1>5 DEF Pow2
  <2>4. CASE n[1] - m[1] = 3
    BY <2>4, <1>4, <1>5 DEF Pow2
  <2>. QED BY <1>6, <2>1, <2>2, <2>3, <2>4
<1>8. Downstream(n) \in Path[m]
  <2>1. Downstream(n)[1] = n[1] + 1 /\ Downstream(n)[2] = n[2] \div 2
    BY DEF Downstream
  <2>2. Downstream(n)[1] > m[1]
    BY ONLY <1>4, <1>5, <2>1
  <2>3. Downstream(n)[2] = m[2] \div Pow2(Downstream(n)[1] - m[1])
    <3>1. Downstream(n)[1] - m[1] = n[1] + 1 - m[1]
      BY ONLY <1>4, <2>1
    <3>. QED BY ONLY <1>7, <2>1, <3>1, Zenon
  <2>. QED BY ONLY <1>1, <1>2, <2>2, <2>3
<1>9. ASSUME NEW k \in Path[m], k[1] <= Downstream(n)[1], ~(k[1] <= n[1])
      PROVE  k = Downstream(n)
  <2>1. k \in (1..Rounds) \X (0..15) /\ k[1] = n[1] + 1
    BY <1>1, <1>2, <1>4, <1>9 DEF Main
  <2>2. k[2] = m[2] \div Pow2(n[1] + 1 - m[1])
    <3>1. k[2] = m[2] \div Pow2(k[1] - m[1])
      BY <1>2, <1>9
    <3>2. k[1] - m[1] = n[1] + 1 - m[1]
      BY <2>1, <1>4
    <3>. QED BY <3>1, <3>2
  <2>3. k[2] = n[2] \div 2
    BY <2>2, <1>7
  <2>. QED BY <2>1, <2>3 DEF Downstream
<1>. QED BY <1>8, <1>9

------------------------------------------------------------------------------
(* What each engine operation does to the record: it stays well typed, its    *)
(* statuses agree with its contents if they did, and it changes only what the *)
(* lemma says.                                                                *)

LEMMA ThirdPlaceIsAMatch == ThirdPlace \in Matches /\ FinalMatch \in Matches /\ Main \subseteq Matches
BY Tree DEF Matches

(* computeStatus of two slots is PENDING or READY.                            *)
LEMMA OpenType == \A slots : Open(slots) \in {"PENDING", "READY"}
BY DEF Open

(* The bracket's status depends on which matches are COMPLETED, nothing more. *)
LEMMA StatusFromDecided ==
  ASSUME NEW third, NEW st1, NEW st2,
         \A m \in Matches : st1[m] = "COMPLETED" <=> st2[m] = "COMPLETED"
  PROVE  StatusFrom(third, st1) = StatusFrom(third, st2)
<1>1. st1[FinalMatch] = "COMPLETED" <=> st2[FinalMatch] = "COMPLETED"
  BY ThirdPlaceIsAMatch
<1>2. (\E m \in Main \cup (IF third THEN {ThirdPlace} ELSE {}) : st1[m] = "COMPLETED")
      <=> (\E m \in Main \cup (IF third THEN {ThirdPlace} ELSE {}) : st2[m] = "COMPLETED")
  BY ThirdPlaceIsAMatch
<1>. QED BY <1>1, <1>2 DEF StatusFrom

(* A created bracket (create) and no bracket (reset) are brackets whose       *)
(* statuses agree.                                                            *)
LEMMA BlankLemma ==
  \A status \in {"NONE", "SETUP"}, third \in BOOLEAN :
    Blank(status, third) \in Brackets /\ Agrees(Blank(status, third))
<1> SUFFICES ASSUME NEW status \in {"NONE", "SETUP"}, NEW third \in BOOLEAN
             PROVE  Blank(status, third) \in Brackets /\ Agrees(Blank(status, third))
  OBVIOUS
<1> DEFINE c == Blank(status, third)
<1>1. c \in Brackets
  BY DEF Blank, Brackets
<1>2. \A m \in Matches : c.state[m] = "PENDING" /\ c.winner[m] = "none" /\ Open(c.player[m]) = "PENDING"
  BY DEF Blank, Open, Slots
<1>3. StatusFrom(c.thirdPlace, c.state) = "SETUP"
  BY <1>2, ThirdPlaceIsAMatch DEF StatusFrom
<1>4. c.status = status
  BY DEF Blank
<1>. QED BY <1>1, <1>2, <1>3, <1>4 DEF Agrees

(* assignPlayer keeps the type, the winners and which matches are decided,    *)
(* and an undecided match's status agrees with its slots afterwards.          *)
LEMMA AssignLemma ==
  ASSUME NEW b \in Brackets, NEW m \in Matches, NEW s \in Slots,
         NEW name \in Names \cup {Nobody}
  PROVE  LET c == AssignPlayer(b, m, s, name)
         IN  /\ c \in Brackets
             /\ c.winner = b.winner
             /\ \A n \in Matches : c.state[n] = "COMPLETED" <=> b.state[n] = "COMPLETED"
             /\ \A n \in Matches, t \in Slots :
                  <<n, t>> # <<m, s>> => c.player[n][t] = b.player[n][t]
             /\ Agrees(b) => Agrees(c)
<1> DEFINE c == AssignPlayer(b, m, s, name)
           slots == [b.player[m] EXCEPT ![s] = name]
           st == IF b.state[m] = "COMPLETED" THEN "COMPLETED" ELSE Open(slots)
<1>1. slots \in [Slots -> Names \cup {Nobody}]
  BY DEF Brackets
<1>2. st \in {"PENDING", "READY", "COMPLETED"} /\ (st = "COMPLETED" <=> b.state[m] = "COMPLETED")
  BY OpenType
<1>3. /\ c.player = [b.player EXCEPT ![m] = slots]
      /\ c.state = [b.state EXCEPT ![m] = st]
      /\ c.winner = b.winner /\ c.court = b.court
      /\ c.status = b.status /\ c.thirdPlace = b.thirdPlace
  BY DEF AssignPlayer, Brackets
<1>4. c \in Brackets
  BY <1>1, <1>2 DEF AssignPlayer, Brackets
<1>5. \A n \in Matches : c.state[n] = "COMPLETED" <=> b.state[n] = "COMPLETED"
  BY <1>2, <1>3 DEF Brackets
<1>6. \A n \in Matches, t \in Slots : <<n, t>> # <<m, s>> => c.player[n][t] = b.player[n][t]
  BY <1>3 DEF Brackets
<1>7. ASSUME Agrees(b) PROVE Agrees(c)
  <2>1. \A n \in Matches : c.state[n] # "COMPLETED" => c.state[n] = Open(c.player[n])
    BY <1>2, <1>3, <1>7 DEF Agrees, Brackets
  <2>2. StatusFrom(c.thirdPlace, c.state) = StatusFrom(b.thirdPlace, b.state)
    <3> HIDE DEF c
    <3>1. StatusFrom(b.thirdPlace, c.state) = StatusFrom(b.thirdPlace, b.state)
      BY <1>5, StatusFromDecided, Zenon
    <3>. QED BY <3>1, <1>3
  <2>. QED BY <1>3, <1>5, <1>7, <2>1, <2>2 DEF Agrees
<1>. QED BY <1>3, <1>4, <1>5, <1>6, <1>7

(* setWinner keeps the type and the statuses of the bracket.                  *)
LEMMA SetWinnerLemma ==
  ASSUME NEW b \in Brackets, NEW m \in Matches, NEW s \in Slots, CanSetWinner(b, m, s)
  PROVE  LET c == SetWinner(b, m, s)
         IN  /\ c \in Brackets
             /\ c.winner = [b.winner EXCEPT ![m] = s]
             /\ c.state[m] = "COMPLETED"
             /\ \A n \in Matches \ {m} :
                  c.state[n] = "COMPLETED" <=> b.state[n] = "COMPLETED"
             /\ m \in NonFinal => c.player[Downstream(m)][Side(m)] = b.player[m][s]
             /\ \A n \in Matches, t \in Slots :
                  ~(m \in NonFinal /\ n = Downstream(m) /\ t = Side(m))
                  => c.player[n][t] = b.player[n][t]
             /\ Agrees(b) => Agrees(c)
<1> DEFINE c == SetWinner(b, m, s)
           next == Downstream(m)
           slots == [b.player[next] EXCEPT ![Side(m)] = b.player[m][s]]
           won == [b.state EXCEPT ![m] = "COMPLETED"]
           states == IF m \notin NonFinal \/ b.state[next] = "COMPLETED"
                     THEN won ELSE [won EXCEPT ![next] = Open(slots)]
           players == IF m \in NonFinal THEN [b.player EXCEPT ![next] = slots] ELSE b.player
<1>1. m \in NonFinal => /\ next \in Matches /\ Side(m) \in Slots /\ next # m
                        /\ slots \in [Slots -> Names \cup {Nobody}]
  <2>1. ASSUME m \in NonFinal PROVE next \in Matches /\ Side(m) \in Slots /\ next[1] = m[1] + 1
    BY <2>1, Tree, ThirdPlaceIsAMatch
  <2>2. ASSUME m \in NonFinal PROVE m[1] \in 1..Rounds
    BY <2>2 DEF NonFinal, Main
  <2>3. ASSUME m \in NonFinal PROVE next # m
    BY <2>1, <2>2, <2>3
  <2>. QED BY <2>1, <2>3 DEF Brackets
<1>2. won \in [Matches -> {"PENDING", "READY", "COMPLETED"}]
  BY DEF Brackets
<1>3. states \in [Matches -> {"PENDING", "READY", "COMPLETED"}]
  BY <1>1, <1>2, OpenType
<1>4. players \in [Matches -> [Slots -> Names \cup {Nobody}]]
  BY <1>1 DEF Brackets
<1>5. /\ c.player = players /\ c.state = states
      /\ c.winner = [b.winner EXCEPT ![m] = s] /\ c.court = b.court
      /\ c.status = StatusFrom(b.thirdPlace, states) /\ c.thirdPlace = b.thirdPlace
  BY DEF SetWinner, Brackets
<1>6. c = [b EXCEPT !.winner = [b.winner EXCEPT ![m] = s], !.player = players,
                    !.state = states, !.status = StatusFrom(b.thirdPlace, states)]
  BY DEF SetWinner, Brackets
<1>7. StatusFrom(b.thirdPlace, states) \in {"SETUP", "ACTIVE", "COMPLETED"}
  BY DEF StatusFrom
<1>8. [b.winner EXCEPT ![m] = s] \in [Matches -> Slots \cup {"none"}]
  BY DEF Brackets
<1>9. c \in Brackets
  <2> HIDE DEF c, states, players
  <2>. QED BY <1>3, <1>4, <1>6, <1>7, <1>8 DEF Brackets
<1>10. /\ c.state[m] = "COMPLETED"
       /\ \A n \in Matches \ {m} : c.state[n] = "COMPLETED" <=> b.state[n] = "COMPLETED"
  BY <1>1, <1>5, OpenType DEF Brackets
<1>11. /\ m \in NonFinal => c.player[next][Side(m)] = b.player[m][s]
       /\ \A n \in Matches, t \in Slots :
            ~(m \in NonFinal /\ n = next /\ t = Side(m)) => c.player[n][t] = b.player[n][t]
  BY <1>1, <1>5 DEF Brackets
<1>12. ASSUME Agrees(b) PROVE Agrees(c)
  <2>1. ASSUME NEW n \in Matches, c.state[n] # "COMPLETED"
        PROVE  c.state[n] = Open(c.player[n])
    <3>1. n # m /\ b.state[n] # "COMPLETED" /\ b.state[n] = Open(b.player[n])
      BY <1>10, <1>12, <2>1 DEF Agrees
    <3>2. CASE m \in NonFinal /\ n = next
      <4>1. c.player[n] = slots
        BY <1>1, <1>5, <3>2 DEF Brackets
      <4>2. states = [won EXCEPT ![next] = Open(slots)]
        BY <3>1, <3>2
      <4>3. c.state[n] = Open(slots)
        BY <1>1, <1>2, <1>5, <3>2, <4>2
      <4>. QED BY <4>1, <4>3
    <3>3. CASE ~(m \in NonFinal /\ n = next)
      BY <1>1, <1>5, <3>1, <3>3 DEF Brackets
    <3>. QED BY <3>2, <3>3
  <2>2. \A n \in Matches : c.state[n] = "COMPLETED" <=> c.winner[n] # "none"
    <3>1. c.winner[m] = s /\ s # "none"
      BY <1>5 DEF Brackets, Slots
    <3>2. \A n \in Matches \ {m} : c.winner[n] = b.winner[n]
      BY <1>5 DEF Brackets
    <3>. QED BY <1>10, <1>12, <3>1, <3>2 DEF Agrees
  <2>. QED BY <1>5, <2>1, <2>2 DEF Agrees
<1>. QED BY <1>5, <1>9, <1>10, <1>11, <1>12

(* setThirdPlaceLoser keeps the type and the statuses of the bracket.         *)
LEMMA FeedLemma ==
  ASSUME NEW b \in Brackets, NEW m \in Main, NEW loser \in Slots
  PROVE  LET c == FeedThirdPlace(b, m, loser)
         IN  /\ c \in Brackets
             /\ c.winner = b.winner
             /\ \A n \in Matches : c.state[n] = "COMPLETED" <=> b.state[n] = "COMPLETED"
             /\ \A n \in Main : c.player[n] = b.player[n]
             /\ Agrees(b) => Agrees(c)
<1> DEFINE name == b.player[m][loser]
           slots == [b.player[ThirdPlace] EXCEPT ![Side(m)] = name]
           keep == \/ name = Nobody
                   \/ b.player[ThirdPlace][Side(m)] # Nobody
                   \/ b.state[ThirdPlace] = "COMPLETED"
           c == FeedThirdPlace(b, m, loser)
<1>1. CASE keep
  <2>1. c = b
    BY <1>1 DEF FeedThirdPlace
  <2>. QED BY <2>1
<1>2. CASE ~keep
  <2>1. c = [b EXCEPT !.player[ThirdPlace] = slots, !.state[ThirdPlace] = Open(slots)]
    BY <1>2 DEF FeedThirdPlace
  <2>2. slots \in [Slots -> Names \cup {Nobody}]
    BY ThirdPlaceIsAMatch DEF Brackets, Side, Slots
  <2>3. /\ c.player = [b.player EXCEPT ![ThirdPlace] = slots]
        /\ c.state = [b.state EXCEPT ![ThirdPlace] = Open(slots)]
        /\ c.winner = b.winner /\ c.status = b.status /\ c.thirdPlace = b.thirdPlace
    BY <2>1 DEF Brackets
  <2>4. c \in Brackets
    <3>1. c = [b EXCEPT !.player = [b.player EXCEPT ![ThirdPlace] = slots],
                        !.state = [b.state EXCEPT ![ThirdPlace] = Open(slots)]]
      BY <2>1 DEF Brackets
    <3>2. [b.player EXCEPT ![ThirdPlace] = slots] \in [Matches -> [Slots -> Names \cup {Nobody}]]
      BY <2>2 DEF Brackets
    <3>3. [b.state EXCEPT ![ThirdPlace] = Open(slots)]
          \in [Matches -> {"PENDING", "READY", "COMPLETED"}]
      BY OpenType DEF Brackets
    <3> HIDE DEF c, slots
    <3>. QED BY <3>1, <3>2, <3>3 DEF Brackets
  <2>5. \A n \in Matches : c.state[n] = "COMPLETED" <=> b.state[n] = "COMPLETED"
    BY <1>2, <2>3, ThirdPlaceIsAMatch, OpenType DEF Brackets
  <2>6. \A n \in Main : c.player[n] = b.player[n]
    BY <2>3, Tree, ThirdPlaceIsAMatch DEF Brackets
  <2>7. ASSUME Agrees(b) PROVE Agrees(c)
    <3>1. \A n \in Matches : c.state[n] # "COMPLETED" => c.state[n] = Open(c.player[n])
      BY <2>3, <2>5, <2>7, ThirdPlaceIsAMatch DEF Agrees, Brackets
    <3>2. StatusFrom(b.thirdPlace, c.state) = StatusFrom(b.thirdPlace, b.state)
      <4> HIDE DEF c
      <4>. QED BY <2>5, StatusFromDecided, Zenon
    <3>. QED BY <2>3, <2>5, <2>7, <3>1, <3>2 DEF Agrees
  <2>. QED BY <2>3, <2>4, <2>5, <2>6, <2>7
<1>. QED BY <1>1, <1>2

(* The matches an undo reverts are closed under "the next one was decided".   *)
LEMMA RevertedClosed ==
  ASSUME NEW b \in Brackets, NEW m \in Matches
  PROVE  /\ m \in Reverted(b, m) /\ Reverted(b, m) \subseteq Matches
         /\ \A n \in Reverted(b, m) \cap NonFinal :
              b.state[Downstream(n)] = "COMPLETED" => Downstream(n) \in Reverted(b, m)
<1>1. Path[m] \subseteq Main
  BY DEF Path
<1>2. m \in Reverted(b, m) /\ Reverted(b, m) \subseteq {m} \cup Path[m]
  BY DEF Reverted
<1>3. ASSUME NEW n \in Reverted(b, m) \cap NonFinal, b.state[Downstream(n)] = "COMPLETED"
      PROVE  Downstream(n) \in Reverted(b, m)
  <2>1. /\ Downstream(n) \in Path[m]
        /\ \A k \in Path[m] : k[1] <= Downstream(n)[1] => k = Downstream(n) \/ k[1] <= n[1]
    BY <1>1, <1>2, <1>3, PathSteps, ThirdPlaceIsAMatch
  <2>2. \A k \in Path[m] : k[1] <= n[1] => b.state[k] = "COMPLETED"
    <3>1. CASE n = m
      <4>1. \A k \in Path[m] : k[1] > m[1] /\ k[1] \in Int
        BY DEF Path, Main
      <4>2. m[1] \in Int
        BY <1>3, <3>1 DEF NonFinal, Main
      <4>. QED BY <3>1, <4>1, <4>2
    <3>2. CASE n # m
      BY <1>3, <3>2 DEF Reverted
    <3>. QED BY <3>1, <3>2
  <2>. QED BY <1>3, <2>1, <2>2 DEF Reverted
<1>. QED BY <1>1, <1>2, <1>3, ThirdPlaceIsAMatch

(* undoMatch keeps the type and the statuses of the bracket.                  *)
LEMMA UndoLemma ==
  ASSUME NEW b \in Brackets, NEW m \in Matches
  PROVE  LET c == UndoMatch(b, m)
             R == Reverted(b, m)
         IN  /\ c \in Brackets
             /\ \A n \in Matches : c.state[n] = "COMPLETED" <=> b.state[n] = "COMPLETED" /\ n \notin R
             /\ \A n \in Matches \ R : c.winner[n] = b.winner[n]
             /\ \A n \in Main, t \in Slots : c.player[n][t] = NameLeft(b, R, n, t)
             /\ Agrees(b) => Agrees(c)
<1> DEFINE c == UndoMatch(b, m)
           R == Reverted(b, m)
           freed == FreedThird(b, R)
           again == Recomputed(b, R, freed)
           left(n) == [s \in Slots |-> IF n = ThirdPlace /\ s \in freed THEN Nobody
                                       ELSE NameLeft(b, R, n, s)]
           states == [n \in Matches |-> IF n \in again THEN Open(left(n)) ELSE b.state[n]]
           players == [n \in Matches |-> left(n)]
           winners == [n \in Matches |-> IF n \in R THEN "none" ELSE b.winner[n]]
<1>1. c = [b EXCEPT !.player = players, !.winner = winners, !.state = states,
                    !.status = StatusFrom(b.thirdPlace, states)]
  BY DEF UndoMatch
<1>2. \A n \in Matches, s \in Slots : NameLeft(b, R, n, s) \in Names \cup {Nobody}
  BY DEF NameLeft, Brackets
<1>3. players \in [Matches -> [Slots -> Names \cup {Nobody}]]
  BY <1>2
<1>4. winners \in [Matches -> Slots \cup {"none"}]
  BY DEF Brackets
<1>5. states \in [Matches -> {"PENDING", "READY", "COMPLETED"}]
  BY OpenType DEF Brackets
<1>6. StatusFrom(b.thirdPlace, states) \in {"SETUP", "ACTIVE", "COMPLETED"}
  BY DEF StatusFrom
<1>7. /\ c.player = players /\ c.winner = winners /\ c.state = states
      /\ c.status = StatusFrom(b.thirdPlace, states) /\ c.thirdPlace = b.thirdPlace
  <2> HIDE DEF c, players, winners, states
  <2>. QED BY <1>1 DEF Brackets
<1>8. c \in Brackets
  <2> HIDE DEF c, players, winners, states
  <2>. QED BY <1>1, <1>3, <1>4, <1>5, <1>6 DEF Brackets
<1>9. \A n \in again : n \in R \/ b.state[n] # "COMPLETED"
  <2>1. ASSUME NEW e \in Emptied(R) PROVE e[1] \in R \/ b.state[e[1]] # "COMPLETED"
    BY <2>1, RevertedClosed DEF Emptied
  <2>. QED BY <2>1 DEF Recomputed
<1>10. R \subseteq again
  BY DEF Recomputed
<1>11. \A n \in Matches : c.state[n] = "COMPLETED" <=> b.state[n] = "COMPLETED" /\ n \notin R
  <2> HIDE DEF c, R, again, left
  <2>. QED BY <1>7, <1>9, <1>10, OpenType
<1>12. \A n \in Matches \ R : c.winner[n] = b.winner[n]
  BY <1>7
<1>13. \A n \in Main, t \in Slots : c.player[n][t] = NameLeft(b, R, n, t)
  BY <1>7, Tree, ThirdPlaceIsAMatch
<1>14. ASSUME Agrees(b) PROVE Agrees(c)
  <2>1. ASSUME NEW n \in Matches, c.state[n] # "COMPLETED"
        PROVE  c.state[n] = Open(c.player[n])
    <3>1. CASE n \in again
      BY <1>7, <3>1
    <3>2. CASE n \notin again
      <4>1. c.state[n] = b.state[n]
        BY <1>7, <3>2
      <4>2. \A s \in Slots : NameLeft(b, R, n, s) = b.player[n][s]
        <5>1. ASSUME NEW s \in Slots PROVE <<n, s>> \notin Emptied(R)
          BY <3>2 DEF Recomputed
        <5>. QED BY <5>1 DEF NameLeft
      <4>3. ~(n = ThirdPlace /\ freed # {})
        BY <2>1, <3>2, <4>1 DEF Recomputed
      <4>4. left(n) = b.player[n]
        <5>1. b.player[n] \in [Slots -> Names \cup {Nobody}]
          BY DEF Brackets
        <5>2. left(n) = [s \in Slots |-> b.player[n][s]]
          BY <4>2, <4>3
        <5>. QED BY <5>1, <5>2
      <4>. QED BY <1>7, <1>14, <2>1, <4>1, <4>4 DEF Agrees
    <3>. QED BY <3>1, <3>2
  <2>2. ASSUME NEW n \in Matches
        PROVE  c.state[n] = "COMPLETED" <=> c.winner[n] # "none"
    BY <1>7, <1>11, <1>14 DEF Agrees
  <2>. QED BY <1>7, <2>1, <2>2 DEF Agrees
<1>. QED BY <1>8, <1>11, <1>12, <1>13, <1>14
==============================================================================
