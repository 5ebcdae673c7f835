-------------------------------- MODULE Screens -------------------------------
(***************************************************************************)
(* The hub and one television on /kiosk: SpotlightHandler and the          *)
(* broadcasts of SocketHandler on one side, KioskPage, KioskAllCourtsPage, *)
(* ClubKioskPage and KioskBracketPage with useSocketState on the other.    *)
(* The organiser, the club's admin and the referees act at any time; what  *)
(* they send is served at once.                                            *)
(*                                                                         *)
(* A message reaches the television before React renders what it changed,  *)
(* and several may: Deliver and Render are steps of their own.  A court is *)
(* a number, its score one number, and the bracket its revision.           *)
(* Pages and rotation of the grid, notifications, names and texts are left *)
(* out; so is POST /finish, after which the hub tells every screen of no   *)
(* tournament court at all.                                                *)
(***************************************************************************)
EXTENDS Integers, Sequences, FiniteSets, FiniteSetsExt

CONSTANTS
  TournamentCourts, ClubCourts,
  Configured,            \* the club has been set up when the hub starts
  MaxScore,              \* the score that wins a match
  MaxActs                \* bound: what people do, and connections lost

ASSUME ScreensAssumption ==
  /\ TournamentCourts \subseteq Nat \ {0} /\ ClubCourts \subseteq Nat \ {0}
  /\ IsFiniteSet(TournamentCourts) /\ IsFiniteSet(ClubCourts)
  /\ TournamentCourts \cap ClubCourts = {}
  /\ Configured \in BOOLEAN /\ {MaxScore, MaxActs} \subseteq Nat

ScreenCourts == TournamentCourts \cup ClubCourts
Modes == {"club", "tournament", "bracket"}
None == 0

VARIABLES
  star,      \* courts with featured set
  under,     \* tournament: LIVE or WAITING; club: OCCUPIED with a match
  score,     \* of each court
  mode,      \* kioskMode
  revision,  \* how often the bracket has changed
  room,      \* the rooms of courts the television's socket is in
  tv,        \* the state of the page
  down, up,  \* what is on its way to the television and to the hub
  untold,    \* history: courts whose score changed without a MATCH_UPDATE
  unsaid,    \* history: the star of a club court went without CLUB_KIOSK_DATA
  missed,    \* history: a subscription was refused or lost
  acts

hub == <<star, under, score, mode, revision>>
screensVars == <<star, under, score, mode, revision, room, tv, down, up, untold, unsaid, missed, acts>>

\* conn: up, lost, or given up; list and club: the courts the context and the page
\* ClubKioskPage hold; wanted: the mode of KioskPage, page: the one rendered; sub:
\* the court in the spotlight; match: the match on the scoreboard, of which court.
Match == [court : ScreenCourts \cup {None}, score : 0 .. MaxScore]
Snapshot(courts) == [starred : SUBSET courts, under : SUBSET courts]
Pages == {"none", "loading"} \cup Modes

EmptyList == [starred |-> {}, under |-> {}]
NoMatch == [court |-> None, score |-> 0]

NewPage ==
  [conn |-> "up", list |-> EmptyList, club |-> EmptyList, bracket |-> 0, wanted |-> "loading",
   page |-> "none", sub |-> None, match |-> NoMatch]

Television ==
  [conn : {"up", "lost", "dead"}, list : Snapshot(TournamentCourts), club : Snapshot(ClubCourts),
   bracket : Nat, wanted : Modes \cup {"loading"}, page : Pages,
   sub : ScreenCourts \cup {None}, match : Match]

ScreensTypeOK ==
  /\ star \subseteq ScreenCourts /\ \A c, d \in star : c = d
  /\ under \subseteq ScreenCourts /\ room \subseteq ScreenCourts /\ untold \subseteq ScreenCourts
  /\ score \in [ScreenCourts -> 0 .. MaxScore]
  /\ mode \in Modes /\ revision \in Nat
  /\ tv \in Television
  /\ tv.sub # None => tv.page \in {"tournament", "club"}
  /\ unsaid \in BOOLEAN /\ missed \in BOOLEAN /\ acts \in Nat
------------------------------------------------------------------------------
(* Messages.                                                                 *)

Public(courts, starred, courtsUnder) ==
  [starred |-> starred \cap courts, under |-> courtsUnder \cap courts]

CourtList(starred, courtsUnder) ==
  [kind |-> "list", of |-> Public(TournamentCourts, starred, courtsUnder)]
ClubData(starred, courtsUnder) ==
  [kind |-> "club", of |-> Public(ClubCourts, starred, courtsUnder)]
CourtUpdate(c, starred, courtsUnder) ==
  [kind |-> "update", court |-> c, of |-> Public({c}, starred, courtsUnder)]
MatchUpdate(c, points) == [kind |-> "match", of |-> [court |-> c, score |-> points]]
ModeIs(m) == [kind |-> "mode", of |-> m]
BracketIs(v) == [kind |-> "bracket", of |-> v]

Ask(kind, c) == [kind |-> kind, court |-> c]

\* onTableUpdate tells everyone of a change of a court.
Told(c, starred, courtsUnder) ==
  IF c \in ClubCourts THEN <<ClubData(starred, courtsUnder)>>
  ELSE <<CourtList(starred, courtsUnder)>>

ToRoom(c, m) == IF c \in room THEN <<m>> ELSE <<>>

Emit(messages) == down' = IF tv.conn = "up" THEN down \o messages ELSE down

\* The club's courts are told of.
SaysClub(messages) == \E i \in DOMAIN messages : messages[i].kind = "club"

Act == acts < MaxActs /\ acts' = acts + 1
ActLeaves == UNCHANGED <<room, tv, up, missed>>
------------------------------------------------------------------------------
(* SET_FEATURED, and the other acts of the people at the hub.                *)

\* Each court told of by itself: a club's by CLUB_KIOSK_DATA.
Starring(c, starred) ==
  IF c \in ClubCourts THEN <<ClubData(starred, under)>> ELSE <<CourtUpdate(c, starred, under)>>

Unstarring ==
  LET others == star \cap TournamentCourts
  IN  IF others = {} THEN <<>> ELSE <<CourtUpdate(Min(others), {}, under)>>

Sole(c) == {c}

\* The court that loses the star to c is told of only if it is a tournament court.
SetFeatured(c) ==
  LET said == (IF star = {c} THEN <<>> ELSE Unstarring) \o Starring(c, {c})
  IN  /\ Act
      /\ star' = Sole(c)
      /\ Emit(said)
      /\ unsaid' = ((unsaid \/ (star \ {c}) \cap ClubCourts # {}) /\ ~SaysClub(said))
      /\ UNCHANGED <<under, score, mode, revision, untold>> /\ ActLeaves

ClearFeatured ==
  /\ Act /\ star # {}
  /\ star' = {}
  /\ Emit(Starring(Min(star), {}))
  /\ unsaid' = (unsaid /\ star \cap ClubCourts = {})
  /\ UNCHANGED <<under, score, mode, revision, untold>> /\ ActLeaves

SetKioskMode(m) ==
  /\ Act
  /\ mode' = m
  /\ Emit(<<ModeIs(m)>>)
  /\ UNCHANGED <<star, under, score, revision, untold, unsaid>> /\ ActLeaves

RecordPoint(c) ==
  /\ Act /\ c \in under /\ score[c] + 1 < MaxScore
  /\ score' = [score EXCEPT ![c] = @ + 1]
  /\ Emit(Told(c, star, under) \o ToRoom(c, MatchUpdate(c, score'[c])))
  /\ untold' = untold \ {c} /\ unsaid' = (unsaid /\ c \notin ClubCourts)
  /\ UNCHANGED <<star, under, mode, revision>> /\ ActLeaves

\* The winning point: a tournament court loses its star and its match of the
\* bracket is decided before the court is told of; a club's stays as it is.
MatchWon(c) ==
  /\ Act /\ c \in under /\ score[c] + 1 = MaxScore
  /\ score' = [score EXCEPT ![c] = MaxScore]
  /\ untold' = untold \ {c} /\ unsaid' = (unsaid /\ c \notin ClubCourts)
  /\ IF c \in ClubCourts
     THEN /\ Emit(ToRoom(c, MatchUpdate(c, MaxScore)) \o Told(c, star, under)
                    \o ToRoom(c, MatchUpdate(c, MaxScore)))
          /\ UNCHANGED <<star, under, revision>>
     ELSE /\ star' = star \ {c} /\ under' = under \ {c} /\ revision' = revision + 1
          /\ Emit((IF c \in star THEN <<CourtUpdate(c, star', under')>> ELSE <<>>)
                    \o <<BracketIs(revision')>> \o Told(c, star', under')
                    \o ToRoom(c, MatchUpdate(c, MaxScore)))
  /\ UNCHANGED mode /\ ActLeaves

\* The court's next match: START_MATCH, CLUB_NEW_MATCH.
StartMatch(c) ==
  /\ Act /\ (c \notin under \/ score[c] = MaxScore)
  /\ score' = [score EXCEPT ![c] = 0] /\ under' = under \cup {c}
  /\ Emit(Told(c, star, under') \o ToRoom(c, MatchUpdate(c, 0)))
  /\ untold' = untold \ {c} /\ unsaid' = (unsaid /\ c \notin ClubCourts)
  /\ UNCHANGED <<star, mode, revision>> /\ ActLeaves

\* RESET_COURT, CLUB_RESET_MATCH: the room hears no MATCH_UPDATE.
ResetMatch(c) ==
  /\ Act /\ score[c] # 0 /\ (c \in ClubCourts => c \in under)
  /\ score' = [score EXCEPT ![c] = 0] /\ under' = under \cup {c}
  /\ Emit(Told(c, star, under'))
  /\ untold' = untold \cup {c} /\ unsaid' = (unsaid /\ c \notin ClubCourts)
  /\ UNCHANGED <<star, mode, revision>> /\ ActLeaves

\* A session ends, or goes on without a match; the court keeps its star.
EndSession(c) ==
  /\ Act /\ c \in ClubCourts \cap under
  /\ under' = under \ {c} /\ score' = [score EXCEPT ![c] = 0]
  /\ Emit(Told(c, star, under'))
  /\ untold' = untold \cup {c} /\ unsaid' = FALSE
  /\ UNCHANGED <<star, mode, revision>> /\ ActLeaves
------------------------------------------------------------------------------
(* What the television asks for.                                             *)

\* LIST_COURTS, by the page's context once its socket is made.
AsksForCourts == <<Ask("list", None)>>

Answer(ask) ==
  CASE ask.kind = "list"   -> <<CourtList(star, under)>>
    [] ask.kind = "mode"   -> <<ModeIs(mode)>>
    [] ask.kind = "config" -> <<ClubData(star, under)>>
    [] ask.kind = "sub"    -> IF ask.court \in star THEN <<MatchUpdate(ask.court, score[ask.court])>>
                              ELSE <<>>
    [] OTHER               -> <<>>

Serve ==
  /\ tv.conn = "up" /\ up # <<>>
  /\ LET ask == Head(up)
         joins == ask.kind = "sub" /\ ask.court \in star
     IN  /\ down' = down \o Answer(ask)
         /\ room' = IF joins THEN room \cup {ask.court}
                    ELSE IF ask.kind = "unsub" THEN room \ {ask.court} ELSE room
         /\ untold' = IF joins THEN untold \ {ask.court} ELSE untold
         /\ unsaid' = (unsaid /\ ask.kind # "config")
         /\ missed' = (missed \/ (ask.kind = "sub" /\ ~joins))
  /\ up' = Tail(up)
  /\ UNCHANGED <<hub, tv, acts>>
------------------------------------------------------------------------------
(* The television.                                                           *)

\* handleCourtUpdate merges one court into the list.
Merged(list, message) ==
  [starred |-> (list.starred \ {message.court}) \cup message.of.starred,
   under |-> (list.under \ {message.court}) \cup message.of.under]

\* KioskPage hears of the mode once it is mounted, ClubKioskPage of the club's
\* courts, and the spotlight of the match of any court while it is on.
Received(message) ==
  CASE message.kind = "list"    -> [tv EXCEPT !.list = message.of]
    [] message.kind = "update"  -> [tv EXCEPT !.list = Merged(@, message)]
    [] message.kind = "bracket" -> [tv EXCEPT !.bracket = message.of]
    [] message.kind = "mode" /\ tv.page # "none"  -> [tv EXCEPT !.wanted = message.of]
    [] message.kind = "club" /\ tv.page = "club"  -> [tv EXCEPT !.club = message.of]
    [] message.kind = "match" /\ tv.sub # None    -> [tv EXCEPT !.match = message.of]
    [] OTHER -> tv

Deliver ==
  /\ tv.conn = "up" /\ down # <<>>
  /\ tv' = Received(Head(down))
  /\ down' = Tail(down)
  /\ UNCHANGED <<hub, room, up, untold, unsaid, missed, acts>>

\* Mutant: the page trusts the mode that came with the connection.
AsksNothing == <<>>

\* GET_KIOSK_MODE
AsksOnMount == <<Ask("mode", None)>>

Mount ==
  /\ tv.page = "none"
  /\ tv' = [tv EXCEPT !.page = "loading"]
  /\ up' = up \o AsksOnMount
  /\ UNCHANGED <<hub, room, down, untold, unsaid, missed, acts>>

\* The court a snapshot puts in the spotlight.
Spotlight(snapshot) ==
  LET chosen == snapshot.starred \cap snapshot.under
  IN  IF chosen = {} THEN None ELSE Min(chosen)

Chosen(page) ==
  IF page = "tournament" THEN Spotlight(tv.list)
  ELSE IF page = "club" THEN Spotlight(tv.club) ELSE None

Leave(c) == IF c = None THEN <<>> ELSE <<Ask("unsub", c)>>
Enter(c) == IF c = None THEN <<>> ELSE <<Ask("sub", c)>>

\* Mutants: the new court is subscribed to first; the club's page waits for the next
\* broadcast.
SwitchBackwards(old, new) == Enter(new) \o Leave(old)
MountsSilently(page) == <<>>

Switch(old, new) == Leave(old) \o Enter(new)

Mounts(page) == IF page = "club" THEN <<Ask("config", None)>> ELSE <<>>

\* From one court straight to another the tournament's page blanks the scoreboard;
\* when there is none the club's does.
Kept(page, new) ==
  CASE page = "tournament" /\ new # None /\ tv.sub # None -> NoMatch
    [] page = "club" /\ new = None -> NoMatch
    [] OTHER -> tv.match

Render ==
  /\ tv.page # "none" /\ tv.conn # "dead"
  /\ \/ /\ tv.wanted # tv.page
        /\ LET new == IF tv.wanted = "tournament" THEN Spotlight(tv.list) ELSE None
           IN  /\ tv' = [tv EXCEPT !.page = tv.wanted, !.sub = new, !.match = NoMatch, !.club = EmptyList]
               /\ up' = up \o Leave(tv.sub) \o Mounts(tv.wanted) \o Enter(new)
     \/ /\ tv.wanted = tv.page /\ Chosen(tv.page) # tv.sub
        /\ LET new == Chosen(tv.page)
           IN  /\ tv' = [tv EXCEPT !.sub = new, !.match = Kept(tv.page, new)]
               /\ up' = up \o Switch(tv.sub, new)
  /\ UNCHANGED <<hub, room, down, untold, unsaid, missed, acts>>
------------------------------------------------------------------------------
(* The connection.                                                           *)

\* What a socket is told when it connects.
Pushed == <<CourtList(star, under), ClubData(star, under), ModeIs(mode), BracketIs(revision)>>

Drop ==
  /\ Act /\ tv.conn = "up"
  /\ tv' = [tv EXCEPT !.conn = "lost"]
  /\ room' = {} /\ down' = <<>> /\ up' = <<>>
  /\ missed' = TRUE
  /\ UNCHANGED <<hub, untold, unsaid>>

\* The same socket connects again.  No effect of a page depends on that: nothing
\* is subscribed to anew.
Reconnect ==
  /\ tv.conn = "lost"
  /\ tv' = [tv EXCEPT !.conn = "up"]
  /\ down' = Pushed
  /\ unsaid' = FALSE
  /\ UNCHANGED <<hub, room, up, untold, missed, acts>>

\* The pages that reload ten seconds after the connection is lost.
Reloading == {"tournament", "bracket"}

Reload ==
  /\ tv.conn = "lost" /\ tv.page \in Reloading
  /\ tv' = NewPage
  /\ down' = Pushed /\ up' = AsksForCourts
  /\ unsaid' = FALSE /\ missed' = FALSE
  /\ UNCHANGED <<hub, room, untold, acts>>

\* Five attempts of the socket have failed; its page shows what it last heard.
GiveUp ==
  /\ tv.conn = "lost" /\ tv.page \notin Reloading
  /\ tv' = [tv EXCEPT !.conn = "dead"]
  /\ UNCHANGED <<hub, room, down, up, untold, unsaid, missed, acts>>
------------------------------------------------------------------------------
ScreensInit ==
  /\ star = {} /\ under = TournamentCourts /\ score = [c \in ScreenCourts |-> 0]
  /\ mode = (IF Configured THEN "club" ELSE "tournament") /\ revision = 0
  /\ room = {} /\ tv = NewPage /\ down = Pushed /\ up = AsksForCourts
  /\ untold = {} /\ unsaid = FALSE /\ missed = FALSE
  /\ acts = 0

People ==
  \/ ClearFeatured
  \/ \E m \in Modes : SetKioskMode(m)
  \/ \E c \in ScreenCourts :
       \/ SetFeatured(c) \/ RecordPoint(c) \/ MatchWon(c)
       \/ StartMatch(c) \/ ResetMatch(c) \/ EndSession(c)

Goes == Serve \/ Deliver \/ Mount \/ Render

Comes == Reconnect \/ Reload \/ GiveUp

ScreensNext == People \/ Goes \/ Comes \/ Drop

ScreensSpec == ScreensInit /\ [][ScreensNext]_screensVars

(* The event loops of the hub and of the browser go on, and a lost connection *)
(* comes back, is reloaded or is given up: timers see to it.                   *)
ScreensFairSpec == ScreensSpec /\ WF_screensVars(Goes) /\ WF_screensVars(Comes)
------------------------------------------------------------------------------
\* Nothing is on its way and all that has come is rendered.
Quiet ==
  /\ tv.conn = "up" /\ down = <<>> /\ up = <<>>
  /\ tv.page # "none" /\ tv.wanted = tv.page /\ Chosen(tv.page) = tv.sub

Starred(courts) == Spotlight(Public(courts, star, under))

(* The spotlight is on the court that has the star and a match, unless a club *)
(* court lost its star to a tournament court: nobody tells the club's screens,*)
(* although they are to hear of a court that is no longer featured            *)
(* (SpotlightHandler.ts:45-47).                                               *)
SpotlightFollowsStar ==
  Quiet => /\ tv.page = "tournament" => tv.sub = Starred(TournamentCourts)
           /\ tv.page = "club" /\ ~unsaid => tv.sub = Starred(ClubCourts)

(* The television hears the matches of the court in its spotlight, unless a   *)
(* subscription was refused or lost, and of no other.  The score in the       *)
(* spotlight is then the score of its court, although messages of the court   *)
(* before are taken for it: but for a match that was reset.  The bracket the  *)
(* television keeps for its page is the hub's.                                *)
SpotlightIsCurrent ==
  Quiet =>
    /\ room \subseteq {tv.sub}
    /\ tv.sub # None /\ ~missed => tv.sub \in room
    /\ tv.sub \in room \ untold => tv.match = [court |-> tv.sub, score |-> score[tv.sub]]
    /\ tv.bracket = revision

(* When people rest, the television comes to show the mode they chose, or     *)
(* stands still on a page that does not reload.                               *)
ShowsTheMode ==
  <>[](\/ tv.conn = "up" /\ tv.page = mode
       \/ tv.conn = "dead" /\ tv.page \in {"none", "loading", "club"})
==============================================================================
