------------------------------- MODULE RallyTap ------------------------------
(***************************************************************************)
(* The button at the table: BLEBridge, useRallyTapBridge and the button    *)
(* RallyTapConnectButton that connects one RallyTap device to the page of  *)
(* a court.  The page makes a bridge whenever its match goes live or stops *)
(* being live and lets go of the one before; what that one has begun goes  *)
(* on by itself.  All of a browser's bridges share the one GATT link.      *)
(*                                                                         *)
(* A task is a call of connect() or a loop of attemptReconnect() that has  *)
(* not returned; it rests where it awaits something.  The scores written   *)
(* to the device's display, its name and the texts of errors are left out. *)
(***************************************************************************)
EXTENDS Naturals

CONSTANTS
  MaxReconnectAttempts,  \* MAX_RECONNECT_ATTEMPTS
  MaxBridges,            \* bound: bridges made
  MaxTasks,              \* bound: tasks at a time
  MaxActs                \* bound: what users do and what befalls the link

ASSUME RallyTapAssumption ==
  {MaxReconnectAttempts, MaxBridges, MaxTasks, MaxActs} \subseteq Nat \ {0}

Bridges == 1 .. MaxBridges
Slots == 1 .. MaxTasks

VARIABLES
  link,    \* the GATT link is up
  subs,    \* bridges that hear the button
  watch,   \* bridges that hear of the end of the link
  bridge,  \* the fields of each bridge
  cur,     \* the bridge of the page
  visit,   \* how often the page has been opened
  live,    \* the match on the page is live
  status,  \* bleStatus
  task,    \* the tasks
  acts     \* acts so far

vars == <<link, subs, watch, bridge, cur, visit, live, status, task, acts>>

\* device, server: the fields are set; socket: it was made for a live match; loose:
\* it was let go of while a search or the opening of the link was under way.
Bridge == [abort: BOOLEAN, device: BOOLEAN, server: BOOLEAN, socket: BOOLEAN,
           visit: 1 .. MaxBridges, loose: BOOLEAN]

Made(home, socket) ==
  [abort |-> FALSE, device |-> FALSE, server |-> FALSE, socket |-> socket, visit |-> home,
   loose |-> FALSE]

\* timer: it is this delay that _reconnectTimer names.
Task == [kind: {"none", "connect", "loop"}, of: Bridges, timer: BOOLEAN,
         at: {"scan", "open", "setup", "broken", "delay"}, attempt: 1 .. MaxReconnectAttempts]

NoTask == [kind |-> "none", of |-> 1, timer |-> FALSE, at |-> "scan", attempt |-> 1]

TapTypeOK ==
  /\ link \in BOOLEAN /\ live \in BOOLEAN
  /\ subs \subseteq 1 .. cur /\ watch \subseteq 1 .. cur
  /\ subs # {} => link
  /\ cur \in Bridges /\ visit \in 1 .. cur
  /\ bridge \in [Bridges -> Bridge]
  /\ status \in {"idle", "scanning", "connecting", "connected", "reconnecting", "error"}
  /\ task \in [Slots -> Task]

TapInit ==
  /\ link = FALSE /\ subs = {} /\ watch = {}
  /\ bridge = [b \in Bridges |-> Made(1, TRUE)]
  /\ cur = 1 /\ visit = 1 /\ live = TRUE /\ status = "idle"
  /\ task = [i \in Slots |-> NoTask]
  /\ acts = 0

Act == acts < MaxActs /\ acts' = acts + 1
------------------------------------------------------------------------------
(* What a bridge says to the page reaches it as long as that page is open.   *)

Says(b, s) == status' = IF bridge[b].visit = visit THEN s ELSE status

Under(i) == task[i].kind # "none"
Active == {i \in Slots : Under(i)}
FreeSlots == Slots \ Active
FreeSlot == CHOOSE i \in FreeSlots : TRUE

Begun(kind, b, at, attempt) ==
  [kind |-> kind, of |-> b, timer |-> at = "delay", at |-> at, attempt |-> attempt]

\* A delay of b becomes the one its timer names.
Waiting(tasks, i, b, attempt) ==
  [j \in Slots |-> IF j = i THEN Begun("loop", b, "delay", attempt)
                   ELSE IF tasks[j].of = b THEN [tasks[j] EXCEPT !.timer = FALSE] ELSE tasks[j]]

\* The link ends: what was asked over it is refused.
Cut(tasks, phases) ==
  [i \in Slots |-> IF tasks[i].at \in phases THEN [tasks[i] EXCEPT !.at = "broken"] ELSE tasks[i]]
------------------------------------------------------------------------------
(* connect().                                                                *)

\* Nothing else that b has under way is looked at or stopped.
Connect(b) ==
  /\ FreeSlots # {}
  /\ bridge' = [bridge EXCEPT ![b].abort = FALSE]
  /\ Says(b, "scanning")
  /\ task' = [task EXCEPT ![FreeSlot] = Begun("connect", b, "scan", 1)]

PressConnect ==
  /\ Act /\ live /\ status \in {"idle", "error"}
  /\ Connect(cur)
  /\ UNCHANGED <<link, subs, watch, cur, visit, live>>

Found(i) ==
  /\ Under(i) /\ task[i].at = "scan"
  /\ bridge' = [bridge EXCEPT ![task[i].of].device = TRUE]
  /\ Says(task[i].of, "connecting")
  /\ task' = [task EXCEPT ![i].at = "open"]
  /\ UNCHANGED <<link, subs, watch, cur, visit, live, acts>>

\* Thirty seconds, a user who cancels, or a browser that does not permit it.
NotFound(i) ==
  /\ Under(i) /\ task[i].at = "scan"
  /\ Says(task[i].of, "error")
  /\ task' = [task EXCEPT ![i] = NoTask]
  /\ UNCHANGED <<link, subs, watch, bridge, cur, visit, live, acts>>

Opened(i) ==
  /\ Under(i) /\ task[i].at = "open"
  /\ link' = TRUE
  /\ bridge' = [bridge EXCEPT ![task[i].of].server = TRUE]
  /\ task' = [task EXCEPT ![i].at = "setup"]
  /\ UNCHANGED <<subs, watch, cur, visit, live, status, acts>>

\* Mutant: a reconnected bridge forgets to listen again.
HearsOnce(i) == IF task[i].kind = "connect" THEN subs \cup {task[i].of} ELSE subs

Hears(i) == subs \cup {task[i].of}

\* Service and characteristics are there and notifications have started.  Only
\* connect() asks to hear of the end of the link.
Ready(i) ==
  /\ Under(i) /\ task[i].at = "setup"
  /\ subs' = Hears(i)
  /\ watch' = IF task[i].kind = "connect" THEN watch \cup {task[i].of} ELSE watch
  /\ Says(task[i].of, "connected")
  /\ task' = [task EXCEPT ![i] = NoTask]
  /\ UNCHANGED <<link, bridge, cur, visit, live, acts>>
------------------------------------------------------------------------------
(* attemptReconnect().                                                       *)

\* Mutant: that the last attempt failed is not told.
ExhaustedSilently(b) == UNCHANGED status

Exhausted(b) == IF bridge[b].abort THEN UNCHANGED status ELSE Says(b, "error")

\* The attempt of loop i has failed.
NextAttempt(i) ==
  LET t == task[i]
  IN  IF task[i].attempt = MaxReconnectAttempts
      THEN task' = [task EXCEPT ![i] = NoTask] /\ Exhausted(t.of)
      ELSE /\ task' = IF bridge[t.of].abort THEN [task EXCEPT ![i] = NoTask]
                      ELSE Waiting(task, i, t.of, t.attempt + 1)
           /\ UNCHANGED status

Failed(i) ==
  /\ Under(i) /\ task[i].at \in {"open", "setup", "broken"}
  /\ \/ /\ task[i].kind = "connect"
        /\ Says(task[i].of, "error")
        /\ task' = [task EXCEPT ![i] = NoTask]
     \/ task[i].kind = "loop" /\ NextAttempt(i)
  /\ UNCHANGED <<link, subs, watch, bridge, cur, visit, live, acts>>

\* The bridge may have been let go of while the loop waited.
Waited(i) ==
  LET b == bridge[task[i].of]
  IN  /\ Under(i) /\ task[i].at = "delay"
      /\ \/ b.abort /\ task' = [task EXCEPT ![i] = NoTask] /\ UNCHANGED status
         \/ ~b.abort /\ b.device /\ task' = [task EXCEPT ![i].at = "open"] /\ UNCHANGED status
         \/ ~b.abort /\ ~b.device /\ NextAttempt(i)
      /\ UNCHANGED <<link, subs, watch, bridge, cur, visit, live, acts>>

\* handleDisconnect of the one bridge, if any, that still minds; tasks is what the
\* end of the link has left of the tasks.
Heard(tasks) ==
  LET minds == {b \in watch : ~bridge[b].abort}
  IN  IF minds = {} THEN task' = tasks /\ UNCHANGED status
      ELSE LET b == CHOOSE c \in minds : TRUE
           IN  IF bridge[b].device
               THEN /\ FreeSlots # {}
                    /\ task' = Waiting(tasks, FreeSlot, b, 1)
                    /\ Says(b, "reconnecting")
               ELSE task' = tasks /\ Says(b, "error")

\* The device goes out of reach or is switched off.
LinkLost ==
  /\ Act /\ link
  /\ link' = FALSE /\ subs' = {}
  /\ Heard(Cut(task, {"setup"}))
  /\ UNCHANGED <<watch, bridge, cur, visit, live>>
------------------------------------------------------------------------------
(* disconnect().                                                             *)

Closes(b) == bridge[b].server /\ link

Opening(b) == \E i \in Active : task[i].of = b /\ task[i].at \in {"scan", "open"}

LetGo(b) ==
  [bridge[b] EXCEPT !.abort = TRUE, !.device = FALSE, !.server = FALSE, !.loose = @ \/ Opening(b)]

\* The delay the timer names never ends; a task that awaits something else goes on.
Disconnect(b) ==
  LET kept == [i \in Slots |-> IF Under(i) /\ task[i].of = b /\ task[i].timer /\ task[i].at = "delay"
                               THEN NoTask ELSE task[i]]
  IN  /\ task' = IF Closes(b) THEN Cut(kept, {"open", "setup"}) ELSE kept
      /\ link' = (link /\ ~Closes(b))
      /\ subs' = IF Closes(b) THEN {} ELSE subs \ {b}
      /\ watch' = IF bridge[b].device THEN watch \ {b} ELSE watch
      /\ status' = "idle"

PressDisconnect ==
  /\ Act /\ live /\ status = "connected"
  /\ Disconnect(cur)
  /\ bridge' = [bridge EXCEPT ![cur] = LetGo(cur)]
  /\ UNCHANGED <<cur, visit, live>>

\* The effect of the hook runs again: the bridge is let go of, another is made.
Renewed(home, socket) ==
  /\ cur < MaxBridges /\ cur' = cur + 1
  /\ Disconnect(cur)
  /\ bridge' = [bridge EXCEPT ![cur] = LetGo(cur), ![cur + 1] = Made(home, socket)]

\* The match ends, or the next one begins.
MatchTurns ==
  /\ Act /\ Renewed(visit, ~live)
  /\ live' = ~live
  /\ UNCHANGED visit

\* The referee leaves the page and opens it again.
PageReopened ==
  /\ Act /\ Renewed(visit + 1, live)
  /\ visit' = visit + 1
  /\ UNCHANGED live
------------------------------------------------------------------------------
Progress ==
  \E i \in Slots : Found(i) \/ NotFound(i) \/ Opened(i) \/ Ready(i) \/ Failed(i) \/ Waited(i)

TapNext == PressConnect \/ PressDisconnect \/ MatchTurns \/ PageReopened \/ LinkLost \/ Progress

TapSpec == TapInit /\ [][TapNext]_vars

(* What is awaited comes to an end one way or the other: a search after the   *)
(* SCAN_TIMEOUT at the latest, a delay after its two seconds, and the browser *)
(* settles what it is asked over the link.                                    *)
FairSpec == TapSpec /\ WF_vars(Progress)
------------------------------------------------------------------------------
\* Who turns a press of the device's button into a point.
Scorers == {b \in subs : bridge[b].socket}

(* No bridge has been let go of while it was searching or opening the link.    *)
NoneLoose == \A b \in Bridges : ~bridge[b].loose

(* Until a bridge is let go of while it is still searching or opening the      *)
(* link, a page at rest that says "connected" has exactly its own bridge       *)
(* listening: each press of the button counts, once, however often the link    *)
(* was lost, the match turned and the page was reopened.  The first condition  *)
(* is needed, although disconnect() says that it "cancels any pending          *)
(* reconnect loop" (bridge.ts:244-245): a loop that awaits gatt.connect() goes *)
(* on (bridge.ts:375) and listens again beside the page's new bridge, so that  *)
(* a press may count twice, or the page says "connected" for a bridge it has   *)
(* let go of and no press counts.                                              *)
ConnectedCounts ==
  (NoneLoose /\ Active = {} /\ live /\ link /\ status = "connected") => Scorers = {cur}

Busy == status \in {"scanning", "connecting", "reconnecting"}

(* A search, an opening or a reconnection comes to an end: the button on the  *)
(* page, dead meanwhile, can be pressed again.                                *)
ButtonComesBack == Busy ~> ~Busy
==============================================================================
