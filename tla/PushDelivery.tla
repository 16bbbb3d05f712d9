---------------------------- MODULE PushDelivery ----------------------------
(***************************************************************************)
(* How a push - a finished background command, a sub-agent's report, a     *)
(* session_notify - reaches the session it is for, and what a restart      *)
(* keeps of it (brain/agent/service/{session_routes, restart_recovery,     *)
(* notify_queue, background_tasks}.rs).                                    *)
(*                                                                         *)
(* A letter is a push addressed to a session.  Letters move between piles: *)
(* the hand-off of a route is a spawned task, an INSERT is a spawned task, *)
(* a clear is a spawned loop, and the reads of two locks are two steps.    *)
(* A crash empties every pile but the two tables.                          *)
(***************************************************************************)
EXTENDS Naturals, FiniteSets

CONSTANTS
  Session, NoSession,
  Push,         \* every push any process will produce
  Command,      \* those of them that report a background command
  Text, TextOf, \* what a push says: the key a row is retired by
  LocalRoutes,  \* what a process may give register_local_route
  HopCap,       \* REDIRECT_HOP_CAP
  MaxBoots      \* bound: how many processes run, one after the other

ASSUME AddressAssumption == NoSession \notin Session
ASSUME CommandAssumption == Command \subseteq Push
ASSUME TextAssumption    == TextOf \in [Push -> Text]
ASSUME LocalAssumption   == LocalRoutes \subseteq {"tui", "parking", "none"}
ASSUME BoundAssumption   == HopCap \in Nat /\ MaxBoots \in Nat \ {0}

Letter == Session \X Push
Pile == [Letter -> Nat]

VARIABLES
  boot,     \* number of the running process
  localRoute, \* LOCAL_ROUTE of the running process
  stage,    \* recover(): "tasks", then "rows", then "up"
  route,    \* SESSION_ROUTES: sessions a channel has claimed
  awaiting, \* AWAITING_CHANNEL: known to be a channel's, not claimed yet
  occupant, \* channel_owner_probe: who took the session's chat over
  busy,     \* turn_probe: sessions with a turn in flight
  timer,    \* schedule_flush: "off", "armed" or "fired"
  spawned,  \* detached commands whose task has not written its row yet
  tasks,    \* table background_tasks
  rows,     \* table notify_queue
  inserts,  \* spawned INSERTs that have not run
  windows,  \* clear loops that are still polling, by session and text
  offers,   \* rows recover() has still to offer
  reports,  \* commands recover() has reported and not cleared
  sending,  \* pushes about to enter deliver_to_session
  deciding, \* deliver_to_session found no route, fallback not chosen
  parking,  \* deliver_or_park found no route, not parked yet
  parked,   \* PARKED
  woken,    \* handed to a channel's route: its spawned task has not run
  local,    \* handed to the local surface
  midturn,  \* the surface's queue behind a running turn
  sent,     \* pushes produced so far
  stale,    \* rows past MAX_ROW_AGE_SECS when this process started
  \* History, for the properties only:
  heard,    \* how often each push entered a turn
  dropped,  \* pushes a surface or deliver_to_session gave up on
  stopped,  \* pushes /stop threw out of a mid-turn queue
  twinned,  \* letters this process parked with a row behind them
  reaped    \* letters whose rows the age reaper dropped

process  == <<boot, localRoute>>
commands == <<spawned, tasks>>
tables   == <<commands, rows>>
boxes    == <<sending, deciding, parking, parked, woken, local, midturn>>
recovery == <<stage, offers, reports, stale, timer>>
surfaces == <<route, awaiting, occupant, busy>>
clearing == <<inserts, windows>>
history  == <<heard, dropped, stopped, twinned, reaped>>
vars == <<process, sent, tables, boxes, recovery, surfaces, clearing, history>>

-----------------------------------------------------------------------------
NoLetters == [m \in Letter |-> 0]
Plus(pile, m)  == [pile EXCEPT ![m] = @ + 1]
Minus(pile, m) == [pile EXCEPT ![m] = @ - 1]
Without(pile, S) == [m \in Letter |-> IF m \in S THEN 0 ELSE pile[m]]
Merge(pile, other, S) == [m \in Letter |-> IF m \in S THEN pile[m] + other[m]
                                                     ELSE pile[m]]
Held(pile) == {m \in Letter : pile[m] > 0}
For(s) == {m \in Letter : m[1] = s}
KeyOf(m) == <<m[1], TextOf[m[2]]>>

(* clear_on_delivery: a loop of its own that keeps deleting matching rows. *)
OpenWindows(S) == windows' = windows \cup {KeyOf(m) : m \in S}

-----------------------------------------------------------------------------
Init ==
  /\ boot = 1 /\ localRoute \in LocalRoutes /\ stage = "tasks" /\ timer = "off"
  /\ route = {} /\ awaiting = {} /\ busy = {}
  /\ occupant = [s \in Session |-> NoSession]
  /\ spawned = {} /\ tasks = {} /\ reports = {} /\ windows = {}
  /\ rows = NoLetters /\ inserts = NoLetters /\ offers = NoLetters
  /\ stale = {} /\ sent = {}
  /\ sending = NoLetters /\ deciding = NoLetters /\ parking = NoLetters
  /\ parked = NoLetters /\ woken = NoLetters /\ local = NoLetters
  /\ midturn = NoLetters
  /\ heard = [p \in Push |-> 0]
  /\ dropped = {} /\ stopped = {} /\ twinned = {} /\ reaped = {}

Up == stage = "up"

-----------------------------------------------------------------------------
(* recover(): commands a dead process left in the table are reported, each *)
(* parked or routed and then cleared; then the durable rows are offered    *)
(* and those past the age limit are reaped; then the flush is scheduled.   *)
ReportInterrupted(m) ==
  /\ stage = "tasks"
  /\ reports = {}
  /\ m \in tasks
  /\ reports' = {m}
  /\ IF m[1] \in route
     THEN woken' = Plus(woken, m) /\ UNCHANGED parked
     ELSE parked' = Plus(parked, m) /\ UNCHANGED woken
  /\ UNCHANGED <<process, sent, tables, sending, deciding, parking, local, midturn,
                 stage, offers, stale, timer, surfaces, clearing, history>>

(* Mutant: a row is cleared as it is read, before its report.              *)
ClearOnRead(m) ==
  /\ stage = "tasks"
  /\ m \in tasks
  /\ tasks' = tasks \ {m}
  /\ reports' = {}
  /\ UNCHANGED <<process, sent, spawned, rows, boxes, stage, offers, stale, timer,
                 surfaces, clearing, history>>

ClearReported(m) ==
  /\ m \in reports
  /\ tasks' = tasks \ {m}
  /\ reports' = {}
  /\ UNCHANGED <<process, sent, spawned, rows, boxes, stage, offers, stale, timer,
                 surfaces, clearing, history>>

(* redeliver_persisted reads the table once.                               *)
ReadRows ==
  /\ stage = "tasks"
  /\ tasks = {}
  /\ stage' = "rows"
  /\ offers' = rows
  /\ UNCHANGED <<process, sent, tables, boxes, reports, stale, timer,
                 surfaces, clearing, history>>

(* Mutant: an offered row is cleared whether or not its push went out.     *)
OfferClearsRow(m) ==
  /\ stage = "rows"
  /\ offers[m] > 0
  /\ offers' = Minus(offers, m)
  /\ rows' = Minus(rows, m)
  /\ IF m[1] \in route
     THEN woken' = Plus(woken, m) /\ UNCHANGED <<parked, twinned>>
     ELSE parked' = Plus(parked, m) /\ twinned' = twinned \cup {m} /\ UNCHANGED woken
  /\ UNCHANGED <<process, sent, commands, sending, deciding, parking, local, midturn,
                 stage, reports, stale, timer, surfaces, clearing,
                 heard, dropped, stopped, reaped>>

OfferRow(m) ==
  /\ stage = "rows"
  /\ offers[m] > 0
  /\ offers' = Minus(offers, m)
  /\ IF m[1] \in route
     THEN /\ woken' = Plus(woken, m)
          /\ rows' = Minus(rows, m)
          /\ UNCHANGED <<parked, twinned>>
     ELSE /\ parked' = Plus(parked, m)
          /\ twinned' = twinned \cup {m}
          /\ UNCHANGED <<woken, rows>>
  /\ UNCHANGED <<process, sent, commands, sending, deciding, parking, local, midturn,
                 stage, reports, stale, timer, surfaces, clearing,
                 heard, dropped, stopped, reaped>>

(* Mutant: the reap of #182, before the offers are through.                *)
ReapFirst ==
  /\ stage = "rows"
  /\ rows' = Without(rows, stale)
  /\ reaped' = reaped \cup (stale \cap Held(rows))
  /\ stage' = IF offers = NoLetters THEN "up" ELSE stage
  /\ timer' = IF offers = NoLetters /\ localRoute = "tui" THEN "armed" ELSE timer
  /\ UNCHANGED <<process, sent, commands, boxes, offers, reports, stale,
                 surfaces, clearing, heard, dropped, stopped, twinned>>

(* Mutant: recover() that schedules no flush.                              *)
FinishUnscheduled ==
  /\ stage = "rows"
  /\ offers = NoLetters
  /\ rows' = Without(rows, stale)
  /\ reaped' = reaped \cup (stale \cap Held(rows))
  /\ stage' = "up"
  /\ UNCHANGED <<process, sent, commands, boxes, offers, reports, stale, timer,
                 surfaces, clearing, heard, dropped, stopped, twinned>>

FinishRecovery ==
  /\ stage = "rows"
  /\ offers = NoLetters
  /\ rows' = Without(rows, stale)
  /\ reaped' = reaped \cup (stale \cap Held(rows))
  /\ stage' = "up"
  /\ timer' = IF localRoute = "tui" THEN "armed" ELSE "off"
  /\ UNCHANGED <<process, sent, commands, boxes, offers, reports, stale,
                 surfaces, clearing, heard, dropped, stopped, twinned>>

-----------------------------------------------------------------------------
(* Producers: a tool or a sub-agent sends; a detached command is recorded  *)
(* by its own task before it runs, and its row is cleared before its       *)
(* result is sent.                                                         *)
Send(m) ==
  /\ stage = "up"
  /\ m[2] \in Push \ (sent \cup Command)
  /\ sent' = sent \cup {m[2]}
  /\ sending' = Plus(sending, m)
  /\ UNCHANGED <<process, tables, deciding, parking, parked, woken, local, midturn,
                 recovery, surfaces, clearing, history>>

(* An inbound message finds a turn in flight: queued behind it, with a row. *)
FollowUp(m) ==
  /\ stage = "up"
  /\ m[1] \in busy
  /\ m[2] \in Push \ (sent \cup Command)
  /\ sent' = sent \cup {m[2]}
  /\ midturn' = Plus(midturn, m)
  /\ inserts' = Plus(inserts, m)
  /\ UNCHANGED <<process, tables, sending, deciding, parking, parked, woken, local,
                 recovery, surfaces, windows, history>>

StartCommand(m) ==
  /\ stage = "up"
  /\ m[2] \in Command \ sent
  /\ sent' = sent \cup {m[2]}
  /\ spawned' = spawned \cup {m}
  /\ UNCHANGED <<process, tasks, rows, boxes, recovery, surfaces, clearing, history>>

RecordCommand(m) ==
  /\ m \in spawned
  /\ spawned' = spawned \ {m}
  /\ tasks' = tasks \cup {m}
  /\ UNCHANGED <<process, sent, rows, boxes, recovery, surfaces, clearing, history>>

FinishCommand(m) ==
  /\ stage = "up"
  /\ m \in tasks
  /\ tasks' = tasks \ {m}
  /\ sending' = Plus(sending, m)
  /\ UNCHANGED <<process, sent, spawned, rows, deciding, parking, parked, woken, local, midturn,
                 recovery, surfaces, clearing, history>>

-----------------------------------------------------------------------------
(* The owner gate: the chain of occupants from s, at most HopCap of them.  *)
Chase(s) ==
  {hop \in [0..HopCap -> Session] :
     /\ hop[0] = s
     /\ \A n \in 1..HopCap :
          hop[n] = IF occupant[hop[n - 1]] = NoSession THEN hop[n - 1]
                   ELSE occupant[hop[n - 1]]}

(* Mutant: the gate is not asked past the hop cap.                         *)
AnyoneOwns(s) == TRUE

OwnsItsChat(s) == occupant[s] = NoSession

(* Mutant: the push is parked and not persisted.                           *)
ParkingOnly(m) ==
  /\ twinned' = twinned \cup {m}
  /\ IF m[1] \in route
     THEN woken' = Plus(woken, m) /\ UNCHANGED <<parking, inserts>>
     ELSE parking' = Plus(parking, m) /\ UNCHANGED <<woken, inserts>>

(* parking_route: persist is spawned, then deliver_or_park reads the route *)
(* map; the push onto PARKED is Park, a second critical section.           *)
ParkingRoute(m) ==
  /\ inserts' = Plus(inserts, m)
  /\ twinned' = twinned \cup {m}
  /\ IF m[1] \in route
     THEN woken' = Plus(woken, m) /\ UNCHANGED parking
     ELSE parking' = Plus(parking, m) /\ UNCHANGED woken

(* deliver_to_session, up to the read of the route map: d is the push      *)
(* addressed to the end of the chain.                                      *)
DeliverAs(m, d, interrupt) ==
  /\ sending[m] > 0
  /\ m[2] \in Command => interrupt
  /\ sending' = Minus(sending, m)
  /\ \/ /\ ~OwnsItsChat(d[1])
        /\ ParkingRoute(d)
        /\ UNCHANGED <<sent, deciding, windows>>
     \/ /\ OwnsItsChat(d[1])
        /\ ~interrupt /\ d[1] \in busy
        /\ sent' = sent \ {m[2]}
        /\ UNCHANGED <<deciding, parking, woken, inserts, windows, twinned>>
     \/ /\ OwnsItsChat(d[1])
        /\ interrupt \/ d[1] \notin busy
        /\ d[1] \in route
        /\ woken' = Plus(woken, d)
        /\ OpenWindows({d})
        /\ UNCHANGED <<sent, deciding, parking, inserts, twinned>>
     \/ /\ OwnsItsChat(d[1])
        /\ interrupt \/ d[1] \notin busy
        /\ d[1] \notin route
        /\ deciding' = Plus(deciding, d)
        /\ UNCHANGED <<sent, parking, woken, inserts, windows, twinned>>
  /\ UNCHANGED <<process, tables, parked, local, midturn, recovery, surfaces,
                 heard, dropped, stopped, reaped>>

Deliver(m, interrupt) ==
  \E hop \in Chase(m[1]) : DeliverAs(m, <<hop[HopCap], m[2]>>, interrupt)

(* ... and from there: the channel mark first, the local route last.       *)
Fallback(m) ==
  /\ deciding[m] > 0
  /\ deciding' = Minus(deciding, m)
  /\ \/ /\ m[1] \in awaiting
        /\ ParkingRoute(m)
        /\ UNCHANGED <<local, windows, dropped>>
     \/ /\ m[1] \notin awaiting
        /\ localRoute = "tui"
        /\ local' = Plus(local, m)
        /\ OpenWindows({m})
        /\ UNCHANGED <<parking, woken, inserts, twinned, dropped>>
     \/ /\ m[1] \notin awaiting
        /\ localRoute = "parking"
        /\ ParkingRoute(m)
        /\ OpenWindows({m})
        /\ UNCHANGED <<local, dropped>>
     \/ /\ m[1] \notin awaiting
        /\ localRoute = "none"
        /\ dropped' = dropped \cup {m[2]}
        /\ UNCHANGED <<local, parking, woken, inserts, windows, twinned>>
  /\ UNCHANGED <<process, sent, tables, sending, parked, midturn, recovery, surfaces,
                 heard, stopped, reaped>>

Park(m) ==
  /\ parking[m] > 0
  /\ parking' = Minus(parking, m)
  /\ parked' = Plus(parked, m)
  /\ UNCHANGED <<process, sent, tables, sending, deciding, woken, local, midturn,
                 recovery, surfaces, clearing, history>>

(* Mutant: the parked letters are handed over and not removed.             *)
ClaimKeepsParked(s) ==
  /\ stage = "up"
  /\ route' = route \cup {s}
  /\ awaiting' = awaiting \ {s}
  /\ woken' = Merge(woken, parked, For(s))
  /\ OpenWindows(Held(parked) \cap For(s))
  /\ UNCHANGED <<process, sent, tables, sending, deciding, parking, parked, local, midturn,
                 recovery, occupant, busy, inserts, history>>

(* register_session_route and, under its lock, claim_session.              *)
Claim(s) ==
  /\ stage = "up"
  /\ route' = route \cup {s}
  /\ awaiting' = awaiting \ {s}
  /\ woken' = Merge(woken, parked, For(s))
  /\ parked' = Without(parked, For(s))
  /\ OpenWindows(Held(parked) \cap For(s))
  /\ UNCHANGED <<process, sent, tables, sending, deciding, parking, local, midturn,
                 recovery, occupant, busy, inserts, history>>

(* expect_channel_route: a turn of a channel's session is being resumed.   *)
ExpectChannel(s) ==
  /\ stage = "up"
  /\ s \notin route
  /\ awaiting' = awaiting \cup {s}
  /\ UNCHANGED <<process, sent, tables, boxes, recovery, route, occupant, busy,
                 clearing, history>>

(* Mutant: a flush that leaves what a channel is still expected for.       *)
FlushSparesAwaited ==
  LET mine == {m \in Letter : m[1] \notin awaiting}
  IN /\ timer = "armed"
     /\ timer' = "fired"
     /\ local' = Merge(local, parked, mine)
     /\ parked' = Without(parked, mine)
     /\ OpenWindows(Held(parked) \cap mine)
     /\ UNCHANGED <<process, sent, tables, sending, deciding, parking, woken, midturn,
                    stage, offers, reports, stale, surfaces, inserts, history>>

(* flush_parked, once, ROUTE_GRACE after recover().                        *)
FlushParked ==
  /\ timer = "armed"
  /\ timer' = "fired"
  /\ local' = Merge(local, parked, Letter)
  /\ parked' = NoLetters
  /\ OpenWindows(Held(parked))
  /\ UNCHANGED <<process, sent, tables, sending, deciding, parking, woken, midturn,
                 stage, offers, reports, stale, surfaces, inserts, history>>

-----------------------------------------------------------------------------
(* The channel surface (Telegram's; TelegramTurns has it in detail).       *)

(* The chat of session s is taken over by session o, or given back.        *)
Occupy(s, o) ==
  /\ stage = "up"
  /\ o \in (Session \cup {NoSession}) \ {s, occupant[s]}
  /\ occupant' = [occupant EXCEPT ![s] = o]
  /\ UNCHANGED <<process, sent, tables, boxes, recovery, route, awaiting, busy,
                 clearing, history>>

(* The spawned wake opens a turn, or queues behind the one in flight and   *)
(* persists what it queued, or gives up.                                   *)
WakeRuns(m) ==
  /\ woken[m] > 0
  /\ OwnsItsChat(m[1])
  /\ m[1] \notin busy
  /\ woken' = Minus(woken, m)
  /\ busy' = busy \cup {m[1]}
  /\ heard' = [heard EXCEPT ![m[2]] = @ + 1]
  /\ UNCHANGED <<process, sent, tables, sending, deciding, parking, parked, local, midturn,
                 recovery, route, awaiting, occupant, clearing,
                 dropped, stopped, twinned, reaped>>

WakeQueues(m) ==
  /\ woken[m] > 0
  /\ OwnsItsChat(m[1])
  /\ m[1] \in busy
  /\ woken' = Minus(woken, m)
  /\ midturn' = Plus(midturn, m)
  /\ inserts' = Plus(inserts, m)
  /\ UNCHANGED <<process, sent, tables, sending, deciding, parking, parked, local,
                 recovery, surfaces, windows, history>>

WakeGivesUp(m) ==
  /\ woken[m] > 0
  /\ woken' = Minus(woken, m)
  /\ dropped' = dropped \cup {m[2]}
  /\ UNCHANGED <<process, sent, tables, sending, deciding, parking, parked, local, midturn,
                 recovery, surfaces, clearing, heard, stopped, twinned, reaped>>

TurnStarts(s) ==
  /\ stage = "up" /\ s \notin busy
  /\ busy' = busy \cup {s}
  /\ UNCHANGED <<process, sent, tables, boxes, recovery, route, awaiting, occupant,
                 clearing, history>>

TurnEnds(s) ==
  /\ s \in busy
  /\ busy' = busy \ {s}
  /\ UNCHANGED <<process, sent, tables, boxes, recovery, route, awaiting, occupant,
                 clearing, history>>

(* Between rounds or after the turn, the whole queue enters a loop.        *)
Drain(s) ==
  /\ For(s) \cap Held(midturn) # {}
  /\ heard' = [p \in Push |-> heard[p] + midturn[<<s, p>>]]
  /\ midturn' = Without(midturn, For(s))
  /\ OpenWindows(Held(midturn) \cap For(s))
  /\ UNCHANGED <<process, sent, tables, sending, deciding, parking, parked, woken, local,
                 recovery, surfaces, inserts, dropped, stopped, twinned, reaped>>

(* /stop: the queue goes, its rows do not.                                 *)
StopTarget(s) ==
  /\ For(s) \cap Held(midturn) # {}
  /\ stopped' = stopped \cup {m[2] : m \in For(s) \cap Held(midturn)}
  /\ midturn' = Without(midturn, For(s))
  /\ UNCHANGED <<process, sent, tables, sending, deciding, parking, parked, woken, local,
                 recovery, surfaces, clearing, heard, dropped, twinned, reaped>>

(* The terminal surface takes a push into a turn, running or new.          *)
LocalTakes(m) ==
  /\ local[m] > 0
  /\ local' = Minus(local, m)
  /\ heard' = [heard EXCEPT ![m[2]] = @ + 1]
  /\ UNCHANGED <<process, sent, tables, sending, deciding, parking, parked, woken, midturn,
                 recovery, surfaces, clearing, dropped, stopped, twinned, reaped>>

-----------------------------------------------------------------------------
(* The spawned database work.                                              *)
Insert(m) ==
  /\ inserts[m] > 0
  /\ inserts' = Minus(inserts, m)
  /\ rows' = Plus(rows, m)
  /\ UNCHANGED <<process, sent, commands, boxes, recovery, surfaces, windows, history>>

(* One pass of retire_rows_until: every row with this session and text.    *)
(* A pass is the last one when the window's deadline has passed.           *)
ClearPass(k, last) ==
  /\ k \in windows
  /\ rows' = Without(rows, {m \in Letter : KeyOf(m) = k})
  /\ windows' = IF last THEN windows \ {k} ELSE windows
  /\ UNCHANGED <<process, sent, commands, boxes, recovery, surfaces, inserts, history>>

(* The process dies and the next one starts, perhaps much later.           *)
Crash(long) ==
  /\ boot < MaxBoots
  /\ boot' = boot + 1
  /\ localRoute' \in LocalRoutes
  /\ stage' = "tasks" /\ timer' = "off"
  /\ stale' = IF long THEN Held(rows) ELSE {}
  /\ offers' = NoLetters /\ reports' = {}
  /\ route' = {} /\ awaiting' = {} /\ busy' = {}
  /\ windows' = {} /\ inserts' = NoLetters
  /\ sending' = NoLetters /\ deciding' = NoLetters /\ parking' = NoLetters
  /\ parked' = NoLetters /\ woken' = NoLetters /\ local' = NoLetters
  /\ midturn' = NoLetters
  /\ twinned' = {} /\ spawned' = {}
  /\ UNCHANGED <<sent, tasks, rows, occupant, heard, dropped, stopped, reaped>>

-----------------------------------------------------------------------------
Recovery ==
  \/ \E m \in Letter : ReportInterrupted(m) \/ ClearReported(m) \/ OfferRow(m)
  \/ ReadRows \/ FinishRecovery

Produce == \E m \in Letter : Send(m) \/ FollowUp(m) \/ StartCommand(m) \/ RecordCommand(m)
                        \/ FinishCommand(m)

(* Code already running: the rest of a call, or a spawned task.            *)
Run ==
  \/ \E m \in Letter :
       \/ \E interrupt \in BOOLEAN : Deliver(m, interrupt)
       \/ Fallback(m) \/ Park(m)
       \/ WakeRuns(m) \/ WakeQueues(m) \/ WakeGivesUp(m) \/ LocalTakes(m)
       \/ Insert(m)
  \/ \E k \in Session \X Text, last \in BOOLEAN : ClearPass(k, last)

Surface ==
  \E s \in Session :
    \/ Claim(s) \/ ExpectChannel(s) \/ TurnStarts(s) \/ TurnEnds(s)
    \/ Drain(s) \/ StopTarget(s)
    \/ \E o \in Session \cup {NoSession} : Occupy(s, o)

Next == Recovery \/ Produce \/ Run \/ Surface \/ FlushParked
        \/ \E long \in BOOLEAN : Crash(long)

Spec == Init /\ [][Next]_vars

(* Tokio runs what was spawned, a timer fires, boot goes on to its end.    *)
(* Nothing is assumed of channels, users or senders.                       *)
Fairness ==
  /\ WF_vars(Recovery)
  /\ WF_vars(FlushParked)
  /\ \A m \in Letter :
       /\ WF_vars(\E interrupt \in BOOLEAN : Deliver(m, interrupt))
       /\ WF_vars(Fallback(m))
       /\ WF_vars(Park(m))
       /\ WF_vars(WakeRuns(m) \/ WakeQueues(m) \/ WakeGivesUp(m))
       /\ WF_vars(LocalTakes(m))
       /\ WF_vars(Insert(m))
FairSpec == Spec /\ Fairness

-----------------------------------------------------------------------------
TypeOK ==
  /\ boot \in 1..MaxBoots /\ localRoute \in LocalRoutes
  /\ stage \in {"tasks", "rows", "up"}
  /\ timer \in {"off", "armed", "fired"}
  /\ route \subseteq Session /\ awaiting \subseteq Session /\ busy \subseteq Session
  /\ occupant \in [Session -> Session \cup {NoSession}]
  /\ spawned \subseteq Letter /\ tasks \subseteq Letter /\ reports \subseteq tasks /\ stale \subseteq Letter
  /\ rows \in Pile /\ inserts \in Pile /\ offers \in Pile
  /\ windows \subseteq Session \X Text
  /\ sending \in Pile /\ deciding \in Pile /\ parking \in Pile /\ parked \in Pile
  /\ woken \in Pile /\ local \in Pile /\ midturn \in Pile
  /\ sent \subseteq Push
  /\ heard \in [Push -> Nat]
  /\ dropped \subseteq Push /\ stopped \subseteq Push
  /\ twinned \subseteq Letter /\ reaped \subseteq Letter

(* Where a push can be while its process lives.                            *)
Boxes == <<sending, deciding, parking, parked, woken, local, midturn>>
Places(p) == {b \in Session \X DOMAIN Boxes : Boxes[b[2]][<<b[1], p>>] > 0}
Settled(p) == (heard[p] > 0) \/ p \in dropped \cup stopped
Running(p) == \E s \in Session : <<s, p>> \in spawned \cup tasks

(* Without a restart nothing is lost and nothing comes twice: a push that  *)
(* was accepted is in exactly one place, or a command still running, or    *)
(* entered one turn once, or was given up by a path that says so.          *)
NoLossNoDoubleBeforeRestart ==
  (boot = 1) =>
    \A p \in sent :
      /\ heard[p] <= 1
      /\ \A s \in Session : \A n \in DOMAIN Boxes : Boxes[n][<<s, p>>] <= 1
      /\ Cardinality(Places(p)) + (IF Running(p) THEN 1 ELSE 0)
           + (IF Settled(p) THEN 1 ELSE 0) = 1

(* A push is accounted for while a command runs, a pile or the tables hold *)
(* it, or once it was settled.                                             *)
Stored(p) == \E s \in Session : rows[<<s, p>>] > 0 \/ inserts[<<s, p>>] > 0
Accounted(p) == Running(p) \/ Places(p) # {} \/ Settled(p) \/ Stored(p)

(* What a crash finds without a record: a push that is not routed yet, one *)
(* a surface has and no turn yet, one whose INSERT has not run, and one    *)
(* that is parked without a row - a report of recover(), what the reaper   *)
(* took, and what a headless process parked.                               *)
Exposed(p) ==
  \E s \in Session : LET m == <<s, p>> IN
    \/ m \in spawned \/ sending[m] > 0 \/ deciding[m] > 0
    \/ woken[m] > 0 \/ local[m] > 0 \/ midturn[m] > 0
    \/ inserts[m] > 0
    \/ parking[m] + parked[m] > 0 /\ (m \notin twinned \/ m \in reaped \/ localRoute = "parking")

(* An accepted push leaves the accounts in a crash only, and only when it  *)
(* was exposed: no clear, reap, claim, flush or recovery takes the last    *)
(* trace of one.                                                           *)
OnlyTheExposedVanish ==
  [][\A p \in sent \cap sent' :
       Accounted(p) /\ ~Accounted(p)' => boot' # boot /\ Exposed(p)]_vars

(* A push a parking route parked, or a row re-offered at boot, keeps its   *)
(* durable row for as long as it is parked, once the INSERT has run: only  *)
(* a delivery opens a clear window, and only the reaper drops it otherwise *)
(* (the durable twin of #111).                                             *)
ParkedKeepsItsRow ==
  \A m \in twinned : parked[m] > 0 /\ inserts[m] = 0 => rows[m] > 0 \/ m \in reaped

(* Boot never discards a row it has not offered: while recover() runs, a   *)
(* row goes away only when its push was routed or parked (#182).           *)
RowsGoOnlyAfterTheirOffer ==
  [][stage = "rows" =>
       \A m \in Letter : rows'[m] < rows[m] => parked[m] > 0 \/ woken'[m] > 0]_vars

(* A command's row goes only when its session has something coming: the    *)
(* result is on its way, or the interruption is routed or parked.          *)
TaskRowsGoOnlyWhenAccounted ==
  [][\A m \in tasks \ tasks' : sending'[m] > 0 \/ parked[m] > 0 \/ woken[m] > 0]_vars

(* deliver_to_session hands a push to the session that owns the chat: past *)
(* the hop cap it parks, it never wakes a session whose chat another holds *)
(* (#17, #19).                                                             *)
OnlyOwnersAreWoken ==
  [][\A m \in Letter :
       sending' # sending /\ inserts' = inserts /\ woken'[m] > woken[m]
         => occupant[m[1]] = NoSession]_vars

(* What is parked when the grace period starts does not stay parked: a     *)
(* claim, the flush, or a crash takes it.                                  *)
ParkedLeaveByTheFlush ==
  \A m \in Letter : (parked[m] > 0 /\ timer = "armed") ~> parked[m] = 0

(* A row that survived to the last boot reaches a turn, or a queue behind  *)
(* one, or is given up by name - with a local surface to fall back on.     *)
SurvivorsReachASurface ==
  \A m \in Letter :
    (boot = MaxBoots /\ localRoute = "tui" /\ offers[m] > 0) ~>
      (heard[m[2]] > 0 \/ midturn[m] > 0 \/ m[2] \in dropped \cup stopped)

=============================================================================
