--------------------------- MODULE FollowupTurns ---------------------------
(***************************************************************************)
(* The turn slot and the follow-up queue of the WhatsApp and the Discord   *)
(* surface (channels/whatsapp/{turns,handler,resume}.rs and                *)
(* channels/discord/{turns,tracked_turn,handler,interactions,reactions,    *)
(* resume}.rs), with the rows of notify_queue that stand behind the queue. *)
(*                                                                         *)
(* The two surfaces share the slot and the queue and differ in who claims, *)
(* who flushes at the end of a turn and in which order the flush claims    *)
(* and drains.  A queued message is a batch, the set of the items it says: *)
(* what a drain takes together is joined into one message, and goes back   *)
(* as one.  The order of the items inside a message is left out.           *)
(***************************************************************************)
EXTENDS Naturals, Sequences, Functions

CONSTANTS
  Session,   \* session ids
  Discord,   \* the sessions of the Discord surface; WhatsApp has the others
  Item,      \* everything that can arrive
  Task,      \* ids for the handlers running at the same time
  NoSession, NoTask

(* What arrives: a typed message, a tapped follow-up suggestion, a select  *)
(* menu, form or reaction, a finished background command, a boot replay.   *)
(* A replay is a tracked turn of Discord (recovery), or the plain task of  *)
(* resume_delivery.rs (revived): for WhatsApp, and for the Discord         *)
(* sessions that a live agent owns.                                        *)
Handler == {"message", "tap", "interaction", "wake", "recovery", "revived"}
Kind    == Handler \cup {"flushed"}

ASSUME SessionAssumption == Discord \subseteq Session /\ NoSession \notin Session
ASSUME TaskAssumption    == NoTask \notin Task

VARIABLES
  active,    \* active_turns: the sessions whose slot is taken
  queue,     \* turn_queue and pending_followups: per session, in arrival order
  token,     \* cancel_tokens: per session, the task whose token is stored
  phase, kind, home,   \* where a task is, which path it runs, its session
  carry,     \* the batch it holds and has not handed over yet
  writes,    \* notify_queue inserts under way
  rows,      \* table notify_queue, by session and text
  clears,    \* clears that still look for their rows
  \* History, for the properties only:
  address, taken, lost,
  putBack,   \* batches that a flush put back after it lost the slot
  missed,    \* messages queued when nobody was left to take them
  unlucky    \* batches for which the database failed

task    == <<phase, kind, home, carry>>
durable == <<writes, rows, clears, unlucky>>
history == <<address, taken, lost, putBack, missed>>
vars    == <<active, queue, token, task, durable, history>>

Phase == {"idle", "arrived", "busy", "claimed", "looping", "ending", "settled",
          "flushing"}

-----------------------------------------------------------------------------
(* Two turns run beside the slot: the background completion of WhatsApp,   *)
(* and the plain boot replay.                                              *)
Slotless(t) == kind[t] = "revived" \/ (kind[t] = "wake" /\ home[t] \notin Discord)

(* Select menus, forms and reactions are one provider call, and a boot     *)
(* replay runs on the terminal's agent, which reads the terminal's queue.  *)
(* Every other turn is a tool loop that reads its session's queue between  *)
(* rounds; so may a flushed turn, on the agent of the turn before it.      *)
Loops(t) == kind[t] \notin {"interaction", "recovery", "revived"}

(* run_tracked_resume_turn: Discord's completions, replays and flushes.    *)
Tracked(t) == home[t] \in Discord /\ kind[t] \in {"wake", "recovery", "flushed"}
StoresToken(t) == kind[t] \in {"message", "tap"} \/ Tracked(t)
Flushes(t)     == kind[t] = "message" \/ Tracked(t)

Runs(t)  == phase[t] \in {"claimed", "looping", "ending"}
Holds(t) == Runs(t) /\ ~Slotless(t)
InLoop(t) == phase[t] \in {"looping", "ending"}

(* Who will still look at a session's queue.                               *)
Takes(t, s) == home[t] = s /\ (Holds(t) \/ phase[t] \in {"settled", "flushing"})

Row(s, b) == [session |-> s, text |-> b]
HandOver(b) == taken' = [i \in Item |-> IF i \in b THEN taken[i] + 1 ELSE taken[i]]
GoTo(t, p)  == phase' = [phase EXCEPT ![t] = p]
Carry(t, b) == carry' = [carry EXCEPT ![t] = b]

Init ==
  /\ active = {}
  /\ queue = [s \in Session |-> <<>>]
  /\ token = [s \in Session |-> NoTask]
  /\ phase = [t \in Task |-> "idle"] /\ kind = [t \in Task |-> "message"]
  /\ home = [t \in Task |-> NoSession] /\ carry = [t \in Task |-> {}]
  /\ writes = {} /\ rows = {} /\ clears = {} /\ unlucky = {}
  /\ address = [i \in Item |-> NoSession] /\ taken = [i \in Item |-> 0]
  /\ lost = {} /\ putBack = {} /\ missed = {}

Arrive(t, i, k, s) ==
  /\ phase[t] = "idle" /\ address[i] = NoSession
  /\ k \in {"tap", "interaction", "recovery"} => s \in Discord
  /\ GoTo(t, "arrived") /\ Carry(t, {i})
  /\ kind' = [kind EXCEPT ![t] = k]
  /\ home' = [home EXCEPT ![t] = s]
  /\ address' = [address EXCEPT ![i] = s]
  /\ UNCHANGED <<active, queue, token, durable, taken, lost, putBack, missed>>

(* No chat for the session, no transport in time, or the agent is gone.    *)
WakeRefused(t) ==
  /\ phase[t] = "arrived" /\ kind[t] \in {"wake", "recovery"}
  /\ GoTo(t, "idle") /\ Carry(t, {})
  /\ lost' = lost \cup carry[t]
  /\ UNCHANGED <<active, queue, token, kind, home, durable, address, taken, putBack, missed>>

(* try_begin_turn: the check and the mark are one lock.                    *)
(* Mutant: a mark without a look.                                          *)
SlotLooksFree(s) == TRUE
SlotIsFree(s)    == s \notin active

Claim(t) ==
  /\ phase[t] = "arrived"
  /\ Slotless(t) \/ SlotIsFree(home[t])
  /\ active' = IF Slotless(t) THEN active ELSE active \cup {home[t]}
  /\ GoTo(t, "claimed")
  /\ UNCHANGED <<queue, token, kind, home, carry, durable, history>>

StoreToken(t) == token' = IF StoresToken(t) THEN [token EXCEPT ![home[t]] = t] ELSE token

(* Mutant: the token is stored before the claim, as it once was.           *)
LoserStoresToken(t) ==
  /\ phase[t] = "arrived" /\ ~Slotless(t) /\ ~SlotIsFree(home[t])
  /\ StoreToken(t)
  /\ GoTo(t, "busy")
  /\ UNCHANGED <<active, queue, kind, home, carry, durable, history>>

LoseClaim(t) ==
  /\ phase[t] = "arrived" /\ ~Slotless(t) /\ ~SlotIsFree(home[t])
  /\ GoTo(t, "busy")
  /\ UNCHANGED <<active, queue, token, kind, home, carry, durable, history>>

(* enqueue_turn_message / enqueue_followup: the row's insert is started    *)
(* and the message queued.  Mutant: before #111, no row.                   *)
NoTwin(s, b)      == UNCHANGED writes
DurableTwin(s, b) == writes' = writes \cup {Row(s, b)}

Enqueue(t) ==
  /\ phase[t] = "busy"
  /\ DurableTwin(home[t], carry[t])
  /\ queue' = [queue EXCEPT ![home[t]] = Append(@, carry[t])]
  /\ putBack' = IF kind[t] = "flushed" THEN putBack \cup {Row(home[t], carry[t])}
                ELSE putBack
  /\ missed' = IF \E u \in Task : Takes(u, home[t]) THEN missed
               ELSE missed \cup carry[t]
  /\ GoTo(t, "idle") /\ Carry(t, {})
  /\ UNCHANGED <<active, token, kind, home, rows, clears, unlucky, address, taken, lost>>

(* The turn's token is stored and its tool loop starts on what it carries. *)
Launch(t) ==
  /\ phase[t] = "claimed"
  /\ StoreToken(t)
  /\ HandOver(carry[t])
  /\ GoTo(t, "looping") /\ Carry(t, {})
  /\ UNCHANGED <<active, queue, kind, home, durable, address, lost, putBack, missed>>

(* drain_turn_messages / drain_followups: the whole queue, and a clear for *)
(* the row of each message.  Mutants: the queue's entry is kept; only the  *)
(* first message is cleared.                                               *)
Remains(s)  == queue[s]
Emptied(s)  == <<>>
FirstOf(s)  == {Row(s, Head(queue[s]))}
Drained(s)  == {Row(s, b) : b \in Range(queue[s])}
Joined(s)   == UNION Range(queue[s])
DrainQueue(s) ==
  /\ queue' = [queue EXCEPT ![s] = Emptied(s)]
  /\ clears' = clears \cup Drained(s)

(* Between two rounds the queue enters the loop of whoever reads it.       *)
(* Mutant: a last look when the turn is over.                              *)
ListensOn(t) == phase[t] \in {"looping", "settled"} /\ Loops(t)
Listens(t)   == phase[t] = "looping" /\ Loops(t)

Drain(t) ==
  /\ Listens(t) /\ queue[home[t]] # <<>>
  /\ HandOver(Joined(home[t]))
  /\ DrainQueue(home[t])
  /\ UNCHANGED <<active, token, task, writes, rows, unlucky, address, lost, putBack, missed>>

(* Answered, failed or cancelled; the answer goes out under the guard.     *)
LoopExit(t) ==
  /\ phase[t] = "looping"
  /\ GoTo(t, "ending")
  /\ UNCHANGED <<active, queue, token, kind, home, carry, durable, history>>

(* ActiveTurnGuard::drop.  A WhatsApp message looks at the queue and       *)
(* spawns the flush when something is there; the Discord turns drain it.   *)
(* Mutant: a turn that just ends.                                          *)
Unmarked(s)    == active \ {s}
EndsAtOnce(t)  == "idle"
AfterTurn(t)   == IF Flushes(t) THEN "settled" ELSE "idle"

Release(t) ==
  /\ phase[t] = "ending"
  /\ active' = IF Slotless(t) THEN active ELSE Unmarked(home[t])
  /\ GoTo(t, AfterTurn(t))
  /\ missed' = IF Flushes(t) \/ Slotless(t) THEN missed
               ELSE missed \cup Joined(home[t])
  /\ UNCHANGED <<queue, token, kind, home, carry, durable, address, taken, lost, putBack>>

(* A flushed WhatsApp turn whose chat is gone is dropped with its guard.   *)
NoChat(t) ==
  /\ phase[t] = "claimed" /\ kind[t] = "flushed" /\ home[t] \notin Discord
  /\ active' = active \ {home[t]}
  /\ lost' = lost \cup carry[t]
  /\ missed' = missed \cup Joined(home[t])
  /\ GoTo(t, "idle") /\ Carry(t, {})
  /\ UNCHANGED <<queue, token, kind, home, durable, address, taken, putBack>>

FlushNothing(t) ==
  /\ phase[t] \in {"settled", "flushing"} /\ queue[home[t]] = <<>>
  /\ GoTo(t, "idle")
  /\ UNCHANGED <<active, queue, token, kind, home, carry, durable, history>>

SpawnFlush(t) ==
  /\ phase[t] = "settled" /\ home[t] \notin Discord /\ queue[home[t]] # <<>>
  /\ GoTo(t, "flushing")
  /\ UNCHANGED <<active, queue, token, kind, home, carry, durable, history>>

(* The drained batch becomes a turn of its own, which claims the slot like *)
(* any other and goes back to the queue when it loses.                     *)
FlushDrain(t) ==
  /\ phase[t] = (IF home[t] \in Discord THEN "settled" ELSE "flushing")
  /\ queue[home[t]] # <<>>
  /\ Carry(t, Joined(home[t]))
  /\ DrainQueue(home[t])
  /\ kind' = [kind EXCEPT ![t] = "flushed"]
  /\ GoTo(t, "arrived")
  /\ UNCHANGED <<active, token, home, writes, rows, unlucky, history>>

(* /stop and cancel intents: the token is cancelled and removed.           *)
Stop(s) ==
  /\ token[s] # NoTask
  /\ token' = [token EXCEPT ![s] = NoTask]
  /\ UNCHANGED <<active, queue, task, durable, history>>

-----------------------------------------------------------------------------
(* notify_queue: inserts run on their own; a clear retires every row of    *)
(* its session with its text until its window ends, which is longer than   *)
(* an insert takes.  Either may fail in the database.                      *)
Insert(r) ==
  /\ r \in writes
  /\ writes' = writes \ {r}
  /\ \/ rows' = rows \cup {r} /\ UNCHANGED unlucky
     \/ unlucky' = unlucky \cup {r} /\ UNCHANGED rows
  /\ UNCHANGED <<active, queue, token, task, clears, history>>

Retire(r) ==
  /\ r \in clears \cap rows
  /\ rows' = rows \ {r}
  /\ UNCHANGED <<active, queue, token, task, writes, clears, unlucky, history>>

EndClear(r) ==
  /\ r \in clears
  /\ \/ r \notin writes \cup rows /\ UNCHANGED unlucky
     \/ unlucky' = unlucky \cup {r}
  /\ clears' = clears \ {r}
  /\ UNCHANGED <<active, queue, token, task, writes, rows, history>>

-----------------------------------------------------------------------------
Step(t) ==
  \/ Claim(t) \/ LoseClaim(t) \/ Enqueue(t) \/ Launch(t) \/ LoopExit(t)
  \/ Release(t) \/ FlushNothing(t) \/ SpawnFlush(t) \/ FlushDrain(t)

Next ==
  \/ \E t \in Task :
       \/ Step(t) \/ Drain(t) \/ WakeRefused(t) \/ NoChat(t)
       \/ \E i \in Item, k \in Handler, s \in Session : Arrive(t, i, k, s)
  \/ \E s \in Session : Stop(s)
  \/ \E r \in writes : Insert(r)
  \/ \E r \in clears : Retire(r) \/ EndClear(r)

Spec == Init /\ [][Next]_vars

-----------------------------------------------------------------------------
Batch == SUBSET Item
TypeOK ==
  /\ active \subseteq Session
  /\ queue \in [Session -> Seq(Batch)]
  /\ token \in [Session -> Task \cup {NoTask}]
  /\ phase \in [Task -> Phase] /\ kind \in [Task -> Kind]
  /\ home \in [Task -> Session \cup {NoSession}]
  /\ carry \in [Task -> Batch]
  /\ \A r \in writes \cup rows \cup clears \cup unlucky \cup putBack :
       r \in [session : Session, text : Batch]
  /\ address \in [Item -> Session \cup {NoSession}]
  /\ taken \in [Item -> Nat] /\ lost \subseteq Item /\ missed \subseteq Item

(* One turn per session among the turns that claim the slot, on either     *)
(* surface: the slot is marked exactly while one of them holds it (#1990,  *)
(* #2179, #2191).  The turns that run beside it (Slotless) never mark it.  *)
OneTurnPerSlot ==
  \A s \in Session :
    /\ s \in active <=> \E t \in Task : Holds(t) /\ home[t] = s
    /\ \A t, u \in Task : Holds(t) /\ Holds(u) /\ home[t] = s /\ home[u] = s => t = u

(* /stop reaches the turn that runs: the stored token is never that of     *)
(* another turn, because a lost claim stores none and a claim is not given *)
(* away while the loop runs (discord/handler.rs:1301, discord/cancel.rs:9).*)
StopReachesTheTurn ==
  \A t \in Task : phase[t] = "looping" /\ StoresToken(t) => token[home[t]] \in {t, NoTask}

(* An item that has arrived is in exactly one place: held by one task, in  *)
(* one message of one queue, handed to a loop once, or dropped on a logged *)
(* error path; claims, flushes and messages put back lose and double none. *)
InMessage(i, s, n) == n \in DOMAIN queue[s] /\ i \in queue[s][n]
AtMostOnce(i) ==
  /\ \A t, u \in Task : i \in carry[t] \cap carry[u] => t = u
  /\ \A s, q \in Session : \A n \in DOMAIN queue[s], m \in DOMAIN queue[q] :
       InMessage(i, s, n) /\ InMessage(i, q, m) => s = q /\ n = m
  /\ taken[i] <= 1
Places(i) ==
  (IF \E t \in Task : i \in carry[t] THEN {"held"} ELSE {})
    \cup (IF \E s \in Session : i \in Joined(s) THEN {"queued"} ELSE {})
    \cup (IF taken[i] > 0 THEN {"taken"} ELSE {})
    \cup (IF i \in lost THEN {"lost"} ELSE {})
ExactlyOnePlace ==
  \A i \in Item :
    /\ AtMostOnce(i)
    /\ IF address[i] = NoSession THEN Places(i) = {}
       ELSE \E p \in {"held", "queued", "taken", "lost"} : Places(i) = {p}

(* What waits in a queue has its row, or its insert is under way, so that  *)
(* a restart finds it (#111): unless the database failed, or a flush put   *)
(* it back while the clear of its first row was still looking.             *)
QueuedHaveARow ==
  \A s \in Session : \A b \in Range(queue[s]) :
    Row(s, b) \in rows \cup writes \cup unlucky \cup putBack

(* A row does not outlive the delivery of what it says: once its items are *)
(* in a loop, its clear is looking for it, whichever of the drains took    *)
(* them (turns.rs:88, notify_queue.rs:352), unless the database failed.    *)
NoRowOutlivesDelivery ==
  \A r \in rows \cup writes :
    (\A i \in r.text : taken[i] > 0) => r \in clears \cup unlucky

(* Both surfaces refine the mailbox: an item is taken into a running turn  *)
(* of the session it was sent to, at most once.                            *)
Status(i) == CASE address[i] = NoSession -> "new"
               [] taken[i] > 0           -> "taken"
               [] i \in lost             -> "dropped"
               [] OTHER                  -> "waiting"
Mailbox == INSTANCE SessionMailbox
             WITH open <- {home[t] : t \in {u \in Task : InLoop(u)}},
                  status <- [i \in Item |-> Status(i)]
RefinesMailbox == Mailbox!Spec

(* No follow-up is stranded but by a known gap: while a message waits, a   *)
(* turn of its session or the flush after one is still to look at the      *)
(* queue.  The gaps are a message queued after the flush of the turn it    *)
(* lost to, and a turn that ends without a flush: Discord's taps, menus    *)
(* and reactions, and WhatsApp's flushed turn.                             *)
WaitingHasATaker ==
  \A s \in Session : \A i \in Joined(s) \ missed : \E t \in Task : Takes(t, s)
=============================================================================
