---------------------------- MODULE TelegramTurns ----------------------------
(***************************************************************************)
(* The per-session turn slot of the Telegram surface and the queue of what *)
(* arrives while the slot is taken (channels/telegram/{state,resume,       *)
(* handler,agent,guest}.rs).                                               *)
(*                                                                         *)
(* Every inbound thing - a user message, an emoji reaction, a button tap,  *)
(* a guest query, a finished background command, a boot replay - is an     *)
(* item, and a handler that runs for it is a task.  A task claims the slot *)
(* with try_begin_turn, or loses the claim and does what its handler does  *)
(* then.  The claim and the queueing that follows a lost claim are two     *)
(* critical sections of the code, so they are two actions here.            *)
(***************************************************************************)
EXTENDS Naturals, Sequences, SequencesExt, FiniteSets

CONSTANTS
  Session,       \* session ids
  FreshSession,  \* the ids create_channel_session may hand to a retried turn
  Item,          \* everything that can arrive
  Task,          \* ids for the handlers running at the same time
  InPlay,        \* the handlers that may run, a subset of Handler
  NoSession

(* The handlers that can claim a turn slot. *)
Handler == {"message", "reaction", "tap", "guest",
            "push", "approval", "callback", "replay"}

(* Two more kinds of turn exist, both opened by the end-of-turn flush:     *)
(* "resumed" runs queued detached work, "flushed" runs queued reactions.   *)
Kind == Handler \cup {"resumed", "flushed"}

ASSUME SessionAssumption == FreshSession \subseteq Session /\ NoSession \notin Session
ASSUME InPlayAssumption  == InPlay \subseteq Handler

VARIABLES
  active,   \* active_turns: the sessions whose slot is taken
  queue,    \* pending_reactions: per session and origin, in arrival order
  bound,    \* the sessions a chat resolves to
  phase,    \* where each task is
  kind,     \* which turn path it runs
  home,     \* the session it runs on
  carry,    \* the items it holds and has not handed over yet
  retry,    \* the fresh session a failed message turn continues under
  \* History, for the properties only:
  address,  \* the session each item was sent to
  injected, \* how often each item entered a tool loop
  lost,     \* items dropped by a handler
  stopped,  \* items dropped by /stop
  missed    \* items queued in, or left behind through, a known gap

task    == <<phase, kind, home, carry, retry>>
history == <<address, injected, lost, stopped, missed>>
vars    == <<active, queue, bound, task, history>>

Phase == {"idle", "arrived", "busy", "running", "rebinding", "retrying",
          "delivering", "settled", "reclaim", "requeue"}

(* QueuedOrigin: how an item left over at the end of a turn is answered.   *)
(* The queue is kept per origin; how the two interleave is not modelled.   *)
Origin == {"Reaction", "DetachedWork"}
NoItems == [o \in Origin |-> <<>>]

-----------------------------------------------------------------------------
(* What a handler does when try_begin_turn says no.                        *)
QueuesAs(k) == IF k = "push" THEN "DetachedWork" ELSE "Reaction"
DropsWhenBusy == {"approval", "callback", "replay", "resumed"}

(* A reaction turn is one provider call, and a boot replay runs on the     *)
(* terminal's agent, which reads the terminal's queue: nothing drains this *)
(* one in them.                                                            *)
Loops == Kind \ {"reaction", "replay"}

(* Mutant: resume_session before #201, without its tail.                   *)
OnlyResumedFlushes == {"resumed"}

(* The turn paths that call flush_queued_after_turn when they end; an      *)
(* ingress turn calls it only when it was neither cancelled nor finished   *)
(* by a cleanup-only delivery.                                             *)
AlwaysFlushes == {"replay", "resumed"}
MayFlush == AlwaysFlushes \cup {"message"}

HoldsHome(t)  == phase[t] \in {"running", "rebinding", "retrying", "delivering"}
HoldsFresh(t) == phase[t] = "retrying"
Holds(t, s) == (HoldsHome(t) /\ home[t] = s) \/ (HoldsFresh(t) /\ retry[t] = s)

(* Who may still look at a session's queue: its turn, or the flush after.  *)
Takes(t, s) == Holds(t, s) \/ (phase[t] = "settled" /\ home[t] = s)

(* The session whose queue the task's tool loop reads between rounds.      *)
LoopSession(t) == IF phase[t] = "retrying" THEN retry[t] ELSE home[t]

ItemsOf(q) == UNION {Range(q[o]) : o \in Origin}
Push(s, o, i) == queue' = [queue EXCEPT ![s][o] = Append(@, i)]
Empty(s) == queue' = [queue EXCEPT ![s] = NoItems]
MissUnlessTaken(s, i) ==
  missed' = IF \E t \in Task : Takes(t, s) THEN missed ELSE missed \cup {i}
HandOver(S) == injected' = [i \in Item |-> IF i \in S THEN injected[i] + 1
                                                      ELSE injected[i]]

-----------------------------------------------------------------------------
Init ==
  /\ active = {}
  /\ queue = [s \in Session |-> NoItems]
  /\ bound = Session \ FreshSession
  /\ phase = [t \in Task |-> "idle"]
  /\ kind  = [t \in Task |-> "message"]
  /\ home  = [t \in Task |-> NoSession]
  /\ carry = [t \in Task |-> <<>>]
  /\ retry = [t \in Task |-> NoSession]
  /\ address  = [i \in Item |-> NoSession]
  /\ injected = [i \in Item |-> 0]
  /\ lost = {} /\ stopped = {} /\ missed = {}

(* An update, a finished command or a boot replay reaches its handler.     *)
Arrive(t, i, k, s) ==
  /\ phase[t] = "idle"
  /\ address[i] = NoSession
  /\ s \in bound
  /\ phase' = [phase EXCEPT ![t] = "arrived"]
  /\ kind'  = [kind  EXCEPT ![t] = k]
  /\ home'  = [home  EXCEPT ![t] = s]
  /\ carry' = [carry EXCEPT ![t] = <<i>>]
  /\ address' = [address EXCEPT ![i] = s]
  /\ UNCHANGED <<active, queue, bound, retry, injected, lost, stopped, missed>>

(* The task ends and what it still carries is gone.                        *)
GiveUp(t) ==
  /\ phase' = [phase EXCEPT ![t] = "idle"]
  /\ carry' = [carry EXCEPT ![t] = <<>>]
  /\ lost'  = lost \cup Range(carry[t])

(* The wake callback gives up: no chat for the session, another session    *)
(* occupies its chat, the transport never came up, or the agent is gone.   *)
WakeRefused(t) ==
  /\ phase[t] = "arrived"
  /\ kind[t] = "push"
  /\ GiveUp(t)
  /\ UNCHANGED <<active, queue, bound, kind, home, retry,
                 address, injected, stopped, missed>>

(* The guard is held and the carried items are the turn's prompt.          *)
BeginTurn(t, s) ==
  /\ active' = active \cup {s}
  /\ phase' = [phase EXCEPT ![t] = "running"]
  /\ carry' = [carry EXCEPT ![t] = <<>>]
  /\ HandOver(Range(carry[t]))

(* Mutant of the claim: no check under the lock.                           *)
ClaimUnchecked(t) ==
  /\ phase[t] = "arrived"
  /\ BeginTurn(t, home[t])
  /\ UNCHANGED <<queue, bound, kind, home, retry, address, lost, stopped, missed>>

(* try_begin_turn returns the guard: the check and the mark are one lock.  *)
ClaimSlot(t) ==
  /\ phase[t] = "arrived"
  /\ home[t] \notin active
  /\ BeginTurn(t, home[t])
  /\ UNCHANGED <<queue, bound, kind, home, retry, address, lost, stopped, missed>>

(* try_begin_turn returns None.  Four callers return at once, and what     *)
(* they carried goes with them; the others go on to queue it.              *)
DropBusy(t) ==
  /\ phase[t] = "arrived"
  /\ home[t] \in active
  /\ kind[t] \in DropsWhenBusy
  /\ GiveUp(t)
  /\ UNCHANGED <<active, queue, bound, kind, home, retry,
                 address, injected, stopped, missed>>

LoseClaim(t) ==
  /\ phase[t] = "arrived"
  /\ home[t] \in active
  /\ kind[t] \notin DropsWhenBusy
  /\ phase' = [phase EXCEPT ![t] = "busy"]
  /\ UNCHANGED <<active, queue, bound, kind, home, carry, retry, history>>

(* enqueue_reaction / enqueue_detached_result, under the queue's own lock. *)
Enqueue(t) ==
  /\ phase[t] = "busy"
  /\ Push(home[t], QueuesAs(kind[t]), Head(carry[t]))
  /\ MissUnlessTaken(home[t], Head(carry[t]))
  /\ phase' = [phase EXCEPT ![t] = "idle"]
  /\ carry' = [carry EXCEPT ![t] = <<>>]
  /\ UNCHANGED <<active, bound, kind, home, retry, address, injected, lost, stopped>>

(* Mutant of the drain: the map entry is read and not removed.             *)
DrainKeepsQueue(t) ==
  /\ phase[t] \in {"running", "retrying"}
  /\ kind[t] \in Loops
  /\ queue[LoopSession(t)] # NoItems
  /\ HandOver(ItemsOf(queue[LoopSession(t)]))
  /\ UNCHANGED <<active, queue, bound, task, address, lost, stopped, missed>>

(* drain_reaction between two rounds: the whole queue, joined, enters the  *)
(* running loop.                                                           *)
Drain(t) ==
  /\ phase[t] \in {"running", "retrying"}
  /\ kind[t] \in Loops
  /\ queue[LoopSession(t)] # NoItems
  /\ HandOver(ItemsOf(queue[LoopSession(t)]))
  /\ Empty(LoopSession(t))
  /\ UNCHANGED <<active, bound, task, address, lost, stopped, missed>>

(* The tool loop is over - answered, failed or cancelled - and the final   *)
(* bubble goes out.  The slot is still held and nothing drains any more.   *)
LoopExit(t) ==
  /\ phase[t] = "running"
  /\ phase' = [phase EXCEPT ![t] = "delivering"]
  /\ UNCHANGED <<active, queue, bound, kind, home, carry, retry, history>>

(* A message turn whose session no longer exists retries under a fresh     *)
(* one: the chat is bound to it first and mark_turn_active runs after.     *)
RebindFresh(t, f) ==
  /\ phase[t] = "running"
  /\ kind[t] = "message"
  /\ f \in FreshSession \ bound
  /\ bound' = bound \cup {f}
  /\ retry' = [retry EXCEPT ![t] = f]
  /\ phase' = [phase EXCEPT ![t] = "rebinding"]
  /\ UNCHANGED <<active, queue, kind, home, carry, history>>

(* mark_turn_active: inserts whether or not the slot was free.             *)
MarkFresh(t) ==
  /\ phase[t] = "rebinding"
  /\ active' = active \cup {retry[t]}
  /\ phase' = [phase EXCEPT ![t] = "retrying"]
  /\ UNCHANGED <<queue, bound, kind, home, carry, retry, history>>

(* The retried loop ends and its guard drops; the first guard stays.       *)
RetryExit(t) ==
  /\ phase[t] = "retrying"
  /\ active' = active \ {retry[t]}
  /\ retry' = [retry EXCEPT ![t] = NoSession]
  /\ phase' = [phase EXCEPT ![t] = "delivering"]
  /\ missed' = missed \cup ItemsOf(queue[retry[t]])
  /\ UNCHANGED <<queue, bound, kind, home, carry, address, injected, lost, stopped>>

(* Mutant: a guard whose drop leaves the mark.                             *)
ReleaseLeavesMark(t, flush) ==
  /\ phase[t] = "delivering"
  /\ flush => kind[t] \in MayFlush
  /\ kind[t] \in AlwaysFlushes => flush
  /\ phase' = [phase EXCEPT ![t] = IF flush THEN "settled" ELSE "idle"]
  /\ missed' = IF flush THEN missed ELSE missed \cup ItemsOf(queue[home[t]])
  /\ UNCHANGED <<active, queue, bound, kind, home, carry, retry,
                 address, injected, lost, stopped>>

(* ActiveTurnGuard::drop.  Only some paths go on to flush.                 *)
Release(t, flush) ==
  /\ phase[t] = "delivering"
  /\ flush => kind[t] \in MayFlush
  /\ kind[t] \in AlwaysFlushes => flush
  /\ active' = active \ {home[t]}
  /\ phase' = [phase EXCEPT ![t] = IF flush THEN "settled" ELSE "idle"]
  /\ missed' = IF flush THEN missed ELSE missed \cup ItemsOf(queue[home[t]])
  /\ UNCHANGED <<queue, bound, kind, home, carry, retry,
                 address, injected, lost, stopped>>

(* flush_queued_after_turn takes the whole queue and splits it by origin:  *)
(* reactions stay with this task for a second claim, and detached work is  *)
(* spawned as a resumed turn u of its own.                                 *)
KeepReactions(t) ==
  IF queue[home[t]]["Reaction"] = <<>> THEN "idle" ELSE "reclaim"

Flush(t) ==
  /\ phase[t] = "settled"
  /\ queue[home[t]]["DetachedWork"] = <<>>
  /\ Empty(home[t])
  /\ phase' = [phase EXCEPT ![t] = KeepReactions(t)]
  /\ carry' = [carry EXCEPT ![t] = queue[home[t]]["Reaction"]]
  /\ UNCHANGED <<active, bound, kind, home, retry, history>>

(* Mutant: the detached arm returns before the reactions are looked at.    *)
FlushDetachedOnly(t, u) ==
  /\ phase[t] = "settled" /\ phase[u] = "idle"
  /\ queue[home[t]]["DetachedWork"] # <<>>
  /\ queue' = [queue EXCEPT ![home[t]]["DetachedWork"] = <<>>]
  /\ phase' = [phase EXCEPT ![t] = "idle", ![u] = "arrived"]
  /\ carry' = [carry EXCEPT ![u] = queue[home[t]]["DetachedWork"]]
  /\ kind' = [kind EXCEPT ![u] = "resumed"]
  /\ home' = [home EXCEPT ![u] = home[t]]
  /\ UNCHANGED <<active, bound, retry, history>>

FlushSpawning(t, u) ==
  /\ phase[t] = "settled"
  /\ phase[u] = "idle"
  /\ queue[home[t]]["DetachedWork"] # <<>>
  /\ Empty(home[t])
  /\ phase' = [phase EXCEPT ![t] = KeepReactions(t), ![u] = "arrived"]
  /\ carry' = [carry EXCEPT ![t] = queue[home[t]]["Reaction"],
                            ![u] = queue[home[t]]["DetachedWork"]]
  /\ kind' = [kind EXCEPT ![u] = "resumed"]
  /\ home' = [home EXCEPT ![u] = home[t]]
  /\ UNCHANGED <<active, bound, retry, history>>

(* The reaction arm claims the slot again and runs one more turn; that     *)
(* turn ends without a flush of its own.                                   *)
Reclaim(t) ==
  /\ phase[t] = "reclaim"
  /\ home[t] \notin active
  /\ BeginTurn(t, home[t])
  /\ kind' = [kind EXCEPT ![t] = "flushed"]
  /\ UNCHANGED <<queue, bound, home, retry, address, lost, stopped, missed>>

LoseReclaim(t) ==
  /\ phase[t] = "reclaim"
  /\ home[t] \in active
  /\ phase' = [phase EXCEPT ![t] = "requeue"]
  /\ UNCHANGED <<active, queue, bound, kind, home, carry, retry, history>>

(* ... or puts each one back, one enqueue_reaction at a time.              *)
Requeue(t) ==
  /\ phase[t] = "requeue"
  /\ Push(home[t], "Reaction", Head(carry[t]))
  /\ carry' = [carry EXCEPT ![t] = Tail(@)]
  /\ phase' = [phase EXCEPT ![t] = IF Len(carry[t]) = 1 THEN "idle" ELSE "requeue"]
  /\ MissUnlessTaken(home[t], Head(carry[t]))
  /\ UNCHANGED <<active, bound, kind, home, retry, address, injected, lost, stopped>>

(* /stop on a session: its token is cancelled (LoopExit needs no reason)   *)
(* and whatever was queued behind the turn is dropped.                     *)
StopTarget(s) ==
  /\ queue[s] # NoItems
  /\ stopped' = stopped \cup ItemsOf(queue[s])
  /\ Empty(s)
  /\ UNCHANGED <<active, bound, task, address, injected, lost, missed>>

Step(t) ==
  \/ ClaimSlot(t) \/ DropBusy(t) \/ LoseClaim(t) \/ Enqueue(t)
  \/ LoopExit(t) \/ MarkFresh(t) \/ RetryExit(t)
  \/ \E flush \in BOOLEAN : Release(t, flush)
  \/ Flush(t) \/ \E u \in Task : FlushSpawning(t, u)
  \/ Reclaim(t) \/ LoseReclaim(t) \/ Requeue(t)

Next ==
  \/ \E t \in Task :
       \/ Step(t)
       \/ \E i \in Item, k \in InPlay, s \in Session : Arrive(t, i, k, s)
       \/ WakeRefused(t)
       \/ Drain(t)
       \/ \E f \in FreshSession : RebindFresh(t, f)
  \/ \E s \in Session : StopTarget(s)

(* Tokio runs every spawned task, and a tool loop returns: it answers,     *)
(* fails, or is cancelled.  Nothing is assumed about arrivals, about the   *)
(* rounds that drain the queue, or about /stop.                            *)
Spec == Init /\ [][Next]_vars
FairSpec == Spec /\ \A t \in Task : WF_vars(Step(t))

-----------------------------------------------------------------------------
TypeOK ==
  /\ active \subseteq Session
  /\ queue \in [Session -> [Origin -> Seq(Item)]]
  /\ bound \subseteq Session
  /\ phase \in [Task -> Phase]
  /\ kind \in [Task -> Kind]
  /\ home \in [Task -> Session \cup {NoSession}]
  /\ carry \in [Task -> Seq(Item)]
  /\ retry \in [Task -> Session \cup {NoSession}]
  /\ address \in [Item -> Session \cup {NoSession}]
  /\ injected \in [Item -> Nat]
  /\ lost \subseteq Item /\ stopped \subseteq Item /\ missed \subseteq Item

(* One turn per session: the slot is marked exactly while a task holds it, *)
(* and two tasks never hold it at once (#501, #845).  The claim, the       *)
(* guard's drop and the flush's second claim keep it together.             *)
OneTurn(s) ==
  /\ s \in active <=> \E t \in Task : Holds(t, s)
  /\ \A t, u \in Task : Holds(t, s) /\ Holds(u, s) => t = u
OneTurnPerSession == \A s \in Session : OneTurn(s)

(* With retries it still holds for every session no retry was moved to.    *)
OneTurnOutsideRetries == \A s \in Session \ FreshSession : OneTurn(s)

(* Where an arrived item can be: held by a task, queued once, handed to a  *)
(* loop once, dropped by a handler or dropped by /stop.                    *)
Carriers(i) ==
  UNION {{t} \X {n \in DOMAIN carry[t] : carry[t][n] = i} : t \in Task}
QueueSlots(i) ==
  UNION {{c} \X {n \in DOMAIN queue[c[1]][c[2]] : queue[c[1]][c[2]][n] = i} :
           c \in Session \X Origin}
Copies(i) == Cardinality(Carriers(i)) + Cardinality(QueueSlots(i)) + injected[i]
             + (IF i \in lost THEN 1 ELSE 0) + (IF i \in stopped THEN 1 ELSE 0)

(* Nothing that arrives vanishes or is doubled: whatever the claims, the   *)
(* flushes and the stops do, each item is in exactly one place, and enters *)
(* a tool loop at most once in the life of the process.                    *)
ExactlyOnePlace ==
  \A i \in Item : Copies(i) = IF address[i] = NoSession THEN 0 ELSE 1

(* A mid-turn item is stranded through a known gap only (handler.rs:2909   *)
(* says never): while it waits, a turn holds its session's slot, or the    *)
(* flush after one is on its way to the queue.  The gaps: the turn it lost *)
(* to has ended and flushed before it is queued or put back; a turn ends   *)
(* without a flush; a retried loop leaves its fresh session.               *)
WaitingHasATaker ==
  \A s \in Session : \A i \in ItemsOf(queue[s]) \ missed :
    \E t \in Task : Takes(t, s)

(* An item queued while a replayed or resumed turn holds the slot is never *)
(* stranded: a resumed loop, the flush or /stop takes it from the queue    *)
(* (resume_session's tail, #201).                                          *)
Queued(i) == \E s \in Session : i \in ItemsOf(queue[s])
QueuedUnder(i, K) ==
  \E s \in Session : /\ i \in ItemsOf(queue[s])
                     /\ \E t \in Task : home[t] = s /\ kind[t] \in K /\ HoldsHome(t)
ResumedTurnsDrain ==
  \A i \in Item : QueuedUnder(i, {"replay", "resumed"}) ~> ~Queued(i)

(* Every claimed slot is given back, whatever the turn path.               *)
SlotsComeFree == \A s \in Session : s \in active ~> s \notin active

(* The turns refine the mailbox of every session no retry is moved to: an  *)
(* item enters a loop at most once, only of the session it was addressed   *)
(* to, and only while that session's slot is held.  What is sent to a      *)
(* fresh session is none of that mailbox's business.                       *)
Addressee(i) == IF address[i] \in FreshSession THEN NoSession ELSE address[i]
Status(i) == CASE Addressee(i) = NoSession         -> "new"
               [] injected[i] > 0              -> "taken"
               [] i \in lost \cup stopped      -> "dropped"
               [] OTHER                        -> "waiting"
Mailbox == INSTANCE SessionMailbox
             WITH Session <- Session \ FreshSession,
                  open    <- active \ FreshSession,
                  address <- [i \in Item |-> Addressee(i)],
                  status  <- [i \in Item |-> Status(i)]
RefinesMailbox == Mailbox!Spec
=============================================================================
