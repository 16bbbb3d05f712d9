----------------------------- MODULE FinalEdits -----------------------------
(***************************************************************************)
(* The final edits of one Telegram chat (channels/telegram/governor.rs):   *)
(* the admission gate of an edit, the queue of the renders it could not    *)
(* let out, which keeps the latest render of each message, and the drainer *)
(* that lands them as the chat's budget comes back.                        *)
(*                                                                         *)
(* A render is its number: the n-th final render of its message.  The      *)
(* token bucket counts whole tokens, and what a chat accrues while it is   *)
(* paused is anything up to a full bucket: the code freezes the bucket in  *)
(* refill (:600), but a reader that clears the expired pause (:660) hands  *)
(* the frozen time back.  A render is drawn up and admitted in one step,   *)
(* as no await lies between the two.                                       *)
(***************************************************************************)
EXTENDS Naturals

CONSTANTS
  Msg,          \* message ids: flow blocks and plan cards of the chat
  Caller,       \* renders that go out at the same time
  Drainer,      \* ids for the drainer tasks
  Capacity,     \* edit_burst
  MaxAttempts,  \* FINAL_MAX_ATTEMPTS
  MaxRender,    \* bound: final renders, of each message
  MaxOther,     \* bound: what the chat's other traffic does to the bucket
  NoMsg

Task == Caller \cup Drainer

ASSUME TasksDiffer      == Caller \cap Drainer = {}
ASSUME NoMsgAssumption  == NoMsg \notin Msg
ASSUME BudgetAssumption == Capacity \in Nat /\ MaxAttempts \in Nat \ {0}
ASSUME BoundAssumption  == MaxRender \in [Msg -> Nat] /\ MaxOther \in Nat

VARIABLES
  finals, attempts,  \* per message: the queued render (0 is none), its attempts
  draining,          \* a drainer is thought to run
  tokens, paused,    \* the edit bucket, and a 429 pause on it
  forum,             \* forum_seen: the chat is governed
  at, msg, ver, tries,  \* of each task: where it is, the render in its hands
  others,            \* how often the other traffic has acted, for its bound
  \* History, for the properties only:
  newest,            \* per message: the last render made
  shown,             \* per message: what the user sees, until it is excused
  excused            \* messages with a known way to show an older render

queue   == <<finals, attempts, draining>>
bucket  == <<tokens, paused>>
task    == <<at, msg, ver, tries>>
history == <<newest, shown, excused>>
vars    == <<queue, bucket, forum, task, others, history>>

-----------------------------------------------------------------------------
Empty     == \A m \in Msg : finals[m] = 0
HasToken  == tokens > 0 /\ ~paused
OnWire(t) == at[t] \in {"editing", "sending"}
InFlight(m) == \E t \in Task : OnWire(t) /\ msg[t] = m
OtherInFlight(m, v) == \E t \in Task : OnWire(t) /\ msg[t] = m /\ ver[t] # v

GoTo(t, p) == at' = [at EXCEPT ![t] = p]
Hold(t, m, v, n) ==
  /\ msg' = [msg EXCEPT ![t] = m]
  /\ ver' = [ver EXCEPT ![t] = v]
  /\ tries' = [tries EXCEPT ![t] = n]
LetGo(t) == Hold(t, NoMsg, 0, 0)
Show(m, v)  == shown' = IF m \in excused THEN shown ELSE [shown EXCEPT ![m] = v]
Excuse(m)   == excused' = excused \cup {m}
ExcuseIf(m, overtakes) == excused' = IF overtakes THEN excused \cup {m} ELSE excused

Init ==
  /\ finals = [m \in Msg |-> 0] /\ attempts = [m \in Msg |-> 0] /\ draining = FALSE
  /\ tokens = Capacity /\ paused = FALSE /\ forum = FALSE
  /\ at = [t \in Task |-> "off"] /\ msg = [t \in Task |-> NoMsg]
  /\ ver = [t \in Task |-> 0] /\ tries = [t \in Task |-> 0]
  /\ others = 0
  /\ newest = [m \in Msg |-> 0] /\ shown = [m \in Msg |-> 0] /\ excused = {}

-----------------------------------------------------------------------------
(* edit_admission of a final: it goes out, in an ungoverned chat always,   *)
(* else for a token.  Nothing looks at what is queued or in flight for the *)
(* message.                                                                *)
LetOut(c, m, v, n) ==
  /\ \/ ~forum /\ UNCHANGED tokens
     \/ forum /\ HasToken /\ tokens' = tokens - 1
  /\ GoTo(c, "editing") /\ Hold(c, m, v, n)
  /\ UNCHANGED <<queue, paused, forum, others>>

(* Without a token it takes the place of what was queued for its message.  *)
(* Mutant: what is queued stays.                                           *)
KeepQueued(m, v) == IF finals[m] = 0 THEN v ELSE finals[m]
Replace(m, v)    == v

PutInQueue(c, m, v) ==
  /\ forum /\ ~HasToken
  /\ finals' = [finals EXCEPT ![m] = Replace(m, v)]
  /\ attempts' = [attempts EXCEPT ![m] = 0]
  /\ GoTo(c, "queued") /\ LetGo(c)
  /\ UNCHANGED <<draining, bucket, forum, others>>

(* A new final render: sent, or queued.                                    *)
Render(c, m) ==
  /\ at[c] = "off" /\ newest[m] < MaxRender[m]
  /\ newest' = [newest EXCEPT ![m] = @ + 1]
  /\ UNCHANGED shown

Admit(c, m) ==
  /\ Render(c, m)
  /\ ExcuseIf(m, finals[m] # 0 \/ InFlight(m))
  /\ LetOut(c, m, newest[m] + 1, 0)

Queue(c, m) ==
  /\ Render(c, m)
  /\ PutInQueue(c, m, newest[m] + 1)
  /\ UNCHANGED excused

(* ensure_drain, under a lock of its own.                                  *)
EnsureDrain(c) ==
  /\ at[c] = "queued"
  /\ IF draining \/ Empty
       THEN GoTo(c, "off") /\ UNCHANGED draining
       ELSE \E d \in Drainer :
              /\ at[d] = "off"
              /\ at' = [at EXCEPT ![c] = "off", ![d] = "asleep"]
              /\ draining' = TRUE
  /\ UNCHANGED <<finals, attempts, bucket, forum, msg, ver, tries, others, history>>

(* The caller's own edit arrives, or it fails for good: the settle render  *)
(* of a turn has no next tick.  A lost answer leaves it on the screen.     *)
EditLands(c) ==
  /\ at[c] = "editing"
  /\ Show(msg[c], ver[c])
  /\ GoTo(c, "off") /\ LetGo(c)
  /\ UNCHANGED <<queue, bucket, forum, others, newest, excused>>

EditFails(c) ==
  /\ at[c] = "editing"
  /\ Excuse(msg[c])
  /\ GoTo(c, "off") /\ LetGo(c)
  /\ UNCHANGED <<queue, bucket, forum, others, newest, shown>>

(* A rich edit that failed is rendered anew for the classic path, which    *)
(* asks for admission again.                                               *)
FallBack(c) ==
  /\ at[c] = "editing" /\ tries[c] = 0
  /\ Show(msg[c], ver[c]) \/ UNCHANGED shown
  /\ LetOut(c, msg[c], newest[msg[c]], 1) \/ PutInQueue(c, msg[c], newest[msg[c]])
  /\ UNCHANGED <<newest, excused>>

(* A classic edit waits a 429 out, which pauses the chat, and is sent once *)
(* more, rendered anew and without admission.                              *)
WaitOut(c) ==
  /\ at[c] = "editing" /\ tries[c] < 2
  /\ paused' \in {paused, TRUE}
  /\ GoTo(c, "waiting") /\ Hold(c, msg[c], 0, 2)
  /\ UNCHANGED <<queue, tokens, forum, others, history>>

Resend(c) ==
  /\ at[c] = "waiting"
  /\ GoTo(c, "editing") /\ Hold(c, msg[c], newest[msg[c]], 2)
  /\ UNCHANGED <<queue, bucket, forum, others, history>>

(* The block was closed or replaced while the edit waited.                 *)
BlockIsGone(c) ==
  /\ at[c] = "waiting"
  /\ Excuse(msg[c])
  /\ GoTo(c, "off") /\ LetGo(c)
  /\ UNCHANGED <<queue, bucket, forum, others, newest, shown>>

-----------------------------------------------------------------------------
(* drain_finals, after its sleep: take_due_final finds nothing, no budget, *)
(* or a render.  Mutant: the flag is left to whoever comes next.           *)
StillDraining == draining
DoneDraining  == FALSE

FindNothing(d) ==
  /\ at[d] = "asleep" /\ Empty
  /\ draining' = DoneDraining
  /\ GoTo(d, "looking")
  /\ UNCHANGED <<finals, attempts, bucket, forum, msg, ver, tries, others, history>>

FindNoBudget(d) ==
  /\ at[d] = "asleep" /\ ~Empty /\ ~HasToken
  /\ GoTo(d, "looking")
  /\ UNCHANGED <<queue, bucket, forum, msg, ver, tries, others, history>>

TakeDueFinal(d) ==
  /\ at[d] = "asleep" /\ HasToken
  /\ tokens' = tokens - 1
  /\ \E m \in Msg :
       /\ finals[m] # 0
       /\ finals' = [finals EXCEPT ![m] = 0]
       /\ attempts' = [attempts EXCEPT ![m] = 0]
       /\ ExcuseIf(m, OtherInFlight(m, finals[m]))
       /\ GoTo(d, "sending") /\ Hold(d, m, finals[m], attempts[m])
  /\ UNCHANGED <<draining, paused, forum, others, newest, shown>>

(* The second look, under another lock: out only when the queue is empty.  *)
(* Mutant: the drainer leaves either way.                                  *)
LeavesAnyway == TRUE
NothingLeft  == Empty

LookAgain(d) ==
  /\ at[d] = "looking"
  /\ GoTo(d, IF NothingLeft THEN "off" ELSE "asleep")
  /\ UNCHANGED <<queue, bucket, forum, msg, ver, tries, others, history>>

(* deliver_final: landed; bounced, by a 429 that pauses the chat or by any *)
(* transient error, and put back; or given up, for a permanent error or    *)
(* after the last attempt.                                                 *)
Delivered(d) ==
  /\ at[d] = "sending"
  /\ Show(msg[d], ver[d])
  /\ GoTo(d, "asleep") /\ LetGo(d)
  /\ UNCHANGED <<queue, bucket, forum, others, newest, excused>>

(* Mutant: a retry starts to count again.                                  *)
FreshTries(d) == 0
TriedOnce(d)  == tries[d] + 1

Retried(d) ==
  /\ at[d] = "sending" /\ TriedOnce(d) < MaxAttempts
  /\ finals' = [finals EXCEPT ![msg[d]] = ver[d]]
  /\ attempts' = [attempts EXCEPT ![msg[d]] = TriedOnce(d)]
  /\ Show(msg[d], ver[d]) \/ UNCHANGED shown
  /\ ExcuseIf(msg[d], finals[msg[d]] \notin {0, ver[d]})
  /\ paused' \in {paused, TRUE}
  /\ GoTo(d, "asleep") /\ LetGo(d)
  /\ UNCHANGED <<draining, tokens, forum, others, newest>>

Abandoned(d) ==
  /\ at[d] = "sending"
  /\ Excuse(msg[d])
  /\ paused' \in {paused, TRUE}
  /\ GoTo(d, "asleep") /\ LetGo(d)
  /\ UNCHANGED <<queue, tokens, forum, others, newest, shown>>

-----------------------------------------------------------------------------
(* The bucket over time, and the chat's other traffic: chrome, interactive *)
(* edits, 429s learned elsewhere, the first call with a certified topic.   *)
Refill ==
  /\ ~paused /\ tokens < Capacity
  /\ tokens' = tokens + 1
  /\ UNCHANGED <<queue, paused, forum, task, others, history>>

PauseEnds ==
  /\ paused
  /\ paused' = FALSE
  /\ tokens' \in tokens .. Capacity
  /\ UNCHANGED <<queue, forum, task, others, history>>

OtherTraffic ==
  /\ others < MaxOther
  /\ others' = others + 1
  /\ \/ HasToken /\ tokens' = tokens - 1 /\ UNCHANGED <<paused, forum>>
     \/ paused' = TRUE /\ UNCHANGED <<tokens, forum>>
     \/ forum' = TRUE /\ UNCHANGED bucket
  /\ UNCHANGED <<queue, task, history>>

-----------------------------------------------------------------------------
Carries(c) ==
  \/ EnsureDrain(c) \/ EditLands(c) \/ EditFails(c)
  \/ FallBack(c) \/ WaitOut(c) \/ Resend(c) \/ BlockIsGone(c)
Drains(d)  ==
  \/ FindNothing(d) \/ FindNoBudget(d) \/ TakeDueFinal(d) \/ LookAgain(d)
  \/ Delivered(d) \/ Retried(d) \/ Abandoned(d)

Next ==
  \/ \E c \in Caller : Carries(c) \/ \E m \in Msg : Admit(c, m) \/ Queue(c, m)
  \/ \E d \in Drainer : Drains(d)
  \/ Refill \/ PauseEnds \/ OtherTraffic

(* Spawned tasks run, edits return, time passes, pauses end.  A token that *)
(* is there stays until somebody takes it, so a drainer that looks every   *)
(* 400 ms finds one once the chat's other traffic, bounded here, is over.  *)
Fairness ==
  /\ \A c \in Caller : WF_vars(Carries(c))
  /\ \A d \in Drainer : WF_vars(Drains(d))
  /\ WF_vars(Refill) /\ WF_vars(PauseEnds)

Spec     == Init /\ [][Next]_vars
FairSpec == Spec /\ Fairness

-----------------------------------------------------------------------------
Place == {"off", "editing", "waiting", "queued", "asleep", "looking", "sending"}
TypeOK ==
  /\ finals \in [Msg -> Nat] /\ attempts \in [Msg -> Nat] /\ draining \in BOOLEAN
  /\ tokens \in 0 .. Capacity /\ paused \in BOOLEAN /\ forum \in BOOLEAN
  /\ at \in [Task -> Place]
  /\ msg \in [Task -> Msg \cup {NoMsg}] /\ ver \in [Task -> Nat] /\ tries \in [Task -> Nat]
  /\ others \in Nat
  /\ newest \in [Msg -> Nat] /\ shown \in [Msg -> Nat] /\ excused \subseteq Msg

(* A queued render has somebody to land it: a drainer that will look at    *)
(* the queue again, or a caller that is about to see to one, although the  *)
(* flag is cleared under one lock and the queue looked at under another    *)
(* (governor.rs:1563, :1588, :1606).                                       *)
Awake(d) == at[d] # "off"
SomeoneDrains ==
  ~Empty => \/ \E d \in Drainer : Awake(d)
            \/ \E c \in Caller : at[c] = "queued"

(* A chat at rest shows the newest final render of each message.  The      *)
(* known ways to show an older one are the only ones: a render sent while  *)
(* another of its message is queued or in flight, a retry put back over a  *)
(* newer render, an edit that failed for good.  The retries of a caller's  *)
(* edit are none of them: they carry the newest render (flow.rs:1568).     *)
AtRest(m) == finals[m] = 0 /\ \A t \in Task : msg[t] # m
NewestIsShown == \A m \in Msg \ excused : AtRest(m) => shown[m] = newest[m]

(* Every queued render is landed or given up, and its message comes to     *)
(* rest: no target that keeps failing wedges the chat (governor.rs:1636).  *)
QueueDrains == \A m \in Msg : finals[m] # 0 ~> AtRest(m)

(* The drainer retires when the queue has run dry, and says so, so that    *)
(* the next final gets a new one (governor.rs:1600).                       *)
DrainersRetire == <>[](~draining /\ \A d \in Drainer : ~Awake(d))

-----------------------------------------------------------------------------
(* governor.rs:1002: "insert-replace IS latest-wins": a queued render is   *)
(* replaced by a later one only.  A retry is put back over it.             *)
LatestWins == [][\A m \in Msg : finals'[m] # 0 => finals'[m] >= finals[m]]_vars
=============================================================================
