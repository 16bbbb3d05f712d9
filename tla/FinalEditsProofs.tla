-------------------------- MODULE FinalEditsProofs --------------------------
(***************************************************************************)
(* Theorems about the final edits of a chat, for any messages, callers,    *)
(* drainers and budget.                                                    *)
(***************************************************************************)
EXTENDS FinalEdits, TLAPS

(* What a task carries, and what is queued, has been rendered.             *)
HandsKnown ==
  /\ \A t \in Task : IF OnWire(t) \/ at[t] = "waiting"
                      THEN msg[t] \in Msg /\ newest[msg[t]] > 0
                      ELSE msg[t] = NoMsg
  /\ \A t \in Task : OnWire(t) => ver[t] > 0
  /\ \A m \in Msg : finals[m] # 0 => newest[m] > 0
Typed == TypeOK /\ HandsKnown

(* What hides behind the flag: a set flag has a drainer that is awake, and *)
(* over an empty queue one that will see it empty and clear the flag.      *)
FlagHolds ==
  /\ draining => \E d \in Drainer : Awake(d)
  /\ draining /\ Empty => \E d \in Drainer : at[d] \in {"asleep", "sending"}

(* Where the newest render of a message without an excuse is: in the       *)
(* queue, else in whatever is on the wire, else on the screen.             *)
Fresh(m) ==
  /\ finals[m] # 0 => finals[m] = newest[m]
  /\ \A t \in Task : OnWire(t) /\ msg[t] = m /\ finals[m] = 0 => ver[t] = newest[m]
  /\ AtRest(m) => shown[m] = newest[m]
AllFresh == \A m \in Msg \ excused : Fresh(m)

Inv == Typed /\ SomeoneDrains /\ FlagHolds /\ AllFresh

-----------------------------------------------------------------------------
LEMMA TypedInit == Init => Typed
<1> SUFFICES ASSUME Init  PROVE Typed
    OBVIOUS
<1>1. tokens \in 0 .. Capacity /\ others \in Nat
      BY BudgetAssumption DEF Init
<1>2. TypeOK
      BY <1>1 DEF Init, TypeOK, Place
<1>3. HandsKnown
      BY DEF Init, HandsKnown, OnWire
<1> QED BY <1>2, <1>3 DEF Typed

(* The budget apart from the rest: it alone needs arithmetic.              *)
LEMMA PauseStep == paused \in BOOLEAN /\ [Next]_vars => paused' \in BOOLEAN
<1> SUFFICES ASSUME paused \in BOOLEAN, [Next]_vars  PROVE paused' \in BOOLEAN
    OBVIOUS
<1>1. paused' = paused \/ paused' = TRUE \/ paused' = FALSE
      BY DEF Next, Carries, Drains, Admit, Queue, Render, LetOut, PutInQueue, EnsureDrain,
         EditLands, EditFails, FallBack, WaitOut, Resend, BlockIsGone, FindNothing, FindNoBudget, TakeDueFinal, LookAgain, Delivered, Retried, Abandoned,
         Refill, PauseEnds, OtherTraffic, vars, bucket
<1> QED BY <1>1

LEMMA TokensStep == tokens \in 0 .. Capacity /\ [Next]_vars => tokens' \in 0 .. Capacity
<1> SUFFICES ASSUME tokens \in Nat, tokens <= Capacity, Capacity \in Nat, [Next]_vars
             PROVE  tokens' \in 0 .. Capacity
    BY BudgetAssumption
<1>1. \/ tokens' = tokens
      \/ tokens > 0 /\ tokens' = tokens - 1
      \/ tokens < Capacity /\ tokens' = tokens + 1
      \/ tokens' \in tokens .. Capacity
      BY ZenonT(60)
      DEF Next, Carries, Drains, Admit, Queue, Render, LetOut, PutInQueue, EnsureDrain,
         EditLands, EditFails, FallBack, WaitOut, Resend, BlockIsGone, FindNothing, FindNoBudget, TakeDueFinal, LookAgain, Delivered, Retried, Abandoned,
         Refill, PauseEnds, OtherTraffic, vars, bucket, HasToken
<1> QED BY <1>1

LEMMA TypedStep == Typed /\ [Next]_vars => Typed'
<1> SUFFICES ASSUME Typed, [Next]_vars  PROVE Typed'
    OBVIOUS
<1> DEFINE Rest ==
      /\ finals \in [Msg -> Nat] /\ attempts \in [Msg -> Nat] /\ draining \in BOOLEAN
      /\ forum \in BOOLEAN
      /\ at \in [Task -> Place]
      /\ msg \in [Task -> Msg \cup {NoMsg}] /\ ver \in [Task -> Nat]
      /\ tries \in [Task -> Nat] /\ others \in Nat
      /\ newest \in [Msg -> Nat] /\ shown \in [Msg -> Nat] /\ excused \subseteq Msg
      /\ HandsKnown
<1>a. Rest
      BY DEF Typed, TypeOK
<1>b. tokens' \in 0 .. Capacity /\ paused' \in BOOLEAN
      BY PauseStep, TokensStep DEF Typed, TypeOK
<1> USE <1>a DEF HandsKnown, OnWire, GoTo, Hold, LetGo, Show, Excuse, ExcuseIf,
            Place, queue, bucket, task, history, Task
<1>1. ASSUME NEW c \in Caller, NEW m \in Msg, Admit(c, m)  PROVE Rest'
      BY <1>1 DEF Admit, Render, LetOut
<1>2. ASSUME NEW c \in Caller, NEW m \in Msg, Queue(c, m)  PROVE Rest'
      BY <1>2 DEF Queue, Render, PutInQueue, Replace
<1>3. ASSUME NEW c \in Caller, EnsureDrain(c)  PROVE Rest'
  <2>1. at' \in [Task -> Place] /\ draining' \in BOOLEAN
        BY <1>3 DEF EnsureDrain
  <2>2. \A t \in Task : OnWire(t)' \/ at'[t] = "waiting" <=> OnWire(t) \/ at[t] = "waiting"
        BY <1>3 DEF EnsureDrain
  <2>3. \A t \in Task : OnWire(t)' => OnWire(t)
        BY <1>3 DEF EnsureDrain
  <2> QED BY <1>3, <2>1, <2>2, <2>3 DEF EnsureDrain
<1>4. ASSUME NEW c \in Caller, EditLands(c) \/ EditFails(c)  PROVE Rest'
      BY <1>4 DEF EditLands, EditFails
<1>5. ASSUME NEW d \in Drainer, FindNothing(d) \/ FindNoBudget(d) \/ LookAgain(d)
      PROVE  Rest'
      BY <1>5 DEF FindNothing, FindNoBudget, LookAgain, DoneDraining
<1>6. ASSUME NEW d \in Drainer, TakeDueFinal(d)  PROVE Rest'
      BY <1>6 DEF TakeDueFinal
<1>7. ASSUME NEW d \in Drainer, Delivered(d)  PROVE Rest'
      BY <1>7 DEF Delivered
<1>8. ASSUME NEW d \in Drainer, Abandoned(d)  PROVE Rest'
      BY <1>8 DEF Abandoned
<1>9. ASSUME NEW d \in Drainer, Retried(d)  PROVE Rest'
  <2>1. msg[d] \in Msg /\ ver[d] \in Nat /\ TriedOnce(d) \in Nat
        BY <1>9 DEF Retried, TriedOnce
  <2>2. finals' \in [Msg -> Nat] /\ attempts' \in [Msg -> Nat] /\ shown' \in [Msg -> Nat]
        BY <1>9, <2>1 DEF Retried
  <2> QED BY <1>9, <2>1, <2>2 DEF Retried
<1>10. ASSUME Refill \/ PauseEnds \/ UNCHANGED vars  PROVE Rest'
      BY <1>10 DEF Refill, PauseEnds, vars
<1>11. ASSUME OtherTraffic  PROVE Rest'
  <2>1. forum' = forum \/ forum' = TRUE
        BY <1>11 DEF OtherTraffic
  <2>2. forum' \in BOOLEAN
        BY <2>1
  <2>3. others' \in Nat
        BY <1>11 DEF OtherTraffic
  <2> QED BY <1>11, <2>2, <2>3 DEF OtherTraffic
<1>12. ASSUME NEW c \in Caller, FallBack(c)  PROVE Rest'
  <2>1. ASSUME LetOut(c, msg[c], newest[msg[c]], 1)  PROVE Rest'
        BY <1>12, <2>1 DEF FallBack, LetOut
  <2>2. ASSUME PutInQueue(c, msg[c], newest[msg[c]])  PROVE Rest'
    <3>1. msg[c] \in Msg /\ newest[msg[c]] \in Nat /\ newest[msg[c]] > 0 /\ ver[c] \in Nat
          BY <1>12 DEF FallBack
    <3>2. /\ finals' \in [Msg -> Nat] /\ attempts' \in [Msg -> Nat] /\ shown' \in [Msg -> Nat]
          /\ at' \in [Task -> Place] /\ msg' \in [Task -> Msg \cup {NoMsg}]
          /\ ver' \in [Task -> Nat] /\ tries' \in [Task -> Nat]
          BY <1>12, <2>2, <3>1 DEF FallBack, PutInQueue, Replace
    <3>3. \A t \in Task : t # c => at'[t] = at[t] /\ msg'[t] = msg[t] /\ ver'[t] = ver[t]
          BY <2>2 DEF PutInQueue
    <3>4. at'[c] = "queued" /\ msg'[c] = NoMsg /\ newest' = newest
          BY <1>12, <2>2 DEF FallBack, PutInQueue
    <3>5. \A m \in Msg : finals'[m] # 0 => newest[m] > 0
          BY <2>2, <3>1 DEF PutInQueue, Replace
    <3>6. HandsKnown'
          BY <3>3, <3>4, <3>5
    <3> QED BY <1>12, <2>2, <3>2, <3>6 DEF FallBack, PutInQueue
  <2> QED BY <1>12, <2>1, <2>2 DEF FallBack
<1>13. ASSUME NEW c \in Caller, WaitOut(c)  PROVE Rest'
      BY <1>13 DEF WaitOut
<1>14. ASSUME NEW c \in Caller, Resend(c) \/ BlockIsGone(c)  PROVE Rest'
      BY <1>14 DEF Resend, BlockIsGone
<1>15. Rest'
      BY <1>1, <1>2, <1>3, <1>4, <1>5, <1>6, <1>7, <1>8, <1>9, <1>10, <1>11,
         <1>12, <1>13, <1>14
      DEF Next, Carries, Drains
<1> QED BY <1>b, <1>15 DEF Typed, TypeOK

-----------------------------------------------------------------------------
LEMMA DrainerStep ==
  Typed /\ SomeoneDrains /\ FlagHolds /\ [Next]_vars => SomeoneDrains' /\ FlagHolds'
<1> DEFINE Good == SomeoneDrains /\ FlagHolds
<1> SUFFICES ASSUME Typed, Good, [Next]_vars  PROVE Good'
    OBVIOUS
<1>0. /\ finals \in [Msg -> Nat] /\ newest \in [Msg -> Nat] /\ ver \in [Task -> Nat]
      /\ at \in [Task -> Place]
      /\ draining \in BOOLEAN
      BY DEF Typed, TypeOK
<1> USE <1>0, TasksDiffer DEF SomeoneDrains, FlagHolds, Awake, Empty, GoTo, Task, Place,
        queue, bucket, task, history
<1>1. ASSUME NEW c \in Caller, NEW m \in Msg, Admit(c, m)  PROVE Good'
      BY <1>1 DEF Admit, Render, LetOut
<1>2. ASSUME NEW c \in Caller, NEW m \in Msg, Queue(c, m)  PROVE Good'
      BY <1>2 DEF Queue, Render, PutInQueue, Replace
<1>3. ASSUME NEW c \in Caller, EnsureDrain(c)  PROVE Good'
      BY <1>3 DEF EnsureDrain
<1>4. ASSUME NEW c \in Caller, EditLands(c) \/ EditFails(c)  PROVE Good'
      BY <1>4 DEF EditLands, EditFails
<1>5. ASSUME NEW d \in Drainer, FindNothing(d)  PROVE Good'
      BY <1>5 DEF FindNothing, DoneDraining
<1>6. ASSUME NEW d \in Drainer, FindNoBudget(d)  PROVE Good'
      BY <1>6 DEF FindNoBudget
<1>7. ASSUME NEW d \in Drainer, LookAgain(d)  PROVE Good'
      BY <1>7 DEF LookAgain, NothingLeft
<1>8. ASSUME NEW d \in Drainer, TakeDueFinal(d)  PROVE Good'
      BY <1>8 DEF TakeDueFinal
<1>9. ASSUME NEW d \in Drainer, Delivered(d) \/ Abandoned(d)  PROVE Good'
      BY <1>9 DEF Delivered, Abandoned
<1>10. ASSUME NEW d \in Drainer, Retried(d)  PROVE Good'
      BY <1>10 DEF Retried
<1>11. ASSUME Refill \/ PauseEnds \/ OtherTraffic \/ UNCHANGED vars  PROVE Good'
      BY <1>11 DEF Refill, PauseEnds, OtherTraffic, vars
<1>12. ASSUME NEW c \in Caller, FallBack(c)  PROVE Good'
  <2>1. ASSUME LetOut(c, msg[c], newest[msg[c]], 1)  PROVE Good'
        BY <1>12, <2>1 DEF FallBack, LetOut
  <2>2. ASSUME PutInQueue(c, msg[c], newest[msg[c]])  PROVE Good'
    <3>1. \A t \in Task : t # c => at'[t] = at[t]
          BY <2>2 DEF PutInQueue
    <3>2. at'[c] = "queued" /\ draining' = draining
          BY <2>2 DEF PutInQueue
    <3>3. ~Empty'
          BY <1>12, <2>2 DEF FallBack, PutInQueue, Replace, Typed, HandsKnown, OnWire
    <3> QED BY <3>1, <3>2, <3>3
  <2> QED BY <1>12, <2>1, <2>2 DEF FallBack
<1>13. ASSUME NEW c \in Caller, WaitOut(c)  PROVE Good'
      BY <1>13 DEF WaitOut
<1>14. ASSUME NEW c \in Caller, Resend(c) \/ BlockIsGone(c)  PROVE Good'
      BY <1>14 DEF Resend, BlockIsGone
<1> QED BY <1>1, <1>2, <1>3, <1>4, <1>5, <1>6, <1>7, <1>8, <1>9, <1>10, <1>11,
           <1>12, <1>13, <1>14
        DEF Next, Carries, Drains

-----------------------------------------------------------------------------
LEMMA FreshStep == Typed /\ AllFresh /\ [Next]_vars => AllFresh'
<1> SUFFICES ASSUME Typed, AllFresh, [Next]_vars, NEW n \in Msg, n \notin excused'
             PROVE  Fresh(n)'
    BY DEF AllFresh
<1>0. /\ finals \in [Msg -> Nat] /\ newest \in [Msg -> Nat] /\ ver \in [Task -> Nat]
      /\ shown \in [Msg -> Nat] /\ tries \in [Task -> Nat] /\ msg \in [Task -> Msg \cup {NoMsg}]
      /\ at \in [Task -> Place]
      /\ HandsKnown
      BY DEF Typed, TypeOK
<1>a. excused \subseteq excused'
      BY DEF Next, Carries, Drains, Admit, Queue, Render, LetOut, PutInQueue, EnsureDrain,
         EditLands, EditFails, FallBack, WaitOut, Resend, BlockIsGone, FindNothing, FindNoBudget, TakeDueFinal, LookAgain, Delivered, Retried, Abandoned,
         Refill, PauseEnds, OtherTraffic, vars, history, Excuse, ExcuseIf
<1>b. Fresh(n)
      BY <1>a DEF AllFresh
<1> USE <1>0, <1>b, TasksDiffer, NoMsgAssumption
        DEF Fresh, AtRest, InFlight, OtherInFlight, OnWire, HandsKnown, GoTo, Hold, LetGo, Show, Excuse,
            ExcuseIf, Task, Place, queue, bucket, task, history
<1>1. ASSUME NEW c \in Caller, NEW m \in Msg, Admit(c, m)  PROVE Fresh(n)'
      BY <1>1 DEF Admit, Render, LetOut
<1>2. ASSUME NEW c \in Caller, NEW m \in Msg, Queue(c, m)  PROVE Fresh(n)'
      BY <1>2 DEF Queue, Render, PutInQueue, Replace
<1>3. ASSUME NEW c \in Caller, EnsureDrain(c)  PROVE Fresh(n)'
      BY <1>3 DEF EnsureDrain
<1>4. ASSUME NEW c \in Caller, EditLands(c) \/ EditFails(c)  PROVE Fresh(n)'
      BY <1>4 DEF EditLands, EditFails
<1>5. ASSUME NEW d \in Drainer, FindNothing(d) \/ FindNoBudget(d) \/ LookAgain(d)
      PROVE  Fresh(n)'
      BY <1>5 DEF FindNothing, FindNoBudget, LookAgain
<1>6. ASSUME NEW d \in Drainer, TakeDueFinal(d)  PROVE Fresh(n)'
      BY <1>6 DEF TakeDueFinal
<1>7. ASSUME NEW d \in Drainer, Delivered(d)  PROVE Fresh(n)'
      BY <1>7 DEF Delivered
<1>10. ASSUME NEW d \in Drainer, Abandoned(d)  PROVE Fresh(n)'
      BY <1>10 DEF Abandoned
<1>8. ASSUME NEW d \in Drainer, Retried(d)  PROVE Fresh(n)'
      BY <1>8 DEF Retried
<1>9. ASSUME Refill \/ PauseEnds \/ OtherTraffic \/ UNCHANGED vars  PROVE Fresh(n)'
      BY <1>9 DEF Refill, PauseEnds, OtherTraffic, vars
<1>11. ASSUME NEW c \in Caller, FallBack(c)  PROVE Fresh(n)'
  <2>1. ASSUME LetOut(c, msg[c], newest[msg[c]], 1)  PROVE Fresh(n)'
        BY <1>11, <2>1 DEF FallBack, LetOut
  <2>2. ASSUME PutInQueue(c, msg[c], newest[msg[c]])  PROVE Fresh(n)'
        BY <1>11, <2>2 DEF FallBack, PutInQueue, Replace
  <2> QED BY <1>11, <2>1, <2>2 DEF FallBack
<1>12. ASSUME NEW c \in Caller, WaitOut(c)  PROVE Fresh(n)'
      BY <1>12 DEF WaitOut
<1>13. ASSUME NEW c \in Caller, Resend(c) \/ BlockIsGone(c)  PROVE Fresh(n)'
      BY <1>13 DEF Resend, BlockIsGone
<1> QED BY <1>1, <1>2, <1>3, <1>4, <1>5, <1>6, <1>7, <1>8, <1>9, <1>10,
           <1>11, <1>12, <1>13
        DEF Next, Carries, Drains

-----------------------------------------------------------------------------
LEMMA Invariance == Spec => []Inv
<1>1. Init => Inv
  <2>1. Init => Typed
        BY TypedInit
  <2>2. Init => SomeoneDrains /\ FlagHolds /\ AllFresh
        BY DEF Init, SomeoneDrains, FlagHolds, Empty, AllFresh, Fresh, OnWire, AtRest
  <2> QED BY <2>1, <2>2 DEF Inv
<1>2. Inv /\ [Next]_vars => Inv'
      BY TypedStep, DrainerStep, FreshStep DEF Inv
<1> QED BY <1>1, <1>2, PTL DEF Spec

(* The queue, the bucket and the tasks keep their types.                   *)
THEOREM FinalsTypes == Spec => []TypeOK
<1>1. Inv => TypeOK
      BY DEF Inv, Typed
<1> QED BY <1>1, Invariance, PTL

(* No queued render is left without a drainer, wherever the flag is        *)
(* cleared between two looks at the queue.                                 *)
THEOREM NoFinalIsStranded == Spec => []SomeoneDrains
<1>1. Inv => SomeoneDrains
      BY DEF Inv
<1> QED BY <1>1, Invariance, PTL

(* The named ways are the only ways to leave an older render on screen.    *)
THEOREM NewestEndsOnScreen == Spec => []NewestIsShown
<1>1. Inv => NewestIsShown
      BY DEF Inv, AllFresh, Fresh, NewestIsShown
<1> QED BY <1>1, Invariance, PTL
=============================================================================
