-------------------------- MODULE TelegramTurnsProofs --------------------------
(***************************************************************************)
(* Proofs about TelegramTurns, for any sessions, items, tasks and handlers.*)
(*                                                                         *)
(* Turns is the inductive invariant.  TypeOK alone is not inductive: that  *)
(* a claim marks a session, and that an Enqueue appends an item, depends   *)
(* on what a task in that phase carries, which HomeKnown, RetryKnown and   *)
(* HandsFull say.                                                          *)
(***************************************************************************)
EXTENDS TelegramTurns, SequenceTheorems, TLAPS

(* A task that is not idle runs on a session.                              *)
HomeKnown == \A t \in Task : phase[t] # "idle" => home[t] \in Session

(* A retry runs under a fresh session.                                     *)
RetryKnown ==
  \A t \in Task : phase[t] \in {"rebinding", "retrying"} => retry[t] \in FreshSession

(* A task that still has to hand something over holds something.           *)
HandsFull ==
  \A t \in Task :
    phase[t] \in {"arrived", "busy", "reclaim", "requeue"} => carry[t] # <<>>

Turns == TypeOK /\ HomeKnown /\ RetryKnown /\ HandsFull

-----------------------------------------------------------------------------
(* What a sequence of items carries are items.                             *)
LEMMA RangeOfItems == \A q \in Seq(Item) : Range(q) \subseteq Item
BY DEF Range

LEMMA NoItemsType == NoItems \in [Origin -> Seq(Item)]
BY DEF NoItems

(* The queue keeps its type when one session's is emptied or extended.     *)
LEMMA EmptyType ==
  ASSUME TypeOK, NEW s \in Session, Empty(s)
  PROVE  queue' \in [Session -> [Origin -> Seq(Item)]]
BY NoItemsType DEF TypeOK, Empty

LEMMA PushType ==
  ASSUME TypeOK, NEW s \in Session, NEW o \in Origin, NEW i \in Item, Push(s, o, i)
  PROVE  queue' \in [Session -> [Origin -> Seq(Item)]]
<1>1. queue[s] \in [Origin -> Seq(Item)]
  BY DEF TypeOK
<1>2. Append(queue[s][o], i) \in Seq(Item)
  BY <1>1
<1>. QED  BY <1>1, <1>2 DEF TypeOK, Push

(* Taking the head of a sequence of items leaves a shorter one.            *)
LEMMA HeadAndTail ==
  ASSUME NEW q \in Seq(Item), q # <<>>
  PROVE  /\ Head(q) \in Item /\ Tail(q) \in Seq(Item)
         /\ Len(q) # 1 => Tail(q) # <<>>
<1>1. Len(q) \in Nat /\ Len(q) > 0
  BY EmptySeq, LenProperties
<1>2. Head(q) \in Item /\ Tail(q) \in Seq(Item) /\ Len(Tail(q)) = Len(q) - 1
  BY HeadTailProperties
<1>3. Len(q) # 1 => Len(Tail(q)) # 0
  BY <1>1, <1>2
<1>. QED  BY <1>2, <1>3

LEMMA HandOverType ==
  ASSUME TypeOK, NEW S, HandOver(S)
  PROVE  injected' \in [Item -> Nat]
BY DEF TypeOK, HandOver

LEMMA QueuedItems ==
  ASSUME TypeOK, NEW s \in Session
  PROVE  ItemsOf(queue[s]) \subseteq Item
<1>1. \A o \in Origin : queue[s][o] \in Seq(Item)
  BY DEF TypeOK
<1>2. \A o \in Origin : Range(queue[s][o]) \subseteq Item
  BY <1>1, RangeOfItems
<1>. QED  BY <1>2 DEF ItemsOf

LEMMA InitTurns == Init => Turns
<1>. SUFFICES ASSUME Init PROVE Turns
  OBVIOUS
<1>1. queue \in [Session -> [Origin -> Seq(Item)]]
  BY NoItemsType DEF Init
<1>2. carry \in [Task -> Seq(Item)]
  BY DEF Init
<1>3. TypeOK
  BY <1>1, <1>2, SessionAssumption DEF Init, TypeOK, Phase, Kind, Handler
<1>. QED  BY <1>3 DEF Init, Turns, HomeKnown, RetryKnown, HandsFull

(* One step of Next keeps each part of the invariant.  GiveUp and BeginTurn *)
(* are shared by several actions, so what they do to the types is a lemma. *)
LEMMA GiveUpType ==
  ASSUME TypeOK, NEW t \in Task, GiveUp(t)
  PROVE  /\ phase' \in [Task -> Phase]
         /\ carry' \in [Task -> Seq(Item)]
         /\ lost' \subseteq Item
<1>1. Range(carry[t]) \subseteq Item
  BY RangeOfItems DEF TypeOK
<1>. QED  BY <1>1 DEF TypeOK, GiveUp, Phase

LEMMA BeginTurnType ==
  ASSUME TypeOK, NEW t \in Task, NEW s \in Session, BeginTurn(t, s)
  PROVE  /\ active' \subseteq Session
         /\ phase' \in [Task -> Phase]
         /\ carry' \in [Task -> Seq(Item)]
         /\ injected' \in [Item -> Nat]
<1>1. injected' \in [Item -> Nat]
  BY HandOverType DEF BeginTurn
<1>. QED  BY <1>1 DEF TypeOK, BeginTurn, Phase

LEMMA KeepReactionsPhase == \A t : KeepReactions(t) \in {"idle", "reclaim"}
BY DEF KeepReactions

LEMMA StepTurns == Turns /\ [Next]_vars => Turns'
<1>. SUFFICES ASSUME Turns, [Next]_vars PROVE Turns'
  OBVIOUS
<1>. USE SessionAssumption, InPlayAssumption
<1>a. TypeOK /\ HomeKnown /\ RetryKnown /\ HandsFull
  BY DEF Turns
<1>1. ASSUME NEW t \in Task, NEW i \in Item, NEW k \in InPlay, NEW s \in Session,
             Arrive(t, i, k, s)
      PROVE  Turns'
  <2>1. TypeOK'
    BY <1>a, <1>1 DEF Arrive, TypeOK, Phase, Kind
  <2>2. HomeKnown' /\ RetryKnown'
    BY <1>a, <1>1 DEF Arrive, TypeOK, HomeKnown, RetryKnown
  <2>3. HandsFull'
    BY <1>a, <1>1 DEF Arrive, TypeOK, HandsFull
  <2>. QED  BY <2>1, <2>2, <2>3 DEF Turns
<1>2. ASSUME NEW t \in Task, WakeRefused(t) PROVE Turns'
  <2>1. TypeOK'
    BY <1>a, <1>2, GiveUpType DEF WakeRefused, TypeOK
  <2>2. HomeKnown' /\ RetryKnown' /\ HandsFull'
    BY <1>a, <1>2 DEF WakeRefused, GiveUp, TypeOK, HomeKnown, RetryKnown, HandsFull
  <2>. QED  BY <2>1, <2>2 DEF Turns
<1>3. ASSUME NEW t \in Task, ClaimSlot(t) PROVE Turns'
  <2>1. home[t] \in Session
    BY <1>a, <1>3 DEF ClaimSlot, HomeKnown
  <2>2. TypeOK'
    BY <1>a, <1>3, <2>1, BeginTurnType DEF ClaimSlot, TypeOK
  <2>3. HomeKnown' /\ RetryKnown' /\ HandsFull'
    BY <1>a, <1>3 DEF ClaimSlot, BeginTurn, TypeOK, HomeKnown, RetryKnown, HandsFull
  <2>. QED  BY <2>2, <2>3 DEF Turns
<1>4. ASSUME NEW t \in Task, DropBusy(t) PROVE Turns'
  <2>1. TypeOK'
    BY <1>a, <1>4, GiveUpType DEF DropBusy, TypeOK
  <2>2. HomeKnown' /\ RetryKnown' /\ HandsFull'
    BY <1>a, <1>4 DEF DropBusy, GiveUp, TypeOK, HomeKnown, RetryKnown, HandsFull
  <2>. QED  BY <2>1, <2>2 DEF Turns
<1>5. ASSUME NEW t \in Task, LoseClaim(t) PROVE Turns'
  BY <1>a, <1>5
  DEF LoseClaim, history, Turns, TypeOK, Phase, HomeKnown, RetryKnown, HandsFull
<1>6. ASSUME NEW t \in Task, Enqueue(t) PROVE Turns'
  <2>1. home[t] \in Session /\ Head(carry[t]) \in Item
    BY <1>a, <1>6 DEF Enqueue, HomeKnown, HandsFull, TypeOK
  <2>2. QueuesAs(kind[t]) \in Origin
    BY DEF QueuesAs, Origin
  <2>3. queue' \in [Session -> [Origin -> Seq(Item)]]
    BY <1>a, <1>6, <2>1, <2>2, PushType DEF Enqueue
  <2>4. TypeOK'
    BY <1>a, <1>6, <2>1, <2>3 DEF Enqueue, MissUnlessTaken, TypeOK, Phase
  <2>5. HomeKnown' /\ RetryKnown' /\ HandsFull'
    BY <1>a, <1>6 DEF Enqueue, TypeOK, HomeKnown, RetryKnown, HandsFull
  <2>. QED  BY <2>4, <2>5 DEF Turns
<1>7. ASSUME NEW t \in Task, Drain(t) PROVE Turns'
  <2>1. LoopSession(t) \in Session
    BY <1>a, <1>7 DEF Drain, LoopSession, HomeKnown, RetryKnown
  <2>2. queue' \in [Session -> [Origin -> Seq(Item)]] /\ injected' \in [Item -> Nat]
    BY <1>a, <1>7, <2>1, EmptyType, HandOverType DEF Drain
  <2>3. TypeOK'
    BY <1>a, <1>7, <2>2 DEF Drain, TypeOK, task
  <2>4. HomeKnown' /\ RetryKnown' /\ HandsFull'
    BY <1>a, <1>7 DEF Drain, task, HomeKnown, RetryKnown, HandsFull
  <2>. QED  BY <2>3, <2>4 DEF Turns
<1>8. ASSUME NEW t \in Task, LoopExit(t) PROVE Turns'
  BY <1>a, <1>8
  DEF LoopExit, history, Turns, TypeOK, Phase, HomeKnown, RetryKnown, HandsFull
<1>9. ASSUME NEW t \in Task, NEW f \in FreshSession, RebindFresh(t, f) PROVE Turns'
  BY <1>a, <1>9
  DEF RebindFresh, history, Turns, TypeOK, Phase, HomeKnown, RetryKnown, HandsFull
<1>10. ASSUME NEW t \in Task, MarkFresh(t) PROVE Turns'
  <2>1. retry[t] \in Session
    BY <1>a, <1>10 DEF MarkFresh, RetryKnown
  <2>. QED
    BY <1>a, <1>10, <2>1
    DEF MarkFresh, history, Turns, TypeOK, Phase, HomeKnown, RetryKnown, HandsFull
<1>11. ASSUME NEW t \in Task, RetryExit(t) PROVE Turns'
  <2>1. ItemsOf(queue[retry[t]]) \subseteq Item
    BY <1>a, <1>11, QueuedItems DEF RetryExit, RetryKnown
  <2>. QED
    BY <1>a, <1>11, <2>1
    DEF RetryExit, Turns, TypeOK, Phase, HomeKnown, RetryKnown, HandsFull
<1>12. ASSUME NEW t \in Task, NEW flush \in BOOLEAN, Release(t, flush) PROVE Turns'
  <2>0. ItemsOf(queue[home[t]]) \subseteq Item
    BY <1>a, <1>12, QueuedItems DEF Release, HomeKnown
  <2>1. TypeOK'
    BY <1>a, <1>12, <2>0 DEF Release, TypeOK, Phase
  <2>2. HomeKnown' /\ RetryKnown' /\ HandsFull'
    BY <1>a, <1>12 DEF Release, TypeOK, HomeKnown, RetryKnown, HandsFull
  <2>. QED  BY <2>1, <2>2 DEF Turns
<1>13. ASSUME NEW t \in Task, Flush(t) PROVE Turns'
  <2>1. home[t] \in Session
    BY <1>a, <1>13 DEF Flush, HomeKnown
  <2>2. /\ queue' \in [Session -> [Origin -> Seq(Item)]]
        /\ queue[home[t]]["Reaction"] \in Seq(Item)
    BY <1>a, <1>13, <2>1, EmptyType DEF Flush, TypeOK, Origin
  <2>3. TypeOK'
    BY <1>a, <1>13, <2>2, KeepReactionsPhase DEF Flush, TypeOK, Phase, history
  <2>4. HomeKnown' /\ RetryKnown'
    BY <1>a, <1>13, KeepReactionsPhase DEF Flush, TypeOK, HomeKnown, RetryKnown
  <2>5. HandsFull'
    BY <1>a, <1>13, KeepReactionsPhase DEF Flush, TypeOK, HandsFull, KeepReactions
  <2>. QED  BY <2>3, <2>4, <2>5 DEF Turns
<1>14. ASSUME NEW t \in Task, NEW u \in Task, FlushSpawning(t, u) PROVE Turns'
  <2>1. home[t] \in Session /\ t # u
    BY <1>a, <1>14 DEF FlushSpawning, HomeKnown
  <2>2. /\ queue' \in [Session -> [Origin -> Seq(Item)]]
        /\ queue[home[t]]["Reaction"] \in Seq(Item)
        /\ queue[home[t]]["DetachedWork"] \in Seq(Item)
    BY <1>a, <1>14, <2>1, EmptyType DEF FlushSpawning, TypeOK, Origin
  <2>3. TypeOK'
    BY <1>a, <1>14, <2>1, <2>2, KeepReactionsPhase
    DEF FlushSpawning, TypeOK, Phase, Kind, history
  <2>4. HomeKnown' /\ RetryKnown'
    BY <1>a, <1>14, <2>1, KeepReactionsPhase
    DEF FlushSpawning, TypeOK, HomeKnown, RetryKnown
  <2>5. HandsFull'
    BY <1>a, <1>14, <2>1, KeepReactionsPhase
    DEF FlushSpawning, TypeOK, HandsFull, KeepReactions
  <2>. QED  BY <2>3, <2>4, <2>5 DEF Turns
<1>15. ASSUME NEW t \in Task, Reclaim(t) PROVE Turns'
  <2>1. home[t] \in Session
    BY <1>a, <1>15 DEF Reclaim, HomeKnown
  <2>2. TypeOK'
    BY <1>a, <1>15, <2>1, BeginTurnType DEF Reclaim, TypeOK, Kind
  <2>3. HomeKnown' /\ RetryKnown' /\ HandsFull'
    BY <1>a, <1>15 DEF Reclaim, BeginTurn, TypeOK, HomeKnown, RetryKnown, HandsFull
  <2>. QED  BY <2>2, <2>3 DEF Turns
<1>16. ASSUME NEW t \in Task, LoseReclaim(t) PROVE Turns'
  BY <1>a, <1>16
  DEF LoseReclaim, history, Turns, TypeOK, Phase, HomeKnown, RetryKnown, HandsFull
<1>17. ASSUME NEW t \in Task, Requeue(t) PROVE Turns'
  <2>1. home[t] \in Session /\ carry[t] \in Seq(Item) /\ carry[t] # <<>>
    BY <1>a, <1>17 DEF Requeue, HomeKnown, HandsFull, TypeOK
  <2>2. /\ Head(carry[t]) \in Item /\ Tail(carry[t]) \in Seq(Item)
        /\ Len(carry[t]) # 1 => Tail(carry[t]) # <<>>
    BY <2>1, HeadAndTail
  <2>3. queue' \in [Session -> [Origin -> Seq(Item)]]
    BY <1>a, <1>17, <2>1, <2>2, PushType DEF Requeue, Origin
  <2>4. TypeOK'
    BY <1>a, <1>17, <2>2, <2>3 DEF Requeue, MissUnlessTaken, TypeOK, Phase
  <2>5. HomeKnown' /\ RetryKnown' /\ HandsFull'
    BY <1>a, <1>17, <2>2 DEF Requeue, TypeOK, HomeKnown, RetryKnown, HandsFull
  <2>. QED  BY <2>4, <2>5 DEF Turns
<1>18. ASSUME NEW s \in Session, StopTarget(s) PROVE Turns'
  <2>1. queue' \in [Session -> [Origin -> Seq(Item)]] /\ ItemsOf(queue[s]) \subseteq Item
    BY <1>a, <1>18, EmptyType, QueuedItems DEF StopTarget
  <2>2. TypeOK'
    BY <1>a, <1>18, <2>1 DEF StopTarget, TypeOK, task
  <2>3. HomeKnown' /\ RetryKnown' /\ HandsFull'
    BY <1>a, <1>18 DEF StopTarget, task, HomeKnown, RetryKnown, HandsFull
  <2>. QED  BY <2>2, <2>3 DEF Turns
<1>19. CASE UNCHANGED vars
  BY <1>a, <1>19
  DEF vars, task, history, Turns, TypeOK, HomeKnown, RetryKnown, HandsFull
<1>. QED
  BY <1>1, <1>2, <1>3, <1>4, <1>5, <1>6, <1>7, <1>8, <1>9, <1>10, <1>11, <1>12,
     <1>13, <1>14, <1>15, <1>16, <1>17, <1>18, <1>19 DEF Next, Step

LEMMA TurnsInvariant == Spec => []Turns
BY InitTurns, StepTurns, PTL DEF Spec

(* Whatever arrives, in whatever order, every variable keeps its type.     *)
THEOREM TypeCorrect == Spec => []TypeOK
<1>1. Turns => TypeOK
  BY DEF Turns
<1>. QED  BY <1>1, TurnsInvariant, PTL

-----------------------------------------------------------------------------
(* The tasks that hold the slot of a session.                              *)
Holders(s) == {t \in Task : Holds(t, s)}

(* A step leaves the slot of a session and its holders alone, or one task  *)
(* takes the free slot, or the holder gives it back.  Each keeps OneTurn.  *)
Kept(s) == (s \in active' <=> s \in active) /\ Holders(s)' = Holders(s)

Taken(t, s) ==
  s \notin active /\ s \in active' /\ Holders(s)' = Holders(s) \cup {t}

Freed(t, s) ==
  t \in Holders(s) /\ s \notin active' /\ Holders(s)' = Holders(s) \ {t}

LEMMA OneTurnIsOneHolder ==
  \A s : OneTurn(s) <=> /\ s \in active <=> Holders(s) # {}
                       /\ \A t, u \in Holders(s) : t = u
BY DEF OneTurn, Holders

LEMMA SlotMoves ==
  ASSUME NEW s, OneTurn(s),
         Kept(s) \/ \E t \in Task : Taken(t, s) \/ Freed(t, s)
  PROVE  OneTurn(s)'
<1>. DEFINE H == Holders(s)
           G == Holders(s)'
<1>a. /\ s \in active <=> H # {}
      /\ \A t, u \in H : t = u
  BY OneTurnIsOneHolder
<1>. SUFFICES /\ s \in active' <=> G # {}
              /\ \A t, u \in G : t = u
  BY DEF OneTurn, Holders, Holds, HoldsHome, HoldsFresh
<1>. HIDE DEF H, G
<1>1. CASE Kept(s)
  BY <1>a, <1>1 DEF Kept, H, G
<1>2. ASSUME NEW t \in Task, Taken(t, s) \/ Freed(t, s)
      PROVE  /\ s \in active' <=> G # {}
             /\ \A v, u \in G : v = u
  BY <1>a, <1>2 DEF Taken, Freed, H, G
<1>. QED  BY <1>1, <1>2

(* Outside the fresh sessions a slot is held by home alone.                *)
LEMMA HeldAtHome ==
  ASSUME RetryKnown, NEW s \in Session \ FreshSession
  PROVE  Holders(s) = {t \in Task : HoldsHome(t) /\ home[t] = s}
BY DEF Holders, Holds, HoldsFresh, RetryKnown

LEMMA StepOneTurn ==
  ASSUME Turns, Turns', [Next]_vars, NEW s \in Session \ FreshSession, OneTurn(s)
  PROVE  OneTurn(s)'
<1>a. TypeOK /\ HomeKnown /\ RetryKnown /\ RetryKnown'
  BY DEF Turns
<1>b. /\ Holders(s) = {t \in Task : HoldsHome(t) /\ home[t] = s}
      /\ Holders(s)' = {t \in Task : HoldsHome(t)' /\ home'[t] = s}
  BY <1>a, HeldAtHome DEF Holders, Holds, HoldsHome, HoldsFresh, RetryKnown
<1>. SUFFICES Kept(s) \/ \E t \in Task : Taken(t, s) \/ Freed(t, s)
  BY SlotMoves
<1>1. ASSUME NEW t \in Task, NEW i \in Item, NEW k \in InPlay, NEW r \in Session,
             Arrive(t, i, k, r)
      PROVE  Kept(s)
  BY <1>a, <1>b, <1>1 DEF Arrive, Kept, HoldsHome, TypeOK
<1>2. ASSUME NEW t \in Task, WakeRefused(t) \/ DropBusy(t) PROVE Kept(s)
  BY <1>a, <1>b, <1>2 DEF WakeRefused, DropBusy, GiveUp, Kept, HoldsHome, TypeOK
<1>3. ASSUME NEW t \in Task, ClaimSlot(t) \/ Reclaim(t) PROVE Kept(s) \/ Taken(t, s)
  <2>1. CASE home[t] = s
    BY <1>a, <1>b, <1>3, <2>1
    DEF ClaimSlot, Reclaim, BeginTurn, Taken, HoldsHome, TypeOK
  <2>2. CASE home[t] # s
    BY <1>a, <1>b, <1>3, <2>2
    DEF ClaimSlot, Reclaim, BeginTurn, Kept, HoldsHome, TypeOK
  <2>. QED  BY <2>1, <2>2
<1>4. ASSUME NEW t \in Task, LoseClaim(t) \/ Enqueue(t) \/ LoseReclaim(t) \/ Requeue(t)
      PROVE  Kept(s)
  BY <1>a, <1>b, <1>4
  DEF LoseClaim, Enqueue, LoseReclaim, Requeue, Kept, HoldsHome, TypeOK
<1>5. ASSUME NEW t \in Task, Drain(t) PROVE Kept(s)
  BY <1>a, <1>b, <1>5 DEF Drain, task, Kept, HoldsHome
<1>6. ASSUME NEW t \in Task, LoopExit(t) PROVE Kept(s)
  BY <1>a, <1>b, <1>6 DEF LoopExit, Kept, HoldsHome, TypeOK
<1>7. ASSUME NEW t \in Task, NEW f \in FreshSession, RebindFresh(t, f) PROVE Kept(s)
  BY <1>a, <1>b, <1>7 DEF RebindFresh, Kept, HoldsHome, TypeOK
<1>8. ASSUME NEW t \in Task, MarkFresh(t) \/ RetryExit(t) PROVE Kept(s)
  <2>1. retry[t] # s
    BY <1>a, <1>8 DEF MarkFresh, RetryExit, RetryKnown
  <2>. QED
    BY <1>a, <1>b, <1>8, <2>1 DEF MarkFresh, RetryExit, Kept, HoldsHome, TypeOK
<1>9. ASSUME NEW t \in Task, NEW flush \in BOOLEAN, Release(t, flush)
      PROVE  Kept(s) \/ Freed(t, s)
  <2>1. CASE home[t] = s
    BY <1>a, <1>b, <1>9, <2>1 DEF Release, Freed, HoldsHome, TypeOK
  <2>2. CASE home[t] # s
    BY <1>a, <1>b, <1>9, <2>2 DEF Release, Kept, HoldsHome, TypeOK
  <2>. QED  BY <2>1, <2>2
<1>10. ASSUME NEW t \in Task, Flush(t) PROVE Kept(s)
  BY <1>a, <1>b, <1>10, KeepReactionsPhase DEF Flush, Kept, HoldsHome, TypeOK
<1>11. ASSUME NEW t \in Task, NEW u \in Task, FlushSpawning(t, u) PROVE Kept(s)
  BY <1>a, <1>b, <1>11, KeepReactionsPhase DEF FlushSpawning, Kept, HoldsHome, TypeOK
<1>12. ASSUME NEW r \in Session, StopTarget(r) PROVE Kept(s)
  BY <1>b, <1>12 DEF StopTarget, task, Kept, HoldsHome
<1>13. CASE UNCHANGED vars
  BY <1>b, <1>13 DEF vars, task, Kept, HoldsHome
<1>. QED
  BY <1>1, <1>2, <1>3, <1>4, <1>5, <1>6, <1>7, <1>8, <1>9, <1>10, <1>11, <1>12, <1>13
  DEF Next, Step

(* Whatever the interleaving of claims, lost claims, flushes, replays and  *)
(* retries, a session that no retry was moved to has at most one turn, and *)
(* its slot is marked exactly while that turn runs.                        *)
THEOREM OneTurnOutsideRetriesCorrect == Spec => []OneTurnOutsideRetries
<1>1. Init => OneTurnOutsideRetries
  BY DEF Init, OneTurnOutsideRetries, OneTurn, Holds, HoldsHome, HoldsFresh
<1>2. Turns /\ Turns' /\ OneTurnOutsideRetries /\ [Next]_vars => OneTurnOutsideRetries'
  BY StepOneTurn DEF OneTurnOutsideRetries
<1>. QED  BY <1>1, <1>2, TurnsInvariant, PTL DEF Spec

(* Without the retry under a fresh session the slot is what its comment    *)
(* says it is: the single source of truth for one turn per session.        *)
THEOREM OneTurnCorrect ==
  ASSUME FreshSession = {}
  PROVE  Spec => []OneTurnPerSession
<1>1. OneTurnOutsideRetries => OneTurnPerSession
  BY DEF OneTurnOutsideRetries, OneTurnPerSession
<1>. QED  BY <1>1, OneTurnOutsideRetriesCorrect, PTL

-----------------------------------------------------------------------------
(* What is queued for a session is there until its queue is emptied.       *)
LEMMA PushAdds ==
  ASSUME TypeOK, NEW s \in Session, NEW o \in Origin, NEW i \in Item, Push(s, o, i),
         NEW r \in Session
  PROVE  /\ r = s => ItemsOf(queue'[r]) \subseteq ItemsOf(queue[r]) \cup {i}
         /\ r # s => queue'[r] = queue[r]
<1>1. queue[s] \in [Origin -> Seq(Item)]
  BY DEF TypeOK
<1>2. Range(Append(queue[s][o], i)) \subseteq Range(queue[s][o]) \cup {i}
  BY <1>1 DEF Range
<1>3. \A p \in Origin :
        queue'[s][p] = IF p = o THEN Append(queue[s][o], i) ELSE queue[s][p]
  BY <1>1 DEF TypeOK, Push
<1>4. ItemsOf(queue'[s]) \subseteq ItemsOf(queue[s]) \cup {i}
  BY <1>2, <1>3 DEF ItemsOf
<1>. QED  BY <1>4 DEF TypeOK, Push

LEMMA NothingInNoItems == ItemsOf(NoItems) = {}
BY DEF ItemsOf, NoItems, Range

(* Emptying one queue strands nobody in another.                           *)
LEMMA EmptyTakes ==
  ASSUME TypeOK, NEW s \in Session, Empty(s), NEW r \in Session
  PROVE  /\ r = s => ItemsOf(queue'[r]) = {}
         /\ r # s => queue'[r] = queue[r]
BY NothingInNoItems DEF TypeOK, Empty

LEMMA StepWaiting ==
  ASSUME Turns, [Next]_vars, WaitingHasATaker
  PROVE  WaitingHasATaker'
<1>a. TypeOK /\ HomeKnown /\ RetryKnown /\ HandsFull
  BY DEF Turns
<1>. SUFFICES ASSUME NEW r \in Session, NEW j, j \in ItemsOf(queue'[r]), j \notin missed'
              PROVE  \E t \in Task : Takes(t, r)'
  BY DEF WaitingHasATaker, Takes, Holds, HoldsHome, HoldsFresh, ItemsOf
<1>. DEFINE Waits == j \in ItemsOf(queue[r]) /\ j \notin missed
           Taken2 == \E t \in Task : Takes(t, r)'
<1>b. ASSUME Waits  PROVE \E t \in Task : Takes(t, r)
  BY <1>b DEF WaitingHasATaker
<1>. USE <1>a DEF Takes, Holds, HoldsHome, HoldsFresh
<1>1. ASSUME NEW t \in Task, NEW i \in Item, NEW k \in InPlay, NEW s \in Session,
             Arrive(t, i, k, s)
      PROVE  Taken2
  BY <1>b, <1>1 DEF Arrive, TypeOK
<1>2. ASSUME NEW t \in Task, WakeRefused(t) \/ DropBusy(t) PROVE Taken2
  BY <1>b, <1>2 DEF WakeRefused, DropBusy, GiveUp, TypeOK
<1>3. ASSUME NEW t \in Task, ClaimSlot(t) PROVE Taken2
  BY <1>b, <1>3 DEF ClaimSlot, BeginTurn, TypeOK
<1>4. ASSUME NEW t \in Task, LoseClaim(t) \/ LoseReclaim(t) PROVE Taken2
  BY <1>b, <1>4 DEF LoseClaim, LoseReclaim, history, TypeOK
<1>5. ASSUME NEW t \in Task, Enqueue(t) PROVE Taken2
  <2>1. home[t] \in Session /\ Head(carry[t]) \in Item /\ QueuesAs(kind[t]) \in Origin
    BY <1>5 DEF Enqueue, HomeKnown, HandsFull, TypeOK, QueuesAs, Origin
  <2>2. /\ r = home[t] => ItemsOf(queue'[r]) \subseteq ItemsOf(queue[r]) \cup {Head(carry[t])}
        /\ r # home[t] => queue'[r] = queue[r]
    BY <1>5, <2>1, PushAdds DEF Enqueue
  <2>3. \E u \in Task : Takes(u, r)
    BY <1>b, <1>5, <2>2 DEF Enqueue, MissUnlessTaken
  <2>. QED  BY <1>5, <2>3 DEF Enqueue, TypeOK
<1>6. ASSUME NEW t \in Task, Drain(t) PROVE Taken2
  <2>1. LoopSession(t) \in Session
    BY <1>6, SessionAssumption DEF Drain, LoopSession, HomeKnown, RetryKnown
  <2>2. r # LoopSession(t) /\ queue'[r] = queue[r]
    BY <1>6, <2>1, EmptyTakes DEF Drain
  <2>. QED  BY <1>b, <1>6, <2>2 DEF Drain, task
<1>7. ASSUME NEW t \in Task, LoopExit(t) PROVE Taken2
  BY <1>b, <1>7 DEF LoopExit, history, TypeOK
<1>8. ASSUME NEW t \in Task, NEW f \in FreshSession, RebindFresh(t, f) PROVE Taken2
  BY <1>b, <1>8 DEF RebindFresh, history, TypeOK
<1>9. ASSUME NEW t \in Task, MarkFresh(t) PROVE Taken2
  BY <1>b, <1>9 DEF MarkFresh, history, TypeOK
<1>10. ASSUME NEW t \in Task, RetryExit(t) PROVE Taken2
  <2>1. r # retry[t] /\ Waits
    BY <1>10 DEF RetryExit
  <2>. QED  BY <1>b, <1>10, <2>1 DEF RetryExit, TypeOK
<1>11. ASSUME NEW t \in Task, NEW flush \in BOOLEAN, Release(t, flush) PROVE Taken2
  <2>1. CASE flush
    BY <1>b, <1>11, <2>1 DEF Release, TypeOK
  <2>2. CASE ~flush
    <3>1. r # home[t] /\ Waits
      BY <1>11, <2>2 DEF Release
    <3>. QED  BY <1>b, <1>11, <3>1, <2>2 DEF Release, TypeOK
  <2>. QED  BY <2>1, <2>2
<1>12. ASSUME NEW t \in Task, Flush(t) PROVE Taken2
  <2>1. r # home[t] /\ queue'[r] = queue[r]
    BY <1>12, EmptyTakes DEF Flush, HomeKnown
  <2>. QED  BY <1>b, <1>12, <2>1 DEF Flush, history, TypeOK
<1>13. ASSUME NEW t \in Task, NEW u \in Task, FlushSpawning(t, u) PROVE Taken2
  <2>1. r # home[t] /\ queue'[r] = queue[r]
    BY <1>13, EmptyTakes DEF FlushSpawning, HomeKnown
  <2>. QED  BY <1>b, <1>13, <2>1 DEF FlushSpawning, history, TypeOK
<1>14. ASSUME NEW t \in Task, Reclaim(t) PROVE Taken2
  BY <1>b, <1>14 DEF Reclaim, BeginTurn, TypeOK
<1>15. ASSUME NEW t \in Task, Requeue(t) PROVE Taken2
  <2>1. home[t] \in Session /\ carry[t] \in Seq(Item) /\ carry[t] # <<>>
    BY <1>15 DEF Requeue, HomeKnown, HandsFull, TypeOK
  <2>2. Head(carry[t]) \in Item
    BY <2>1, HeadAndTail
  <2>0. Push(home[t], "Reaction", Head(carry[t])) /\ "Reaction" \in Origin
    BY <1>15 DEF Requeue, Origin
  <2>3. /\ r = home[t] => ItemsOf(queue'[r]) \subseteq ItemsOf(queue[r]) \cup {Head(carry[t])}
        /\ r # home[t] => queue'[r] = queue[r]
    BY <2>0, <2>1, <2>2, PushAdds
  <2>4. \E u \in Task : Takes(u, r)
    BY <1>b, <1>15, <2>3 DEF Requeue, MissUnlessTaken
  <2>. QED  BY <1>15, <2>4 DEF Requeue, TypeOK
<1>16. ASSUME NEW s \in Session, StopTarget(s) PROVE Taken2
  <2>1. r # s /\ queue'[r] = queue[r]
    BY <1>16, EmptyTakes DEF StopTarget
  <2>. QED  BY <1>b, <1>16, <2>1 DEF StopTarget, task
<1>17. CASE UNCHANGED vars
  BY <1>b, <1>17 DEF vars, task, history
<1>. QED
  BY <1>1, <1>2, <1>3, <1>4, <1>5, <1>6, <1>7, <1>8, <1>9, <1>10, <1>11, <1>12,
     <1>13, <1>14, <1>15, <1>16, <1>17 DEF Next, Step

(* No mid-turn item is stranded but through the gaps that are named.       *)
THEOREM NobodyIsStranded == Spec => []WaitingHasATaker
<1>1. Init => WaitingHasATaker
  BY NothingInNoItems DEF Init, WaitingHasATaker
<1>2. Turns /\ WaitingHasATaker /\ [Next]_vars => WaitingHasATaker'
  BY StepWaiting
<1>. QED  BY <1>1, <1>2, TurnsInvariant, PTL DEF Spec
=============================================================================
