------------------------ MODULE FollowupTurnsProofs ------------------------
(***************************************************************************)
(* Theorems about the WhatsApp and Discord turns, for any sessions, items  *)
(* and tasks.                                                              *)
(***************************************************************************)
EXTENDS FollowupTurns, TLAPS

-----------------------------------------------------------------------------
(* What a queue says after an enqueue and after a drain.                   *)
LEMMA RangeAppend ==
  ASSUME NEW S, NEW q \in Seq(S), NEW b \in S
  PROVE  Range(Append(q, b)) = Range(q) \cup {b}
<1>1. Range(Append(q, b)) \subseteq Range(q) \cup {b}
      BY DEF Range
<1>2. ASSUME NEW x \in Range(q)
      PROVE  x \in Range(Append(q, b))
  <2>1. PICK n \in DOMAIN q : x = q[n]
        BY DEF Range
  <2>2. n \in DOMAIN Append(q, b) /\ Append(q, b)[n] = x
        BY <2>1
  <2> QED BY <2>2 DEF Range
<1>3. b \in Range(Append(q, b))
  <2>1. Len(q) + 1 \in DOMAIN Append(q, b) /\ Append(q, b)[Len(q) + 1] = b
        OBVIOUS
  <2> QED BY <2>1 DEF Range
<1> QED BY <1>1, <1>2, <1>3

LEMMA RangeEmpty == Range(<<>>) = {}
BY DEF Range

LEMMA QueueTypes ==
  ASSUME NEW q \in Seq(Batch)
  PROVE  /\ Range(q) \subseteq Batch
         /\ UNION Range(q) \in Batch
BY DEF Range, Batch

-----------------------------------------------------------------------------
(* Types.  A task past "idle" has its session.                             *)
HomeKnown == \A t \in Task : phase[t] # "idle" => home[t] \in Session
Typed     == TypeOK /\ HomeKnown

LEMMA TypedInit == Init => Typed
<1> SUFFICES ASSUME Init  PROVE Typed
    OBVIOUS
<1>1. queue \in [Session -> Seq(Batch)]
      BY DEF Init
<1> QED BY <1>1 DEF Init, Typed, TypeOK, HomeKnown, Phase, Kind, Handler, Batch

LEMMA HandOverTypes ==
  ASSUME TypeOK, NEW b, HandOver(b)
  PROVE  taken' \in [Item -> Nat]
BY DEF TypeOK, HandOver

LEMMA DrainTypes ==
  ASSUME TypeOK, NEW s \in Session, DrainQueue(s)
  PROVE  /\ queue' \in [Session -> Seq(Batch)]
         /\ \A r \in clears' : r \in [session : Session, text : Batch]
<1>1. queue[s] \in Seq(Batch)
      BY DEF TypeOK
<1>2. Range(queue[s]) \subseteq Batch
      BY <1>1, QueueTypes
<1>3. <<>> \in Seq(Batch)
      OBVIOUS
<1> QED BY <1>2, <1>3 DEF TypeOK, DrainQueue, Emptied, Drained, Row

LEMMA JoinedType ==
  ASSUME TypeOK, NEW s \in Session
  PROVE  Joined(s) \in Batch
<1>1. queue[s] \in Seq(Batch)
      BY DEF TypeOK
<1> QED BY <1>1, QueueTypes DEF Joined

LEMMA TypedStep == Typed /\ [Next]_vars => Typed'
<1> SUFFICES ASSUME Typed, [Next]_vars  PROVE Typed'
    OBVIOUS
<1> USE DEF Typed, HomeKnown, GoTo, Carry, task, durable, history
<1>0. \A t \in Task : carry[t] \subseteq Item
      BY DEF TypeOK, Batch
<1>1. ASSUME NEW t \in Task, NEW i \in Item, NEW k \in Handler, NEW s \in Session,
             Arrive(t, i, k, s)
      PROVE  Typed'
      BY <1>1 DEF Arrive, TypeOK, Phase, Kind, Batch
<1>2. ASSUME NEW t \in Task, WakeRefused(t)  PROVE Typed'
      BY <1>0, <1>2 DEF WakeRefused, TypeOK, Phase, Batch
<1>3. ASSUME NEW t \in Task, Claim(t)  PROVE Typed'
      BY <1>3 DEF Claim, TypeOK, Phase
<1>4. ASSUME NEW t \in Task, LoseClaim(t)  PROVE Typed'
      BY <1>4 DEF LoseClaim, TypeOK, Phase
<1>5. ASSUME NEW t \in Task, Enqueue(t)  PROVE Typed'
  <2>1. home[t] \in Session /\ carry[t] \in Batch
        BY <1>5 DEF Enqueue, TypeOK
  <2>2. Row(home[t], carry[t]) \in [session : Session, text : Batch]
        BY <2>1 DEF Row
  <2>3. queue' \in [Session -> Seq(Batch)]
        BY <1>5, <2>1 DEF Enqueue, TypeOK
  <2> QED BY <1>0, <1>5, <2>2, <2>3 DEF Enqueue, DurableTwin, TypeOK, Phase, Batch
<1>6. ASSUME NEW t \in Task, Launch(t)  PROVE Typed'
  <2>1. taken' \in [Item -> Nat]
        BY <1>6, HandOverTypes DEF Launch
  <2> QED BY <1>6, <2>1 DEF Launch, StoreToken, TypeOK, Phase, Batch
<1>7. ASSUME NEW t \in Task, Drain(t)  PROVE Typed'
  <2>1. taken' \in [Item -> Nat]
        BY <1>7, HandOverTypes DEF Drain
  <2>2. home[t] \in Session
        BY <1>7 DEF Drain, Listens
  <2> QED BY <1>7, <2>1, <2>2, DrainTypes DEF Drain, TypeOK
<1>8. ASSUME NEW t \in Task, LoopExit(t)  PROVE Typed'
      BY <1>8 DEF LoopExit, TypeOK, Phase
<1>9. ASSUME NEW t \in Task, Release(t)  PROVE Typed'
  <2>1. Joined(home[t]) \subseteq Item
        BY <1>9, JoinedType DEF Release, Batch
  <2> QED BY <1>9, <2>1 DEF Release, Unmarked, AfterTurn, TypeOK, Phase
<1>10. ASSUME NEW t \in Task, NoChat(t)  PROVE Typed'
  <2>1. Joined(home[t]) \subseteq Item
        BY <1>10, JoinedType DEF NoChat, Batch
  <2> QED BY <1>0, <1>10, <2>1 DEF NoChat, TypeOK, Phase, Batch
<1>11. ASSUME NEW t \in Task, FlushNothing(t) \/ SpawnFlush(t)  PROVE Typed'
      BY <1>11 DEF FlushNothing, SpawnFlush, TypeOK, Phase
<1>12. ASSUME NEW t \in Task, FlushDrain(t)  PROVE Typed'
  <2>1. home[t] \in Session
        BY <1>12 DEF FlushDrain
  <2>2. Joined(home[t]) \in Batch
        BY <2>1, JoinedType
  <2> QED BY <1>12, <2>1, <2>2, DrainTypes DEF FlushDrain, TypeOK, Phase, Kind
<1>13. ASSUME NEW s \in Session, Stop(s)  PROVE Typed'
      BY <1>13 DEF Stop, TypeOK
<1>14. ASSUME NEW r \in writes, Insert(r)  PROVE Typed'
      BY <1>14 DEF Insert, TypeOK
<1>15. ASSUME NEW r \in clears, Retire(r) \/ EndClear(r)  PROVE Typed'
      BY <1>15 DEF Retire, EndClear, TypeOK
<1>16. CASE UNCHANGED vars
      BY <1>16 DEF vars, TypeOK
<1> QED BY <1>1, <1>2, <1>3, <1>4, <1>5, <1>6, <1>7, <1>8, <1>9, <1>10, <1>11, <1>12,
           <1>13, <1>14, <1>15, <1>16 DEF Next, Step

-----------------------------------------------------------------------------
(* The slot and the token.                                                 *)
Control ==
  /\ active \subseteq Session
  /\ token \in [Session -> Task \cup {NoTask}]
  /\ phase \in [Task -> Phase] /\ kind \in [Task -> Kind]
  /\ home \in [Task -> Session \cup {NoSession}]
  /\ HomeKnown

LEMMA SlotStep ==
  Control /\ OneTurnPerSlot /\ StopReachesTheTurn /\ [Next]_vars
    => OneTurnPerSlot' /\ StopReachesTheTurn'
<1> DEFINE Good == OneTurnPerSlot /\ StopReachesTheTurn
<1> SUFFICES ASSUME Control, Good, [Next]_vars  PROVE Good'
    OBVIOUS
<1> USE TaskAssumption DEF Control, HomeKnown, OneTurnPerSlot, StopReachesTheTurn,
        Holds, Runs, Slotless, StoresToken, Tracked, GoTo, Carry, task, durable, history
<1>1. ASSUME NEW t \in Task, NEW i \in Item, NEW k \in Handler, NEW s \in Session,
             Arrive(t, i, k, s)
      PROVE  Good'
      BY <1>1 DEF Arrive
<1>2. ASSUME NEW t \in Task, WakeRefused(t) \/ LoseClaim(t) \/ LoopExit(t)
      PROVE  Good'
      BY <1>2 DEF WakeRefused, LoseClaim, LoopExit
<1>3. ASSUME NEW t \in Task, Claim(t)  PROVE Good'
      BY <1>3 DEF Claim, SlotIsFree
<1>4. ASSUME NEW t \in Task, Enqueue(t)  PROVE Good'
      BY <1>4 DEF Enqueue, DurableTwin
<1>5. ASSUME NEW t \in Task, Launch(t)  PROVE Good'
  <2>1. OneTurnPerSlot'
        BY <1>5 DEF Launch
  <2>2. StopReachesTheTurn'
        BY <1>5 DEF Launch, StoreToken
  <2> QED BY <2>1, <2>2
<1>6. ASSUME NEW t \in Task, Drain(t)  PROVE Good'
      BY <1>6 DEF Drain
<1>7. ASSUME NEW t \in Task, Release(t)  PROVE Good'
      BY <1>7 DEF Release, Unmarked, AfterTurn
<1>8. ASSUME NEW t \in Task, NoChat(t)  PROVE Good'
      BY <1>8 DEF NoChat
<1>9. ASSUME NEW t \in Task, FlushNothing(t) \/ SpawnFlush(t)  PROVE Good'
      BY <1>9 DEF FlushNothing, SpawnFlush
<1>10. ASSUME NEW t \in Task, FlushDrain(t)  PROVE Good'
      BY <1>10 DEF FlushDrain
<1>11. ASSUME NEW s \in Session, Stop(s)  PROVE Good'
      BY <1>11 DEF Stop
<1>12. ASSUME NEW r \in writes, Insert(r)  PROVE Good'
      BY <1>12 DEF Insert
<1>13. ASSUME NEW r \in clears, Retire(r) \/ EndClear(r)  PROVE Good'
      BY <1>13 DEF Retire, EndClear
<1>14. CASE UNCHANGED vars
      BY <1>14 DEF vars
<1> QED BY <1>1, <1>2, <1>3, <1>4, <1>5, <1>6, <1>7, <1>8, <1>9, <1>10, <1>11, <1>12,
           <1>13, <1>14 DEF Next, Step

(* The gaps are the only ways to strand a follow-up.                       *)
(* A step that leaves the queues and sends nobody who looks away.          *)
LEMMA TakersKept ==
  ASSUME WaitingHasATaker, queue' = queue, missed \subseteq missed',
         \A u \in Task, s \in Session :
           Takes(u, s) => Takes(u, s)' \/ Joined(s) \subseteq missed'
  PROVE  WaitingHasATaker'
<1>1. \A s \in Session : Joined(s)' = Joined(s)
      BY DEF Joined
<1> QED BY <1>1 DEF WaitingHasATaker

(* What an enqueue and a drain do to the queues.                           *)
LEMMA JoinedAfterEnqueue ==
  ASSUME TypeOK, NEW s \in Session, NEW b \in Batch,
         queue' = [queue EXCEPT ![s] = Append(@, b)]
  PROVE  /\ Range(queue'[s]) = Range(queue[s]) \cup {b}
         /\ Joined(s)' = Joined(s) \cup b
         /\ \A q \in Session \ {s} : queue'[q] = queue[q] /\ Joined(q)' = Joined(q)
<1>1. queue \in [Session -> Seq(Batch)]
      BY DEF TypeOK
<1>2. queue'[s] = Append(queue[s], b)
      BY <1>1
<1>3. queue[s] \in Seq(Batch)
      BY <1>1
<1>4. Range(queue'[s]) = Range(queue[s]) \cup {b}
      BY <1>2, <1>3, RangeAppend
<1>5. \A q \in Session \ {s} : queue'[q] = queue[q]
      BY <1>1
<1> QED BY <1>4, <1>5 DEF Joined

LEMMA JoinedAfterDrain ==
  ASSUME TypeOK, NEW s \in Session, DrainQueue(s)
  PROVE  /\ queue'[s] = <<>> /\ Range(queue'[s]) = {} /\ Joined(s)' = {}
         /\ \A q \in Session \ {s} : queue'[q] = queue[q] /\ Joined(q)' = Joined(q)
<1>1. queue \in [Session -> Seq(Batch)] /\ queue' = [queue EXCEPT ![s] = <<>>]
      BY DEF TypeOK, DrainQueue, Emptied
<1>2. queue'[s] = <<>> /\ \A q \in Session \ {s} : queue'[q] = queue[q]
      BY <1>1
<1>3. Range(queue'[s]) = {}
      BY <1>2, RangeEmpty
<1> QED BY <1>2, <1>3 DEF Joined

LEMMA TakerStep == Typed /\ WaitingHasATaker /\ [Next]_vars => WaitingHasATaker'
<1> SUFFICES ASSUME Typed, WaitingHasATaker, [Next]_vars  PROVE WaitingHasATaker'
    OBVIOUS
<1>0. Control
      BY DEF Control, Typed, TypeOK
<1> USE <1>0 DEF Control, HomeKnown, GoTo, Carry, task, durable, history
<1>1. ASSUME NEW t \in Task, NEW i \in Item, NEW k \in Handler, NEW s \in Session,
             Arrive(t, i, k, s)
      PROVE  WaitingHasATaker'
      BY <1>1, TakersKept DEF Arrive, Takes, Holds, Runs, Slotless
<1>2. ASSUME NEW t \in Task,
             WakeRefused(t) \/ Claim(t) \/ LoseClaim(t) \/ Launch(t) \/ LoopExit(t)
      PROVE  WaitingHasATaker'
      BY <1>2, TakersKept DEF WakeRefused, Claim, LoseClaim, Launch, LoopExit, Takes,
         Holds, Runs, Slotless
<1>3. ASSUME NEW t \in Task, Enqueue(t)  PROVE WaitingHasATaker'
  <2>1. PICK h \in Session : h = home[t]
        BY <1>3 DEF Enqueue
  <2>2. /\ Joined(h)' = Joined(h) \cup carry[t]
        /\ \A s \in Session \ {h} : Joined(s)' = Joined(s)
    <3>1. TypeOK /\ carry[t] \in Batch
          BY DEF Typed, TypeOK
    <3> QED BY <1>3, <2>1, <3>1, JoinedAfterEnqueue DEF Enqueue
  <2>3. \A u \in Task, s \in Session : Takes(u, s) => Takes(u, s)'
        BY <1>3 DEF Enqueue, Takes, Holds, Runs, Slotless
  <2>4. (\E u \in Task : Takes(u, h)) \/ carry[t] \subseteq missed'
        BY <1>3, <2>1 DEF Enqueue
  <2>5. missed \subseteq missed'
        BY <1>3 DEF Enqueue
  <2> QED BY <2>2, <2>3, <2>4, <2>5 DEF WaitingHasATaker
<1>4. ASSUME NEW t \in Task, Drain(t) \/ FlushDrain(t)  PROVE WaitingHasATaker'
  <2>1. PICK h \in Session : h = home[t] /\ DrainQueue(h)
        BY <1>4 DEF Drain, FlushDrain, Listens
  <2>2. /\ Joined(h)' = {}
        /\ \A s \in Session \ {h} : Joined(s)' = Joined(s)
        BY <2>1, JoinedAfterDrain DEF Typed
  <2>3. \A u \in Task, s \in Session \ {h} : Takes(u, s) => Takes(u, s)'
        BY <1>4, <2>1 DEF Drain, FlushDrain, Takes, Holds, Runs, Slotless
  <2>4. missed' = missed
        BY <1>4 DEF Drain, FlushDrain
  <2> QED BY <2>2, <2>3, <2>4 DEF WaitingHasATaker
<1>5. ASSUME NEW t \in Task, Release(t)  PROVE WaitingHasATaker'
      BY <1>5, TakersKept DEF Release, AfterTurn, Takes, Holds, Runs, Slotless
<1>6. ASSUME NEW t \in Task, NoChat(t)  PROVE WaitingHasATaker'
      BY <1>6, TakersKept DEF NoChat, Takes, Holds, Runs, Slotless
<1>7. ASSUME NEW t \in Task, FlushNothing(t)  PROVE WaitingHasATaker'
  <2>1. Joined(home[t]) = {}
        BY <1>7, RangeEmpty DEF FlushNothing, Joined
  <2> QED BY <1>7, <2>1, TakersKept DEF FlushNothing, Takes, Holds, Runs, Slotless
<1>8. ASSUME NEW t \in Task, SpawnFlush(t)  PROVE WaitingHasATaker'
      BY <1>8, TakersKept DEF SpawnFlush, Takes, Holds, Runs, Slotless
<1>9. CASE \/ \E s \in Session : Stop(s)
           \/ \E r \in writes : Insert(r)
           \/ \E r \in clears : Retire(r) \/ EndClear(r)
           \/ UNCHANGED vars
      BY <1>9, TakersKept DEF Stop, Insert, Retire, EndClear, vars, Takes, Holds, Runs,
         Slotless
<1> QED BY <1>1, <1>2, <1>3, <1>4, <1>5, <1>6, <1>7, <1>8, <1>9 DEF Next, Step

-----------------------------------------------------------------------------
(* Where the items are: the places of ExactlyOnePlace as separate facts.   *)
Hands == {"arrived", "busy", "claimed"}
HandsKnown == \A t \in Task : carry[t] # {} <=> phase[t] \in Hands
CarriedOnce(i) == \A t, u \in Task : i \in carry[t] /\ i \in carry[u] => t = u
QueuedOnce(i) ==
  \A s, q \in Session : \A n \in DOMAIN queue[s], m \in DOMAIN queue[q] :
    i \in queue[s][n] /\ i \in queue[q][m] => s = q /\ n = m
Held(i)  == \E t \in Task : i \in carry[t]
Waits(i) == \E s \in Session : i \in Joined(s)
Exclusive(i) ==
  /\ Held(i) => ~Waits(i) /\ taken[i] = 0 /\ i \notin lost
  /\ Waits(i) => taken[i] = 0 /\ i \notin lost
  /\ taken[i] > 0 => i \notin lost
  /\ taken[i] <= 1
  /\ address[i] # NoSession <=> Held(i) \/ Waits(i) \/ taken[i] > 0 \/ i \in lost
AtHome(i) ==
  /\ \A t \in Task : i \in carry[t] => address[i] = home[t]
  /\ \A s \in Session : i \in Joined(s) => address[i] = s
Placed(i) == CarriedOnce(i) /\ QueuedOnce(i) /\ Exclusive(i) /\ AtHome(i)
NoEmptyMessages ==
  \A s \in Session : \A n \in DOMAIN queue[s] : queue[s][n] # {}
Whereabouts == HandsKnown /\ \A i \in Item : Placed(i)

LEMMA PlacesAreFacts ==
  ASSUME TypeOK, \A i \in Item : Placed(i)
  PROVE  ExactlyOnePlace
<1> SUFFICES ASSUME NEW i \in Item
             PROVE  /\ AtMostOnce(i)
                    /\ IF address[i] = NoSession THEN Places(i) = {}
                       ELSE \E p \in {"held", "queued", "taken", "lost"} : Places(i) = {p}
    BY DEF ExactlyOnePlace
<1>0. taken[i] \in Nat
      BY DEF TypeOK
<1>1. AtMostOnce(i)
      BY DEF AtMostOnce, InMessage, Placed, CarriedOnce, QueuedOnce, Exclusive
<1>2. CASE address[i] = NoSession
      BY <1>0, <1>1, <1>2 DEF Placed, Exclusive, Held, Waits, Places
<1>3. CASE address[i] # NoSession
  <2>1. Exclusive(i)
        BY DEF Placed
  <2>2. CASE Held(i)
    <3>1. ~Waits(i) /\ ~(taken[i] > 0) /\ i \notin lost
          BY <1>0, <2>1, <2>2 DEF Exclusive
    <3>2. Places(i) = {"held"}
          BY <2>2, <3>1 DEF Held, Waits, Places
    <3> QED BY <1>1, <1>3, <3>2
  <2>3. CASE Waits(i)
    <3>1. ~Held(i) /\ ~(taken[i] > 0) /\ i \notin lost
          BY <1>0, <2>1, <2>3 DEF Exclusive
    <3>2. Places(i) = {"queued"}
          BY <2>3, <3>1 DEF Held, Waits, Places
    <3> QED BY <1>1, <1>3, <3>2
  <2>4. CASE taken[i] > 0
    <3>1. ~Held(i) /\ ~Waits(i) /\ i \notin lost
          BY <1>0, <2>1, <2>4 DEF Exclusive
    <3>2. Places(i) = {"taken"}
          BY <2>4, <3>1 DEF Held, Waits, Places
    <3> QED BY <1>1, <1>3, <3>2
  <2>5. CASE i \in lost
    <3>1. ~Held(i) /\ ~Waits(i) /\ ~(taken[i] > 0)
          BY <1>0, <2>1, <2>5 DEF Exclusive
    <3>2. Places(i) = {"lost"}
          BY <2>5, <3>1 DEF Held, Waits, Places
    <3> QED BY <1>1, <1>3, <3>2
  <2> QED BY <1>3, <2>1, <2>2, <2>3, <2>4, <2>5 DEF Exclusive
<1> QED BY <1>1, <1>2, <1>3

LEMMA InJoined ==
  ASSUME NEW s \in Session, NEW n \in DOMAIN queue[s]
  PROVE  queue[s][n] \subseteq Joined(s)
BY DEF Joined, Range

(* A step that moves no item.                                              *)
LEMMA PlacedKept ==
  ASSUME NEW i \in Item, Placed(i),
         UNCHANGED <<queue, taken, lost, address>>,
         \A t \in Task : carry'[t] = carry[t],
         \A t \in Task : i \in carry[t] => home'[t] = home[t]
  PROVE  Placed(i)'
BY DEF Placed, CarriedOnce, QueuedOnce, Exclusive, AtHome, Held, Waits, Joined

LEMMA PlacedArrive ==
  ASSUME Typed, Whereabouts, NEW t \in Task, NEW j \in Item, NEW k \in Handler, NEW s \in Session,
         Arrive(t, j, k, s)
  PROVE  Whereabouts'
<1> USE DEF Typed, TypeOK, GoTo, Carry
<1>1. HandsKnown'
      BY DEF Arrive, Whereabouts, HandsKnown, Hands
<1>2. ASSUME NEW i \in Item  PROVE Placed(i)'
  <2>1. Placed(i) /\ QueuedOnce(i)' /\ (Waits(i)' <=> Waits(i))
        BY DEF Whereabouts, Placed, QueuedOnce, Waits, Joined, Arrive
  <2>2. carry[t] = {}
        BY DEF Arrive, Whereabouts, HandsKnown, Hands
  <2>3. CASE i = j
    <3>1. /\ \A u \in Task : i \in carry'[u] <=> u = t
          /\ address'[i] = s /\ home'[t] = s /\ ~Waits(i) /\ taken[i] = 0 /\ i \notin lost
          BY <2>1, <2>3, SessionAssumption DEF Arrive, Placed, Exclusive, Held
    <3>2. taken' = taken /\ lost' = lost
          BY DEF Arrive
    <3> QED BY <2>1, <3>1, <3>2, SessionAssumption
            DEF Placed, CarriedOnce, Exclusive, AtHome, Held, Waits
  <2>4. CASE i # j
    <3>1. /\ \A u \in Task : i \in carry'[u] <=> i \in carry[u]
          /\ \A u \in Task : i \in carry[u] => home'[u] = home[u]
          /\ address'[i] = address[i]
          BY <2>2, <2>4 DEF Arrive
    <3>2. taken' = taken /\ lost' = lost /\ queue' = queue
          BY DEF Arrive
    <3> QED BY <2>1, <3>1, <3>2
            DEF Placed, CarriedOnce, Exclusive, AtHome, Held, Waits, Joined
  <2> QED BY <2>3, <2>4
<1> QED BY <1>1, <1>2 DEF Whereabouts

(* A step that takes what t carries out of its hands: lost, or handed over.*)
LEMMA PlacedDrop ==
  ASSUME Typed, Whereabouts, NEW t \in Task,
         carry' = [carry EXCEPT ![t] = {}], UNCHANGED <<queue, home, address>>,
         \/ lost' = lost \cup carry[t] /\ taken' = taken
         \/ lost' = lost /\ HandOver(carry[t]),
         NEW p \in Phase \ Hands, phase' = [phase EXCEPT ![t] = p]
  PROVE  Whereabouts'
<1> USE DEF Typed, TypeOK
<1>1. HandsKnown'
      BY DEF Whereabouts, HandsKnown
<1>2. ASSUME NEW i \in Item  PROVE Placed(i)'
  <2>1. Placed(i) /\ QueuedOnce(i)' /\ (Waits(i)' <=> Waits(i))
        BY DEF Whereabouts, Placed, QueuedOnce, Waits, Joined
  <2>2. /\ \A u \in Task : i \in carry'[u] <=> i \in carry[u] /\ u # t
        /\ \A s \in Session : Joined(s)' = Joined(s)
        BY DEF Joined
  <2>3. CASE i \in carry[t]
    <3>1. ~Held(i)' /\ Held(i)
          BY <2>1, <2>2, <2>3 DEF Placed, CarriedOnce, Held
    <3>2. \/ i \in lost' /\ taken'[i] = 0
          \/ i \notin lost' /\ taken'[i] = 1
          BY <2>1, <2>3, <3>1 DEF Placed, Exclusive, HandOver
    <3> QED BY <2>1, <2>2, <3>1, <3>2 DEF Placed, CarriedOnce, Exclusive, AtHome, Held
  <2>4. CASE i \notin carry[t]
    <3>1. (i \in lost' <=> i \in lost) /\ taken'[i] = taken[i]
          BY <2>4 DEF HandOver
    <3>2. Held(i)' <=> Held(i)
          BY <2>2, <2>4 DEF Held
    <3> QED BY <2>1, <2>2, <3>1, <3>2 DEF Placed, CarriedOnce, Exclusive, AtHome
  <2> QED BY <2>3, <2>4
<1> QED BY <1>1, <1>2 DEF Whereabouts

LEMMA PlacedEnqueue ==
  ASSUME Typed, Whereabouts, NEW t \in Task, Enqueue(t)
  PROVE  Whereabouts'
<1>1. HandsKnown'
      BY DEF Whereabouts, HandsKnown, Hands, Enqueue, GoTo, Carry, Typed, TypeOK
<1>2. PICK h \in Session : h = home[t]
      BY DEF Enqueue, Typed, HomeKnown
<1>3. /\ carry[t] \in Batch /\ queue[h] \in Seq(Batch) /\ TypeOK
      /\ queue' = [queue EXCEPT ![h] = Append(@, carry[t])]
      BY <1>2 DEF Enqueue, Typed, TypeOK
<1>4. /\ Joined(h)' = Joined(h) \cup carry[t]
      /\ \A q \in Session \ {h} : queue'[q] = queue[q] /\ Joined(q)' = Joined(q)
      BY <1>3, JoinedAfterEnqueue
<1>5. \A u \in Task : carry'[u] = IF u = t THEN {} ELSE carry[u]
      BY DEF Enqueue, Carry, Typed, TypeOK
<1>6. UNCHANGED <<taken, lost, address, home>>
      BY DEF Enqueue
<1>7. /\ DOMAIN queue'[h] = DOMAIN queue[h] \cup {Len(queue[h]) + 1}
      /\ \A n \in DOMAIN queue[h] : queue'[h][n] = queue[h][n]
      /\ queue'[h][Len(queue[h]) + 1] = carry[t]
      /\ Len(queue[h]) + 1 \notin DOMAIN queue[h]
  <2>1. queue'[h] = Append(queue[h], carry[t])
        BY <1>3 DEF TypeOK
  <2> QED BY <1>3, <2>1
<1>8. ASSUME NEW i \in Item  PROVE Placed(i)'
  <2>1. Placed(i)
        BY DEF Whereabouts
  <2>2. CASE i \in carry[t]
    <3>1. ~Waits(i) /\ taken[i] = 0 /\ i \notin lost /\ address[i] = h
          BY <1>2, <2>1, <2>2 DEF Placed, Exclusive, Held, AtHome
    <3>2. \A s \in Session : \A n \in DOMAIN queue[s] : i \notin queue[s][n]
          BY <3>1, InJoined DEF Waits
    <3>3. QueuedOnce(i)'
          BY <1>4, <1>7, <3>2 DEF QueuedOnce
    <3>4. /\ \A u \in Task : i \notin carry'[u]
          /\ \A s \in Session : i \in Joined(s)' <=> s = h
          BY <1>4, <1>5, <2>1, <2>2, <3>1 DEF Placed, CarriedOnce, Waits
    <3> QED BY <1>6, <3>1, <3>3, <3>4, SessionAssumption
            DEF Placed, CarriedOnce, Exclusive, AtHome, Held, Waits
  <2>3. CASE i \notin carry[t]
    <3>1. QueuedOnce(i)'
          BY <1>4, <1>7, <2>1, <2>3 DEF Placed, QueuedOnce
    <3>2. /\ \A u \in Task : i \in carry'[u] <=> i \in carry[u]
          /\ \A s \in Session : i \in Joined(s)' <=> i \in Joined(s)
          BY <1>4, <1>5, <2>3
    <3> QED BY <1>6, <2>1, <3>1, <3>2
            DEF Placed, CarriedOnce, Exclusive, AtHome, Held, Waits
  <2> QED BY <2>2, <2>3
<1> QED BY <1>1, <1>8 DEF Whereabouts

(* A queue that is emptied into a loop, or into the hands of the flush.    *)
LEMMA QueueEmptied ==
  ASSUME Typed, NEW h \in Session, DrainQueue(h), NEW i \in Item, Placed(i)
  PROVE  /\ QueuedOnce(i)'
         /\ \A s \in Session : i \in Joined(s)' <=> i \in Joined(s) /\ s # h
<1>1. /\ queue'[h] = <<>> /\ Joined(h)' = {}
      /\ \A q \in Session \ {h} : queue'[q] = queue[q] /\ Joined(q)' = Joined(q)
      BY JoinedAfterDrain DEF Typed
<1>2. QueuedOnce(i)'
      BY <1>1 DEF Placed, QueuedOnce
<1> QED BY <1>1, <1>2

LEMMA PlacedDrain ==
  ASSUME Typed, Whereabouts, NEW t \in Task, Drain(t)
  PROVE  Whereabouts'
<1>1. HandsKnown'
      BY DEF Whereabouts, HandsKnown, Drain, task
<1>2. PICK h \in Session : h = home[t]
      BY DEF Drain, Listens, Typed, HomeKnown
<1>3. DrainQueue(h) /\ HandOver(Joined(h)) /\ UNCHANGED <<carry, lost, address, home>>
      BY <1>2 DEF Drain, task
<1>4. ASSUME NEW i \in Item  PROVE Placed(i)'
  <2>1. Placed(i)
        BY DEF Whereabouts
  <2>2. /\ QueuedOnce(i)'
        /\ \A s \in Session : i \in Joined(s)' <=> i \in Joined(s) /\ s # h
        BY <1>3, <2>1, QueueEmptied
  <2>3. taken'[i] = IF i \in Joined(h) THEN taken[i] + 1 ELSE taken[i]
        BY <1>3 DEF HandOver
  <2>4. CASE i \in Joined(h)
    <3>1. ~Waits(i)' /\ Waits(i)
          BY <2>1, <2>2, <2>4 DEF Placed, AtHome, Waits
    <3>2. taken'[i] = 1 /\ i \notin lost /\ ~Held(i)
          BY <2>1, <2>3, <2>4, <3>1 DEF Placed, Exclusive
    <3> QED BY <1>3, <2>1, <2>2, <3>1, <3>2
            DEF Placed, CarriedOnce, Exclusive, AtHome, Held
  <2>5. CASE i \notin Joined(h)
    <3>1. Waits(i)' <=> Waits(i)
          BY <2>2, <2>5 DEF Waits
    <3> QED BY <1>3, <2>1, <2>2, <2>3, <2>5, <3>1
            DEF Placed, CarriedOnce, Exclusive, AtHome, Held
  <2> QED BY <2>4, <2>5
<1> QED BY <1>1, <1>4 DEF Whereabouts

LEMMA PlacedFlush ==
  ASSUME Typed, Whereabouts, NoEmptyMessages, NEW t \in Task, FlushDrain(t)
  PROVE  Whereabouts'
<1>1. PICK h \in Session : h = home[t]
      BY DEF FlushDrain, Typed, HomeKnown
<1>2. /\ DrainQueue(h) /\ queue[h] # <<>>
      /\ UNCHANGED <<taken, lost, address, home>>
      /\ phase' = [phase EXCEPT ![t] = "arrived"]
      /\ \A u \in Task : carry'[u] = IF u = t THEN Joined(h) ELSE carry[u]
      BY <1>1 DEF FlushDrain, Carry, GoTo, history, Typed, TypeOK
<1>3. carry[t] = {}
      BY DEF FlushDrain, Whereabouts, HandsKnown, Hands
<1>4. Joined(h) # {}
  <2>1. queue[h] \in Seq(Batch)
        BY DEF Typed, TypeOK
  <2>2. 1 \in DOMAIN queue[h]
        BY <1>2, <2>1
  <2> QED BY <2>2, InJoined DEF NoEmptyMessages
<1>5. HandsKnown'
      BY <1>2, <1>4 DEF Whereabouts, HandsKnown, Hands, Typed, TypeOK
<1>6. ASSUME NEW i \in Item  PROVE Placed(i)'
  <2>1. Placed(i)
        BY DEF Whereabouts
  <2>2. /\ QueuedOnce(i)'
        /\ \A s \in Session : i \in Joined(s)' <=> i \in Joined(s) /\ s # h
        BY <1>2, <2>1, QueueEmptied
  <2>3. CASE i \in Joined(h)
    <3>1. ~Waits(i)' /\ Waits(i) /\ address[i] = h
          BY <2>1, <2>2, <2>3 DEF Placed, AtHome, Waits
    <3>2. taken[i] = 0 /\ i \notin lost /\ ~Held(i)
          BY <2>1, <3>1 DEF Placed, Exclusive
    <3>3. \A u \in Task : i \in carry'[u] <=> u = t
          BY <1>2, <2>3, <3>2 DEF Held
    <3> QED BY <1>1, <1>2, <2>1, <2>2, <3>1, <3>2, <3>3, SessionAssumption
            DEF Placed, CarriedOnce, Exclusive, AtHome, Held
  <2>4. CASE i \notin Joined(h)
    <3>1. Waits(i)' <=> Waits(i)
          BY <2>2, <2>4 DEF Waits
    <3>2. \A u \in Task : i \in carry'[u] <=> i \in carry[u]
          BY <1>2, <1>3, <2>4
    <3> QED BY <1>2, <2>1, <2>2, <3>1, <3>2
            DEF Placed, CarriedOnce, Exclusive, AtHome, Held
  <2> QED BY <2>3, <2>4
<1> QED BY <1>5, <1>6 DEF Whereabouts

LEMMA NoEmptyStep ==
  ASSUME Typed, HandsKnown, NoEmptyMessages, [Next]_vars
  PROVE  NoEmptyMessages'
<1>1. ASSUME NEW t \in Task, Enqueue(t)  PROVE NoEmptyMessages'
  <2>1. PICK h \in Session : h = home[t]
        BY <1>1 DEF Enqueue, Typed, HomeKnown
  <2>2. carry[t] # {} /\ carry[t] \in Batch
        BY <1>1 DEF Enqueue, HandsKnown, Hands, Typed, TypeOK
  <2>3. queue[h] \in Seq(Batch) /\ queue'[h] = Append(queue[h], carry[t])
        BY <1>1, <2>1 DEF Enqueue, Typed, TypeOK
  <2>4. \A q \in Session \ {h} : queue'[q] = queue[q]
        BY <1>1, <2>1 DEF Enqueue, Typed, TypeOK
  <2>5. \A n \in DOMAIN queue'[h] : queue'[h][n] # {}
        BY <2>2, <2>3 DEF NoEmptyMessages
  <2> QED BY <2>4, <2>5 DEF NoEmptyMessages
<1>2. ASSUME NEW t \in Task, Drain(t) \/ FlushDrain(t)  PROVE NoEmptyMessages'
  <2>1. PICK h \in Session : h = home[t] /\ DrainQueue(h)
        BY <1>2 DEF Drain, FlushDrain, Listens, Typed, HomeKnown
  <2>2. queue'[h] = <<>> /\ \A q \in Session \ {h} : queue'[q] = queue[q]
        BY <2>1, JoinedAfterDrain DEF Typed
  <2> QED BY <2>2 DEF NoEmptyMessages
<1>3. ASSUME queue' = queue  PROVE NoEmptyMessages'
      BY <1>3 DEF NoEmptyMessages
<1> QED BY <1>1, <1>2, <1>3 DEF Next, Step, Arrive, WakeRefused, Claim, LoseClaim, Launch,
           LoopExit, Release, NoChat, FlushNothing, SpawnFlush, Stop, Insert, Retire,
           EndClear, vars

LEMMA WhereaboutsStep ==
  ASSUME Typed, Whereabouts, NoEmptyMessages, [Next]_vars
  PROVE  Whereabouts' /\ NoEmptyMessages'
<1>0. NoEmptyMessages'
      BY NoEmptyStep DEF Whereabouts
<1> USE DEF GoTo, Carry, task, durable, history
<1>1. ASSUME NEW t \in Task, NEW i \in Item, NEW k \in Handler, NEW s \in Session,
             Arrive(t, i, k, s)
      PROVE  Whereabouts'
      BY <1>1, PlacedArrive
<1>2. ASSUME NEW t \in Task, WakeRefused(t) \/ NoChat(t)  PROVE Whereabouts'
  <2>1. "idle" \in Phase \ Hands
        BY DEF Phase, Hands
  <2> QED BY <1>2, <2>1, PlacedDrop DEF WakeRefused, NoChat
<1>3. ASSUME NEW t \in Task, Launch(t)  PROVE Whereabouts'
  <2>1. "looping" \in Phase \ Hands
        BY DEF Phase, Hands
  <2> QED BY <1>3, <2>1, PlacedDrop DEF Launch
<1>4. ASSUME NEW t \in Task, Enqueue(t)  PROVE Whereabouts'
      BY <1>4, PlacedEnqueue
<1>5. ASSUME NEW t \in Task, Drain(t)  PROVE Whereabouts'
      BY <1>5, PlacedDrain
<1>6. ASSUME NEW t \in Task, FlushDrain(t)  PROVE Whereabouts'
      BY <1>6, PlacedFlush
<1>7. ASSUME UNCHANGED <<queue, taken, lost, address, carry, home>>, HandsKnown'
      PROVE  Whereabouts'
      BY <1>7, PlacedKept DEF Whereabouts
<1>8. ASSUME NEW t \in Task,
             \/ Claim(t) \/ LoseClaim(t) \/ LoopExit(t) \/ Release(t)
             \/ FlushNothing(t) \/ SpawnFlush(t)
      PROVE  Whereabouts'
  <2>1. UNCHANGED <<queue, taken, lost, address, carry, home>>
        BY <1>8 DEF Claim, LoseClaim, LoopExit, Release, FlushNothing, SpawnFlush
  <2>2. HandsKnown'
        BY <1>8 DEF Claim, LoseClaim, LoopExit, Release, FlushNothing, SpawnFlush, AfterTurn,
           HandsKnown, Hands, Whereabouts, Typed, TypeOK
  <2> QED BY <1>7, <2>1, <2>2
<1>9. CASE \/ \E s \in Session : Stop(s)
           \/ \E r \in writes : Insert(r)
           \/ \E r \in clears : Retire(r) \/ EndClear(r)
           \/ UNCHANGED vars
  <2>1. UNCHANGED <<queue, taken, lost, address, carry, home>>
        BY <1>9 DEF Stop, Insert, Retire, EndClear, vars
  <2>2. HandsKnown'
        BY <1>9 DEF Stop, Insert, Retire, EndClear, vars, HandsKnown, Whereabouts
  <2> QED BY <1>0, <1>7, <2>1, <2>2
<1> QED BY <1>0, <1>1, <1>2, <1>3, <1>4, <1>5, <1>6, <1>8, <1>9 DEF Next, Step

-----------------------------------------------------------------------------
(* The rows behind the queue.  Only a message that was put back can have a *)
(* clear of its row still looking: nobody else says what was said before.  *)
(* A row that no clear is looking for is that of a message that waits.     *)
ClearsAreKnown ==
  \A r \in clears :
    /\ r.text \in Range(queue[r.session]) => r \in putBack
    /\ \A i \in r.text : /\ address[i] # NoSession
                         /\ \A t \in Task : i \in carry[t] => kind[t] = "flushed"
RowsAreQueued ==
  \A r \in rows \cup writes :
    /\ r.text # {}
    /\ r \in clears \cup unlucky \/ r.text \in Range(queue[r.session])
Rows == QueuedHaveARow /\ ClearsAreKnown /\ RowsAreQueued

LEMMA RowsOfWaiting ==
  ASSUME Typed, Whereabouts, RowsAreQueued
  PROVE  NoRowOutlivesDelivery
<1> SUFFICES ASSUME NEW r \in rows \cup writes, \A i \in r.text : taken[i] > 0,
                    r \notin clears \cup unlucky
             PROVE  FALSE
    BY DEF NoRowOutlivesDelivery
<1>1. r \in [session : Session, text : Batch]
      BY DEF Typed, TypeOK
<1>2. r.text \in Range(queue[r.session]) /\ r.text # {}
      BY DEF RowsAreQueued
<1>3. PICK i \in r.text : i \in Joined(r.session)
      BY <1>2 DEF Joined
<1>4. i \in Item /\ Waits(i)
      BY <1>1, <1>3 DEF Waits, Batch
<1>5. taken[i] = 0
      BY <1>4 DEF Whereabouts, Placed, Exclusive
<1> QED BY <1>5

LEMMA RowsEnqueue ==
  ASSUME Typed, Whereabouts, Rows, NEW t \in Task, Enqueue(t)
  PROVE  Rows'
<1>1. PICK h \in Session : h = home[t]
      BY DEF Enqueue, Typed, HomeKnown
<1>2. carry[t] \in Batch /\ carry[t] # {} /\ carry[t] \subseteq Item
      BY DEF Enqueue, Typed, TypeOK, Whereabouts, HandsKnown, Hands, Batch
<1>3. /\ Range(queue'[h]) = Range(queue[h]) \cup {carry[t]}
      /\ \A q \in Session \ {h} : queue'[q] = queue[q]
      BY <1>1, <1>2, JoinedAfterEnqueue DEF Enqueue, Typed
<1>4. /\ \A u \in Task : carry'[u] = IF u = t THEN {} ELSE carry[u]
      /\ UNCHANGED <<kind, rows, clears, unlucky, address>>
      /\ writes' = writes \cup {Row(h, carry[t])}
      /\ putBack' = IF kind[t] = "flushed" THEN putBack \cup {Row(h, carry[t])} ELSE putBack
      BY <1>1 DEF Enqueue, DurableTwin, Carry, Typed, TypeOK
<1>5. \A r \in clears \cup rows \cup writes : r \in [session : Session, text : Batch]
      BY DEF Typed, TypeOK
<1>6. QueuedHaveARow'
      BY <1>3, <1>4 DEF Rows, QueuedHaveARow, Row
<1>7. ASSUME NEW r \in clears, r.text \in Range(queue'[r.session])
      PROVE  r \in putBack'
  <2>1. CASE r.text \in Range(queue[r.session])
        BY <1>4, <2>1 DEF Rows, ClearsAreKnown
  <2>2. CASE r.text \notin Range(queue[r.session])
    <3>1. r.session = h /\ r.text = carry[t]
          BY <1>3, <1>5, <1>7, <2>2
    <3>2. r = Row(h, carry[t])
          BY <1>5, <3>1 DEF Row
    <3>3. kind[t] = "flushed"
          BY <1>2, <3>1 DEF Rows, ClearsAreKnown
    <3> QED BY <1>4, <3>2, <3>3
  <2> QED BY <2>1, <2>2
<1>8. ClearsAreKnown'
      BY <1>4, <1>7 DEF Rows, ClearsAreKnown
<1>9. ASSUME NEW r \in rows \cup writes
      PROVE  r.text # {} /\ (r \in clears \cup unlucky \/ r.text \in Range(queue'[r.session]))
      BY <1>3, <1>5 DEF Rows, RowsAreQueued
<1>10. Row(h, carry[t]).session = h /\ Row(h, carry[t]).text = carry[t]
      BY DEF Row
<1>11. RowsAreQueued'
      BY <1>2, <1>3, <1>4, <1>9, <1>10 DEF RowsAreQueued
<1> QED BY <1>6, <1>8, <1>11 DEF Rows

LEMMA RowsDrained ==
  ASSUME Typed, Whereabouts, Whereabouts', Rows, NEW t \in Task,
         Drain(t) \/ FlushDrain(t)
  PROVE  Rows'
<1>1. PICK h \in Session : h = home[t] /\ DrainQueue(h)
      BY DEF Drain, FlushDrain, Listens, Typed, HomeKnown
<1>2. /\ Range(queue'[h]) = {}
      /\ \A q \in Session \ {h} : queue'[q] = queue[q]
      /\ clears' = clears \cup Drained(h)
      BY <1>1, JoinedAfterDrain DEF Typed, DrainQueue
<1>3. UNCHANGED <<rows, writes, unlucky, putBack, address>>
      BY DEF Drain, FlushDrain, history
<1>4. \A r \in clears \cup rows \cup writes : r \in [session : Session, text : Batch]
      BY DEF Typed, TypeOK
<1>5. QueuedHaveARow'
      BY <1>2, <1>3 DEF Rows, QueuedHaveARow
<1>6. ASSUME NEW r \in clears'
      PROVE  r.text \in Range(queue'[r.session]) => r \in putBack
      BY <1>2, <1>4 DEF Rows, ClearsAreKnown, Drained, Row
<1>7. ASSUME NEW i \in Item, i \in Joined(h)
      PROVE  /\ address[i] # NoSession
             /\ \A u \in Task : i \in carry'[u] => kind'[u] = "flushed"
  <2>1. address[i] = h /\ Waits(i)
        BY <1>7 DEF Whereabouts, Placed, AtHome, Waits
  <2>2. ~Held(i)
        BY <2>1 DEF Whereabouts, Placed, Exclusive
  <2>3. \A u \in Task : i \in carry'[u] => kind'[u] = "flushed"
        BY <2>2 DEF Held, Drain, FlushDrain, Carry, task, Typed, TypeOK
  <2> QED BY <2>1, <2>3, SessionAssumption
<1>8. ASSUME NEW r \in clears', NEW i \in r.text
      PROVE  /\ address[i] # NoSession
             /\ \A u \in Task : i \in carry'[u] => kind'[u] = "flushed"
  <2>1. CASE r \in Drained(h)
    <3>1. i \in Joined(h)
          BY <2>1 DEF Drained, Row, Joined
    <3>2. Joined(h) \subseteq Item
          BY JoinedType DEF Typed, Batch
    <3> QED BY <1>7, <3>1, <3>2
  <2>2. CASE r \in clears
    <3>1. address[i] # NoSession /\ \A u \in Task : i \in carry[u] => kind[u] = "flushed"
          BY <2>2 DEF Rows, ClearsAreKnown
    <3>2. \A u \in Task : i \in carry'[u] => kind'[u] = "flushed"
          BY <3>1 DEF Drain, FlushDrain, Carry, task, Typed, TypeOK
    <3> QED BY <3>1, <3>2
  <2> QED BY <1>2, <2>1, <2>2
<1>9. ClearsAreKnown'
      BY <1>3, <1>6, <1>8 DEF ClearsAreKnown
<1>10. ASSUME NEW r \in rows \cup writes
       PROVE  r.text # {} /\ (r \in clears' \cup unlucky \/ r.text \in Range(queue'[r.session]))
  <2>1. r.text # {} /\ (r \in clears \cup unlucky \/ r.text \in Range(queue[r.session]))
        BY DEF Rows, RowsAreQueued
  <2>2. r.session = h /\ r.text \in Range(queue[h]) => r \in Drained(h)
        BY <1>4 DEF Drained, Row
  <2> QED BY <1>2, <1>4, <2>1, <2>2
<1>11. RowsAreQueued'
      BY <1>3, <1>10 DEF RowsAreQueued
<1> QED BY <1>5, <1>9, <1>11 DEF Rows

LEMMA RowsStep ==
  ASSUME Typed, Whereabouts, Whereabouts', Rows, [Next]_vars
  PROVE  Rows'
<1> USE DEF GoTo, Carry, task, durable, history
<1>0. /\ phase \in [Task -> Phase] /\ kind \in [Task -> Kind] /\ carry \in [Task -> Batch]
      /\ home \in [Task -> Session \cup {NoSession}]
      /\ address \in [Item -> Session \cup {NoSession}]
      BY DEF Typed, TypeOK
<1>1. ASSUME NEW t \in Task, NEW j \in Item, NEW k \in Handler, NEW s \in Session,
             Arrive(t, j, k, s)
      PROVE  Rows'
  <2>1. UNCHANGED <<queue, writes, rows, clears, unlucky, putBack>>
        BY <1>1 DEF Arrive
  <2>2. carry[t] = {}
        BY <1>1 DEF Arrive, Whereabouts, HandsKnown, Hands
  <2>3. ASSUME NEW r \in clears, NEW i \in r.text
        PROVE  /\ address'[i] # NoSession
               /\ \A u \in Task : i \in carry'[u] => kind'[u] = "flushed"
    <3>1. address[i] # NoSession /\ \A u \in Task : i \in carry[u] => kind[u] = "flushed"
          BY DEF Rows, ClearsAreKnown
    <3>2. i # j
          BY <1>1, <3>1 DEF Arrive
    <3> QED BY <1>0, <1>1, <2>2, <3>1, <3>2 DEF Arrive
  <2>4. ClearsAreKnown'
        BY <2>1, <2>3 DEF Rows, ClearsAreKnown
  <2> QED BY <2>1, <2>4 DEF Rows, QueuedHaveARow, RowsAreQueued
<1>2. ASSUME NEW t \in Task, Enqueue(t)  PROVE Rows'
      BY <1>2, RowsEnqueue
<1>3. ASSUME NEW t \in Task, Drain(t) \/ FlushDrain(t)  PROVE Rows'
      BY <1>3, RowsDrained
<1>4. ASSUME UNCHANGED <<queue, writes, rows, clears, unlucky, putBack, address, kind>>,
             \A u \in Task : carry'[u] \subseteq carry[u]
      PROVE  Rows'
  <2>1. ClearsAreKnown'
        BY <1>4 DEF Rows, ClearsAreKnown
  <2> QED BY <1>4, <2>1 DEF Rows, QueuedHaveARow, RowsAreQueued
<1>5. ASSUME NEW t \in Task,
             \/ WakeRefused(t) \/ Claim(t) \/ LoseClaim(t) \/ Launch(t) \/ LoopExit(t)
             \/ Release(t) \/ NoChat(t) \/ FlushNothing(t) \/ SpawnFlush(t)
      PROVE  Rows'
  <2>1. UNCHANGED <<queue, writes, rows, clears, unlucky, putBack, address, kind>>
        BY <1>5 DEF WakeRefused, Claim, LoseClaim, Launch, LoopExit, Release, NoChat,
           FlushNothing, SpawnFlush
  <2>2. \A u \in Task : carry'[u] \subseteq carry[u]
        BY <1>0, <1>5 DEF WakeRefused, Claim, LoseClaim, Launch, LoopExit, Release, NoChat,
           FlushNothing, SpawnFlush
  <2> QED BY <1>4, <2>1, <2>2
<1>6. ASSUME NEW s \in Session, Stop(s)  PROVE Rows'
  <2>1. /\ UNCHANGED <<queue, writes, rows, clears, unlucky, putBack, address, kind>>
        /\ carry' = carry
        BY <1>6 DEF Stop
  <2> QED BY <1>4, <2>1
<1>7. ASSUME NEW r \in writes, Insert(r)  PROVE Rows'
  <2>1. UNCHANGED <<queue, clears, putBack, address, kind, carry>>
        BY <1>7 DEF Insert
  <2>2. ClearsAreKnown'
        BY <2>1 DEF Rows, ClearsAreKnown
  <2>3. rows' \cup writes' \cup unlucky' = rows \cup writes \cup unlucky /\ unlucky \subseteq unlucky'
        BY <1>7 DEF Insert
  <2>4. rows' \cup writes' \subseteq rows \cup writes
        BY <1>7 DEF Insert
  <2>5. QueuedHaveARow'
        BY <2>1, <2>3 DEF Rows, QueuedHaveARow
  <2>6. RowsAreQueued'
        BY <2>1, <2>3, <2>4 DEF Rows, RowsAreQueued
  <2> QED BY <2>2, <2>5, <2>6 DEF Rows
<1>8. ASSUME NEW r \in clears, Retire(r)  PROVE Rows'
  <2>1. /\ UNCHANGED <<queue, writes, clears, unlucky, putBack, address, kind, carry>>
        /\ rows' = rows \ {r}
        BY <1>8 DEF Retire
  <2>2. ClearsAreKnown' /\ RowsAreQueued'
        BY <2>1 DEF Rows, ClearsAreKnown, RowsAreQueued
  <2>3. ASSUME NEW s \in Session, NEW b \in Range(queue[s])
        PROVE  Row(s, b) \in rows' \cup writes \cup unlucky \cup putBack
    <3>1. CASE Row(s, b) = r
      <4>1. r.text = b /\ r.session = s
            BY <3>1 DEF Row
      <4> QED BY <3>1, <4>1 DEF Rows, ClearsAreKnown
    <3>2. CASE Row(s, b) # r
          BY <2>1, <3>2 DEF Rows, QueuedHaveARow
    <3> QED BY <3>1, <3>2
  <2>4. QueuedHaveARow'
        BY <2>1, <2>3 DEF QueuedHaveARow, Row
  <2> QED BY <2>2, <2>4 DEF Rows
<1>9. ASSUME NEW r \in clears, EndClear(r)  PROVE Rows'
  <2>1. /\ UNCHANGED <<queue, writes, rows, putBack, address, kind, carry>>
        /\ clears' = clears \ {r} /\ unlucky \subseteq unlucky'
        /\ r \notin writes \cup rows \/ r \in unlucky'
        BY <1>9 DEF EndClear
  <2> QED BY <2>1 DEF Rows, QueuedHaveARow, ClearsAreKnown, RowsAreQueued
<1>10. CASE UNCHANGED vars
  <2>1. /\ UNCHANGED <<queue, writes, rows, clears, unlucky, putBack, address, kind>>
        /\ carry' = carry
        BY <1>10 DEF vars
  <2> QED BY <1>4, <2>1
<1> QED BY <1>1, <1>2, <1>3, <1>5, <1>6, <1>7, <1>8, <1>9, <1>10 DEF Next, Step

-----------------------------------------------------------------------------
(* The refinement.                                                         *)
OpenNow   == {home[t] : t \in {u \in Task : InLoop(u)}}
StatusNow == [i \in Item |-> Status(i)]

LEMMA CarriedWaits ==
  ASSUME Typed, Whereabouts, NEW t \in Task, NEW s \in Session, home[t] = s
  PROVE  carry[t] \in SUBSET Mailbox!Waiting(s)
<1> SUFFICES ASSUME NEW i \in carry[t]
             PROVE  i \in Item /\ Status(i) = "waiting" /\ address[i] = s
    BY DEF Mailbox!Waiting
<1>1. i \in Item /\ Held(i)
      BY DEF Typed, TypeOK, Batch, Held
<1>2. address[i] = s /\ taken[i] = 0 /\ i \notin lost
      BY <1>1 DEF Whereabouts, Placed, Exclusive, AtHome
<1> QED BY <1>1, <1>2, SessionAssumption DEF Status

LEMMA QueuedWaits ==
  ASSUME Typed, Whereabouts, NEW s \in Session
  PROVE  Joined(s) \in SUBSET Mailbox!Waiting(s)
<1> SUFFICES ASSUME NEW i \in Joined(s)
             PROVE  i \in Item /\ Status(i) = "waiting" /\ address[i] = s
    BY DEF Mailbox!Waiting
<1>1. i \in Item /\ Waits(i)
      BY JoinedType DEF Typed, Batch, Waits
<1>2. address[i] = s /\ taken[i] = 0 /\ i \notin lost
      BY <1>1 DEF Whereabouts, Placed, Exclusive, AtHome
<1> QED BY <1>1, <1>2, SessionAssumption DEF Status

LEMMA SettleTaken ==
  ASSUME Typed, NEW s \in Session, NEW B \in SUBSET Mailbox!Waiting(s),
         HandOver(B), UNCHANGED <<address, lost>>
  PROVE  Mailbox!Settle(B, "taken")
<1>1. ASSUME NEW i \in Item
      PROVE  Status(i)' = IF i \in B THEN "taken" ELSE Status(i)
  <2>1. taken[i] \in Nat /\ taken'[i] = IF i \in B THEN taken[i] + 1 ELSE taken[i]
        BY DEF HandOver, Typed, TypeOK
  <2>2. i \in B => address[i] # NoSession /\ i \notin lost
        BY SessionAssumption DEF Mailbox!Waiting, Status
  <2>3. CASE i \in B
    <3>1. taken'[i] > 0 /\ address'[i] # NoSession /\ i \notin lost'
          BY <2>1, <2>2, <2>3
    <3> QED BY <2>3, <3>1 DEF Status
  <2>4. CASE i \notin B
    <3>1. taken'[i] = taken[i]
          BY <2>1, <2>4
    <3> QED BY <2>4, <3>1 DEF Status
  <2> QED BY <2>3, <2>4
<1> QED BY <1>1 DEF Mailbox!Settle

LEMMA SettleDropped ==
  ASSUME Typed, NEW s \in Session, NEW B \in SUBSET Mailbox!Waiting(s),
         lost' = lost \cup B, UNCHANGED <<address, taken>>
  PROVE  Mailbox!Settle(B, "dropped")
<1>1. ASSUME NEW i \in Item
      PROVE  Status(i)' = IF i \in B THEN "dropped" ELSE Status(i)
  <2>1. i \in B => Status(i) = "waiting" /\ address[i] # NoSession
        BY SessionAssumption DEF Mailbox!Waiting
  <2> QED BY <2>1 DEF Status
<1> QED BY <1>1 DEF Mailbox!Settle

LEMMA MailboxStutters ==
  ASSUME UNCHANGED <<address, taken, lost>>, OpenNow' = OpenNow
  PROVE  UNCHANGED Mailbox!mailboxVars
<1>1. \A i \in Item : Status(i)' = Status(i)
      BY DEF Status
<1> QED BY <1>1 DEF Mailbox!mailboxVars, OpenNow

LEMMA MailboxArrive ==
  ASSUME Typed, Whereabouts, NEW t \in Task, NEW j \in Item, NEW k \in Handler, NEW s \in Session,
         Arrive(t, j, k, s)
  PROVE  Mailbox!Submit(j, s)
<1>1. taken[j] = 0 /\ j \notin lost /\ address[j] = NoSession
  <2>1. Exclusive(j) /\ taken[j] \in Nat /\ address[j] = NoSession
        BY DEF Whereabouts, Placed, Arrive, Typed, TypeOK
  <2> QED BY <2>1 DEF Exclusive
<1>2. ASSUME NEW i \in Item
      PROVE  Status(i)' = IF i = j THEN "waiting" ELSE Status(i)
      BY <1>1, SessionAssumption DEF Arrive, Status, Typed, TypeOK
<1>3. OpenNow' = OpenNow
      BY DEF Arrive, OpenNow, InLoop, GoTo, Typed, TypeOK
<1> QED BY <1>1, <1>2, <1>3 DEF Mailbox!Submit, OpenNow, Arrive, Status

LEMMA RefinementStep ==
  ASSUME Typed, Whereabouts, [Next]_vars
  PROVE  [Mailbox!Next]_(Mailbox!mailboxVars)
<1> DEFINE Allowed == [Mailbox!Next]_(Mailbox!mailboxVars)
<1>0. Control
      BY DEF Control, Typed, TypeOK
<1> USE <1>0 DEF Control, HomeKnown, GoTo, Carry, task, durable, history
<1>1. ASSUME NEW t \in Task, NEW j \in Item, NEW k \in Handler, NEW s \in Session,
             Arrive(t, j, k, s)
      PROVE  Allowed
      BY <1>1, MailboxArrive DEF Mailbox!Next
<1>2. ASSUME NEW t \in Task, WakeRefused(t) \/ NoChat(t)  PROVE Allowed
  <2>1. PICK h \in Session : h = home[t]
        BY <1>2 DEF WakeRefused, NoChat
  <2>2. carry[t] \in SUBSET Mailbox!Waiting(h)
        BY <2>1, CarriedWaits
  <2>3. Mailbox!Settle(carry[t], "dropped") /\ address' = address
        BY <1>2, <2>2, SettleDropped DEF WakeRefused, NoChat
  <2>4. OpenNow' = OpenNow
        BY <1>2 DEF WakeRefused, NoChat, OpenNow, InLoop
  <2>5. Mailbox!Drop(h, carry[t])
        BY <2>2, <2>3, <2>4 DEF Mailbox!Drop, OpenNow
  <2> QED BY <2>2, <2>5 DEF Mailbox!Next
<1>3. ASSUME NEW t \in Task, Launch(t)  PROVE Allowed
  <2>1. PICK h \in Session : h = home[t]
        BY <1>3 DEF Launch
  <2>2. carry[t] \in SUBSET Mailbox!Waiting(h)
        BY <2>1, CarriedWaits
  <2>3. Mailbox!Settle(carry[t], "taken") /\ address' = address
        BY <1>3, <2>2, SettleTaken DEF Launch
  <2>4. OpenNow' = OpenNow \cup {h}
        BY <1>3, <2>1 DEF Launch, OpenNow, InLoop
  <2>5. CASE h \in OpenNow
    <3>1. Mailbox!TakeInto(h, carry[t])
          BY <2>2, <2>3, <2>4, <2>5 DEF Mailbox!TakeInto, OpenNow
    <3> QED BY <2>2, <3>1 DEF Mailbox!Next
  <2>6. CASE h \notin OpenNow
    <3>1. Mailbox!OpenTurn(h, carry[t])
          BY <2>2, <2>3, <2>4, <2>6 DEF Mailbox!OpenTurn, OpenNow
    <3>2. \E B \in SUBSET Mailbox!Waiting(h) : Mailbox!OpenTurn(h, B)
          BY <2>2, <3>1 DEF Mailbox!OpenTurn
    <3>3. Mailbox!Next
          BY <3>2 DEF Mailbox!Next
    <3> QED BY <3>3
  <2> QED BY <2>5, <2>6
<1>4. ASSUME NEW t \in Task, Drain(t)  PROVE Allowed
  <2>1. PICK h \in Session : h = home[t]
        BY <1>4 DEF Drain, Listens
  <2>2. Joined(h) \in SUBSET Mailbox!Waiting(h)
        BY QueuedWaits
  <2>3. Mailbox!Settle(Joined(h), "taken") /\ address' = address
        BY <1>4, <2>1, <2>2, SettleTaken DEF Drain
  <2>4. OpenNow' = OpenNow /\ h \in OpenNow
        BY <1>4, <2>1 DEF Drain, OpenNow, InLoop, Listens
  <2>5. Mailbox!TakeInto(h, Joined(h))
        BY <2>2, <2>3, <2>4 DEF Mailbox!TakeInto, OpenNow
  <2> QED BY <2>2, <2>5 DEF Mailbox!Next
<1>5. ASSUME NEW t \in Task, Release(t)  PROVE Allowed
  <2>1. PICK h \in Session : h = home[t]
        BY <1>5 DEF Release
  <2>2. UNCHANGED <<address, taken, lost>>
        BY <1>5 DEF Release
  <2>3. OpenNow' = OpenNow \/ OpenNow' = OpenNow \ {h}
    <3>1. \A u \in Task : InLoop(u)' <=> InLoop(u) /\ u # t
          BY <1>5 DEF Release, InLoop, AfterTurn
    <3>2. home' = home
          BY <1>5 DEF Release
    <3> QED BY <2>1, <3>1, <3>2 DEF OpenNow
  <2>4. h \in OpenNow
        BY <1>5, <2>1 DEF Release, OpenNow, InLoop
  <2>5. CASE OpenNow' = OpenNow
        BY <2>2, <2>5, MailboxStutters
  <2>6. CASE OpenNow' = OpenNow \ {h}
    <3>1. \A i \in Item : Status(i)' = Status(i)
          BY <2>2 DEF Status
    <3>2. Mailbox!CloseTurn(h)
          BY <2>2, <2>4, <2>6, <3>1 DEF Mailbox!CloseTurn, OpenNow
    <3> QED BY <3>2 DEF Mailbox!Next
  <2> QED BY <2>3, <2>5, <2>6
<1>6. ASSUME NEW t \in Task,
             \/ Claim(t) \/ LoseClaim(t) \/ Enqueue(t) \/ LoopExit(t)
             \/ FlushNothing(t) \/ SpawnFlush(t) \/ FlushDrain(t)
      PROVE  Allowed
  <2>1. UNCHANGED <<address, taken, lost>>
        BY <1>6 DEF Claim, LoseClaim, Enqueue, LoopExit, FlushNothing, SpawnFlush, FlushDrain
  <2>2. home' = home /\ \A u \in Task : InLoop(u)' <=> InLoop(u)
        BY <1>6 DEF Claim, LoseClaim, Enqueue, LoopExit, FlushNothing, SpawnFlush, FlushDrain,
           InLoop
  <2>3. OpenNow' = OpenNow
        BY <2>2 DEF OpenNow
  <2> QED BY <2>1, <2>3, MailboxStutters
<1>7. CASE \/ \E s \in Session : Stop(s)
           \/ \E r \in writes : Insert(r)
           \/ \E r \in clears : Retire(r) \/ EndClear(r)
           \/ UNCHANGED vars
  <2>1. UNCHANGED <<address, taken, lost, phase, home>>
        BY <1>7 DEF Stop, Insert, Retire, EndClear, vars
  <2>2. OpenNow' = OpenNow
        BY <2>1 DEF OpenNow, InLoop
  <2>3. UNCHANGED <<address, taken, lost>>
        BY <2>1
  <2> QED BY <2>2, <2>3, MailboxStutters
<1> QED BY <1>1, <1>2, <1>3, <1>4, <1>5, <1>6, <1>7 DEF Next, Step

-----------------------------------------------------------------------------
(* The inductive invariant.                                                *)
Inv ==
  /\ Typed
  /\ OneTurnPerSlot /\ StopReachesTheTurn
  /\ WaitingHasATaker
  /\ Whereabouts /\ NoEmptyMessages
  /\ Rows

LEMMA InitInv == Init => Inv
<1> SUFFICES ASSUME Init  PROVE Inv
    OBVIOUS
<1>1. Typed
      BY TypedInit
<1>2. OneTurnPerSlot /\ StopReachesTheTurn
      BY DEF Init, OneTurnPerSlot, StopReachesTheTurn, Holds, Runs
<1>3. \A s \in Session : Range(queue[s]) = {} /\ Joined(s) = {}
      BY RangeEmpty DEF Init, Joined
<1>4. WaitingHasATaker
      BY <1>3 DEF WaitingHasATaker
<1>5. NoEmptyMessages
      BY DEF Init, NoEmptyMessages
<1>6. ASSUME NEW i \in Item  PROVE Placed(i)
  <2>1. QueuedOnce(i)
        BY DEF Init, QueuedOnce
  <2>2. ~Held(i) /\ ~Waits(i) /\ taken[i] = 0 /\ i \notin lost /\ address[i] = NoSession
        BY <1>3 DEF Init, Held, Waits
  <2>3. Exclusive(i)
        BY <2>2 DEF Exclusive
  <2> QED BY <1>3, <2>1, <2>2, <2>3 DEF Placed, CarriedOnce, AtHome, Held
<1>7. HandsKnown
      BY DEF Init, HandsKnown, Hands
<1>8. Rows
      BY <1>3 DEF Init, Rows, QueuedHaveARow, ClearsAreKnown, RowsAreQueued
<1> QED BY <1>1, <1>2, <1>4, <1>5, <1>6, <1>7, <1>8 DEF Inv, Whereabouts

LEMMA NextInv == Inv /\ [Next]_vars => Inv'
<1> SUFFICES ASSUME Inv, [Next]_vars  PROVE Inv'
    OBVIOUS
<1>0. Control
      BY DEF Control, Inv, Typed, TypeOK
<1>1. Typed'
      BY TypedStep DEF Inv
<1>2. OneTurnPerSlot' /\ StopReachesTheTurn'
      BY <1>0, SlotStep DEF Inv
<1>3. WaitingHasATaker'
      BY TakerStep DEF Inv
<1>4. Whereabouts' /\ NoEmptyMessages'
      BY WhereaboutsStep DEF Inv
<1>5. Rows'
      BY <1>4, RowsStep DEF Inv
<1> QED BY <1>1, <1>2, <1>3, <1>4, <1>5 DEF Inv

LEMMA Invariance == Spec => []Inv
<1> QED BY InitInv, NextInv, PTL DEF Spec

(* Every variable of the two surfaces keeps its type.                      *)
THEOREM FollowupTypes == Spec => []TypeOK
<1>1. Inv => TypeOK
      BY DEF Inv, Typed
<1> QED BY <1>1, Invariance, PTL

(* One turn per session among those that claim the slot, and the slot is   *)
(* marked exactly while one of them holds it, on either surface.           *)
THEOREM OneTurnPerSlotCorrect == Spec => []OneTurnPerSlot
<1>1. Inv => OneTurnPerSlot
      BY DEF Inv
<1> QED BY <1>1, Invariance, PTL

(* /stop never cancels a token that another turn of the session left.      *)
THEOREM StopsArrive == Spec => []StopReachesTheTurn
<1>1. Inv => StopReachesTheTurn
      BY DEF Inv
<1> QED BY <1>1, Invariance, PTL

(* Claims, lost claims, drains and flushes lose and double no message.     *)
THEOREM NothingIsLostOrDoubled == Spec => []ExactlyOnePlace
<1>1. Inv => ExactlyOnePlace
      BY PlacesAreFacts DEF Inv, Typed, Whereabouts
<1> QED BY <1>1, Invariance, PTL

(* The named gaps are the only ways to strand a follow-up.                 *)
THEOREM NobodyIsStranded == Spec => []WaitingHasATaker
<1>1. Inv => WaitingHasATaker
      BY DEF Inv
<1> QED BY <1>1, Invariance, PTL

(* A restart finds what waits in a queue.                                  *)
THEOREM WaitingIsDurable == Spec => []QueuedHaveARow
<1>1. Inv => QueuedHaveARow
      BY DEF Inv, Rows
<1> QED BY <1>1, Invariance, PTL

(* A restart does not deliver again what a loop has already taken.         *)
THEOREM DeliveredIsCleared == Spec => []NoRowOutlivesDelivery
<1>1. Inv => NoRowOutlivesDelivery
      BY RowsOfWaiting DEF Inv, Rows
<1> QED BY <1>1, Invariance, PTL

(* WhatsApp and Discord keep the promise of the session mailbox.           *)
THEOREM SurfacesAreMailboxes == Spec => RefinesMailbox
<1>1. Init => Mailbox!Init
  <2> SUFFICES ASSUME Init  PROVE Mailbox!Init
      OBVIOUS
  <2>1. \A i \in Item : Status(i) = "new"
        BY DEF Init, Status
  <2>2. OpenNow = {}
        BY DEF Init, OpenNow, InLoop
  <2> QED BY <2>1, <2>2 DEF Init, Mailbox!Init, OpenNow
<1>2. Inv /\ [Next]_vars => [Mailbox!Next]_(Mailbox!mailboxVars)
      BY RefinementStep DEF Inv
<1> QED BY <1>1, <1>2, Invariance, PTL DEF Spec, RefinesMailbox, Mailbox!Spec
=============================================================================
