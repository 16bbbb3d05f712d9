------------------------ MODULE TelegramPlacesProofs ------------------------
(***************************************************************************)
(* Where the items of TelegramTurns are, and that the surface keeps the    *)
(* promise of the session mailbox, for any sessions, items and tasks.      *)
(*                                                                         *)
(* Whereabouts is the invariant.  That an item is in one place only        *)
(* depends on what a task in each phase carries (Hands): a handler that    *)
(* lost its claim queues the head of what it carries and drops the rest.   *)
(***************************************************************************)
EXTENDS TelegramTurnsProofs, FiniteSetTheorems

-----------------------------------------------------------------------------
(* Sequences that name no item twice.                                      *)
LEMMA EmptyOnce == Range(<<>>) = {} /\ IsInjective(<<>>)
BY DEF Range, IsInjective

LEMMA OneOnce ==
  ASSUME NEW q \in Seq(Item), Len(q) = 1
  PROVE  /\ q # <<>> /\ Head(q) \in Item
         /\ Range(q) = {Head(q)} /\ IsInjective(q)
BY DEF Range, IsInjective

LEMMA TailOfOne ==
  ASSUME NEW q \in Seq(Item), Len(q) = 1
  PROVE  Tail(q) = <<>>
<1>1. q # <<>>
      BY EmptySeq
<1>2. Tail(q) \in Seq(Item) /\ Len(Tail(q)) = 0
      BY <1>1, HeadTailProperties
<1>. QED  BY <1>2, EmptySeq

LEMMA AppendOnce ==
  ASSUME NEW q \in Seq(Item), NEW i \in Item
  PROVE  /\ Range(Append(q, i)) = Range(q) \cup {i}
         /\ IsInjective(q) /\ i \notin Range(q) => IsInjective(Append(q, i))
<1>1. /\ DOMAIN Append(q, i) = DOMAIN q \cup {Len(q) + 1}
      /\ \A n \in DOMAIN q : Append(q, i)[n] = q[n]
      /\ Append(q, i)[Len(q) + 1] = i
      OBVIOUS
<1>. DEFINE p == Append(q, i)
            m == Len(q) + 1
<1>. HIDE DEF p, m
<1>2. DOMAIN p = DOMAIN q \cup {m} /\ p[m] = i /\ \A n \in DOMAIN q : p[n] = q[n]
      BY <1>1 DEF p, m
<1>3. Range(p) = Range(q) \cup {i}
      BY <1>2 DEF Range
<1>4. IsInjective(q) /\ i \notin Range(q) => IsInjective(p)
      BY <1>2 DEF Range, IsInjective
<1>. QED  BY <1>3, <1>4 DEF p

LEMMA TailOnce ==
  ASSUME NEW q \in Seq(Item), q # <<>>, IsInjective(q)
  PROVE  /\ Head(q) \in Range(q)
         /\ Range(Tail(q)) = Range(q) \ {Head(q)}
         /\ IsInjective(Tail(q))
<1>1. /\ Len(q) \in Nat \ {0} /\ DOMAIN q = 1..Len(q) /\ Head(q) = q[1]
      /\ DOMAIN Tail(q) = 1..(Len(q) - 1)
      /\ \A n \in 1..(Len(q) - 1) : Tail(q)[n] = q[n + 1]
      OBVIOUS
<1>2. Head(q) \in Range(q)
      BY <1>1 DEF Range
<1>3. IsInjective(Tail(q))
      BY <1>1 DEF IsInjective
<1>4. ASSUME NEW x \in Range(Tail(q))  PROVE x \in Range(q) /\ x # Head(q)
      BY <1>1, <1>4 DEF Range, IsInjective
<1>5. ASSUME NEW x \in Range(q), x # Head(q)  PROVE x \in Range(Tail(q))
  <2>1. PICK n \in 1..Len(q) : x = q[n]
        BY <1>1 DEF Range
  <2>2. n - 1 \in 1..(Len(q) - 1) /\ Tail(q)[n - 1] = x
        BY <1>1, <1>5, <2>1
  <2>. QED  BY <1>1, <2>2 DEF Range
<1>. QED  BY <1>2, <1>3, <1>4, <1>5

-----------------------------------------------------------------------------
(* Where the items are, as separate facts.                                 *)
InHand(i, t)     == i \in Range(carry[t])
InQueue(i, s, o) == i \in Range(queue[s][o])
Held(i)  == \E t \in Task : InHand(i, t)
Waits(i) == \E s \in Session, o \in Origin : InQueue(i, s, o)

HeldOnce(i)   == \A t, u \in Task : InHand(i, t) /\ InHand(i, u) => t = u
QueuedOnce(i) ==
  \A s \in Session : \A o, p \in Origin : InQueue(i, s, o) /\ InQueue(i, s, p) => o = p
AtHome(i) ==
  /\ \A t \in Task : InHand(i, t) => address[i] = home[t]
  /\ \A s \in Session, o \in Origin : InQueue(i, s, o) => address[i] = s
Exclusive(i) ==
  /\ Held(i) => ~Waits(i) /\ injected[i] = 0 /\ i \notin lost /\ i \notin stopped
  /\ Waits(i) => injected[i] = 0 /\ i \notin lost /\ i \notin stopped
  /\ injected[i] > 0 => injected[i] = 1 /\ i \notin lost /\ i \notin stopped
  /\ i \in lost => i \notin stopped
  /\ address[i] # NoSession <=>
       Held(i) \/ Waits(i) \/ injected[i] > 0 \/ i \in lost \/ i \in stopped
Placed(i) == HeldOnce(i) /\ QueuedOnce(i) /\ AtHome(i) /\ Exclusive(i)

(* No sequence names an item twice.                                        *)
NoRepeats ==
  /\ \A t \in Task : IsInjective(carry[t])
  /\ \A s \in Session, o \in Origin : IsInjective(queue[s][o])

(* What a task carries: nothing while it runs, one item before a claim     *)
(* that only a resumed turn makes for several.                             *)
Hands ==
  \A t \in Task :
    /\ phase[t] \notin {"arrived", "busy", "reclaim", "requeue"} => carry[t] = <<>>
    /\ phase[t] = "arrived" /\ kind[t] # "resumed" => Len(carry[t]) = 1
    /\ phase[t] = "busy" => Len(carry[t]) = 1

Whereabouts == Hands /\ NoRepeats /\ \A i \in Item : Placed(i)

Ground == Turns /\ Whereabouts

LEMMA InItems ==
  \A i : \A s \in Session :
    i \in ItemsOf(queue[s]) <=> \E o \in Origin : InQueue(i, s, o)
BY DEF ItemsOf, InQueue

LEMMA SeqTypes ==
  ASSUME Ground
  PROVE  /\ \A t \in Task : carry[t] \in Seq(Item) /\ Range(carry[t]) \subseteq Item
         /\ \A s \in Session, o \in Origin :
              queue[s][o] \in Seq(Item) /\ Range(queue[s][o]) \subseteq Item
         /\ \A i \in Item : injected[i] \in Nat
BY RangeOfItems DEF Ground, Turns, TypeOK

(* The count of ExactlyOnePlace is 1 for an item that is in one place.     *)
LEMMA CarriersCount ==
  ASSUME Ground, NEW i \in Item
  PROVE  Cardinality(Carriers(i)) = IF Held(i) THEN 1 ELSE 0
<1>1. Placed(i) /\ NoRepeats
      BY DEF Ground, Whereabouts
<1>2. CASE ~Held(i)
  <2>1. Carriers(i) = {}
        BY <1>2 DEF Carriers, Held, InHand, Range
  <2>. QED  BY <1>2, <2>1, FS_EmptySet
<1>3. CASE Held(i)
  <2>1. PICK t \in Task : InHand(i, t)
        BY <1>3 DEF Held
  <2>2. PICK n \in DOMAIN carry[t] : carry[t][n] = i
        BY <2>1 DEF InHand, Range
  <2>3. ASSUME NEW u \in Task, NEW m \in DOMAIN carry[u], carry[u][m] = i
        PROVE  u = t /\ m = n
    <3>1. InHand(i, u)
          BY <2>3 DEF InHand, Range
    <3>2. u = t
          BY <1>1, <2>1, <3>1 DEF Placed, HeldOnce
    <3>. QED  BY <1>1, <2>2, <2>3, <3>2 DEF NoRepeats, IsInjective
  <2>4. Carriers(i) = {<<t, n>>}
        BY <2>2, <2>3 DEF Carriers
  <2>. QED  BY <1>3, <2>4, FS_Singleton
<1>. QED  BY <1>2, <1>3

LEMMA QueueSlotsCount ==
  ASSUME Ground, NEW i \in Item
  PROVE  Cardinality(QueueSlots(i)) = IF Waits(i) THEN 1 ELSE 0
<1>1. Placed(i) /\ NoRepeats
      BY DEF Ground, Whereabouts
<1>2. CASE ~Waits(i)
  <2>1. QueueSlots(i) = {}
        BY <1>2 DEF QueueSlots, Waits, InQueue, Range
  <2>. QED  BY <1>2, <2>1, FS_EmptySet
<1>3. CASE Waits(i)
  <2>1. PICK s \in Session, o \in Origin : InQueue(i, s, o)
        BY <1>3 DEF Waits
  <2>2. PICK n \in DOMAIN queue[s][o] : queue[s][o][n] = i
        BY <2>1 DEF InQueue, Range
  <2>3. ASSUME NEW r \in Session, NEW p \in Origin, NEW m \in DOMAIN queue[r][p],
               queue[r][p][m] = i
        PROVE  r = s /\ p = o /\ m = n
    <3>1. InQueue(i, r, p)
          BY <2>3 DEF InQueue, Range
    <3>2. r = s /\ p = o
          BY <1>1, <2>1, <3>1 DEF Placed, AtHome, QueuedOnce
    <3>. QED  BY <1>1, <2>2, <2>3, <3>2 DEF NoRepeats, IsInjective
  <2>4. QueueSlots(i) = {<<<<s, o>>, n>>}
    <3>1. ASSUME NEW c \in Session \X Origin, NEW m \in DOMAIN queue[c[1]][c[2]],
                 queue[c[1]][c[2]][m] = i
          PROVE  c = <<s, o>> /\ m = n
          BY <2>3, <3>1
    <3>2. <<s, o>> \in Session \X Origin
          OBVIOUS
    <3>. QED  BY <2>2, <3>1, <3>2 DEF QueueSlots
  <2>. QED  BY <1>3, <2>4, FS_Singleton
<1>. QED  BY <1>2, <1>3

LEMMA PlacesAreFacts == Ground => ExactlyOnePlace
<1>. SUFFICES ASSUME Ground, NEW i \in Item
              PROVE  Copies(i) = IF address[i] = NoSession THEN 0 ELSE 1
     BY DEF ExactlyOnePlace
<1>1. Exclusive(i) /\ injected[i] \in Nat
      BY SeqTypes DEF Ground, Whereabouts, Placed
<1>2. /\ Cardinality(Carriers(i)) = IF Held(i) THEN 1 ELSE 0
      /\ Cardinality(QueueSlots(i)) = IF Waits(i) THEN 1 ELSE 0
      BY CarriersCount, QueueSlotsCount
<1>. QED  BY <1>1, <1>2 DEF Exclusive, Copies

-----------------------------------------------------------------------------
(* What a step does to the places of one item i.  A step that moves        *)
(* nothing; ...                                                            *)
LEMMA PlacedKept ==
  ASSUME NEW i, Placed(i),
         \A t \in Task : InHand(i, t)' <=> InHand(i, t),
         \A s \in Session, o \in Origin : InQueue(i, s, o)' <=> InQueue(i, s, o),
         \A t \in Task : InHand(i, t) => home'[t] = home[t],
         address'[i] = address[i], injected'[i] = injected[i],
         i \in lost' <=> i \in lost, i \in stopped' <=> i \in stopped
  PROVE  Placed(i)'
<1>1. (Held(i)' <=> Held(i)) /\ (Waits(i)' <=> Waits(i))
      BY DEF Held, Waits
<1>. QED  BY <1>1 DEF Placed, HeldOnce, QueuedOnce, AtHome, Exclusive

(* ... one that gives a new item to a task; ...                            *)
LEMMA PlacedArrive ==
  ASSUME NEW i, Placed(i), address[i] = NoSession, injected[i] \in Nat,
         NEW t \in Task, NEW s \in Session,
         \A u \in Task : InHand(i, u)' <=> u = t,
         \A r \in Session, o \in Origin : InQueue(i, r, o)' <=> InQueue(i, r, o),
         home'[t] = s, address'[i] = s,
         injected'[i] = injected[i], lost' = lost, stopped' = stopped
  PROVE  Placed(i)'
<1>1. ~Waits(i) /\ injected[i] = 0 /\ i \notin lost /\ i \notin stopped
      BY DEF Placed, Exclusive
<1>2. Held(i)' /\ ~Waits(i)'
      BY <1>1 DEF Held, Waits
<1>. QED  BY <1>1, <1>2, SessionAssumption
          DEF Placed, HeldOnce, QueuedOnce, AtHome, Exclusive, Waits

(* ... one that takes it out of a task's hands for good: into a loop, or   *)
(* away; ...                                                               *)
LEMMA PlacedLeavesHand ==
  ASSUME NEW i, Placed(i), NEW t \in Task, InHand(i, t),
         \A u \in Task : InHand(i, u)' <=> InHand(i, u) /\ u # t,
         \A s \in Session, o \in Origin : InQueue(i, s, o)' <=> InQueue(i, s, o),
         address'[i] = address[i], stopped' = stopped,
         \/ injected'[i] = injected[i] + 1 /\ (i \in lost' <=> i \in lost)
         \/ injected'[i] = injected[i] /\ i \in lost'
  PROVE  Placed(i)'
<1>1. Held(i) /\ ~Held(i)' /\ (Waits(i)' <=> Waits(i))
      BY DEF Placed, HeldOnce, Held, Waits
<1>. QED  BY <1>1 DEF Placed, HeldOnce, QueuedOnce, AtHome, Exclusive, Held

(* ... one that queues what a task held; ...                               *)
LEMMA PlacedQueued ==
  ASSUME NEW i, Placed(i), NEW t \in Task, InHand(i, t),
         NEW s \in Session, s = home[t], NEW o \in Origin,
         \A u \in Task : InHand(i, u)' <=> InHand(i, u) /\ u # t,
         \A r \in Session, p \in Origin :
           InQueue(i, r, p)' <=> InQueue(i, r, p) \/ (r = s /\ p = o),
         address'[i] = address[i], injected'[i] = injected[i],
         lost' = lost, stopped' = stopped
  PROVE  Placed(i)'
<1>1. Held(i) /\ ~Held(i)' /\ ~Waits(i) /\ Waits(i)'
      BY DEF Placed, HeldOnce, Held, Waits, Exclusive
<1>2. address[i] = s
      BY DEF Placed, AtHome
<1>3. \A r \in Session, p \in Origin : ~InQueue(i, r, p)
      BY <1>1 DEF Waits
<1>4. HeldOnce(i)' /\ QueuedOnce(i)' /\ AtHome(i)'
      BY <1>1, <1>2, <1>3 DEF HeldOnce, QueuedOnce, AtHome, Held
<1>5. Exclusive(i)'
      BY <1>1 DEF Placed, Exclusive
<1>. QED  BY <1>4, <1>5 DEF Placed

(* ... one that empties a queue into a loop, or drops it at a /stop; ...   *)
LEMMA PlacedLeavesQueue ==
  ASSUME NEW i, Placed(i), NEW s \in Session, NEW o \in Origin, InQueue(i, s, o),
         \A t \in Task : InHand(i, t)' <=> InHand(i, t),
         \A r \in Session, p \in Origin : InQueue(i, r, p)' <=> InQueue(i, r, p) /\ r # s,
         address'[i] = address[i], lost' = lost,
         \/ injected'[i] = injected[i] + 1 /\ (i \in stopped' <=> i \in stopped)
         \/ injected'[i] = injected[i] /\ i \in stopped'
  PROVE  Placed(i)'
<1>1. Waits(i) /\ address[i] = s /\ (Held(i)' <=> Held(i))
      BY DEF Placed, AtHome, Waits, Held
<1>2. \A r \in Session, p \in Origin : ~InQueue(i, r, p)'
      BY <1>1 DEF Placed, AtHome
<1>3. ~Waits(i)' /\ ~Held(i)'
      BY <1>1, <1>2 DEF Waits, Placed, Exclusive
<1>4. HeldOnce(i)' /\ QueuedOnce(i)' /\ AtHome(i)'
      BY <1>2, <1>3 DEF HeldOnce, QueuedOnce, AtHome, Held
<1>5. Exclusive(i)'
      BY <1>1, <1>3 DEF Placed, Exclusive
<1>. QED  BY <1>4, <1>5 DEF Placed

(* ... and the flush, which takes it from the queue into a task's hands.   *)
LEMMA PlacedFlushed ==
  ASSUME NEW i, Placed(i), NEW s \in Session, NEW o \in Origin, InQueue(i, s, o),
         NEW t \in Task, home'[t] = s,
         \A u \in Task : InHand(i, u)' <=> InHand(i, u) \/ u = t,
         \A r \in Session, p \in Origin : InQueue(i, r, p)' <=> InQueue(i, r, p) /\ r # s,
         UNCHANGED <<address, injected, lost, stopped>>
  PROVE  Placed(i)'
<1>1. Waits(i) /\ address[i] = s /\ ~Held(i)
      BY DEF Placed, AtHome, Waits, Exclusive
<1>2. \A r \in Session, p \in Origin : ~InQueue(i, r, p)'
      BY <1>1 DEF Placed, AtHome
<1>3. ~Waits(i)' /\ Held(i)' /\ \A u \in Task : ~InHand(i, u)
      BY <1>1, <1>2 DEF Waits, Held
<1>4. HeldOnce(i)' /\ QueuedOnce(i)' /\ AtHome(i)'
      BY <1>1, <1>2, <1>3 DEF HeldOnce, QueuedOnce, AtHome
<1>5. Exclusive(i)'
      BY <1>1, <1>3, SessionAssumption DEF Placed, Exclusive
<1>. QED  BY <1>4, <1>5 DEF Placed

-----------------------------------------------------------------------------
(* What the actions do to a task's hands and to a queue.                   *)
LEMMA HandCleared ==
  ASSUME Ground, NEW t \in Task, carry' = [carry EXCEPT ![t] = <<>>]
  PROVE  /\ \A i : \A u \in Task : InHand(i, u)' <=> InHand(i, u) /\ u # t
         /\ \A u \in Task : IsInjective(carry'[u])
<1>1. \A u \in Task : carry'[u] = IF u = t THEN <<>> ELSE carry[u]
      BY DEF Ground, Turns, TypeOK
<1>. QED  BY <1>1, EmptyOnce DEF InHand, Ground, Whereabouts, NoRepeats

LEMMA QueueCleared ==
  ASSUME Ground, NEW s \in Session, Empty(s)
  PROVE  /\ \A i : \A r \in Session, o \in Origin :
              InQueue(i, r, o)' <=> InQueue(i, r, o) /\ r # s
         /\ \A r \in Session, o \in Origin : IsInjective(queue'[r][o])
<1>1. \A r \in Session, o \in Origin :
        queue'[r][o] = IF r = s THEN <<>> ELSE queue[r][o]
      BY DEF Ground, Turns, TypeOK, Empty, NoItems
<1>. QED  BY <1>1, EmptyOnce DEF InQueue, Ground, Whereabouts, NoRepeats

LEMMA QueuePushed ==
  ASSUME Ground, NEW s \in Session, NEW o \in Origin, NEW j \in Item, Push(s, o, j),
         ~Waits(j)
  PROVE  /\ \A i : \A r \in Session, p \in Origin :
              InQueue(i, r, p)' <=> InQueue(i, r, p) \/ (i = j /\ r = s /\ p = o)
         /\ \A r \in Session, p \in Origin : IsInjective(queue'[r][p])
<1>1. \A r \in Session, p \in Origin :
        queue'[r][p] = IF r = s /\ p = o THEN Append(queue[s][o], j) ELSE queue[r][p]
  <2>1. /\ queue \in [Session -> [Origin -> Seq(Item)]]
        /\ queue' = [queue EXCEPT ![s] = [queue[s] EXCEPT ![o] = Append(queue[s][o], j)]]
        BY DEF Ground, Turns, TypeOK, Push
  <2>. QED  BY <2>1
<1>2. queue[s][o] \in Seq(Item) /\ j \notin Range(queue[s][o]) /\ IsInjective(queue[s][o])
      BY SeqTypes DEF Waits, InQueue, Ground, Whereabouts, NoRepeats
<1>3. /\ Range(Append(queue[s][o], j)) = Range(queue[s][o]) \cup {j}
      /\ IsInjective(Append(queue[s][o], j))
      BY <1>2, AppendOnce
<1>. QED  BY <1>1, <1>3 DEF InQueue, Ground, Whereabouts, NoRepeats

-----------------------------------------------------------------------------
(* The actions.                                                            *)
LEMMA StepArrive ==
  ASSUME Ground, NEW t \in Task, NEW j \in Item, NEW k \in InPlay, NEW s \in Session,
         Arrive(t, j, k, s)
  PROVE  Whereabouts'
<1>0. carry[t] = <<>> /\ address[j] = NoSession /\ Turns /\ TypeOK
      BY DEF Arrive, Ground, Whereabouts, Hands, Turns
<1>1. \A u \in Task : carry'[u] = IF u = t THEN <<j>> ELSE carry[u]
      BY <1>0 DEF Arrive, TypeOK
<1>2. Range(<<j>>) = {j} /\ IsInjective(<<j>>) /\ Len(<<j>>) = 1
  <2>1. <<j>> \in Seq(Item) /\ Len(<<j>>) = 1 /\ Head(<<j>>) = j
        OBVIOUS
  <2>. QED  BY <2>1, OneOnce
<1>3. \A i : \A u \in Task : InHand(i, u)' <=> IF u = t THEN i = j ELSE InHand(i, u)
      BY <1>1, <1>2 DEF InHand
<1>4. \A i : ~InHand(i, t)
      BY <1>0, EmptyOnce DEF InHand
<1>5. Hands'
      BY <1>0, <1>1, <1>2 DEF Arrive, Ground, Whereabouts, Hands, TypeOK
<1>6. NoRepeats'
      BY <1>1, <1>2 DEF Arrive, Ground, Whereabouts, NoRepeats
<1>7. /\ \A i : \A r \in Session, o \in Origin : InQueue(i, r, o)' <=> InQueue(i, r, o)
      /\ \A u \in Task : home'[u] = IF u = t THEN s ELSE home[u]
      /\ \A i \in Item : address'[i] = IF i = j THEN s ELSE address[i]
      /\ UNCHANGED <<injected, lost, stopped>>
      BY <1>0 DEF Arrive, InQueue, TypeOK
<1>8. ASSUME NEW i \in Item  PROVE Placed(i)'
  <2>1. Placed(i)
        BY DEF Ground, Whereabouts
  <2>2. CASE i = j
    <3>1. \A u \in Task : ~InHand(i, u)
          BY <1>0, <2>1, <2>2 DEF Placed, Exclusive, Held
    <3>2. \A u \in Task : InHand(i, u)' <=> u = t
          BY <1>3, <2>2, <3>1
    <3>3. injected[i] \in Nat
          BY SeqTypes
    <3>. QED  BY <1>0, <1>7, <2>1, <2>2, <3>2, <3>3, PlacedArrive
  <2>3. CASE i # j
    <3>1. \A u \in Task : InHand(i, u)' <=> InHand(i, u)
          BY <1>3, <1>4, <2>3
    <3>2. \A u \in Task : InHand(i, u) => home'[u] = home[u]
          BY <1>4, <1>7
    <3>3. address'[i] = address[i]
          BY <1>7, <2>3
    <3>. QED  BY <1>7, <2>1, <3>1, <3>2, <3>3, PlacedKept
  <2>. QED  BY <2>2, <2>3
<1>. QED  BY <1>5, <1>6, <1>8 DEF Whereabouts

(* GiveUp and BeginTurn: t's hands are emptied, into lost or into a loop.  *)
LEMMA StepLeavesHand ==
  ASSUME Ground, NEW t \in Task, carry' = [carry EXCEPT ![t] = <<>>],
         NEW p \in {"idle", "running"}, phase' = [phase EXCEPT ![t] = p],
         kind' = kind \/ kind' = [kind EXCEPT ![t] = "flushed"],
         UNCHANGED <<queue, home, address, stopped>>,
         \/ lost' = lost \cup Range(carry[t]) /\ injected' = injected
         \/ lost' = lost /\ HandOver(Range(carry[t]))
  PROVE  Whereabouts'
<1>1. /\ \A i : \A u \in Task : InHand(i, u)' <=> InHand(i, u) /\ u # t
      /\ \A u \in Task : IsInjective(carry'[u])
      BY HandCleared
<1>2. Hands'
      BY DEF Ground, Turns, TypeOK, Whereabouts, Hands
<1>3. NoRepeats'
      BY <1>1 DEF Ground, Whereabouts, NoRepeats
<1>4. \A i : \A s \in Session, o \in Origin : InQueue(i, s, o)' <=> InQueue(i, s, o)
      BY DEF InQueue
<1>5. ASSUME NEW i \in Item  PROVE Placed(i)'
  <2>1. Placed(i)
        BY DEF Ground, Whereabouts
  <2>2. CASE InHand(i, t)
    <3>1. \/ injected'[i] = injected[i] + 1 /\ (i \in lost' <=> i \in lost)
          \/ injected'[i] = injected[i] /\ i \in lost'
          BY <2>2 DEF InHand, HandOver
    <3>. QED  BY <1>1, <1>4, <2>1, <2>2, <3>1, PlacedLeavesHand
  <2>3. CASE ~InHand(i, t)
    <3>1. injected'[i] = injected[i] /\ (i \in lost' <=> i \in lost)
          BY <2>3 DEF InHand, HandOver
    <3>2. \A u \in Task : InHand(i, u)' <=> InHand(i, u)
          BY <1>1, <2>3
    <3>. QED  BY <1>4, <2>1, <3>1, <3>2, PlacedKept
  <2>. QED  BY <2>2, <2>3
<1>. QED  BY <1>2, <1>3, <1>5 DEF Whereabouts

(* Enqueue and Requeue: the head of what t carries is queued.              *)
LEMMA StepQueued ==
  ASSUME Ground, NEW t \in Task, carry[t] # <<>>, NEW s \in Session, s = home[t],
         NEW o \in Origin, Push(s, o, Head(carry[t])),
         carry' = [carry EXCEPT ![t] = Tail(carry[t])],
         UNCHANGED <<home, address, injected, lost, stopped>>
  PROVE  NoRepeats' /\ \A i \in Item : Placed(i)'
<1>. DEFINE j == Head(carry[t])
<1>0. /\ carry[t] \in Seq(Item) /\ IsInjective(carry[t])
      /\ \A u \in Task : carry'[u] = IF u = t THEN Tail(carry[t]) ELSE carry[u]
      BY SeqTypes DEF Ground, Turns, TypeOK, Whereabouts, NoRepeats
<1>1. /\ j \in Range(carry[t]) /\ j \in Item
      /\ Range(Tail(carry[t])) = Range(carry[t]) \ {j}
      /\ IsInjective(Tail(carry[t]))
      BY <1>0, TailOnce, HeadAndTail
<1>. HIDE DEF j
<1>2. Placed(j) /\ InHand(j, t)
      BY <1>1 DEF Ground, Whereabouts, InHand
<1>3. ~Waits(j)
      BY <1>2 DEF Placed, Exclusive, Held
<1>4. /\ \A i : \A r \in Session, p \in Origin :
           InQueue(i, r, p)' <=> InQueue(i, r, p) \/ (i = j /\ r = s /\ p = o)
      /\ \A r \in Session, p \in Origin : IsInjective(queue'[r][p])
  <2>1. Push(s, o, j)
        BY DEF j
  <2>. QED  BY <1>1, <1>3, <2>1, QueuePushed
<1>5. NoRepeats'
      BY <1>0, <1>1, <1>4 DEF Ground, Whereabouts, NoRepeats
<1>6. \A i : \A u \in Task : InHand(i, u)' <=> InHand(i, u) /\ (u # t \/ i # j)
      BY <1>0, <1>1 DEF InHand
<1>7. ASSUME NEW i \in Item  PROVE Placed(i)'
  <2>1. Placed(i)
        BY DEF Ground, Whereabouts
  <2>2. CASE i = j
    <3>1. \A u \in Task : InHand(i, u)' <=> InHand(i, u) /\ u # t
          BY <1>6, <2>2
    <3>2. \A r \in Session, p \in Origin :
            InQueue(i, r, p)' <=> InQueue(i, r, p) \/ (r = s /\ p = o)
          BY <1>4, <2>2
    <3>. QED  BY <1>2, <2>1, <2>2, <3>1, <3>2, PlacedQueued
  <2>3. CASE i # j
    <3>1. /\ \A u \in Task : InHand(i, u)' <=> InHand(i, u)
          /\ \A r \in Session, p \in Origin : InQueue(i, r, p)' <=> InQueue(i, r, p)
          BY <1>4, <1>6, <2>3
    <3>. QED  BY <2>1, <3>1, PlacedKept
  <2>. QED  BY <2>2, <2>3
<1>. QED  BY <1>5, <1>7

LEMMA StepEnqueue ==
  ASSUME Ground, NEW t \in Task, Enqueue(t)
  PROVE  Whereabouts'
<1>1. /\ home[t] \in Session /\ carry[t] \in Seq(Item) /\ Len(carry[t]) = 1
      /\ QueuesAs(kind[t]) \in Origin
      BY SeqTypes DEF Ground, Turns, HomeKnown, Enqueue, Whereabouts, Hands, QueuesAs, Origin
<1>2. carry[t] # <<>> /\ Tail(carry[t]) = <<>>
      BY <1>1, OneOnce, TailOfOne
<1>3. NoRepeats' /\ \A i \in Item : Placed(i)'
      BY <1>1, <1>2, StepQueued DEF Enqueue
<1>4. Hands'
      BY DEF Enqueue, Ground, Turns, TypeOK, Whereabouts, Hands
<1>. QED  BY <1>3, <1>4 DEF Whereabouts

LEMMA StepRequeue ==
  ASSUME Ground, NEW t \in Task, Requeue(t)
  PROVE  Whereabouts'
<1>1. home[t] \in Session /\ carry[t] \in Seq(Item) /\ carry[t] # <<>>
      BY SeqTypes DEF Ground, Turns, HomeKnown, HandsFull, Requeue
<1>2. Len(carry[t]) = 1 => Tail(carry[t]) = <<>>
      BY <1>1, TailOfOne
<1>3. NoRepeats' /\ \A i \in Item : Placed(i)'
      BY <1>1, StepQueued DEF Requeue, Origin, Ground, Turns, TypeOK
<1>4. Hands'
      BY <1>2 DEF Requeue, Ground, Turns, TypeOK, Whereabouts, Hands
<1>. QED  BY <1>3, <1>4 DEF Whereabouts

(* Drain and /stop: a queue is emptied.                                    *)
LEMMA StepLeavesQueue ==
  ASSUME Ground, NEW s \in Session, Empty(s), UNCHANGED <<task, address, lost>>,
         \/ HandOver(ItemsOf(queue[s])) /\ stopped' = stopped
         \/ injected' = injected /\ stopped' = stopped \cup ItemsOf(queue[s])
  PROVE  Whereabouts'
<1>1. /\ \A i : \A r \in Session, o \in Origin :
           InQueue(i, r, o)' <=> InQueue(i, r, o) /\ r # s
      /\ \A r \in Session, o \in Origin : IsInjective(queue'[r][o])
      BY QueueCleared
<1>2. Hands' /\ NoRepeats'
      BY <1>1 DEF task, Ground, Whereabouts, Hands, NoRepeats
<1>3. /\ \A i : \A t \in Task : InHand(i, t)' <=> InHand(i, t)
      /\ home' = home
      BY DEF task, InHand
<1>4. ASSUME NEW i \in Item  PROVE Placed(i)'
  <2>1. Placed(i)
        BY DEF Ground, Whereabouts
  <2>2. CASE i \in ItemsOf(queue[s])
    <3>1. PICK o \in Origin : InQueue(i, s, o)
          BY <2>2, InItems
    <3>2. \/ injected'[i] = injected[i] + 1 /\ (i \in stopped' <=> i \in stopped)
          \/ injected'[i] = injected[i] /\ i \in stopped'
          BY <2>2 DEF HandOver
    <3>. QED  BY <1>1, <1>3, <2>1, <3>1, <3>2, PlacedLeavesQueue
  <2>3. CASE i \notin ItemsOf(queue[s])
    <3>1. injected'[i] = injected[i] /\ (i \in stopped' <=> i \in stopped)
          BY <2>3 DEF HandOver
    <3>2. \A r \in Session, o \in Origin : InQueue(i, r, o)' <=> InQueue(i, r, o)
          BY <1>1, <2>3, InItems
    <3>. QED  BY <1>3, <2>1, <3>1, <3>2, PlacedKept
  <2>. QED  BY <2>2, <2>3
<1>. QED  BY <1>2, <1>4 DEF Whereabouts

(* The flush: t takes the reactions and u, when there are any, the         *)
(* detached work.                                                          *)
LEMMA StepFlushed ==
  ASSUME Ground, NEW t \in Task, NEW s \in Session, s = home[t], Empty(s),
         NEW U \in SUBSET Task, t \notin U, \A u, v \in U : u = v,
         \A u \in U \cup {t} : carry[u] = <<>> /\ home'[u] = s,
         \A u \in Task : carry'[u] = IF u = t THEN queue[s]["Reaction"]
                                     ELSE IF u \in U THEN queue[s]["DetachedWork"]
                                     ELSE carry[u],
         U = {} => queue[s]["DetachedWork"] = <<>>,
         \A u \in Task \ U : home'[u] = home[u],
         UNCHANGED history
  PROVE  NoRepeats' /\ \A i \in Item : Placed(i)'
<1>1. /\ \A i : \A r \in Session, o \in Origin :
           InQueue(i, r, o)' <=> InQueue(i, r, o) /\ r # s
      /\ \A r \in Session, o \in Origin : IsInjective(queue'[r][o])
      BY QueueCleared
<1>2. NoRepeats'
      BY <1>1 DEF Ground, Whereabouts, NoRepeats, Origin
<1>3. \A i : \A u \in Task :
        InHand(i, u)' <=> IF u = t THEN InQueue(i, s, "Reaction")
                          ELSE IF u \in U THEN InQueue(i, s, "DetachedWork")
                          ELSE InHand(i, u)
      BY DEF InHand, InQueue
<1>4. \A i : \A u \in U \cup {t} : ~InHand(i, u)
      BY EmptyOnce DEF InHand
<1>5. U = {} => \A i : ~InQueue(i, s, "DetachedWork")
      BY EmptyOnce DEF InQueue
<1>6. UNCHANGED <<address, injected, lost, stopped>>
      BY DEF history
<1>7. ASSUME NEW i \in Item  PROVE Placed(i)'
  <2>1. Placed(i)
        BY DEF Ground, Whereabouts
  <2>2. ~(InQueue(i, s, "Reaction") /\ InQueue(i, s, "DetachedWork"))
        BY <2>1 DEF Placed, QueuedOnce, Origin
  <2>3. CASE InQueue(i, s, "Reaction")
    <3>1. \A u \in Task : InHand(i, u)' <=> InHand(i, u) \/ u = t
          BY <1>3, <1>4, <2>2, <2>3
    <3>. QED  BY <1>1, <1>6, <2>1, <2>3, <3>1, PlacedFlushed DEF Origin
  <2>4. CASE InQueue(i, s, "DetachedWork")
    <3>1. PICK u \in U : TRUE
          BY <1>5, <2>4
    <3>2. \A v \in Task : InHand(i, v)' <=> InHand(i, v) \/ v = u
          BY <1>3, <1>4, <2>2, <2>4
    <3>. QED  BY <1>1, <1>6, <2>1, <2>4, <3>2, PlacedFlushed DEF Origin
  <2>5. CASE ~InQueue(i, s, "Reaction") /\ ~InQueue(i, s, "DetachedWork")
    <3>1. \A r \in Session, o \in Origin : InQueue(i, r, o)' <=> InQueue(i, r, o)
          BY <1>1, <2>5 DEF Origin
    <3>2. \A u \in Task : InHand(i, u)' <=> InHand(i, u)
          BY <1>3, <1>4, <2>5
    <3>3. \A u \in Task : InHand(i, u) => home'[u] = home[u]
          BY <1>4
    <3>. QED  BY <1>6, <2>1, <3>1, <3>2, <3>3, PlacedKept
  <2>. QED  BY <2>3, <2>4, <2>5
<1>. QED  BY <1>2, <1>7

LEMMA StepFlush ==
  ASSUME Ground, NEW t \in Task, Flush(t) \/ \E u \in Task : FlushSpawning(t, u)
  PROVE  Whereabouts'
<1>0. TypeOK /\ HomeKnown /\ Hands
      BY DEF Ground, Turns, Whereabouts
<1>1. PICK s \in Session : s = home[t]
      BY <1>0 DEF HomeKnown, Flush, FlushSpawning
<1>2. CASE Flush(t)
  <2>1. /\ Empty(s) /\ UNCHANGED <<home, history>>
        /\ carry[t] = <<>> /\ queue[s]["DetachedWork"] = <<>>
        /\ \A u \in Task : carry'[u] = IF u = t THEN queue[s]["Reaction"] ELSE carry[u]
        BY <1>0, <1>1, <1>2 DEF Flush, TypeOK, Hands
  <2>2. NoRepeats' /\ \A i \in Item : Placed(i)'
    <3>. DEFINE U == {}
    <3>1. /\ U \in SUBSET Task /\ t \notin U /\ \A u, v \in U : u = v
          /\ \A u \in U \cup {t} : carry[u] = <<>> /\ home'[u] = s
          /\ \A u \in Task \ U : home'[u] = home[u]
          /\ \A u \in Task : carry'[u] = IF u = t THEN queue[s]["Reaction"]
                                         ELSE IF u \in U THEN queue[s]["DetachedWork"]
                                         ELSE carry[u]
          BY <1>1, <2>1
    <3>2. U = {} => queue[s]["DetachedWork"] = <<>>
          BY <2>1
    <3>. HIDE DEF U
    <3>. QED  BY <1>1, <2>1, <3>1, <3>2, StepFlushed
  <2>3. Hands'
    <3>1. phase' = [phase EXCEPT ![t] = KeepReactions(t)] /\ kind' = kind
          BY <1>2 DEF Flush
    <3>2. KeepReactions(t) = IF queue[s]["Reaction"] = <<>> THEN "idle" ELSE "reclaim"
          BY <1>1 DEF KeepReactions
    <3>. QED  BY <1>0, <2>1, <3>1, <3>2 DEF Hands, TypeOK
  <2>. QED  BY <2>2, <2>3 DEF Whereabouts
<1>3. ASSUME NEW u \in Task, FlushSpawning(t, u)  PROVE Whereabouts'
  <2>1. /\ Empty(s) /\ UNCHANGED history /\ u # t
        /\ carry[t] = <<>> /\ carry[u] = <<>>
        /\ home'[t] = s /\ home'[u] = s /\ \A v \in Task : v # u => home'[v] = home[v]
        /\ \A v \in Task : carry'[v] = IF v = t THEN queue[s]["Reaction"]
                                       ELSE IF v = u THEN queue[s]["DetachedWork"]
                                       ELSE carry[v]
    <3>1. /\ Empty(s) /\ UNCHANGED history
          /\ home' = [home EXCEPT ![u] = s]
          /\ carry' = [carry EXCEPT ![t] = queue[s]["Reaction"],
                                   ![u] = queue[s]["DetachedWork"]]
          BY <1>1, <1>3 DEF FlushSpawning
    <3>2. phase[t] = "settled" /\ phase[u] = "idle"
          BY <1>3 DEF FlushSpawning
    <3>3. u # t /\ carry[t] = <<>> /\ carry[u] = <<>>
          BY <1>0, <3>2 DEF Hands
    <3>. QED  BY <1>0, <1>1, <3>1, <3>3 DEF TypeOK
  <2>2. NoRepeats' /\ \A i \in Item : Placed(i)'
    <3>. DEFINE U == {u}
    <3>1. /\ U \in SUBSET Task /\ t \notin U /\ \A v, w \in U : v = w
          /\ \A v \in U \cup {t} : carry[v] = <<>> /\ home'[v] = s
          /\ \A v \in Task \ U : home'[v] = home[v]
          /\ \A v \in Task : carry'[v] = IF v = t THEN queue[s]["Reaction"]
                                         ELSE IF v \in U THEN queue[s]["DetachedWork"]
                                         ELSE carry[v]
          BY <2>1
    <3>2. U = {} => queue[s]["DetachedWork"] = <<>>
          OBVIOUS
    <3>. HIDE DEF U
    <3>. QED  BY <1>1, <2>1, <3>1, <3>2, StepFlushed
  <2>3. Hands'
    <3>1. /\ phase' = [phase EXCEPT ![t] = KeepReactions(t), ![u] = "arrived"]
          /\ kind' = [kind EXCEPT ![u] = "resumed"]
          BY <1>3 DEF FlushSpawning
    <3>2. KeepReactions(t) = IF queue[s]["Reaction"] = <<>> THEN "idle" ELSE "reclaim"
          BY <1>1 DEF KeepReactions
    <3>. QED  BY <1>0, <2>1, <3>1, <3>2 DEF Hands, TypeOK
  <2>. QED  BY <2>2, <2>3 DEF Whereabouts
<1>. QED  BY <1>2, <1>3

(* The steps that move no item.                                            *)
LEMMA StepKept ==
  ASSUME Ground, UNCHANGED <<queue, carry, address, injected, lost, stopped, home, kind>>,
         \A t \in Task :
           \/ phase'[t] = phase[t]
           \/ phase[t] = "arrived" /\ kind[t] # "resumed" /\ phase'[t] = "busy"
           \/ phase'[t] = "requeue"
           \/ /\ phase[t] \notin {"arrived", "busy", "reclaim", "requeue"}
              /\ phase'[t] \notin {"arrived", "busy", "reclaim", "requeue"}
  PROVE  Whereabouts'
<1>1. Hands' /\ NoRepeats'
      BY DEF Ground, Whereabouts, Hands, NoRepeats
<1>2. ASSUME NEW i \in Item  PROVE Placed(i)'
  <2>1. /\ \A t \in Task : InHand(i, t)' <=> InHand(i, t)
        /\ \A s \in Session, o \in Origin : InQueue(i, s, o)' <=> InQueue(i, s, o)
        BY DEF InHand, InQueue
  <2>. QED  BY <2>1, PlacedKept DEF Ground, Whereabouts
<1>. QED  BY <1>1, <1>2 DEF Whereabouts

LEMMA WhereaboutsStep == Ground /\ [Next]_vars => Whereabouts'
<1>. SUFFICES ASSUME Ground, [Next]_vars  PROVE Whereabouts'
     OBVIOUS
<1>0. TypeOK /\ HomeKnown /\ RetryKnown
      BY DEF Ground, Turns
<1>1. ASSUME NEW t \in Task, NEW i \in Item, NEW k \in InPlay, NEW s \in Session,
             Arrive(t, i, k, s)
      PROVE  Whereabouts'
      BY <1>1, StepArrive
<1>2. ASSUME NEW t \in Task, WakeRefused(t) \/ DropBusy(t)  PROVE Whereabouts'
      BY <1>2, StepLeavesHand DEF WakeRefused, DropBusy, GiveUp
<1>3. ASSUME NEW t \in Task, ClaimSlot(t) \/ Reclaim(t)  PROVE Whereabouts'
      BY <1>3, StepLeavesHand DEF ClaimSlot, Reclaim, BeginTurn
<1>4. ASSUME NEW t \in Task, Enqueue(t)  PROVE Whereabouts'
      BY <1>4, StepEnqueue
<1>5. ASSUME NEW t \in Task, Requeue(t)  PROVE Whereabouts'
      BY <1>5, StepRequeue
<1>6. ASSUME NEW t \in Task, Drain(t)  PROVE Whereabouts'
  <2>1. LoopSession(t) \in Session
        BY <1>0, <1>6, SessionAssumption DEF Drain, LoopSession, HomeKnown, RetryKnown
  <2>. QED  BY <1>6, <2>1, StepLeavesQueue DEF Drain
<1>7. ASSUME NEW s \in Session, StopTarget(s)  PROVE Whereabouts'
      BY <1>7, StepLeavesQueue DEF StopTarget
<1>8. ASSUME NEW t \in Task, Flush(t) \/ \E u \in Task : FlushSpawning(t, u)
      PROVE  Whereabouts'
      BY <1>8, StepFlush
<1>9. ASSUME NEW t \in Task,
             \/ LoseClaim(t) \/ LoseReclaim(t) \/ LoopExit(t) \/ MarkFresh(t) \/ RetryExit(t)
             \/ \E f \in FreshSession : RebindFresh(t, f)
             \/ \E flush \in BOOLEAN : Release(t, flush)
      PROVE  Whereabouts'
  <2>1. UNCHANGED <<queue, carry, address, injected, lost, stopped, home, kind>>
        BY <1>9 DEF LoseClaim, LoseReclaim, LoopExit, MarkFresh, RetryExit, RebindFresh,
           Release, history
  <2>2. \A u \in Task : u # t => phase'[u] = phase[u]
        BY <1>0, <1>9 DEF LoseClaim, LoseReclaim, LoopExit, MarkFresh, RetryExit, RebindFresh,
           Release, TypeOK
  <2>3. \/ phase[t] = "arrived" /\ kind[t] # "resumed" /\ phase'[t] = "busy"
        \/ phase'[t] = "requeue"
        \/ /\ phase[t] \notin {"arrived", "busy", "reclaim", "requeue"}
           /\ phase'[t] \notin {"arrived", "busy", "reclaim", "requeue"}
        BY <1>0, <1>9 DEF LoseClaim, LoseReclaim, LoopExit, MarkFresh, RetryExit, RebindFresh,
           Release, TypeOK, DropsWhenBusy
  <2>. QED  BY <2>1, <2>2, <2>3, StepKept
<1>10. CASE UNCHANGED vars
      BY <1>10, StepKept DEF vars, task, history
<1>. QED
  BY <1>1, <1>2, <1>3, <1>4, <1>5, <1>6, <1>7, <1>8, <1>9, <1>10 DEF Next, Step

LEMMA WhereaboutsInit == Init => Whereabouts
<1>. SUFFICES ASSUME Init  PROVE Whereabouts
     OBVIOUS
<1>1. /\ \A t \in Task : carry[t] = <<>>
      /\ \A s \in Session, o \in Origin : queue[s][o] = <<>>
      BY DEF Init, NoItems
<1>2. /\ \A i : \A t \in Task : ~InHand(i, t)
      /\ \A i : \A s \in Session, o \in Origin : ~InQueue(i, s, o)
      BY <1>1, EmptyOnce DEF InHand, InQueue
<1>3. NoRepeats
      BY <1>1, EmptyOnce DEF NoRepeats
<1>4. Hands
      BY <1>1 DEF Init, Hands
<1>5. ASSUME NEW i \in Item  PROVE Placed(i)
  <2>1. ~Held(i) /\ ~Waits(i)
        BY <1>2 DEF Held, Waits
  <2>. QED  BY <1>2, <2>1 DEF Init, Placed, HeldOnce, QueuedOnce, AtHome, Exclusive
<1>. QED  BY <1>3, <1>4, <1>5 DEF Whereabouts

LEMMA GroundInvariant == Spec => []Ground
<1>1. Init => Whereabouts
      BY WhereaboutsInit
<1>2. Turns /\ Whereabouts /\ [Next]_vars => Whereabouts'
      BY WhereaboutsStep DEF Ground
<1>3. Ground <=> Turns /\ Whereabouts
      BY DEF Ground
<1>. QED  BY <1>1, <1>2, <1>3, TurnsInvariant, PTL DEF Spec

(* Claims, lost claims, drains, flushes with their two arms, retries and   *)
(* stops lose no item and double none, for any number of them.             *)
THEOREM NothingIsLostOrDoubled == Spec => []ExactlyOnePlace
BY PlacesAreFacts, GroundInvariant, PTL

-----------------------------------------------------------------------------
(* The refinement, of the sessions no retry is moved to.                   *)
Steady == Session \ FreshSession

LEMMA HeldWaits ==
  ASSUME Ground, NEW t \in Task, NEW i \in Range(carry[t])
  PROVE  /\ i \in Item /\ address[i] = home[t]
         /\ injected[i] = 0 /\ i \notin lost \cup stopped
<1>1. i \in Item /\ InHand(i, t) /\ Held(i)
      BY SeqTypes DEF InHand, Held
<1>. QED  BY <1>1 DEF Ground, Whereabouts, Placed, Exclusive, AtHome

LEMMA QueuedWaits ==
  ASSUME Ground, NEW s \in Session, NEW i \in ItemsOf(queue[s])
  PROVE  /\ i \in Item /\ address[i] = s
         /\ injected[i] = 0 /\ i \notin lost \cup stopped
<1>1. PICK o \in Origin : InQueue(i, s, o)
      BY InItems
<1>2. i \in Item /\ Waits(i)
      BY <1>1, SeqTypes DEF InQueue, Waits
<1>. QED  BY <1>1, <1>2 DEF Ground, Whereabouts, Placed, Exclusive, AtHome

(* B is a batch that waits for session s.                                  *)
Due(B, s) ==
  \A i \in B : i \in Item /\ address[i] = s /\ injected[i] = 0 /\ i \notin lost \cup stopped

LEMMA DueAreWaiting ==
  ASSUME NEW s \in Steady, NEW B, Due(B, s)
  PROVE  B \in SUBSET Mailbox!Waiting(s)
BY SessionAssumption DEF Due, Mailbox!Waiting, Status, Addressee, Steady

LEMMA SettleTaken ==
  ASSUME Ground, NEW s \in Steady, NEW B, Due(B, s),
         HandOver(B), UNCHANGED <<address, lost, stopped>>
  PROVE  Mailbox!Settle(B, "taken")
<1>1. ASSUME NEW i \in Item
      PROVE  Status(i)' = IF i \in B THEN "taken" ELSE Status(i)
  <2>1. injected[i] \in Nat /\ injected'[i] = IF i \in B THEN injected[i] + 1 ELSE injected[i]
        BY SeqTypes DEF HandOver
  <2>2. CASE i \in B
    <3>1. injected'[i] > 0
          BY <2>1, <2>2
    <3>2. Addressee(i)' # NoSession
          BY <2>2, SessionAssumption DEF Due, Steady, Addressee
    <3>3. i \notin lost' \cup stopped'
          BY <2>2 DEF Due
    <3>4. Status(i)' = "taken"
          BY <3>1, <3>2, <3>3 DEF Status
    <3>. QED  BY <2>2, <3>4
  <2>3. CASE i \notin B
    <3>1. injected'[i] = injected[i]
          BY <2>1, <2>3
    <3>2. Addressee(i)' = Addressee(i)
          BY DEF Addressee
    <3>3. Status(i)' = Status(i)
          BY <3>1, <3>2 DEF Status
    <3>. QED  BY <2>3, <3>3
  <2>. QED  BY <2>2, <2>3
<1>. QED  BY <1>1 DEF Mailbox!Settle

LEMMA SettleDropped ==
  ASSUME Ground, NEW s \in Steady, NEW B, Due(B, s),
         lost' \cup stopped' = lost \cup stopped \cup B, UNCHANGED <<address, injected>>
  PROVE  Mailbox!Settle(B, "dropped")
<1>1. ASSUME NEW i \in Item
      PROVE  Status(i)' = IF i \in B THEN "dropped" ELSE Status(i)
  <2>1. i \in B => /\ Addressee(i) # NoSession /\ Addressee(i)' # NoSession
                   /\ injected'[i] = 0 /\ ~(injected'[i] > 0)
        BY SessionAssumption DEF Due, Addressee, Steady
  <2>2. i \in lost' \cup stopped' <=> i \in lost \cup stopped \/ i \in B
        OBVIOUS
  <2>. QED  BY <2>1, <2>2 DEF Status, Addressee
<1>. QED  BY <1>1 DEF Mailbox!Settle

(* What happens to items of fresh sessions only, and to no steady slot.    *)
LEMMA MailboxStutters ==
  ASSUME UNCHANGED address, active' \ FreshSession = active \ FreshSession,
         \A i \in Item : address[i] \notin FreshSession =>
            /\ injected'[i] = injected[i]
            /\ i \in lost' \cup stopped' <=> i \in lost \cup stopped
  PROVE  UNCHANGED Mailbox!mailboxVars
<1>1. \A i \in Item : Status(i)' = Status(i) /\ Addressee(i)' = Addressee(i)
      BY DEF Status, Addressee
<1>. QED  BY <1>1 DEF Mailbox!mailboxVars

(* The three things that may happen to a batch due to any session.         *)
Allowed == [Mailbox!Next]_(Mailbox!mailboxVars)

LEMMA BatchDropped ==
  ASSUME Ground, NEW s \in Session, NEW B, Due(B, s),
         lost' \cup stopped' = lost \cup stopped \cup B,
         UNCHANGED <<address, injected, active>>
  PROVE  Allowed
<1>1. CASE s \in Steady
  <2>1. B \in SUBSET Mailbox!Waiting(s)  BY <1>1, DueAreWaiting
  <2>2. Mailbox!Drop(s, B)
        BY <1>1, <2>1, SettleDropped DEF Mailbox!Drop, Addressee
  <2>. QED  BY <1>1, <2>1, <2>2 DEF Allowed, Mailbox!Next, Steady
<1>2. CASE s \notin Steady
  <2>1. \A i \in Item : address[i] \notin FreshSession => i \notin B
        BY <1>2 DEF Due, Steady
  <2>2. UNCHANGED Mailbox!mailboxVars
        BY <2>1, MailboxStutters
  <2>. QED  BY <2>2 DEF Allowed
<1>. QED  BY <1>1, <1>2

LEMMA BatchTaken ==
  ASSUME Ground, NEW s \in Session, NEW B, Due(B, s), HandOver(B),
         UNCHANGED <<address, lost, stopped>>,
         s \in active' /\ active' = active \cup {s}
  PROVE  Allowed
<1>1. CASE s \in Steady
  <2>1. B \in SUBSET Mailbox!Waiting(s)  BY <1>1, DueAreWaiting
  <2>2. Mailbox!OpenTurn(s, B) \/ Mailbox!TakeInto(s, B)
        BY <1>1, <2>1, SettleTaken
        DEF Mailbox!OpenTurn, Mailbox!TakeInto, Addressee, Steady
  <2>. QED  BY <1>1, <2>1, <2>2 DEF Allowed, Mailbox!Next, Steady
<1>2. CASE s \notin Steady
  <2>1. \A i \in Item : address[i] \notin FreshSession => i \notin B
        BY <1>2 DEF Due, Steady
  <2>2. \A i \in Item : i \notin B => injected'[i] = injected[i]
        BY DEF HandOver
  <2>3. UNCHANGED Mailbox!mailboxVars
        BY <1>2, <2>1, <2>2, MailboxStutters DEF Steady
  <2>. QED  BY <2>3 DEF Allowed
<1>. QED  BY <1>1, <1>2

LEMMA SlotGivenBack ==
  ASSUME NEW s \in Session, s \in Steady => s \in active, active' = active \ {s},
         UNCHANGED <<address, injected, lost, stopped>>
  PROVE  Allowed
<1>1. \A i \in Item : Status(i)' = Status(i) /\ Addressee(i)' = Addressee(i)
      BY DEF Status, Addressee
<1>2. CASE s \in Steady
  <2>1. Mailbox!CloseTurn(s)
        BY <1>1, <1>2 DEF Mailbox!CloseTurn, Steady
  <2>. QED  BY <1>2, <2>1 DEF Allowed, Mailbox!Next, Steady
<1>3. CASE s \notin Steady
      BY <1>3, MailboxStutters DEF Allowed, Steady
<1>. QED  BY <1>2, <1>3

LEMMA RefinementStep ==
  ASSUME Ground, OneTurnOutsideRetries, [Next]_vars
  PROVE  Allowed
<1>0. TypeOK /\ HomeKnown /\ RetryKnown
      BY DEF Ground, Turns
<1>1. ASSUME NEW t \in Task, NEW j \in Item, NEW k \in InPlay, NEW s \in Session,
             Arrive(t, j, k, s)
      PROVE  Allowed
  <2>1. /\ address[j] = NoSession /\ injected[j] = 0 /\ j \notin lost \cup stopped
        /\ address' = [address EXCEPT ![j] = s]
        /\ UNCHANGED <<injected, lost, stopped, active>>
        BY <1>1, SeqTypes DEF Arrive, Ground, Whereabouts, Placed, Exclusive
  <2>2. ASSUME NEW i \in Item
        PROVE  /\ Addressee(i)' = IF i = j /\ s \in Steady THEN s ELSE Addressee(i)
               /\ Status(i)' = IF i = j /\ s \in Steady THEN "waiting" ELSE Status(i)
        BY <1>0, <2>1, SessionAssumption DEF Status, Addressee, TypeOK, Steady
  <2>3. CASE s \in Steady
    <3>1. Mailbox!Submit(j, s)
          BY <2>1, <2>2, <2>3, SessionAssumption DEF Mailbox!Submit, Status, Addressee
    <3>. QED  BY <2>3, <3>1 DEF Allowed, Mailbox!Next, Steady
  <2>4. CASE s \notin Steady
        BY <2>1, <2>2, <2>4 DEF Allowed, Mailbox!mailboxVars
  <2>. QED  BY <2>3, <2>4
<1>2. ASSUME NEW t \in Task, WakeRefused(t) \/ DropBusy(t)  PROVE Allowed
  <2>1. home[t] \in Session
        BY <1>0, <1>2 DEF WakeRefused, DropBusy, HomeKnown
  <2>2. UNCHANGED <<address, injected, stopped, active>> /\ lost' = lost \cup Range(carry[t])
        BY <1>2 DEF WakeRefused, DropBusy, GiveUp
  <2>3. Due(Range(carry[t]), home[t])
        BY HeldWaits DEF Due
  <2>. QED  BY <2>1, <2>2, <2>3, BatchDropped
<1>3. ASSUME NEW t \in Task, ClaimSlot(t) \/ Reclaim(t)  PROVE Allowed
  <2>1. home[t] \in Session
        BY <1>0, <1>3 DEF ClaimSlot, Reclaim, HomeKnown
  <2>2. /\ HandOver(Range(carry[t])) /\ UNCHANGED <<address, lost, stopped>>
        /\ active' = active \cup {home[t]}
        BY <1>3 DEF ClaimSlot, Reclaim, BeginTurn
  <2>3. Due(Range(carry[t]), home[t])
        BY HeldWaits DEF Due
  <2>. QED  BY <2>1, <2>2, <2>3, BatchTaken
<1>4. ASSUME NEW t \in Task, Drain(t)  PROVE Allowed
  <2>1. PICK s \in Session : s = LoopSession(t)
        BY <1>0, <1>4, SessionAssumption DEF Drain, LoopSession, HomeKnown, RetryKnown
  <2>2. /\ HandOver(ItemsOf(queue[s]))
        /\ UNCHANGED <<address, lost, stopped, active>>
        BY <1>4, <2>1 DEF Drain
  <2>3. Due(ItemsOf(queue[s]), s)
        BY QueuedWaits DEF Due
  <2>4. CASE s \in Steady
    <3>1. Holds(t, s)
          BY <1>0, <1>4, <2>1, <2>4
          DEF Drain, LoopSession, Holds, HoldsHome, HoldsFresh
    <3>2. s \in active
          BY <2>4, <3>1 DEF OneTurnOutsideRetries, OneTurn, Steady
    <3>. QED  BY <2>2, <2>3, <3>2, BatchTaken
  <2>5. CASE s \notin Steady
    <3>1. \A i \in Item : address[i] \notin FreshSession => i \notin ItemsOf(queue[s])
          BY <2>3, <2>5 DEF Due, Steady
    <3>2. UNCHANGED Mailbox!mailboxVars
          BY <2>2, <3>1, MailboxStutters DEF HandOver
    <3>. QED  BY <3>2 DEF Allowed
  <2>. QED  BY <2>4, <2>5
<1>5. ASSUME NEW s \in Session, StopTarget(s)  PROVE Allowed
  <2>1. /\ stopped' = stopped \cup ItemsOf(queue[s])
        /\ UNCHANGED <<address, injected, lost, active>>
        BY <1>5 DEF StopTarget
  <2>2. Due(ItemsOf(queue[s]), s)
        BY QueuedWaits DEF Due
  <2>. QED  BY <2>1, <2>2, BatchDropped
<1>6. ASSUME NEW t \in Task, NEW flush \in BOOLEAN, Release(t, flush)  PROVE Allowed
  <2>1. home[t] \in Session
        BY <1>0, <1>6 DEF Release, HomeKnown
  <2>2. UNCHANGED <<address, injected, lost, stopped>> /\ active' = active \ {home[t]}
        BY <1>6 DEF Release
  <2>3. home[t] \in Steady => home[t] \in active
        BY <1>6, <2>1 DEF Release, OneTurnOutsideRetries, OneTurn, Holds, HoldsHome, Steady
  <2>. QED  BY <2>1, <2>2, <2>3, SlotGivenBack
(* A retry marks and unmarks a fresh session.                              *)
<1>7. ASSUME NEW t \in Task, MarkFresh(t) \/ RetryExit(t)  PROVE Allowed
  <2>1. retry[t] \in FreshSession
        BY <1>0, <1>7 DEF MarkFresh, RetryExit, RetryKnown
  <2>2. /\ UNCHANGED <<address, injected, lost, stopped>>
        /\ active' \in {active \cup {retry[t]}, active \ {retry[t]}}
        BY <1>7 DEF MarkFresh, RetryExit, history
  <2>3. UNCHANGED Mailbox!mailboxVars
        BY <2>1, <2>2, MailboxStutters
  <2>. QED  BY <2>3 DEF Allowed
<1>8. ASSUME NEW t \in Task,
             \/ LoseClaim(t) \/ Enqueue(t) \/ LoopExit(t)
             \/ \E f \in FreshSession : RebindFresh(t, f)
             \/ Flush(t) \/ \E u \in Task : FlushSpawning(t, u)
             \/ LoseReclaim(t) \/ Requeue(t)
      PROVE  Allowed
  <2>1. UNCHANGED <<address, injected, lost, stopped, active>>
        BY <1>8 DEF LoseClaim, Enqueue, LoopExit, RebindFresh, Flush, FlushSpawning,
           LoseReclaim, Requeue, history
  <2>. QED  BY <2>1, MailboxStutters DEF Allowed
<1>9. CASE UNCHANGED vars
      BY <1>9, MailboxStutters DEF Allowed, vars, history
<1>. QED
  BY <1>1, <1>2, <1>3, <1>4, <1>5, <1>6, <1>7, <1>8, <1>9 DEF Next, Step

(* For every session no retry is moved to, the Telegram surface keeps the  *)
(* promise of the session mailbox: one open turn at a time, and an item is *)
(* taken once, into an open turn of the session it was sent to, or         *)
(* dropped; what a retry does under its fresh session does not disturb it. *)
THEOREM SurfaceIsAMailbox == Spec => RefinesMailbox
<1>1. Init => Mailbox!Init
  <2>. SUFFICES ASSUME Init  PROVE Mailbox!Init
       OBVIOUS
  <2>1. \A i \in Item : Status(i) = "new" /\ Addressee(i) = NoSession
        BY DEF Init, Status, Addressee
  <2>. QED  BY <2>1 DEF Init, Mailbox!Init
<1>2. Ground /\ OneTurnOutsideRetries /\ [Next]_vars
        => [Mailbox!Next]_(Mailbox!mailboxVars)
      BY RefinementStep DEF Allowed
<1>3. Spec => []OneTurnOutsideRetries
      BY OneTurnOutsideRetriesCorrect
<1>. QED  BY <1>1, <1>2, <1>3, GroundInvariant, PTL DEF Spec, RefinesMailbox, Mailbox!Spec
=============================================================================
