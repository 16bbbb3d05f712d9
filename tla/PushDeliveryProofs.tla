------------------------- MODULE PushDeliveryProofs -------------------------
(***************************************************************************)
(* Theorems about push delivery, for any sets of sessions, pushes and      *)
(* texts, any hop cap and any number of restarts.                          *)
(***************************************************************************)
EXTENDS PushDelivery, FiniteSetTheorems, TLAPS

(* A push nobody has routed yet: its command runs, or deliver_to_session   *)
(* holds it.                                                               *)
Early(m) == m \in spawned \cup tasks \/ sending[m] > 0 \/ deciding[m] > 0

(* No turn and no clear of its row is under way for letter m.              *)
Still(m) == KeyOf(m) \notin windows /\ woken[m] = 0 /\ midturn[m] = 0

Waits(m) == parking[m] > 0 \/ parked[m] > 0

(* While recover() runs nothing else of the process has begun.             *)
BootAlone ==
  /\ stage # "up" =>
       /\ route = {} /\ spawned = {} /\ windows = {} /\ timer = "off"
       /\ \A m \in Letter : /\ sending[m] = 0 /\ deciding[m] = 0 /\ parking[m] = 0
                            /\ woken[m] = 0 /\ midturn[m] = 0 /\ inserts[m] = 0
  /\ stage = "tasks" => twinned = {}
  /\ stage # "tasks" => reports = {}
  /\ stage = "rows" => tasks = {} /\ \A m \in Letter : offers[m] <= rows[m]
  /\ stage # "rows" => \A m \in Letter : offers[m] = 0

ReportsAreParked == \A m \in reports : parked[m] > 0

(* A push not produced yet, or declined, has left no trace.                *)
Nowhere(m) == ~Early(m) /\ ~Waits(m) /\ Still(m) /\ rows[m] = 0 /\ inserts[m] = 0

UnsentIsNowhere == \A m \in Letter : m[2] \notin sent => Nowhere(m)

(* An early push is in one place only.                                     *)
Alone(m, n) ==
  /\ n # m => ~Early(n)
  /\ n = m => /\ sending[m] <= 1 /\ deciding[m] <= 1
              /\ sending[m] = 0 \/ deciding[m] = 0
              /\ m \in spawned \cup tasks => sending[m] = 0 /\ deciding[m] = 0
              /\ m \notin spawned \cap tasks
  /\ rows[n] = 0 /\ inserts[n] = 0 /\ parking[n] = 0
  /\ stage # "tasks" => parked[n] = 0
  /\ Still(n)

EarlyIsAlone ==
  \A m, n \in Letter : Early(m) /\ n[2] = m[2] => Alone(m, n)

(* What waits with a twin is still, and has its row, if there is a         *)
(* terminal, or nothing, to fall back on.                                  *)
TwinOK(m) ==
  /\ parking[m] > 0 => m \in twinned /\ parking[m] = 1 /\ parked[m] = 0
  /\ m \in twinned /\ Waits(m) /\ localRoute # "parking" =>
       /\ Still(m)
       /\ inserts[m] = 0 => rows[m] > 0 \/ m \in reaped

TwinsAreOK == \A m \in Letter : TwinOK(m)

IInv == /\ TypeOK /\ BootAlone /\ ReportsAreParked
        /\ UnsentIsNowhere /\ EarlyIsAlone /\ TwinsAreOK

-----------------------------------------------------------------------------
(* Piles.                                                                  *)

LEMMA PlusFacts ==
    ASSUME NEW pile \in Pile, NEW m \in Letter
    PROVE  /\ Plus(pile, m) \in Pile
           /\ \A n \in Letter : Plus(pile, m)[n] = IF n = m THEN pile[n] + 1 ELSE pile[n]
BY DEF Pile, Plus

LEMMA MinusFacts ==
    ASSUME NEW pile \in Pile, NEW m \in Letter, pile[m] > 0
    PROVE  /\ Minus(pile, m) \in Pile
           /\ \A n \in Letter : Minus(pile, m)[n] = IF n = m THEN pile[n] - 1 ELSE pile[n]
BY DEF Pile, Minus

LEMMA WithoutFacts ==
    ASSUME NEW pile \in Pile, NEW S
    PROVE  /\ Without(pile, S) \in Pile
           /\ \A n \in Letter : Without(pile, S)[n] = IF n \in S THEN 0 ELSE pile[n]
BY DEF Pile, Without

LEMMA MergeFacts ==
    ASSUME NEW pile \in Pile, NEW other \in Pile, NEW S
    PROVE  /\ Merge(pile, other, S) \in Pile
           /\ \A n \in Letter :
                Merge(pile, other, S)[n] = IF n \in S THEN pile[n] + other[n] ELSE pile[n]
BY DEF Pile, Merge

LEMMA NoLettersFacts ==
    /\ NoLetters \in Pile
    /\ \A n \in Letter : NoLetters[n] = 0
BY DEF Pile, NoLetters

LEMMA LetterFacts ==
    ASSUME NEW m \in Letter
    PROVE  /\ m[1] \in Session /\ m[2] \in Push /\ m = <<m[1], m[2]>>
           /\ KeyOf(m) \in Session \X Text
           /\ \A s \in Session : <<s, m[2]>> \in Letter
BY TextAssumption DEF Letter, KeyOf

LEMMA HeldFacts == ASSUME NEW pile PROVE Held(pile) \subseteq Letter
BY DEF Held

(* Where the chain of occupants ends.                                      *)
LEMMA DeliverFacts ==
    ASSUME NEW m \in Letter, NEW interrupt, Deliver(m, interrupt)
    PROVE  \E d \in Letter : d[2] = m[2] /\ DeliverAs(m, d, interrupt)
<1>1. PICK hop \in Chase(m[1]) : DeliverAs(m, <<hop[HopCap], m[2]>>, interrupt)
      BY DEF Deliver
<1>2. hop[HopCap] \in Session
      BY BoundAssumption DEF Chase
<1> QED BY <1>1, <1>2, LetterFacts DEF Letter

-----------------------------------------------------------------------------
(* Types.                                                                  *)

LEMMA TypeInit == Init => TypeOK
BY NoLettersFacts, BoundAssumption DEF Init, TypeOK

LEMMA TypeRecovery == TypeOK /\ BootAlone /\ Recovery => TypeOK'
<1> SUFFICES ASSUME TypeOK, BootAlone, Recovery PROVE TypeOK' OBVIOUS
<1> USE DEF TypeOK, process, commands, tables, boxes, recovery, surfaces, clearing, history
<1>1. ASSUME NEW m \in Letter, ReportInterrupted(m) PROVE TypeOK'
      BY <1>1, PlusFacts DEF ReportInterrupted
<1>2. ASSUME NEW m \in Letter, ClearReported(m) PROVE TypeOK'
      BY <1>2 DEF ClearReported
<1>3. ASSUME NEW m \in Letter, OfferRow(m) PROVE TypeOK'
      <2>1. m[1] \notin route  BY <1>3 DEF OfferRow, BootAlone
      <2> QED BY <1>3, <2>1, PlusFacts, MinusFacts DEF OfferRow
<1>4. CASE ReadRows         BY <1>4 DEF ReadRows
<1>5. CASE FinishRecovery   BY <1>5, WithoutFacts, HeldFacts DEF FinishRecovery
<1> QED BY <1>1, <1>2, <1>3, <1>4, <1>5 DEF Recovery

LEMMA TypeProduce == TypeOK /\ BootAlone /\ Produce => TypeOK'
<1> SUFFICES ASSUME TypeOK, BootAlone, NEW m \in Letter,
                    Send(m) \/ FollowUp(m) \/ StartCommand(m) \/ RecordCommand(m)
                      \/ FinishCommand(m)
             PROVE  TypeOK'
    BY DEF Produce
<1> USE PlusFacts, LetterFacts
<1> USE DEF TypeOK, process, commands, tables, boxes, recovery, surfaces, clearing, history
<1>1. CASE Send(m)           BY <1>1 DEF Send
<1>2. CASE FollowUp(m)       BY <1>2 DEF FollowUp
<1>3. CASE StartCommand(m)   BY <1>3, CommandAssumption DEF StartCommand
<1>4. CASE RecordCommand(m)  BY <1>4 DEF RecordCommand
<1>5. CASE FinishCommand(m)  BY <1>5 DEF FinishCommand, BootAlone
<1> QED BY <1>1, <1>2, <1>3, <1>4, <1>5

LEMMA TypeDeliver ==
    ASSUME TypeOK, NEW m \in Letter, NEW interrupt \in BOOLEAN, Deliver(m, interrupt)
    PROVE  TypeOK'
<1> PICK d \in Letter : d[2] = m[2] /\ DeliverAs(m, d, interrupt)
    BY DeliverFacts
<1> USE LetterFacts
<1> USE DEF TypeOK, process, commands, tables, boxes, recovery, surfaces, clearing, history
<1>1. /\ sending' \in Pile
      /\ UNCHANGED <<process, tables, parked, local, midturn, recovery, surfaces,
                     heard, dropped, stopped, reaped>>
      BY DEF DeliverAs, Pile, Minus
<1>2. /\ deciding' \in Pile /\ parking' \in Pile /\ woken' \in Pile /\ inserts' \in Pile
      /\ twinned' \subseteq Letter
  <2>1. CASE ~OwnsItsChat(d[1])
    <3>1. ParkingRoute(d) /\ UNCHANGED deciding  BY <2>1 DEF DeliverAs
    <3>2. inserts' \in Pile  BY <3>1 DEF ParkingRoute, Pile, Plus
    <3>3. Plus(woken, d) \in Pile /\ Plus(parking, d) \in Pile  BY DEF Pile, Plus
    <3>4. woken' \in {woken, Plus(woken, d)} /\ parking' \in {parking, Plus(parking, d)}
          BY <3>1 DEF ParkingRoute
    <3>5. twinned' \subseteq Letter  BY <3>1 DEF ParkingRoute
    <3> QED BY <3>1, <3>2, <3>3, <3>4, <3>5
  <2>2. CASE OwnsItsChat(d[1])
    <3>1. Plus(woken, d) \in Pile /\ Plus(deciding, d) \in Pile  BY DEF Pile, Plus
    <3>2. /\ woken' \in {woken, Plus(woken, d)} /\ deciding' \in {deciding, Plus(deciding, d)}
          /\ UNCHANGED <<parking, inserts, twinned>>
          BY <2>2 DEF DeliverAs
    <3> QED BY <3>1, <3>2
  <2> QED BY <2>1, <2>2
<1>3. sent' \subseteq Push /\ windows' \subseteq Session \X Text
      BY DEF DeliverAs, OpenWindows
<1> QED BY <1>1, <1>2, <1>3

LEMMA TypeRun == TypeOK /\ Run => TypeOK'
<1> SUFFICES ASSUME TypeOK, Run PROVE TypeOK' OBVIOUS
<1> USE PlusFacts, MinusFacts, WithoutFacts, LetterFacts
<1> USE DEF TypeOK, process, commands, tables, boxes, recovery, surfaces, clearing, history
<1>1. ASSUME NEW m \in Letter, Fallback(m) PROVE TypeOK'
      BY <1>1 DEF Fallback, ParkingRoute, OpenWindows
<1>2. ASSUME NEW m \in Letter, Park(m) PROVE TypeOK'
      BY <1>2 DEF Park
<1>3. ASSUME NEW m \in Letter, WakeRuns(m) PROVE TypeOK'
      BY <1>3 DEF WakeRuns
<1>4. ASSUME NEW m \in Letter, WakeQueues(m) PROVE TypeOK'
      BY <1>4 DEF WakeQueues
<1>5. ASSUME NEW m \in Letter, WakeGivesUp(m) PROVE TypeOK'
      BY <1>5 DEF WakeGivesUp
<1>6. ASSUME NEW m \in Letter, LocalTakes(m) PROVE TypeOK'
      BY <1>6 DEF LocalTakes
<1>7. ASSUME NEW m \in Letter, Insert(m) PROVE TypeOK'
      BY <1>7 DEF Insert
<1>8. ASSUME NEW k \in Session \X Text, NEW last \in BOOLEAN, ClearPass(k, last) PROVE TypeOK'
      BY <1>8 DEF ClearPass
<1>9. ASSUME NEW m \in Letter, NEW interrupt \in BOOLEAN, Deliver(m, interrupt)
      PROVE  TypeOK'
      BY <1>9, TypeDeliver
<1> QED BY <1>1, <1>2, <1>3, <1>4, <1>5, <1>6, <1>7, <1>8, <1>9 DEF Run

LEMMA TypeSurface == TypeOK /\ Surface => TypeOK'
<1> SUFFICES ASSUME TypeOK, NEW s \in Session,
                    Claim(s) \/ ExpectChannel(s) \/ TurnStarts(s) \/ TurnEnds(s)
                      \/ Drain(s) \/ StopTarget(s)
                      \/ \E o \in Session \cup {NoSession} : Occupy(s, o)
             PROVE  TypeOK'
    BY DEF Surface
<1> USE MergeFacts, WithoutFacts, LetterFacts, HeldFacts
<1> USE DEF TypeOK, process, commands, tables, boxes, recovery, surfaces, clearing, history
<1>1. CASE Claim(s)          BY <1>1 DEF Claim, OpenWindows
<1>2. CASE ExpectChannel(s)  BY <1>2 DEF ExpectChannel
<1>3. CASE TurnStarts(s)     BY <1>3 DEF TurnStarts
<1>4. CASE TurnEnds(s)       BY <1>4 DEF TurnEnds
<1>5. CASE Drain(s)
      <2>1. heard' \in [Push -> Nat]  BY <1>5 DEF Drain, Pile, Letter
      <2> QED BY <1>5, <2>1 DEF Drain, OpenWindows
<1>6. CASE StopTarget(s)     BY <1>6 DEF StopTarget
<1>7. ASSUME NEW o \in Session \cup {NoSession}, Occupy(s, o) PROVE TypeOK'
      BY <1>7 DEF Occupy
<1> QED BY <1>1, <1>2, <1>3, <1>4, <1>5, <1>6, <1>7

LEMMA TypeFlush == TypeOK /\ FlushParked => TypeOK'
<1> USE MergeFacts, NoLettersFacts, LetterFacts, HeldFacts
<1> QED BY DEF TypeOK, FlushParked, OpenWindows, process, commands, tables, boxes,
               recovery, surfaces, clearing, history

LEMMA TypeCrash == ASSUME TypeOK, NEW long \in BOOLEAN, Crash(long) PROVE TypeOK'
BY NoLettersFacts, HeldFacts, BoundAssumption
   DEF TypeOK, Crash, process, commands, tables, boxes, recovery, surfaces, clearing, history

LEMMA TypeStutter == TypeOK /\ UNCHANGED vars => TypeOK'
BY DEF TypeOK, vars, process, commands, tables, boxes, recovery, surfaces, clearing, history

LEMMA TypeNext == TypeOK /\ BootAlone /\ [Next]_vars => TypeOK'
BY TypeRecovery, TypeProduce, TypeRun, TypeSurface, TypeFlush, TypeCrash, TypeStutter DEF Next

-----------------------------------------------------------------------------
(* recover() has the process to itself.                                    *)

LEMMA PileNat == ASSUME NEW pile \in Pile, NEW n \in Letter PROVE pile[n] \in Nat
BY DEF Pile

(* Nothing is routed while recover() offers: every offer parks.            *)
LEMMA OfferFacts ==
    ASSUME TypeOK, BootAlone, NEW m \in Letter, OfferRow(m)
    PROVE  /\ UNCHANGED <<woken, rows>>
           /\ twinned' = twinned \cup {m}
           /\ \A n \in Letter : /\ parked'[n] = IF n = m THEN parked[n] + 1 ELSE parked[n]
                                /\ offers'[n] = IF n = m THEN offers[n] - 1 ELSE offers[n]
                                /\ parked[n] \in Nat /\ offers[n] \in Nat /\ rows[n] \in Nat
<1>1. m[1] \notin route  BY DEF OfferRow, BootAlone
<1> QED BY <1>1 DEF OfferRow, TypeOK, Pile, Plus, Minus

LEMMA BootAloneInit == Init => BootAlone /\ ReportsAreParked
BY NoLettersFacts DEF Init, BootAlone, ReportsAreParked

LEMMA BootAloneNext ==
    TypeOK /\ BootAlone /\ ReportsAreParked /\ [Next]_vars => BootAlone' /\ ReportsAreParked'
<1> SUFFICES ASSUME TypeOK, BootAlone, ReportsAreParked, [Next]_vars
             PROVE  BootAlone' /\ ReportsAreParked'
    OBVIOUS
<1> USE PlusFacts, MinusFacts, WithoutFacts, MergeFacts, NoLettersFacts
<1> USE DEF TypeOK, BootAlone, ReportsAreParked, Pile
<1> USE DEF process, commands, tables, boxes, recovery, surfaces, clearing, history
<1>1. CASE Recovery
  <2>1. ASSUME NEW m \in Letter, ReportInterrupted(m) PROVE BootAlone' /\ ReportsAreParked'
        BY <2>1 DEF ReportInterrupted
  <2>2. ASSUME NEW m \in Letter, ClearReported(m) PROVE BootAlone' /\ ReportsAreParked'
        BY <2>2 DEF ClearReported
  <2>3. ASSUME NEW m \in Letter, OfferRow(m) PROVE BootAlone' /\ ReportsAreParked'
    <3> HIDE DEF TypeOK, Pile
    <3>1. stage = "rows" /\ UNCHANGED <<stage, tasks, reports, timer, route, spawned, windows>>
          BY <2>3 DEF OfferRow
    <3>2. UNCHANGED <<sending, deciding, parking, woken, midturn, inserts, rows>>
          BY <2>3, OfferFacts DEF OfferRow
    <3>3. \A n \in Letter : parked'[n] >= parked[n] /\ offers'[n] <= rows'[n]
          BY <2>3, OfferFacts, <3>1, <3>2
    <3>4. reports = {}  BY <3>1
    <3> QED BY <3>1, <3>2, <3>3, <3>4
  <2>4. CASE ReadRows        BY <2>4 DEF ReadRows
  <2>5. CASE FinishRecovery  BY <2>5 DEF FinishRecovery
  <2> QED BY <1>1, <2>1, <2>2, <2>3, <2>4, <2>5 DEF Recovery
<1>2. ASSUME NEW m \in Letter,
             Send(m) \/ FollowUp(m) \/ StartCommand(m) \/ RecordCommand(m) \/ FinishCommand(m)
      PROVE  BootAlone' /\ ReportsAreParked'
      BY <1>2 DEF Send, FollowUp, StartCommand, RecordCommand, FinishCommand
<1>3. ASSUME NEW m \in Letter, NEW interrupt \in BOOLEAN, Deliver(m, interrupt)
      PROVE  BootAlone' /\ ReportsAreParked'
  <2>1. PICK d \in Letter : DeliverAs(m, d, interrupt)  BY <1>3, DeliverFacts
  <2>2. stage = "up"  BY <2>1 DEF DeliverAs
  <2> QED BY <2>1, <2>2 DEF DeliverAs
<1>4. ASSUME NEW m \in Letter, Fallback(m) \/ Park(m) \/ Insert(m)
      PROVE  BootAlone' /\ ReportsAreParked'
  <2>1. stage = "up"  BY <1>4 DEF Fallback, Park, Insert
  <2> QED BY <1>4, <2>1 DEF Fallback, Park, Insert
<1>5. ASSUME NEW m \in Letter, WakeRuns(m) \/ WakeQueues(m) \/ WakeGivesUp(m)
      PROVE  BootAlone' /\ ReportsAreParked'
  <2>1. stage = "up"  BY <1>5 DEF WakeRuns, WakeQueues, WakeGivesUp
  <2> QED BY <1>5, <2>1 DEF WakeRuns, WakeQueues, WakeGivesUp
<1>6. ASSUME NEW m \in Letter, LocalTakes(m) PROVE BootAlone' /\ ReportsAreParked'
      BY <1>6 DEF LocalTakes
<1>7. ASSUME NEW k \in Session \X Text, NEW last \in BOOLEAN, ClearPass(k, last)
      PROVE  BootAlone' /\ ReportsAreParked'
      BY <1>7 DEF ClearPass
<1>8. ASSUME NEW s \in Session, Claim(s) \/ ExpectChannel(s) PROVE BootAlone' /\ ReportsAreParked'
      BY <1>8 DEF Claim, ExpectChannel
<1>9. ASSUME NEW s \in Session,
             TurnStarts(s) \/ TurnEnds(s) \/ \E o \in Session \cup {NoSession} : Occupy(s, o)
      PROVE  BootAlone' /\ ReportsAreParked'
      BY <1>9 DEF TurnStarts, TurnEnds, Occupy
<1>10. ASSUME NEW s \in Session, Drain(s) \/ StopTarget(s) PROVE BootAlone' /\ ReportsAreParked'
  <2>1. stage = "up"  BY <1>10 DEF Drain, StopTarget, Held, For
  <2> QED BY <1>10, <2>1 DEF Drain, StopTarget
<1>11. CASE FlushParked  BY <1>11 DEF FlushParked
<1>12. ASSUME NEW long \in BOOLEAN, Crash(long) PROVE BootAlone' /\ ReportsAreParked'
       BY <1>12 DEF Crash
<1>13. CASE UNCHANGED vars  BY <1>13 DEF vars
<1> QED BY <1>1, <1>2, <1>3, <1>4, <1>5, <1>6, <1>7, <1>8, <1>9, <1>10, <1>11, <1>12, <1>13
        DEF Next, Produce, Run, Surface

-----------------------------------------------------------------------------
(* The durable row behind a parked push.                                   *)

(* No two pushes say the same.                                             *)
TextsDiffer == \A p, q \in Push : TextOf[p] = TextOf[q] => p = q

Setting == IInv /\ TextsDiffer

LEMMA KeysDiffer ==
    ASSUME TextsDiffer, NEW m \in Letter, NEW n \in Letter, KeyOf(m) = KeyOf(n)
    PROVE  m = n
BY LetterFacts DEF TextsDiffer, KeyOf

(* All the invariant says of two letters of one push.                      *)
LEMMA At ==
    ASSUME IInv, NEW m \in Letter, NEW n \in Letter
    PROVE  /\ sending[n] \in Nat /\ deciding[n] \in Nat /\ parking[n] \in Nat
           /\ parked[n] \in Nat /\ woken[n] \in Nat /\ midturn[n] \in Nat
           /\ rows[n] \in Nat /\ inserts[n] \in Nat
           /\ n[2] \notin sent => Nowhere(n)
           /\ Early(m) /\ n[2] = m[2] => Alone(m, n)
           /\ TwinOK(n)
BY PileNat DEF IInv, TypeOK, UnsentIsNowhere, EarlyIsAlone, TwinsAreOK

(* A step keeps it when it keeps it for every pair.                        *)
Kept(m, n) ==
  /\ n[2] \notin sent => Nowhere(n)
  /\ Early(m) /\ n[2] = m[2] => Alone(m, n)
  /\ TwinOK(n)

LEMMA KeptSuffices ==
    ASSUME \A m, n \in Letter : Kept(m, n)'
    PROVE  UnsentIsNowhere' /\ EarlyIsAlone' /\ TwinsAreOK'
BY DEF Kept, UnsentIsNowhere, EarlyIsAlone, TwinsAreOK

LEMMA TwinsSend ==
    ASSUME Setting, NEW m \in Letter, Send(m)
    PROVE  UnsentIsNowhere' /\ EarlyIsAlone' /\ TwinsAreOK'
<1>1. /\ \A n \in Letter : sending'[n] = IF n = m THEN sending[n] + 1 ELSE sending[n]
      /\ sent' = sent \cup {m[2]}
      /\ UNCHANGED <<deciding, parking, parked, woken, midturn, rows, inserts, spawned, tasks, windows, twinned, reaped, localRoute, stage>>
      BY DEF Setting, IInv, TypeOK, Pile, Plus, Minus, Send, process, commands, tables, boxes,
         recovery, surfaces, clearing, history
<1>2. ASSUME NEW b \in Letter, NEW n \in Letter PROVE Kept(b, n)'
      BY <1>1, At, LetterFacts DEF Send, Setting, IInv, BootAlone, Kept, Nowhere, Early, Waits, Still, Alone, TwinOK
<1> QED BY <1>2, KeptSuffices

LEMMA TwinsFollowUp ==
    ASSUME Setting, NEW m \in Letter, FollowUp(m)
    PROVE  UnsentIsNowhere' /\ EarlyIsAlone' /\ TwinsAreOK'
<1>1. /\ \A n \in Letter : /\ midturn'[n] = IF n = m THEN midturn[n] + 1 ELSE midturn[n]
                           /\ inserts'[n] = IF n = m THEN inserts[n] + 1 ELSE inserts[n]
      /\ sent' = sent \cup {m[2]}
      /\ UNCHANGED <<sending, deciding, parking, parked, woken, rows, spawned, tasks, windows, twinned, reaped, localRoute, stage>>
      BY DEF Setting, IInv, TypeOK, Pile, Plus, Minus, FollowUp, process, commands, tables, boxes,
         recovery, surfaces, clearing, history
<1>2. ASSUME NEW b \in Letter, NEW n \in Letter PROVE Kept(b, n)'
      BY <1>1, At, LetterFacts DEF FollowUp, Setting, IInv, BootAlone, Kept, Nowhere, Early, Waits, Still, Alone, TwinOK
<1> QED BY <1>2, KeptSuffices

LEMMA TwinsStartCommand ==
    ASSUME Setting, NEW m \in Letter, StartCommand(m)
    PROVE  UnsentIsNowhere' /\ EarlyIsAlone' /\ TwinsAreOK'
<1>1. /\ sent' = sent \cup {m[2]}
      /\ spawned' = spawned \cup {m}
      /\ UNCHANGED <<sending, deciding, parking, parked, woken, midturn, rows, inserts, tasks, windows, twinned, reaped, localRoute, stage>>
      BY DEF Setting, IInv, TypeOK, Pile, Plus, Minus, StartCommand, process, commands, tables, boxes,
         recovery, surfaces, clearing, history
<1>2. ASSUME NEW b \in Letter, NEW n \in Letter PROVE Kept(b, n)'
      BY <1>1, At, LetterFacts DEF StartCommand, Setting, IInv, BootAlone, Kept, Nowhere, Early, Waits, Still, Alone, TwinOK
<1> QED BY <1>2, KeptSuffices

LEMMA TwinsRecordCommand ==
    ASSUME Setting, NEW m \in Letter, RecordCommand(m)
    PROVE  UnsentIsNowhere' /\ EarlyIsAlone' /\ TwinsAreOK'
<1>1. /\ spawned' = spawned \ {m}
      /\ tasks' = tasks \cup {m}
      /\ UNCHANGED <<sending, deciding, parking, parked, woken, midturn, rows, inserts, sent, windows, twinned, reaped, localRoute, stage>>
      BY DEF Setting, IInv, TypeOK, Pile, Plus, Minus, RecordCommand, process, commands, tables, boxes,
         recovery, surfaces, clearing, history
<1>2. ASSUME NEW b \in Letter, NEW n \in Letter PROVE Kept(b, n)'
      BY <1>1, At, LetterFacts DEF RecordCommand, Setting, IInv, BootAlone, Kept, Nowhere, Early, Waits, Still, Alone, TwinOK
<1> QED BY <1>2, KeptSuffices

LEMMA TwinsFinishCommand ==
    ASSUME Setting, NEW m \in Letter, FinishCommand(m)
    PROVE  UnsentIsNowhere' /\ EarlyIsAlone' /\ TwinsAreOK'
<1>1. /\ \A n \in Letter : sending'[n] = IF n = m THEN sending[n] + 1 ELSE sending[n]
      /\ tasks' = tasks \ {m}
      /\ UNCHANGED <<deciding, parking, parked, woken, midturn, rows, inserts, sent, spawned, windows, twinned, reaped, localRoute, stage>>
      BY DEF Setting, IInv, TypeOK, Pile, Plus, Minus, FinishCommand, process, commands, tables, boxes,
         recovery, surfaces, clearing, history
<1>2. ASSUME NEW b \in Letter, NEW n \in Letter PROVE Kept(b, n)'
      BY <1>1, At, LetterFacts DEF FinishCommand, Setting, IInv, BootAlone, Kept, Nowhere, Early, Waits, Still, Alone, TwinOK
<1> QED BY <1>2, KeptSuffices

LEMMA TwinsPark ==
    ASSUME Setting, NEW m \in Letter, Park(m)
    PROVE  UnsentIsNowhere' /\ EarlyIsAlone' /\ TwinsAreOK'
<1>1. /\ \A n \in Letter : /\ parking'[n] = IF n = m THEN parking[n] - 1 ELSE parking[n]
                           /\ parked'[n] = IF n = m THEN parked[n] + 1 ELSE parked[n]
      /\ UNCHANGED <<sending, deciding, woken, midturn, rows, inserts, sent, spawned, tasks, windows, twinned, reaped, localRoute, stage>>
      BY DEF Setting, IInv, TypeOK, Pile, Plus, Minus, Park, process, commands, tables, boxes,
         recovery, surfaces, clearing, history
<1>2. ASSUME NEW b \in Letter, NEW n \in Letter PROVE Kept(b, n)'
      BY <1>1, At, LetterFacts DEF Park, Setting, IInv, BootAlone, Kept, Nowhere, Early, Waits, Still, Alone, TwinOK
<1> QED BY <1>2, KeptSuffices

LEMMA TwinsWakeRuns ==
    ASSUME Setting, NEW m \in Letter, WakeRuns(m)
    PROVE  UnsentIsNowhere' /\ EarlyIsAlone' /\ TwinsAreOK'
<1>1. /\ \A n \in Letter : woken'[n] = IF n = m THEN woken[n] - 1 ELSE woken[n]
      /\ UNCHANGED <<sending, deciding, parking, parked, midturn, rows, inserts, sent, spawned, tasks, windows, twinned, reaped, localRoute, stage>>
      BY DEF Setting, IInv, TypeOK, Pile, Plus, Minus, WakeRuns, process, commands, tables, boxes,
         recovery, surfaces, clearing, history
<1>2. ASSUME NEW b \in Letter, NEW n \in Letter PROVE Kept(b, n)'
      BY <1>1, At, LetterFacts DEF WakeRuns, Setting, IInv, BootAlone, Kept, Nowhere, Early, Waits, Still, Alone, TwinOK
<1> QED BY <1>2, KeptSuffices

LEMMA TwinsWakeQueues ==
    ASSUME Setting, NEW m \in Letter, WakeQueues(m)
    PROVE  UnsentIsNowhere' /\ EarlyIsAlone' /\ TwinsAreOK'
<1>1. /\ \A n \in Letter : /\ woken'[n] = IF n = m THEN woken[n] - 1 ELSE woken[n]
                           /\ midturn'[n] = IF n = m THEN midturn[n] + 1 ELSE midturn[n]
                           /\ inserts'[n] = IF n = m THEN inserts[n] + 1 ELSE inserts[n]
      /\ UNCHANGED <<sending, deciding, parking, parked, rows, sent, spawned, tasks, windows, twinned, reaped, localRoute, stage>>
      BY DEF Setting, IInv, TypeOK, Pile, Plus, Minus, WakeQueues, process, commands, tables, boxes,
         recovery, surfaces, clearing, history
<1>2. ASSUME NEW b \in Letter, NEW n \in Letter PROVE Kept(b, n)'
      BY <1>1, At, LetterFacts DEF WakeQueues, Setting, IInv, BootAlone, Kept, Nowhere, Early, Waits, Still, Alone, TwinOK
<1> QED BY <1>2, KeptSuffices

LEMMA TwinsWakeGivesUp ==
    ASSUME Setting, NEW m \in Letter, WakeGivesUp(m)
    PROVE  UnsentIsNowhere' /\ EarlyIsAlone' /\ TwinsAreOK'
<1>1. /\ \A n \in Letter : woken'[n] = IF n = m THEN woken[n] - 1 ELSE woken[n]
      /\ UNCHANGED <<sending, deciding, parking, parked, midturn, rows, inserts, sent, spawned, tasks, windows, twinned, reaped, localRoute, stage>>
      BY DEF Setting, IInv, TypeOK, Pile, Plus, Minus, WakeGivesUp, process, commands, tables, boxes,
         recovery, surfaces, clearing, history
<1>2. ASSUME NEW b \in Letter, NEW n \in Letter PROVE Kept(b, n)'
      BY <1>1, At, LetterFacts DEF WakeGivesUp, Setting, IInv, BootAlone, Kept, Nowhere, Early, Waits, Still, Alone, TwinOK
<1> QED BY <1>2, KeptSuffices

LEMMA TwinsInsert ==
    ASSUME Setting, NEW m \in Letter, Insert(m)
    PROVE  UnsentIsNowhere' /\ EarlyIsAlone' /\ TwinsAreOK'
<1>1. /\ \A n \in Letter : /\ rows'[n] = IF n = m THEN rows[n] + 1 ELSE rows[n]
                           /\ inserts'[n] = IF n = m THEN inserts[n] - 1 ELSE inserts[n]
      /\ UNCHANGED <<sending, deciding, parking, parked, woken, midturn, sent, spawned, tasks, windows, twinned, reaped, localRoute, stage>>
      BY DEF Setting, IInv, TypeOK, Pile, Plus, Minus, Insert, process, commands, tables, boxes,
         recovery, surfaces, clearing, history
<1>2. ASSUME NEW b \in Letter, NEW n \in Letter PROVE Kept(b, n)'
      BY <1>1, At, LetterFacts DEF Insert, Setting, IInv, BootAlone, Kept, Nowhere, Early, Waits, Still, Alone, TwinOK
<1> QED BY <1>2, KeptSuffices

LEMMA ParkingFacts ==
    ASSUME TypeOK, NEW d \in Letter, ParkingRoute(d)
    PROVE  /\ \A n \in Letter : inserts'[n] = IF n = d THEN inserts[n] + 1 ELSE inserts[n]
           /\ \/ /\ \A n \in Letter : woken'[n] = IF n = d THEN woken[n] + 1 ELSE woken[n]
                 /\ UNCHANGED parking
              \/ /\ \A n \in Letter : parking'[n] = IF n = d THEN parking[n] + 1 ELSE parking[n]
                 /\ UNCHANGED woken
           /\ twinned' = twinned \cup {d}
<1>1. parking \in Pile /\ woken \in Pile /\ inserts \in Pile  BY DEF TypeOK
<1>2. CASE d[1] \in route     BY <1>1, <1>2, PlusFacts DEF ParkingRoute
<1>3. CASE d[1] \notin route  BY <1>1, <1>3, PlusFacts DEF ParkingRoute
<1> QED BY <1>2, <1>3

LEMMA TwinsDeliver ==
    ASSUME Setting, NEW m \in Letter, NEW interrupt \in BOOLEAN, Deliver(m, interrupt)
    PROVE  UnsentIsNowhere' /\ EarlyIsAlone' /\ TwinsAreOK'
<1>1. PICK d \in Letter : d[2] = m[2] /\ DeliverAs(m, d, interrupt)
      BY DeliverFacts
<1>2. /\ sending[m] > 0 /\ stage = "up"
      /\ \A n \in Letter : sending'[n] = IF n = m THEN sending[n] - 1 ELSE sending[n]
      /\ UNCHANGED <<parked, midturn, rows, spawned, tasks, reaped, localRoute, stage>>
      BY <1>1, MinusFacts DEF DeliverAs, Setting, IInv, BootAlone, TypeOK, process, commands, tables,
         recovery, surfaces
<1>3. CASE /\ \A n \in Letter : inserts'[n] = IF n = d THEN inserts[n] + 1 ELSE inserts[n]
           /\ \/ /\ \A n \in Letter : woken'[n] = IF n = d THEN woken[n] + 1 ELSE woken[n]
                 /\ UNCHANGED parking
              \/ /\ \A n \in Letter : parking'[n] = IF n = d THEN parking[n] + 1 ELSE parking[n]
                 /\ UNCHANGED woken
           /\ twinned' = twinned \cup {d}
           /\ UNCHANGED <<sent, deciding, windows>>
  <2>1. ASSUME NEW b \in Letter, NEW n \in Letter PROVE Kept(b, n)'
        BY <1>1, <1>2, <1>3, <2>1, At, LetterFacts DEF Kept, Nowhere, Early, Waits, Still, Alone, TwinOK, Setting
  <2> QED BY <2>1, KeptSuffices
<1>4. CASE /\ sent' = sent \ {m[2]}
           /\ UNCHANGED <<deciding, parking, woken, inserts, windows, twinned>>
  <2>1. ASSUME NEW b \in Letter, NEW n \in Letter PROVE Kept(b, n)'
        BY <1>1, <1>2, <1>4, <2>1, At, LetterFacts DEF Kept, Nowhere, Early, Waits, Still, Alone, TwinOK, Setting
  <2> QED BY <2>1, KeptSuffices
<1>5. CASE /\ \A n \in Letter : woken'[n] = IF n = d THEN woken[n] + 1 ELSE woken[n]
           /\ windows' = windows \cup {KeyOf(d)}
           /\ UNCHANGED <<sent, deciding, parking, inserts, twinned>>
  <2>1. ASSUME NEW b \in Letter, NEW n \in Letter PROVE Kept(b, n)'
        BY <1>1, <1>2, <1>5, <2>1, At, LetterFacts, KeysDiffer
        DEF Kept, Nowhere, Early, Waits, Still, Alone, TwinOK, Setting
  <2> QED BY <2>1, KeptSuffices
<1>6. CASE /\ \A n \in Letter : deciding'[n] = IF n = d THEN deciding[n] + 1 ELSE deciding[n]
           /\ UNCHANGED <<sent, parking, woken, inserts, windows, twinned>>
  <2>1. ASSUME NEW b \in Letter, NEW n \in Letter PROVE Kept(b, n)'
        BY <1>1, <1>2, <1>6, <2>1, At, LetterFacts DEF Kept, Nowhere, Early, Waits, Still, Alone, TwinOK, Setting
  <2> QED BY <2>1, KeptSuffices
<1>p. deciding \in Pile /\ parking \in Pile /\ woken \in Pile /\ inserts \in Pile
      BY DEF Setting, IInv, TypeOK
<1>7. CASE ParkingRoute(d) /\ UNCHANGED <<sent, deciding, windows>>
      BY <1>3, <1>7, ParkingFacts DEF Setting, IInv
<1>8. CASE woken' = Plus(woken, d) /\ OpenWindows({d})
             /\ UNCHANGED <<sent, deciding, parking, inserts, twinned>>
      BY <1>5, <1>8, <1>p DEF OpenWindows, Pile, Plus
<1>9. CASE deciding' = Plus(deciding, d)
             /\ UNCHANGED <<sent, parking, woken, inserts, windows, twinned>>
      BY <1>6, <1>9, <1>p DEF Pile, Plus
<1> QED BY <1>1, <1>4, <1>7, <1>8, <1>9 DEF DeliverAs

(* From there a channel's push is parked with a row, the terminal takes    *)
(* one that has none.                                                      *)
LEMMA TwinsFallback ==
    ASSUME Setting, NEW m \in Letter, Fallback(m)
    PROVE  UnsentIsNowhere' /\ EarlyIsAlone' /\ TwinsAreOK'
<1>1. /\ deciding[m] > 0 /\ stage = "up"
      /\ \A n \in Letter : deciding'[n] = IF n = m THEN deciding[n] - 1 ELSE deciding[n]
      /\ UNCHANGED <<sending, parked, midturn, rows, spawned, tasks, reaped, localRoute, stage, sent>>
      BY MinusFacts DEF Fallback, Setting, IInv, BootAlone, TypeOK, process, commands, tables,
         recovery, surfaces
<1>2. CASE /\ \A n \in Letter : inserts'[n] = IF n = m THEN inserts[n] + 1 ELSE inserts[n]
           /\ \/ /\ \A n \in Letter : woken'[n] = IF n = m THEN woken[n] + 1 ELSE woken[n]
                 /\ UNCHANGED parking
              \/ /\ \A n \in Letter : parking'[n] = IF n = m THEN parking[n] + 1 ELSE parking[n]
                 /\ UNCHANGED woken
           /\ twinned' = twinned \cup {m}
           /\ \/ UNCHANGED windows
              \/ windows' = windows \cup {KeyOf(m)} /\ localRoute = "parking"
  <2>1. ASSUME NEW b \in Letter, NEW n \in Letter PROVE Kept(b, n)'
        BY <1>1, <1>2, <2>1, At, LetterFacts, KeysDiffer
        DEF Kept, Nowhere, Early, Waits, Still, Alone, TwinOK, Setting
  <2> QED BY <2>1, KeptSuffices
<1>3. CASE /\ windows' \in {windows, windows \cup {KeyOf(m)}}
           /\ UNCHANGED <<parking, woken, inserts, twinned>>
  <2>1. ASSUME NEW b \in Letter, NEW n \in Letter PROVE Kept(b, n)'
        BY <1>1, <1>3, <2>1, At, LetterFacts, KeysDiffer
        DEF Kept, Nowhere, Early, Waits, Still, Alone, TwinOK, Setting
  <2> QED BY <2>1, KeptSuffices
<1>4. CASE /\ ParkingRoute(m)
           /\ UNCHANGED windows \/ (windows' = windows \cup {KeyOf(m)} /\ localRoute = "parking")
      BY <1>2, <1>4, ParkingFacts DEF Setting, IInv
<1> QED BY <1>3, <1>4 DEF Fallback, OpenWindows

(* recover().                                                              *)
LEMMA TwinsRecovery ==
    ASSUME Setting, Recovery
    PROVE  UnsentIsNowhere' /\ EarlyIsAlone' /\ TwinsAreOK'
<1> USE DEF process, commands, tables, boxes, recovery, surfaces, clearing, history
<1>1. ASSUME NEW m \in Letter, ReportInterrupted(m)
      PROVE  UnsentIsNowhere' /\ EarlyIsAlone' /\ TwinsAreOK'
  <2>1. /\ m \in tasks /\ stage = "tasks" /\ twinned = {} /\ route = {}
        /\ UNCHANGED <<sent, stage, twinned, spawned, tasks, windows, sending, deciding, parking, woken,
                       midturn, rows, inserts, reaped, localRoute>>
        /\ \A n \in Letter : parked'[n] = IF n = m THEN parked[n] + 1 ELSE parked[n]
    <3>1. parked \in Pile /\ (stage # "up" => route = {}) /\ (stage = "tasks" => twinned = {})
          BY DEF Setting, IInv, BootAlone, TypeOK
    <3>2. parked' = Plus(parked, m)  BY <1>1, <3>1 DEF ReportInterrupted
    <3> QED BY <1>1, <3>1, <3>2, PlusFacts DEF ReportInterrupted
  <2>2. ASSUME NEW b \in Letter, NEW n \in Letter PROVE Kept(b, n)'
        BY <2>1, At DEF Kept, Nowhere, Early, Waits, Still, Alone, TwinOK, Setting
  <2> QED BY <2>2, KeptSuffices
<1>2. ASSUME NEW m \in Letter, ClearReported(m)
      PROVE  UnsentIsNowhere' /\ EarlyIsAlone' /\ TwinsAreOK'
  <2>1. /\ tasks' = tasks \ {m}
        /\ UNCHANGED <<sent, stage, twinned, spawned, windows, sending, deciding, parking, parked, woken,
                       midturn, rows, inserts, reaped, localRoute>>
        BY <1>2 DEF ClearReported
  <2>2. ASSUME NEW b \in Letter, NEW n \in Letter PROVE Kept(b, n)'
        BY <2>1, At DEF Kept, Nowhere, Early, Waits, Still, Alone, TwinOK, Setting
  <2> QED BY <2>2, KeptSuffices
<1>3. ASSUME NEW m \in Letter, OfferRow(m)
      PROVE  UnsentIsNowhere' /\ EarlyIsAlone' /\ TwinsAreOK'
  <2>1. /\ stage = "rows" /\ tasks = {} /\ spawned = {} /\ windows = {}
        /\ rows[m] > 0
        /\ \A n \in Letter : /\ sending[n] = 0 /\ deciding[n] = 0 /\ parking[n] = 0
                             /\ woken[n] = 0 /\ midturn[n] = 0
        BY <1>3, OfferFacts DEF OfferRow, Setting, IInv, BootAlone
  <2>2. /\ UNCHANGED <<sent, stage, spawned, tasks, windows, sending, deciding, parking, woken,
                       midturn, rows, inserts, reaped, localRoute>>
        /\ twinned' = twinned \cup {m}
        /\ \A n \in Letter : parked'[n] = IF n = m THEN parked[n] + 1 ELSE parked[n]
        BY <1>3, OfferFacts DEF OfferRow, Setting, IInv
  <2>3. ASSUME NEW b \in Letter, NEW n \in Letter PROVE Kept(b, n)'
        BY <2>1, <2>2, At DEF Kept, Nowhere, Early, Waits, Still, Alone, TwinOK, Setting
  <2> QED BY <2>3, KeptSuffices
<1>4. CASE ReadRows
  <2>1. /\ tasks = {} /\ stage' # "tasks"
        /\ UNCHANGED <<sent, spawned, tasks, windows, sending, deciding, parking, parked, woken,
                       midturn, rows, inserts, twinned, reaped, localRoute>>
        /\ spawned = {} /\ \A n \in Letter : sending[n] = 0 /\ deciding[n] = 0
        BY <1>4 DEF ReadRows, Setting, IInv, BootAlone
  <2>2. ASSUME NEW b \in Letter, NEW n \in Letter PROVE Kept(b, n)'
        BY <2>1, At DEF Kept, Nowhere, Early, Waits, Still, Alone, TwinOK, Setting
  <2> QED BY <2>2, KeptSuffices
<1>5. CASE FinishRecovery
  <2>1. /\ stage = "rows" /\ stage' = "up"
        /\ \A n \in Letter : rows'[n] = IF n \in stale THEN 0 ELSE rows[n]
        /\ reaped' = reaped \cup {n \in stale : n \in Letter /\ rows[n] > 0}
        /\ UNCHANGED <<sent, spawned, tasks, windows, sending, deciding, parking, parked, woken,
                       midturn, inserts, twinned, localRoute>>
        BY <1>5, WithoutFacts DEF FinishRecovery, Held, Setting, IInv, TypeOK
  <2>2. ASSUME NEW b \in Letter, NEW n \in Letter PROVE Kept(b, n)'
        BY <2>1, At DEF Kept, Nowhere, Early, Waits, Still, Alone, TwinOK, Setting
  <2> QED BY <2>2, KeptSuffices
<1> QED BY <1>1, <1>2, <1>3, <1>4, <1>5 DEF Recovery

(* The clear loops.                                                        *)
LEMMA TwinsClearPass ==
    ASSUME Setting, NEW k \in Session \X Text, NEW last \in BOOLEAN, ClearPass(k, last)
    PROVE  UnsentIsNowhere' /\ EarlyIsAlone' /\ TwinsAreOK'
<1>1. /\ k \in windows /\ windows' \subseteq windows
      /\ \A n \in Letter : rows'[n] = IF KeyOf(n) = k THEN 0 ELSE rows[n]
      /\ UNCHANGED <<sent, stage, spawned, tasks, sending, deciding, parking, parked, woken,
                     midturn, inserts, twinned, reaped, localRoute>>
      BY WithoutFacts DEF ClearPass, Setting, IInv, TypeOK, process, commands, boxes, recovery, history
<1>2. ASSUME NEW b \in Letter, NEW n \in Letter PROVE Kept(b, n)'
      BY <1>1, At DEF Kept, Nowhere, Early, Waits, Still, Alone, TwinOK, Setting
<1> QED BY <1>2, KeptSuffices

(* A claim and the flush take everything that is parked for a session.     *)
LEMMA TwinsTaken ==
    ASSUME Setting, NEW S \in SUBSET Letter, stage = "up",
           \A n \in Letter : parked'[n] = IF n \in S THEN 0 ELSE parked[n],
           \A n \in Letter : n \notin S \/ parked[n] = 0 => woken'[n] = woken[n],
           \A n \in Letter : woken'[n] \in Nat,
           windows' = windows \cup {KeyOf(n) : n \in Held(parked) \cap S},
           UNCHANGED <<sent, stage, spawned, tasks, sending, deciding, parking, rows,
                       midturn, inserts, twinned, reaped, localRoute>>
    PROVE  UnsentIsNowhere' /\ EarlyIsAlone' /\ TwinsAreOK'
<1>1. ASSUME NEW n \in Letter, KeyOf(n) \in windows'
      PROVE  KeyOf(n) \in windows \/ (n \in S /\ parked[n] > 0)
      BY <1>1, KeysDiffer DEF Held, Setting
<1>2. ASSUME NEW b \in Letter, NEW n \in Letter PROVE Kept(b, n)'
      BY <1>1, At DEF Kept, Nowhere, Early, Waits, Still, Alone, TwinOK, Setting
<1> QED BY <1>2, KeptSuffices

LEMMA TwinsClaim ==
    ASSUME Setting, NEW s \in Session, Claim(s)
    PROVE  UnsentIsNowhere' /\ EarlyIsAlone' /\ TwinsAreOK'
<1>1. For(s) \in SUBSET Letter  BY DEF For
<1>2. /\ stage = "up"
      /\ \A n \in Letter : /\ parked'[n] = IF n \in For(s) THEN 0 ELSE parked[n]
                           /\ woken'[n] = IF n \in For(s) THEN woken[n] + parked[n] ELSE woken[n]
      /\ windows' = windows \cup {KeyOf(n) : n \in Held(parked) \cap For(s)}
      /\ UNCHANGED <<sent, stage, spawned, tasks, sending, deciding, parking, rows,
                     midturn, inserts, twinned, reaped, localRoute>>
      BY WithoutFacts, MergeFacts
      DEF Claim, OpenWindows, Setting, IInv, TypeOK, process, tables, commands, recovery, history
<1>3. \A n \in Letter : parked[n] \in Nat /\ woken[n] \in Nat  BY At DEF Setting
<1>4. /\ \A n \in Letter : n \notin For(s) \/ parked[n] = 0 => woken'[n] = woken[n]
      /\ \A n \in Letter : woken'[n] \in Nat
      /\ \A n \in Letter : parked'[n] = IF n \in For(s) THEN 0 ELSE parked[n]
      BY <1>2, <1>3
<1> QED BY <1>1, <1>2, <1>4, TwinsTaken

LEMMA TwinsFlush ==
    ASSUME Setting, FlushParked
    PROVE  UnsentIsNowhere' /\ EarlyIsAlone' /\ TwinsAreOK'
<1>1. /\ stage = "up"
      /\ \A n \in Letter : parked'[n] = 0
      /\ windows' = windows \cup {KeyOf(n) : n \in Held(parked)}
      /\ UNCHANGED <<sent, stage, spawned, tasks, sending, deciding, parking, rows, woken,
                     midturn, inserts, twinned, reaped, localRoute>>
      BY NoLettersFacts
      DEF FlushParked, OpenWindows, Setting, IInv, BootAlone, process, tables, commands, recovery,
          history
<1>2. Held(parked) \cap Letter = Held(parked)  BY HeldFacts
<1>3. \A n \in Letter : parked[n] \in Nat /\ woken[n] \in Nat  BY At DEF Setting
<1> QED BY <1>1, <1>2, <1>3, TwinsTaken

(* A drain or a stop takes the mid-turn queue of a session.                *)
LEMMA TwinsDrained ==
    ASSUME Setting, NEW s \in Session, Drain(s) \/ StopTarget(s)
    PROVE  UnsentIsNowhere' /\ EarlyIsAlone' /\ TwinsAreOK'
<1>1. /\ \A n \in Letter : midturn'[n] \in {0, midturn[n]}
      /\ windows' \in {windows, windows \cup {KeyOf(n) : n \in Held(midturn) \cap For(s)}}
      /\ UNCHANGED <<sent, stage, spawned, tasks, sending, deciding, parking, parked, rows, woken,
                     inserts, twinned, reaped, localRoute>>
      BY WithoutFacts DEF Drain, StopTarget, OpenWindows, Setting, IInv, TypeOK,
         process, tables, commands, recovery, clearing
<1>2. ASSUME NEW n \in Letter, KeyOf(n) \in windows'
      PROVE  KeyOf(n) \in windows \/ midturn[n] > 0
      BY <1>1, <1>2, KeysDiffer DEF Held, Setting
<1>3. ASSUME NEW b \in Letter, NEW n \in Letter PROVE Kept(b, n)'
      BY <1>1, <1>2, At DEF Kept, Nowhere, Early, Waits, Still, Alone, TwinOK, Setting
<1> QED BY <1>3, KeptSuffices

LEMMA TwinsCrash ==
    ASSUME Setting, NEW long \in BOOLEAN, Crash(long)
    PROVE  UnsentIsNowhere' /\ EarlyIsAlone' /\ TwinsAreOK'
<1>1. /\ UNCHANGED <<sent, tasks, rows, reaped>>
      /\ spawned' = {} /\ windows' = {} /\ twinned' = {} /\ stage' = "tasks"
      /\ \A n \in Letter : /\ sending'[n] = 0 /\ deciding'[n] = 0 /\ parking'[n] = 0 /\ parked'[n] = 0
                           /\ woken'[n] = 0 /\ midturn'[n] = 0 /\ inserts'[n] = 0
      BY NoLettersFacts DEF Crash
<1>2. ASSUME NEW b \in Letter, NEW n \in Letter PROVE Kept(b, n)'
      BY <1>1, At DEF Kept, Nowhere, Early, Waits, Still, Alone, TwinOK, Setting
<1> QED BY <1>2, KeptSuffices

(* The rest touches neither the letters nor the rows.                      *)
LEMMA TwinsElse ==
    ASSUME Setting,
           \/ UNCHANGED vars
           \/ \E m \in Letter : LocalTakes(m)
           \/ \E s \in Session : ExpectChannel(s) \/ TurnStarts(s) \/ TurnEnds(s)
           \/ \E s \in Session : \E o \in Session \cup {NoSession} : Occupy(s, o)
    PROVE  UnsentIsNowhere' /\ EarlyIsAlone' /\ TwinsAreOK'
<1>1. UNCHANGED <<sent, stage, spawned, tasks, windows, twinned, reaped, localRoute, sending, deciding, parking,
                  parked, woken, midturn, rows, inserts>>
      BY DEF vars, LocalTakes, ExpectChannel, TurnStarts, TurnEnds, Occupy,
         process, commands, tables, boxes, recovery, surfaces, clearing, history
<1>2. ASSUME NEW b \in Letter, NEW n \in Letter PROVE Kept(b, n)'
      BY <1>1, At DEF Kept, Nowhere, Early, Waits, Still, Alone, TwinOK, Setting
<1> QED BY <1>2, KeptSuffices

-----------------------------------------------------------------------------
(* The invariant of recover() and of the rows, and what follows from it.   *)

LEMMA BootInit == Init => TypeOK /\ BootAlone /\ ReportsAreParked
BY TypeInit, BootAloneInit

LEMMA BootNext ==
    /\ TypeOK /\ BootAlone /\ ReportsAreParked
    /\ [Next]_vars
    => (TypeOK /\ BootAlone /\ ReportsAreParked)'
BY TypeNext, BootAloneNext

(* Whatever is delivered, parked, offered or lost in a crash, every pile   *)
(* keeps natural counts of letters and every reported command has its row. *)
THEOREM PushTypes == Spec => []TypeOK
<1>1. Spec => [](TypeOK /\ BootAlone /\ ReportsAreParked)
      BY BootInit, BootNext, PTL DEF Spec
<1> QED BY <1>1, PTL

(* A command's row goes only when its session has something coming.        *)
THEOREM TaskRowsAccounted == Spec => TaskRowsGoOnlyWhenAccounted
<1> DEFINE Reported ==
      \A m \in tasks \ tasks' : sending'[m] > 0 \/ parked[m] > 0 \/ woken[m] > 0
<1>1. TypeOK /\ BootAlone /\ ReportsAreParked /\ [Next]_vars => [Reported]_vars
  <2> SUFFICES ASSUME TypeOK, ReportsAreParked, Next, NEW n \in tasks \ tasks'
               PROVE  sending'[n] > 0 \/ parked[n] > 0 \/ woken[n] > 0
      OBVIOUS
  <2> USE DEF process, commands, tables, boxes, recovery, surfaces, clearing, history
  <2>1. ASSUME NEW m \in Letter, FinishCommand(m) PROVE sending'[n] > 0
        BY <2>1, PlusFacts, PileNat DEF FinishCommand, TypeOK
  <2>2. ASSUME NEW m \in Letter, ClearReported(m) PROVE parked[n] > 0
        BY <2>2 DEF ClearReported, ReportsAreParked
  <2>3. Recovery => \E m \in Letter : ClearReported(m)
        BY DEF Recovery, ReportInterrupted, OfferRow, ReadRows, FinishRecovery
  <2>4. Produce => \E m \in Letter : FinishCommand(m)
        BY DEF Produce, Send, FollowUp, StartCommand, RecordCommand
  <2>5. ~Run
    <3>1. ASSUME NEW m \in Letter, NEW interrupt \in BOOLEAN, Deliver(m, interrupt) PROVE FALSE
          BY <3>1, DeliverFacts DEF DeliverAs
    <3> QED BY <3>1 DEF Run, Fallback, Park, WakeRuns, WakeQueues, WakeGivesUp, LocalTakes,
                        Insert, ClearPass
  <2>6. ~Surface
        BY DEF Surface, Claim, ExpectChannel, TurnStarts, TurnEnds, Drain, StopTarget, Occupy
  <2> QED BY <2>1, <2>2, <2>3, <2>4, <2>5, <2>6 DEF Next, FlushParked, Crash
<1>2. Spec => [](TypeOK /\ BootAlone /\ ReportsAreParked)
      BY BootInit, BootNext, PTL DEF Spec
<1> QED BY <1>1, <1>2, PTL DEF Spec, TaskRowsGoOnlyWhenAccounted

(* deliver_to_session wakes only the session that owns the chat, however   *)
(* long the chain of occupants and wherever the hop cap cuts it.           *)
THEOREM OwnersAlone == Spec => OnlyOwnersAreWoken
<1> DEFINE Owned ==
      \A m \in Letter :
        sending' # sending /\ inserts' = inserts /\ woken'[m] > woken[m]
          => occupant[m[1]] = NoSession
<1>1. TypeOK /\ [Next]_vars => [Owned]_vars
  <2> SUFFICES ASSUME TypeOK, Next, NEW n \in Letter,
                      sending' # sending, inserts' = inserts, woken'[n] > woken[n]
               PROVE  occupant[n[1]] = NoSession
      OBVIOUS
  <2> USE DEF process, commands, tables, boxes, recovery, surfaces, clearing, history
  <2>1. woken \in Pile /\ inserts \in Pile /\ woken[n] \in Nat  BY PileNat DEF TypeOK
  <2>2. ASSUME NEW m \in Letter, NEW interrupt \in BOOLEAN, Deliver(m, interrupt)
        PROVE  occupant[n[1]] = NoSession
    <3>1. PICK d \in Letter : d[2] = m[2] /\ DeliverAs(m, d, interrupt)
          BY <2>2, DeliverFacts
    <3>2. ASSUME ParkingRoute(d) PROVE FALSE
      <4>1. inserts'[d] = inserts[d] + 1 /\ inserts[d] \in Nat
            BY <3>2, <2>1, PlusFacts, PileNat DEF ParkingRoute
      <4> QED BY <4>1
    <3>3. ASSUME woken' = woken PROVE FALSE  BY <3>3, <2>1
    <3>4. ASSUME woken' = Plus(woken, d), OwnsItsChat(d[1]) PROVE occupant[n[1]] = NoSession
      <4>1. n = d  BY <3>4, <2>1 DEF Pile, Plus
      <4> QED BY <3>4, <4>1 DEF OwnsItsChat
    <3> QED BY <3>1, <3>2, <3>3, <3>4 DEF DeliverAs
  <2>3. ASSUME woken' = woken PROVE FALSE  BY <2>3, <2>1
  <2>4. ASSUME NEW long \in BOOLEAN, Crash(long) PROVE FALSE
        BY <2>4, <2>1, NoLettersFacts DEF Crash
  <2>5. Produce => woken' = woken
        BY DEF Produce, Send, FollowUp, StartCommand, RecordCommand, FinishCommand
  <2>6. ~Recovery
        BY DEF Recovery, ReportInterrupted, ClearReported, OfferRow, ReadRows, FinishRecovery
  <2>7. Run => \E m \in Letter, interrupt \in BOOLEAN : Deliver(m, interrupt)
        BY DEF Run, Fallback, Park, WakeRuns, WakeQueues, WakeGivesUp, LocalTakes, Insert, ClearPass
  <2>8. ~Surface /\ ~FlushParked
        BY DEF Surface, Claim, ExpectChannel, TurnStarts, TurnEnds, Drain, StopTarget, Occupy,
               FlushParked
  <2> QED BY <2>2, <2>3, <2>4, <2>5, <2>6, <2>7, <2>8 DEF Next
<1>2. Spec => []TypeOK  BY PushTypes
<1> QED BY <1>1, <1>2, PTL DEF Spec, OnlyOwnersAreWoken

(* While recover() offers, a row is still to be offered or is parked.      *)
OffersCover ==
  stage = "rows" => \A m \in Letter : rows[m] > 0 => offers[m] > 0 \/ parked[m] > 0

LEMMA OffersInit == Init => OffersCover
BY DEF Init, OffersCover

LEMMA OffersNext ==
    TypeOK /\ BootAlone /\ OffersCover /\ [Next]_vars => OffersCover'
<1> SUFFICES ASSUME TypeOK, BootAlone, OffersCover, [Next]_vars, stage' = "rows"
             PROVE  OffersCover'
    BY DEF OffersCover
<1> USE DEF process, commands, tables, boxes, recovery, surfaces, clearing, history
<1>1. CASE Recovery
  <2>1. ASSUME NEW m \in Letter, OfferRow(m) PROVE OffersCover'
        BY <2>1, OfferFacts DEF OffersCover, OfferRow
  <2>2. CASE ReadRows  BY <2>2, PileNat DEF ReadRows, OffersCover, TypeOK
  <2>3. ASSUME NEW m \in Letter, ReportInterrupted(m) \/ ClearReported(m) PROVE FALSE
        BY <2>3, <1>1 DEF ReportInterrupted, ClearReported, BootAlone
  <2>4. ~FinishRecovery  BY DEF FinishRecovery
  <2> QED BY <1>1, <2>1, <2>2, <2>3, <2>4 DEF Recovery
<1>2. ASSUME UNCHANGED <<stage, rows, offers, parked>> PROVE OffersCover'
      BY <1>2 DEF OffersCover
<1>3. CASE Produce
      BY <1>2, <1>3 DEF Produce, Send, FollowUp, StartCommand, RecordCommand, FinishCommand
<1>4. CASE Run
  <2>1. ASSUME NEW m \in Letter, NEW interrupt \in BOOLEAN, Deliver(m, interrupt)
        PROVE  UNCHANGED <<stage, rows, offers, parked>>
        BY <2>1, DeliverFacts DEF DeliverAs
  <2>2. ASSUME NEW m \in Letter, Park(m) \/ Insert(m) PROVE stage' = "up"
        BY <2>2 DEF Park, Insert, BootAlone
  <2>3. ASSUME NEW k \in Session \X Text, NEW last \in BOOLEAN, ClearPass(k, last)
        PROVE  stage' = "up"
        BY <2>3 DEF ClearPass, BootAlone
  <2> QED BY <1>2, <1>4, <2>1, <2>2, <2>3
          DEF Run, Fallback, WakeRuns, WakeQueues, WakeGivesUp, LocalTakes
<1>5. CASE Surface
      BY <1>2, <1>5 DEF Surface, Claim, ExpectChannel, TurnStarts, TurnEnds, Drain, StopTarget, Occupy
<1>6. ~FlushParked  BY DEF FlushParked, BootAlone
<1>7. ASSUME NEW long \in BOOLEAN, Crash(long) PROVE FALSE  BY <1>7 DEF Crash
<1>8. CASE UNCHANGED vars  BY <1>2, <1>8 DEF vars
<1> QED BY <1>1, <1>3, <1>4, <1>5, <1>6, <1>7, <1>8 DEF Next

(* Boot never discards a row whose push was not routed or parked first.    *)
THEOREM RowsOutliveTheirOffer == Spec => RowsGoOnlyAfterTheirOffer
<1> DEFINE Offered ==
      stage = "rows" =>
        \A m \in Letter : rows'[m] < rows[m] => parked[m] > 0 \/ woken'[m] > 0
<1>1. TypeOK /\ BootAlone /\ OffersCover /\ [Next]_vars => [Offered]_vars
  <2> SUFFICES ASSUME TypeOK, BootAlone, OffersCover, Next, stage = "rows",
                      NEW n \in Letter, rows'[n] < rows[n]
               PROVE  parked[n] > 0
      OBVIOUS
  <2> USE DEF process, commands, tables, boxes, recovery, surfaces, clearing, history
  <2>1. rows[n] \in Nat /\ rows' # rows  BY PileNat DEF TypeOK
  <2>2. CASE FinishRecovery
    <3>1. offers[n] = 0 /\ rows[n] > 0
          BY <2>2, <2>1, NoLettersFacts, WithoutFacts DEF FinishRecovery, TypeOK
    <3> QED BY <3>1, <2>1 DEF OffersCover
  <2>3. ASSUME NEW m \in Letter, OfferRow(m) PROVE FALSE  BY <2>1, <2>3, OfferFacts
  <2>4. Recovery => FinishRecovery
        BY <2>1, <2>3 DEF Recovery, ReportInterrupted, ClearReported, ReadRows
  <2>5. ~Produce
        BY <2>1 DEF Produce, Send, FollowUp, StartCommand, RecordCommand, FinishCommand
  <2>6. ~Run
    <3>1. ASSUME NEW m \in Letter, NEW interrupt \in BOOLEAN, Deliver(m, interrupt) PROVE FALSE
          BY <3>1, <2>1, DeliverFacts DEF DeliverAs
    <3>2. ASSUME NEW m \in Letter, Insert(m) PROVE FALSE  BY <3>2 DEF Insert, BootAlone
    <3>3. ASSUME NEW k \in Session \X Text, NEW last \in BOOLEAN, ClearPass(k, last) PROVE FALSE
          BY <3>3 DEF ClearPass, BootAlone
    <3> QED BY <2>1, <3>1, <3>2, <3>3
            DEF Run, Fallback, Park, WakeRuns, WakeQueues, WakeGivesUp, LocalTakes
  <2>7. ~Surface /\ ~FlushParked
        BY <2>1 DEF Surface, Claim, ExpectChannel, TurnStarts, TurnEnds, Drain, StopTarget,
                    Occupy, FlushParked
  <2> QED BY <2>1, <2>2, <2>4, <2>5, <2>6, <2>7 DEF Next, Crash
<1>2. Spec => [](TypeOK /\ BootAlone /\ OffersCover)
  <2>1. Init => TypeOK /\ BootAlone /\ ReportsAreParked /\ OffersCover
        BY BootInit, OffersInit
  <2>2. /\ TypeOK /\ BootAlone /\ ReportsAreParked /\ OffersCover
        /\ [Next]_vars
        => (TypeOK /\ BootAlone /\ ReportsAreParked /\ OffersCover)'
        BY BootNext, OffersNext
  <2> QED BY <2>1, <2>2, PTL DEF Spec
<1> QED BY <1>1, <1>2, PTL DEF Spec, RowsGoOnlyAfterTheirOffer

LEMMA TwinsInit == Init => UnsentIsNowhere /\ EarlyIsAlone /\ TwinsAreOK
BY NoLettersFacts
   DEF Init, UnsentIsNowhere, EarlyIsAlone, TwinsAreOK, TwinOK, Nowhere, Early, Waits, Still

LEMMA TwinsNext ==
    Setting /\ [Next]_vars => UnsentIsNowhere' /\ EarlyIsAlone' /\ TwinsAreOK'
<1> SUFFICES ASSUME Setting, [Next]_vars
             PROVE  UnsentIsNowhere' /\ EarlyIsAlone' /\ TwinsAreOK'
    OBVIOUS
<1>1. CASE Recovery  BY <1>1, TwinsRecovery
<1>2. CASE Produce
      BY <1>2, TwinsSend, TwinsFollowUp, TwinsStartCommand, TwinsRecordCommand, TwinsFinishCommand
      DEF Produce
<1>3. CASE Run
      BY <1>3, TwinsDeliver, TwinsFallback, TwinsPark, TwinsWakeRuns, TwinsWakeQueues,
         TwinsWakeGivesUp, TwinsInsert, TwinsClearPass, TwinsElse
      DEF Run
<1>4. CASE Surface
      BY <1>4, TwinsClaim, TwinsDrained, TwinsElse DEF Surface
<1>5. CASE FlushParked  BY <1>5, TwinsFlush
<1>6. CASE \E long \in BOOLEAN : Crash(long)  BY <1>6, TwinsCrash
<1>7. CASE UNCHANGED vars  BY <1>7, TwinsElse
<1> QED BY <1>1, <1>2, <1>3, <1>4, <1>5, <1>6, <1>7 DEF Next

(* Where the pushes' texts differ and no process parks by default, a       *)
(* parked push has its durable row, through any claims, redirects, mid-turn *)
(* queues, clears and restarts, until the reaper takes it by name.         *)
THEOREM ParkedPushesHaveRows ==
    ASSUME TextsDiffer, "parking" \notin LocalRoutes
    PROVE  Spec => []ParkedKeepsItsRow
<1>1. Init => IInv
      BY BootInit, TwinsInit DEF IInv
<1>2. IInv /\ [Next]_vars => IInv'
  <2>1. IInv => Setting  BY DEF Setting
  <2> QED BY <2>1, BootNext, TwinsNext DEF IInv
<1>3. IInv => ParkedKeepsItsRow
  <2> SUFFICES ASSUME IInv, NEW m \in twinned, parked[m] > 0, inserts[m] = 0
               PROVE  rows[m] > 0 \/ m \in reaped
      BY DEF ParkedKeepsItsRow
  <2>1. m \in Letter /\ localRoute # "parking"  BY DEF IInv, TypeOK
  <2> QED BY <2>1 DEF IInv, TwinsAreOK, TwinOK, Waits
<1> QED BY <1>1, <1>2, <1>3, PTL DEF Spec

-----------------------------------------------------------------------------
(* Nothing lost and nothing twice before a restart.                        *)

Carried(m) == sending[m] + deciding[m] + parking[m] + parked[m] + woken[m] + local[m] + midturn[m]

(* In how many places letter m is, a command that runs included.           *)
Copies(m) == Carried(m) + (IF m \in spawned THEN 1 ELSE 0) + (IF m \in tasks THEN 1 ELSE 0)

(* In the first process recover() finds nothing.                           *)
FirstBootIsEmpty ==
  boot = 1 /\ stage # "up" =>
    tasks = {} /\ \A m \in Letter : rows[m] = 0 /\ offers[m] = 0

(* One copy at most, and none once the push is settled.                    *)
OneCopy(m, n) ==
  /\ Copies(n) <= 1
  /\ n[2] \notin sent => Copies(n) = 0
  /\ Settled(n[2]) => Copies(n) = 0 /\ n[2] \in sent
  /\ m[2] = n[2] /\ Copies(m) > 0 /\ Copies(n) > 0 => m = n

CopiesAreOne ==
  boot = 1 => /\ \A p \in Push : heard[p] <= 1
              /\ \A m, n \in Letter : OneCopy(m, n)

(* And one copy at least, until then.                                      *)
SentArePlaced ==
  boot = 1 => \A p \in sent : Settled(p) \/ \E n \in Letter : n[2] = p /\ Copies(n) > 0

Tracked == FirstBootIsEmpty /\ CopiesAreOne /\ SentArePlaced

Ground == TypeOK /\ BootAlone /\ Tracked

(* Seven counts that add up to one at most.                                *)
LEMMA SevenCounts ==
    ASSUME NEW a \in Nat, NEW b \in Nat, NEW c \in Nat, NEW d \in Nat, NEW e \in Nat,
           NEW f \in Nat, NEW g \in Nat, a + b + c + d + e + f + g <= 1
    PROVE  /\ a <= 1 /\ b <= 1 /\ c <= 1 /\ d <= 1 /\ e <= 1 /\ f <= 1 /\ g <= 1
           /\ a + b + c + d + e + f + g = 1 =>
                \/ a = 1 /\ b = 0 /\ c = 0 /\ d = 0 /\ e = 0 /\ f = 0 /\ g = 0
                \/ a = 0 /\ b = 1 /\ c = 0 /\ d = 0 /\ e = 0 /\ f = 0 /\ g = 0
                \/ a = 0 /\ b = 0 /\ c = 1 /\ d = 0 /\ e = 0 /\ f = 0 /\ g = 0
                \/ a = 0 /\ b = 0 /\ c = 0 /\ d = 1 /\ e = 0 /\ f = 0 /\ g = 0
                \/ a = 0 /\ b = 0 /\ c = 0 /\ d = 0 /\ e = 1 /\ f = 0 /\ g = 0
                \/ a = 0 /\ b = 0 /\ c = 0 /\ d = 0 /\ e = 0 /\ f = 1 /\ g = 0
                \/ a = 0 /\ b = 0 /\ c = 0 /\ d = 0 /\ e = 0 /\ f = 0 /\ g = 1
           /\ a + b + c + d + e + f + g = 0 =>
                a = 0 /\ b = 0 /\ c = 0 /\ d = 0 /\ e = 0 /\ f = 0 /\ g = 0
OBVIOUS

LEMMA Counts ==
    ASSUME TypeOK, NEW n \in Letter
    PROVE  /\ sending[n] \in Nat /\ deciding[n] \in Nat /\ parking[n] \in Nat
           /\ parked[n] \in Nat /\ woken[n] \in Nat /\ local[n] \in Nat
           /\ midturn[n] \in Nat /\ heard[n[2]] \in Nat
BY PileNat, LetterFacts DEF TypeOK

LEMMA One ==
    ASSUME Ground, boot = 1, NEW m \in Letter, NEW n \in Letter
    PROVE  OneCopy(m, n) /\ Copies(n) \in Nat
BY Counts DEF Ground, Tracked, CopiesAreOne, Copies, Carried

LEMMA HeardOnce ==
    ASSUME Ground, boot = 1, NEW p \in Push
    PROVE  heard[p] <= 1
BY DEF Ground, Tracked, CopiesAreOne

(* A step keeps them when it moves one copy, or none ...                   *)
LEMMA TrackedMove ==
    ASSUME Ground, boot = 1, boot' = 1, FirstBootIsEmpty',
           UNCHANGED <<sent, heard, dropped, stopped>>,
           NEW m \in Letter, NEW d \in Letter, d[2] = m[2],
           d # m => Copies(m) > 0,
           \A n \in Letter :
             Copies(n)' = IF d = m THEN Copies(n)
                          ELSE IF n = m THEN Copies(n) - 1
                          ELSE IF n = d THEN Copies(n) + 1 ELSE Copies(n)
    PROVE  Tracked'
<1>1. ASSUME NEW b \in Letter, NEW n \in Letter PROVE OneCopy(b, n)'
  <2>1. OneCopy(b, n) /\ OneCopy(m, b) /\ OneCopy(m, n) /\ OneCopy(n, m) /\ OneCopy(b, m)
        BY One
  <2>2. OneCopy(m, d)  BY One
  <2>3. Copies(b) \in Nat /\ Copies(n) \in Nat /\ Copies(m) \in Nat /\ Copies(d) \in Nat  BY One
  <2> QED BY <2>1, <2>2, <2>3 DEF OneCopy, Settled
<1>2. ASSUME NEW n \in Letter, Copies(n) > 0
      PROVE  \E e \in Letter : e[2] = n[2] /\ Copies(e)' > 0
  <2>1. CASE n = m /\ d # m
    <3>1. Copies(d)' > 0  BY <2>1, One
    <3> QED BY <2>1, <3>1
  <2>2. CASE ~(n = m /\ d # m)
    <3>1. Copies(n)' > 0  BY <2>2, <1>2, One
    <3> QED BY <3>1
  <2> QED BY <2>1, <2>2
<1>3. SentArePlaced'
      BY <1>2 DEF Ground, Tracked, SentArePlaced, Settled
<1> QED BY <1>1, <1>3 DEF Ground, Tracked, CopiesAreOne

(* ... makes the first copy of a new push ...                              *)
LEMMA TrackedNew ==
    ASSUME Ground, boot = 1, boot' = 1, FirstBootIsEmpty',
           UNCHANGED <<heard, dropped, stopped>>,
           NEW m \in Letter, m[2] \notin sent, sent' = sent \cup {m[2]},
           \A n \in Letter : Copies(n)' = IF n = m THEN Copies(n) + 1 ELSE Copies(n)
    PROVE  Tracked'
<1>1. ASSUME NEW b \in Letter, NEW n \in Letter PROVE OneCopy(b, n)'
  <2>1. OneCopy(b, n) /\ OneCopy(n, b) /\ OneCopy(b, m)  BY One
  <2>2. Copies(b) \in Nat /\ Copies(n) \in Nat /\ Copies(m) \in Nat  BY One
  <2> QED BY <2>1, <2>2 DEF OneCopy, Settled
<1>2. Copies(m)' > 0  BY One
<1>3. ASSUME NEW n \in Letter, Copies(n) > 0 PROVE Copies(n)' > 0  BY <1>3, One
<1>4. SentArePlaced'
      BY <1>2, <1>3 DEF Ground, Tracked, SentArePlaced, Settled
<1> QED BY <1>1, <1>4 DEF Ground, Tracked, CopiesAreOne

(* ... settles the pushes of the copies it takes away ...                  *)
LEMMA TrackedSettle ==
    ASSUME Ground, boot = 1, boot' = 1, FirstBootIsEmpty', UNCHANGED sent,
           NEW S \in SUBSET Letter, \A n \in S : Copies(n) > 0,
           \A n \in Letter : Copies(n)' = IF n \in S THEN 0 ELSE Copies(n),
           \A p \in Push : heard'[p] <= 1,
           \A p \in Push : Settled(p)' <=> Settled(p) \/ \E n \in S : n[2] = p
    PROVE  Tracked'
<1>1. ASSUME NEW b \in Letter, NEW n \in Letter PROVE OneCopy(b, n)'
  <2>1. OneCopy(b, n) /\ Copies(b) \in Nat /\ Copies(n) \in Nat  BY One
  <2>2. \A e \in S : e[2] = n[2] /\ Copies(n) > 0 => e = n
        BY One DEF OneCopy
  <2>3. \A e \in S : e[2] \in sent  BY One DEF OneCopy
  <2>4. n[2] \in Push  BY LetterFacts
  <2> QED BY <2>1, <2>2, <2>3, <2>4 DEF OneCopy
<1>2. ASSUME NEW p \in sent
      PROVE  Settled(p)' \/ \E n \in Letter : n[2] = p /\ Copies(n)' > 0
  <2>1. p \in Push  BY DEF Ground, TypeOK
  <2>2. CASE Settled(p)  BY <2>1, <2>2
  <2>3. CASE \E n \in Letter : n[2] = p /\ Copies(n) > 0  BY <2>1, <2>3
  <2> QED BY <2>2, <2>3 DEF Ground, Tracked, SentArePlaced
<1>3. SentArePlaced'  BY <1>2 DEF SentArePlaced
<1> QED BY <1>1, <1>3 DEF Ground, Tracked, CopiesAreOne

(* ... or takes back the copy of a push that is declined.                  *)
LEMMA TrackedDecline ==
    ASSUME Ground, boot = 1, boot' = 1, FirstBootIsEmpty',
           UNCHANGED <<heard, dropped, stopped>>,
           NEW m \in Letter, Copies(m) > 0, sent' = sent \ {m[2]},
           \A n \in Letter : Copies(n)' = IF n = m THEN Copies(n) - 1 ELSE Copies(n)
    PROVE  Tracked'
<1>1. ASSUME NEW b \in Letter, NEW n \in Letter PROVE OneCopy(b, n)'
  <2>1. OneCopy(b, n) /\ OneCopy(m, n) /\ OneCopy(m, b) /\ OneCopy(b, m)  BY One
  <2>2. Copies(b) \in Nat /\ Copies(n) \in Nat /\ Copies(m) \in Nat  BY One
  <2> QED BY <2>1, <2>2 DEF OneCopy, Settled
<1>2. ASSUME NEW n \in Letter, Copies(n) > 0, n[2] # m[2] PROVE Copies(n)' > 0  BY <1>2, One
<1>3. SentArePlaced'
      BY <1>2 DEF Ground, Tracked, SentArePlaced, Settled
<1> QED BY <1>1, <1>3 DEF Ground, Tracked, CopiesAreOne

LEMMA TrackedRecordCommand ==
    ASSUME Ground, boot = 1, NEW m \in Letter, RecordCommand(m)
    PROVE  Tracked'
<1>1. /\ spawned' = spawned \ {m} /\ tasks' = tasks \cup {m} /\ m \in spawned
      /\ UNCHANGED <<sent, heard, dropped, stopped, boot, sending, deciding, parking, parked, woken, local, midturn>>
  <2>1. spawned' = spawned \ {m} /\ tasks' = tasks \cup {m} /\ m \in spawned
        BY DEF RecordCommand
  <2>2. UNCHANGED <<sent, heard, dropped, stopped, boot, sending, deciding, parking, parked, woken, local, midturn>>
        BY DEF RecordCommand, process, commands, tables, boxes, recovery,
               surfaces, clearing, history
  <2> QED BY <2>1, <2>2
<1>2. FirstBootIsEmpty'
      BY DEF RecordCommand, Ground, Tracked, FirstBootIsEmpty, BootAlone, process, tables, commands, recovery
<1>3. ASSUME NEW n \in Letter PROVE Copies(n)' = Copies(n)
  <2>1. Carried(m) \in Nat /\ Copies(m) <= 1
        BY One, Counts DEF Ground, OneCopy, Carried
  <2>2. Copies(m)' = Copies(m)
    <3>1. m \notin spawned \cap tasks  BY <2>1 DEF Copies
    <3> QED BY <1>1, <3>1, Counts DEF Ground, Copies, Carried
  <2>3. CASE n # m  BY <1>1, <2>3, Counts DEF Ground, Copies, Carried
  <2> QED BY <2>2, <2>3
<1> QED BY <1>1, <1>2, <1>3, TrackedMove

LEMMA TrackedFinishCommand ==
    ASSUME Ground, boot = 1, NEW m \in Letter, FinishCommand(m)
    PROVE  Tracked'
<1>1. /\ tasks' = tasks \ {m} /\ m \in tasks
      /\ \A n \in Letter : sending'[n] = IF n = m THEN sending[n] + 1 ELSE sending[n]
      /\ UNCHANGED <<sent, heard, dropped, stopped, boot, spawned, deciding, parking, parked, woken, local, midturn>>
  <2>1. tasks' = tasks \ {m} /\ m \in tasks
        BY DEF FinishCommand
  <2>2. \A n \in Letter : sending'[n] = IF n = m THEN sending[n] + 1 ELSE sending[n]
        BY DEF Ground, TypeOK, Pile, Plus, FinishCommand
  <2>3. UNCHANGED <<sent, heard, dropped, stopped, boot, spawned, deciding, parking, parked, woken, local, midturn>>
        BY DEF FinishCommand, process, commands, tables, boxes, recovery,
               surfaces, clearing, history
  <2> QED BY <2>1, <2>2, <2>3
<1>2. FirstBootIsEmpty'
      BY DEF FinishCommand, Ground, Tracked, FirstBootIsEmpty, BootAlone, process, tables, commands, recovery
<1>3. ASSUME NEW n \in Letter PROVE Copies(n)' = Copies(n)
  <2>1. Carried(m) \in Nat /\ Copies(m) <= 1
        BY One, Counts DEF Ground, OneCopy, Carried
  <2>2. Copies(m)' = Copies(m)
    <3>1. m \notin spawned \cap tasks  BY <2>1 DEF Copies
    <3> QED BY <1>1, <3>1, Counts DEF Ground, Copies, Carried
  <2>3. CASE n # m  BY <1>1, <2>3, Counts DEF Ground, Copies, Carried
  <2> QED BY <2>2, <2>3
<1> QED BY <1>1, <1>2, <1>3, TrackedMove

LEMMA TrackedPark ==
    ASSUME Ground, boot = 1, NEW m \in Letter, Park(m)
    PROVE  Tracked'
<1>1. /\ parking[m] > 0
      /\ \A n \in Letter : parking'[n] = IF n = m THEN parking[n] - 1 ELSE parking[n]
      /\ \A n \in Letter : parked'[n] = IF n = m THEN parked[n] + 1 ELSE parked[n]
      /\ UNCHANGED <<sent, heard, dropped, stopped, boot, spawned, tasks, sending, deciding, woken, local, midturn>>
  <2>1. parking[m] > 0
        BY DEF Park
  <2>2. \A n \in Letter : parking'[n] = IF n = m THEN parking[n] - 1 ELSE parking[n]
        BY DEF Ground, TypeOK, Pile, Minus, Park
  <2>3. \A n \in Letter : parked'[n] = IF n = m THEN parked[n] + 1 ELSE parked[n]
        BY DEF Ground, TypeOK, Pile, Plus, Park
  <2>4. UNCHANGED <<sent, heard, dropped, stopped, boot, spawned, tasks, sending, deciding, woken, local, midturn>>
        BY DEF Park, process, commands, tables, boxes, recovery,
               surfaces, clearing, history
  <2> QED BY <2>1, <2>2, <2>3, <2>4
<1>2. FirstBootIsEmpty'
      BY DEF Park, Ground, Tracked, FirstBootIsEmpty, BootAlone, process, tables, commands, recovery
<1>3. ASSUME NEW n \in Letter PROVE Copies(n)' = Copies(n)
  <2>1. Carried(m) \in Nat /\ Copies(m) <= 1
        BY One, Counts DEF Ground, OneCopy, Carried
  <2>2. Copies(m)' = Copies(m)
    <3>1. m \notin spawned \cap tasks  BY <2>1 DEF Copies
    <3> QED BY <1>1, <3>1, Counts DEF Ground, Copies, Carried
  <2>3. CASE n # m  BY <1>1, <2>3, Counts DEF Ground, Copies, Carried
  <2> QED BY <2>2, <2>3
<1> QED BY <1>1, <1>2, <1>3, TrackedMove

LEMMA TrackedWakeQueues ==
    ASSUME Ground, boot = 1, NEW m \in Letter, WakeQueues(m)
    PROVE  Tracked'
<1>1. /\ woken[m] > 0
      /\ \A n \in Letter : woken'[n] = IF n = m THEN woken[n] - 1 ELSE woken[n]
      /\ \A n \in Letter : midturn'[n] = IF n = m THEN midturn[n] + 1 ELSE midturn[n]
      /\ UNCHANGED <<sent, heard, dropped, stopped, boot, spawned, tasks, sending, deciding, parking, parked, local>>
  <2>1. woken[m] > 0
        BY DEF WakeQueues
  <2>2. \A n \in Letter : woken'[n] = IF n = m THEN woken[n] - 1 ELSE woken[n]
        BY DEF Ground, TypeOK, Pile, Minus, WakeQueues
  <2>3. \A n \in Letter : midturn'[n] = IF n = m THEN midturn[n] + 1 ELSE midturn[n]
        BY DEF Ground, TypeOK, Pile, Plus, WakeQueues
  <2>4. UNCHANGED <<sent, heard, dropped, stopped, boot, spawned, tasks, sending, deciding, parking, parked, local>>
        BY DEF WakeQueues, process, commands, tables, boxes, recovery,
               surfaces, clearing, history
  <2> QED BY <2>1, <2>2, <2>3, <2>4
<1>2. FirstBootIsEmpty'
      BY DEF WakeQueues, Ground, Tracked, FirstBootIsEmpty, BootAlone, process, tables, commands, recovery
<1>3. ASSUME NEW n \in Letter PROVE Copies(n)' = Copies(n)
  <2>1. Carried(m) \in Nat /\ Copies(m) <= 1
        BY One, Counts DEF Ground, OneCopy, Carried
  <2>2. Copies(m)' = Copies(m)
    <3>1. m \notin spawned \cap tasks  BY <2>1 DEF Copies
    <3> QED BY <1>1, <3>1, Counts DEF Ground, Copies, Carried
  <2>3. CASE n # m  BY <1>1, <2>3, Counts DEF Ground, Copies, Carried
  <2> QED BY <2>2, <2>3
<1> QED BY <1>1, <1>2, <1>3, TrackedMove

LEMMA TrackedSend ==
    ASSUME Ground, boot = 1, NEW m \in Letter, Send(m)
    PROVE  Tracked'
<1>1. /\ \A n \in Letter : sending'[n] = IF n = m THEN sending[n] + 1 ELSE sending[n]
      /\ UNCHANGED <<heard, dropped, stopped, boot, spawned, tasks, deciding, parking, parked, woken, local, midturn>>
  <2>1. \A n \in Letter : sending'[n] = IF n = m THEN sending[n] + 1 ELSE sending[n]
        BY DEF Ground, TypeOK, Pile, Plus, Send
  <2>2. UNCHANGED <<heard, dropped, stopped, boot, spawned, tasks, deciding, parking, parked, woken, local, midturn>>
        BY DEF Send, process, commands, tables, boxes, recovery,
               surfaces, clearing, history
  <2> QED BY <2>1, <2>2
<1>2. FirstBootIsEmpty'
      BY DEF Send, Ground, Tracked, FirstBootIsEmpty, BootAlone, process, tables, commands, recovery
<1>3. m[2] \notin sent /\ sent' = sent \cup {m[2]}  BY DEF Send
<1>4. ASSUME NEW n \in Letter PROVE Copies(n)' = IF n = m THEN Copies(n) + 1 ELSE Copies(n)
  <2>1. Copies(m) = 0  BY <1>3, One DEF OneCopy
  <2>2. m \notin spawned /\ m \notin tasks
        BY <2>1, Counts DEF Ground, Copies, Carried
  <2>3. Copies(m)' = Copies(m) + 1
        BY <1>1, <2>2, Counts DEF Ground, Copies, Carried
  <2>4. CASE n # m   BY <1>1, <2>4, Counts DEF Ground, Copies, Carried
  <2> QED BY <2>3, <2>4
<1> QED BY <1>1, <1>2, <1>3, <1>4, TrackedNew

LEMMA TrackedFollowUp ==
    ASSUME Ground, boot = 1, NEW m \in Letter, FollowUp(m)
    PROVE  Tracked'
<1>1. /\ \A n \in Letter : midturn'[n] = IF n = m THEN midturn[n] + 1 ELSE midturn[n]
      /\ UNCHANGED <<heard, dropped, stopped, boot, spawned, tasks, sending, deciding, parking, parked, woken, local>>
  <2>1. \A n \in Letter : midturn'[n] = IF n = m THEN midturn[n] + 1 ELSE midturn[n]
        BY DEF Ground, TypeOK, Pile, Plus, FollowUp
  <2>2. UNCHANGED <<heard, dropped, stopped, boot, spawned, tasks, sending, deciding, parking, parked, woken, local>>
        BY DEF FollowUp, process, commands, tables, boxes, recovery,
               surfaces, clearing, history
  <2> QED BY <2>1, <2>2
<1>2. FirstBootIsEmpty'
      BY DEF FollowUp, Ground, Tracked, FirstBootIsEmpty, BootAlone, process, tables, commands, recovery
<1>3. m[2] \notin sent /\ sent' = sent \cup {m[2]}  BY DEF FollowUp
<1>4. ASSUME NEW n \in Letter PROVE Copies(n)' = IF n = m THEN Copies(n) + 1 ELSE Copies(n)
  <2>1. Copies(m) = 0  BY <1>3, One DEF OneCopy
  <2>2. m \notin spawned /\ m \notin tasks
        BY <2>1, Counts DEF Ground, Copies, Carried
  <2>3. Copies(m)' = Copies(m) + 1
        BY <1>1, <2>2, Counts DEF Ground, Copies, Carried
  <2>4. CASE n # m   BY <1>1, <2>4, Counts DEF Ground, Copies, Carried
  <2> QED BY <2>3, <2>4
<1> QED BY <1>1, <1>2, <1>3, <1>4, TrackedNew

LEMMA TrackedStartCommand ==
    ASSUME Ground, boot = 1, NEW m \in Letter, StartCommand(m)
    PROVE  Tracked'
<1>1. /\ spawned' = spawned \cup {m}
      /\ UNCHANGED <<heard, dropped, stopped, boot, tasks, sending, deciding, parking, parked, woken, local, midturn>>
  <2>1. spawned' = spawned \cup {m}
        BY DEF StartCommand
  <2>2. UNCHANGED <<heard, dropped, stopped, boot, tasks, sending, deciding, parking, parked, woken, local, midturn>>
        BY DEF StartCommand, process, commands, tables, boxes, recovery,
               surfaces, clearing, history
  <2> QED BY <2>1, <2>2
<1>2. FirstBootIsEmpty'
      BY DEF StartCommand, Ground, Tracked, FirstBootIsEmpty, BootAlone, process, tables, commands, recovery
<1>3. m[2] \notin sent /\ sent' = sent \cup {m[2]}  BY DEF StartCommand
<1>4. ASSUME NEW n \in Letter PROVE Copies(n)' = IF n = m THEN Copies(n) + 1 ELSE Copies(n)
  <2>1. Copies(m) = 0  BY <1>3, One DEF OneCopy
  <2>2. m \notin spawned /\ m \notin tasks
        BY <2>1, Counts DEF Ground, Copies, Carried
  <2>3. Copies(m)' = Copies(m) + 1
        BY <1>1, <2>2, Counts DEF Ground, Copies, Carried
  <2>4. CASE n # m   BY <1>1, <2>4, Counts DEF Ground, Copies, Carried
  <2> QED BY <2>3, <2>4
<1> QED BY <1>1, <1>2, <1>3, <1>4, TrackedNew

LEMMA TrackedWakeRuns ==
    ASSUME Ground, boot = 1, NEW m \in Letter, WakeRuns(m)
    PROVE  Tracked'
<1>1. /\ woken[m] > 0
      /\ \A n \in Letter : woken'[n] = IF n = m THEN woken[n] - 1 ELSE woken[n]
      /\ \A p \in Push : heard'[p] = IF p = m[2] THEN heard[p] + 1 ELSE heard[p]
      /\ UNCHANGED <<sent, dropped, stopped, boot, spawned, tasks, sending, deciding, parking, parked, local, midturn>>
  <2>1. woken[m] > 0
        BY DEF WakeRuns
  <2>2. \A n \in Letter : woken'[n] = IF n = m THEN woken[n] - 1 ELSE woken[n]
        BY DEF Ground, TypeOK, Pile, Minus, WakeRuns
  <2>3. \A p \in Push : heard'[p] = IF p = m[2] THEN heard[p] + 1 ELSE heard[p]
        BY LetterFacts DEF Ground, TypeOK, WakeRuns
  <2>4. UNCHANGED <<sent, dropped, stopped, boot, spawned, tasks, sending, deciding, parking, parked, local, midturn>>
        BY DEF WakeRuns, process, commands, tables, boxes, recovery,
               surfaces, clearing, history
  <2> QED BY <2>1, <2>2, <2>3, <2>4
<1>2. FirstBootIsEmpty'
      BY DEF WakeRuns, Ground, Tracked, FirstBootIsEmpty, BootAlone, process, tables, commands, recovery
<1>3. Copies(m) > 0 /\ Copies(m) <= 1 /\ ~Settled(m[2])
  <2>1. OneCopy(m, m)  BY One
  <2>2. Copies(m) > 0  BY <1>1, Counts DEF Ground, Copies, Carried
  <2> QED BY <2>1, <2>2 DEF OneCopy
<1>4. ASSUME NEW n \in Letter PROVE Copies(n)' = IF n \in {m} THEN 0 ELSE Copies(n)
  <2>1. Copies(m)' = Copies(m) - 1 /\ Copies(m) \in Nat
        BY <1>1, Counts DEF Ground, Copies, Carried
  <2>2. CASE n # m   BY <1>1, <2>2, Counts DEF Ground, Copies, Carried
  <2> QED BY <1>3, <2>1, <2>2
<1>5. \A p \in Push : heard'[p] <= 1
  <2>1. \A p \in Push : heard[p] \in Nat /\ (p = m[2] => heard[p] = 0)
        BY <1>3 DEF Ground, TypeOK, Settled
  <2>2. \A p \in Push : heard[p] <= 1  BY HeardOnce, LetterFacts
  <2> QED BY <1>1, <2>1, <2>2
<1>6. \A p \in Push : Settled(p)' <=> Settled(p) \/ p = m[2]
  <2>1. \A p \in Push : heard[p] \in Nat  BY DEF Ground, TypeOK
  <2> QED BY <1>1, <2>1 DEF Settled
<1>7. /\ \A n \in {m} : Copies(n) > 0
      /\ \A p \in Push : Settled(p)' <=> Settled(p) \/ \E n \in {m} : n[2] = p
      BY <1>3, <1>6
<1>8. UNCHANGED sent /\ boot' = 1 /\ {m} \in SUBSET Letter  BY <1>1
<1> QED BY <1>2, <1>4, <1>5, <1>7, <1>8, TrackedSettle

LEMMA TrackedWakeGivesUp ==
    ASSUME Ground, boot = 1, NEW m \in Letter, WakeGivesUp(m)
    PROVE  Tracked'
<1>1. /\ woken[m] > 0
      /\ \A n \in Letter : woken'[n] = IF n = m THEN woken[n] - 1 ELSE woken[n]
      /\ dropped' = dropped \cup {m[2]}
      /\ UNCHANGED <<sent, heard, stopped, boot, spawned, tasks, sending, deciding, parking, parked, local, midturn>>
  <2>1. woken[m] > 0
        BY DEF WakeGivesUp
  <2>2. \A n \in Letter : woken'[n] = IF n = m THEN woken[n] - 1 ELSE woken[n]
        BY DEF Ground, TypeOK, Pile, Minus, WakeGivesUp
  <2>3. dropped' = dropped \cup {m[2]}
        BY DEF WakeGivesUp
  <2>4. UNCHANGED <<sent, heard, stopped, boot, spawned, tasks, sending, deciding, parking, parked, local, midturn>>
        BY DEF WakeGivesUp, process, commands, tables, boxes, recovery,
               surfaces, clearing, history
  <2> QED BY <2>1, <2>2, <2>3, <2>4
<1>2. FirstBootIsEmpty'
      BY DEF WakeGivesUp, Ground, Tracked, FirstBootIsEmpty, BootAlone, process, tables, commands, recovery
<1>3. Copies(m) > 0 /\ Copies(m) <= 1 /\ ~Settled(m[2])
  <2>1. OneCopy(m, m)  BY One
  <2>2. Copies(m) > 0  BY <1>1, Counts DEF Ground, Copies, Carried
  <2> QED BY <2>1, <2>2 DEF OneCopy
<1>4. ASSUME NEW n \in Letter PROVE Copies(n)' = IF n \in {m} THEN 0 ELSE Copies(n)
  <2>1. Copies(m)' = Copies(m) - 1 /\ Copies(m) \in Nat
        BY <1>1, Counts DEF Ground, Copies, Carried
  <2>2. CASE n # m   BY <1>1, <2>2, Counts DEF Ground, Copies, Carried
  <2> QED BY <1>3, <2>1, <2>2
<1>5. \A p \in Push : heard'[p] <= 1
  <2>1. \A p \in Push : heard[p] \in Nat /\ (p = m[2] => heard[p] = 0)
        BY <1>3 DEF Ground, TypeOK, Settled
  <2>2. \A p \in Push : heard[p] <= 1  BY HeardOnce, LetterFacts
  <2> QED BY <1>1, <2>1, <2>2
<1>6. \A p \in Push : Settled(p)' <=> Settled(p) \/ p = m[2]
  <2>1. \A p \in Push : heard[p] \in Nat  BY DEF Ground, TypeOK
  <2> QED BY <1>1, <2>1 DEF Settled
<1>7. /\ \A n \in {m} : Copies(n) > 0
      /\ \A p \in Push : Settled(p)' <=> Settled(p) \/ \E n \in {m} : n[2] = p
      BY <1>3, <1>6
<1>8. UNCHANGED sent /\ boot' = 1 /\ {m} \in SUBSET Letter  BY <1>1
<1> QED BY <1>2, <1>4, <1>5, <1>7, <1>8, TrackedSettle

LEMMA TrackedLocalTakes ==
    ASSUME Ground, boot = 1, NEW m \in Letter, LocalTakes(m)
    PROVE  Tracked'
<1>1. /\ local[m] > 0
      /\ \A n \in Letter : local'[n] = IF n = m THEN local[n] - 1 ELSE local[n]
      /\ \A p \in Push : heard'[p] = IF p = m[2] THEN heard[p] + 1 ELSE heard[p]
      /\ UNCHANGED <<sent, dropped, stopped, boot, spawned, tasks, sending, deciding, parking, parked, woken, midturn>>
  <2>1. local[m] > 0
        BY DEF LocalTakes
  <2>2. \A n \in Letter : local'[n] = IF n = m THEN local[n] - 1 ELSE local[n]
        BY DEF Ground, TypeOK, Pile, Minus, LocalTakes
  <2>3. \A p \in Push : heard'[p] = IF p = m[2] THEN heard[p] + 1 ELSE heard[p]
        BY LetterFacts DEF Ground, TypeOK, LocalTakes
  <2>4. UNCHANGED <<sent, dropped, stopped, boot, spawned, tasks, sending, deciding, parking, parked, woken, midturn>>
        BY DEF LocalTakes, process, commands, tables, boxes, recovery,
               surfaces, clearing, history
  <2> QED BY <2>1, <2>2, <2>3, <2>4
<1>2. FirstBootIsEmpty'
      BY DEF LocalTakes, Ground, Tracked, FirstBootIsEmpty, BootAlone, process, tables, commands, recovery
<1>3. Copies(m) > 0 /\ Copies(m) <= 1 /\ ~Settled(m[2])
  <2>1. OneCopy(m, m)  BY One
  <2>2. Copies(m) > 0  BY <1>1, Counts DEF Ground, Copies, Carried
  <2> QED BY <2>1, <2>2 DEF OneCopy
<1>4. ASSUME NEW n \in Letter PROVE Copies(n)' = IF n \in {m} THEN 0 ELSE Copies(n)
  <2>1. Copies(m)' = Copies(m) - 1 /\ Copies(m) \in Nat
        BY <1>1, Counts DEF Ground, Copies, Carried
  <2>2. CASE n # m   BY <1>1, <2>2, Counts DEF Ground, Copies, Carried
  <2> QED BY <1>3, <2>1, <2>2
<1>5. \A p \in Push : heard'[p] <= 1
  <2>1. \A p \in Push : heard[p] \in Nat /\ (p = m[2] => heard[p] = 0)
        BY <1>3 DEF Ground, TypeOK, Settled
  <2>2. \A p \in Push : heard[p] <= 1  BY HeardOnce, LetterFacts
  <2> QED BY <1>1, <2>1, <2>2
<1>6. \A p \in Push : Settled(p)' <=> Settled(p) \/ p = m[2]
  <2>1. \A p \in Push : heard[p] \in Nat  BY DEF Ground, TypeOK
  <2> QED BY <1>1, <2>1 DEF Settled
<1>7. /\ \A n \in {m} : Copies(n) > 0
      /\ \A p \in Push : Settled(p)' <=> Settled(p) \/ \E n \in {m} : n[2] = p
      BY <1>3, <1>6
<1>8. UNCHANGED sent /\ boot' = 1 /\ {m} \in SUBSET Letter  BY <1>1
<1> QED BY <1>2, <1>4, <1>5, <1>7, <1>8, TrackedSettle

LEMMA TrackedDeliver ==
    ASSUME Ground, boot = 1, NEW m \in Letter, NEW interrupt \in BOOLEAN, Deliver(m, interrupt)
    PROVE  Tracked'
<1>1. PICK d \in Letter : d[2] = m[2] /\ DeliverAs(m, d, interrupt)
      BY DeliverFacts
<1>2. /\ sending[m] > 0
      /\ \A n \in Letter : sending'[n] = IF n = m THEN sending[n] - 1 ELSE sending[n]
      /\ UNCHANGED <<heard, dropped, stopped, boot, spawned, tasks, parked, local, midturn>>
      BY <1>1, MinusFacts DEF DeliverAs, Ground, TypeOK, process, tables, commands
<1>3. FirstBootIsEmpty'
      BY <1>1 DEF DeliverAs, Ground, Tracked, FirstBootIsEmpty, process, tables, commands, recovery
<1>4. Copies(m) > 0  BY <1>2, Counts DEF Ground, Copies, Carried
<1>5. CASE /\ UNCHANGED sent
           /\ \/ /\ \A n \in Letter : woken'[n] = IF n = d THEN woken[n] + 1 ELSE woken[n]
                 /\ UNCHANGED <<parking, deciding>>
              \/ /\ \A n \in Letter : parking'[n] = IF n = d THEN parking[n] + 1 ELSE parking[n]
                 /\ UNCHANGED <<woken, deciding>>
              \/ /\ \A n \in Letter : deciding'[n] = IF n = d THEN deciding[n] + 1 ELSE deciding[n]
                 /\ UNCHANGED <<woken, parking>>
  <2>1. ASSUME NEW n \in Letter
        PROVE  Copies(n)' = IF d = m THEN Copies(n)
                            ELSE IF n = m THEN Copies(n) - 1
                            ELSE IF n = d THEN Copies(n) + 1 ELSE Copies(n)
    <3>1. /\ sending[n] \in Nat /\ deciding[n] \in Nat /\ parking[n] \in Nat /\ woken[n] \in Nat
          BY Counts DEF Ground
    <3>2. deciding'[n] + parking'[n] + woken'[n]
            = deciding[n] + parking[n] + woken[n] + (IF n = d THEN 1 ELSE 0)
          BY <1>5, <3>1
    <3>3. deciding'[n] \in Nat /\ parking'[n] \in Nat /\ woken'[n] \in Nat
          BY <1>5, <3>1
    <3>4. sending'[n] = sending[n] - (IF n = m THEN 1 ELSE 0)  BY <1>2, <3>1
    <3>5. Copies(n)' = Copies(n) - (IF n = m THEN 1 ELSE 0) + (IF n = d THEN 1 ELSE 0)
      <4> DEFINE rest == parked[n] + local[n] + midturn[n]
                           + (IF n \in spawned THEN 1 ELSE 0) + (IF n \in tasks THEN 1 ELSE 0)
      <4>1. rest \in Nat /\ rest' = rest  BY <1>2, Counts DEF Ground
      <4>2. Copies(n) = sending[n] + (deciding[n] + parking[n] + woken[n]) + rest
            BY <3>1, Counts DEF Ground, Copies, Carried
      <4>3. Copies(n)' = sending'[n] + (deciding'[n] + parking'[n] + woken'[n]) + rest'
            BY <1>2, <3>1, <3>3, <3>4, Counts DEF Ground, Copies, Carried
      <4> HIDE DEF rest
      <4> QED BY <4>1, <4>2, <4>3, <3>1, <3>2, <3>3, <3>4
    <3>6. Copies(n) \in Nat  BY One
    <3> QED BY <3>5, <3>6
  <2> QED BY <1>1, <1>2, <1>3, <1>4, <1>5, <2>1, TrackedMove
<1>6. CASE sent' = sent \ {m[2]} /\ UNCHANGED <<deciding, parking, woken>>
  <2>1. Copies(m)' = Copies(m) - 1
        BY <1>2, <1>6, Counts DEF Ground, Copies, Carried
  <2>2. ASSUME NEW n \in Letter, n # m PROVE Copies(n)' = Copies(n)
        BY <1>2, <1>6, <2>2 DEF Copies, Carried
  <2> QED BY <1>2, <1>3, <1>4, <1>6, <2>1, <2>2, TrackedDecline
<1>7. deciding \in Pile /\ woken \in Pile  BY DEF Ground, TypeOK
<1>8. CASE ParkingRoute(d) /\ UNCHANGED <<sent, deciding, windows>>
      BY <1>5, <1>8, ParkingFacts DEF Ground
<1>9. CASE woken' = Plus(woken, d) /\ UNCHANGED <<sent, deciding, parking, inserts, twinned>>
      BY <1>5, <1>7, <1>9, PlusFacts
<1>10. CASE deciding' = Plus(deciding, d)
              /\ UNCHANGED <<sent, parking, woken, inserts, windows, twinned>>
      BY <1>5, <1>7, <1>10, PlusFacts
<1> QED BY <1>1, <1>6, <1>8, <1>9, <1>10 DEF DeliverAs

LEMMA TrackedFallback ==
    ASSUME Ground, boot = 1, NEW m \in Letter, Fallback(m)
    PROVE  Tracked'
<1>1. /\ deciding[m] > 0
      /\ \A n \in Letter : deciding'[n] = IF n = m THEN deciding[n] - 1 ELSE deciding[n]
      /\ UNCHANGED <<sent, heard, stopped, boot, spawned, tasks, sending, parked, midturn>>
      BY MinusFacts DEF Fallback, Ground, TypeOK, process, tables, commands
<1>2. FirstBootIsEmpty'
      BY DEF Fallback, Ground, Tracked, FirstBootIsEmpty, process, tables, commands, recovery
<1>3. CASE /\ UNCHANGED dropped
           /\ \/ /\ \A n \in Letter : woken'[n] = IF n = m THEN woken[n] + 1 ELSE woken[n]
                 /\ UNCHANGED <<parking, local>>
              \/ /\ \A n \in Letter : parking'[n] = IF n = m THEN parking[n] + 1 ELSE parking[n]
                 /\ UNCHANGED <<woken, local>>
              \/ /\ \A n \in Letter : local'[n] = IF n = m THEN local[n] + 1 ELSE local[n]
                 /\ UNCHANGED <<woken, parking>>
  <2>1. ASSUME NEW n \in Letter PROVE Copies(n)' = Copies(n)
        BY <1>1, <1>3, Counts DEF Ground, Copies, Carried
  <2> QED BY <1>1, <1>2, <1>3, <2>1, TrackedMove
<1>4. CASE dropped' = dropped \cup {m[2]} /\ UNCHANGED <<local, parking, woken>>
  <2>1. Copies(m) > 0 /\ Copies(m) <= 1
        BY <1>1, One, Counts DEF OneCopy, Ground, Copies, Carried
  <2>2. Copies(m)' = Copies(m) - 1 /\ Copies(m) \in Nat
        BY <1>1, <1>4, Counts DEF Ground, Copies, Carried
  <2>3. ASSUME NEW n \in Letter, n # m PROVE Copies(n)' = Copies(n)
        BY <1>1, <1>4, <2>3, Counts DEF Ground, Copies, Carried
  <2>4. \A n \in Letter : Copies(n)' = IF n \in {m} THEN 0 ELSE Copies(n)
        BY <2>1, <2>2, <2>3
  <2>5. \A p \in Push : heard'[p] <= 1  BY <1>1, HeardOnce
  <2>6. \A p \in Push : Settled(p)' <=> Settled(p) \/ p = m[2]
        BY <1>1, <1>4 DEF Settled
  <2> QED BY <1>1, <1>2, <2>1, <2>4, <2>5, <2>6, TrackedSettle
<1>5. CASE ParkingRoute(m) /\ UNCHANGED <<local, dropped>>
      BY <1>3, <1>5, ParkingFacts DEF Ground
<1>6. CASE local' = Plus(local, m) /\ UNCHANGED <<parking, woken, inserts, twinned, dropped>>
  <2>1. local \in Pile  BY DEF Ground, TypeOK
  <2> QED BY <1>3, <1>6, <2>1, PlusFacts
<1> QED BY <1>4, <1>5, <1>6 DEF Fallback

(* Parked letters change hands in one critical section.                    *)
LEMMA TrackedHandOver ==
    ASSUME Ground, boot = 1, (\E s \in Session : Claim(s)) \/ FlushParked
    PROVE  Tracked'
<1>1. UNCHANGED <<sent, heard, dropped, stopped, boot, spawned, tasks, sending, deciding, parking, midturn>>
      BY DEF Claim, FlushParked, process, tables, commands, history
<1>2. FirstBootIsEmpty'
      BY DEF Claim, FlushParked, Ground, Tracked, FirstBootIsEmpty, process, tables, commands, recovery
<1>3. parked \in Pile /\ woken \in Pile /\ local \in Pile  BY DEF Ground, TypeOK
<1>4. ASSUME NEW n \in Letter
      PROVE  parked'[n] + woken'[n] + local'[n] = parked[n] + woken[n] + local[n]
             /\ parked'[n] \in Nat /\ woken'[n] \in Nat /\ local'[n] \in Nat
  <2>1. parked[n] \in Nat /\ woken[n] \in Nat /\ local[n] \in Nat  BY <1>3, PileNat
  <2>2. ASSUME NEW s \in Session, Claim(s)
        PROVE  /\ parked'[n] = IF n \in For(s) THEN 0 ELSE parked[n]
               /\ woken'[n] = IF n \in For(s) THEN woken[n] + parked[n] ELSE woken[n]
               /\ local'[n] = local[n]
        BY <2>2, <1>3, WithoutFacts, MergeFacts DEF Claim
  <2>3. ASSUME FlushParked
        PROVE  parked'[n] = 0 /\ woken'[n] = woken[n] /\ local'[n] = local[n] + parked[n]
        BY <2>3, <1>3, NoLettersFacts, MergeFacts DEF FlushParked
  <2>4. CASE FlushParked  BY <2>1, <2>3, <2>4
  <2>5. CASE \E s \in Session : Claim(s)
    <3>1. PICK s \in Session : Claim(s)  BY <2>5
    <3>2. CASE n \in For(s)     BY <2>1, <2>2, <3>1, <3>2
    <3>3. CASE n \notin For(s)  BY <2>1, <2>2, <3>1, <3>3
    <3> QED BY <3>2, <3>3
  <2> QED BY <2>4, <2>5
<1>5. ASSUME NEW n \in Letter PROVE Copies(n)' = Copies(n)
      BY <1>1, <1>4, Counts DEF Ground, Copies, Carried
<1>6. CASE Letter = {}
      BY <1>1, <1>2, <1>6 DEF Tracked, CopiesAreOne, SentArePlaced, Ground, Settled
<1>7. CASE \E m \in Letter : TRUE  BY <1>1, <1>2, <1>5, <1>7, TrackedMove
<1> QED BY <1>6, <1>7

(* A drain lets a turn hear the whole queue, /stop throws it away.         *)
LEMMA TrackedDrain ==
    ASSUME Ground, boot = 1, NEW s \in Session, Drain(s) \/ StopTarget(s)
    PROVE  Tracked'
<1> DEFINE S == Held(midturn) \cap For(s)
<1>1. /\ UNCHANGED <<sent, dropped, boot, spawned, tasks, sending, deciding, parking, parked, woken, local>>
      /\ \A n \in Letter : midturn'[n] = IF n \in For(s) THEN 0 ELSE midturn[n]
      BY WithoutFacts DEF Drain, StopTarget, Ground, TypeOK, process, tables, commands, history
<1>2. FirstBootIsEmpty'
      BY DEF Drain, StopTarget, Ground, Tracked, FirstBootIsEmpty, process, tables, commands, recovery
<1>3. \A n \in Letter : n \in S <=> n[1] = s /\ midturn[n] > 0
      BY DEF Held, For
<1>4. S \in SUBSET Letter  BY DEF For
<1>5. ASSUME NEW n \in S PROVE Copies(n) > 0 /\ Copies(n) <= 1 /\ midturn[n] = 1 /\ ~Settled(n[2])
  <2>1. n \in Letter /\ midturn[n] > 0  BY <1>3, <1>4
  <2>2. Copies(n) > 0  BY <2>1, Counts DEF Ground, Copies, Carried
  <2>3. OneCopy(n, n)  BY <2>1, One
  <2>4. midturn[n] <= 1  BY <2>1, <2>3, Counts DEF OneCopy, Ground, Copies, Carried
  <2> QED BY <2>1, <2>2, <2>3, <2>4, Counts DEF OneCopy, Ground
<1>6. ASSUME NEW n \in Letter PROVE Copies(n)' = IF n \in S THEN 0 ELSE Copies(n)
  <2>1. CASE n \in S
    <3>1. midturn'[n] = 0  BY <1>1, <1>3, <2>1 DEF For
    <3>2. Copies(n)' = Copies(n) - 1  BY <1>1, <1>5, <2>1, <3>1, Counts DEF Ground, Copies, Carried
    <3> QED BY <3>2, <1>5, <2>1, One
  <2>2. CASE n \notin S
    <3>1. midturn'[n] = midturn[n]
          BY <1>1, <1>3, <2>2, Counts DEF For, Ground
    <3> QED BY <1>1, <2>2, <3>1 DEF Copies, Carried
  <2> QED BY <2>1, <2>2
<1> HIDE DEF S
<1>7. \A p \in Push : <<s, p>> \in Letter /\ <<s, p>>[1] = s /\ <<s, p>>[2] = p
      BY DEF Letter
<1>8. ASSUME NEW p \in Push
      PROVE  <<s, p>> \in S <=> \E n \in S : n[2] = p
  <2>1. ASSUME NEW n \in S, n[2] = p PROVE n = <<s, p>>
        BY <2>1, <1>3, <1>4, LetterFacts
  <2> QED BY <2>1, <1>7
<1>9. CASE Drain(s)
  <2>1. UNCHANGED stopped /\ \A p \in Push : heard'[p] = heard[p] + midturn[<<s, p>>]
        BY <1>9 DEF Drain
  <2>2. \A p \in Push : heard[p] \in Nat  BY DEF Ground, TypeOK
  <2>3. ASSUME NEW p \in Push
        PROVE  heard'[p] <= 1 /\ (Settled(p)' <=> Settled(p) \/ \E n \in S : n[2] = p)
    <3>1. CASE <<s, p>> \in S
      <4>1. midturn[<<s, p>>] = 1 /\ ~Settled(p)  BY <3>1, <1>5, <1>7
      <4>2. heard[p] = 0  BY <4>1, <2>2 DEF Settled
      <4> QED BY <4>1, <4>2, <2>1, <1>8, <3>1 DEF Settled
    <3>2. CASE <<s, p>> \notin S
      <4>1. midturn[<<s, p>>] = 0  BY <3>2, <1>3, <1>7, Counts DEF Ground
      <4>2. heard'[p] = heard[p]  BY <4>1, <2>1, <2>2
      <4>3. heard[p] <= 1  BY <1>7, HeardOnce
      <4> QED BY <4>2, <4>3, <2>1, <1>1, <1>8, <3>2 DEF Settled
    <3> QED BY <3>1, <3>2
  <2> QED BY <1>1, <1>2, <1>4, <1>5, <1>6, <2>3, TrackedSettle
<1>10. CASE StopTarget(s)
  <2>1. UNCHANGED heard /\ stopped' = stopped \cup {n[2] : n \in S}
        BY <1>10 DEF StopTarget, S
  <2>2. \A p \in Push : heard'[p] <= 1  BY <2>1, <1>7, HeardOnce
  <2>3. \A p \in Push : Settled(p)' <=> Settled(p) \/ \E n \in S : n[2] = p
        BY <2>1, <1>1 DEF Settled
  <2> QED BY <1>1, <1>2, <1>4, <1>5, <1>6, <2>2, <2>3, TrackedSettle
<1> QED BY <1>9, <1>10

(* The database work, the surface's own turns and boot move no letter.     *)
LEMMA TrackedElse ==
    ASSUME Ground, boot = 1,
           \/ UNCHANGED vars \/ Recovery
           \/ \E m \in Letter : Insert(m)
           \/ \E k \in Session \X Text, last \in BOOLEAN : ClearPass(k, last)
           \/ \E s \in Session : ExpectChannel(s) \/ TurnStarts(s) \/ TurnEnds(s)
           \/ \E s \in Session : \E o \in Session \cup {NoSession} : Occupy(s, o)
    PROVE  Tracked'
<1> USE DEF process, commands, tables, boxes, recovery, surfaces, clearing, history
<1>1. CASE Recovery
  <2>1. ASSUME NEW m \in Letter PROVE ~ReportInterrupted(m) /\ ~OfferRow(m)
        BY DEF ReportInterrupted, OfferRow, Ground, Tracked, FirstBootIsEmpty
  <2>2. ASSUME NEW m \in Letter PROVE ~ClearReported(m)
    <3>1. stage # "up" => tasks = {}  BY DEF Ground, Tracked, FirstBootIsEmpty
    <3> QED BY <3>1 DEF ClearReported, Ground, TypeOK, BootAlone
  <2>3. CASE ReadRows
    <3>1. FirstBootIsEmpty'
          BY <2>3 DEF ReadRows, Ground, Tracked, FirstBootIsEmpty
    <3> QED BY <2>3, <3>1
            DEF ReadRows, Ground, Tracked, CopiesAreOne, OneCopy, SentArePlaced, Settled, Copies, Carried
  <2>4. CASE FinishRecovery
    <3>1. FirstBootIsEmpty'  BY <2>4 DEF FinishRecovery, FirstBootIsEmpty
    <3> QED BY <2>4, <3>1
            DEF FinishRecovery, Ground, Tracked, CopiesAreOne, OneCopy, SentArePlaced, Settled, Copies, Carried
  <2> QED BY <1>1, <2>1, <2>2, <2>3, <2>4 DEF Recovery
<1>2. CASE ~Recovery
  <2>1. UNCHANGED <<boot, sent, heard, dropped, stopped, spawned, tasks, sending, deciding, parking,
                    parked, woken, local, midturn>>
        BY <1>2 DEF vars, Insert, ClearPass, ExpectChannel, TurnStarts, TurnEnds, Occupy
  <2>2. FirstBootIsEmpty'
    <3>1. ASSUME UNCHANGED <<boot, stage, tasks, rows, offers>> PROVE FirstBootIsEmpty'
          BY <3>1 DEF Ground, Tracked, FirstBootIsEmpty
    <3>2. ASSUME NEW m \in Letter, Insert(m) PROVE FirstBootIsEmpty'
          BY <3>2 DEF Insert, Ground, BootAlone, FirstBootIsEmpty
    <3>3. ASSUME NEW k \in Session \X Text, NEW last \in BOOLEAN, ClearPass(k, last)
          PROVE  FirstBootIsEmpty'
          BY <3>3 DEF ClearPass, Ground, BootAlone, FirstBootIsEmpty
    <3> QED BY <1>2, <3>1, <3>2, <3>3 DEF vars, ExpectChannel, TurnStarts, TurnEnds, Occupy
  <2> QED BY <2>1, <2>2
          DEF Ground, Tracked, CopiesAreOne, OneCopy, SentArePlaced, Settled, Copies, Carried
<1> QED BY <1>1, <1>2

LEMMA TrackedInit == Init => Tracked
BY NoLettersFacts
   DEF Init, Tracked, FirstBootIsEmpty, CopiesAreOne, OneCopy, SentArePlaced, Settled, Copies,
       Carried, Letter

LEMMA TrackedNext == Ground /\ [Next]_vars => Tracked'
<1> SUFFICES ASSUME Ground, [Next]_vars PROVE Tracked'
    OBVIOUS
<1>1. CASE boot = 1
  <2>1. CASE Recovery \/ UNCHANGED vars  BY <1>1, <2>1, TrackedElse
  <2>2. CASE Produce
        BY <1>1, <2>2, TrackedSend, TrackedFollowUp, TrackedStartCommand, TrackedRecordCommand,
           TrackedFinishCommand DEF Produce
  <2>3. CASE Run
        BY <1>1, <2>3, TrackedDeliver, TrackedFallback, TrackedPark, TrackedWakeRuns,
           TrackedWakeQueues, TrackedWakeGivesUp, TrackedLocalTakes, TrackedElse
        DEF Run
  <2>4. CASE Surface
        BY <1>1, <2>4, TrackedHandOver, TrackedDrain, TrackedElse DEF Surface
  <2>5. CASE FlushParked  BY <1>1, <2>5, TrackedHandOver
  <2>6. ASSUME NEW long \in BOOLEAN, Crash(long) PROVE Tracked'
        BY <1>1, <2>6 DEF Crash, Tracked, FirstBootIsEmpty, CopiesAreOne, SentArePlaced
  <2> QED BY <2>1, <2>2, <2>3, <2>4, <2>5, <2>6 DEF Next
<1>2. CASE boot # 1
  <2>1. boot \in Nat \ {0}  BY DEF Ground, TypeOK
  <2>2. boot' # 1
    <3>1. ASSUME NEW long \in BOOLEAN, Crash(long) PROVE boot' # 1
          BY <3>1, <2>1, <1>2 DEF Crash
    <3>2. ASSUME boot' = boot PROVE boot' # 1  BY <3>2, <1>2
    <3>3. Recovery => boot' = boot
          BY DEF Recovery, ReportInterrupted, ClearReported, OfferRow, ReadRows, FinishRecovery, process
    <3>4. Produce => boot' = boot
          BY DEF Produce, Send, FollowUp, StartCommand, RecordCommand, FinishCommand, process
    <3>5. Run => boot' = boot
      <4>1. ASSUME NEW m \in Letter, NEW interrupt \in BOOLEAN, Deliver(m, interrupt)
            PROVE  boot' = boot
            BY <4>1, DeliverFacts DEF DeliverAs, process
      <4> QED BY <4>1 DEF Run, Fallback, Park, WakeRuns, WakeQueues, WakeGivesUp, LocalTakes,
                          Insert, ClearPass, process
    <3>6. Surface \/ FlushParked => boot' = boot
          BY DEF Surface, Claim, ExpectChannel, TurnStarts, TurnEnds, Drain, StopTarget, Occupy,
                 FlushParked, process
    <3>7. UNCHANGED vars => boot' = boot  BY DEF vars, process
    <3> QED BY <3>1, <3>2, <3>3, <3>4, <3>5, <3>6, <3>7 DEF Next
  <2> QED BY <2>2 DEF Tracked, FirstBootIsEmpty, CopiesAreOne, SentArePlaced
<1> QED BY <1>1, <1>2

(* What the copies say of the boxes.                                       *)
LEMMA BoxCounts ==
    ASSUME TypeOK, NEW s \in Session, NEW p \in Push
    PROVE  /\ Carried(<<s, p>>) = 0 => \A j \in 1..7 : <<s, j>> \notin Places(p)
           /\ Carried(<<s, p>>) = 1 =>
                \E k \in 1..7 : \A j \in 1..7 : <<s, j>> \in Places(p) <=> j = k
<1> DEFINE n == <<s, p>>
           box == <<sending[n], deciding[n], parking[n], parked[n], woken[n], local[n], midturn[n]>>
<1>1. n \in Letter  BY DEF Letter
<1>2. ASSUME NEW j \in 1..7 PROVE <<s, j>> \in Places(p) <=> box[j] > 0
  <2>1. DOMAIN Boxes = 1..7  BY DEF Boxes
  <2>2. j = 1 \/ j = 2 \/ j = 3 \/ j = 4 \/ j = 5 \/ j = 6 \/ j = 7  OBVIOUS
  <2>3. <<s, j>> \in Places(p) <=> Boxes[j][n] > 0
        BY <2>1 DEF Places
  <2> QED BY <2>2, <2>3 DEF Boxes
<1>3. /\ sending[n] \in Nat /\ deciding[n] \in Nat /\ parking[n] \in Nat /\ parked[n] \in Nat
      /\ woken[n] \in Nat /\ local[n] \in Nat /\ midturn[n] \in Nat
      BY <1>1, Counts
<1>4. Carried(n)
        = sending[n] + deciding[n] + parking[n] + parked[n] + woken[n] + local[n] + midturn[n]
      BY DEF Carried
<1>5. /\ box[1] = sending[n] /\ box[2] = deciding[n] /\ box[3] = parking[n] /\ box[4] = parked[n]
      /\ box[5] = woken[n] /\ box[6] = local[n] /\ box[7] = midturn[n]
      OBVIOUS
<1> HIDE DEF box
<1>6. PICK a \in Nat, b \in Nat, c \in Nat, d \in Nat, e \in Nat, f \in Nat, g \in Nat :
        /\ box[1] = a /\ box[2] = b /\ box[3] = c /\ box[4] = d /\ box[5] = e /\ box[6] = f
        /\ box[7] = g /\ Carried(n) = a + b + c + d + e + f + g
      BY <1>3, <1>4, <1>5
<1> HIDE DEF n
<1>7. ASSUME Carried(n) = 0, NEW j \in 1..7 PROVE ~(box[j] > 0)
  <2>1. a = 0 /\ b = 0 /\ c = 0 /\ d = 0 /\ e = 0 /\ f = 0 /\ g = 0
    <3>1. a + b + c + d + e + f + g = 0  BY <1>6, <1>7
    <3> QED BY <3>1, SevenCounts
  <2>2. j = 1 \/ j = 2 \/ j = 3 \/ j = 4 \/ j = 5 \/ j = 6 \/ j = 7  OBVIOUS
  <2> QED BY <1>6, <2>1, <2>2
<1>8. ASSUME Carried(n) = 1 PROVE \E k \in 1..7 : \A j \in 1..7 : box[j] > 0 <=> j = k
  <2>1. a + b + c + d + e + f + g = 1  BY <1>6, <1>8
  <2>2. \/ a = 1 /\ b = 0 /\ c = 0 /\ d = 0 /\ e = 0 /\ f = 0 /\ g = 0
        \/ a = 0 /\ b = 1 /\ c = 0 /\ d = 0 /\ e = 0 /\ f = 0 /\ g = 0
        \/ a = 0 /\ b = 0 /\ c = 1 /\ d = 0 /\ e = 0 /\ f = 0 /\ g = 0
        \/ a = 0 /\ b = 0 /\ c = 0 /\ d = 1 /\ e = 0 /\ f = 0 /\ g = 0
        \/ a = 0 /\ b = 0 /\ c = 0 /\ d = 0 /\ e = 1 /\ f = 0 /\ g = 0
        \/ a = 0 /\ b = 0 /\ c = 0 /\ d = 0 /\ e = 0 /\ f = 1 /\ g = 0
        \/ a = 0 /\ b = 0 /\ c = 0 /\ d = 0 /\ e = 0 /\ f = 0 /\ g = 1
        BY <2>1, SevenCounts
  <2> DEFINE Only(k) == \A j \in 1..7 : box[j] = IF j = k THEN 1 ELSE 0
  <2>3. \A j \in 1..7 : j = 1 \/ j = 2 \/ j = 3 \/ j = 4 \/ j = 5 \/ j = 6 \/ j = 7  OBVIOUS
  <2>4. Only(1) \/ Only(2) \/ Only(3) \/ Only(4) \/ Only(5) \/ Only(6) \/ Only(7)
        BY <1>6, <2>2, <2>3
  <2>5. ASSUME NEW k \in 1..7, Only(k) PROVE \A j \in 1..7 : box[j] > 0 <=> j = k
        BY <2>5
  <2> QED BY <2>4, <2>5
<1> QED BY <1>2, <1>7, <1>8 DEF n

(* Before a restart every push the process accepted is in exactly one      *)
(* place: in one pile, once, or its command runs, or a turn heard it, once, *)
(* or it was given up by name.                                             *)
THEOREM NothingLostNothingTwice == Spec => []NoLossNoDoubleBeforeRestart
<1>1. Spec => [](TypeOK /\ BootAlone /\ ReportsAreParked /\ Tracked)
  <2>1. Init => TypeOK /\ BootAlone /\ ReportsAreParked /\ Tracked
        BY BootInit, TrackedInit
  <2>2. /\ TypeOK /\ BootAlone /\ ReportsAreParked /\ Tracked
        /\ [Next]_vars
        => (TypeOK /\ BootAlone /\ ReportsAreParked /\ Tracked)'
        BY BootNext, TrackedNext DEF Ground
  <2> QED BY <2>1, <2>2, PTL DEF Spec
<1>2. TypeOK /\ BootAlone /\ ReportsAreParked /\ Tracked => NoLossNoDoubleBeforeRestart
  <2> SUFFICES ASSUME TypeOK, BootAlone, Tracked, boot = 1, NEW p \in sent
               PROVE  /\ heard[p] <= 1
                      /\ \A s \in Session : \A n \in DOMAIN Boxes : Boxes[n][<<s, p>>] <= 1
                      /\ Cardinality(Places(p)) + (IF Running(p) THEN 1 ELSE 0)
                           + (IF Settled(p) THEN 1 ELSE 0) = 1
      BY DEF NoLossNoDoubleBeforeRestart
  <2>0. Ground  BY DEF Ground
  <2>1. p \in Push  BY DEF TypeOK
  <2>2. \A s \in Session : <<s, p>> \in Letter /\ <<s, p>>[2] = p /\ <<s, p>>[1] = s
        BY <2>1 DEF Letter
  <2>3. \A n \in Letter : n[2] = p => n = <<n[1], p>> /\ n[1] \in Session
        BY LetterFacts
  <2>4. DOMAIN Boxes = 1..7  BY DEF Boxes
  <2>5. ASSUME NEW s \in Session, NEW k \in 1..7
        PROVE  Boxes[k][<<s, p>>] <= 1 /\ (<<s, k>> \in Places(p) => Copies(<<s, p>>) > 0)
    <3> DEFINE n == <<s, p>>
    <3>1. n \in Letter /\ OneCopy(n, n)  BY <2>0, <2>2, One
    <3> HIDE DEF n
    <3>n. /\ sending[n] \in Nat /\ deciding[n] \in Nat /\ parking[n] \in Nat /\ parked[n] \in Nat
          /\ woken[n] \in Nat /\ local[n] \in Nat /\ midturn[n] \in Nat
          BY <3>1, Counts
    <3>c. Carried(n) <= 1 /\ Carried(n) \in Nat  BY <3>1, <3>n DEF OneCopy, Copies, Carried
    <3>2. /\ sending[n] \in 0..1 /\ deciding[n] \in 0..1 /\ parking[n] \in 0..1 /\ parked[n] \in 0..1
          /\ woken[n] \in 0..1 /\ local[n] \in 0..1 /\ midturn[n] \in 0..1
          BY <3>c, <3>n, SevenCounts DEF Carried
    <3>3. k = 1 \/ k = 2 \/ k = 3 \/ k = 4 \/ k = 5 \/ k = 6 \/ k = 7  OBVIOUS
    <3>4. Boxes[k][n] \in 0..1  BY <3>2, <3>3 DEF Boxes
    <3>5. <<s, k>> \in Places(p) => Boxes[k][n] > 0  BY <2>4 DEF Places, n
    <3>6. Boxes[k][n] > 0 => Carried(n) > 0
          BY <3>2, <3>3 DEF Boxes, Carried
    <3>7. Carried(n) > 0 => Copies(n) > 0
          BY <3>c DEF Copies
    <3> QED BY <3>4, <3>5, <3>6, <3>7 DEF n
  <2>6. \A b \in Places(p) : b[1] \in Session /\ b[2] \in 1..7 /\ b = <<b[1], b[2]>>
        BY <2>4 DEF Places
  <2>7. Running(p) <=> \E s \in Session : <<s, p>> \in spawned \cup tasks
        BY DEF Running
  <2>8. ASSUME NEW s \in Session, <<s, p>> \in spawned \cup tasks PROVE Copies(<<s, p>>) > 0
        BY <2>8, <2>2, Counts DEF Copies, Carried
  <2>9. CASE Settled(p)
    <3>1. \A s \in Session : ~(Copies(<<s, p>>) > 0)
          BY <2>0, <2>2, <2>9, One DEF OneCopy
    <3>2. Places(p) = {}
      <4>1. ASSUME NEW b \in Places(p) PROVE FALSE
        <5>1. b[1] \in Session /\ b[2] \in 1..7 /\ <<b[1], b[2]>> \in Places(p)  BY <2>6
        <5>2. Copies(<<b[1], p>>) > 0  BY <5>1, <2>5
        <5> QED BY <5>1, <5>2, <3>1
      <4> QED BY <4>1
    <3>3. ~Running(p)  BY <3>1, <2>7, <2>8
    <3>4. heard[p] <= 1  BY <2>0, <2>1, HeardOnce
    <3> QED BY <3>2, <3>3, <3>4, <2>4, <2>5, <2>9, FS_EmptySet
  <2>10. CASE ~Settled(p)
    <3>1. PICK m \in Letter : m[2] = p /\ Copies(m) > 0
          BY <2>10 DEF Tracked, SentArePlaced
    <3> DEFINE s == m[1]
    <3>2. s \in Session /\ m = <<s, p>>  BY <3>1, <2>3
    <3>3. \A r \in Session : Copies(<<r, p>>) > 0 => r = s
          BY <2>0, <2>2, <3>1, <3>2, One DEF OneCopy
    <3>4. Copies(m) = 1  BY <2>0, <3>1, One DEF OneCopy
    <3> HIDE DEF s
    <3>5. heard[p] <= 1  BY <2>0, <2>1, <3>1, HeardOnce
    <3>6. Running(p) <=> m \in spawned \cup tasks
          BY <2>7, <2>8, <3>2, <3>3
    <3>7. \A b \in Places(p) : b = <<s, b[2]>>
          BY <2>5, <2>6, <3>3
    <3>8. CASE m \in spawned \cup tasks
      <4>1. Carried(m) = 0
        <5>1. Carried(m) \in Nat  BY Counts DEF Carried
        <5> QED BY <3>4, <3>8, <5>1 DEF Copies
      <4>2. \A k \in 1..7 : <<s, k>> \notin Places(p)
            BY <4>1, <2>1, <3>2, BoxCounts
      <4>3. Places(p) = {}  BY <4>2, <3>7, <2>6
      <4> QED BY <4>3, <3>5, <3>6, <3>8, <2>4, <2>5, <2>10, FS_EmptySet
    <3>9. CASE m \notin spawned \cup tasks
      <4>1. Carried(m) = 1
        <5>1. Carried(m) \in Nat  BY Counts DEF Carried
        <5> QED BY <3>4, <3>9, <5>1 DEF Copies
      <4>2. \E k \in 1..7 : \A j \in 1..7 : <<s, j>> \in Places(p) <=> j = k
            BY <4>1, <2>1, <3>2, BoxCounts
      <4>3. PICK k \in 1..7 : \A j \in 1..7 : <<s, j>> \in Places(p) <=> j = k  BY <4>2
      <4>4. Places(p) = {<<s, k>>}  BY <4>3, <3>7, <2>6
      <4>5. Cardinality(Places(p)) = 1  BY <4>4, FS_Singleton
      <4>6. ~Running(p)  BY <3>6, <3>9
      <4>7. \A r \in Session : \A n \in DOMAIN Boxes : Boxes[n][<<r, p>>] <= 1
            BY <2>4, <2>5
      <4> QED BY <4>5, <4>6, <4>7, <3>5, <2>10
    <3> QED BY <3>8, <3>9
  <2> QED BY <2>9, <2>10
<1> QED BY <1>1, <1>2, PTL

-----------------------------------------------------------------------------
(* Across restarts: what goes without being settled.                       *)

(* Letter n is in a pile of the running process.                           *)
Seen(n) ==
  \/ sending[n] > 0 \/ deciding[n] > 0 \/ parking[n] > 0 \/ parked[n] > 0
  \/ woken[n] > 0 \/ local[n] > 0 \/ midturn[n] > 0

(* Push p is in a pile, for whatever session, or settled.                  *)
AtHand(p) == Settled(p) \/ \E n \in Letter : n[2] = p /\ Seen(n)

(* A clear loop is for a push somebody took, or is about to take.          *)
ClearsAreLate == \A n \in Letter : KeyOf(n) \in windows => AtHand(n[2])

LEMMA SettledStays ==
    ASSUME TypeOK, [Next]_vars, NEW p \in Push, Settled(p)
    PROVE  Settled(p)'
<1> USE DEF process, commands, tables, boxes, recovery, surfaces, clearing, history
<1>1. heard[p] \in Nat /\ \A s \in Session : midturn[<<s, p>>] \in Nat
      BY PileNat DEF TypeOK, Letter
<1>2. ASSUME heard[p] > 0 => heard'[p] > 0, dropped \subseteq dropped', stopped \subseteq stopped'
      PROVE  Settled(p)'
      BY <1>2 DEF Settled
<1>3. ASSUME UNCHANGED <<heard, dropped, stopped>> PROVE Settled(p)'
      BY <1>1, <1>2, <1>3
<1>4. CASE Recovery
      BY <1>3, <1>4
      DEF Recovery, ReportInterrupted, ClearReported, OfferRow, ReadRows, FinishRecovery
<1>5. CASE Produce
      BY <1>3, <1>5 DEF Produce, Send, FollowUp, StartCommand, RecordCommand, FinishCommand
<1>6. CASE Run
  <2>1. ASSUME NEW m \in Letter, NEW interrupt \in BOOLEAN, Deliver(m, interrupt)
        PROVE  Settled(p)'
        BY <2>1, <1>3, DeliverFacts DEF DeliverAs
  <2>2. ASSUME NEW m \in Letter, WakeRuns(m) \/ LocalTakes(m) PROVE Settled(p)'
    <3>1. heard'[p] = IF p = m[2] THEN heard[p] + 1 ELSE heard[p]
          BY <2>2, LetterFacts DEF WakeRuns, LocalTakes, TypeOK
    <3> QED BY <1>1, <1>2, <2>2, <3>1 DEF WakeRuns, LocalTakes
  <2>3. ASSUME NEW m \in Letter, Fallback(m) \/ WakeGivesUp(m) PROVE Settled(p)'
        BY <1>1, <1>2, <2>3 DEF Fallback, WakeGivesUp
  <2> QED BY <1>3, <1>6, <2>1, <2>2, <2>3 DEF Run, Park, WakeQueues, Insert, ClearPass
<1>7. CASE Surface
  <2>1. ASSUME NEW s \in Session, Drain(s) PROVE Settled(p)'
    <3>1. heard[p] > 0 => heard'[p] > 0  BY <1>1, <2>1 DEF Drain
    <3> QED BY <1>2, <2>1, <3>1 DEF Drain
  <2>2. ASSUME NEW s \in Session, StopTarget(s) PROVE Settled(p)'
        BY <1>1, <1>2, <2>2 DEF StopTarget
  <2> QED BY <1>3, <1>7, <2>1, <2>2 DEF Surface, Claim, ExpectChannel, TurnStarts, TurnEnds, Occupy
<1>8. CASE FlushParked  BY <1>3, <1>8 DEF FlushParked
<1>9. ASSUME NEW long \in BOOLEAN, Crash(long) PROVE Settled(p)'
      BY <1>3, <1>9 DEF Crash
<1>10. CASE UNCHANGED vars  BY <1>3, <1>10 DEF vars
<1> QED BY <1>4, <1>5, <1>6, <1>7, <1>8, <1>9, <1>10 DEF Next

(* A letter leaves a pile for another one, or because its push is settled. *)
LEMMA SeenStays ==
    ASSUME TypeOK, TypeOK', BootAlone, [Next]_vars, boot' = boot,
           NEW n \in Letter, Seen(n), n[2] \in sent'
    PROVE  AtHand(n[2])'
<1> USE DEF process, commands, tables, boxes, recovery, surfaces, clearing, history
<1>1. /\ \A m \in Letter :
           /\ sending[m] \in Nat /\ deciding[m] \in Nat /\ parking[m] \in Nat
           /\ parked[m] \in Nat /\ woken[m] \in Nat /\ local[m] \in Nat /\ midturn[m] \in Nat
           /\ heard[m[2]] \in Nat
      BY Counts
<1>p. /\ sending \in Pile /\ deciding \in Pile /\ parking \in Pile /\ parked \in Pile
      /\ woken \in Pile /\ local \in Pile /\ midturn \in Pile
      BY DEF TypeOK
<1>n. \A m \in Letter :
        /\ sending'[m] \in Nat /\ deciding'[m] \in Nat /\ parking'[m] \in Nat
        /\ parked'[m] \in Nat /\ woken'[m] \in Nat /\ local'[m] \in Nat /\ midturn'[m] \in Nat
      BY PileNat DEF TypeOK
<1>2. ASSUME NEW m \in Letter, m[2] = n[2], Seen(m)' PROVE AtHand(n[2])'
      BY <1>2 DEF AtHand
<1>3. ASSUME \/ sending'[n] > 0 \/ deciding'[n] > 0 \/ parking'[n] > 0 \/ parked'[n] > 0
             \/ woken'[n] > 0 \/ local'[n] > 0 \/ midturn'[n] > 0
      PROVE  AtHand(n[2])'
      BY <1>2, <1>3 DEF Seen
<1>4. ASSUME UNCHANGED boxes PROVE AtHand(n[2])'
      BY <1>3, <1>4 DEF Seen
<1>5. CASE Recovery
  <2>1. ASSUME NEW m \in Letter, ReportInterrupted(m) \/ OfferRow(m) PROVE AtHand(n[2])'
    <3>1. \A k \in Letter : parked'[k] >= parked[k] /\ woken'[k] >= woken[k]
      <4>1. parked' \in {parked, Plus(parked, m)} /\ woken' \in {woken, Plus(woken, m)}
            BY <2>1 DEF ReportInterrupted, OfferRow
      <4>2. \A k \in Letter : Plus(parked, m)[k] = IF k = m THEN parked[k] + 1 ELSE parked[k]
            BY <1>p DEF Plus, Pile
      <4>3. \A k \in Letter : Plus(woken, m)[k] = IF k = m THEN woken[k] + 1 ELSE woken[k]
            BY <1>p DEF Plus, Pile
      <4>4. \A k \in Letter : parked'[k] >= parked[k]  BY <1>1, <4>1, <4>2
      <4>5. \A k \in Letter : woken'[k] >= woken[k]    BY <1>1, <4>1, <4>3
      <4> QED BY <4>4, <4>5
    <3> QED BY <1>1, <1>n, <1>3, <2>1, <3>1 DEF Seen, ReportInterrupted, OfferRow
  <2> QED BY <1>4, <1>5, <2>1 DEF Recovery, ClearReported, ReadRows, FinishRecovery
<1>6. CASE Produce
  <2>1. ASSUME NEW m \in Letter, Send(m) \/ FinishCommand(m) PROVE AtHand(n[2])'
    <3>1. sending'[n] >= sending[n]  BY <1>1, <1>p, <2>1 DEF Send, FinishCommand, Plus, Pile
    <3> QED BY <1>1, <1>n, <1>3, <2>1, <3>1 DEF Seen, Send, FinishCommand
  <2>2. ASSUME NEW m \in Letter, FollowUp(m) PROVE AtHand(n[2])'
    <3>1. midturn'[n] >= midturn[n]  BY <1>1, <1>p, <2>2 DEF FollowUp, Plus, Pile
    <3> QED BY <1>1, <1>n, <1>3, <2>2, <3>1 DEF Seen, FollowUp
  <2> QED BY <1>4, <1>6, <2>1, <2>2 DEF Produce, StartCommand, RecordCommand
<1>7. CASE Run
  <2>1. ASSUME NEW m \in Letter, NEW interrupt \in BOOLEAN, Deliver(m, interrupt)
        PROVE  AtHand(n[2])'
    <3>1. PICK d \in Letter : d[2] = m[2] /\ DeliverAs(m, d, interrupt)
          BY <2>1, DeliverFacts
    <3>2. /\ sending[m] > 0
          /\ \A k \in Letter : sending'[k] = IF k = m THEN sending[k] - 1 ELSE sending[k]
          /\ UNCHANGED <<parked, local, midturn>>
          BY <1>p, <3>1, MinusFacts DEF DeliverAs
    <3>3. CASE sent' = sent \ {m[2]} /\ UNCHANGED <<deciding, parking, woken>>
          BY <1>1, <1>3, <3>2, <3>3 DEF Seen
    <3>4. CASE /\ \A k \in Letter : /\ deciding'[k] >= deciding[k] /\ parking'[k] >= parking[k]
                                    /\ woken'[k] >= woken[k]
               /\ deciding'[d] > 0 \/ parking'[d] > 0 \/ woken'[d] > 0
      <4>1. CASE n = m
        <5>1. Seen(d)'  BY <3>4 DEF Seen
        <5> QED BY <1>2, <3>1, <4>1, <5>1
      <4>2. CASE n # m  BY <1>1, <1>n, <1>3, <3>2, <3>4, <4>2 DEF Seen
      <4> QED BY <4>1, <4>2
    <3>5. CASE ParkingRoute(d) /\ UNCHANGED <<sent, deciding, windows>>
          BY <1>1, <3>4, <3>5, ParkingFacts
    <3>6. CASE woken' = Plus(woken, d) /\ UNCHANGED <<sent, deciding, parking, inserts, twinned>>
      <4>1. \A k \in Letter : woken'[k] = IF k = d THEN woken[k] + 1 ELSE woken[k]
            BY <1>p, <3>6 DEF Plus, Pile
      <4> QED BY <1>1, <3>4, <3>6, <4>1
    <3>7. CASE deciding' = Plus(deciding, d)
                 /\ UNCHANGED <<sent, parking, woken, inserts, windows, twinned>>
      <4>1. \A k \in Letter : deciding'[k] = IF k = d THEN deciding[k] + 1 ELSE deciding[k]
            BY <1>p, <3>7 DEF Plus, Pile
      <4> QED BY <1>1, <3>4, <3>7, <4>1
    <3> QED BY <3>1, <3>3, <3>5, <3>6, <3>7 DEF DeliverAs
  <2>2. ASSUME NEW m \in Letter, Fallback(m) PROVE AtHand(n[2])'
    <3>1. /\ deciding[m] > 0
          /\ \A k \in Letter : deciding'[k] = IF k = m THEN deciding[k] - 1 ELSE deciding[k]
          /\ UNCHANGED <<sending, parked, midturn>>
          BY <1>p, <2>2, MinusFacts DEF Fallback
    <3>2. CASE UNCHANGED <<local, parking, woken>> /\ dropped' = dropped \cup {m[2]}
          BY <1>1, <1>3, <3>1, <3>2 DEF Seen, AtHand, Settled
    <3>3. CASE /\ \A k \in Letter : /\ local'[k] >= local[k] /\ parking'[k] >= parking[k]
                                    /\ woken'[k] >= woken[k]
               /\ local'[m] > 0 \/ parking'[m] > 0 \/ woken'[m] > 0
          BY <1>1, <1>n, <1>3, <3>1, <3>3 DEF Seen
    <3>4. CASE ParkingRoute(m) /\ UNCHANGED local
          BY <1>1, <3>3, <3>4, ParkingFacts
    <3>5. CASE local' = Plus(local, m) /\ UNCHANGED <<parking, woken>>
      <4>1. \A k \in Letter : local'[k] = IF k = m THEN local[k] + 1 ELSE local[k]
            BY <1>p, <3>5 DEF Plus, Pile
      <4> QED BY <1>1, <3>3, <3>5, <4>1
    <3> QED BY <2>2, <3>2, <3>4, <3>5 DEF Fallback
  <2>3. ASSUME NEW m \in Letter, Park(m) PROVE AtHand(n[2])'
    <3>1. /\ \A k \in Letter : parking'[k] = IF k = m THEN parking[k] - 1 ELSE parking[k]
          /\ \A k \in Letter : parked'[k] = IF k = m THEN parked[k] + 1 ELSE parked[k]
          /\ UNCHANGED <<sending, deciding, woken, local, midturn>>
      <4>1. parking[m] > 0 /\ parking' = Minus(parking, m) /\ parked' = Plus(parked, m)
            BY <2>3 DEF Park
      <4>2. UNCHANGED <<sending, deciding, woken, local, midturn>>  BY <2>3 DEF Park
      <4>3. \A k \in Letter : parking'[k] = IF k = m THEN parking[k] - 1 ELSE parking[k]
            BY <1>p, <4>1 DEF Minus, Pile
      <4>4. \A k \in Letter : parked'[k] = IF k = m THEN parked[k] + 1 ELSE parked[k]
            BY <1>p, <4>1 DEF Plus, Pile
      <4> QED BY <4>2, <4>3, <4>4
    <3> QED BY <1>1, <1>3, <3>1 DEF Seen
  <2>4. ASSUME NEW m \in Letter, WakeQueues(m) PROVE AtHand(n[2])'
    <3>1. /\ \A k \in Letter : woken'[k] = IF k = m THEN woken[k] - 1 ELSE woken[k]
          /\ \A k \in Letter : midturn'[k] = IF k = m THEN midturn[k] + 1 ELSE midturn[k]
          /\ UNCHANGED <<sending, deciding, parking, parked, local>>
      <4>1. woken[m] > 0 /\ woken' = Minus(woken, m) /\ midturn' = Plus(midturn, m)
            BY <2>4 DEF WakeQueues
      <4>2. UNCHANGED <<sending, deciding, parking, parked, local>>  BY <2>4 DEF WakeQueues
      <4>3. \A k \in Letter : woken'[k] = IF k = m THEN woken[k] - 1 ELSE woken[k]
            BY <1>p, <4>1 DEF Minus, Pile
      <4>4. \A k \in Letter : midturn'[k] = IF k = m THEN midturn[k] + 1 ELSE midturn[k]
            BY <1>p, <4>1 DEF Plus, Pile
      <4> QED BY <4>2, <4>3, <4>4
    <3> QED BY <1>1, <1>3, <3>1 DEF Seen
  <2>5. ASSUME NEW m \in Letter, WakeRuns(m) \/ WakeGivesUp(m) \/ LocalTakes(m)
        PROVE  AtHand(n[2])'
    <3>1. /\ \A k \in Letter : k # m => woken'[k] = woken[k] /\ local'[k] = local[k]
          /\ UNCHANGED <<sending, deciding, parking, parked, midturn>>
          BY <1>p, <2>5, MinusFacts DEF WakeRuns, WakeGivesUp, LocalTakes
    <3>2. Settled(m[2])'
      <4>1. CASE WakeGivesUp(m)  BY <4>1 DEF WakeGivesUp, Settled
      <4>2. CASE WakeRuns(m) \/ LocalTakes(m)
        <5>1. heard'[m[2]] = heard[m[2]] + 1
              BY <4>2, LetterFacts DEF WakeRuns, LocalTakes, TypeOK
        <5> QED BY <1>1, <5>1 DEF Settled
      <4> QED BY <2>5, <4>1, <4>2
    <3>3. CASE n = m  BY <3>2, <3>3 DEF AtHand
    <3>4. CASE n # m  BY <1>3, <3>1, <3>4 DEF Seen
    <3> QED BY <3>3, <3>4
  <2> QED BY <1>4, <1>7, <2>1, <2>2, <2>3, <2>4, <2>5 DEF Run, Insert, ClearPass
<1>8. CASE Surface
  <2>1. ASSUME NEW s \in Session, Claim(s) PROVE AtHand(n[2])'
    <3>1. /\ parked'[n] = IF n \in For(s) THEN 0 ELSE parked[n]
          /\ woken'[n] = IF n \in For(s) THEN woken[n] + parked[n] ELSE woken[n]
          /\ UNCHANGED <<sending, deciding, parking, local, midturn>>
          BY <1>p, <2>1, WithoutFacts, MergeFacts DEF Claim
    <3> QED BY <1>1, <1>3, <3>1 DEF Seen
  <2>2. ASSUME NEW s \in Session, Drain(s) \/ StopTarget(s) PROVE AtHand(n[2])'
    <3>1. /\ midturn'[n] = IF n \in For(s) THEN 0 ELSE midturn[n]
          /\ UNCHANGED <<sending, deciding, parking, parked, woken, local>>
          BY <1>p, <2>2, WithoutFacts DEF Drain, StopTarget
    <3>2. CASE n \in For(s) /\ midturn[n] > 0
      <4>1. n = <<s, n[2]>> /\ n[2] \in Push  BY <3>2, LetterFacts DEF For
      <4>2. CASE Drain(s)
        <5>1. heard'[n[2]] = heard[n[2]] + midturn[n]  BY <4>1, <4>2 DEF Drain
        <5> QED BY <1>1, <3>2, <5>1 DEF AtHand, Settled
      <4>3. CASE StopTarget(s)
        <5>1. n[2] \in stopped'  BY <3>2, <4>3 DEF StopTarget, Held
        <5> QED BY <5>1 DEF AtHand, Settled
      <4> QED BY <2>2, <4>2, <4>3
    <3>3. CASE ~(n \in For(s) /\ midturn[n] > 0)
          BY <1>1, <1>n, <1>3, <3>1, <3>3 DEF Seen
    <3> QED BY <3>2, <3>3
  <2> QED BY <1>4, <1>8, <2>1, <2>2 DEF Surface, ExpectChannel, TurnStarts, TurnEnds, Occupy
<1>9. CASE FlushParked
  <2>1. /\ local'[n] = local[n] + parked[n]
        /\ UNCHANGED <<sending, deciding, parking, woken, midturn>>
        BY <1>p, <1>9, MergeFacts DEF FlushParked
  <2> QED BY <1>1, <1>3, <2>1 DEF Seen
<1>10. ASSUME NEW long \in BOOLEAN, Crash(long) PROVE FALSE
       BY <1>10 DEF Crash, TypeOK
<1>11. CASE UNCHANGED vars  BY <1>4, <1>11 DEF vars
<1> QED BY <1>5, <1>6, <1>7, <1>8, <1>9, <1>10, <1>11 DEF Next

LEMMA AtHandStays ==
    ASSUME TypeOK, BootAlone, [Next]_vars, boot' = boot, NEW p \in Push, p \in sent', AtHand(p)
    PROVE  AtHand(p)'
<1>1. CASE Settled(p)  BY <1>1, SettledStays DEF AtHand
<1>2. CASE \E n \in Letter : n[2] = p /\ Seen(n)  BY <1>2, SeenStays, TypeNext
<1> QED BY <1>1, <1>2 DEF AtHand

LEMMA PlacesAreSeen ==
    ASSUME NEW p
    PROVE  Places(p) # {} <=> \E s \in Session : Seen(<<s, p>>)
<1>1. DOMAIN Boxes = 1..7  BY DEF Boxes
<1>2. \A j \in 1..7 : j = 1 \/ j = 2 \/ j = 3 \/ j = 4 \/ j = 5 \/ j = 6 \/ j = 7  OBVIOUS
<1>3. ASSUME NEW b \in Places(p) PROVE \E s \in Session : Seen(<<s, p>>)
  <2>1. b[1] \in Session /\ b[2] \in 1..7 /\ Boxes[b[2]][<<b[1], p>>] > 0  BY <1>1 DEF Places
  <2>2. Seen(<<b[1], p>>)  BY <1>2, <2>1 DEF Boxes, Seen
  <2> QED BY <2>1, <2>2
<1>4. ASSUME NEW s \in Session, Seen(<<s, p>>) PROVE Places(p) # {}
  <2>1. PICK j \in 1..7 : Boxes[j][<<s, p>>] > 0
    <3>1. /\ Boxes[1] = sending /\ Boxes[2] = deciding /\ Boxes[3] = parking /\ Boxes[4] = parked
          /\ Boxes[5] = woken /\ Boxes[6] = local /\ Boxes[7] = midturn
          BY DEF Boxes
    <3>2. 1 \in 1..7 /\ 2 \in 1..7 /\ 3 \in 1..7 /\ 4 \in 1..7 /\ 5 \in 1..7 /\ 6 \in 1..7 /\ 7 \in 1..7
          OBVIOUS
    <3> QED BY <1>4, <3>1, <3>2 DEF Seen
  <2>2. <<s, j>> \in Places(p)  BY <1>1, <2>1 DEF Places
  <2> QED BY <2>2
<1> QED BY <1>3, <1>4

(* A clear loop starts for a push that is at hand; one that is declined    *)
(* has none.                                                               *)
LEMMA ClearsStart ==
    ASSUME IInv, TextsDiffer, [Next]_vars, boot' = boot, NEW n \in Letter, KeyOf(n) \in windows'
    PROVE  n[2] \in sent' /\ (KeyOf(n) \in windows \/ AtHand(n[2]))
<1> DEFINE Goal == n[2] \in sent' /\ (KeyOf(n) \in windows \/ AtHand(n[2]))
<1> USE DEF process, commands, tables, boxes, recovery, surfaces, clearing, history
<1>1. KeyOf(n) \in windows \/ Early(n) \/ Waits(n) \/ woken[n] > 0 \/ midturn[n] > 0 => n[2] \in sent
      BY DEF IInv, UnsentIsNowhere, Nowhere, Still
<1>2. ASSUME windows' \subseteq windows, sent \subseteq sent' PROVE Goal
      BY <1>1, <1>2
<1>3. ASSUME NEW m \in Letter, m[2] = n[2], Seen(m), UNCHANGED sent, n[2] \in sent PROVE Goal
      BY <1>3 DEF AtHand
<1>4. CASE Recovery
      BY <1>2, <1>4
      DEF Recovery, ReportInterrupted, ClearReported, OfferRow, ReadRows, FinishRecovery
<1>5. CASE Produce
      BY <1>2, <1>5 DEF Produce, Send, FollowUp, StartCommand, RecordCommand, FinishCommand
<1>6. CASE Run
  <2>1. ASSUME NEW m \in Letter, NEW interrupt \in BOOLEAN, Deliver(m, interrupt) PROVE Goal
    <3>1. PICK d \in Letter : d[2] = m[2] /\ DeliverAs(m, d, interrupt)
          BY <2>1, DeliverFacts
    <3>2. sending[m] > 0 /\ Early(m) /\ Seen(m)  BY <3>1 DEF DeliverAs, Early, Seen
    <3>3. m[2] \in sent  BY <3>2 DEF IInv, UnsentIsNowhere, Nowhere
    <3>4. CASE sent' = sent \ {m[2]} /\ UNCHANGED windows
      <4>1. n[2] # m[2]  BY <3>2, <3>4 DEF IInv, EarlyIsAlone, Alone, Still
      <4> QED BY <1>1, <3>4, <4>1
    <3>5. CASE UNCHANGED <<sent, windows>>  BY <1>2, <3>5
    <3>6. CASE windows' = windows \cup {KeyOf(d)} /\ UNCHANGED sent
      <4>1. CASE KeyOf(n) \in windows  BY <1>1, <3>6, <4>1
      <4>2. CASE KeyOf(n) = KeyOf(d)
        <5>1. n = d  BY <4>2, KeysDiffer
        <5> QED BY <1>3, <3>1, <3>2, <3>3, <3>6, <5>1
      <4> QED BY <3>6, <4>1, <4>2
    <3> QED BY <3>1, <3>4, <3>5, <3>6 DEF DeliverAs, OpenWindows
  <2>2. ASSUME NEW m \in Letter, Fallback(m) PROVE Goal
    <3>1. deciding[m] > 0 /\ Early(m) /\ Seen(m) /\ UNCHANGED sent
          BY <2>2 DEF Fallback, Early, Seen
    <3>2. m[2] \in sent  BY <3>1 DEF IInv, UnsentIsNowhere, Nowhere
    <3>3. windows' \subseteq windows \cup {KeyOf(m)}  BY <2>2 DEF Fallback, OpenWindows
    <3>4. CASE KeyOf(n) \in windows  BY <1>1, <3>1, <3>4
    <3>5. CASE KeyOf(n) = KeyOf(m)
      <4>1. n = m  BY <3>5, KeysDiffer
      <4> QED BY <1>3, <3>1, <3>2, <4>1
    <3> QED BY <3>3, <3>4, <3>5
  <2> QED BY <1>2, <1>6, <2>1, <2>2
          DEF Run, Park, WakeRuns, WakeQueues, WakeGivesUp, LocalTakes, Insert, ClearPass
<1>7. CASE Surface \/ FlushParked
  <2>1. ASSUME NEW pile, windows' = windows \cup {KeyOf(m) : m \in Held(pile)}, UNCHANGED sent,
               \A m \in Letter : pile[m] > 0 => Seen(m) /\ m[2] \in sent
        PROVE  Goal
    <3>1. CASE KeyOf(n) \in windows  BY <1>1, <2>1, <3>1
    <3>2. ASSUME NEW m \in Held(pile), KeyOf(n) = KeyOf(m) PROVE Goal
      <4>1. m \in Letter /\ pile[m] > 0  BY DEF Held
      <4>2. n = m  BY <3>2, <4>1, KeysDiffer
      <4> QED BY <1>3, <2>1, <4>1, <4>2
    <3> QED BY <2>1, <3>1, <3>2
  <2>2. \A m \in Letter : parked[m] > 0 \/ midturn[m] > 0 => Seen(m) /\ m[2] \in sent
        BY DEF Seen, IInv, UnsentIsNowhere, Nowhere, Waits, Still
  <2>3. ASSUME NEW S, NEW pile, windows' = windows \cup {KeyOf(m) : m \in Held(pile) \cap S},
               UNCHANGED sent, pile = parked \/ pile = midturn
        PROVE  Goal
    <3>1. CASE KeyOf(n) \in windows  BY <1>1, <2>3, <3>1
    <3>2. ASSUME NEW m \in Held(pile), KeyOf(n) = KeyOf(m) PROVE Goal
      <4>1. m \in Letter /\ pile[m] > 0  BY DEF Held
      <4>2. n = m  BY <3>2, <4>1, KeysDiffer
      <4>3. Seen(m) /\ m[2] \in sent  BY <2>2, <2>3, <4>1
      <4> QED BY <1>3, <2>3, <4>2, <4>3
    <3> QED BY <2>3, <3>1, <3>2
  <2>4. ASSUME NEW s \in Session, Claim(s) \/ Drain(s) PROVE Goal
        BY <2>3, <2>4 DEF Claim, Drain, OpenWindows
  <2>5. CASE FlushParked
    <3>1. Held(parked) = Held(parked) \cap Letter  BY DEF Held
    <3> QED BY <2>3, <2>5, <3>1 DEF FlushParked, OpenWindows
  <2> QED BY <1>2, <1>7, <2>4, <2>5
          DEF Surface, ExpectChannel, TurnStarts, TurnEnds, StopTarget, Occupy
<1>8. ASSUME NEW long \in BOOLEAN, Crash(long) PROVE FALSE
      BY <1>8 DEF Crash, IInv, TypeOK
<1>9. CASE UNCHANGED vars  BY <1>2, <1>9 DEF vars
<1> QED BY <1>4, <1>5, <1>6, <1>7, <1>8, <1>9 DEF Next

LEMMA ProcessStays == ASSUME [Next]_vars PROVE boot' = boot \/ \E long \in BOOLEAN : Crash(long)
<1>1. Recovery => boot' = boot
      BY DEF Recovery, ReportInterrupted, ClearReported, OfferRow, ReadRows, FinishRecovery, process
<1>2. Produce => boot' = boot
      BY DEF Produce, Send, FollowUp, StartCommand, RecordCommand, FinishCommand, process
<1>3. Run => boot' = boot
  <2>1. ASSUME NEW m \in Letter, NEW interrupt \in BOOLEAN, Deliver(m, interrupt)
        PROVE  boot' = boot
        BY <2>1, DeliverFacts DEF DeliverAs, process
  <2> QED BY <2>1 DEF Run, Fallback, Park, WakeRuns, WakeQueues, WakeGivesUp, LocalTakes,
                      Insert, ClearPass, process
<1>4. Surface \/ FlushParked => boot' = boot
      BY DEF Surface, Claim, ExpectChannel, TurnStarts, TurnEnds, Drain, StopTarget, Occupy,
             FlushParked, process
<1>5. UNCHANGED vars => boot' = boot  BY DEF vars, process
<1> QED BY <1>1, <1>2, <1>3, <1>4, <1>5 DEF Next

LEMMA ClearsNext == IInv /\ TextsDiffer /\ ClearsAreLate /\ [Next]_vars => ClearsAreLate'
<1> SUFFICES ASSUME IInv, TextsDiffer, ClearsAreLate, [Next]_vars,
                    NEW n \in Letter, KeyOf(n) \in windows'
             PROVE  AtHand(n[2])'
    BY DEF ClearsAreLate, KeyOf
<1>1. boot' = boot
  <2>1. ASSUME NEW long \in BOOLEAN, Crash(long) PROVE FALSE
        BY <2>1 DEF Crash
  <2> QED BY <2>1, ProcessStays
<1>2. n[2] \in sent' /\ AtHand(n[2])  BY <1>1, ClearsStart DEF ClearsAreLate
<1>3. n[2] \in Push  BY LetterFacts
<1> QED BY <1>1, <1>2, <1>3, AtHandStays DEF IInv

(* What waits with a row, offered or parked, is not lost with its process. *)
LEMMA TracesOfCrash ==
    ASSUME IInv, NEW p \in Push, Accounted(p), NEW long \in BOOLEAN, Crash(long)
    PROVE  Accounted(p)' \/ Exposed(p)
<1> SUFFICES ASSUME ~Exposed(p) PROVE Accounted(p)'
    OBVIOUS
<1>1. \A s \in Session : <<s, p>> \in Letter  BY DEF Letter
<1>2. UNCHANGED <<tasks, rows, heard, dropped, stopped>>  BY DEF Crash
<1>3. CASE Settled(p)  BY <1>2, <1>3 DEF Accounted, Settled
<1>4. ASSUME NEW s \in Session, rows[<<s, p>>] > 0 PROVE Accounted(p)'
      BY <1>2, <1>4 DEF Accounted, Stored
<1>5. ASSUME NEW s \in Session, <<s, p>> \in tasks PROVE Accounted(p)'
      BY <1>2, <1>5 DEF Accounted, Running
<1>6. ASSUME NEW s \in Session
      PROVE  /\ <<s, p>> \notin spawned /\ ~(inserts[<<s, p>>] > 0)
             /\ Seen(<<s, p>>) => rows[<<s, p>>] > 0
  <2> DEFINE m == <<s, p>>
  <2>1. m \in Letter  BY <1>1
  <2>2. /\ m \notin spawned /\ ~(inserts[m] > 0)
        /\ ~(sending[m] > 0) /\ ~(deciding[m] > 0)
        /\ ~(woken[m] > 0) /\ ~(local[m] > 0) /\ ~(midturn[m] > 0)
        /\ parking[m] + parked[m] > 0 => m \in twinned /\ m \notin reaped /\ localRoute # "parking"
        BY DEF Exposed
  <2> HIDE DEF m
  <2>3. inserts[m] \in Nat /\ parking[m] \in Nat /\ parked[m] \in Nat /\ TwinOK(m)
        BY <2>1, At
  <2>4. ASSUME Seen(m) PROVE rows[m] > 0
    <3>1. parking[m] > 0 \/ parked[m] > 0  BY <2>2, <2>4 DEF Seen
    <3>2. m \in twinned /\ m \notin reaped /\ localRoute # "parking"  BY <2>2, <2>3, <3>1
    <3>3. inserts[m] = 0  BY <2>2, <2>3
    <3> QED BY <2>3, <3>1, <3>2, <3>3 DEF TwinOK, Waits
  <2> QED BY <2>2, <2>4 DEF m
<1>7. CASE Running(p)    BY <1>5, <1>6, <1>7 DEF Running
<1>8. CASE Stored(p)     BY <1>4, <1>6, <1>8 DEF Stored
<1>9. CASE Places(p) # {}
  <2>1. \E s \in Session : Seen(<<s, p>>)  BY <1>9, PlacesAreSeen
  <2> QED BY <1>4, <1>6, <2>1
<1> QED BY <1>3, <1>7, <1>8, <1>9 DEF Accounted

LEMMA AtHandIsAccounted ==
    ASSUME NEW p \in Push
    PROVE  AtHand(p) <=> Settled(p) \/ Places(p) # {}
<1>1. \A n \in Letter : n[2] = p => n[1] \in Session /\ n = <<n[1], p>>  BY LetterFacts
<1>2. \A s \in Session : <<s, p>> \in Letter /\ <<s, p>>[2] = p  BY DEF Letter
<1> QED BY <1>1, <1>2, PlacesAreSeen DEF AtHand

LEMMA AtHandNext == ASSUME NEW p \in Push PROVE AtHand(p)' => Accounted(p)'
<1>1. AtHand(p) => Accounted(p)  BY AtHandIsAccounted DEF Accounted
<1> QED BY <1>1, PTL

(* Within a process a row goes only when its push is at hand ...           *)
LEMMA StoredStays ==
    ASSUME IInv, OffersCover, ClearsAreLate, [Next]_vars, boot' = boot,
           NEW n \in Letter, rows[n] > 0 \/ inserts[n] > 0
    PROVE  rows'[n] > 0 \/ inserts'[n] > 0 \/ AtHand(n[2])
<1> USE DEF process, commands, tables, boxes, recovery, surfaces, clearing, history
<1>1. rows \in Pile /\ inserts \in Pile /\ rows[n] \in Nat /\ inserts[n] \in Nat
      BY PileNat DEF IInv, TypeOK
<1>2. CASE UNCHANGED <<rows, inserts>>  BY <1>2
<1>3. ASSUME NEW m \in Letter, inserts' = Plus(inserts, m), UNCHANGED rows
      PROVE  rows'[n] > 0 \/ inserts'[n] > 0
      BY <1>1, <1>3, PlusFacts
<1>4. CASE Recovery
  <2>1. CASE FinishRecovery
    <3>1. rows'[n] = IF n \in stale THEN 0 ELSE rows[n]  BY <1>1, <2>1, WithoutFacts DEF FinishRecovery
    <3>2. stage = "rows" /\ offers[n] = 0 /\ UNCHANGED inserts
          BY <2>1, NoLettersFacts DEF FinishRecovery
    <3>3. rows[n] > 0 => parked[n] > 0  BY <3>2 DEF OffersCover
    <3> QED BY <3>1, <3>2, <3>3 DEF AtHand, Seen
  <2>2. ASSUME NEW m \in Letter, OfferRow(m) PROVE UNCHANGED <<rows, inserts>>
        BY <2>2, OfferFacts DEF IInv, OfferRow
  <2> QED BY <1>2, <1>4, <2>1, <2>2 DEF Recovery, ReportInterrupted, ClearReported, ReadRows
<1>5. CASE Produce
      BY <1>2, <1>3, <1>5 DEF Produce, Send, FollowUp, StartCommand, RecordCommand, FinishCommand
<1>6. CASE Run
  <2>1. ASSUME NEW m \in Letter, NEW interrupt \in BOOLEAN, Deliver(m, interrupt)
        PROVE  rows'[n] > 0 \/ inserts'[n] > 0
        BY <1>2, <1>3, <2>1, DeliverFacts DEF DeliverAs, ParkingRoute
  <2>2. ASSUME NEW m \in Letter, Fallback(m) \/ WakeQueues(m)
        PROVE  rows'[n] > 0 \/ inserts'[n] > 0
        BY <1>2, <1>3, <2>2 DEF Fallback, ParkingRoute, WakeQueues
  <2>3. ASSUME NEW m \in Letter, Insert(m) PROVE rows'[n] > 0 \/ inserts'[n] > 0
    <3>1. inserts'[n] = IF n = m THEN inserts[n] - 1 ELSE inserts[n]
          BY <1>1, <2>3, MinusFacts DEF Insert
    <3>2. rows'[n] = IF n = m THEN rows[n] + 1 ELSE rows[n]
          BY <1>1, <2>3, PlusFacts DEF Insert
    <3> QED BY <1>1, <3>1, <3>2
  <2>4. ASSUME NEW k \in Session \X Text, NEW last \in BOOLEAN, ClearPass(k, last)
        PROVE  rows'[n] > 0 \/ inserts'[n] > 0 \/ AtHand(n[2])
    <3>1. rows'[n] = IF KeyOf(n) = k THEN 0 ELSE rows[n]
          BY <1>1, <2>4, WithoutFacts DEF ClearPass
    <3> QED BY <2>4, <3>1 DEF ClearPass, ClearsAreLate
  <2> QED BY <1>2, <1>6, <2>1, <2>2, <2>3, <2>4 DEF Run, Park, WakeRuns, WakeGivesUp, LocalTakes
<1>7. CASE Surface \/ FlushParked
      BY <1>2, <1>7 DEF Surface, Claim, ExpectChannel, TurnStarts, TurnEnds, Drain, StopTarget,
                        Occupy, FlushParked
<1>8. ASSUME NEW long \in BOOLEAN, Crash(long) PROVE FALSE
      BY <1>8 DEF Crash, IInv, TypeOK
<1>9. CASE UNCHANGED vars  BY <1>2, <1>9 DEF vars
<1> QED BY <1>4, <1>5, <1>6, <1>7, <1>8, <1>9 DEF Next

(* ... and a command stops running when its result is sent or its          *)
(* interruption has been reported.                                         *)
LEMMA RunningStays ==
    ASSUME IInv, [Next]_vars, boot' = boot, NEW n \in Letter, n \in spawned \cup tasks,
           n[2] \in sent'
    PROVE  n \in (spawned \cup tasks)' \/ AtHand(n[2])'
<1> USE DEF process, commands, tables, boxes, recovery, surfaces, clearing, history
<1>1. CASE UNCHANGED <<spawned, tasks>>  BY <1>1
<1>2. CASE Recovery
  <2>1. ASSUME NEW m \in Letter, ClearReported(m), n = m PROVE AtHand(n[2])'
        BY <2>1 DEF ClearReported, IInv, ReportsAreParked, AtHand, Seen
  <2>2. ASSUME NEW m \in Letter, ClearReported(m), n # m PROVE n \in (spawned \cup tasks)'
        BY <2>2 DEF ClearReported
  <2> QED BY <1>1, <1>2, <2>1, <2>2
          DEF Recovery, ReportInterrupted, OfferRow, ReadRows, FinishRecovery
<1>3. CASE Produce
  <2>1. ASSUME NEW m \in Letter, FinishCommand(m), n = m PROVE AtHand(n[2])'
    <3>1. sending'[m] = sending[m] + 1 /\ sending[m] \in Nat
          BY <2>1, PlusFacts, PileNat DEF FinishCommand, IInv, TypeOK
    <3> QED BY <2>1, <3>1 DEF AtHand, Seen
  <2>2. ASSUME NEW m \in Letter, FinishCommand(m), n # m PROVE n \in (spawned \cup tasks)'
        BY <2>2 DEF FinishCommand
  <2>3. ASSUME NEW m \in Letter, StartCommand(m) \/ RecordCommand(m)
        PROVE  n \in (spawned \cup tasks)'
        BY <2>3 DEF StartCommand, RecordCommand
  <2> QED BY <1>1, <1>3, <2>1, <2>2, <2>3 DEF Produce, Send, FollowUp
<1>4. CASE Run
  <2>1. ASSUME NEW m \in Letter, NEW interrupt \in BOOLEAN, Deliver(m, interrupt)
        PROVE  UNCHANGED <<spawned, tasks>>
        BY <2>1, DeliverFacts DEF DeliverAs
  <2> QED BY <1>1, <1>4, <2>1 DEF Run, Fallback, Park, WakeRuns, WakeQueues, WakeGivesUp,
                                  LocalTakes, Insert, ClearPass
<1>5. CASE Surface \/ FlushParked
      BY <1>1, <1>5 DEF Surface, Claim, ExpectChannel, TurnStarts, TurnEnds, Drain, StopTarget,
                        Occupy, FlushParked
<1>6. ASSUME NEW long \in BOOLEAN, Crash(long) PROVE FALSE
      BY <1>6 DEF Crash, IInv, TypeOK
<1>7. CASE UNCHANGED vars  BY <1>1, <1>7 DEF vars
<1> QED BY <1>2, <1>3, <1>4, <1>5, <1>6, <1>7 DEF Next

LEMMA TracesOfStep ==
    ASSUME IInv, OffersCover, ClearsAreLate, [Next]_vars, boot' = boot,
           NEW p \in sent, p \in sent', Accounted(p)
    PROVE  Accounted(p)'
<1>1. p \in Push /\ \A s \in Session : <<s, p>> \in Letter /\ <<s, p>>[2] = p
      BY DEF IInv, TypeOK, Letter
<1>2. AtHand(p)' => Accounted(p)'  BY <1>1, AtHandNext
<1>3. CASE AtHand(p)  BY <1>1, <1>2, <1>3, AtHandStays DEF IInv
<1>4. CASE Stored(p)
  <2>1. PICK s \in Session : rows[<<s, p>>] > 0 \/ inserts[<<s, p>>] > 0  BY <1>4 DEF Stored
  <2>2. rows'[<<s, p>>] > 0 \/ inserts'[<<s, p>>] > 0 \/ AtHand(p)
        BY <1>1, <2>1, StoredStays
  <2> QED BY <1>3, <2>2 DEF Accounted, Stored
<1>5. CASE Running(p)
  <2>1. PICK s \in Session : <<s, p>> \in spawned \cup tasks  BY <1>5 DEF Running
  <2>2. <<s, p>> \in (spawned \cup tasks)' \/ AtHand(p)'  BY <1>1, <2>1, RunningStays
  <2> QED BY <1>2, <2>2 DEF Accounted, Running
<1> QED BY <1>1, <1>3, <1>4, <1>5, AtHandIsAccounted DEF Accounted

(* Whatever is sent, parked, claimed, flushed, queued, cleared, reaped or  *)
(* offered again, over any number of processes, terminal or headless: an   *)
(* accepted push leaves the accounts only in a crash, and only one that    *)
(* was exposed - if texts tell pushes apart.                               *)
THEOREM NothingDurableVanishes ==
    ASSUME TextsDiffer
    PROVE  Spec => OnlyTheExposedVanish
<1> DEFINE Inv == IInv /\ OffersCover /\ ClearsAreLate
           Vanish == \A p \in sent \cap sent' :
                       Accounted(p) /\ ~Accounted(p)' => boot' # boot /\ Exposed(p)
<1>1. Init => Inv
  <2>1. Init => ClearsAreLate  BY DEF Init, ClearsAreLate
  <2> QED BY <2>1, BootInit, TwinsInit, OffersInit DEF IInv
<1>2. Inv /\ [Next]_vars => Inv'
  <2>1. IInv => Setting  BY DEF Setting
  <2> QED BY <2>1, BootNext, TwinsNext, OffersNext, ClearsNext DEF IInv
<1>3. Inv /\ [Next]_vars => [Vanish]_vars
  <2> SUFFICES ASSUME Inv, [Next]_vars, NEW p \in sent, p \in sent', Accounted(p), ~Accounted(p)'
               PROVE  boot' # boot /\ Exposed(p)
      OBVIOUS
  <2>1. boot' # boot  BY TracesOfStep
  <2>2. PICK long \in BOOLEAN : Crash(long)  BY <2>1, ProcessStays
  <2>3. p \in Push  BY DEF IInv, TypeOK
  <2> QED BY <2>1, <2>2, <2>3, TracesOfCrash
<1> QED BY <1>1, <1>2, <1>3, PTL DEF Spec, OnlyTheExposedVanish
=============================================================================
