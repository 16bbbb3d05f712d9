--------------------------- MODULE SubAgentsProofs ---------------------------
(***************************************************************************)
(* Theorems about the sub-agent manager, for any set of children and any   *)
(* finite set of wait_agent calls.                                         *)
(***************************************************************************)
EXTENDS SubAgents, FiniteSetTheorems, TLAPS

-----------------------------------------------------------------------------
(* Types.                                                                  *)

LEMMA TypeInit == Init => TypeOK
BY Bounds DEF Init, TypeOK, Run, AgentState, TaskStep, WaitStep, FileState, Outcome

(* A write of the status file, and a wait that goes.                       *)
LEMMA RecordTypes ==
    ASSUME TypeOK, NEW a \in Agent, NEW r, NEW s \in {"unfinished", "finished"},
           Record(a, r, s)
    PROVE  file' \in [Agent -> FileState] /\ badWrites' \in SUBSET Agent
BY DEF TypeOK, Record, HasFile, FileState

LEMMA ReleaseTypes ==
    ASSUME TypeOK, NEW w \in Wait, Release(w)
    PROVE  /\ registered' \in SUBSET Wait
           /\ waitOn' \in [Wait -> Agent \cup {NoAgent}]
           /\ saw' \in [Wait -> AgentState]
           /\ waiters' \in [Agent -> Nat]
BY DEF TypeOK, Release, LeaveWait, AgentState, Known

(* The steps of a child's task.                                            *)
LEMMA TypeRunStep ==
    ASSUME TypeOK, NEW a \in Agent, NEW r \in Run, RunStep(a, r)
    PROVE  TypeOK'
<1> USE Bounds DEF TypeOK, Run, entries, tasks, waits, disk, told
<1> USE DEF AgentState, TaskStep, Outcome, Live, EndStates, Known
<1>1. CASE BeginRun(a, r)        BY <1>1, RecordTypes DEF BeginRun, Advance
<1>2. CASE RoundGated(a, r)
      <2>1. file' \in [Agent -> FileState] /\ badWrites' \in SUBSET Agent
            BY <1>2, RecordTypes DEF RoundGated, RecordPause
      <2>2. output' \in [Agent -> 0..MaxRuns]  BY <1>2 DEF RoundGated, StoreOutput
      <2>3. state' \in [Agent -> AgentState]   BY <1>2 DEF RoundGated, MarkAwaiting
      <2> QED BY <1>2, <2>1, <2>2, <2>3 DEF RoundGated, Advance
<1>3. CASE RoundCompletes(a, r)
      <2>1. file' \in [Agent -> FileState] /\ badWrites' \in SUBSET Agent
            BY <1>3, RecordTypes DEF RoundCompletes, RecordEnd
      <2>2. output' \in [Agent -> 0..MaxRuns]
            BY <1>3 DEF RoundCompletes, StoreOutput
      <2> QED BY <1>3, <2>1, <2>2 DEF RoundCompletes, Advance
<1>4. CASE RoundFails(a, r)
      BY <1>4, RecordTypes DEF RoundFails, Advance, RecordEnd
<1>5. CASE Wake(a, r)
      <2>1. inbox' \in [Agent -> 0..MaxInputs]  BY <1>5 DEF Wake
      <2> QED BY <1>5, <2>1, RecordTypes DEF Wake, Advance, MarkRunningAgain
<1>6. CASE StopWaiting(a, r)
      BY <1>6, RecordTypes DEF StopWaiting, Advance, RecordEnd
<1>7. CASE Complete(a, r)
      BY <1>7 DEF Complete, Advance, Settle, StoreOutput, MarkEnd
<1>8. CASE RecordFailure(a, r)
      BY <1>8 DEF RecordFailure, Advance, Settle, MarkEnd
<1>9. CASE StartResumed(a, r)    BY <1>9 DEF StartResumed, Advance
<1>10. CASE BuildFails(a, r)     BY <1>10 DEF BuildFails, Advance
<1> QED BY <1>1, <1>2, <1>3, <1>4, <1>5, <1>6, <1>7, <1>8, <1>9, <1>10 DEF RunStep

(* What the parent does to a child.                                        *)
LEMMA TypeParentStep ==
    ASSUME TypeOK, NEW a \in Agent, ParentStep(a)
    PROVE  TypeOK'
<1> USE Bounds DEF TypeOK, Run, entries, tasks, waits, disk, told
<1> USE DEF AgentState, TaskStep, FileState, Live, EndStates, Known
<1>1. ASSUME NEW s \in {"unfinished", "none"}, Spawn(a, s)
      PROVE  TypeOK'
      BY <1>1 DEF Spawn, Advance
<1>2. CASE Insert(a)             BY <1>2 DEF Insert
<1>3. CASE PrepareResume(a)      BY <1>3 DEF PrepareResume, Advance, CanResume
<1>4. ASSUME NEW b \in BOOLEAN, Close(a, b)
      PROVE  TypeOK'
      BY <1>4 DEF Close, Cancel
<1>5. CASE Remove(a)             BY <1>5 DEF Remove
<1>6. CASE SendInput(a)          BY <1>6 DEF SendInput
<1> QED BY <1>1, <1>2, <1>3, <1>4, <1>5, <1>6 DEF ParentStep

(* A call between its resolution and its answer has a target: the child it *)
(* resolved.                                                               *)
Calling       == {"resolved", "waiting", "seen", "overdue", "previewed"}
CallsHaveATarget == \A w \in Wait : waitStep[w] \in Calling => waitOn[w] \in Agent

(* The wait_agent calls.                                                   *)
LEMMA TypeWaitStep ==
    ASSUME TypeOK, CallsHaveATarget, NEW w \in Wait,
           WaitStepOf(w) \/ \E a \in Agent : Resolve(w, a)
    PROVE  TypeOK'
<1> USE Bounds DEF TypeOK, Run, entries, tasks, waits, disk, told
<1> USE DEF AgentState, WaitStep, Live, EndStates, Known
<1>0. ASSUME NEW a \in Agent, Resolve(w, a)
      PROVE  TypeOK'
      BY <1>0 DEF Resolve, StepTo
<1>1. CASE EnterWait(w)
      <2>1. PICK a \in Agent : waitOn[w] = a
            BY <1>1 DEF EnterWait, CallsHaveATarget, Calling
      <2>2. waiters' \in [Agent -> Nat]
            <3>1. waiters' \in {waiters, [waiters EXCEPT ![a] = waiters[a] + 1]}
                  BY <1>1, <2>1 DEF EnterWait
            <3>2. waiters[a] + 1 \in Nat  OBVIOUS
            <3> QED BY <3>1, <3>2
      <2>3. registered' \in SUBSET Wait  BY <1>1 DEF EnterWait
      <2> QED BY <1>1, <2>2, <2>3 DEF EnterWait, StepTo
<1>2. CASE Look(w)               BY <1>2 DEF Look, StepTo, WithText
<1>3. CASE Report(w)
      <2>1. waitOn[w] \in Agent  BY <1>3 DEF Report, CallsHaveATarget, Calling
      <2>2. got' \in [Wait -> 0..MaxRuns]  BY <1>3, <2>1 DEF Report
      <2> QED BY <1>3, <2>2, ReleaseTypes DEF Report, StepTo
<1>4. CASE ReportEnd(w)
      <2>1. waitOn[w] \in Agent  BY <1>4 DEF ReportEnd, CallsHaveATarget, Calling
      <2>2. got' \in [Wait -> 0..MaxRuns]  BY <1>4, <2>1 DEF ReportEnd
      <2> QED BY <1>4, <2>2, ReleaseTypes DEF ReportEnd, StepTo
<1>5. CASE Deadline(w)           BY <1>5 DEF Deadline, StepTo
<1>6. CASE Preview(w)
      <2>1. waitOn[w] \in Agent  BY <1>6 DEF Preview, CallsHaveATarget, Calling
      <2>2. got' \in [Wait -> 0..MaxRuns]  BY <1>6, <2>1 DEF Preview
      <2> QED BY <1>6, <2>2 DEF Preview, StepTo
<1>7. CASE GiveUp(w)             BY <1>7, ReleaseTypes DEF GiveUp, StepTo
<1>8. CASE Abandon(w)            BY <1>8, ReleaseTypes DEF Abandon, StepTo
<1> QED BY <1>0, <1>1, <1>2, <1>3, <1>4, <1>5, <1>6, <1>7, <1>8 DEF WaitStepOf

LEMMA TypeStep ==
    ASSUME TypeOK, CallsHaveATarget, [Next]_vars
    PROVE  TypeOK'
<1>1. ASSUME NEW a \in Agent, NEW r \in Run, RunStep(a, r)
      PROVE  TypeOK'
      BY <1>1, TypeRunStep
<1>2. ASSUME NEW a \in Agent, ParentStep(a)
      PROVE  TypeOK'
      BY <1>2, TypeParentStep
<1>3. ASSUME NEW w \in Wait, WaitStepOf(w) \/ \E a \in Agent : Resolve(w, a)
      PROVE  TypeOK'
      BY <1>3, TypeWaitStep
<1>4. CASE Crash
      <2> USE Bounds DEF TypeOK, Run
      <2>1. task' \in [Agent -> [Run -> TaskStep]]
            BY <1>4 DEF Crash, TaskStep
      <2>2. outcome' \in [Agent -> [Run -> Outcome]]
            BY <1>4 DEF Crash, Outcome
      <2>3. /\ state' \in [Agent -> AgentState] /\ saw' \in [Wait -> AgentState]
            /\ waiters' \in [Agent -> Nat] /\ output' \in [Agent -> 0..MaxRuns]
            /\ inbox' \in [Agent -> 0..MaxInputs] /\ got' \in [Wait -> 0..MaxRuns]
            BY <1>4 DEF Crash, AgentState
      <2> HIDE DEF TypeOK, Run
      <2> QED BY <1>4, <2>1, <2>2, <2>3 DEF Crash, TypeOK, WaitStep, Run
<1>5. ASSUME NEW stuck \in SUBSET Orphans, Boot(stuck)
      PROVE  TypeOK'
      BY <1>5, Bounds DEF TypeOK, Run, Boot, Orphans, FileState, entries, tasks, waits
<1>6. ASSUME NEW a \in Agent, Revived(a)
      PROVE  TypeOK'
      BY <1>6, RecordTypes DEF TypeOK, Revived, RecordEnd, entries, waits, told
<1>7. CASE UNCHANGED vars
      BY <1>7 DEF TypeOK, vars, entries, tasks, waits, disk, told
<1> QED BY <1>1, <1>2, <1>3, <1>4, <1>5, <1>6, <1>7 DEF Next

-----------------------------------------------------------------------------
(* The count of waiters.                                                   *)

RegisteredAreCalling == \A w \in registered : waitStep[w] \in Calling \ {"resolved"}

(* A child that is not in the manager's map yet has no call on it.         *)
NewChildrenAreUnknown ==
    \A a \in Agent : run[a] = 0 \/ a \in inserting =>
        ~Known(a) /\ \A w \in Wait : waitOn[w] # a

InsertedAreSpawned == \A a \in inserting : run[a] # 0

CallsInv ==
    /\ CallsHaveATarget /\ RegisteredAreCalling
    /\ NewChildrenAreUnknown /\ InsertedAreSpawned
    /\ WaitersAreCounted

LEMMA CallsInit == Init => CallsInv
BY NoAgentIsNone DEF Init, CallsInv, CallsHaveATarget, RegisteredAreCalling, Calling,
   NewChildrenAreUnknown, InsertedAreSpawned, WaitersAreCounted, Known

LEMMA WaitsAreFinite ==
    ASSUME TypeOK, NEW a \in Agent
    PROVE  IsFiniteSet(WaitsOn(a))
BY WaitIsFinite, FS_Subset, WaitsOn(a) \subseteq Wait DEF TypeOK, WaitsOn

(* A step that touches no call, no count and no entry's presence.          *)
LEMMA CallsFrame ==
    ASSUME CallsInv, UNCHANGED <<waiters, waits, inserting, run>>,
           \A a \in Agent : Known(a)' <=> Known(a)
    PROVE  CallsInv'
BY DEF CallsInv, CallsHaveATarget, RegisteredAreCalling, NewChildrenAreUnknown,
   InsertedAreSpawned, WaitersAreCounted, WaitsOn, waits

(* A call that goes takes back exactly its own registration.               *)
LEMMA ReleaseCounts ==
    ASSUME TypeOK, CallsInv, NEW w \in Wait, Release(w), UNCHANGED state
    PROVE  WaitersAreCounted'
<1> SUFFICES ASSUME NEW a \in Agent, Known(a)'
             PROVE  waiters'[a] = Cardinality(WaitsOn(a)')
    BY DEF WaitersAreCounted
<1>1. Known(a)  BY DEF Known
<1>2. waiters[a] = Cardinality(WaitsOn(a))
      BY <1>1 DEF CallsInv, WaitersAreCounted
<1>3. waiters[a] \in Nat  BY DEF TypeOK
<1>4. CASE w \in WaitsOn(a)
      <2>1. WaitsOn(a)' = WaitsOn(a) \ {w}
            BY NoAgentIsNone, <1>4 DEF Release, WaitsOn, TypeOK
      <2>2. Cardinality(WaitsOn(a)') = Cardinality(WaitsOn(a)) - 1
            BY <1>4, <2>1, WaitsAreFinite, FS_RemoveElement
      <2>3. waiters[a] > 0
            BY <1>2, <1>3, <1>4, WaitsAreFinite, FS_EmptySet
      <2>4. waiters'[a] = waiters[a] - 1
            BY <1>1, <1>4, <2>3 DEF Release, LeaveWait, WaitsOn
      <2> QED BY <1>2, <2>2, <2>4
<1>5. CASE w \notin WaitsOn(a)
      <2>1. WaitsOn(a)' = WaitsOn(a)
            BY NoAgentIsNone, <1>5 DEF Release, WaitsOn, TypeOK
      <2>2. waiters'[a] = waiters[a]
            BY <1>5 DEF Release, LeaveWait, WaitsOn
      <2> QED BY <1>2, <2>1, <2>2
<1> QED BY <1>4, <1>5

LEMMA CallEnds ==
    ASSUME TypeOK, CallsInv, NEW w \in Wait, Release(w),
           UNCHANGED <<state, inserting, run>>,
           waitStep' \in {[waitStep EXCEPT ![w] = s] : s \in {"over", "dropped"}}
    PROVE  CallsInv'
<1>1. CallsHaveATarget' /\ RegisteredAreCalling'
      BY DEF TypeOK, CallsInv, CallsHaveATarget, RegisteredAreCalling, Calling, Release
<1>2. NewChildrenAreUnknown' /\ InsertedAreSpawned'
      BY NoAgentIsNone DEF TypeOK, CallsInv, NewChildrenAreUnknown, InsertedAreSpawned,
         Known, Release
<1> QED BY <1>1, <1>2, ReleaseCounts DEF CallsInv

LEMMA CallMoves ==
    ASSUME TypeOK, CallsInv, NEW w \in Wait, NEW s \in {"seen", "overdue", "previewed"},
           waitStep[w] \in {"waiting", "overdue"}, StepTo(w, s),
           UNCHANGED <<state, waiters, inserting, run, waitOn, registered>>
    PROVE  CallsInv'
<1>1. CallsHaveATarget' /\ RegisteredAreCalling'
      BY DEF StepTo, TypeOK, CallsInv, CallsHaveATarget, RegisteredAreCalling, Calling
<1>2. NewChildrenAreUnknown' /\ InsertedAreSpawned' /\ WaitersAreCounted'
      BY DEF CallsInv, NewChildrenAreUnknown, InsertedAreSpawned, WaitersAreCounted,
         WaitsOn, Known
<1> QED BY <1>1, <1>2 DEF CallsInv

LEMMA CallBegins ==
    ASSUME TypeOK, CallsInv, NEW w \in Wait, EnterWait(w)
    PROVE  CallsInv'
<1> USE DEF EnterWait, StepTo
<1>1. PICK a \in Agent : waitOn[w] = a
      BY DEF CallsInv, CallsHaveATarget, Calling
<1>2. w \notin registered
      BY DEF CallsInv, RegisteredAreCalling, Calling
<1>3. CallsHaveATarget' /\ RegisteredAreCalling'
      BY DEF TypeOK, CallsInv, CallsHaveATarget, RegisteredAreCalling, Calling
<1>4. NewChildrenAreUnknown' /\ InsertedAreSpawned'
      BY DEF CallsInv, NewChildrenAreUnknown, InsertedAreSpawned, Known, tasks
<1>5. ASSUME NEW b \in Agent, Known(b)'
      PROVE  waiters'[b] = Cardinality(WaitsOn(b)')
      <2>1. Known(b) /\ waiters[b] = Cardinality(WaitsOn(b))
            BY <1>5 DEF Known, CallsInv, WaitersAreCounted
      <2>2. CASE b = a
            <3>1. registered' = registered \cup {w} /\ waiters'[b] = waiters[b] + 1
                  BY <1>1, <2>1, <2>2 DEF TypeOK
            <3>2. WaitsOn(b)' = WaitsOn(b) \cup {w}
                  BY <1>1, <2>2, <3>1 DEF WaitsOn
            <3>3. w \notin WaitsOn(b)  BY <1>2 DEF WaitsOn
            <3>4. Cardinality(WaitsOn(b)') = Cardinality(WaitsOn(b)) + 1
                  BY <3>2, <3>3, WaitsAreFinite, FS_AddElement
            <3> QED BY <2>1, <3>1, <3>4
      <2>3. CASE b # a
            <3>1. waiters'[b] = waiters[b]  BY <1>1, <2>3 DEF TypeOK
            <3>2. WaitsOn(b)' = WaitsOn(b)  BY <1>1, <2>3 DEF WaitsOn
            <3> QED BY <2>1, <3>1, <3>2
      <2> QED BY <2>2, <2>3
<1> QED BY <1>3, <1>4, <1>5 DEF CallsInv, WaitersAreCounted

LEMMA RunStepCalls ==
    ASSUME TypeOK, CallsInv, NEW a \in Agent, NEW r \in Run, RunStep(a, r)
    PROVE  CallsInv'
<1> USE DEF entries, tasks, Known, TypeOK, AgentState, Live, EndStates
<1> SUFFICES /\ UNCHANGED <<waiters, waits, inserting, run>>
             /\ \A b \in Agent : Known(b)' <=> Known(b)
    BY CallsFrame
<1>1. CASE BeginRun(a, r)        BY <1>1 DEF BeginRun
<1>2. CASE RoundGated(a, r)      BY <1>2 DEF RoundGated, MarkAwaiting
<1>3. CASE RoundCompletes(a, r)  BY <1>3 DEF RoundCompletes
<1>4. CASE RoundFails(a, r)      BY <1>4 DEF RoundFails
<1>5. CASE Wake(a, r)            BY <1>5 DEF Wake, MarkRunningAgain
<1>6. CASE StopWaiting(a, r)     BY <1>6 DEF StopWaiting
<1>7. CASE Complete(a, r)        BY <1>7 DEF Complete, MarkEnd
<1>8. CASE RecordFailure(a, r)   BY <1>8 DEF RecordFailure, MarkEnd
<1>9. CASE StartResumed(a, r)    BY <1>9 DEF StartResumed
<1>10. CASE BuildFails(a, r)     BY <1>10 DEF BuildFails
<1> QED BY <1>1, <1>2, <1>3, <1>4, <1>5, <1>6, <1>7, <1>8, <1>9, <1>10 DEF RunStep

LEMMA ParentStepCalls ==
    ASSUME TypeOK, CallsInv, NEW a \in Agent, ParentStep(a)
    PROVE  CallsInv'
<1> USE DEF Known
<1>1. ASSUME NEW s \in {"unfinished", "none"}, Spawn(a, s)
      PROVE  CallsInv'
      BY <1>1 DEF Spawn, TypeOK, CallsInv, CallsHaveATarget, RegisteredAreCalling,
         NewChildrenAreUnknown, InsertedAreSpawned, WaitersAreCounted, WaitsOn, waits
<1>2. CASE Insert(a)
      <2>1. CallsHaveATarget' /\ RegisteredAreCalling' /\ InsertedAreSpawned'
            BY <1>2 DEF Insert, CallsInv, CallsHaveATarget, RegisteredAreCalling,
               InsertedAreSpawned, waits, tasks
      <2>2. NewChildrenAreUnknown'
            BY <1>2 DEF Insert, TypeOK, CallsInv, NewChildrenAreUnknown,
               InsertedAreSpawned, waits, tasks
      <2>3. ASSUME NEW b \in Agent, Known(b)'
            PROVE  waiters'[b] = Cardinality(WaitsOn(b)')
            <3>1. WaitsOn(b)' = WaitsOn(b)  BY <1>2 DEF Insert, WaitsOn, waits
            <3>2. CASE b = a
                  <4>1. WaitsOn(a) = {}
                        BY <1>2 DEF Insert, CallsInv, NewChildrenAreUnknown, WaitsOn,
                           TypeOK
                  <4> QED BY <1>2, <3>1, <3>2, <4>1, FS_EmptySet DEF Insert, TypeOK
            <3>3. CASE b # a
                  BY <1>2, <2>3, <3>1, <3>3 DEF Insert, TypeOK, CallsInv,
                     WaitersAreCounted
            <3> QED BY <3>2, <3>3
      <2> QED BY <2>1, <2>2, <2>3 DEF CallsInv, WaitersAreCounted
<1>3. CASE PrepareResume(a)
      BY <1>3 DEF PrepareResume, CanResume, EndStates, TypeOK, CallsInv,
         CallsHaveATarget, RegisteredAreCalling, NewChildrenAreUnknown,
         InsertedAreSpawned, WaitersAreCounted, WaitsOn, waits
<1>4. ASSUME NEW b \in BOOLEAN, Close(a, b)
      PROVE  CallsInv'
      BY <1>4, CallsFrame DEF Close, Cancel, Live, TypeOK
<1>5. CASE Remove(a)
      BY <1>5 DEF Remove, TypeOK, CallsInv, CallsHaveATarget, RegisteredAreCalling,
         NewChildrenAreUnknown, InsertedAreSpawned, WaitersAreCounted, WaitsOn, waits,
         tasks
<1>6. CASE SendInput(a)
      BY <1>6, CallsFrame DEF SendInput, entries
<1> QED BY <1>1, <1>2, <1>3, <1>4, <1>5, <1>6 DEF ParentStep

LEMMA WaitStepCalls ==
    ASSUME TypeOK, CallsInv, NEW w \in Wait,
           WaitStepOf(w) \/ \E a \in Agent : Resolve(w, a)
    PROVE  CallsInv'
<1> USE DEF StepTo, tasks
<1>0. ASSUME NEW a \in Agent, Resolve(w, a)
      PROVE  CallsInv'
      <2>1. CallsHaveATarget' /\ RegisteredAreCalling'
            BY <1>0 DEF Resolve, TypeOK, CallsInv, CallsHaveATarget,
               RegisteredAreCalling, Calling
      <2>2. NewChildrenAreUnknown' /\ InsertedAreSpawned'
            BY <1>0 DEF Resolve, TypeOK, CallsInv, NewChildrenAreUnknown,
               InsertedAreSpawned, Known, entries
      <2>3. w \notin registered
            BY <1>0 DEF Resolve, CallsInv, RegisteredAreCalling, Calling
      <2>4. \A b \in Agent : WaitsOn(b)' = WaitsOn(b)
            BY <1>0, <2>3 DEF Resolve, WaitsOn
      <2>5. WaitersAreCounted'
            BY <1>0, <2>4 DEF Resolve, CallsInv, WaitersAreCounted, Known, entries
      <2> QED BY <2>1, <2>2, <2>5 DEF CallsInv
<1>1. CASE EnterWait(w)          BY <1>1, CallBegins
<1>2. CASE Look(w)          BY <1>2, CallMoves DEF Look, entries
<1>3. CASE Report(w)             BY <1>3, CallEnds DEF Report
<1>4. CASE ReportEnd(w)          BY <1>4, CallEnds DEF ReportEnd
<1>5. CASE Deadline(w)      BY <1>5, CallMoves DEF Deadline, entries
<1>6. CASE Preview(w)       BY <1>6, CallMoves DEF Preview, entries
<1>7. CASE GiveUp(w)             BY <1>7, CallEnds DEF GiveUp
<1>8. CASE Abandon(w)            BY <1>8, CallEnds DEF Abandon
<1> QED BY <1>0, <1>1, <1>2, <1>3, <1>4, <1>5, <1>6, <1>7, <1>8 DEF WaitStepOf

LEMMA CallsStep ==
    ASSUME TypeOK, CallsInv, [Next]_vars
    PROVE  CallsInv'
<1>1. ASSUME NEW a \in Agent, NEW r \in Run, RunStep(a, r)
      PROVE  CallsInv'
      BY <1>1, RunStepCalls
<1>2. ASSUME NEW a \in Agent, ParentStep(a)
      PROVE  CallsInv'
      BY <1>2, ParentStepCalls
<1>3. ASSUME NEW w \in Wait, WaitStepOf(w) \/ \E a \in Agent : Resolve(w, a)
      PROVE  CallsInv'
      BY <1>3, WaitStepCalls
<1>4. CASE Crash
      BY <1>4, NoAgentIsNone DEF Crash, CallsInv, CallsHaveATarget,
         RegisteredAreCalling, Calling, NewChildrenAreUnknown, InsertedAreSpawned,
         WaitersAreCounted, Known
<1>5. ASSUME NEW stuck \in SUBSET Orphans, Boot(stuck)
      PROVE  CallsInv'
      BY <1>5, CallsFrame DEF Boot, Known, entries
<1>6. ASSUME NEW a \in Agent, Revived(a)
      PROVE  CallsInv'
      BY <1>6, CallsFrame DEF Revived, Known, entries
<1>7. CASE UNCHANGED vars
      BY <1>7, CallsFrame DEF vars, Known, entries, tasks
<1> QED BY <1>1, <1>2, <1>3, <1>4, <1>5, <1>6, <1>7 DEF Next

-----------------------------------------------------------------------------
(* One run at a time.                                                      *)

(* What is in flight is the latest run, and the entry does not read as     *)
(* ended.                                                                  *)
LatestRunOnly ==
    \A a \in Agent, r \in Run : InFlight(a, r) => r = run[a] /\ state[a] \notin EndStates

(* A child without a task in flight, whose entry is live or about to be    *)
(* inserted, ended where nobody could be told.                             *)
QuietEntries ==
    \A a \in Agent : (state[a] \in Live \/ a \in inserting) /\ ~InFlight(a, run[a])
        => outcome[a][run[a]] = "silent"

(* How a run ends is open as long as it is in flight or has yet to come.   *)
UndecidedRuns ==
    \A a \in Agent, r \in Run : InFlight(a, r) \/ r > run[a] => outcome[a][r] = "open"

RunsInv == LatestRunOnly /\ QuietEntries /\ UndecidedRuns

LEMMA RunsInit == Init => RunsInv
BY DEF Init, RunsInv, LatestRunOnly, QuietEntries, UndecidedRuns, InFlight, Live

LEMMA RunStepRuns ==
    ASSUME TypeOK, CallsInv, RunsInv, NEW a \in Agent, NEW r \in Run, RunStep(a, r)
    PROVE  RunsInv'
<1> USE DEF TypeOK, RunsInv, LatestRunOnly, QuietEntries, UndecidedRuns, InFlight, entries, Advance,
            EndStates, Live
<1>1. CASE BeginRun(a, r)        BY <1>1 DEF BeginRun, told
<1>2. CASE RoundGated(a, r)      BY <1>2 DEF RoundGated, MarkAwaiting, told
<1>3. CASE RoundCompletes(a, r)  BY <1>3 DEF RoundCompletes, told
<1>4. CASE RoundFails(a, r)      BY <1>4 DEF RoundFails, told
<1>5. CASE Wake(a, r)            BY <1>5 DEF Wake, MarkRunningAgain, told
<1>6. CASE StopWaiting(a, r)     BY <1>6 DEF StopWaiting, told
<1>7. CASE Complete(a, r)
      <2>1. \A b \in Agent, q \in Run :
                InFlight(b, q)' => InFlight(b, q) /\ (b # a \/ q # r)
            BY <1>7 DEF Complete
      <2>2. \A b \in Agent \ {a} : state'[b] = state[b]
            BY <1>7 DEF Complete, MarkEnd
      <2>3. run' = run /\ r = run[a]  BY <1>7 DEF Complete
      <2> HIDE DEF TypeOK, InFlight
      <2>4. LatestRunOnly'  BY <2>1, <2>2, <2>3
      <2> USE DEF TypeOK, InFlight
      <2>5. QuietEntries'
            BY <1>7 DEF Complete, Settle, MarkEnd, Known, CallsInv,
               NewChildrenAreUnknown
      <2>6. UndecidedRuns'  BY <1>7, <2>1, <2>3 DEF Complete, Settle
      <2> QED BY <2>4, <2>5, <2>6
<1>8. CASE RecordFailure(a, r)
      <2>1. \A b \in Agent, q \in Run :
                InFlight(b, q)' => InFlight(b, q) /\ (b # a \/ q # r)
            BY <1>8 DEF RecordFailure
      <2>2. \A b \in Agent \ {a} : state'[b] = state[b]
            BY <1>8 DEF RecordFailure, MarkEnd
      <2>3. run' = run /\ r = run[a]  BY <1>8 DEF RecordFailure
      <2> HIDE DEF TypeOK, InFlight
      <2>4. LatestRunOnly'  BY <2>1, <2>2, <2>3
      <2> USE DEF TypeOK, InFlight
      <2>5. QuietEntries'
            BY <1>8 DEF RecordFailure, Settle, MarkEnd, Known, CallsInv,
               NewChildrenAreUnknown
      <2>6. UndecidedRuns'  BY <1>8, <2>1, <2>3 DEF RecordFailure, Settle
      <2> QED BY <2>4, <2>5, <2>6
<1>9. CASE StartResumed(a, r)    BY <1>9 DEF StartResumed, told
<1>10. CASE BuildFails(a, r)     BY <1>10 DEF BuildFails
<1> QED BY <1>1, <1>2, <1>3, <1>4, <1>5, <1>6, <1>7, <1>8, <1>9, <1>10 DEF RunStep

LEMMA ParentStepRuns ==
    ASSUME TypeOK, CallsInv, RunsInv, NEW a \in Agent, ParentStep(a)
    PROVE  RunsInv'
<1> USE Bounds DEF TypeOK, Run, RunsInv, LatestRunOnly, QuietEntries, UndecidedRuns, InFlight,
            EndStates, Live, told
<1>1. ASSUME NEW s \in {"unfinished", "none"}, Spawn(a, s)
      PROVE  RunsInv'
      <2>R. run \in [Agent -> 0..MaxRuns]  OBVIOUS
      <2>1. task'[a][1] = "starting" /\ run'[a] = 1 /\ run[a] = 0
            BY <1>1 DEF Spawn, Advance
      <2>2. \A b \in Agent, r \in Run : b # a \/ r # 1 => task'[b][r] = task[b][r]
            BY <1>1 DEF Spawn, Advance
      <2>3. \A b \in Agent \ {a} : run'[b] = run[b]
                                   /\ (b \in inserting' <=> b \in inserting)
            BY <1>1 DEF Spawn
      <2>4. state' = state /\ outcome' = outcome /\ state[a] = "unknown"
            BY <1>1 DEF Spawn, CallsInv, NewChildrenAreUnknown, Known
      <2> HIDE DEF TypeOK
      <2>5. LatestRunOnly'  BY <2>1, <2>2, <2>3, <2>4
      <2>6. QuietEntries'   BY <2>1, <2>2, <2>3, <2>4, <2>R
      <2>7. UndecidedRuns'  BY <2>1, <2>2, <2>3, <2>4, <2>R
      <2> QED BY <2>5, <2>6, <2>7
<1>2. CASE Insert(a)
      BY <1>2 DEF Insert, tasks, CallsInv, NewChildrenAreUnknown, Known
<1>3. CASE PrepareResume(a)
      <2>R. run \in [Agent -> 0..MaxRuns]  OBVIOUS
      <2>1. run'[a] = run[a] + 1 /\ run'[a] \in Run /\ task'[a][run'[a]] = "building"
            BY <1>3 DEF PrepareResume, Advance, CanResume
      <2>2. \A b \in Agent, r \in Run :
                b # a \/ r # run'[a] => task'[b][r] = task[b][r]
            BY <1>3, <2>1 DEF PrepareResume, Advance
      <2>3. \A b \in Agent \ {a} : run'[b] = run[b] /\ state'[b] = state[b]
            BY <1>3 DEF PrepareResume
      <2>4. /\ inserting' = inserting /\ outcome' = outcome
            /\ state[a] \in EndStates /\ state'[a] = "Running"
            BY <1>3 DEF PrepareResume, CanResume
      <2> HIDE DEF TypeOK
      <2>5. LatestRunOnly'  BY <2>1, <2>2, <2>3, <2>4
      <2>6. QuietEntries'   BY <2>1, <2>2, <2>3, <2>4, <2>R
      <2>7. UndecidedRuns'  BY <2>1, <2>2, <2>3, <2>4, <2>R
      <2> QED BY <2>5, <2>6, <2>7
<1>4. ASSUME NEW b \in BOOLEAN, Close(a, b)
      PROVE  RunsInv'
      <2>1. UNCHANGED <<inserting, task, run, outcome>>  BY <1>4 DEF Close
      <2>2. \A c \in Agent : state'[c] = state[c] \/ state'[c] = "Cancelled"
            BY <1>4 DEF Close, Cancel
      <2> HIDE DEF TypeOK
      <2>3. LatestRunOnly' /\ QuietEntries' /\ UndecidedRuns'  BY <2>1, <2>2
      <2> QED BY <2>3
<1>5. CASE Remove(a)             BY <1>5 DEF Remove, tasks
<1>6. CASE SendInput(a)          BY <1>6 DEF SendInput, entries
<1> QED BY <1>1, <1>2, <1>3, <1>4, <1>5, <1>6 DEF ParentStep

LEMMA RunsStep ==
    ASSUME TypeOK, CallsInv, RunsInv, [Next]_vars
    PROVE  RunsInv'
<1>1. ASSUME NEW a \in Agent, NEW r \in Run, RunStep(a, r)
      PROVE  RunsInv'
      BY <1>1, RunStepRuns
<1>2. ASSUME NEW a \in Agent, ParentStep(a)
      PROVE  RunsInv'
      BY <1>2, ParentStepRuns
<1>3. ASSUME UNCHANGED <<state, inserting, task, run, outcome>>
      PROVE  RunsInv'
      BY <1>3 DEF RunsInv, LatestRunOnly, QuietEntries, UndecidedRuns, InFlight
<1>4. ASSUME NEW w \in Wait, WaitStepOf(w) \/ \E a \in Agent : Resolve(w, a)
      PROVE  RunsInv'
      BY <1>3, <1>4 DEF WaitStepOf, Resolve, EnterWait, Look, Report, ReportEnd,
         Deadline, Preview, GiveUp, Abandon, entries, tasks, told
<1>5. CASE Crash
      <2>1. /\ \A a \in Agent, r \in Run : ~InFlight(a, r)'
            /\ run' = run /\ inserting' = {}
            /\ \A a \in Agent : state'[a] = "unknown"
            BY <1>5 DEF Crash, InFlight
      <2>2. \A a \in Agent, r \in Run : r > run[a] => outcome'[a][r] = "open"
            <3> SUFFICES ASSUME NEW a \in Agent, NEW r \in Run, r > run[a]
                         PROVE  outcome'[a][r] = "open"
                OBVIOUS
            <3>1. outcome[a][r] = "open"  BY DEF RunsInv, UndecidedRuns
            <3>2. ~InFlight(a, r)  BY DEF TypeOK, RunsInv, LatestRunOnly, Run
            <3> QED BY <1>5, <3>1, <3>2 DEF Crash
      <2> QED BY <2>1, <2>2 DEF RunsInv, LatestRunOnly, QuietEntries, UndecidedRuns, Live
<1>6. ASSUME NEW stuck \in SUBSET Orphans, Boot(stuck)
      PROVE  RunsInv'
      BY <1>3, <1>6 DEF Boot, entries
<1>7. ASSUME NEW a \in Agent, Revived(a)
      PROVE  RunsInv'
      BY <1>3, <1>7 DEF Revived, entries, told
<1>8. CASE UNCHANGED vars
      BY <1>3, <1>8 DEF vars, entries, tasks, told
<1> QED BY <1>1, <1>2, <1>4, <1>5, <1>6, <1>7, <1>8 DEF Next

-----------------------------------------------------------------------------
(* Status files and restarts.                                              *)

(* The first run is the spawned one: it begins with the child, is never    *)
(* built by a resume, and is over when its session is revived.             *)
FirstRuns ==
    \A a \in Agent :
        /\ run[a] = 0 <=> task[a][1] = "none"
        /\ task[a][1] # "building"
        /\ task[a][1] = "none" => ~HasFile(a) /\ a \notin row
        /\ a \in reviving => up /\ task[a][1] = "done"
        /\ outcome[a][1] = "dead" => task[a][1] = "done"
        /\ ~up => task[a][1] \in {"none", "done"}

(* The file follows the first run: unfinished as long as the run has not   *)
(* ended, and for longer only after a failed write or a kill.              *)
Working == {"starting", "round", "parked"}

FilesFollowRuns ==
    \A a \in Agent :
        /\ task[a][1] \in Working /\ HasFile(a) => file[a] = "unfinished"
        /\ file[a] = "unfinished" /\ a \notin badWrites
               => task[a][1] \in Working \/ outcome[a][1] = "dead"

(* A run that was killed is an orphan until a boot reports it.             *)
KilledRunsAreOrphans ==
    \A a \in Agent :
        outcome[a][1] = "dead" /\ HasFile(a) /\ a \notin inGap /\ a \notin interrupted
            => ~up /\ file[a] = "unfinished"

FilesInv ==
    FirstRuns /\ FilesFollowRuns /\ KilledRunsAreOrphans /\ InterruptedWasNotReported

LEMMA FilesInit == Init => FilesInv
BY Bounds DEF Init, FilesInv, FirstRuns, FilesFollowRuns, KilledRunsAreOrphans,
   InterruptedWasNotReported, HasFile, Working, Run

(* What every step of a task does to the files: a run that goes on records *)
(* a pause or nothing, one that ends records its end first.                *)
Files(a, r, s) ==
    \/ s \in Working /\ task[a][r] \in Working \cup {"building"}
       /\ (Record(a, r, "unfinished") \/ UNCHANGED <<file, badWrites>>)
       /\ outcome' = outcome
    \/ s \in {"completing", "failing"} /\ Record(a, r, "finished") /\ outcome' = outcome
    \/ s = "done" /\ task[a][r] \in {"completing", "failing", "building"}
       /\ UNCHANGED <<file, badWrites>>
       /\ \E o \in Outcome \ {"dead"} : outcome' = [outcome EXCEPT ![a][r] = o]

LEMMA TaskStepFiles ==
    ASSUME TypeOK, CallsInv, RunsInv, FilesInv, NEW a \in Agent, NEW r \in Run,
           NEW s \in TaskStep, InFlight(a, r), Advance(a, r, s), Files(a, r, s),
           UNCHANGED <<run, reviving, up, interrupted, inGap>>,
           row' \subseteq row \cup {a}
    PROVE  FilesInv'
<1>1. task[a][1] # "none"
      <2>1. r = run[a]  BY DEF RunsInv, LatestRunOnly
      <2> QED BY <2>1, Bounds DEF FilesInv, FirstRuns, Run
<1>2. /\ \A b \in Agent \ {a} : /\ task'[b] = task[b] /\ outcome'[b] = outcome[b]
                                /\ file'[b] = file[b]
                                /\ b \in badWrites' <=> b \in badWrites
                                /\ b \in row' => b \in row
      BY DEF Advance, Files, TypeOK, Record
<1>3. badWrites \subseteq badWrites'
      BY DEF Files, Record
<1>4. ASSUME r # 1
      PROVE  /\ task'[a][1] = task[a][1] /\ outcome'[a][1] = outcome[a][1]
             /\ file'[a] = file[a] /\ (a \in badWrites' <=> a \in badWrites)
      BY <1>4, Bounds DEF Advance, Files, TypeOK, Record, Run
<1>5. ASSUME r = 1
      PROVE  /\ task'[a][1] = s /\ s \notin {"none", "building"}
             /\ task[a][1] \notin {"none", "done"} /\ outcome[a][1] # "dead"
             /\ outcome'[a][1] # "dead"
      BY <1>5, Bounds DEF Advance, Files, TypeOK, Working, InFlight, Run, Outcome,
         FilesInv, FirstRuns
<1>6. ASSUME r = 1, HasFile(a)'
      PROVE  \/ s \in Working /\ file'[a] = "unfinished"
             \/ s \in {"completing", "failing"}
                /\ (file'[a] # "unfinished" \/ a \in badWrites')
             \/ s = "done" /\ (file'[a] # "unfinished" \/ a \in badWrites')
      BY <1>5, <1>6 DEF Files, TypeOK, Record, HasFile, Working, FilesInv,
         FirstRuns, FilesFollowRuns
<1>7. FirstRuns'
      BY <1>1, <1>2, <1>4, <1>5 DEF FilesInv, FirstRuns, HasFile
<1>8. FilesFollowRuns'
      BY <1>2, <1>4, <1>5, <1>6 DEF FilesInv, FilesFollowRuns, HasFile, Working
<1>9. KilledRunsAreOrphans'
      BY <1>2, <1>4, <1>5 DEF FilesInv, KilledRunsAreOrphans, HasFile
<1>10. InterruptedWasNotReported'
      BY <1>2, <1>3, <1>4, <1>5 DEF FilesInv, InterruptedWasNotReported, TypeOK
<1> QED BY <1>7, <1>8, <1>9, <1>10 DEF FilesInv

LEMMA SettleOutcome ==
    ASSUME NEW a \in Agent, NEW r \in Run, NEW push, Settle(a, r, push)
    PROVE  \E o \in Outcome \ {"dead"} : outcome' = [outcome EXCEPT ![a][r] = o]
<1> DEFINE o == IF Known(a) /\ ~Pushes(a) THEN "held"
                ELSE IF Known(a) /\ push THEN "pushed" ELSE "silent"
<1>1. outcome' = [outcome EXCEPT ![a][r] = o]  BY DEF Settle
<1>2. o \in Outcome \ {"dead"}  BY DEF Outcome
<1> QED BY <1>1, <1>2

LEMMA RunStepFiles ==
    ASSUME TypeOK, CallsInv, RunsInv, FilesInv, NEW a \in Agent, NEW r \in Run,
           RunStep(a, r)
    PROVE  FilesInv'
<1> USE DEF InFlight, Files, Working, TaskStep, told
<1>1. CASE BeginRun(a, r)
      BY <1>1, TaskStepFiles DEF BeginRun
<1>2. CASE RoundGated(a, r)
      BY <1>2, TaskStepFiles DEF RoundGated, RecordPause
<1>3. CASE RoundCompletes(a, r)
      BY <1>3, TaskStepFiles DEF RoundCompletes, RecordEnd
<1>4. CASE RoundFails(a, r)
      BY <1>4, TaskStepFiles DEF RoundFails, RecordEnd
<1>5. CASE Wake(a, r)
      BY <1>5, TaskStepFiles DEF Wake
<1>6. CASE StopWaiting(a, r)
      BY <1>6, TaskStepFiles DEF StopWaiting, RecordEnd
<1>7. CASE Complete(a, r)
      <2>1. PICK o \in Outcome \ {"dead"} : outcome' = [outcome EXCEPT ![a][r] = o]
            BY <1>7, SettleOutcome DEF Complete
      <2>2. Files(a, r, "done")  BY <1>7, <2>1 DEF Complete, disk
      <2> HIDE DEF Files
      <2> QED BY <1>7, <2>2, TaskStepFiles DEF Complete, disk
<1>8. CASE RecordFailure(a, r)
      <2>1. PICK o \in Outcome \ {"dead"} : outcome' = [outcome EXCEPT ![a][r] = o]
            BY <1>8, SettleOutcome DEF RecordFailure
      <2>2. Files(a, r, "done")  BY <1>8, <2>1 DEF RecordFailure, disk
      <2> HIDE DEF Files
      <2> QED BY <1>8, <2>2, TaskStepFiles DEF RecordFailure, disk
<1>9. CASE StartResumed(a, r)
      BY <1>9, TaskStepFiles DEF StartResumed
<1>10. CASE BuildFails(a, r)
      BY <1>10, TaskStepFiles DEF BuildFails, disk, Outcome
<1> QED BY <1>1, <1>2, <1>3, <1>4, <1>5, <1>6, <1>7, <1>8, <1>9, <1>10 DEF RunStep

(* A step that touches no first run, no file and no report.                *)
LEMMA FilesFrame ==
    ASSUME FilesInv, UNCHANGED <<reviving, disk, told>>,
           \A a \in Agent : /\ task'[a][1] = task[a][1]
                            /\ run'[a] = 0 <=> run[a] = 0
    PROVE  FilesInv'
BY DEF FilesInv, FirstRuns, FilesFollowRuns, KilledRunsAreOrphans,
   InterruptedWasNotReported, HasFile, disk, told

LEMMA ParentStepFiles ==
    ASSUME TypeOK, CallsInv, FilesInv, NEW a \in Agent, ParentStep(a)
    PROVE  FilesInv'
<1>1. ASSUME NEW s \in {"unfinished", "none"}, Spawn(a, s)
      PROVE  FilesInv'
      <2>1. /\ task'[a][1] = "starting" /\ run'[a] = 1 /\ up
            /\ task[a][1] = "none" /\ file'[a] = s
            BY <1>1, Bounds DEF Spawn, Advance, TypeOK, Run, FilesInv, FirstRuns
      <2>2. \A b \in Agent \ {a} : task'[b] = task[b] /\ run'[b] = run[b]
                                   /\ file'[b] = file[b]
            BY <1>1 DEF Spawn, Advance, TypeOK
      <2>3. UNCHANGED <<row, reviving, up, outcome, badWrites, interrupted, inGap>>
            BY <1>1 DEF Spawn, told
      <2>4. FirstRuns'
            BY <2>1, <2>2, <2>3 DEF FilesInv, FirstRuns, HasFile
      <2>5. FilesFollowRuns' /\ KilledRunsAreOrphans' /\ InterruptedWasNotReported'
            BY <2>1, <2>2, <2>3 DEF FilesInv, FirstRuns, FilesFollowRuns, HasFile,
               Working, KilledRunsAreOrphans, InterruptedWasNotReported
      <2> QED BY <2>4, <2>5 DEF FilesInv
<1>2. CASE Insert(a)             BY <1>2, FilesFrame DEF Insert, tasks
<1>3. CASE PrepareResume(a)
      <2>1. run[a] \in Nat \ {0} /\ run'[a] = run[a] + 1
            BY <1>3, Bounds DEF PrepareResume, CanResume, EndStates, TypeOK, CallsInv,
               NewChildrenAreUnknown, Known
      <2>2. \A b \in Agent \ {a} : run'[b] = run[b]
            BY <1>3 DEF PrepareResume, TypeOK
      <2>3. \A b \in Agent : task'[b][1] = task[b][1]
            BY <1>3, <2>1, Bounds DEF PrepareResume, Advance, TypeOK, Run
      <2>4. UNCHANGED <<reviving, disk, told>>
            BY <1>3 DEF PrepareResume
      <2> QED BY <2>1, <2>2, <2>3, <2>4, FilesFrame
<1>4. ASSUME NEW b \in BOOLEAN, Close(a, b)
      PROVE  FilesInv'
      BY <1>4, FilesFrame DEF Close
<1>5. CASE Remove(a)             BY <1>5, FilesFrame DEF Remove, tasks
<1>6. CASE SendInput(a)          BY <1>6, FilesFrame DEF SendInput
<1> QED BY <1>1, <1>2, <1>3, <1>4, <1>5, <1>6 DEF ParentStep

LEMMA FilesStep ==
    ASSUME TypeOK, CallsInv, RunsInv, FilesInv, [Next]_vars
    PROVE  FilesInv'
<1>1. ASSUME NEW a \in Agent, NEW r \in Run, RunStep(a, r)
      PROVE  FilesInv'
      BY <1>1, RunStepFiles
<1>2. ASSUME NEW a \in Agent, ParentStep(a)
      PROVE  FilesInv'
      BY <1>2, ParentStepFiles
<1>3. ASSUME NEW w \in Wait, WaitStepOf(w) \/ \E a \in Agent : Resolve(w, a)
      PROVE  FilesInv'
      BY <1>3, FilesFrame DEF WaitStepOf, Resolve, EnterWait, Look, Report, ReportEnd,
         Deadline, Preview, GiveUp, Abandon, tasks
<1>4. CASE Crash
      <2>1. UNCHANGED <<run, file, row, badWrites, interrupted>> /\ ~up' /\ up
            /\ reviving' = {} /\ inGap \subseteq inGap'
            BY <1>4 DEF Crash
      <2>2. ASSUME NEW a \in Agent
            PROVE  /\ task'[a][1] = IF InFlight(a, 1) THEN "done" ELSE task[a][1]
                   /\ outcome'[a][1] = IF InFlight(a, 1) THEN "dead"
                                                         ELSE outcome[a][1]
                   /\ InFlight(a, 1) /\ a \notin inGap' => task[a][1] \in Working
            BY <1>4, Bounds DEF Crash, Run, TypeOK, InFlight, TaskStep, Working,
               FilesInv, FirstRuns
      <2>3. FirstRuns'
            BY <2>1, <2>2, Bounds DEF FilesInv, FirstRuns, HasFile, InFlight, Run
      <2>4. FilesFollowRuns'
            BY <2>1, <2>2, Bounds DEF FilesInv, FilesFollowRuns, InFlight, Working, Run,
               HasFile
      <2>5. KilledRunsAreOrphans'
            BY <2>1, <2>2 DEF FilesInv, FilesFollowRuns, KilledRunsAreOrphans, HasFile
      <2>6. InterruptedWasNotReported'
            BY <2>1, <2>2 DEF FilesInv, InterruptedWasNotReported, TypeOK
      <2> QED BY <2>3, <2>4, <2>5, <2>6 DEF FilesInv
<1>5. ASSUME NEW stuck \in SUBSET Orphans, Boot(stuck)
      PROVE  FilesInv'
      <2>1. /\ ~up /\ up' /\ UNCHANGED <<task, run, outcome, inGap>>
            /\ interrupted' = interrupted \cup Orphans
            /\ badWrites' = badWrites \cup stuck
            /\ reviving' = row /\ row' = {}
            BY <1>5 DEF Boot
      <2>2. \A a \in Agent :
                file'[a] = IF a \in Orphans \ stuck THEN "interrupted" ELSE file[a]
            BY <1>5 DEF Boot
      <2>3. FirstRuns'
            BY <2>1, <2>2 DEF FilesInv, FirstRuns, HasFile, Orphans
      <2>4. FilesFollowRuns'
            BY <2>1, <2>2 DEF FilesInv, FirstRuns, FilesFollowRuns, HasFile, Orphans,
               Working
      <2>5. KilledRunsAreOrphans'
            BY <2>1, <2>2 DEF FilesInv, KilledRunsAreOrphans, HasFile, Orphans
      <2>6. InterruptedWasNotReported'
            BY <2>1, <2>2 DEF FilesInv, FirstRuns, FilesFollowRuns, Orphans, Working,
               InterruptedWasNotReported
      <2> QED BY <2>3, <2>4, <2>5, <2>6 DEF FilesInv
<1>6. ASSUME NEW a \in Agent, Revived(a)
      PROVE  FilesInv'
      <2>1. /\ UNCHANGED <<task, run, outcome, up, row, interrupted, inGap>>
            /\ reviving' \subseteq reviving /\ Record(a, 1, "finished")
            /\ task[a][1] = "done" /\ up
            BY <1>6 DEF Revived, told, RecordEnd, FilesInv, FirstRuns
      <2>2. \A b \in Agent : /\ HasFile(b)' <=> HasFile(b)
                             /\ b = a \/ file'[b] = file[b]
                             /\ file'[b] = "unfinished" => file[b] = "unfinished"
                             /\ b \in badWrites => b \in badWrites'
                             /\ b \in badWrites' => b = a \/ b \in badWrites
            BY <2>1 DEF Record, TypeOK, HasFile
      <2>3. FirstRuns'
            BY <2>1, <2>2 DEF FilesInv, FirstRuns
      <2>4. FilesFollowRuns'
            BY <2>1, <2>2 DEF FilesInv, FilesFollowRuns, Working
      <2>5. KilledRunsAreOrphans'
            BY <2>1, <2>2 DEF FilesInv, KilledRunsAreOrphans
      <2>6. InterruptedWasNotReported'
            BY <2>1, <2>2 DEF FilesInv, InterruptedWasNotReported, TypeOK
      <2> QED BY <2>3, <2>4, <2>5, <2>6 DEF FilesInv
<1>7. CASE UNCHANGED vars
      BY <1>7, FilesFrame DEF vars, tasks
<1> QED BY <1>1, <1>2, <1>3, <1>4, <1>5, <1>6, <1>7 DEF Next

-----------------------------------------------------------------------------
Inv == TypeOK /\ CallsInv /\ RunsInv /\ FilesInv

LEMMA Invariance == Spec => []Inv
<1>1. Init => Inv  BY TypeInit, CallsInit, RunsInit, FilesInit DEF Inv
<1>2. Inv /\ [Next]_vars => Inv'
      BY TypeStep, CallsStep, RunsStep, FilesStep DEF Inv, CallsInv
<1> QED BY <1>1, <1>2, PTL DEF Spec

(* Every variable has its type in every reachable state, for any children, *)
(* waits and bounds.                                                       *)
THEOREM SubAgentTypes == Spec => []TypeOK
<1>1. Inv => TypeOK  BY DEF Inv
<1> QED BY <1>1, Invariance, PTL

(* A child's waiter count is the number of wait_agent calls registered on  *)
(* it, however calls end and whenever the child is inserted or removed.    *)
THEOREM CountsAreExact == Spec => []WaitersAreCounted
<1>1. Inv => WaitersAreCounted  BY DEF Inv, CallsInv
<1> QED BY <1>1, Invariance, PTL

(* No child ever has two runs in flight, closed and resumed as it may be.  *)
THEOREM OneRunCorrect == Spec => []OneRunAtATime
<1>1. Inv => OneRunAtATime  BY DEF Inv, RunsInv, LatestRunOnly, OneRunAtATime
<1> QED BY <1>1, Invariance, PTL

(* An entry reads as live without a task only where the run ended silently.*)
THEOREM PhantomsWereSilent == Spec => []LiveEntriesHaveATask
<1>1. Inv => LiveEntriesHaveATask
      BY DEF Inv, RunsInv, QuietEntries, LiveEntriesHaveATask
<1> QED BY <1>1, Invariance, PTL

(* A spawned child killed in its first run is reported to its parent by    *)
(* the next boot, whatever write of its status file failed, unless it died *)
(* between the last of those writes and its own report.                    *)
THEOREM TheKilledAreReported == Spec => []KilledRunsAreReported
<1>1. Inv => KilledRunsAreReported
      BY DEF Inv, FilesInv, KilledRunsAreOrphans, KilledRunsAreReported
<1> QED BY <1>1, Invariance, PTL

(* The boot pass contradicts no report a child made itself, but where a    *)
(* write of its file had failed.                                           *)
THEOREM NoReportIsContradicted == Spec => []InterruptedWasNotReported
<1>1. Inv => InterruptedWasNotReported  BY DEF Inv, FilesInv
<1> QED BY <1>1, Invariance, PTL

(* How a run's end is told is decided once, by the latest run, and a push  *)
(* is made only while no wait that would answer with the result is         *)
(* registered: the two ways of telling the parent exclude each other.      *)
THEOREM NobodyIsToldTwice == Spec => NotToldTwice
<1>1. ASSUME Inv, [Next]_vars, NEW a \in Agent, NEW r \in Run,
             outcome'[a][r] # outcome[a][r]
      PROVE  /\ outcome[a][r] = "open" /\ r = run[a]
             /\ outcome'[a][r] = "pushed" => WaitsOn(a) = {}
      <2> DEFINE Goal == /\ outcome[a][r] = "open" /\ r = run[a]
                         /\ outcome'[a][r] = "pushed" => WaitsOn(a) = {}
      <2> USE DEF TypeOK, told
      <2>1. ASSUME NEW b \in Agent, NEW q \in Run, NEW p \in BOOLEAN, Settle(b, q, p),
                   InFlight(b, q)
            PROVE  Goal
            <3>1. a = b /\ r = q  BY <1>1, <2>1 DEF Inv, Settle
            <3>2. outcome[a][r] = "open" /\ r = run[a]
                  BY <1>1, <2>1, <3>1 DEF Inv, RunsInv, LatestRunOnly, UndecidedRuns
            <3>3. ASSUME outcome'[a][r] = "pushed"  PROVE WaitsOn(a) = {}
                  <4>1. Known(a) /\ waiters[a] = 0
                        BY <1>1, <2>1, <3>1, <3>3 DEF Inv, Settle, Pushes
                  <4>2. Cardinality(WaitsOn(a)) = 0
                        BY <1>1, <4>1 DEF Inv, CallsInv, WaitersAreCounted
                  <4> QED BY <1>1, <4>2, WaitsAreFinite, FS_EmptySet DEF Inv
            <3> QED BY <3>2, <3>3
      <2>2. ASSUME UNCHANGED outcome  PROVE FALSE
            BY <1>1, <2>2
      <2>3. ASSUME NEW b \in Agent, NEW q \in Run, RunStep(b, q)
            PROVE  Goal
            <3>1. ASSUME BuildFails(b, q)  PROVE Goal
                  BY <1>1, <3>1 DEF Inv, BuildFails, RunsInv, LatestRunOnly,
                     UndecidedRuns, InFlight
            <3>2. ASSUME Complete(b, q) \/ RecordFailure(b, q)  PROVE Goal
                  BY <2>1, <3>2 DEF Complete, RecordFailure, InFlight
            <3> QED BY <2>2, <2>3, <3>1, <3>2 DEF RunStep, BeginRun, RoundGated,
                    RoundCompletes, RoundFails, Wake, StopWaiting, StartResumed
      <2>4. ASSUME NEW b \in Agent, ParentStep(b)  PROVE FALSE
            BY <2>2, <2>4 DEF ParentStep, Spawn, Insert, PrepareResume, Close, Remove,
               SendInput
      <2>5. ASSUME NEW w \in Wait, WaitStepOf(w) \/ \E b \in Agent : Resolve(w, b)
            PROVE  FALSE
            BY <2>2, <2>5 DEF WaitStepOf, Resolve, EnterWait, Look, Report, ReportEnd,
               Deadline, Preview, GiveUp, Abandon
      <2>6. CASE Crash
            <3>1. InFlight(a, r) /\ outcome'[a][r] = "dead"
                  BY <1>1, <2>6 DEF Inv, Crash
            <3> QED BY <1>1, <3>1 DEF Inv, RunsInv, LatestRunOnly, UndecidedRuns
      <2>7. ASSUME (\E stuck \in SUBSET Orphans : Boot(stuck)) \/ UNCHANGED vars
                   \/ \E b \in Agent : Revived(b)
            PROVE  FALSE
            BY <2>2, <2>7 DEF Boot, Revived, vars
      <2> QED BY <1>1, <2>3, <2>4, <2>5, <2>6, <2>7 DEF Next
<1>2. Inv /\ [Next]_vars
        => [\A a \in Agent, r \in Run : outcome'[a][r] # outcome[a][r] =>
              /\ outcome[a][r] = "open" /\ r = run[a]
              /\ outcome'[a][r] = "pushed" => WaitsOn(a) = {}]_vars
      BY <1>1
<1> QED BY <1>2, Invariance, PTL DEF Spec, NotToldTwice

(* A close is not undone by the child's own round.                         *)
THEOREM ClosedStaysClosed == Spec => CloseIsNotUndoneByARound
<1>1. ASSUME Inv, [Next]_vars, NEW a \in Agent, state[a] = "Cancelled"
      PROVE  state'[a] \notin Live
      <2> USE DEF TypeOK, entries, Live, Known
      <2>2. ASSUME UNCHANGED state  PROVE state'[a] \notin Live
            BY <1>1, <2>2
      <2>3. ASSUME NEW b \in Agent, NEW q \in Run, RunStep(b, q)
            PROVE  state'[a] \notin Live
            BY <1>1, <2>3 DEF Inv, RunStep, BeginRun, RoundGated, RoundCompletes,
               RoundFails, Wake, StopWaiting, StartResumed, BuildFails, Complete,
               RecordFailure, MarkAwaiting, MarkRunningAgain, MarkEnd
      <2>4. ASSUME NEW b \in Agent, ParentStep(b)  PROVE state'[a] \notin Live
            BY <1>1, <2>4 DEF Inv, CallsInv, NewChildrenAreUnknown, ParentStep, Spawn,
               Insert, PrepareResume, CanResume, EndStates, Close, Cancel, Remove,
               SendInput
      <2>5. ASSUME NEW w \in Wait, WaitStepOf(w) \/ \E b \in Agent : Resolve(w, b)
            PROVE  state'[a] \notin Live
            BY <2>2, <2>5 DEF WaitStepOf, Resolve, EnterWait, Look, Report, ReportEnd,
               Deadline, Preview, GiveUp, Abandon
      <2>6. CASE Crash
            BY <2>6 DEF Crash
      <2>7. ASSUME (\E stuck \in SUBSET Orphans : Boot(stuck)) \/ UNCHANGED vars
                   \/ \E b \in Agent : Revived(b)
            PROVE  state'[a] \notin Live
            BY <2>2, <2>7 DEF Boot, Revived, vars
      <2> QED BY <1>1, <2>3, <2>4, <2>5, <2>6, <2>7 DEF Next
<1>2. Inv /\ [Next]_vars
        => [\A a \in Agent : state[a] = "Cancelled" => state'[a] \notin Live]_vars
      BY <1>1
<1> QED BY <1>2, Invariance, PTL DEF Spec, CloseIsNotUndoneByARound

=============================================================================
