------------------------------ MODULE SubAgents ------------------------------
(***************************************************************************)
(* Sub-agents: the process-wide SubAgentManager, the task each child runs  *)
(* in, the tools a parent calls on it (spawn_agent, team_create,           *)
(* wait_agent, send_input, close_agent, resume_agent), the status file the *)
(* child keeps on disk, and what a restart does with both.                 *)
(*                                                                         *)
(* A child works in runs: the first is spawned, the later ones are resumes *)
(* of a child that completed or failed.  A run is a task of its own beside *)
(* the manager's entry; the two meet only in the manager's lock, so every  *)
(* action below is one critical section, with what its caller does up to   *)
(* the next one.  A run is worth telling the parent once: by a push when   *)
(* nobody waits for the child, else by the answer of a wait_agent call.    *)
(*                                                                         *)
(* A team member is a child with no status file.  What a round computes is *)
(* not modelled, only how it ends; a text is the number of its run.        *)
(***************************************************************************)
EXTENDS Integers, FiniteSets

CONSTANTS
    Agent,      \* ids of children; an id is never used twice
    Wait,       \* wait_agent calls
    NoAgent,    \* the target of a call that has not begun
    MaxRuns,    \* bound: runs per child
    MaxInputs,  \* bound: inputs waiting in a child's channel
    MaxBoots    \* bound: restarts

ASSUME WaitIsFinite == IsFiniteSet(Wait)
ASSUME NoAgentIsNone == NoAgent \notin Agent
ASSUME Bounds == MaxRuns \in Nat \ {0} /\ MaxInputs \in Nat /\ MaxBoots \in Nat

Run == 1..MaxRuns

VARIABLES
    \* the manager's entry: lost with the process
    state,       \* SubAgentState, "unknown" while the id is not in the map
    waiters,     \* wait_agent calls counted as blocked on the child
    inputTx,     \* whether the entry holds a sender to the child's channel
    output,      \* the run whose text is stored, 0 for none
    inserting,   \* children whose task is started and whose entry is not in yet
    removing,    \* children a close_agent(remove) is about to take out
    \* the tasks: lost with the process
    task,        \* where each run of each child stands
    run,         \* the latest run of a child, 0 before it is spawned
    cancelled,   \* whether the latest run's token has fired
    inbox,       \* inputs in the latest run's channel
    reviving,    \* children whose session the boot pass is running again
    \* the wait_agent calls: lost with the process
    waitStep, waitOn, registered, saw, got,
    \* what survives
    up, boots,
    file,        \* the child's status file, "none" for a member
    row,         \* children whose session has a pending_requests row
    badWrites,   \* children for which a write of the status file failed
    \* what the parent was told, for the properties
    outcome,     \* how the end of each run was reported
    interrupted, \* children reported as interrupted by a restart
    inGap        \* children killed between the last file write and the report

entries == <<state, waiters, inputTx, output, inserting, removing>>
tasks   == <<task, run, cancelled, inbox, reviving>>
waits   == <<waitStep, waitOn, registered, saw, got>>
disk    == <<up, boots, file, row, badWrites>>
told    == <<outcome, interrupted, inGap>>
vars    == <<entries, tasks, waits, disk, told>>

Live       == {"Running", "AwaitingInput"}
EndStates  == {"Completed", "Failed"}
AgentState == {"unknown", "Cancelled"} \cup Live \cup EndStates
TaskStep   == {"none", "building", "starting", "round", "parked",
               "completing", "failing", "done"}
WaitStep   == {"idle", "resolved", "waiting", "seen", "overdue", "previewed",
               "over", "dropped"}
FileState  == {"none", "unfinished", "finished", "interrupted"}
Outcome    == {"open", "pushed", "held", "silent", "dead"}

Known(a)    == state[a] # "unknown"
InFlight(a, r) == r \in Run /\ task[a][r] \notin {"none", "done"}
WaitsOn(a)  == {w \in registered : waitOn[w] = a}
HasFile(a)  == file[a] # "none"

Init ==
    /\ state = [a \in Agent |-> "unknown"] /\ waiters = [a \in Agent |-> 0]
    /\ inputTx = [a \in Agent |-> FALSE]   /\ output = [a \in Agent |-> 0]
    /\ inserting = {} /\ removing = {} /\ reviving = {}
    /\ task = [a \in Agent |-> [r \in Run |-> "none"]]
    /\ run = [a \in Agent |-> 0]
    /\ cancelled = [a \in Agent |-> FALSE] /\ inbox = [a \in Agent |-> 0]
    /\ waitStep = [w \in Wait |-> "idle"]  /\ waitOn = [w \in Wait |-> NoAgent]
    /\ registered = {} /\ saw = [w \in Wait |-> "unknown"]
    /\ got = [w \in Wait |-> 0]
    /\ up = TRUE /\ boots = 0 /\ row = {} /\ badWrites = {}
    /\ file = [a \in Agent |-> "none"]
    /\ outcome = [a \in Agent |-> [r \in Run |-> "open"]]
    /\ interrupted = {} /\ inGap = {}

-----------------------------------------------------------------------------
(* The first run.                                                          *)

Advance(a, r, step) == task' = [task EXCEPT ![a][r] = step]

(* Only the first run of a spawned child writes its status file.  Pending, *)
(* Running and AwaitingInput are one to every reader modelled here, so a   *)
(* write matters when the run ends.  One that fails is logged and the run  *)
(* goes on.                                                                *)
Record(a, r, s) ==
    IF r = 1 /\ HasFile(a) /\ file[a] # s
    THEN \/ file' = [file EXCEPT ![a] = s] /\ UNCHANGED badWrites
         \/ badWrites' = badWrites \cup {a} /\ UNCHANGED file
    ELSE UNCHANGED <<file, badWrites>>

(* What a round that parks and a run that ends leave in the file.          *)
(* Mutants: a pause filed as an end; an end not filed.                     *)
RecordPauseAsEnd(a, r) == Record(a, r, "finished")
RecordPause(a, r)      == Record(a, r, "unfinished")
RecordNoEnd(a, r)      == UNCHANGED <<file, badWrites>>
RecordEnd(a, r)        == Record(a, r, "finished")

(* spawn_agent, or one member of team_create: the task starts before the   *)
(* manager knows the child.  A spawned child has a status file first.      *)
Spawn(a, status) ==
    /\ up /\ run[a] = 0
    /\ run' = [run EXCEPT ![a] = 1]
    /\ Advance(a, 1, "starting")
    /\ inserting' = inserting \cup {a}
    /\ file' = [file EXCEPT ![a] = status]
    /\ UNCHANGED <<state, waiters, inputTx, output, removing, cancelled, inbox,
                   reviving, waits, up, boots, row, badWrites, told>>

Insert(a) ==
    /\ a \in inserting
    /\ inserting' = inserting \ {a}
    /\ state' = [state EXCEPT ![a] = "Running"]
    /\ waiters' = [waiters EXCEPT ![a] = 0]
    /\ inputTx' = [inputTx EXCEPT ![a] = TRUE]
    /\ output' = [output EXCEPT ![a] = 0]
    /\ UNCHANGED <<removing, tasks, waits, disk, told>>

(* The first round begins; every round is a tracked turn of the child's    *)
(* session, with a pending_requests row while it lasts.                    *)
BeginRun(a, r) ==
    /\ task[a][r] = "starting"
    /\ Advance(a, r, "round")
    /\ Record(a, r, "unfinished")
    /\ row' = row \cup {a}
    /\ UNCHANGED <<entries, run, cancelled, inbox, reviving, waits, up, boots, told>>

-----------------------------------------------------------------------------
(* How a round ends.                                                       *)

StoreOutput(a, r) == output' = IF Known(a) THEN [output EXCEPT ![a] = r] ELSE output

(* The round stopped at a gate: the child parks until an input comes.      *)
(* Mutant: parked whatever the entry says.                                 *)
MarkAwaitingAlways(a) ==
    state' = [state EXCEPT ![a] = IF Known(a) THEN "AwaitingInput" ELSE @]

MarkAwaiting(a) ==
    state' = [state EXCEPT ![a] = IF @ = "Running" THEN "AwaitingInput" ELSE @]

RoundGated(a, r) ==
    /\ task[a][r] = "round"
    /\ StoreOutput(a, r) /\ MarkAwaiting(a)
    /\ Advance(a, r, "parked")
    /\ RecordPause(a, r)
    /\ row' = row \ {a}
    /\ UNCHANGED <<waiters, inputTx, inserting, removing, run, cancelled, inbox,
                   reviving, waits, up, boots, told>>

(* The model finished its answer: the file says so before the parent does. *)
RoundCompletes(a, r) ==
    /\ task[a][r] = "round"
    /\ StoreOutput(a, r)
    /\ Advance(a, r, "completing")
    /\ RecordEnd(a, r)
    /\ row' = row \ {a}
    /\ UNCHANGED <<state, waiters, inputTx, inserting, removing, run, cancelled,
                   inbox, reviving, waits, up, boots, told>>

RoundFails(a, r) ==
    /\ task[a][r] = "round"
    /\ Advance(a, r, "failing")
    /\ RecordEnd(a, r)
    /\ row' = row \ {a}
    /\ UNCHANGED <<entries, run, cancelled, inbox, reviving, waits, up, boots, told>>

(* A parked child takes the next input, even one that a close overtook.    *)
MarkRunningAgain(a) ==
    state' = [state EXCEPT ![a] = IF @ = "AwaitingInput" THEN "Running" ELSE @]

Wake(a, r) ==
    /\ task[a][r] = "parked" /\ inbox[a] > 0
    /\ inbox' = [inbox EXCEPT ![a] = @ - 1]
    /\ MarkRunningAgain(a)
    /\ Advance(a, r, "round")
    /\ Record(a, r, "unfinished")
    /\ row' = row \cup {a}
    /\ UNCHANGED <<waiters, inputTx, output, inserting, removing, run, cancelled,
                   reviving, waits, up, boots, told>>

(* It stops waiting when its token fires, or its last sender is gone and   *)
(* the channel is empty.                                                   *)
StopWaiting(a, r) ==
    /\ task[a][r] = "parked"
    /\ cancelled[a] \/ (inbox[a] = 0 /\ ~inputTx[a] /\ a \notin inserting)
    /\ Advance(a, r, "completing")
    /\ RecordEnd(a, r)
    /\ UNCHANGED <<entries, run, cancelled, inbox, reviving, waits, up, boots, row,
                   told>>

(* The end of a run: whether the parent is pushed to or a wait will answer *)
(* is decided under the lock that writes the state.  The task drops its    *)
(* channel, and the inputs still in it, when it returns.                   *)
PushesAlways(a) == TRUE  \* mutant: no look at the waiters
Pushes(a)       == waiters[a] = 0

Settle(a, r, push) ==
    /\ outcome' = [outcome EXCEPT ![a][r] =
           IF Known(a) /\ ~Pushes(a) THEN "held"
           ELSE IF Known(a) /\ push THEN "pushed" ELSE "silent"]
    /\ inputTx' = [inputTx EXCEPT ![a] = FALSE]
    /\ inbox' = [inbox EXCEPT ![a] = 0]

(* Written over any state, "Cancelled" included.  Mutant: a failure is not *)
(* written.                                                                *)
MarkCompletedOnly(a, end) ==
    state' = [state EXCEPT ![a] = IF Known(a) /\ end = "Completed" THEN end ELSE @]

MarkEnd(a, end) == state' = [state EXCEPT ![a] = IF Known(a) THEN end ELSE @]

(* complete_and_deliver                                                    *)
Complete(a, r) ==
    /\ task[a][r] = "completing"
    /\ Advance(a, r, "done")
    /\ Settle(a, r, TRUE)
    /\ StoreOutput(a, r)
    /\ MarkEnd(a, "Completed")
    /\ UNCHANGED <<waiters, inserting, removing, run, cancelled, reviving, waits,
                   disk, interrupted, inGap>>

(* mark_failed: only the task of spawn_agent pushes a failure.             *)
RecordFailure(a, r) ==
    /\ task[a][r] = "failing"
    /\ Advance(a, r, "done")
    /\ Settle(a, r, r = 1 /\ HasFile(a))
    /\ MarkEnd(a, "Failed")
    /\ UNCHANGED <<waiters, output, inserting, removing, run, cancelled, reviving,
                   waits, disk, interrupted, inGap>>

-----------------------------------------------------------------------------
(* What the parent does to a child.                                        *)

(* resume_agent reserves the child, then builds its service: the build may *)
(* fail, and the reservation stays.                                        *)
CanResumeClosed(a) == Known(a) /\ state[a] \notin Live  \* mutant
CanResume(a)       == state[a] \in EndStates

PrepareResume(a) ==
    /\ CanResume(a) /\ run[a] < MaxRuns
    /\ run' = [run EXCEPT ![a] = @ + 1]
    /\ Advance(a, run'[a], "building")
    /\ state' = [state EXCEPT ![a] = "Running"]
    /\ inputTx' = [inputTx EXCEPT ![a] = TRUE]
    /\ output' = [output EXCEPT ![a] = 0]
    /\ cancelled' = [cancelled EXCEPT ![a] = FALSE]
    /\ inbox' = [inbox EXCEPT ![a] = 0]
    /\ UNCHANGED <<waiters, inserting, removing, reviving, waits, disk, told>>

StartResumed(a, r) ==
    /\ task[a][r] = "building"
    /\ Advance(a, r, "round")
    /\ row' = row \cup {a}
    /\ UNCHANGED <<entries, run, cancelled, inbox, reviving, waits, up, boots,
                   file, badWrites, told>>

BuildFails(a, r) ==
    /\ task[a][r] = "building"
    /\ Advance(a, r, "done")
    /\ outcome' = [outcome EXCEPT ![a][r] = "silent"]
    /\ inbox' = [inbox EXCEPT ![a] = 0]
    /\ UNCHANGED <<entries, run, cancelled, reviving, waits, disk, interrupted,
                   inGap>>

(* Mutant: a close that only marks the entry.                              *)
CancelMarksOnly(a) ==
    /\ state' = [state EXCEPT ![a] = IF @ \in Live THEN "Cancelled" ELSE @]
    /\ UNCHANGED <<cancelled, inputTx>>

(* close_agent, and team_delete for each member: cancel, then perhaps      *)
(* remove.                                                                 *)
Cancel(a) ==
    IF state[a] \in Live
    THEN /\ cancelled' = [cancelled EXCEPT ![a] = TRUE]
         /\ state' = [state EXCEPT ![a] = "Cancelled"]
         /\ inputTx' = [inputTx EXCEPT ![a] = FALSE]
    ELSE UNCHANGED <<cancelled, state, inputTx>>

Close(a, remove) ==
    /\ Known(a)
    /\ Cancel(a)
    /\ removing' = IF remove THEN removing \cup {a} ELSE removing
    /\ UNCHANGED <<waiters, output, inserting, task, run, inbox, reviving, waits,
                   disk, told>>

Remove(a) ==
    /\ a \in removing
    /\ removing' = removing \ {a}
    /\ state' = [state EXCEPT ![a] = "unknown"]
    /\ inputTx' = [inputTx EXCEPT ![a] = FALSE]
    /\ waiters' = [waiters EXCEPT ![a] = 0]
    /\ output' = [output EXCEPT ![a] = 0]
    /\ UNCHANGED <<inserting, tasks, waits, disk, told>>

(* send_input, and team_broadcast for each member.  The channel takes the  *)
(* input as long as its receiver exists, which is as long as the task.     *)
SendInput(a) ==
    /\ inputTx[a] /\ InFlight(a, run[a]) /\ inbox[a] < MaxInputs
    /\ inbox' = [inbox EXCEPT ![a] = @ + 1]
    /\ UNCHANGED <<entries, task, run, cancelled, reviving, waits, disk, told>>

-----------------------------------------------------------------------------
(* wait_agent                                                              *)

StepTo(w, s) == waitStep' = [waitStep EXCEPT ![w] = s]

(* Mutant: a count that is never taken back.                               *)
LeaveWaitLeaks(w) == UNCHANGED waiters

LeaveWait(w) ==
    waiters' = [a \in Agent |->
        IF w \in registered /\ waitOn[w] = a /\ Known(a) /\ waiters[a] > 0
        THEN waiters[a] - 1 ELSE waiters[a]]

(* WaitGuard: its drop releases the registration on every way out.         *)
Release(w) ==
    /\ registered' = registered \ {w}
    /\ waitOn' = [waitOn EXCEPT ![w] = NoAgent]
    /\ saw' = [saw EXCEPT ![w] = "unknown"]
    /\ LeaveWait(w)

Resolve(w, a) ==
    /\ waitStep[w] = "idle" /\ Known(a)
    /\ StepTo(w, "resolved")
    /\ waitOn' = [waitOn EXCEPT ![w] = a]
    /\ UNCHANGED <<entries, tasks, registered, saw, got, disk, told>>

EnterWait(w) ==
    /\ waitStep[w] = "resolved"
    /\ StepTo(w, "waiting")
    /\ IF Known(waitOn[w])
       THEN /\ registered' = registered \cup {w}
            /\ waiters' = [waiters EXCEPT ![waitOn[w]] = @ + 1]
       ELSE UNCHANGED <<registered, waiters>>
    /\ UNCHANGED <<state, inputTx, output, inserting, removing, tasks, waitOn, saw,
                   got, disk, told>>

PausesOnly == {"AwaitingInput"}  \* mutant: a poll that misses the end
WithText   == {"Completed", "AwaitingInput"}

(* A poll reads the state; a finished or parked child's text is a second   *)
(* read.                                                                   *)
Look(w) ==
    /\ waitStep[w] = "waiting"
    /\ state[waitOn[w]] \in WithText
    /\ StepTo(w, "seen")
    /\ saw' = [saw EXCEPT ![w] = state[waitOn[w]]]
    /\ UNCHANGED <<entries, tasks, waitOn, registered, got, disk, told>>

Report(w) ==
    /\ waitStep[w] = "seen"
    /\ StepTo(w, "over")
    /\ got' = [got EXCEPT ![w] = IF saw[w] = "Completed" THEN output[waitOn[w]] ELSE 0]
    /\ Release(w)
    /\ UNCHANGED <<state, inputTx, output, inserting, removing, tasks, disk, told>>

(* A failed or closed child has no text to fetch.                          *)
ReportEnd(w) ==
    /\ waitStep[w] = "waiting"
    /\ state[waitOn[w]] \in {"Failed", "Cancelled"}
    /\ StepTo(w, "over")
    /\ got' = [got EXCEPT ![w] = IF state[waitOn[w]] = "Failed" THEN run[waitOn[w]] ELSE 0]
    /\ Release(w)
    /\ UNCHANGED <<state, inputTx, output, inserting, removing, tasks, disk, told>>

(* The deadline is looked at after the state.                              *)
Deadline(w) ==
    /\ waitStep[w] = "waiting"
    /\ state[waitOn[w]] \in {"Running", "unknown"}
    /\ StepTo(w, "overdue")
    /\ UNCHANGED <<entries, tasks, waitOn, registered, saw, got, disk, told>>

(* "Still running", with what text there is for progress.  The call is     *)
(* counted until it returns.                                               *)
Preview(w) ==
    /\ waitStep[w] = "overdue"
    /\ StepTo(w, "previewed")
    /\ got' = [got EXCEPT ![w] = output[waitOn[w]]]
    /\ UNCHANGED <<entries, tasks, waitOn, registered, saw, disk, told>>

GiveUp(w) ==
    /\ waitStep[w] = "previewed"
    /\ StepTo(w, "over")
    /\ Release(w)
    /\ UNCHANGED <<state, inputTx, output, inserting, removing, tasks, got, disk,
                   told>>

(* The parent's turn is stopped between two polls.                         *)
Abandon(w) ==
    /\ waitStep[w] = "waiting"
    /\ StepTo(w, "dropped")
    /\ Release(w)
    /\ UNCHANGED <<state, inputTx, output, inserting, removing, tasks, got, disk,
                   told>>

-----------------------------------------------------------------------------
(* Restart.                                                                *)

Crash ==
    /\ up /\ boots < MaxBoots
    /\ up' = FALSE
    /\ inGap' = inGap \cup {a \in Agent : task[a][1] \in {"completing", "failing"}}
    /\ outcome' = [a \in Agent |-> [r \in Run |->
           IF InFlight(a, r) THEN "dead" ELSE outcome[a][r]]]
    /\ task' = [a \in Agent |-> [r \in Run |->
           IF InFlight(a, r) THEN "done" ELSE task[a][r]]]
    /\ state' = [a \in Agent |-> "unknown"] /\ waiters' = [a \in Agent |-> 0]
    /\ inputTx' = [a \in Agent |-> FALSE]   /\ output' = [a \in Agent |-> 0]
    /\ inserting' = {} /\ removing' = {} /\ reviving' = {} /\ registered' = {}
    /\ waitStep' = [w \in Wait |-> "idle"] /\ saw' = [w \in Wait |-> "unknown"]
    /\ waitOn' = [w \in Wait |-> NoAgent]  /\ got' = [w \in Wait |-> 0]
    /\ cancelled' = [a \in Agent |-> FALSE] /\ inbox' = [a \in Agent |-> 0]
    /\ UNCHANGED <<run, boots, file, row, badWrites, interrupted>>

Orphans == {a \in Agent : file[a] = "unfinished"}

(* The boot pass: every file that is not terminal is an orphan, is marked  *)
(* and reported to the parent, marked or not (stuck: the write failed);    *)
(* then every child session with a row is run once more, the rows cleared  *)
(* first.                                                                  *)
Boot(stuck) ==
    /\ ~up
    /\ up' = TRUE /\ boots' = boots + 1
    /\ file' = [a \in Agent |-> IF a \in Orphans \ stuck THEN "interrupted" ELSE file[a]]
    /\ badWrites' = badWrites \cup stuck
    /\ interrupted' = interrupted \cup Orphans
    /\ reviving' = row
    /\ row' = {}
    /\ UNCHANGED <<entries, task, run, cancelled, inbox, waits, outcome, inGap>>

(* The revived turn ended.  A child whose file is not final has its        *)
(* outcome delivered to the parent, then its file finalized; any other     *)
(* session's answer goes to the local surface.                             *)
Revived(a) ==
    /\ a \in reviving
    /\ reviving' = reviving \ {a}
    /\ RecordEnd(a, 1)
    /\ UNCHANGED <<entries, task, run, cancelled, inbox, waits, up, boots, row, told>>

-----------------------------------------------------------------------------
RunStep(a, r) ==
    \/ BeginRun(a, r) \/ RoundGated(a, r) \/ RoundCompletes(a, r) \/ RoundFails(a, r)
    \/ Wake(a, r) \/ StopWaiting(a, r) \/ Complete(a, r) \/ RecordFailure(a, r)
    \/ StartResumed(a, r) \/ BuildFails(a, r)

ParentStep(a) ==
    \/ Spawn(a, "unfinished") \/ Spawn(a, "none") \/ Insert(a)
    \/ PrepareResume(a) \/ Close(a, TRUE) \/ Close(a, FALSE) \/ Remove(a)
    \/ SendInput(a)

WaitStepOf(w) ==
    \/ EnterWait(w) \/ Look(w) \/ Report(w) \/ ReportEnd(w) \/ Deadline(w)
    \/ Preview(w) \/ GiveUp(w) \/ Abandon(w)

Next ==
    \/ \E a \in Agent, r \in Run : RunStep(a, r)
    \/ \E a \in Agent : ParentStep(a)
    \/ \E w \in Wait, a \in Agent : Resolve(w, a)
    \/ \E w \in Wait : WaitStepOf(w)
    \/ Crash
    \/ \E stuck \in SUBSET Orphans : Boot(stuck)
    \/ \E a \in Agent : Revived(a)

Spec == Init /\ [][Next]_vars

(* Tokio runs every ready task: a round ends (its provider call and its    *)
(* tools have timeouts of their own), a started build ends, the poll ticks.*)
FairSpec ==
    /\ Spec
    /\ \A a \in Agent, r \in Run : WF_vars(RunStep(a, r))
    /\ \A a \in Agent : WF_vars(Insert(a)) /\ WF_vars(Remove(a))
    /\ \A w \in Wait : WF_vars(EnterWait(w) \/ Look(w) \/ Report(w) \/ ReportEnd(w)
                               \/ Preview(w) \/ GiveUp(w))

-----------------------------------------------------------------------------
(* Every variable has its type.                                            *)
TypeOK ==
    /\ state \in [Agent -> AgentState] /\ waiters \in [Agent -> Nat]
    /\ inputTx \in [Agent -> BOOLEAN]  /\ output \in [Agent -> 0..MaxRuns]
    /\ inserting \in SUBSET Agent /\ removing \in SUBSET Agent
    /\ task \in [Agent -> [Run -> TaskStep]] /\ run \in [Agent -> 0..MaxRuns]
    /\ cancelled \in [Agent -> BOOLEAN] /\ inbox \in [Agent -> 0..MaxInputs]
    /\ reviving \in SUBSET Agent
    /\ waitStep \in [Wait -> WaitStep] /\ waitOn \in [Wait -> Agent \cup {NoAgent}]
    /\ registered \in SUBSET Wait /\ saw \in [Wait -> AgentState]
    /\ got \in [Wait -> 0..MaxRuns]
    /\ up \in BOOLEAN /\ boots \in Nat /\ file \in [Agent -> FileState]
    /\ row \in SUBSET Agent /\ badWrites \in SUBSET Agent
    /\ outcome \in [Agent -> [Run -> Outcome]]
    /\ interrupted \in SUBSET Agent /\ inGap \in SUBSET Agent

(* The waiter count of a child is the number of wait_agent calls that hold *)
(* a registration on it: a count left too high would suppress the child's  *)
(* push for ever, one too low would tell the parent twice (manager.rs:278, *)
(* wait.rs:20).                                                            *)
WaitersAreCounted ==
    \A a \in Agent : Known(a) => waiters[a] = Cardinality(WaitsOn(a))

(* The parent is not told twice.  How a run's end is reported is decided   *)
(* once, by the child's latest run, and never revised: not by a later run, *)
(* a close, a removal or a restart, which finds only the runs in flight    *)
(* undecided.  A push is made only while no wait_agent call is registered  *)
(* that would answer with the same result (manager.rs:305).                *)
NotToldTwice ==
    [][\A a \in Agent, r \in Run : outcome'[a][r] # outcome[a][r] =>
        /\ outcome[a][r] = "open" /\ r = run[a]
        /\ outcome'[a][r] = "pushed" => WaitsOn(a) = {}]_vars

(* A child's session never has two runs in flight: no resume is accepted   *)
(* while the task of an earlier run, closed or not, is still unwinding     *)
(* (manager.rs:359).                                                       *)
OneRunAtATime ==
    \A a \in Agent, q, r \in Run : InFlight(a, q) /\ InFlight(a, r) => q = r

(* A push is held back only for the sake of a wait that will answer: the   *)
(* result is on its way to the parent or has been told, be it only as the  *)
(* preview of a call that timed out.  A call that took its preview, or saw *)
(* an earlier pause, before the run ended is counted and answers without   *)
(* the result: nobody tells it.                                            *)
(* (manager.rs:312, wait.rs:142)                                           *)
HeldResultsAreCollected ==
    \A a \in Agent, r \in Run : Known(a) /\ outcome[a][r] = "held" =>
        \E w \in Wait : waitOn[w] = a \/ waitStep[w] = "dropped" \/ got[w] = r

(* A spawned child whose process died in its first run is reported to its  *)
(* parent as interrupted by the next boot, whatever write of its status    *)
(* file failed, unless it died after writing its end to the file and       *)
(* before reporting it (spawn.rs:710, reconcile.rs:43).                    *)
KilledRunsAreReported ==
    \A a \in Agent :
        up /\ outcome[a][1] = "dead" /\ HasFile(a) /\ a \notin inGap
            => a \in interrupted

(* The boot pass tells a parent that a child did not complete only if its  *)
(* end was not reported before, or a write of its file had failed.         *)
InterruptedWasNotReported ==
    \A a \in interrupted \ badWrites : outcome[a][1] = "dead"

(* An entry that reads as live has a task in flight, but for two windows:  *)
(* the first run ended before its entry was inserted, or a resume reserved *)
(* the child and its build failed (spawn.rs:733, resume.rs:147).           *)
LiveEntriesHaveATask ==
    \A a \in Agent : state[a] \in Live /\ ~InFlight(a, run[a])
        => outcome[a][run[a]] = "silent"

(* A close is not undone by the round in flight: a closed child's entry    *)
(* leaves "Cancelled" by the end of its task or by removal, never back to  *)
(* a live state (manager.rs:253, 263).                                     *)
CloseIsNotUndoneByARound ==
    [][\A a \in Agent : state[a] = "Cancelled" => state'[a] \notin Live]_vars

(* The task of a closed child ends, whether it was mid-round or parked and *)
(* however many inputs were waiting (spawn.rs:648).                        *)
ClosedTasksEnd ==
    \A a \in Agent : state[a] = "Cancelled" ~> ~InFlight(a, run[a])

(* A wait that is polling when its child ends does return, unless the      *)
(* child is resumed or removed before the next poll.                       *)
Polling(w, a, ended) ==
    waitStep[w] = "waiting" /\ waitOn[w] = a /\ (state[a] \in EndStates <=> ended)

WaitsReturn ==
    \A w \in Wait, a \in Agent :
        Polling(w, a, TRUE)
            ~> waitStep[w] \in {"over", "dropped", "idle"} \/ Polling(w, a, FALSE)

=============================================================================
