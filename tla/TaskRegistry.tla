---------------------------- MODULE TaskRegistry ----------------------------
(***************************************************************************)
(* What the A2A gateway promises to whoever asks it for a task.  A task is *)
(* worked on by one turn and settled by it at most once, for good; a       *)
(* cancel is accepted only while the task reads as working, and gives way  *)
(* to what the turn comes to.  A stream ends with the state the task then  *)
(* keeps.  A turn may be lost, and a restart ends them all: it brings back *)
(* tasks that were submitted before it, as working, and no outcome will    *)
(* come for them.                                                          *)
(***************************************************************************)
CONSTANT Task

VARIABLES
    state,  \* what tasks/get answers, "none" for a task it does not find
    turn,   \* "none", "active" or "over"
    told,   \* the state in the last event of a stream, "none" before it
    up

registryVars == <<state, turn, told, up>>

Outcome == {"Completed", "Failed"}

Init ==
    /\ state = [t \in Task |-> "none"]
    /\ turn = [t \in Task |-> "none"]
    /\ told = [t \in Task |-> "none"]
    /\ up = TRUE

Submit(t) ==
    /\ up /\ turn[t] = "none"
    /\ turn' = [turn EXCEPT ![t] = "active"]
    /\ state' = [state EXCEPT ![t] = "Working"]
    /\ UNCHANGED <<told, up>>

Lose(t) ==
    /\ turn[t] = "active"
    /\ turn' = [turn EXCEPT ![t] = "over"]
    /\ UNCHANGED <<state, told, up>>

Cancel(t) ==
    /\ state[t] = "Working"
    /\ state' = [state EXCEPT ![t] = "Canceled"]
    /\ UNCHANGED <<turn, told, up>>

Conclude(t, o) ==
    /\ turn[t] = "active" /\ state[t] \in {"Working", "Canceled"}
    /\ turn' = [turn EXCEPT ![t] = "over"]
    /\ state' = [state EXCEPT ![t] = o]
    /\ UNCHANGED <<told, up>>

Announce(t) ==
    /\ turn[t] = "over" /\ state[t] \in Outcome /\ told[t] = "none"
    /\ told' = [told EXCEPT ![t] = state[t]]
    /\ UNCHANGED <<state, turn, up>>

Crash ==
    /\ up /\ up' = FALSE
    /\ state' = [t \in Task |-> "none"] /\ told' = [t \in Task |-> "none"]
    /\ turn' = [t \in Task |-> IF turn[t] = "active" THEN "over" ELSE turn[t]]

Boot(kept) ==
    /\ ~up /\ up' = TRUE
    /\ kept \subseteq {t \in Task : turn[t] = "over"}
    /\ state' = [t \in Task |-> IF t \in kept THEN "Working" ELSE "none"]
    /\ UNCHANGED <<turn, told>>

Next ==
    \/ \E t \in Task : Submit(t) \/ Lose(t) \/ Cancel(t) \/ Announce(t)
    \/ \E t \in Task, o \in Outcome : Conclude(t, o)
    \/ Crash
    \/ \E kept \in SUBSET Task : Boot(kept)

Spec == Init /\ [][Next]_registryVars
=============================================================================
