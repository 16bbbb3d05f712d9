------------------------------ MODULE A2ATasks ------------------------------
(***************************************************************************)
(* The A2A gateway's tasks: message/send and message/stream create a task  *)
(* in the in-memory store and in the database and start a processor; the   *)
(* processor binds the task's context to a chat session, registers a       *)
(* cancellation token, runs the agent and settles the task; tasks/cancel   *)
(* fires the token and marks the task, in two critical sections; a restart *)
(* restores the tasks that were not settled.                               *)
(*                                                                         *)
(* The store's write lock is held across the row's upsert, so both change  *)
(* in one action; an upsert that fails is logged and the row stays.  Every *)
(* request is a future that is dropped when its client disconnects.        *)
(***************************************************************************)
EXTENDS Naturals, FiniteSets

CONSTANTS
    Task,       \* task ids; an id is never used twice
    Streaming,  \* those that message/stream makes; message/send makes the rest
    Context,    \* context ids that clients send
    Call,       \* tasks/cancel requests
    NoTask,     \* the absent task, and so the absent session
    NoContext,  \* the absent context
    MaxBoots    \* bound: restarts

ASSUME StreamsAreTasks == Streaming \subseteq Task
ASSUME NoTaskIsNone    == NoTask \notin Task
ASSUME NoContextIsNone == NoContext \notin Context
ASSUME MaxBootsIsNat   == MaxBoots \in Nat

VARIABLES
    mem,        \* the task store: state by task, "none" when absent
    tokens,     \* tasks with a token in the cancel store
    fired,      \* tasks whose token was cancelled
    pc,         \* where a task's request and then its processor stand
    context,    \* the context of a task
    session,    \* the session a processor runs on, named by the task that made it
    said,       \* the state in the final event of a stream of this boot
    call,       \* tasks/cancel: its step
    target,     \* tasks/cancel: its task
    up, boots,
    row,        \* table a2a_tasks
    bound,      \* table a2a_context_sessions
    archived,   \* sessions archived or deleted
    \* history, for the properties
    early,      \* tasks a cancel looked for before their agent had a token
    forked      \* contexts with overlapping bindings, or a failed lookup or save

store    == <<mem, tokens, fired>>
requests == <<pc, context, session, said>>
calls    == <<call, target>>
database == <<row, bound, archived>>
history  == <<early, forked>>
vars     == <<store, requests, calls, up, boots, database, history>>

Terminal  == {"Completed", "Failed", "Canceled"}
TaskState == Terminal \cup {"none", "Working"}
Step      == {"none", "new", "lookup", "creating", "saving", "arming", "agent",
              "answered", "failed", "completing", "failing", "closing",
              "sayCompleted", "sayFailed", "done", "dead", "dropped"}

Binding(c) == {t \in Task : context[t] = c /\ pc[t] \in {"creating", "saving"}}
InFlight(t) == pc[t] \notin {"none", "done", "dead", "dropped"}
Unarmed(t) == pc[t] \in {"lookup", "creating", "saving", "arming"}

(* The answer that names the task leaves after its processor is spawned.   *)
IdIsKnown(t) == pc[t] \notin {"none", "new", "dropped"}

Init ==
    /\ mem = [t \in Task |-> "none"] /\ tokens = {} /\ fired = {}
    /\ pc = [t \in Task |-> "none"]
    /\ context = [t \in Task |-> NoContext] /\ session = [t \in Task |-> NoTask]
    /\ said = [t \in Task |-> "none"]
    /\ call = [k \in Call |-> "idle"] /\ target = [k \in Call |-> NoTask]
    /\ up = TRUE /\ boots = 0
    /\ row = [t \in Task |-> "none"]
    /\ bound = [c \in Context |-> NoTask] /\ archived = {}
    /\ early = {} /\ forked = {}

-----------------------------------------------------------------------------
GoTo(t, s) == pc' = [pc EXCEPT ![t] = s]

(* An upsert that fails is logged and leaves the row as it was.            *)
Upsert(t, s) == row' = [row EXCEPT ![t] = s] \/ UNCHANGED row

(* A task's state in the store, and its row under the same lock.           *)
Settle(t, s) ==
    /\ mem' = [mem EXCEPT ![t] = s]
    /\ Upsert(t, s)

-----------------------------------------------------------------------------
(* message/send and message/stream: the store first, the row after.        *)
Accept(t, c) ==
    /\ up /\ pc[t] = "none"
    /\ GoTo(t, "new")
    /\ mem' = [mem EXCEPT ![t] = "Working"]
    /\ context' = [context EXCEPT ![t] = c]
    /\ UNCHANGED <<tokens, fired, session, said, calls, up, boots, database, history>>

Start(t) ==
    /\ pc[t] = "new"
    /\ GoTo(t, "lookup")
    /\ Upsert(t, "Working")
    /\ UNCHANGED <<store, context, session, said, calls, up, boots, bound,
                   archived, early, forked>>

(* The client is gone before the processor is spawned; an upsert that has  *)
(* begun is carried through by the database's own thread.                  *)
DropRequest(t) ==
    /\ pc[t] = "new"
    /\ GoTo(t, "dropped")
    /\ Upsert(t, "Working")
    /\ UNCHANGED <<store, context, session, said, calls, up, boots, bound,
                   archived, early, forked>>

(* A context that has a live session keeps it; a lookup that fails counts  *)
(* as none.                                                                *)
Live(c)       == bound[c] # NoTask /\ bound[c] \notin archived

LookupFinds(t) ==
    /\ pc[t] = "lookup" /\ Live(context[t])
    /\ GoTo(t, "arming")
    /\ session' = [session EXCEPT ![t] = bound[context[t]]]
    /\ UNCHANGED <<store, context, said, calls, up, boots, database, history>>

LookupFindsNone(t) ==
    /\ pc[t] = "lookup"
    /\ GoTo(t, "creating")
    /\ forked' = IF bound[context[t]] # NoTask \/ Binding(context[t]) # {}
                 THEN forked \cup {context[t]} ELSE forked
    /\ UNCHANGED <<store, context, session, said, calls, up, boots, database,
                   early>>

CreateSession(t) ==
    /\ pc[t] = "creating"
    /\ \/ GoTo(t, "saving") /\ session' = [session EXCEPT ![t] = t]
       \/ GoTo(t, "failing") /\ UNCHANGED session
    /\ UNCHANGED <<store, context, said, calls, up, boots, database, history>>

(* Mutant: the new session is used and never bound to its context.         *)
SaveNothing(t) ==
    /\ pc[t] = "saving"
    /\ GoTo(t, "arming")
    /\ UNCHANGED <<store, context, session, said, calls, up, boots, database,
                   history>>

SaveContext(t) ==
    /\ pc[t] = "saving"
    /\ GoTo(t, "arming")
    /\ \/ bound' = [bound EXCEPT ![context[t]] = session[t]] /\ UNCHANGED forked
       \/ forked' = forked \cup {context[t]} /\ UNCHANGED bound
    /\ UNCHANGED <<store, context, session, said, calls, up, boots, row,
                   archived, early>>

Archive(s) ==
    /\ \E t \in Task : session[t] = s
    /\ s \notin archived
    /\ archived' = archived \cup {s}
    /\ UNCHANGED <<store, requests, calls, up, boots, row, bound, history>>

(* Mutant: the agent runs with a token that nobody can look up.            *)
ArmUnregistered(t) ==
    /\ pc[t] = "arming"
    /\ GoTo(t, "agent")
    /\ UNCHANGED <<store, context, session, said, calls, up, boots, database,
                   history>>

Arm(t) ==
    /\ pc[t] = "arming"
    /\ GoTo(t, "agent")
    /\ tokens' = tokens \cup {t}
    /\ UNCHANGED <<mem, fired, context, session, said, calls, up, boots,
                   database, history>>

(* The agent's turn ends; a cancelled one ends in an error or, when it was *)
(* about to answer, with the answer.                                       *)
AgentReturns(t) ==
    /\ pc[t] = "agent"
    /\ GoTo(t, "answered") \/ GoTo(t, "failed")
    /\ UNCHANGED <<store, context, session, said, calls, up, boots, database,
                   history>>

(* Mutant: the error path that leaves the task as it is.                   *)
DisarmForgetsErrors(t) ==
    /\ pc[t] \in {"answered", "failed"}
    /\ GoTo(t, IF pc[t] = "answered" THEN "completing" ELSE "done")
    /\ tokens' = tokens \ {t}
    /\ UNCHANGED <<mem, fired, context, session, said, calls, up, boots,
                   database, history>>

Disarm(t) ==
    /\ pc[t] \in {"answered", "failed"}
    /\ GoTo(t, IF pc[t] = "answered" THEN "completing" ELSE "failing")
    /\ tokens' = tokens \ {t}
    /\ UNCHANGED <<mem, fired, context, session, said, calls, up, boots,
                   database, history>>

(* The outcome is written over whatever the store says.                    *)
Complete(t) ==
    /\ pc[t] = "completing"
    /\ GoTo(t, IF t \in Streaming THEN "closing" ELSE "done")
    /\ Settle(t, "Completed")
    /\ UNCHANGED <<tokens, fired, context, session, said, calls, up, boots,
                   bound, archived, early, forked>>

(* send_final_status writes the outcome, for an answer a second time, and  *)
(* then sends the last event.                                              *)
SendFinalStatus(t) ==
    /\ pc[t] = "closing"
    /\ GoTo(t, "sayCompleted")
    /\ Settle(t, "Completed")
    /\ UNCHANGED <<tokens, fired, context, session, said, calls, up, boots,
                   bound, archived, early, forked>>

Fail(t) ==
    /\ pc[t] = "failing"
    /\ GoTo(t, IF t \in Streaming THEN "sayFailed" ELSE "done")
    /\ Settle(t, "Failed")
    /\ UNCHANGED <<tokens, fired, context, session, said, calls, up, boots,
                   bound, archived, early, forked>>

Tell(t) ==
    /\ pc[t] \in {"sayCompleted", "sayFailed"}
    /\ GoTo(t, "done")
    /\ said' = [said EXCEPT ![t] = IF pc[t] = "sayFailed" THEN "Failed" ELSE "Completed"]
    /\ UNCHANGED <<store, context, session, calls, up, boots, database, history>>

-----------------------------------------------------------------------------
(* tasks/cancel: first the token, if there is one, then the state.         *)
Fires(t) == {t} \cap tokens

CancelLook(k, t) ==
    /\ up /\ call[k] = "idle" /\ IdIsKnown(t)
    /\ call' = [call EXCEPT ![k] = "looked"]
    /\ target' = [target EXCEPT ![k] = t]
    /\ fired' = fired \cup Fires(t)
    /\ early' = IF Unarmed(t) THEN early \cup {t} ELSE early
    /\ UNCHANGED <<mem, tokens, requests, up, boots, database, forked>>

(* Mutant: a settled task can be cancelled.                                *)
AnyState == {"Working"} \cup Terminal
CanCancel == {"Working"}

CancelWrite(k) ==
    /\ call[k] = "looked"
    /\ call' = [call EXCEPT ![k] = "over"]
    /\ target' = [target EXCEPT ![k] = NoTask]
    /\ IF mem[target[k]] \in CanCancel
       THEN Settle(target[k], "Canceled")
       ELSE UNCHANGED <<mem, row>>
    /\ UNCHANGED <<tokens, fired, requests, up, boots, bound, archived, early, forked>>

CancelDropped(k) ==
    /\ call[k] = "looked"
    /\ call' = [call EXCEPT ![k] = "over"]
    /\ target' = [target EXCEPT ![k] = NoTask]
    /\ UNCHANGED <<store, requests, up, boots, database, history>>

-----------------------------------------------------------------------------
(* A restart: the store is rebuilt from the rows that are not settled.  A  *)
(* request may be killed between its upsert and its spawn.                 *)
Crash ==
    /\ up /\ boots < MaxBoots
    /\ up' = FALSE
    /\ mem' = [t \in Task |-> "none"] /\ tokens' = {} /\ fired' = {}
    /\ pc' = [t \in Task |->
           IF pc[t] = "new" THEN "dropped" ELSE IF InFlight(t) THEN "dead" ELSE pc[t]]
    /\ session' = [t \in Task |-> IF pc[t] = "saving" THEN NoTask ELSE session[t]]
    /\ call' = [k \in Call |-> IF call[k] = "looked" THEN "over" ELSE call[k]]
    /\ target' = [k \in Call |-> NoTask]
    /\ said' = [t \in Task |-> "none"]
    /\ \E saved \in SUBSET {t \in Task : pc[t] = "new"} :
           row' = [t \in Task |-> IF t \in saved THEN "Working" ELSE row[t]]
    /\ UNCHANGED <<context, boots, bound, archived, history>>

(* A load that fails is logged and restores nothing.                       *)
Boot ==
    /\ ~up
    /\ up' = TRUE /\ boots' = boots + 1
    /\ \/ mem' = [t \in Task |-> IF row[t] \in Terminal THEN "none" ELSE row[t]]
       \/ UNCHANGED mem
    /\ UNCHANGED <<tokens, fired, requests, calls, database, history>>

-----------------------------------------------------------------------------
Process(t) ==
    \/ Start(t) \/ LookupFinds(t) \/ LookupFindsNone(t) \/ CreateSession(t)
    \/ SaveContext(t) \/ Arm(t) \/ AgentReturns(t) \/ Disarm(t)
    \/ Complete(t) \/ SendFinalStatus(t) \/ Fail(t) \/ Tell(t)

Next ==
    \/ \E t \in Task, c \in Context : Accept(t, c)
    \/ \E t \in Task : Process(t) \/ DropRequest(t) \/ Archive(t)
    \/ \E k \in Call : CancelWrite(k) \/ CancelDropped(k)
    \/ \E k \in Call, t \in Task : CancelLook(k, t)
    \/ Crash \/ Boot

Spec == Init /\ [][Next]_vars

(* Tokio runs a spawned processor; its provider call has a timeout.        *)
FairSpec == Spec /\ \A t \in Task : WF_vars(Process(t))

-----------------------------------------------------------------------------
(* Every variable has its type, and no agent runs without a session.       *)
TypeOK ==
    /\ mem \in [Task -> TaskState] /\ row \in [Task -> TaskState]
    /\ tokens \in SUBSET Task /\ fired \in SUBSET Task
    /\ pc \in [Task -> Step]
    /\ context \in [Task -> Context \cup {NoContext}]
    /\ session \in [Task -> Task \cup {NoTask}]
    /\ \A t \in Task : pc[t] \in {"arming", "agent"} => session[t] \in Task
    /\ said \in [Task -> {"none", "Completed", "Failed"}]
    /\ call \in [Call -> {"idle", "looked", "over"}]
    /\ target \in [Call -> Task \cup {NoTask}]
    /\ up \in BOOLEAN /\ boots \in Nat
    /\ bound \in [Context -> Task \cup {NoTask}] /\ archived \in SUBSET Task
    /\ early \in SUBSET Task
    /\ forked \in SUBSET Context

(* An agent that runs on behalf of a task that reads as canceled has had   *)
(* its token fired, but for a cancel that looked for the token before the  *)
(* processor had registered it: that one lets the agent run on             *)
(* (tasks.rs:54, send.rs:154).                                             *)
CancelReachesTheAgent ==
    \A t \in Task : mem[t] = "Canceled" /\ pc[t] = "agent" => t \in fired \cup early

(* Tasks of one context run on one chat session, across restarts too,      *)
(* unless two of them looked it up before either had bound it, a lookup    *)
(* failed (which reads as none and binds the context anew), a binding      *)
(* failed, or the session was archived (send.rs:126, persistence.rs:90).   *)
ContextsKeepTheirSession ==
    \A t, u \in Task :
        /\ context[t] = context[u] /\ context[t] \notin forked
        /\ session[t] \in Task /\ session[u] \in Task
        => session[t] = session[u]

(* The last event of a stream names the state the task keeps: no cancel    *)
(* between the last write and the event, or after it, changes the state    *)
(* (stream.rs:284, tasks.rs:66).                                           *)
StreamEndsAsStored == \A t \in Task : said[t] # "none" => said[t] = mem[t]

(* How far the turn of a task is at a step, as a client could see it: it   *)
(* is over with the first write of its outcome, or lost with its request.  *)
TurnAt(step) ==
    IF step = "none" THEN "none"
    ELSE IF step \in {"closing", "sayCompleted", "sayFailed", "done", "dead", "dropped"}
         THEN "over" ELSE "active"

(* The store keeps the registry's promise: a task's outcome is written     *)
(* once and for good, over a cancel at most, whatever cancels, failing     *)
(* upserts, second writes, dropped clients and restarts come between;      *)
(* a stream ends as the store then reads; and a task that a restart brings *)
(* back may be canceled and no more (tasks.rs:69, stream.rs:263,           *)
(* server.rs:185).                                                         *)
Registry == INSTANCE TaskRegistry
    WITH state <- mem, turn <- [t \in Task |-> TurnAt(pc[t])], told <- said

RefinesRegistry == Registry!Spec

(* Every task whose processor was started is settled in the store, however *)
(* its session, its agent and its cancels turn out, unless the process     *)
(* dies.                                                                   *)
TasksEnd ==
    \A t \in Task :
        InFlight(t) ~> \/ pc[t] \in {"dead", "dropped"}
                       \/ pc[t] = "done" /\ mem[t] \in Terminal

=============================================================================
