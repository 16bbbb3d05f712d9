--------------------------- MODULE A2ATasksProofs ---------------------------
(* Proofs about A2ATasks: types, cancels, streams, contexts, and the       *)
(* registry it implements.                                                 *)
EXTENDS A2ATasks, TLAPS

USE DEF Terminal, TaskState, Step, InFlight, GoTo, store, requests, calls, database,
        history

(* What a processor knows where it stands.                                 *)
ContextKnown == \A t \in Task : pc[t] # "none" => context[t] \in Context
NoSessionYet ==
    \A t \in Task : pc[t] \in {"none", "new", "lookup", "creating"} => session[t] = NoTask
OwnSession == \A t \in Task : pc[t] = "saving" => session[t] = t
DownIsQuiet ==
    ~up => \A t \in Task : ~InFlight(t) /\ said[t] = "none"

Types == TypeOK /\ ContextKnown /\ NoSessionYet /\ OwnSession /\ DownIsQuiet

(* An agent runs with its token registered.  A cancel between its two      *)
(* steps has fired the token, came before it, or came when the agent was   *)
(* over; and whoever may still reach the agent was canceled after one of   *)
(* the first two.                                                          *)
ArmedAgents == \A t \in Task : pc[t] = "agent" => t \in tokens
Reached(t)  == t \in fired \cup early
AgentAhead(t) == pc[t] = "agent" \/ Unarmed(t)
LookedAt ==
    \A k \in Call :
        call[k] = "looked" /\ AgentAhead(target[k]) => Reached(target[k])
CanceledWereReached ==
    \A t \in Task :
        mem[t] = "Canceled" /\ (AgentAhead(t) \/ pc[t] = "new") => Reached(t)

Cancels == ArmedAgents /\ LookedAt /\ CanceledWereReached

(* From its last write on, a streamed task keeps the state it will name.   *)
LastWords ==
    \A t \in Task :
        /\ pc[t] = "sayCompleted" => mem[t] = "Completed"
        /\ pc[t] = "sayFailed" => mem[t] = "Failed"
        /\ said[t] # "none" => pc[t] = "done"

(* What the registry sees of a task: until its turn settles it, a task     *)
(* reads as working or canceled; a second write repeats the first; a row   *)
(* is of a task that was submitted, a cancel of one that was answered; and *)
(* nothing is read while down.                                             *)
Verdicts ==
    /\ ~up => mem = [t \in Task |-> "none"]
    /\ \A t \in Task :
           /\ TurnAt(pc[t]) = "active" => mem[t] \in {"Working", "Canceled"}
           /\ pc[t] = "closing" => mem[t] = "Completed"
           /\ row[t] # "none" => pc[t] \notin {"none", "new"}
    /\ \A k \in Call : call[k] = "looked" => target[k] \in Task /\ IdIsKnown(target[k])

(* A context that is not forked is bound by one task at a time, once, and  *)
(* whoever has a session has the bound one, or is about to bind it.        *)
OneBinder(c) ==
    \A t, u \in Task :
        /\ context[t] = c /\ pc[t] \in {"creating", "saving"}
        => /\ bound[c] = NoTask
           /\ context[u] = c /\ pc[u] \in {"creating", "saving"} => t = u
SameSession(c) ==
    \A t \in Task : context[t] = c /\ session[t] # NoTask =>
        session[t] = bound[c] \/ pc[t] = "saving"
Bindings == \A c \in Context \ forked : OneBinder(c) /\ SameSession(c)

Inv == Types /\ Cancels /\ LastWords /\ StreamEndsAsStored
       /\ Bindings /\ Verdicts

LEMMA TypesInit == Init => Types
BY NoTaskIsNone, MaxBootsIsNat
   DEF Init, Types, TypeOK, ContextKnown, NoSessionYet, OwnSession, DownIsQuiet

LEMMA TypesStep == Types /\ [Next]_vars => Types'
<1> SUFFICES ASSUME Types, [Next]_vars  PROVE Types'
    OBVIOUS
<1> USE NoTaskIsNone, NoContextIsNone DEF Types, TypeOK, ContextKnown, NoSessionYet,
        OwnSession, DownIsQuiet
<1>1. ASSUME NEW t \in Task, NEW c \in Context, Accept(t, c)  PROVE Types'
      BY <1>1 DEF Accept
<1>2. ASSUME NEW t \in Task, Start(t)  PROVE Types'
      BY <1>2 DEF Start, Upsert
<1>3. ASSUME NEW t \in Task, DropRequest(t)  PROVE Types'
      BY <1>3 DEF DropRequest, Upsert
<1>4. ASSUME NEW t \in Task, LookupFinds(t)  PROVE Types'
      BY <1>4 DEF LookupFinds, Live
<1>5. ASSUME NEW t \in Task, LookupFindsNone(t)  PROVE Types'
      BY <1>5 DEF LookupFindsNone
<1>6. ASSUME NEW t \in Task, CreateSession(t)  PROVE Types'
      BY <1>6 DEF CreateSession
<1>7. ASSUME NEW t \in Task, SaveContext(t)  PROVE Types'
      BY <1>7 DEF SaveContext
<1>8. ASSUME NEW t \in Task, Arm(t) \/ AgentReturns(t) \/ Disarm(t) \/ Tell(t)
      PROVE Types'
      BY <1>8 DEF Arm, AgentReturns, Disarm, Tell
<1>9. ASSUME NEW t \in Task, Complete(t) \/ SendFinalStatus(t) \/ Fail(t)  PROVE Types'
      BY <1>9 DEF Complete, SendFinalStatus, Fail, Settle, Upsert
<1>10. ASSUME NEW s \in Task, Archive(s)  PROVE Types'
      BY <1>10 DEF Archive
<1>11. ASSUME NEW k \in Call, NEW t \in Task, CancelLook(k, t)  PROVE Types'
      BY <1>11 DEF CancelLook, Fires
<1>12. ASSUME NEW k \in Call, CancelWrite(k) \/ CancelDropped(k)  PROVE Types'
      BY <1>12 DEF CancelWrite, CancelDropped, Settle, Upsert
<1>13. CASE Crash
  <2>1. row' \in [Task -> TaskState]
        BY <1>13 DEF Crash
  <2>2. mem' \in [Task -> TaskState] /\ pc' \in [Task -> Step]
        BY <1>13 DEF Crash
  <2>3. /\ session' \in [Task -> Task \cup {NoTask}] /\ target' \in [Call -> Task \cup {NoTask}]
        /\ call' \in [Call -> {"idle", "looked", "over"}]
        /\ said' \in [Task -> {"none", "Completed", "Failed"}]
        BY <1>13 DEF Crash
  <2>4. ContextKnown' /\ NoSessionYet' /\ OwnSession' /\ DownIsQuiet'
        BY <1>13 DEF Crash
  <2>5. \A t \in Task : pc'[t] \notin {"arming", "agent"}
        BY <1>13 DEF Crash
  <2>6. /\ UNCHANGED <<context, boots, bound, archived, early, forked>>
        /\ tokens' = {} /\ fired' = {} /\ up' = FALSE
        BY <1>13 DEF Crash
  <2> QED BY <2>1, <2>2, <2>3, <2>4, <2>5, <2>6
<1>14. CASE Boot
      BY <1>14 DEF Boot
<1>15. CASE UNCHANGED vars
      BY <1>15 DEF vars
<1> QED BY <1>1, <1>2, <1>3, <1>4, <1>5, <1>6, <1>7, <1>8, <1>9, <1>10, <1>11, <1>12,
           <1>13, <1>14, <1>15 DEF Next, Process

LEMMA CancelStep == Types /\ Verdicts /\ Cancels /\ [Next]_vars => Cancels'
<1> SUFFICES ASSUME Types, Verdicts, Cancels, [Next]_vars  PROVE Cancels'
    OBVIOUS
<1> USE NoTaskIsNone DEF Types, TypeOK, Verdicts, Cancels, ArmedAgents, LookedAt,
        CanceledWereReached, Reached, AgentAhead, Unarmed, IdIsKnown
<1>1. ASSUME NEW t \in Task, NEW c \in Context, Accept(t, c)  PROVE Cancels'
      BY <1>1 DEF Accept
<1>2. ASSUME NEW t \in Task, Start(t) \/ DropRequest(t) \/ LookupFinds(t)
                 \/ LookupFindsNone(t) \/ CreateSession(t) \/ SaveContext(t)
      PROVE Cancels'
      BY <1>2 DEF Start, DropRequest, LookupFinds, LookupFindsNone, CreateSession,
                  SaveContext
<1>3. ASSUME NEW t \in Task, Arm(t) \/ AgentReturns(t) \/ Disarm(t) \/ Tell(t)
      PROVE Cancels'
      BY <1>3 DEF Arm, AgentReturns, Disarm, Tell
<1>4. ASSUME NEW t \in Task, Complete(t) \/ SendFinalStatus(t) \/ Fail(t)  PROVE Cancels'
      BY <1>4 DEF Complete, SendFinalStatus, Fail, Settle
<1>5. ASSUME NEW s \in Task, Archive(s)  PROVE Cancels'
      BY <1>5 DEF Archive
<1>6. ASSUME NEW k \in Call, NEW t \in Task, CancelLook(k, t)  PROVE Cancels'
      BY <1>6 DEF CancelLook, Fires
<1>7. ASSUME NEW k \in Call, CancelWrite(k) \/ CancelDropped(k)  PROVE Cancels'
      BY <1>7 DEF CancelWrite, CancelDropped, Settle
<1>8. CASE Crash
      BY <1>8 DEF Crash
<1>9. CASE Boot
      BY <1>9 DEF Boot
<1>10. CASE UNCHANGED vars
      BY <1>10 DEF vars
<1> QED BY <1>1, <1>2, <1>3, <1>4, <1>5, <1>6, <1>7, <1>8, <1>9, <1>10 DEF Next, Process

LEMMA StreamStep == Types /\ LastWords /\ StreamEndsAsStored /\ [Next]_vars
                      => LastWords' /\ StreamEndsAsStored'
<1> DEFINE Good == LastWords /\ StreamEndsAsStored
<1> SUFFICES ASSUME Types, Good, [Next]_vars  PROVE Good'
    OBVIOUS
<1> USE NoTaskIsNone DEF Types, TypeOK, DownIsQuiet, LastWords, StreamEndsAsStored
<1>1. ASSUME NEW t \in Task, NEW c \in Context, Accept(t, c)  PROVE Good'
      BY <1>1 DEF Accept
<1>2. ASSUME NEW t \in Task, Start(t) \/ DropRequest(t) \/ LookupFinds(t)
                 \/ LookupFindsNone(t) \/ CreateSession(t) \/ SaveContext(t)
      PROVE Good'
      BY <1>2 DEF Start, DropRequest, LookupFinds, LookupFindsNone, CreateSession,
                  SaveContext
<1>3. ASSUME NEW t \in Task, Arm(t) \/ AgentReturns(t) \/ Disarm(t) \/ Tell(t)
      PROVE Good'
      BY <1>3 DEF Arm, AgentReturns, Disarm, Tell
<1>4. ASSUME NEW t \in Task, Complete(t) \/ SendFinalStatus(t) \/ Fail(t)  PROVE Good'
      BY <1>4 DEF Complete, SendFinalStatus, Fail, Settle
<1>5. ASSUME NEW s \in Task, Archive(s)  PROVE Good'
      BY <1>5 DEF Archive
<1>6. ASSUME NEW k \in Call, NEW t \in Task, CancelLook(k, t)  PROVE Good'
      BY <1>6 DEF CancelLook, Fires
<1>7. ASSUME NEW k \in Call, CancelWrite(k) \/ CancelDropped(k)  PROVE Good'
      BY <1>7 DEF CancelWrite, CancelDropped, Settle, CanCancel
<1>8. CASE Crash
      BY <1>8 DEF Crash
<1>9. CASE Boot
      BY <1>9 DEF Boot
<1>10. CASE UNCHANGED vars
      BY <1>10 DEF vars
<1> QED BY <1>1, <1>2, <1>3, <1>4, <1>5, <1>6, <1>7, <1>8, <1>9, <1>10 DEF Next, Process

LEMMA ContextStep == Types /\ Bindings /\ [Next]_vars => Bindings'
<1> SUFFICES ASSUME Types, Bindings, [Next]_vars, NEW c \in Context \ forked'
             PROVE  OneBinder(c)' /\ SameSession(c)'
    BY DEF Bindings
<1> DEFINE Good == OneBinder(c) /\ SameSession(c)
<1> USE NoTaskIsNone, NoContextIsNone DEF Types, TypeOK, ContextKnown, NoSessionYet, OwnSession,
        DownIsQuiet, OneBinder, SameSession
<1>0. forked \subseteq forked' => Good
      BY DEF Bindings
<1>1. ASSUME NEW t \in Task, NEW d \in Context, Accept(t, d)  PROVE Good'
      BY <1>0, <1>1 DEF Accept
<1>2. ASSUME NEW t \in Task, Start(t) \/ DropRequest(t) \/ Disarm(t) \/ Tell(t)
      PROVE Good'
      BY <1>0, <1>2 DEF Start, DropRequest, Disarm, Tell
<1>3. ASSUME NEW t \in Task, LookupFinds(t)  PROVE Good'
      BY <1>0, <1>3 DEF LookupFinds, Live
<1>4. ASSUME NEW t \in Task, LookupFindsNone(t)  PROVE Good'
      BY <1>0, <1>4 DEF LookupFindsNone, Binding
<1>5. ASSUME NEW t \in Task, CreateSession(t)  PROVE Good'
      BY <1>0, <1>5 DEF CreateSession
<1>6. ASSUME NEW t \in Task, SaveContext(t)  PROVE Good'
      BY <1>0, <1>6 DEF SaveContext
<1>7. ASSUME NEW t \in Task, Arm(t) \/ AgentReturns(t)
      PROVE Good'
      BY <1>0, <1>7 DEF Arm, AgentReturns
<1>8. ASSUME NEW t \in Task, Complete(t) \/ SendFinalStatus(t) \/ Fail(t)  PROVE Good'
      BY <1>0, <1>8 DEF Complete, SendFinalStatus, Fail, Settle
<1>9. ASSUME NEW s \in Task, Archive(s)  PROVE Good'
      BY <1>0, <1>9 DEF Archive
<1>10. ASSUME NEW k \in Call, NEW t \in Task, CancelLook(k, t)  PROVE Good'
      BY <1>0, <1>10 DEF CancelLook
<1>11. ASSUME NEW k \in Call, CancelWrite(k) \/ CancelDropped(k)  PROVE Good'
      BY <1>0, <1>11 DEF CancelWrite, CancelDropped
<1>12. CASE Crash
      BY <1>0, <1>12 DEF Crash
<1>13. CASE Boot
      BY <1>0, <1>13 DEF Boot
<1>14. CASE UNCHANGED vars
      BY <1>0, <1>14 DEF vars
<1> QED BY <1>1, <1>2, <1>3, <1>4, <1>5, <1>6, <1>7, <1>8, <1>9, <1>10, <1>11, <1>12,
           <1>13, <1>14 DEF Next, Process

LEMMA VerdictStep == Types /\ Verdicts /\ [Next]_vars => Verdicts'
<1> SUFFICES ASSUME Types, Verdicts, [Next]_vars  PROVE Verdicts'
    OBVIOUS
<1> USE DEF Types, TypeOK, DownIsQuiet, Verdicts, TurnAt, IdIsKnown
<1>1. ASSUME NEW t \in Task, NEW c \in Context, Accept(t, c)  PROVE Verdicts'
      BY <1>1 DEF Accept
<1>2. ASSUME NEW t \in Task, Start(t)  PROVE Verdicts'
      BY <1>2 DEF Start, Upsert
<1>3. ASSUME NEW t \in Task, DropRequest(t) \/ LookupFinds(t) \/ LookupFindsNone(t)
                 \/ CreateSession(t) \/ SaveContext(t)
      PROVE Verdicts'
      BY <1>3 DEF DropRequest, Upsert, LookupFinds, LookupFindsNone, CreateSession,
                  SaveContext
<1>4. ASSUME NEW t \in Task, Arm(t) \/ AgentReturns(t) \/ Disarm(t) \/ Tell(t)
      PROVE Verdicts'
      BY <1>4 DEF Arm, AgentReturns, Disarm, Tell
<1>5. ASSUME NEW t \in Task, Complete(t) \/ SendFinalStatus(t) \/ Fail(t)
      PROVE Verdicts'
      BY <1>5 DEF Complete, SendFinalStatus, Fail, Settle, Upsert
<1>6. ASSUME NEW s \in Task, Archive(s)  PROVE Verdicts'
      BY <1>6 DEF Archive
<1>7. ASSUME NEW k \in Call, NEW t \in Task, CancelLook(k, t)  PROVE Verdicts'
      BY <1>7 DEF CancelLook
<1>8. ASSUME NEW k \in Call, CancelWrite(k) \/ CancelDropped(k)  PROVE Verdicts'
      BY <1>8 DEF CancelWrite, CancelDropped, Settle, Upsert, CanCancel
<1>9. CASE Crash
      BY <1>9 DEF Crash
<1>10. CASE Boot
      BY <1>10 DEF Boot
<1>11. CASE UNCHANGED vars
      BY <1>11 DEF vars
<1> QED BY <1>1, <1>2, <1>3, <1>4, <1>5, <1>6, <1>7, <1>8, <1>9, <1>10, <1>11
        DEF Next, Process

-----------------------------------------------------------------------------
LEMMA Invariance == Spec => []Inv
<1>1. Init => Inv
  <2>1. Init => Cancels /\ LastWords /\ StreamEndsAsStored
        BY DEF Init, Cancels, ArmedAgents, LookedAt, CanceledWereReached, LastWords,
               StreamEndsAsStored
  <2>2. Init => Bindings
        BY NoContextIsNone DEF Init, Bindings, OneBinder, SameSession
  <2>3. Init => Verdicts
        BY DEF Init, Verdicts, TurnAt, IdIsKnown
  <2> QED BY <2>1, <2>2, <2>3, TypesInit DEF Inv
<1>2. Inv /\ [Next]_vars => Inv'
      BY TypesStep, CancelStep, StreamStep, ContextStep, VerdictStep DEF Inv
<1> QED BY <1>1, <1>2, PTL DEF Spec

(* Every variable has its type in every reachable state, and no agent runs *)
(* without a session, for any tasks, contexts, calls and restarts.         *)
THEOREM A2ATypes == Spec => []TypeOK
<1>1. Inv => TypeOK  BY DEF Inv, Types
<1> QED BY <1>1, Invariance, PTL

(* While its agent runs, a task that reads as canceled has had its token   *)
(* fired, unless the cancel had looked before the token was registered:    *)
(* an agent has its token from its first step to its last (tasks.rs:54,    *)
(* send.rs:154).                                                           *)
THEOREM CancelsArrive == Spec => []CancelReachesTheAgent
<1>1. Inv => CancelReachesTheAgent
      BY DEF Inv, Cancels, CanceledWereReached, Reached, AgentAhead, CancelReachesTheAgent
<1> QED BY <1>1, Invariance, PTL

(* The last event of a stream names the state that the task keeps, however *)
(* cancels come between the last write and the event (stream.rs:284).      *)
THEOREM StreamsTellTheTruth == Spec => []StreamEndsAsStored
<1>1. Inv => StreamEndsAsStored  BY DEF Inv
<1> QED BY <1>1, Invariance, PTL

(* Tasks of one context run on one session, across restarts, unless their  *)
(* bindings overlapped, a lookup or a binding failed, or the session was   *)
(* archived.                                                               *)
THEOREM OneSessionPerContext == Spec => []ContextsKeepTheirSession
<1>1. Inv => ContextsKeepTheirSession
  <2> SUFFICES ASSUME Inv, NEW t \in Task, NEW u \in Task,
                      context[t] = context[u], context[t] \notin forked,
                      session[t] \in Task, session[u] \in Task
               PROVE  session[t] = session[u]
      BY DEF ContextsKeepTheirSession
  <2> USE NoTaskIsNone DEF Inv, Types, ContextKnown, NoSessionYet, Bindings
  <2>1. context[t] \in Context \ forked
        OBVIOUS
  <2>2. OneBinder(context[t]) /\ SameSession(context[t])
        BY <2>1
  <2> QED BY <2>1, <2>2 DEF OneBinder, SameSession
<1> QED BY <1>1, Invariance, PTL

-----------------------------------------------------------------------------
(* The registry.                                                           *)

turns == [t \in Task |-> TurnAt(pc[t])]

LEMMA TurnMoves ==
    ASSUME NEW t \in Task, NEW s \in Step, Types, pc' = [pc EXCEPT ![t] = s]
    PROVE  /\ turns' = [turns EXCEPT ![t] = TurnAt(s)]
           /\ TurnAt(s) = TurnAt(pc[t]) => turns' = turns
<1>1. \A u \in Task : pc'[u] = IF u = t THEN s ELSE pc[u]
      BY DEF Types, TypeOK
<1> QED BY <1>1 DEF turns, TurnAt

(* A step between two awaits of a turn is none of the registry's business. *)
LEMMA TurnGoesOn ==
    ASSUME NEW t \in Task, NEW s \in Step, Types, pc' = [pc EXCEPT ![t] = s],
           TurnAt(s) = TurnAt(pc[t]), UNCHANGED <<mem, said, up>>
    PROVE  UNCHANGED Registry!registryVars
BY TurnMoves DEF turns, Registry!registryVars

LEMMA TurnConcludes ==
    ASSUME NEW t \in Task, NEW s \in Step, Types, Verdicts, TurnAt(pc[t]) = "active",
           NEW o \in {"Completed", "Failed"}, pc' = [pc EXCEPT ![t] = s],
           TurnAt(s) = "over", mem' = [mem EXCEPT ![t] = o], UNCHANGED <<said, up>>
    PROVE  Registry!Next
<1>1. turns' = [turns EXCEPT ![t] = "over"]
  <2>1. turns' = [turns EXCEPT ![t] = TurnAt(s)]  BY TurnMoves
  <2> QED BY <2>1
<1>2. turns[t] = "active" /\ mem[t] \in {"Working", "Canceled"}
      BY DEF turns, Verdicts
<1>3. Registry!Conclude(t, o)
      BY <1>1, <1>2 DEF turns, Registry!Conclude
<1> QED BY <1>3 DEF Registry!Next, Registry!Outcome

LEMMA RegistryStep == Inv /\ [Next]_vars => [Registry!Next]_(Registry!registryVars)
<1> DEFINE Allowed == Registry!Next \/ UNCHANGED Registry!registryVars
<1> SUFFICES ASSUME Inv, [Next]_vars  PROVE Allowed
    OBVIOUS
<1>0. Types /\ Verdicts /\ LastWords
      BY DEF Inv
<1>1. ASSUME NEW t \in Task, NEW c \in Context, Accept(t, c)  PROVE Allowed
  <2>1. turns' = [turns EXCEPT ![t] = "active"]
        BY <1>0, <1>1, TurnMoves DEF Accept, TurnAt
  <2>2. Registry!Submit(t)
        BY <1>1, <2>1 DEF Accept, turns, TurnAt, Registry!Submit
  <2> QED BY <2>2 DEF Registry!Next
<1>2. ASSUME NEW t \in Task, DropRequest(t)  PROVE Allowed
  <2>1. turns' = [turns EXCEPT ![t] = "over"]
        BY <1>0, <1>2, TurnMoves DEF DropRequest, TurnAt
  <2>2. Registry!Lose(t)
        BY <1>2, <2>1 DEF DropRequest, turns, TurnAt, Registry!Lose
  <2> QED BY <2>2 DEF Registry!Next
<1>3. ASSUME NEW t \in Task, Start(t) \/ LookupFinds(t) \/ LookupFindsNone(t)
                 \/ CreateSession(t) \/ SaveContext(t) \/ Arm(t) \/ AgentReturns(t)
                 \/ Disarm(t)
      PROVE  Allowed
  <2>1. PICK s \in Step : pc' = [pc EXCEPT ![t] = s] /\ TurnAt(s) = TurnAt(pc[t])
        BY <1>3 DEF Start, LookupFinds, LookupFindsNone, CreateSession, SaveContext,
           Arm, AgentReturns, Disarm, TurnAt
  <2>2. UNCHANGED <<mem, said, up>>
        BY <1>3 DEF Start, LookupFinds, LookupFindsNone, CreateSession, SaveContext,
           Arm, AgentReturns, Disarm
  <2> QED BY <1>0, <2>1, <2>2, TurnGoesOn
<1>4. ASSUME NEW t \in Task, Complete(t) \/ Fail(t)  PROVE Allowed
  <2>1. PICK s \in Step, o \in {"Completed", "Failed"} :
            /\ pc' = [pc EXCEPT ![t] = s] /\ TurnAt(s) = "over"
            /\ mem' = [mem EXCEPT ![t] = o] /\ TurnAt(pc[t]) = "active"
        BY <1>4 DEF Complete, Fail, Settle, TurnAt
  <2>2. UNCHANGED <<said, up>>
        BY <1>4 DEF Complete, Fail
  <2> QED BY <1>0, <2>1, <2>2, TurnConcludes
(* The second write of an answer repeats the first.                        *)
<1>5. ASSUME NEW t \in Task, SendFinalStatus(t)  PROVE Allowed
  <2>1. mem' = mem
        BY <1>0, <1>5 DEF SendFinalStatus, Settle, Verdicts, Types, TypeOK
  <2> QED BY <1>0, <1>5, <2>1, TurnGoesOn DEF SendFinalStatus, TurnAt
<1>6. ASSUME NEW t \in Task, Tell(t)  PROVE Allowed
  <2>1. turns' = turns
        BY <1>0, <1>6, TurnMoves DEF Tell, TurnAt
  <2>2. said' = [said EXCEPT ![t] = mem[t]] /\ mem[t] \in {"Completed", "Failed"}
        /\ said[t] = "none" /\ turns[t] = "over"
        BY <1>0, <1>6 DEF Tell, LastWords, turns, TurnAt
  <2>3. Registry!Announce(t)
        BY <1>6, <2>1, <2>2 DEF Tell, turns, Registry!Announce, Registry!Outcome
  <2> QED BY <2>3 DEF Registry!Next
<1>7. ASSUME UNCHANGED <<mem, pc, said, up>>  PROVE Allowed
      BY <1>7 DEF Registry!registryVars
<1>8. ASSUME NEW k \in Call, CancelWrite(k)  PROVE Allowed
  <2>1. CASE mem[target[k]] = "Working"
    <3>1. target[k] \in Task
          BY <1>0, <1>8 DEF CancelWrite, Verdicts
    <3>2. Registry!Cancel(target[k])
          BY <1>8, <2>1 DEF CancelWrite, CanCancel, Settle, Registry!Cancel
    <3> QED BY <3>1, <3>2 DEF Registry!Next
  <2>2. CASE mem[target[k]] # "Working"
        BY <1>7, <1>8, <2>2 DEF CancelWrite, CanCancel
  <2> QED BY <2>1, <2>2
<1>9. CASE Crash
  <2>1. turns' = [t \in Task |-> IF turns[t] = "active" THEN "over" ELSE turns[t]]
        BY <1>0, <1>9 DEF Crash, turns, TurnAt, Types, TypeOK
  <2>2. Registry!Crash
        BY <1>9, <2>1 DEF Crash, turns, Registry!Crash
  <2> QED BY <2>2 DEF Registry!Next
<1>10. CASE Boot
  <2> DEFINE kept == {t \in Task : mem'[t] # "none"}
  <2>1. \A t \in Task : pc[t] \in {"none", "done", "dead", "dropped"}
        BY <1>0, <1>10 DEF Boot, Types, TypeOK, DownIsQuiet
  <2>2. \A t \in kept : turns[t] = "over"
        BY <1>0, <1>10, <2>1 DEF Boot, Verdicts, IdIsKnown, turns, TurnAt
  <2>3. mem' = [t \in Task |-> IF t \in kept THEN "Working" ELSE "none"]
        BY <1>0, <1>10 DEF Boot, Verdicts, Types, TypeOK
  <2>4. Registry!Boot(kept)
        BY <1>10, <2>2, <2>3 DEF Boot, turns, Registry!Boot
  <2>5. kept \in SUBSET Task
        OBVIOUS
  <2> QED BY <2>4, <2>5 DEF Registry!Next
<1>11. ASSUME NEW t \in Task, Archive(t)  PROVE Allowed
      BY <1>7, <1>11 DEF Archive
<1>13. ASSUME NEW k \in Call, CancelDropped(k)  PROVE Allowed
      BY <1>7, <1>13 DEF CancelDropped
<1>14. ASSUME NEW k \in Call, NEW t \in Task, CancelLook(k, t)  PROVE Allowed
      BY <1>7, <1>14 DEF CancelLook
<1>15. CASE UNCHANGED vars
      BY <1>7, <1>15 DEF vars
<1>12. ASSUME NEW t \in Task, Process(t)  PROVE Allowed
  <2> HIDE DEF Allowed
  <2> QED BY <1>3, <1>4, <1>5, <1>6, <1>12 DEF Process
<1> HIDE DEF Allowed
<1> QED BY <1>1, <1>2, <1>8, <1>9, <1>10, <1>11, <1>12, <1>13, <1>14,
           <1>15 DEF Next

(* The gateway keeps the registry's promise, for any tasks, contexts, and  *)
(* calls: a task is settled by its own turn, once and for good until a     *)
(* restart, and a stream ends as the store reads.                          *)
THEOREM GatewayIsARegistry == Spec => RefinesRegistry
<1>1. Init => Registry!Init
      BY DEF Init, Registry!Init, TurnAt
<1> QED BY <1>1, RegistryStep, Invariance, PTL
        DEF Spec, RefinesRegistry, Registry!Spec
=============================================================================
