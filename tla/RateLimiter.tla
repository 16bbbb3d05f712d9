----------------------------- MODULE RateLimiter -----------------------------
(***************************************************************************)
(* RateLimiter::wait, the pacing of provider requests on a rate-limited    *)
(* endpoint (brain/provider/rate_limiter.rs).  One limiter is shared by    *)
(* every session of the process that uses the endpoint.                    *)
(*                                                                         *)
(* A call reads the clock once and then loops on a load and a              *)
(* compare_exchange of one atomic; other calls run between any two of      *)
(* these steps.  Time is counted in units of the clock's resolution.       *)
(***************************************************************************)
EXTENDS Integers, Sequences

CONSTANTS
  Caller,
  Interval,  \* min_interval
  Start,     \* what now_ns() first reads; PROCESS_START is set by that read,
             \* so a clock coarser than the initialisation reads 0
  Horizon    \* bound: the last instant of a run

ASSUME IntervalAssumption == Interval \in Nat \ {0}
ASSUME ClockAssumption    == Start \in Nat /\ Horizon \in Nat

VARIABLES
  clock,
  last_granted, \* 0 stands for no request yet
  pc,           \* where each call is
  now,          \* now_ns, read before the loop
  seen,         \* last, as loaded in this round of the loop
  until,        \* when the call's sleep is over
  \* History, for the properties only:
  grants,       \* the granted instants, in the order of the exchanges
  sequential    \* no call has begun while another one was under way

call    == <<pc, now, seen, until>>
history == <<grants, sequential>>
vars    == <<clock, last_granted, call, history>>

-----------------------------------------------------------------------------
Init ==
  /\ clock = Start
  /\ last_granted = 0
  /\ pc    = [c \in Caller |-> "idle"]
  /\ now   = [c \in Caller |-> 0]
  /\ seen  = [c \in Caller |-> 0]
  /\ until = [c \in Caller |-> 0]
  /\ grants = <<>>
  /\ sequential = TRUE

Enter(c) ==
  /\ pc[c] = "idle"
  /\ pc'  = [pc EXCEPT ![c] = "loading"]
  /\ now' = [now EXCEPT ![c] = clock]
  /\ sequential' = (sequential /\ \A d \in Caller : pc[d] = "idle")
  /\ UNCHANGED <<clock, last_granted, seen, until, grants>>

Load(c) ==
  /\ pc[c] = "loading"
  /\ pc'   = [pc EXCEPT ![c] = "exchanging"]
  /\ seen' = [seen EXCEPT ![c] = last_granted]
  /\ UNCHANGED <<clock, last_granted, now, until, history>>

(* now_ns.saturating_sub(last): a grant in the future counts as just now.  *)
Elapsed(c) == IF now[c] > seen[c] THEN now[c] - seen[c] ELSE 0
Free(c) == seen[c] = 0 \/ Elapsed(c) >= Interval

(* Mutants: the interval is compared and not waited for; the sleep is      *)
(* counted from the last grant, so that a backlog builds up.               *)
NoSleep(c) == 0
QueueUp(c) == seen[c] + Interval - now[c]

SleepFor(c) == Interval - Elapsed(c)

(* The compare_exchange, when nobody was faster.                           *)
GrantNow(c) ==
  /\ pc[c] = "exchanging"
  /\ last_granted = seen[c]
  /\ Free(c)
  /\ last_granted' = now[c]
  /\ grants' = Append(grants, now[c])
  /\ pc' = [pc EXCEPT ![c] = "idle"]
  /\ UNCHANGED <<clock, now, seen, until, sequential>>

GrantLater(c) ==
  /\ pc[c] = "exchanging"
  /\ last_granted = seen[c]
  /\ ~Free(c)
  /\ last_granted' = now[c] + SleepFor(c)
  /\ grants' = Append(grants, now[c] + SleepFor(c))
  /\ until' = [until EXCEPT ![c] = clock + SleepFor(c)]
  /\ pc' = [pc EXCEPT ![c] = "sleeping"]
  /\ UNCHANGED <<clock, now, seen, sequential>>

Retry(c) ==
  /\ pc[c] = "exchanging"
  /\ last_granted # seen[c]
  /\ pc' = [pc EXCEPT ![c] = "loading"]
  /\ UNCHANGED <<clock, last_granted, now, seen, until, history>>

WakeUp(c) ==
  /\ pc[c] = "sleeping"
  /\ until[c] <= clock
  /\ pc' = [pc EXCEPT ![c] = "idle"]
  /\ UNCHANGED <<clock, last_granted, now, seen, until, history>>

Tick ==
  /\ clock < Horizon
  /\ clock' = clock + 1
  /\ UNCHANGED <<last_granted, call, history>>

Next ==
  \/ \E c \in Caller : \/ Enter(c) \/ Load(c) \/ GrantNow(c) \/ GrantLater(c)
                       \/ Retry(c) \/ WakeUp(c)
  \/ Tick

Spec == Init /\ [][Next]_vars

-----------------------------------------------------------------------------
TypeOK ==
  /\ clock \in Nat
  /\ last_granted \in Nat
  /\ pc \in [Caller -> {"idle", "loading", "exchanging", "sleeping"}]
  /\ now \in [Caller -> Nat]
  /\ seen \in [Caller -> Nat]
  /\ until \in [Caller -> Nat]
  /\ grants \in Seq(Nat)
  /\ sequential \in BOOLEAN

(* No call sleeps longer than min_interval (rate_limiter_test.rs), however *)
(* many wait, and the slot they leave behind is no further away than that. *)
SleepsAtMostOneInterval ==
  /\ \A c \in Caller : pc[c] = "sleeping" => until[c] <= clock + Interval
  /\ last_granted <= clock + Interval

(* Calls that never overlap are granted min_interval apart.                *)
Apart(a, b) == a - b >= Interval \/ b - a >= Interval
MinInterval ==
  \A m, n \in DOMAIN grants : m # n => Apart(grants[m], grants[n])
SequentialCallsKeepTheInterval == sequential => MinInterval
=============================================================================
