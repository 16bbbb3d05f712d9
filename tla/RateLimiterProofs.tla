-------------------------- MODULE RateLimiterProofs --------------------------
(***************************************************************************)
(* Proofs about RateLimiter, for any number of callers, any interval and   *)
(* any horizon: no call sleeps longer than one interval, and calls that    *)
(* never overlap are granted an interval apart - provided the clock never  *)
(* reads 0, the value that stands for no request yet.                      *)
(***************************************************************************)
EXTENDS RateLimiter, SequenceTheorems, TLAPS

(* What is known of a call between the reading of the clock and its end.   *)
CallSane(c) ==
  /\ now[c] <= clock
  /\ pc[c] = "sleeping" => until[c] <= clock + Interval

Reach == last_granted <= clock + Interval

Sane == TypeOK /\ Reach /\ \A c \in Caller : CallSane(c)

-----------------------------------------------------------------------------
(* The sleep is between nothing and one interval, and only a call that has *)
(* to wait sleeps at all.                                                  *)
LEMMA SleepBounds ==
  ASSUME TypeOK, NEW c \in Caller
  PROVE  /\ Elapsed(c) \in Nat
         /\ SleepFor(c) \in Int
         /\ SleepFor(c) <= Interval
         /\ ~Free(c) => SleepFor(c) \in Nat \ {0}
  BY IntervalAssumption DEF TypeOK, Elapsed, SleepFor, Free

LEMMA InitSane == Init => Sane
  BY IntervalAssumption, ClockAssumption DEF Init, Sane, TypeOK, Reach, CallSane

LEMMA StepSane == Sane /\ [Next]_vars => Sane'
<1> SUFFICES ASSUME Sane, [Next]_vars PROVE Sane'
  OBVIOUS
<1> USE IntervalAssumption, ClockAssumption DEF Sane, TypeOK, Reach, CallSane
<1>1. ASSUME NEW c \in Caller, Enter(c) PROVE Sane'
  BY <1>1 DEF Enter
<1>2. ASSUME NEW c \in Caller, Load(c) PROVE Sane'
  BY <1>2 DEF Load, history
<1>3. ASSUME NEW c \in Caller, GrantNow(c) PROVE Sane'
  <2>1. now[c] \in Nat /\ now[c] <= clock
    OBVIOUS
  <2>2. grants' \in Seq(Nat)
    BY <1>3, <2>1 DEF GrantNow
  <2> QED
    BY <1>3, <2>1, <2>2 DEF GrantNow
<1>4. ASSUME NEW c \in Caller, GrantLater(c) PROVE Sane'
  <2>1. SleepFor(c) \in Nat /\ SleepFor(c) <= Interval
    BY <1>4, SleepBounds DEF GrantLater
  <2>2. /\ now[c] + SleepFor(c) \in Nat
        /\ now[c] + SleepFor(c) <= clock + Interval
        /\ clock + SleepFor(c) \in Nat
        /\ clock + SleepFor(c) <= clock + Interval
    BY <2>1
  <2>3. grants' \in Seq(Nat)
    BY <1>4, <2>2 DEF GrantLater
  <2> HIDE DEF SleepFor
  <2> QED
    BY <1>4, <2>2, <2>3 DEF GrantLater
<1>5. ASSUME NEW c \in Caller, Retry(c) PROVE Sane'
  BY <1>5 DEF Retry, history
<1>6. ASSUME NEW c \in Caller, WakeUp(c) PROVE Sane'
  BY <1>6 DEF WakeUp, history
<1>7. CASE Tick
  BY <1>7 DEF Tick, call, history
<1>8. CASE UNCHANGED vars
  BY <1>8 DEF vars, call, history
<1> QED
  BY <1>1, <1>2, <1>3, <1>4, <1>5, <1>6, <1>7, <1>8 DEF Next

LEMMA SaneInvariant == Spec => []Sane
  BY InitSane, StepSane, PTL DEF Spec

(* The limiter's state keeps its type.                                     *)
THEOREM LimiterTypes == Spec => []TypeOK
<1>1. Sane => TypeOK
  BY DEF Sane
<1> QED
  BY <1>1, SaneInvariant, PTL

(* wait() never sleeps longer than min_interval, whoever else waits.       *)
THEOREM SleepIsBounded == Spec => []SleepsAtMostOneInterval
<1>1. Sane => SleepsAtMostOneInterval
  BY DEF Sane, Reach, CallSane, SleepsAtMostOneInterval
<1> QED
  BY <1>1, SaneInvariant, PTL

-----------------------------------------------------------------------------
(* While no two calls have overlapped, at most one is under way, the last  *)
(* grant bounds all of them, and by the time the next call reads the clock *)
(* that grant is past.                                                     *)
OneAtATime == \A c, d \in Caller : pc[c] # "idle" /\ pc[d] # "idle" => c = d

LastIsTheLatest == \A n \in DOMAIN grants : grants[n] <= last_granted

LastIsPast == (\A c \in Caller : pc[c] = "idle") => last_granted <= clock

Reading(c) ==
  /\ pc[c] \in {"loading", "exchanging"} =>
       /\ 0 < now[c]
       /\ last_granted <= now[c]
  /\ pc[c] = "exchanging" => seen[c] = last_granted
  /\ pc[c] = "sleeping" => last_granted <= until[c]

Marked == (last_granted = 0) <=> (grants = <<>>)

Sequential ==
  /\ OneAtATime
  /\ LastIsTheLatest
  /\ LastIsPast
  /\ Marked
  /\ MinInterval
  /\ \A c \in Caller : Reading(c)

Paced == /\ Sane
         /\ 0 < clock
         /\ sequential => Sequential

(* A grant an interval after the last one keeps them all apart.            *)
LEMMA AppendApart ==
  ASSUME grants \in Seq(Nat), last_granted \in Nat, LastIsTheLatest, MinInterval,
         NEW g \in Nat, grants = <<>> \/ g >= last_granted + Interval,
         grants' = Append(grants, g)
  PROVE  /\ MinInterval'
         /\ \A n \in DOMAIN grants' : grants'[n] <= g
         /\ grants' # <<>>
<1> USE IntervalAssumption
<1>1. /\ DOMAIN grants' = 1..(Len(grants) + 1)
      /\ DOMAIN grants = 1..Len(grants)
      /\ Len(grants) \in Nat
      /\ grants'[Len(grants) + 1] = g
      /\ \A n \in DOMAIN grants : grants'[n] = grants[n] /\ grants[n] \in Nat
  OBVIOUS
<1>2. \A n \in DOMAIN grants : g >= grants[n] + Interval
  BY <1>1 DEF LastIsTheLatest
<1>3. ASSUME NEW m \in DOMAIN grants', NEW n \in DOMAIN grants', m # n
      PROVE  Apart(grants[m], grants[n])'
  <2>1. CASE m \in DOMAIN grants /\ n \in DOMAIN grants
    BY <1>1, <1>3, <2>1 DEF MinInterval, Apart
  <2>2. CASE m \in DOMAIN grants /\ n = Len(grants) + 1
    BY <1>1, <1>2, <2>2 DEF Apart
  <2>3. CASE m = Len(grants) + 1 /\ n \in DOMAIN grants
    BY <1>1, <1>2, <2>3 DEF Apart
  <2> QED
    BY <1>1, <1>3, <2>1, <2>2, <2>3
<1>4. MinInterval'
  BY <1>3 DEF MinInterval
<1>5. \A n \in DOMAIN grants' : grants'[n] <= g
  BY <1>1, <1>2
<1>6. grants' # <<>>
  BY <1>1
<1> QED
  BY <1>4, <1>5, <1>6

LEMMA InitPaced == ASSUME Start > 0 PROVE Init => Paced
<1> SUFFICES ASSUME Init PROVE Paced
  OBVIOUS
<1>1. Sane
  BY InitSane
<1>2. Sequential
  BY ClockAssumption DEF Init, Sequential, OneAtATime, LastIsTheLatest, LastIsPast,
     Marked, MinInterval, Reading
<1> QED
  BY <1>1, <1>2, ClockAssumption DEF Init, Paced

LEMMA StepPaced == Paced /\ [Next]_vars => Paced'
<1> SUFFICES ASSUME Paced, [Next]_vars PROVE Paced'
  OBVIOUS
<1> USE IntervalAssumption, ClockAssumption
<1>s. Sane /\ Sane' /\ TypeOK /\ TypeOK'
  BY StepSane DEF Paced, Sane
<1>c. 0 < clock'
  BY <1>s DEF Paced, TypeOK, Next, vars, call, history, Enter, Load, GrantNow,
     GrantLater, Retry, WakeUp, Tick
<1>q. sequential' => sequential
  BY <1>s DEF TypeOK, Next, vars, call, history, Enter, Load, GrantNow,
     GrantLater, Retry, WakeUp, Tick
<1> SUFFICES ASSUME sequential' PROVE Sequential'
  BY <1>s, <1>c DEF Paced
<1>0. Sequential
  BY <1>q DEF Paced
<1> USE <1>0, <1>s
<1>1. ASSUME NEW c \in Caller, Enter(c) PROVE Sequential'
  <2>1. \A d \in Caller : pc[d] = "idle"
    BY <1>1 DEF Enter
  <2>2. last_granted <= clock /\ 0 < clock
    BY <2>1 DEF Sequential, LastIsPast, Paced
  <2>3. \A d \in Caller : d # c => pc'[d] = "idle"
    BY <1>1, <2>1 DEF Enter, TypeOK
  <2>4. pc'[c] = "loading" /\ now'[c] = clock
    BY <1>1 DEF Enter, TypeOK
  <2>5. OneAtATime' /\ LastIsPast'
    BY <2>3, <2>4 DEF OneAtATime, LastIsPast
  <2>6. \A d \in Caller : Reading(d)'
    BY <1>1, <2>2, <2>3, <2>4 DEF Enter, Reading
  <2>7. LastIsTheLatest' /\ Marked' /\ MinInterval'
    BY <1>1 DEF Enter, Sequential, LastIsTheLatest, Marked, MinInterval, Apart
  <2> QED
    BY <2>5, <2>6, <2>7 DEF Sequential
<1>2. ASSUME NEW c \in Caller, Load(c) PROVE Sequential'
  BY <1>2 DEF Load, history, TypeOK, Sequential, OneAtATime, LastIsTheLatest,
     LastIsPast, Marked, MinInterval, Apart, Reading
<1>3. ASSUME NEW c \in Caller, GrantNow(c) PROVE Sequential'
  <2>1. /\ now[c] \in Nat /\ 0 < now[c] /\ now[c] <= clock
        /\ seen[c] = last_granted /\ last_granted <= now[c]
    BY <1>3 DEF GrantNow, Sequential, Reading, Sane, CallSane, TypeOK
  <2>2. grants = <<>> \/ now[c] >= last_granted + Interval
    BY <1>3, <2>1 DEF GrantNow, Free, Elapsed, Sequential, Marked, TypeOK
  <2>3. /\ MinInterval'
        /\ \A n \in DOMAIN grants' : grants'[n] <= now[c]
        /\ grants' # <<>>
    <3>1. grants' = Append(grants, now[c])
      BY <1>3 DEF GrantNow
    <3> QED
      BY <2>1, <2>2, <3>1, AppendApart DEF Sequential, TypeOK
  <2>4. \A d \in Caller : pc'[d] = "idle"
    BY <1>3 DEF GrantNow, Sequential, OneAtATime, TypeOK
  <2>5. last_granted' = now[c] /\ clock' = clock
    BY <1>3 DEF GrantNow
  <2> QED
    BY <2>1, <2>3, <2>4, <2>5
       DEF Sequential, OneAtATime, LastIsTheLatest, LastIsPast, Marked, Reading
<1>4. ASSUME NEW c \in Caller, GrantLater(c) PROVE Sequential'
  <2>1. /\ now[c] \in Nat /\ 0 < now[c] /\ now[c] <= clock /\ clock \in Nat
        /\ seen[c] = last_granted /\ last_granted <= now[c] /\ last_granted \in Nat
    BY <1>4 DEF GrantLater, Sequential, Reading, Sane, CallSane, TypeOK
  <2>2. last_granted # 0
    BY <1>4, <2>1 DEF GrantLater, Free
  <2>3. SleepFor(c) = Interval - (now[c] - last_granted)
    BY <2>1 DEF SleepFor, Elapsed
  <2> DEFINE g == now[c] + SleepFor(c)
  <2>4. g \in Nat /\ g = last_granted + Interval /\ g <= clock + SleepFor(c)
    BY <2>1, <2>3
  <2>5. /\ MinInterval'
        /\ \A n \in DOMAIN grants' : grants'[n] <= g
        /\ grants' # <<>>
    <3>1. grants' = Append(grants, g)
      BY <1>4 DEF GrantLater
    <3>2. g >= last_granted + Interval
      BY <2>1, <2>4
    <3> QED
      BY <2>1, <2>4, <3>1, <3>2, AppendApart DEF Sequential, TypeOK
  <2>6. \A d \in Caller : d # c => pc'[d] = "idle"
    BY <1>4 DEF GrantLater, Sequential, OneAtATime, TypeOK
  <2>7. /\ pc'[c] = "sleeping" /\ until'[c] = clock + SleepFor(c)
        /\ last_granted' = g
    BY <1>4 DEF GrantLater, TypeOK
  <2>8. OneAtATime' /\ LastIsPast'
    BY <2>6, <2>7 DEF OneAtATime, LastIsPast
  <2>9. \A d \in Caller : Reading(d)'
    BY <2>4, <2>6, <2>7 DEF Reading
  <2>10. LastIsTheLatest' /\ Marked'
    BY <2>1, <2>4, <2>5, <2>7 DEF LastIsTheLatest, Marked
  <2> QED
    BY <2>5, <2>8, <2>9, <2>10 DEF Sequential
<1>5. ASSUME NEW c \in Caller, Retry(c) PROVE Sequential'
  BY <1>5 DEF Retry, Sequential, Reading
<1>6. ASSUME NEW c \in Caller, WakeUp(c) PROVE Sequential'
  <2>1. last_granted <= clock
    BY <1>6 DEF WakeUp, Sequential, Reading, TypeOK
  <2>2. \A d \in Caller : pc'[d] = "idle"
    BY <1>6 DEF WakeUp, Sequential, OneAtATime, TypeOK
  <2> QED
    BY <1>6, <2>1, <2>2 DEF WakeUp, history, Sequential, OneAtATime, LastIsTheLatest,
       LastIsPast, Marked, MinInterval, Apart, Reading
<1>7. CASE Tick
  BY <1>7 DEF Tick, call, history, TypeOK, Sequential, OneAtATime, LastIsTheLatest,
     LastIsPast, Marked, MinInterval, Apart, Reading
<1>8. CASE UNCHANGED vars
  BY <1>8 DEF vars, call, history, Sequential, OneAtATime, LastIsTheLatest,
     LastIsPast, Marked, MinInterval, Apart, Reading
<1> QED
  BY <1>1, <1>2, <1>3, <1>4, <1>5, <1>6, <1>7, <1>8 DEF Next

(* Calls that never overlap are granted at least min_interval apart.       *)
THEOREM SequentialCallsArePaced ==
  ASSUME Start > 0 PROVE Spec => []SequentialCallsKeepTheInterval
<1>1. Paced => SequentialCallsKeepTheInterval
  BY DEF Paced, Sequential, SequentialCallsKeepTheInterval
<1>2. Init => Paced
  BY InitPaced
<1> QED
  BY <1>1, <1>2, StepPaced, PTL DEF Spec
=============================================================================
