------------------------------ MODULE Deadlines ------------------------------
(***************************************************************************)
(* What the timer package of iperf promises (timer.h): a set of timers,    *)
(* each with a deadline, of which one is called only while it is set and   *)
(* only once its deadline is over, and is then set again, a period later,  *)
(* or no more.                                                             *)
(***************************************************************************)
EXTENDS Integers

CONSTANT Slots   \* the timers a test may have

VARIABLES
  clock,      \* microseconds since the start
  deadline,   \* per timer its deadline, or -1 while it is not set
  period,     \* per timer its period, or 0 for a one-shot
  called      \* the timer whose TimerProc the last step called, or "none"

dvars == <<clock, deadline, period, called>>

DInit ==
  /\ clock = 0 /\ called = "none"
  /\ deadline = [s \in Slots |-> -1] /\ period = [s \in Slots |-> 0]

Elapse == clock' = clock + 1 /\ UNCHANGED <<deadline, period, called>>

\* tmr_create and tmr_cancel, of any timers.
Set ==
  /\ called' = "none" /\ UNCHANGED clock
  /\ \A s \in Slots : deadline'[s] \in {deadline[s], -1} \/ deadline'[s] >= clock

\* The proc of s, which may cancel other timers or put off their deadlines
\* (tmr_reset), but calls none and sets none that was not set.
Call(s) ==
  /\ deadline[s] \in 0 .. clock
  /\ called' = s /\ UNCHANGED clock
  /\ deadline'[s] = IF period[s] = 0 THEN -1 ELSE deadline[s] + period[s]
  /\ \A o \in Slots \ {s} :
       \/ deadline'[o] \in {deadline[o], -1}
       \/ deadline[o] # -1 /\ deadline'[o] > deadline[o]

DNext == Elapse \/ Set \/ \E s \in Slots : Call(s)

DSpec == DInit /\ [][DNext]_dvars
==============================================================================
