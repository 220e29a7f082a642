------------------------------ MODULE IperfTime ------------------------------
(***************************************************************************)
(* struct iperf_time and its arithmetic (iperf_time.c): seconds and        *)
(* microseconds, kept apart.                                               *)
(***************************************************************************)
EXTENDS Integers

CONSTANT Usecs   \* microseconds of a second (1000000)

ASSUME UsecsAssumption == Usecs \in Nat \ {0}

Time == [secs : Nat, usecs : 0 .. Usecs - 1]

\* iperf_time_now: what the clock shows n microseconds after it started.
iperf_time_now(n) == [secs |-> n \div Usecs, usecs |-> n % Usecs]

iperf_time_add_usecs(t, n) ==
  LET u == t.usecs + (n % Usecs)
  IN  [secs |-> t.secs + (n \div Usecs) + (u \div Usecs), usecs |-> u % Usecs]

iperf_time_in_usecs(t) == t.secs * Usecs + t.usecs

\* -1, 0 or 1: t1 is earlier than, equal to or later than t2.
iperf_time_compare(t1, t2) ==
  IF t1.secs < t2.secs THEN -1
  ELSE IF t1.secs > t2.secs THEN 1
  ELSE IF t1.usecs < t2.usecs THEN -1
  ELSE IF t1.usecs > t2.usecs THEN 1 ELSE 0

\* Mutant: no second is borrowed.
Minus_NoBorrow(later, earlier) ==
  [secs  |-> later.secs - earlier.secs,
   usecs |-> (later.usecs - earlier.usecs) % Usecs]

\* later - earlier, borrowing a second where the microseconds need it.
Minus(later, earlier) ==
  LET borrow == IF later.usecs < earlier.usecs THEN 1 ELSE 0
  IN  [secs  |-> later.secs - earlier.secs - borrow,
       usecs |-> later.usecs + borrow * Usecs - earlier.usecs]

\* The difference, always positive, and whether t1 is not later than t2.
iperf_time_diff(t1, t2) ==
  LET cmp == iperf_time_compare(t1, t2)
  IN  [past |-> cmp # 1, diff |-> IF cmp = 1 THEN Minus(t1, t2) ELSE Minus(t2, t1)]
==============================================================================
