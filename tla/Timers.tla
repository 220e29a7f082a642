------------------------------- MODULE Timers -------------------------------
(***************************************************************************)
(* The timer package of iperf (timer.c), cell by cell, under the timers of *)
(* the tests that one process runs one after the other, as a client or as  *)
(* a server: the end of the test, the end of the omitted seconds, the      *)
(* statistics, the reports and one pacing timer per sending stream.  Each  *)
(* iteration of tmr_run's loop is one step; time passes at any step.       *)
(***************************************************************************)
EXTENDS IperfTime, FiniteSets, SequencesExt

CONSTANTS
  Streams,       \* names of the streams' send timers
  Tests,         \* the tests that may be run: see TestType
  grace_period,  \* seconds a server waits beyond the end of a test (40)
  pacing_timer,  \* microseconds between two looks at a stream's rate
  Cells,         \* bound: Timer structures malloc can give
  MaxClock,      \* bound: microseconds
  MaxTests       \* bound: tests of one process

Slots == {"timer", "omit", "stats", "reporter"} \cup Streams
NULL  == 0
Cell  == 1 .. Cells

\* role, seconds to run and to omit, microseconds between statistics and
\* between reports, the streams that send at a limited rate.
TestType ==
  [server : BOOLEAN, duration : Nat, omit : Nat, stats : Nat, reporter : Nat,
   paced : SUBSET Streams]

NoTest == [server |-> FALSE, duration |-> 0, omit |-> 0, stats |-> 0, reporter |-> 0,
           paced |-> {}]

ASSUME TestsAssumption == Tests \subseteq TestType

VARIABLES
  mem,     \* the package: its two lists and its Timer structures
  slot,    \* the test's Timer pointers
  test,    \* the test that runs
  done, omitting,
  pc,      \* "none": no test, "failed", "loop": its main loop, "run": tmr_run
  t, now,  \* tmr_run's timer and the time it was given
  clock,   \* microseconds
  called,  \* the timer whose proc the last step called, or "none"
  tests    \* tests run so far

vars == <<mem, slot, test, done, omitting, pc, t, now, clock, called, tests>>

Blank == [next |-> NULL, prev |-> NULL, time |-> iperf_time_now(0),
          usecs |-> 0, periodic |-> FALSE, proc |-> "none"]

Init ==
  /\ mem = [timers |-> NULL, free |-> NULL, brk |-> 0, cell |-> [c \in Cell |-> Blank]]
  /\ slot = [s \in Slots |-> NULL]
  /\ test = NoTest
  /\ done = FALSE /\ omitting = FALSE
  /\ pc = "none" /\ t = NULL /\ now = iperf_time_now(0)
  /\ clock = 0 /\ called = "none" /\ tests = 0

-----------------------------------------------------------------------------
(* The lists.                                                              *)

Before(m, a, b) == iperf_time_compare(m.cell[a].time, m.cell[b].time) < 0

\* The cells from c on, following next.
Chain(m, c) ==
  LET walk[k \in 0 .. Cells] ==
        IF k = 0 THEN <<c>>
        ELSE LET s == walk[k - 1]
             IN  IF Last(s) = NULL THEN s ELSE Append(s, m.cell[Last(s)].next)
  IN  SelectSeq(walk[Cells], LAMBDA x : x # NULL)

\* The next and prev pointers beside a cell; the head is the next of no cell.
SetNext(m, c, n) ==
  IF c = NULL THEN [m EXCEPT !.timers = n] ELSE [m EXCEPT !.cell[c].next = n]
SetPrev(m, c, p) == IF c = NULL THEN m ELSE [m EXCEPT !.cell[c].prev = p]

\* The cell that x goes behind: the walk stops at the first later timer.
Behind(m, x) ==
  LET chain == Chain(m, m.timers)
      later == {i \in DOMAIN chain : Before(m, x, chain[i])}
      i     == IF later = {} THEN Len(chain) + 1 ELSE Min(later)
  IN  IF i = 1 THEN NULL ELSE chain[i - 1]

list_add(m, x) ==
  LET p == Behind(m, x)
      q == IF p = NULL THEN m.timers ELSE m.cell[p].next
  IN  SetPrev(SetNext([m EXCEPT !.cell[x].prev = p, !.cell[x].next = q], p, x), q, x)

list_remove(m, x) ==
  LET c == m.cell[x] IN SetPrev(SetNext(m, c.prev, c.next), c.next, c.prev)

\* Mutant: the timer is taken out and not put back.
list_resort_Lost(m, x) == list_remove(m, x)

list_resort(m, x) == list_add(list_remove(m, x), x)

-----------------------------------------------------------------------------
(* The calls of timer.h.                                                   *)

\* malloc fails where the caller says so, if a cell must come from it.
CanCreate(m, fails) == m.free # NULL \/ (~fails /\ m.brk < Cells)

tmr_create(m, at, s, usecs, periodic) ==
  LET x     == IF m.free # NULL THEN m.free ELSE m.brk + 1
      taken == IF m.free # NULL THEN [m EXCEPT !.free = m.cell[x].next]
                                ELSE [m EXCEPT !.brk = x]
      timer == [Blank EXCEPT !.usecs = usecs, !.periodic = periodic, !.proc = s,
                             !.time = iperf_time_add_usecs(at, usecs)]
  IN  [mem |-> list_add([taken EXCEPT !.cell[x] = timer], x), t |-> x]

\* Microseconds until the first timer, or -1 (a null pointer) without one.
tmr_timeout(m, at) ==
  LET d == iperf_time_diff(m.cell[m.timers].time, at)
  IN  IF m.timers = NULL THEN -1
      ELSE IF d.past THEN 0 ELSE iperf_time_in_usecs(d.diff)

tmr_reset(m, at, x) ==
  list_resort([m EXCEPT !.cell[x].time = iperf_time_add_usecs(at, m.cell[x].usecs)], x)

tmr_cancel(m, x) ==
  [list_remove(m, x) EXCEPT !.free = x, !.cell[x].next = m.free, !.cell[x].prev = NULL]

ResetAll(m, at, S) ==
  FoldLeft(LAMBDA acc, s : IF slot[s] = NULL THEN acc ELSE tmr_reset(acc, at, slot[s]), m, S)
CancelAll(m, S) ==
  FoldLeft(LAMBDA acc, s : IF slot[s] = NULL THEN acc ELSE tmr_cancel(acc, slot[s]), m, S)

StreamList == SetToSeq(Streams)
Cleared(S) == [s \in Slots |-> IF s \in S THEN NULL ELSE slot[s]]

-----------------------------------------------------------------------------
(* A test's use of them.                                                   *)

\* The timers of test c that are asked for, in the order they are created:
\* of no microseconds, none.
Ask(s, n, p) == IF n = 0 THEN <<>> ELSE <<[s |-> s, n |-> n, p |-> p]>>

StatsTimers(c) == Ask("stats", c.stats, TRUE) \o Ask("reporter", c.reporter, TRUE)

create_client_timers(c) ==
  Ask("timer", IF c.duration = 0 THEN 0 ELSE (c.duration + c.omit) * Usecs, FALSE)
  \o StatsTimers(c)

create_server_timers(c) ==
  Ask("timer", IF c.duration = 0 THEN 0 ELSE (c.duration + c.omit + grace_period) * Usecs, FALSE)
  \o StatsTimers(c)

create_client_omit_timer(c) == Ask("omit", c.omit * Usecs, FALSE)
create_server_omit_timer(c) == create_client_omit_timer(c)

iperf_create_send_timers(c) ==
  FlattenSeq([i \in DOMAIN StreamList |->
    Ask(StreamList[i], IF StreamList[i] \in c.paced THEN pacing_timer ELSE 0, TRUE)])

Wanted(c) ==
  IF c.server
  THEN create_server_timers(c) \o create_server_omit_timer(c) \o iperf_create_send_timers(c)
  ELSE create_client_timers(c) \o create_client_omit_timer(c) \o iperf_create_send_timers(c)

\* TEST_START: the timers are created up to the one malloc has no room for;
\* then the test is given up, and the ones created are cancelled by End.
\* A test with a duration is not done when its timers are created.  (After
\* a failure, omitting is not read again.)
CreateTimers(c, fails) ==
  LET at   == iperf_time_now(clock)
      want == Wanted(c)
      step(acc, i) ==
        IF ~acc.ok \/ ~CanCreate(acc.mem, i = fails) THEN [acc EXCEPT !.ok = FALSE]
        ELSE LET w == want[i]
                 r == tmr_create(acc.mem, at, w.s, w.n, w.p)
             IN  [acc EXCEPT !.mem = r.mem, !.slot[w.s] = r.t]
  IN  FoldLeft(step, [mem |-> mem, slot |-> slot, ok |-> TRUE], [i \in DOMAIN want |-> i])

Start ==
  /\ pc = "none" /\ tests < MaxTests
  /\ \E c \in Tests, fails \in 0 .. Cardinality(Slots) :
       LET r == CreateTimers(c, fails)
       IN  /\ mem' = r.mem /\ slot' = r.slot
           /\ pc' = IF r.ok THEN "loop" ELSE "failed"
           /\ test' = c
           /\ omitting' = (c.omit # 0)
  /\ done' = FALSE /\ tests' = tests + 1 /\ called' = "none"
  /\ UNCHANGED <<t, now, clock>>

\* The client runs the timers in every iteration of its loop until the end
\* of the test takes it out of TEST_RUNNING; the server runs them when
\* select timed out, or would have had no time to wait.
RunsTimers ==
  IF test.server THEN tmr_timeout(mem, iperf_time_now(clock)) = 0
                 ELSE ~(done /\ ~omitting)

tmr_run ==
  /\ pc = "loop"
  /\ RunsTimers
  /\ pc' = "run" /\ t' = mem.timers
  /\ now' = iperf_time_now(clock) /\ called' = "none"
  /\ UNCHANGED <<mem, slot, test, done, omitting, clock, tests>>

\* What a proc does: those of the statistics, the reports and the pacing
\* change no timer.  The server's end of a test that is not over yet frees
\* the streams, and their timers with them.
Quiet == [mem |-> mem, slot |-> slot, done |-> done, omitting |-> omitting]

test_timer_proc == [Quiet EXCEPT !.slot = Cleared({"timer"}), !.done = TRUE]

server_timer_proc ==
  IF done THEN [Quiet EXCEPT !.slot = Cleared({"timer"})]
  ELSE [Quiet EXCEPT !.slot = Cleared({"timer"} \cup Streams), !.done = TRUE,
                     !.mem = CancelAll(mem, StreamList)]

\* Mutant: the pointer to the omit timer is kept when it has run.
client_omit_timer_proc_Kept ==
  [Quiet EXCEPT !.omitting = FALSE, !.mem = ResetAll(mem, now, <<"stats", "reporter">>)]

client_omit_timer_proc ==
  [Quiet EXCEPT !.slot = Cleared({"omit"}), !.omitting = FALSE,
                !.mem = ResetAll(mem, now, <<"stats", "reporter">>)]
server_omit_timer_proc == client_omit_timer_proc

Proc(s) ==
  CASE s = "timer" -> IF test.server THEN server_timer_proc ELSE test_timer_proc
    [] s = "omit"  -> IF test.server THEN server_omit_timer_proc ELSE client_omit_timer_proc
    [] OTHER       -> Quiet

\* Mutant: the period is added to the time the timer ran at.
Reschedule_Drift(m, x) ==
  list_resort([m EXCEPT !.cell[x].time = iperf_time_add_usecs(now, m.cell[x].usecs)], x)

Reschedule(m, x) ==
  list_resort([m EXCEPT !.cell[x].time = iperf_time_add_usecs(@, m.cell[x].usecs)], x)

\* One iteration of tmr_run's loop.  The next timer is read before the proc
\* is called, and not looked at again.
tmr_run_step ==
  /\ pc = "run" /\ t # NULL
  /\ iperf_time_compare(mem.cell[t].time, now) <= 0
  /\ LET s == mem.cell[t].proc
         r == Proc(s)
     IN  /\ t' = mem.cell[t].next
         /\ mem' = IF r.mem.cell[t].periodic THEN Reschedule(r.mem, t) ELSE tmr_cancel(r.mem, t)
         /\ slot' = r.slot /\ done' = r.done /\ omitting' = r.omitting
         /\ called' = s
  /\ UNCHANGED <<pc, test, now, clock, tests>>

tmr_run_end ==
  /\ pc = "run"
  /\ t # NULL => iperf_time_compare(mem.cell[t].time, now) > 0
  /\ pc' = "loop" /\ t' = NULL /\ called' = "none"
  /\ UNCHANGED <<mem, slot, test, done, omitting, now, clock, tests>>

\* The test is over before its timer says so: the client has sent all it was
\* to send; the server got TEST_END, and still runs the timers.
TestEnd ==
  /\ pc = "loop" /\ ~done
  /\ test.server \/ ~omitting
  /\ done' = TRUE /\ called' = "none"
  /\ UNCHANGED <<mem, slot, test, omitting, pc, t, now, clock, tests>>

\* iperf_free_test, and cleanup_server with iperf_reset_test: at the end of
\* the test, and at any error or interrupt before it.
End ==
  /\ pc \in {"loop", "failed"}
  /\ mem' = CancelAll(mem, IF test.server
                           THEN <<"stats", "reporter", "omit", "timer">> \o StreamList
                           ELSE StreamList \o <<"omit", "timer", "stats", "reporter">>)
  /\ slot' = Cleared(Slots)
  /\ pc' = "none" /\ done' = FALSE /\ called' = "none"
  /\ test' = NoTest /\ omitting' = FALSE /\ now' = iperf_time_now(0)
  /\ UNCHANGED <<t, clock, tests>>

Tick ==
  /\ clock < MaxClock
  /\ clock' = clock + 1
  /\ UNCHANGED <<mem, slot, test, done, omitting, pc, t, now, called, tests>>

Next == Start \/ tmr_run \/ tmr_run_step \/ tmr_run_end \/ TestEnd \/ End \/ Tick

Spec == Init /\ [][Next]_vars

\* The main loop goes on and tmr_run returns: weak fairness of the three
\* actions, with the condition that enables one of them written out.
FairSpec ==
  /\ Spec
  /\ \/ []<>~(pc = "run" \/ (pc = "loop" /\ RunsTimers))
     \/ []<><<tmr_run \/ tmr_run_step \/ tmr_run_end>>_vars

-----------------------------------------------------------------------------
Active == Chain(mem, mem.timers)
Free   == Chain(mem, mem.free)

TypeOK ==
  /\ mem.timers \in 0 .. Cells /\ mem.free \in 0 .. Cells /\ mem.brk \in 0 .. Cells
  /\ \A c \in Cell : /\ mem.cell[c].next \in 0 .. Cells /\ mem.cell[c].prev \in 0 .. Cells
                     /\ mem.cell[c].time \in Time
                     /\ mem.cell[c].proc \in Slots \cup {"none"}
  /\ slot \in [Slots -> 0 .. Cells] /\ test \in Tests \cup {NoTest}
  /\ pc \in {"none", "failed", "loop", "run"} /\ t \in 0 .. Cells
  /\ now \in Time /\ clock \in 0 .. MaxClock

\* Every Timer structure malloc gave is on exactly one of the two lists, and
\* the list tmr_run and tmr_timeout trust to be sorted is sorted, whatever
\* the procs insert and remove while tmr_run walks it.  The test's Timer
\* pointers are exactly the active timers: none points at a structure that has
\* gone back to the free list (a later tmr_cancel or tmr_reset through it would
\* hit another timer), and no timer outlives the test that set it.
ListsWhole ==
  /\ TypeOK
  /\ IsInjective(Active \o Free)
  /\ ToSet(Active \o Free) = 1 .. mem.brk
  /\ \A i \in DOMAIN Active :
       /\ mem.cell[Active[i]].prev = IF i = 1 THEN NULL ELSE Active[i - 1]
       /\ i > 1 => ~Before(mem, Active[i], Active[i - 1])
  /\ {slot[s] : s \in Slots} \ {NULL} = ToSet(Active)
  /\ \A s \in Slots : slot[s] # NULL => mem.cell[slot[s]].proc = s

\* select is given the time left until the earliest deadline: less would
\* spin, more would run a timer late.
TimeoutExact ==
  LET due == {iperf_time_in_usecs(mem.cell[c].time) : c \in ToSet(Active)}
  IN  tmr_timeout(mem, iperf_time_now(clock)) =
        IF due = {} THEN -1 ELSE Max({0, Min(due) - clock})

\* The package is a set of deadlines: tmr_run calls a proc only for a timer
\* that is set and due, once per period and without drift.
DeadlineOf(s) == IF slot[s] = NULL THEN -1 ELSE iperf_time_in_usecs(mem.cell[slot[s]].time)
PeriodOf(s)   == IF slot[s] # NULL /\ mem.cell[slot[s]].periodic THEN mem.cell[slot[s]].usecs ELSE 0
D == INSTANCE Deadlines WITH deadline <- [s \in Slots |-> DeadlineOf(s)],
                             period   <- [s \in Slots |-> PeriodOf(s)]
ImplementsDeadlines == D!DSpec

\* A timer that is due is called, put off by the end of the omitted seconds,
\* or cancelled: a proc that rearranges the list may make tmr_run stop
\* early, but then the timer is not forgotten.  (The client stops running
\* timers when its test is done.)
Overdue(s) == DeadlineOf(s) \in 0 .. clock /\ pc \in {"loop", "run"}
DueTimersRun ==
  \A s \in Slots : Overdue(s) ~> (~Overdue(s) \/ (done /\ ~test.server))
==============================================================================
