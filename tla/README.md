# A TLA+ verification of mmWaveTracker

mmWaveTracker is an Android app that walks around with its user, samples the
state of the cellular radio a few times per second, logs the samples to CSV
files, and runs throughput tests with an embedded iperf3 while it does so.

## The system and its parts

| part | source | state | operations |
|---|---|---|---|
| trace logger | `Service/MonitoringService.java`, `activity/MapActivity.java`, `Service/TracerDialog.java` | the Start/Stop flag, the monitoring thread, the line buffer, the line counter, the part number, the CSV files, the summary file | Start, Stop, handle a report, sample, save the batch size |
| handoff detection | `data/Report.java`, `core/Device.java` | the static fields of `Device`, the values of the last sample | read the phone, classify a handoff |
| session summary | `data/SessionSummary.java` | handoff counters, last cell, time and percentage of 5G, run numbers | process a report, append a run number, end the session |
| iperf session | `UI/FragmentAppIperf.java`, `Service/IperfJniHandler.java`, `UI/IperfDialog.java`, `UI/IperfConfirmDialog.java` | the toggle, the shared `iperf3` object, the termination state, the count-down timers, the run number | toggle on and off, run, check status, end session |
| native wrapper | `iperfwrapperlib/.../Iperf3.java`, `test_run.c` | the handle `testRef` of the native test | new, run, end, free |
| configuration | `core/config.java` | the settings and run-number files | first start, load, increment and persist the run number |
| iperf client | `iperf/src/iperf_client_api.c` | the control-connection state, the streams, the timers | connect, handle message, run loop, end |
| iperf server | `iperf/src/iperf_server_api.c` | the same, and the listener | accept, handle message, run loop, cleanup |
| iperf core | `iperf/src/iperf_api.c` | the test object, its streams and their results | exchange parameters and results, add and free streams, reset |
| timers | `iperf/src/timer.c` | the sorted list of timers and the free list | create, run, reset, cancel, cleanup |
| UDP streams | `iperf/src/iperf_udp.c` | packet, loss and reordering counters | receive, send |
| JSON library | `iperf/src/cjson.c` | items, strings and the lists of items, in allocated memory | create, add, refer, insert, detach, replace, delete, duplicate, print, parse |
| sockets | `iperf/src/net.c` | file descriptors | dial, announce, read, write |
| UDP and RRC probes | `app/src/main/udprecvlib`, `app/src/main/rrclibcpp` | sockets and sequence numbers | probe, acknowledge |
| device and permissions | `core/Device.java`, `DisplayPhoneState.java`, the permission and device activities | flags read from Android | query, request |
| maps and screens | `UI/Fragment*.java` | widgets | draw |

The parts interact as follows. The Start/Stop item of `MapActivity` starts and
stops tracing in the bound `MonitoringService`. Its `MonitoringThread` samples
reports, posts each one to a handler on the main looper, which writes it to a
file, and feeds it to the `SessionSummary` of the session. `FragmentAppIperf`
runs a throughput test on a pool thread through `Iperf3`, and appends the number
of each finished run to the summary of the session that is current at that
moment. Below the wrapper the iperf client talks to a server over a control
connection, with its periodic work on one process-wide timer list. What the two
ends tell each other, parameters before a test and results after it, are JSON texts.
The UDP and RRC probes are native libraries of their own, with a socket each.

### What is hard about it

* Reports are posted by the monitoring thread and handled on the main thread, so
  a report can be handled after the Stop click that ended its session, and a
  Start click can be queued behind it.
* The field `report` is shared by every monitoring thread, and an exception in
  one iteration ends the thread while the menu item still shows "stop".
* File writes fail half way, and the handler swallows the exception.
* The batch size can be edited between sessions, while the chunk size keeps the
  value of class loading.
* Stop waits for the thread with `join()` on the main thread.
* iperf's termination state and test object are shared by overlapping runs.
* The phone changes its network between the reads of one sample, and other threads
  set the static fields that those reads go through.
* The iperf server serves one client while others connect, crash, reset their
  connections or leave late streams behind; it does so on one thread with blocking
  reads.
* The timer list is walked while callbacks change it.
* Two ends count the same data at different moments, number their streams by
  themselves, and leave out the first seconds at different times.
* The server keeps its settings object from one client to the next, and a message
  leaves out what is zero.
* Memory may run out in the middle of building or parsing a JSON object.
* The probes rely on datagrams that may be lost, doubled or late, and their socket
  is closed by another thread.

## The modules

| module | role |
|---|---|
| `TraceLog` | the trace logger: the main looper, the monitoring threads, the user, write errors |
| `TraceLogProofs` | its theorems |
| `Handoffs` | handoff detection and the counters of the summary, while the phone changes |
| `HandoffProofs` | its theorems |
| `IperfSession` | the app's throughput tests: toggle, pool threads, timers, the shared wrapper object |
| `IperfSessionProofs` | its theorems |
| `IperfControl` | the control protocol between iperf clients and the server |
| `TestService` | what the iperf server promises, without connections; `IperfControl` implements it |
| `IperfControlInvariant`, `IperfControlProofs` | the inductive invariant of the protocol and the steps that keep it; the rest of these, the theorems and the refinement |
| `Timers` | the timer package, structure by structure, under the timers of clients and servers |
| `IperfTime` | `struct iperf_time` and its arithmetic |
| `Deadlines` | what the timer package promises: a set of deadlines; `Timers` implements it |
| `StreamResults` | the data streams of a test, their counters, intervals, exchanged results and summaries |
| `StreamProofs` | its theorem |
| `Settings` | options, setters and defaults of a test, the parameter message, the reset of the server |
| `SettingsProofs` | its theorems |
| `Json` | cJSON down to its pointers, printing and parsing included |
| `JsonForest` | what cJSON promises: a forest of items; `Json` implements it |
| `Probes` | the UDP probe in both directions and the RRC probe, with the network between |
| `ProbeProofs` | its theorems |
| `MCTraceLog`, `MCHandoffs`, `MCIperfSession`, `MCIperfControl`, `MCTimers`, `MCStreamResults` | the modules TLC runs; `Settings`, `Json` and `Probes` are run as they are |

Two parts meet in more than one module. The Start/Stop item is detailed in
`TraceLog`; `IperfSession` has the same item reduced to what touches a running
test, and `Handoffs` to the start and end of a session. The summary is likewise
split: its entry is in `TraceLog`, its counters in `Handoffs`, its run numbers in
`IperfSession`. `IperfSession` treats a native test as something that runs until
it returns; `IperfControl` is what happens inside. `IperfControl` in turn treats the
parameters and the results as messages that belong to a client; what the parameters
do is `Settings`, what the results say is `StreamResults`, and how either becomes a
text and an object again is `Json`.

### TraceLog

The main looper is the sequence `queue` of reports, clicks and "Yes" answers; one
action handles the head of the queue completely, as a handler on the looper does.
Sessions are numbered in the order they start; the thread of session `s` is
thread `s`, and its k-th report is the line `<<s, k>>`, which is all that the
properties need of a report. A thread's `run()` is cut where another actor can
see or change what it uses: at the loop test, after the sample (which sets the
shared field), after `sendMessage`, and after the summary has processed the
report. The CSV header line is left out: `files[s][p]` holds report lines only.

`BufferLine`, `FlushBatch`, `FlushFails` and `BatchOfZero` are the four outcomes
of `handleMessage`. `StartBranch` is the start branch of the menu item together
with `StartTracing`. `StopWithoutTrace`, `StopTracing` and `StopTracingFails` are
the outcomes of the stop branch, and `JoinReturns` is the return from `join()`.
`Click`, `AnswerDialog`, `SaveTracerDialog`, `BecomeReady` and `DetectActivities`
are the user and the callbacks.

Two sessions that start within the same second would share a file name; the
model gives every session files of its own, so it does not cover that case.

### Handoffs

A sample of `NetworkInfoToReport` is cut where it reads the phone: the cell list
(`ReadCells`), the network service (`ReadService`), the service again when the
values for the next comparison are kept (`Classify`, with `Remember`), and once
more in the summary (`processNetworkReport`). `ChangeLink` and `Move` are the
phone and may happen between any two of these. `Device` caches what it reads in
static fields and keeps the old value on an unknown transport or a network older
than LTE, so `ReadElsewhere`, another thread's read, is an action too. `NonStandalone`
and `setHandoffType` have every branch of the code, but `setNrStatus` always
yields the empty string (its switch is commented out), so in this program only the
types 15 to 18 occur. An empty string is the value `Empty`; a service that was
never set is "null", and such a sample fails.

The histories `switches`, `moves`, `total` and `told` count what the phone did,
what the app counted over all sessions, and the changes between the reports of
one session that the app can be expected to count: those where the earlier report
was made while the phone did not change.

### IperfSession

Run `r` is the `r`-th `RunIperf` task; its wrapper object and native test have
the same number. Its background work is cut at each access to a shared field:
`Begin`, `SetRunning`, `Create`, `NewTest` or `NewTestFails`, `Launch`, and
`ClientReturns`. `RunPost`, `CheckPost`, `Tick`, `TimeOver` and `GraceOver` run on
the main thread, and `CheckFile` on the pool. `EndIperfSession` is the whole of
`endIperfSession`, the run-number append included. A null wrapper or a null
session is an exception that ends the app: `crashed`.

Two constants say what is assumed of the surroundings. `Patience` is how long the
user waits before the next tap: 0 not at all, 1 until no task is under way (or,
to interrupt, until the client is running), 2 for the grace period too. `Prompt` says that
the pool sets a run up before the first check of its log file is due.

### IperfControl and TestService

Connections are pairs of a client and a number (0 is the control connection).
Each carries two sequences of messages and the state of its two ends. The server
is one thread; the values of its `pc` other than "select" are blocking reads in a
handler. What a message carries is whose it is: a cookie, the parameters and the
results belong to a client. `EndRun` is what follows an end or an error on the
server: `cleanup_server`, `iperf_reset_test` and the return to `main.c`'s loop.
Reading the cookie of a stream that was closed leaves the buffer uninitialized in
`iperf_tcp_accept`, and the comparison may have either outcome.

The abstractions: tests over TCP; time is left out, so the server's timer may fire
whenever it is set and a client's test may be over at any moment while it runs;
a JSON object arrives whole or not at all; the listener is not re-created for
special socket options; the branch for `HAVE_TCP_CONGESTION`, which is undefined in
`iperf_config.h`, is left out. With `Processes` a client's connections close when
its run returns, as the command-line client's do; with `EndTests` another thread may call
`iperf_client_end`, as `Iperf3.endTest` does.

`TestService` has an owner, a phase, the set of clients whose results were
collected, and the outcome of each run. `Service` in `IperfControl` is the
refinement mapping.

### Timers, IperfTime and Deadlines

`mem` is the package: the head of the sorted list, the free list, and the `Timer`
structures with their `next` and `prev`. `slot` holds the pointers of the test
(`timer`, `omit_timer`, `stats_timer`, `reporter_timer`, and a `send_timer` per
stream). `Start` is the creation of all timers of a test, in the order of the code,
up to the one that gets no memory; `tmr_run` starts a walk of the list and
`tmr_run_step` is one iteration of it, with the whole proc; `End` cancels what is
left. Time passes at any step, so timers run late. A second has two microseconds,
which is enough for carries and borrows in `IperfTime`. `Deadlines` has a clock and a
deadline and a period per timer; the refinement mapping reads them through `slot`.

### StreamResults

Both ends make their list of streams (`iperf_create_streams`, the accepting branch of
`iperf_run_server`, `iperf_add_stream`), send and receive, run the statistics and
reporter timers, end the omitted seconds at a time of their own, exchange results and print.
A block of data counts one byte; rates, times and jitter are left out. Datagrams
under way (`net`) are doubled, received in any order, or never. An `int` has `IntBits` bits: beyond the last one `packet_count + 1` overflows, and the
comparison with the 64-bit counter may have either outcome.

### Settings

`test` and `server` are the two `struct iperf_test`. Each option of
`iperf_parse_arguments` is an action or a case of one, `Connect` is what follows the
last option, the parameter message carries the fields the code puts in it, and
`EndTest` is `iperf_reset_test` on the server. A number is unset, allowed, or beyond
its limit. A command line that is refused gives way to the next client.

### Json and JsonForest

Memory is a set of blocks, each free, an item or a string; an item has the fields of
`cJSON`. The callers do what the header allows: an item has one place, nothing is
changed while a reference shows it, and what is owned is deleted once. Any
allocation may find no block. `print_value` yields the text as a sequence of
characters, in both formats, and `cJSON_Parse` reads it, so that escapes, commas and
nesting are the code's. `Transfer` is `JSON_write` at one end and `JSON_read` at the
other. When a constructor fails, `cJSON_AddItemToObject` follows a null pointer:
`crashed`. `JsonForest` knows items with a sequence of items below, and no memory.

### Probes

`main`, `sender` and `receiver` say where `run_client` (or `client` of the RRC probe) and
its two threads are. Datagrams under way are sets, because the network reorders, and
`inbox` is the socket. Hello datagrams are shorter than a header, so that
reading one as a `Packet` throws. `Stop` is the button: `shutdown` and `close` from another
thread. The server is not in this repository; it answers as the client
expects it to. The RRC probe reads two packet counters, each at its own moment, and
other programs of the phone change them (`Background`).

## What TLC checks

| run | bounds | what it shows |
|---|---|---|
| `log` | 2 sessions with 4 and 3 samples, parts of 2 lines, 3 clicks, 1 failed write, 1 change of the batch size to 0 or 3, with fairness | no posted line of the current session is lost; without write errors every line is there exactly once, in order; Stop saves what was posted before it; the summary is at most one report behind; parts hold at most `MAX_LINES_PER_CHUNK` + 1 lines; `StopTracing` returns from `join()` |
| `handoffs` | 2 cells, 2 changes of the link, 2 of the cell, 2 sessions | no change is counted twice, changes between steady reports are counted, the counters cover each other |
| `iperf_session` | 2 runs, 2 sessions, a patient user, with fairness | no freed test is used, runs are recorded once and listed in the summary, no crash within a session, a run is forced to end only after its time; every run ends, and Stop stops it |
| `control` | 2 clients, 2 streams each, 1 interrupt, `endTest` | the safety of the protocol, that the sockets of a test that ran to its end are closed, and that it implements `TestService` |
| `control_live` | 2 clients, 1 stream, with fairness | the server becomes free again, and every client returns |
| `timers` | 2 tests, 1 sending stream, 5 structures, 6 microseconds of which 2 are a second, with fairness | both lists stay whole and sorted, no pointer to a timer is stale, `select` is given the exact time; the package implements `Deadlines`; a due timer runs |
| `results` | 7 kinds of test, 1 or 2 streams, up to 4 datagrams with 3-bit `int`s, 1 doubled, 1 statistics timer per side | streams are paired, losses counted right, intervals add up to the summary, both ends print the same |
| `settings` | 2 tests on one server, 3 options each besides the role | the server mirrors the client whoever came before, in the opposite mode; retransmissions are reported by whoever can |
| `json` | 6 blocks of memory, 5 calls, nesting 2 | every block has one owner, no pointer dangles, a failed parse frees all, what is printed parses again; the library implements `JsonForest` |
| `probes` | 2 packets, 2 copies of the end packet, 1 loss, 1 doubled datagram, 1 background packet, with fairness | which exceptions can occur, which datagram an acknowledgement is about, no RRC number twice; each probe ends under the stated losses, and by the button |

The type invariants of `TraceLog` and `Handoffs` are proved; those of the other modules
are the first conjunct of an invariant of their run.

The bounds were chosen so that each case of the code occurs. With a batch of two
lines, three samples give a flushed batch and a rest, and the fourth lies behind the
boundary of a part; a batch changed to three lets the counter and the buffer get out
of phase; two sessions let a late report meet the next session. Two changes of the link within a sample
and two sessions are enough to have a change before, between and after the reads
of a sample, and to compare across sessions. Two runs overlap; a third would only
repeat the second. Two clients are one that is served and one that competes, and
each may crash; two streams tell the last stream from the others. Five `Timer`
structures are one per timer of a test, so that the second test takes them from the
free list and `malloc` may fail for any of them; in six microseconds the omitted
second, the test and the grace period of a server end. An `int` of three bits ends at
3, which the fourth datagram passes. Three options are one more than the
pairs that exclude each other. Six blocks hold an object with a named string in it
and the beginning of a copy, and run out in every place of a constructor or parser. The cells and
the clients are interchangeable, and the safety runs use this symmetry.
`CHECK_DEADLOCK FALSE` stands where the bounds, or the user, let everything stop.

### Disagreements

Two runs end in a counterexample, each to a sentence in the source.

| run | the sentence | what happens |
|---|---|---|
| `log_dead_thread` | "save unsaved logs." (`MonitoringService.java:676`) | a failed sample has ended the thread, and Stop saves nothing |
| `timers_server` | "Deschedule a timer." (`timer.h:87`) | `tmr_run` reads `t->next` before it calls the proc (`timer.c:185`); the proc of the server's end-of-test timer frees the streams and cancels their pacing timers (`iperf_server_api.c:237`), and if one of them is next, its proc is called although it was descheduled |

The server cancels timers in a proc only if it sends at a limited rate, so `timers`
keeps to servers that receive, where `ImplementsDeadlines` holds.

The following were met while modelling. They are described here without a run; where a
property would be broken by one, its definition names the exception.

* The grace timer of one iperf run ends the next one, if the user starts it before
  the timer of the last has expired ("If the time is finished, ... forcefully close
  it", `FragmentAppIperf.java:307`; `Patience = 1`), and a run that overlaps the last
  uses a test that is freed ("The session is ended so call endIperfSession", `:672`;
  `Patience = 0`). `iperf_session` has a patient user.
* Stop writes the summary before the number of the run it ends is appended
  (`FragmentAppIperf.java:410`): `RunsRecordedOnce` excepts the last run.
* The streams of a server stay open when the client closes its control connection
  before the end ("Close open test sockets", `iperf_server_api.c:357`).
* A change of the technology between the two reads of a sample is not counted
  (`SessionSummary.java:505`), and LTE to standalone 5G with a new cell has no type.
  `SteadyChangesCount` is about samples whose two reads agreed.
* "Maximum number of lines in each file" (`MonitoringService.java:162`) is off by one,
  as `ChunkBound` says. "total number of primitive handoffs vh+hh handoffs"
  (`SessionSummary.java:503`) does not hold for type 18, which raises all three
  counters by one; `CountsCover` says what does hold.
* The losses in the omitted seconds are part of the client's summary
  (`iperf_locale.c:172`): `SummariesAgree` compares losses without omitted seconds.
* `--bidir` before `-c` is undone by it (`iperf_locale.c:151`, `iperf_api.c:478`):
  `ServerMirrors` excepts it.
* The server keeps some settings from one client to the next: among them
  `repeating_payload`, `bytes`, `blocks`, `get_server_output`, `pacing_timer`
  (`iperf_api.c:2545`). `ServerMirrors` is about those that are put back.
* `cJSON_ReplaceItemInObject` leaves the new item without the name of the old
  (`cjson.h:76`).
* "only receive one from the server, send nothing" (`client_udp_down.cpp:197`) does not
  hold when a packet comes between the RRC probe's echo and its next samples.

### Fairness

`TraceLog`: as long as the main looper or a monitoring thread can run, one of them
does, which is less than Android's looper and the Java scheduler provide; nothing is
assumed of the user. `IperfSession`:
pool tasks, their results and expired timers are eventually run, again by the
looper and the pool; the native client need not return by itself before its test
is ended. `IperfControl`: the server's and each client's thread keep running, and
TCP eventually delivers what was sent or reports the reset; a client may still
crash at any moment. `Timers`: the main loop comes back to `tmr_run`, and `tmr_run`
goes on; the condition is written out because TLC is slow with `ENABLED` there.
`Probes`: threads run, a `SO_RCVTIMEO` that is set expires, the server takes what
reaches it, and a datagram that is not lost arrives. Nothing makes the server
send, the user stop or the network lose. `StreamResults`, `Settings` and `Json`
have no liveness property.

## What is proved

TLAPS checks the following for every value of the constants that satisfies
the named assumptions: the bounds are natural numbers, at least one stream, the
tests and probes are of the kinds the program knows, `None` values outside the sets
they stand beside. Where a theorem needs more, it is in its statement.

**TraceLog** (`TraceLogProofs`).

* `TypeCorrect`: `Spec => []TypeOK`. The variables are grouped,
  and for each action only the groups it changes are looked at.
* `PartsStayBounded`: `Spec => []ChunkBound`. The bound is not
  inductive, because nothing in it ties the length of the file to the counter.
  `ChunkInv` adds that the lines of the current part and the buffer together are
  the counter plus what was carried over from the part before (`Carry`), that the
  buffer is empty whenever the counter is a multiple of the batch, and that the
  counter is at most `MAX_LINES_PER_CHUNK`. The line that triggers the step to the
  next part is carried over only if it was not flushed, that is, unless a batch is
  one line.
* `NothingEverLost`, `StopAlwaysSaves`, `SummaryLagsByOne`:
  `NothingLost`, `StopSavesPostedLines` and `SummaryLag`, write errors included in the
  first two. What ties them together is the looper, which is first in, first out:
  `ClickInv` says that what had been posted when the user tapped is on disk, in the
  buffer, or ahead of the click in the queue, so that nothing is ahead of it when it
  is handled. `StopInv` says that a session with a summary entry is over and that the
  next start opens a new one, so `due` cannot grow any more. For the third, `LagInv`
  says that without write errors no thread of an earlier session is alive, so that
  the shared field `report` is that of the current thread, which is at most one
  report ahead of the summary.
* `AlwaysInOrder`: `ExactlyOnceInOrder`, for any sequence of batch sizes. `OrderInv`
  says of the current session that its reports are in order in the parts, in the buffer
  and in the queued messages, and those in each of the three before those in the next
  (`Chain`), and that the posted ones are its first ones. A flush moves the buffer
  behind the last part, a new part starts behind it, and the handler moves the head of
  the queue behind the buffer; that each of these keeps a chain a chain is a lemma
  about sequences (`TailOrder` and those after it). With `LagInv`, the report a thread
  posts is later than all before it; with `StopInv`, what is in the files when the next session
  starts stays there.

**Handoffs.** `HandoffTypes`, `CountsAreCovered`, `NoHandoffTwice`, `MarkerIsOfReport`
and `SteadyChangesAreCounted` (`HandoffProofs`), the first four from one invariant, `HandoffInv`. `NoPhantomHandoffs` alone is
not inductive. `CellBudget` says that the horizontal handoffs counted so far,
plus the distance from the last sample through what the current sample has seen
to the phone now, is at most the number of moves; `SwitchBudget` says the same of
standalone 5G. A move lengthens the way by at most one; classifying turns a part of
it into a handoff; dropping a sample shortens it by the triangle
inequality. That a read leaves what the next read finds (`ReadAgain`) makes it
work although other threads read in between. `TypeHasKind`, that a type other
than 0 goes with a kind, is proved for every NR status, not only the one that
occurs. For the last theorem `SteadyInv` says that the next sample is compared with the
report told last, and that a change it shows is a vertical handoff
(`ChangesAreVertical`) until it is told.

**IperfSession.** `NeverUsedAfterFree`, `RunsAlwaysRecordedOnce` and
`ForcedAlwaysAfterTime` (`IperfSessionProofs`), for any number of runs and sessions,
under `Patience = 2` and `Prompt`. Both hypotheses are needed: with a user who taps
during the grace period, or a log file that is checked before the run is set up, TLC finds
counterexamples (see the disagreements above for one of them). `SessionInv` says that all runs but
the current one are over or have not begun (`Past`, `Future`), what the current one
may have in each of its places (`Current`), and that a run is listed exactly once
from the moment `endIperfSession` has recorded it (`ListsOK`). The step that needs all
of it is the toggle: it is only because the grace period is over that the wrapper the
next run replaces belongs to nobody.

**IperfControl.** `OwnConnectionsAlways`, `RunsTogetherAlways`, `ResultsAgreeAlways`,
`TestSocketsAlwaysClosed` (an action property) and `ProtocolImplementsService` (the
refinement of `TestService`, step by step), for any number of clients and streams,
with crashes, interrupts and `endTest`. One invariant, `ControlInv`, carries all
five; it has four parts.

* `ServerOK` and `LinksOK`: the fields of the server by where it is, and that what it holds
  is open, apart from what it still has to accept.
* `Carries` and `Inbox`: what may be under way to the server and to a client. The
  results of a client's test come right before `DISPLAY_RESULTS`, or are with the client
  already, which is why a client that is shown the results has them.
* `Untouched`: a control connection that the server has not looked at has nothing
  in it but the cookie, and its client has not begun.
* `Conversation`: the start of a test goes out and its end comes back as one `Token`,
  which is `TEST_RUNNING` on its way, the client's state, or `TEST_END` on
  its way. So `TEST_END` is never a message of an earlier phase.

The refinement mapping reads owner and phase off the server's state and cookie, and
the outcome of a run off the client; steps of the sockets alone are stutters.

**Settings.** `ServerAlwaysMirrors` and `RetransmitsAlwaysKnown` (`SettingsProofs`), for
command lines of any length and any number of clients before. `SettingsInv` says
that between tests every field that a test may set is back at its default (`Clean`),
and what the options keep up of a client whatever their order (`Directed`).

**StreamResults.** `StreamsAlwaysPaired` (`StreamProofs`), for any number of streams and
all three directions. `ListInv` says that both lists are those of the first connections,
in order, numbered and directed by their place, and that the backlog is what the client has
and the server has not yet. `AcceptsPeer` is the point of it: what the server concludes
from the number of streams it has agrees with what the client decided. All other steps
count in the streams and keep what identifies them (`Kept`).

**Probes.** `CrashesExplained` and `NumbersAlwaysInStep` (`ProbeProofs`), for any number of
packets, end packets, losses and doubled datagrams. `HandshakeInv` says that while neither
the user nor the network interferes (`Calm`) the two datagrams of the server are the only
ones under way in the handshake, one after the first read and none after the second, so
that none is left to be read as a packet. `AckInv` ties the counter of the
acknowledgements to the length of the log, `YepInv` the confirmed numbers to the last one
read.

Only model-checked:

* the liveness properties: fairness and `ENABLED` are out of the prover's reach;
* `Timers` with its refinement of `Deadlines`: its properties follow `next` through
  the list, and that a walk ends, and what it collects, is an induction over data,
  which the prover cannot do;
* `Json` and `JsonForest`, which use recursive operators, which it does not handle;
* `LossCounted`, `IntervalsAddUp` and `SummariesAgree` of `StreamResults`: they count
  the elements of sets, add up sequences and reckon modulo a power of a constant, where
  the provers have neither the sums nor the exponents.

## What is not modelled

* The CSV header, the contents of reports other than handoffs, and the distance,
  tower and speed columns of the summary: data that nothing else depends on.
* Drawing, dialogs with forms, permission screens and the lines `IperfJniHandler` shows:
  Android's behaviour.
* Rates, jitter, CPU use and times in results, and the throttling that compares a
  rate with its limit: they need real time and floating point. The pacing timers
  themselves are in `Timers`.
* `tmr_cleanup` and `tmr_destroy`, which only `t_timer.c` calls.
* The datagrams that connect a UDP stream, beyond that the wait for them may time out.
* In cJSON: the growing print buffer, `cJSON_Compare`, `cJSON_Minify`, the constructors
  from C arrays, the text of numbers, Unicode. Sequential conversions that a test reaches.
* In the probes: ICMP errors, a socket number used again after `close`, the sending
  rate; the end packets of one end are one step.
* Units, messages and locale: sequential formatting.
* SCTP and authentication, which are compiled out.
* Loading the native library. The names in `test_run.c` (its line 75 names the
  package `edu/umn/fivegtracker`) are taken to resolve.

## Plan

In this order:

1. `RunNumber`: `config.java`'s files, first start, truncate and write, with a crash
   between any two steps; then composed with `IperfSession`'s run number.
2. `Screens`: permissions, device check and service binding up to the first Start.
3. `Tracker`: `TraceLog` and `IperfSession` composed over one Start/Stop item and one
   summary.
