---------------------------- MODULE IperfSession ----------------------------
(***************************************************************************)
(* The throughput tests of the app: FragmentAppIperf with its Iperf3       *)
(* wrapper object, and the part of MapActivity's Start/Stop item that      *)
(* touches them.                                                           *)
(*                                                                         *)
(* The main thread runs the toggle button's listener, the count-down       *)
(* timers and the onPostExecute of the background tasks.  Each RunIperf    *)
(* and CheckIperfStatus runs its doInBackground on a thread of the pool.   *)
(* The tasks, the timers and the listener share static fields: the         *)
(* termination state, the Iperf3 object, the file status, the run number.  *)
(* Run r is the r-th RunIperf; the Iperf3 object and the native test it    *)
(* creates are numbered r too, and 0 stands for null.                      *)
(***************************************************************************)
EXTENDS Integers, Sequences, FiniteSets

CONSTANTS
  Patience,     \* the user: 0 taps at any time, 1 waits until the app is idle,
                \* 2 also lets IPERF_FILE_CHECK_INTERVAL pass before the next run
  Prompt,       \* the pool sets a run up within IPERF_INITIAL_CHECK_DELAY seconds
  MaxRuns,      \* bound: runs started with the toggle button
  MaxSessions,  \* bound: tracing sessions started
  MaxTicks      \* bound: ticks that check the log file

ASSUME IperfConstants ==
  /\ Patience \in 0 .. 2 /\ Prompt \in BOOLEAN
  /\ MaxRuns \in Nat /\ MaxSessions \in Nat /\ MaxTicks \in Nat

Runs == 1 .. MaxRuns
Sessions == 1 .. MaxSessions
Unsaved == <<0>>

VARIABLES
  running,     \* MapActivity.running; the toggle button is enabled iff it holds
  ready,       \* serviceBound && ServiceReady()
  tracing,     \* CheckIfTraceActive()
  session,     \* monitorService.curSession, 0 for null
  runNumbers,  \* per session: runNumbers of its summary object
  saved,       \* per session: runNumbers in the summary file, or Unsaved
  toggle,      \* iPerfBt.isChecked()
  runNumber,   \* config.RUN_NUMBER_CURRENT, counted from the start of the app
  state,       \* iperf_termination_state
  iperf3,      \* the static field iperf3
  testRef,     \* per Iperf3 object: the native test it refers to
  native,      \* per native test: where it is in its life
  pc,          \* per run: where its RunIperf task is
  obj,         \* per run: the Iperf3 object its call chain works on
  using,       \* per run: the native test its runClient works on
  file,        \* per run: the run number in the name of its log file
  bg, posts,   \* CheckIperfStatus tasks in the background, and finished there
  gone,        \* iperf_file_status is DOESNOT_EXIST or STOPPED_UPDATING
  timerField,  \* iperfCountDownTimer: the run that created it
  timer,       \* per run: its count-down timer
  ticks,       \* how many ticks have checked the file
  crashed,     \* an uncaught exception or a null test has ended the app
  home         \* history: per run, the session it was started in

traceVars == <<running, ready, tracing, session, runNumbers, saved>>
testVars == <<iperf3, testRef, native>>
taskVars == <<pc, obj, using, file>>
timerVars == <<timerField, timer, ticks>>
vars == <<traceVars, toggle, runNumber, state, testVars, taskVars, bg, posts,
          gone, timerVars, crashed, home>>

States == {"none", "RUNNING", "BY_USER", "AUTOMATICALLY", "FORCEFULLY"}

\* Every field of the fragment, its tasks and its timers keeps its type.
TypeOK ==
  /\ running \in BOOLEAN /\ ready \in BOOLEAN /\ tracing \in BOOLEAN
  /\ session \in 0 .. MaxSessions
  /\ runNumbers \in [Sessions -> Seq(Runs)]
  /\ saved \in [Sessions -> Seq(Runs) \cup {Unsaved}]
  /\ toggle \in BOOLEAN /\ runNumber \in 0 .. MaxRuns
  /\ state \in States
  /\ iperf3 \in 0 .. MaxRuns
  /\ testRef \in [Runs -> 0 .. MaxRuns]
  /\ native \in [Runs -> {"none", "live", "ended", "freed"}]
  /\ pc \in [Runs -> {"none", "queued", "named", "create", "open", "launch",
                      "run", "post", "done"}]
  /\ obj \in [Runs -> 0 .. MaxRuns] /\ using \in [Runs -> 0 .. MaxRuns]
  /\ file \in [Runs -> 0 .. MaxRuns]
  /\ bg \in Nat /\ posts \in Nat /\ gone \in BOOLEAN
  /\ timerField \in 0 .. MaxRuns
  /\ timer \in [Runs -> {"none", "ticking", "grace", "off"}]
  /\ ticks \in 0 .. MaxTicks
  /\ crashed \in BOOLEAN
  /\ home \in [Runs -> 0 .. MaxSessions]

Init ==
  /\ running = FALSE /\ ready \in BOOLEAN /\ tracing = FALSE /\ session = 0
  /\ runNumbers = [s \in Sessions |-> <<>>]
  /\ saved = [s \in Sessions |-> Unsaved]
  /\ toggle = FALSE /\ runNumber = 0 /\ state = "none" /\ iperf3 = 0
  /\ testRef = [r \in Runs |-> 0] /\ native = [r \in Runs |-> "none"]
  /\ pc = [r \in Runs |-> "none"] /\ obj = [r \in Runs |-> 0]
  /\ using = [r \in Runs |-> 0] /\ file = [r \in Runs |-> 0]
  /\ bg = 0 /\ posts = 0 /\ gone = FALSE
  /\ timerField = 0 /\ timer = [r \in Runs |-> "none"] /\ ticks = 0
  /\ crashed = FALSE /\ home = [r \in Runs |-> 0]

\* No task is under way: what a user who waits for the app sees as idle.
Quiet ==
  /\ bg = 0 /\ posts = 0
  /\ \A r \in Runs : pc[r] \in {"none", "done"}

\* A patient user interrupts a run only once its client is running, and does
\* nothing while the app is still ending a session.
Interruptible ==
  \/ Quiet
  \/ state = "RUNNING" /\ bg = 0 /\ posts = 0 /\ \E r \in Runs : pc[r] = "run"
-----------------------------------------------------------------------------
(* The listener of the toggle button and the Start/Stop item.              *)

\* terminateIperfSession: note the state and start a CheckIperfStatus task.
Terminate(st, checks) == state' = st /\ bg' = checks + 1

\* A mutant: the state is noted, but no check is started to end the session.
Unchecked_NoCheck(st, checks) ==
  /\ state' = IF st \notin {"AUTOMATICALLY", "FORCEFULLY"} THEN "BY_USER" ELSE st
  /\ bg' = checks

\* The listener's branch for "unchecked", also run by setChecked(false).
Unchecked(st, checks) ==
  IF st \notin {"AUTOMATICALLY", "FORCEFULLY"}
  THEN Terminate("BY_USER", checks)
  ELSE state' = st /\ bg' = checks

\* The user checks the button: onPreExecute runs at once, on the main thread,
\* and its timer replaces the one in the field, which is not cancelled.
ToggleOn ==
  /\ running /\ ~toggle /\ runNumber < MaxRuns
  /\ Patience >= 1 => Quiet
  /\ Patience = 2 => \A r \in Runs : timer[r] # "grace"
  /\ toggle' = TRUE
  /\ runNumber' = runNumber + 1
  /\ pc' = [pc EXCEPT ![runNumber + 1] = "queued"]
  /\ timer' = [timer EXCEPT ![runNumber + 1] = "ticking"]
  /\ timerField' = runNumber + 1
  /\ home' = [home EXCEPT ![runNumber + 1] = IF tracing THEN session ELSE 0]
  /\ UNCHANGED <<traceVars, state, testVars, obj, using, file, bg, posts, gone,
                 ticks, crashed>>

ToggleOff ==
  /\ running /\ toggle
  /\ Patience >= 1 => Interruptible
  /\ toggle' = FALSE
  /\ Unchecked(state, bg)
  /\ UNCHANGED <<traceVars, runNumber, testVars, taskVars, posts, gone,
                 timerVars, crashed, home>>

\* The service gets bound and has its first location.
BecomeReady ==
  /\ ~ready
  /\ ready' = TRUE
  /\ UNCHANGED <<running, tracing, session, runNumbers, saved, toggle, runNumber,
                 state, testVars, taskVars, bg, posts, gone, timerVars, crashed, home>>

\* The Start branch: the button is enabled even if tracing could not start.
Start ==
  /\ ~running
  /\ Patience >= 1 => Quiet
  /\ running' = TRUE
  /\ IF ready
     THEN session < MaxSessions /\ session' = session + 1 /\ tracing' = TRUE
     ELSE UNCHANGED <<session, tracing>>
  /\ UNCHANGED <<ready, runNumbers, saved, toggle, runNumber, state, testVars,
                 taskVars, bg, posts, gone, timerVars, crashed, home>>

\* The Stop branch: uncheck the button, then StopTracing saves the summary.
Stop ==
  /\ running
  /\ Patience >= 1 => Interruptible
  /\ running' = FALSE /\ tracing' = FALSE /\ toggle' = FALSE
  /\ IF toggle THEN Unchecked(state, bg) ELSE UNCHANGED <<state, bg>>
  /\ saved' = IF tracing THEN [saved EXCEPT ![session] = runNumbers[session]]
                         ELSE saved
  /\ UNCHANGED <<ready, session, runNumbers, runNumber, testVars, taskVars, posts,
                 gone, timerVars, crashed, home>>
-----------------------------------------------------------------------------
(* RunIperf.doInBackground, cut where it uses a shared field.              *)

Goto(r, from, to) == pc[r] = from /\ pc' = [pc EXCEPT ![r] = to]

\* Test "running" and name the log file after the current run number.
Begin(r) ==
  /\ Goto(r, "queued", IF running THEN "named" ELSE "post")
  /\ file' = [file EXCEPT ![r] = IF running THEN runNumber ELSE @]
  /\ UNCHANGED <<traceVars, toggle, runNumber, state, testVars, obj, using, bg,
                 posts, gone, timerVars, crashed, home>>

SetRunning(r) ==
  /\ Goto(r, "named", "create")
  /\ state' = "RUNNING"
  /\ UNCHANGED <<traceVars, toggle, runNumber, testVars, obj, using, file, bg,
                 posts, gone, timerVars, crashed, home>>

Create(r) ==
  /\ Goto(r, "create", "open")
  /\ iperf3' = r
  /\ UNCHANGED <<traceVars, toggle, runNumber, state, testRef, native, obj, using,
                 file, bg, posts, gone, timerVars, crashed, home>>

\* The field is read again, and newTest works on the object it holds by now.
NewTest(r) ==
  /\ IF iperf3 = 0
     THEN crashed' = TRUE /\ Goto(r, "open", "done")
          /\ UNCHANGED <<obj, testRef, native>>
     ELSE /\ Goto(r, "open", "launch")
          /\ obj' = [obj EXCEPT ![r] = iperf3]
          /\ native' = [n \in Runs |-> IF n = r THEN "live"
                                       ELSE IF n = testRef[iperf3] THEN "freed"
                                       ELSE native[n]]
          /\ testRef' = [testRef EXCEPT ![iperf3] = r]
          /\ UNCHANGED crashed
  /\ UNCHANGED <<traceVars, toggle, runNumber, state, iperf3, using, file, bg,
                 posts, gone, timerVars, home>>

\* newTestImpl returned 0: the IperfException ends the task.
NewTestFails(r) ==
  /\ Goto(r, "open", "post")
  /\ iperf3 # 0
  /\ native' = [n \in Runs |-> IF n = testRef[iperf3] THEN "freed" ELSE native[n]]
  /\ testRef' = [testRef EXCEPT ![iperf3] = 0]
  /\ UNCHANGED <<traceVars, toggle, runNumber, state, iperf3, obj, using, file,
                 bg, posts, gone, timerVars, crashed, home>>

\* The setters and runClient pass testRef to native code, which dereferences it.
Launch(r) ==
  /\ LET n == testRef[obj[r]]
     IN  /\ Goto(r, "launch", IF n = 0 THEN "done" ELSE "run")
         /\ crashed' = (n = 0)
         /\ using' = [using EXCEPT ![r] = n]
  /\ UNCHANGED <<traceVars, toggle, runNumber, state, testVars, obj, file, bg,
                 posts, gone, timerVars, home>>

\* iperf_run_client returns: the test is over, has failed or was ended.
ClientReturns(r) ==
  /\ Goto(r, "run", "post")
  /\ UNCHANGED <<traceVars, toggle, runNumber, state, testVars, obj, using, file,
                 bg, posts, gone, timerVars, crashed, home>>

\* onPostExecute, on the main thread.
RunPost(r) ==
  /\ Goto(r, "post", "done")
  /\ IF state = "RUNNING" THEN Terminate("AUTOMATICALLY", bg)
                          ELSE UNCHANGED <<state, bg>>
  /\ UNCHANGED <<traceVars, toggle, runNumber, testVars, obj, using, file, posts,
                 gone, timerVars, crashed, home>>
-----------------------------------------------------------------------------
(* CheckIperfStatus and endIperfSession.                                   *)

\* doInBackground looks at the log file, which may be missing or stale.
CheckFile(status) ==
  /\ bg > 0
  /\ bg' = bg - 1 /\ posts' = posts + 1
  /\ gone' = status
  /\ UNCHANGED <<traceVars, toggle, runNumber, state, testVars, taskVars,
                 timerVars, crashed, home>>

\* A mutant: the test is freed although its client may still run.
EndOrFree_Frees(st) ==
  /\ native' = [m \in Runs |-> IF m = testRef[iperf3] THEN "freed" ELSE native[m]]
  /\ testRef' = [testRef EXCEPT ![iperf3] = 0]

\* endTest unless the run ended by itself: the native test is ended, not freed,
\* and the object forgets it.  Then freeTest frees what is still referred to.
EndOrFree(st) ==
  LET n == testRef[iperf3]
  IN  /\ native' = [m \in Runs |-> IF m # n THEN native[m]
                                   ELSE IF st # "AUTOMATICALLY" THEN "ended"
                                   ELSE "freed"]
      /\ testRef' = [testRef EXCEPT ![iperf3] = 0]

\* A mutant: the field is cleared and the timer goes on.
CancelTimer_ClearsField == timerField' = 0 /\ UNCHANGED timer

CancelTimer ==
  /\ timer' = [r \in Runs |-> IF r = timerField THEN "off" ELSE timer[r]]
  /\ timerField' = 0

appendIperfRunNumber ==
  runNumbers' = [runNumbers EXCEPT ![session] = Append(@, runNumber)]

\* A mutant: the field keeps the object of the ended session.
EndIperfSession_KeepsObject(st, checks) ==
  /\ EndOrFree(st)
  /\ CancelTimer
  /\ session # 0 /\ appendIperfRunNumber
  /\ toggle' = FALSE
  /\ IF toggle THEN Unchecked(st, checks) ELSE state' = st /\ bg' = checks
  /\ UNCHANGED <<iperf3, crashed>>

\* endIperfSession with the termination state st.  Without a session the
\* append throws on the main thread.
EndIperfSession(st, checks) ==
  /\ EndOrFree(st)
  /\ CancelTimer
  /\ IF session = 0
     THEN /\ crashed' = TRUE
          /\ state' = st /\ bg' = checks
          /\ UNCHANGED <<runNumbers, iperf3, toggle>>
     ELSE /\ appendIperfRunNumber
          /\ iperf3' = 0
          /\ toggle' = FALSE
          /\ IF toggle THEN Unchecked(st, checks) ELSE state' = st /\ bg' = checks
          /\ UNCHANGED crashed

\* onPostExecute: a run whose file is gone is terminated forcefully, and
\* whatever is not running any more is ended.
CheckPost ==
  /\ posts > 0
  /\ posts' = posts - 1
  /\ LET force == gone /\ state = "RUNNING"
         st == IF force THEN "FORCEFULLY" ELSE state
         checks == IF force THEN bg + 1 ELSE bg
     IN  IF st # "RUNNING" /\ iperf3 # 0
         THEN EndIperfSession(st, checks)
         ELSE /\ state' = st /\ bg' = checks
              /\ UNCHANGED <<testVars, timerField, timer, runNumbers, toggle, crashed>>
  /\ UNCHANGED <<running, ready, tracing, session, saved, runNumber, taskVars,
                 gone, ticks, home>>
-----------------------------------------------------------------------------
(* The count-down timers.                                                  *)

\* Ticks start no check in the first seconds, and the time is over later still.
Settled(r) == Prompt => pc[r] \in {"run", "post", "done"}

\* A tick that starts a check of the log file.
Tick(r) ==
  /\ timer[r] = "ticking" /\ ticks < MaxTicks /\ Settled(r)
  /\ ticks' = ticks + 1
  /\ bg' = bg + 1
  /\ UNCHANGED <<traceVars, toggle, runNumber, state, testVars, taskVars, posts,
                 gone, timerField, timer, crashed, home>>

\* The time is over: if a run is still going, give it a grace period.
TimeOver(r) ==
  /\ timer[r] = "ticking" /\ Settled(r)
  /\ timer' = [timer EXCEPT ![r] = IF state = "RUNNING" THEN "grace" ELSE "off"]
  /\ timerField' = 0
  /\ UNCHANGED <<traceVars, toggle, runNumber, state, testVars, taskVars, bg, posts,
                 gone, ticks, crashed, home>>

\* A mutant: the grace period ends without consequence.
GraceOver_NoForce(r) ==
  /\ timer[r] = "grace"
  /\ timer' = [timer EXCEPT ![r] = "off"]
  /\ UNCHANGED <<traceVars, toggle, runNumber, state, testVars, taskVars, bg, posts,
                 gone, timerField, ticks, crashed, home>>

\* The grace period is over (checkIperfStatusTimer).
GraceOver(r) ==
  /\ timer[r] = "grace"
  /\ timer' = [timer EXCEPT ![r] = "off"]
  /\ IF state = "RUNNING" THEN Terminate("FORCEFULLY", bg)
                          ELSE UNCHANGED <<state, bg>>
  /\ UNCHANGED <<traceVars, toggle, runNumber, testVars, taskVars, posts, gone,
                 timerField, ticks, crashed, home>>
-----------------------------------------------------------------------------
User == ToggleOn \/ ToggleOff \/ BecomeReady \/ Start \/ Stop

\* The steps of the run's task that do not wait for the network.
Pool(r) ==
  Begin(r) \/ SetRunning(r) \/ Create(r) \/ NewTest(r) \/ NewTestFails(r) \/ Launch(r)

Check == \E status \in BOOLEAN : CheckFile(status)

Next ==
  /\ ~crashed
  /\ \/ User \/ Check \/ CheckPost
     \/ \E r \in Runs : Pool(r) \/ ClientReturns(r) \/ RunPost(r)
                          \/ Tick(r) \/ TimeOver(r) \/ GraceOver(r)

Spec == Init /\ [][Next]_vars

\* Pool threads, the looper and its timers make progress.  The user and the
\* server owe nothing: a client may wait for the server for ever.
FairSpec ==
  /\ Spec
  /\ WF_vars(~crashed /\ Check) /\ WF_vars(~crashed /\ CheckPost)
  /\ \A r \in Runs : /\ WF_vars(~crashed /\ Pool(r)) /\ WF_vars(~crashed /\ RunPost(r))
                     /\ WF_vars(~crashed /\ TimeOver(r)) /\ WF_vars(~crashed /\ GraceOver(r))
-----------------------------------------------------------------------------
(* Properties                                                              *)

\* Where the summaries list run r: the session, and the place in its list.
Listed(r) == UNION {{s} \X {i \in 1 .. Len(runNumbers[s]) : runNumbers[s][i] = r} : s \in Sessions}
Times(r) == Cardinality(Listed(r))
Lists(runs, r) == \E i \in 1 .. Len(runs) : runs[i] = r

\* No client works on a native test that has been freed, by endIperfSession or
\* by newTest on a wrapper object that already has a test; and the app crashes
\* only if no tracing session has ever been started: the tests never run into a
\* null wrapper object or a null native test.
NoUseAfterFree ==
  /\ TypeOK
  /\ \A r \in Runs : pc[r] = "run" => native[using[r]] # "freed"
  /\ crashed => session = 0

\* Once the app has settled, every run whose client has started is recorded
\* exactly once, under its own number, in the summary of some session, and its
\* log file carries that number too, although both are read from the shared
\* run number long after the run was started.  A saved summary lists the runs
\* that were started in its session, all but the one that Stop itself ends,
\* whose number endIperfSession appends too late.
RunsRecordedOnce ==
  /\ \A r \in Runs : /\ Times(r) <= 1
                     /\ file[r] \in {0, r}
                     /\ (Quiet /\ ~crashed /\ using[r] # 0) => Times(r) = 1
  /\ \A s \in Sessions : saved[s] # Unsaved =>
       \A r, q \in Runs : /\ home[r] = s /\ home[q] = s /\ r < q
                          /\ using[r] # 0 /\ using[q] # 0
                          => Lists(saved[s], r)

\* The Iperf3 object of a run is always ended and forgotten, even if the server
\* never answers: the timers of the run force it.
SessionEnds == iperf3 # 0 ~> (iperf3 = 0 \/ crashed)

\* MapActivity's "Stop Iperf if it is running": after Stop no client is left on
\* a test that has not been ended.
StopStopsIperf ==
  ~running ~> \/ running \/ crashed
              \/ \A r \in Runs : pc[r] = "run" => native[using[r]] # "live"

\* "If the time is finished, but the server did not close the connection, then
\* forcefully close it": the end of a grace period terminates a run only if
\* that run's own time is over, never the run after it (checkIperfStatusTimer
\* itself does not look which run it is for).
ForcedOnlyAfterTime ==
  [][\A r \in Runs :
       timer[r] = "grace" /\ timer'[r] = "off" /\ state' # state /\ iperf3 # 0
         => timer[iperf3] # "ticking"]_vars
=============================================================================
