------------------------- MODULE IperfSessionProofs -------------------------
(***************************************************************************)
(* Theorems about the throughput tests of the app, for any number of runs, *)
(* sessions and checks of the log file.  They are about a user who waits   *)
(* for the app (Patience = 2) and a pool that sets a run up in time        *)
(* (Prompt): without either, TLC finds counterexamples.                    *)
(***************************************************************************)
EXTENDS IperfSession, FiniteSetTheorems, TLAPS

-----------------------------------------------------------------------------
(* The inductive invariant.                                                *)

Launched == {"run", "post", "done"}
Preparing == {"queued", "named", "create", "open", "launch"}

\* endIperfSession has recorded run r.
Recd(r) == r < runNumber \/ (r = runNumber /\ pc[r] \in Launched /\ iperf3 = 0)

\* A run before the current one is over, and so is its timer.
Past(r) == pc[r] = "done" /\ timer[r] = "off" /\ testRef[r] = 0

Future(r) ==
  /\ pc[r] = "none" /\ timer[r] = "none" /\ native[r] = "none"
  /\ testRef[r] = 0 /\ using[r] = 0 /\ file[r] = 0 /\ home[r] = 0

\* The current run.  While it is prepared nothing else is under way; once it is no
\* longer RUNNING, a check that will end it is.
Current(r) ==
  /\ pc[r] # "none" /\ timer[r] # "none"
  /\ pc[r] \in {"queued", "named", "create"} => iperf3 = 0 /\ testRef[r] = 0 /\ using[r] = 0
  /\ pc[r] \in Preparing => running /\ bg = 0 /\ posts = 0 /\ timer[r] = "ticking"
  /\ pc[r] \in {"create", "open", "launch"} => state = "RUNNING"
  /\ pc[r] \in {"open", "launch"} => iperf3 = r
  /\ pc[r] = "open" => testRef[r] = 0
  /\ pc[r] = "launch" => testRef[r] = r /\ obj[r] = r
  /\ pc[r] \in {"launch", "run"} => native[r] # "freed"
  /\ pc[r] \in {"run", "post"} => state \notin {"AUTOMATICALLY", "none"}
  /\ pc[r] = "run" => using[r] = r
  /\ testRef[r] # 0 => iperf3 = r /\ testRef[r] = r
  /\ pc[r] \in Launched /\ iperf3 # 0 /\ state # "RUNNING" => bg # 0 \/ posts # 0
  /\ pc[r] = "done" => state # "RUNNING"
  /\ pc[r] \in Launched /\ iperf3 = 0 => state # "RUNNING" /\ timer[r] # "ticking"
  /\ timer[r] = "ticking" <=> timerField = r

RunsOK ==
  \A r \in Runs : /\ r < runNumber => Past(r)
                  /\ r > runNumber => Future(r)
                  /\ file[r] \in {0, r}
                  /\ pc[r] = "run" => native[using[r]] # "freed"

CurrentOK ==
  /\ iperf3 \in {0, runNumber} /\ timerField \in {0, runNumber}
  /\ \A r \in Runs : r = runNumber => Current(r)

\* Every recorded run is listed once.  Of the runs started in one session all but the
\* last are listed in it, and that before the summary is saved.
ListsOK ==
  /\ \A r \in Runs : Recd(r) => \E x : Listed(r) = {x}
  /\ \A r \in Runs : ~Recd(r) => Listed(r) = {}
  /\ \A r \in Runs : home[r] <= session
  /\ \A r \in Runs, s \in Sessions :
       Recd(r) /\ home[r] = s /\ s = session => Lists(runNumbers[s], r)
  /\ \A s \in Sessions, r, q \in Runs :
       r < q /\ home[r] = s /\ home[q] = s => Lists(runNumbers[s], r)
  /\ \A s \in Sessions, r, q \in Runs :
       saved[s] # Unsaved /\ r < q /\ home[r] = s /\ home[q] = s => Lists(saved[s], r)
  /\ \A s \in Sessions : saved[s] # Unsaved => s < session \/ (s = session /\ ~tracing)
  /\ tracing => session # 0

SessionInv ==
  /\ TypeOK /\ RunsOK /\ ListsOK
  /\ crashed => session = 0
  /\ ~crashed => CurrentOK
-----------------------------------------------------------------------------
(* Facts that several steps need.                                          *)

\* Only the current run is under way, and only its timer runs.
LEMMA OnlyCurrent ==
  ASSUME SessionInv, NEW r \in Runs,
         pc[r] \notin {"none", "done"} \/ timer[r] \in {"ticking", "grace"}
  PROVE  r = runNumber /\ runNumber \in Runs
<1>1. runNumber \in Int /\ r \in Int
  BY DEF SessionInv, TypeOK, Runs
<1>2. ~(r < runNumber) /\ ~(r > runNumber)
  BY ZenonT(60) DEF SessionInv, RunsOK, Past, Future
<1> QED
  BY <1>1, <1>2

\* When nothing is under way, the last run is over and recorded.
LEMMA QuietRun ==
  ASSUME SessionInv, ~crashed, Quiet, NEW r \in Runs, r = runNumber
  PROVE  pc[r] = "done" /\ iperf3 = 0 /\ state # "RUNNING" /\ timer[r] # "ticking"
<1>1. Current(r) /\ pc[r] = "done"
  BY ZenonT(60) DEF SessionInv, CurrentOK, Current, Quiet
<1> QED
  BY <1>1, ZenonT(60) DEF Current, Quiet, Launched

\* The lists, in a step that records nothing and starts or stops nothing.
LEMMA ListsKept ==
  ASSUME ListsOK, UNCHANGED <<runNumbers, home, session, saved, tracing>>,
         \A r \in Runs : Recd(r)' <=> Recd(r)
  PROVE  ListsOK'
<1>1. \A r \in Runs : Listed(r)' = Listed(r)
  BY DEF Listed
<1>2. /\ \A r \in Runs : Recd(r)' => \E x : Listed(r)' = {x}
      /\ \A r \in Runs : ~Recd(r)' => Listed(r)' = {}
  BY <1>1, ZenonT(60) DEF ListsOK
<1>3. /\ \A r \in Runs : home'[r] <= session'
      /\ \A r \in Runs, s \in Sessions :
           Recd(r)' /\ home'[r] = s /\ s = session' => Lists(runNumbers'[s], r)
      /\ \A s \in Sessions, r, q \in Runs :
           r < q /\ home'[r] = s /\ home'[q] = s => Lists(runNumbers'[s], r)
  BY ZenonT(60) DEF ListsOK
<1>4. /\ \A s \in Sessions, r, q \in Runs :
           saved'[s] # Unsaved /\ r < q /\ home'[r] = s /\ home'[q] = s => Lists(saved'[s], r)
      /\ \A s \in Sessions : saved'[s] # Unsaved => s < session' \/ (s = session' /\ ~tracing')
      /\ tracing' => session' # 0
  BY ZenonT(60) DEF ListsOK
<1> QED
  BY <1>2, <1>3, <1>4, ZenonT(60) DEF ListsOK

-----------------------------------------------------------------------------
(* Types.                                                                  *)

\* The listener and the Start/Stop item keep every field's type.
LEMMA UserTypes ==
  ASSUME TypeOK, ListsOK, User
  PROVE  TypeOK'
<1> USE IperfConstants
<1>1. CASE ToggleOn
  <2>1. runNumber + 1 \in Runs /\ runNumber + 1 \in 0 .. MaxRuns
    BY <1>1 DEF ToggleOn, TypeOK, Runs
  <2>2. (IF tracing THEN session ELSE 0) \in 0 .. MaxSessions
    BY DEF TypeOK
  <2> QED
    BY <1>1, <2>1, <2>2, ZenonT(60) DEF ToggleOn, TypeOK, traceVars, testVars
<1>2. CASE ToggleOff
  <2>1. state' \in States /\ bg' \in Nat
    BY <1>2 DEF ToggleOff, Unchecked, Terminate, TypeOK, States
  <2> QED
    BY <1>2, <2>1, ZenonT(60) DEF ToggleOff, TypeOK, traceVars, testVars, taskVars, timerVars
<1>3. CASE BecomeReady
  BY <1>3, ZenonT(60) DEF BecomeReady, TypeOK, testVars, taskVars, timerVars
<1>4. CASE Start
  <2>1. session' \in 0 .. MaxSessions /\ tracing' \in BOOLEAN
    <3>1. CASE ready
      BY <1>4, <3>1 DEF Start, TypeOK
    <3>2. CASE ~ready
      BY <1>4, <3>2, ZenonT(60) DEF Start, TypeOK
    <3> QED
      BY <3>1, <3>2, ZenonT(60)
  <2> QED
    BY <1>4, <2>1, ZenonT(60) DEF Start, TypeOK, testVars, taskVars, timerVars
<1>5. CASE Stop
  <2>1. state' \in States /\ bg' \in Nat
    BY <1>5 DEF Stop, Unchecked, Terminate, TypeOK, States
  <2>2. saved' \in [Sessions -> Seq(Runs) \cup {Unsaved}]
    <3>1. CASE tracing
      <4>1. session \in Sessions
        BY <3>1 DEF ListsOK, TypeOK, Sessions
      <4> QED
        BY <1>5, <3>1, <4>1, ZenonT(60) DEF Stop, TypeOK
    <3>2. CASE ~tracing
      BY <1>5, <3>2, ZenonT(60) DEF Stop, TypeOK
    <3> QED
      BY <3>1, <3>2, ZenonT(60)
  <2> QED
    BY <1>5, <2>1, <2>2, ZenonT(60) DEF Stop, TypeOK, testVars, taskVars, timerVars
<1> QED
  BY <1>1, <1>2, <1>3, <1>4, <1>5, ZenonT(60) DEF User

\* So do the steps of a run's task.
LEMMA TaskTypes ==
  ASSUME SessionInv, ~crashed, NEW r \in Runs,
         Pool(r) \/ ClientReturns(r) \/ RunPost(r)
  PROVE  TypeOK'
<1> USE IperfConstants
<1>T. TypeOK
  BY ZenonT(60) DEF SessionInv
<1> USE <1>T
<1>0. r \in 0 .. MaxRuns
  BY DEF Runs
<1>1. CASE Begin(r)
  BY <1>1, ZenonT(60) DEF Begin, Goto, TypeOK, traceVars, testVars, timerVars
<1>2. CASE SetRunning(r)
  BY <1>2, ZenonT(60) DEF SetRunning, Goto, TypeOK, States, traceVars, testVars, timerVars
<1>3. CASE Create(r)
  BY <1>0, <1>3, ZenonT(60) DEF Create, Goto, TypeOK, traceVars, timerVars
<1>4. CASE NewTest(r)
  <2>1. /\ pc' \in [Runs -> {"none", "queued", "named", "create", "open", "launch",
                             "run", "post", "done"}]
        /\ obj' \in [Runs -> 0 .. MaxRuns] /\ crashed' \in BOOLEAN
    <3>1. CASE iperf3 = 0
      <4>1. pc' = [pc EXCEPT ![r] = "done"] /\ obj' = obj /\ crashed' = TRUE
        BY <1>4, <3>1, ZenonT(60) DEF NewTest, Goto
      <4> QED
        BY <4>1, ZenonT(60) DEF TypeOK
    <3>2. CASE iperf3 # 0
      <4>1. /\ pc' = [pc EXCEPT ![r] = "launch"]
            /\ obj' = [obj EXCEPT ![r] = iperf3] /\ crashed' = crashed
        BY <1>4, <3>2, ZenonT(60) DEF NewTest, Goto
      <4> QED
        BY <4>1, ZenonT(60) DEF TypeOK
    <3> QED
      BY <3>1, <3>2, ZenonT(60)
  <2>2. native' \in [Runs -> {"none", "live", "ended", "freed"}]
    <3>1. CASE iperf3 = 0
      BY <1>4, <3>1, ZenonT(60) DEF NewTest, TypeOK
    <3>2. CASE iperf3 # 0
      BY <1>4, <3>2 DEF NewTest, TypeOK
    <3> QED
      BY <3>1, <3>2, ZenonT(60)
  <2>3. testRef' \in [Runs -> 0 .. MaxRuns]
    <3>1. CASE iperf3 = 0
      BY <1>4, <3>1, ZenonT(60) DEF NewTest, TypeOK
    <3>2. CASE iperf3 # 0
      BY <1>0, <1>4, <3>2, SMTT(30) DEF NewTest, TypeOK
    <3> QED
      BY <3>1, <3>2, ZenonT(60)
  <2> QED
    BY <1>4, <2>1, <2>2, <2>3, ZenonT(60) DEF NewTest, TypeOK, traceVars, timerVars
<1>5. CASE NewTestFails(r)
  <2>1. native' \in [Runs -> {"none", "live", "ended", "freed"}]
    <3>1. \A n \in Runs : (IF n = testRef[iperf3] THEN "freed" ELSE native[n])
                             \in {"none", "live", "ended", "freed"}
      BY ZenonT(60) DEF TypeOK
    <3> QED
      BY <1>5, <3>1, ZenonT(60) DEF NewTestFails
  <2>2. testRef' \in [Runs -> 0 .. MaxRuns]
    <3>1. testRef' = [testRef EXCEPT ![iperf3] = 0] /\ 0 \in 0 .. MaxRuns
      BY <1>5 DEF NewTestFails
    <3> QED
      BY <3>1, ZenonT(60) DEF TypeOK
  <2>3. pc' \in [Runs -> {"none", "queued", "named", "create", "open", "launch",
                          "run", "post", "done"}]
    BY <1>5, ZenonT(60) DEF NewTestFails, Goto, TypeOK
  <2> QED
    BY <1>5, <2>1, <2>2, <2>3, ZenonT(60) DEF NewTestFails, TypeOK, traceVars, timerVars
<1>6. CASE Launch(r)
  <2> DEFINE n == testRef[obj[r]]
  <2>1. obj[r] \in Runs
    <3>1. r = runNumber
      BY <1>6, OnlyCurrent, ZenonT(60) DEF Launch, Goto
    <3> QED
      BY <1>6, <3>1, ZenonT(60) DEF SessionInv, CurrentOK, Current, Launch, Goto
  <2>2. n \in 0 .. MaxRuns
    BY <2>1, ZenonT(60) DEF TypeOK
  <2>3. using' \in [Runs -> 0 .. MaxRuns] /\ crashed' \in BOOLEAN
    BY <1>6, <2>2, ZenonT(60) DEF Launch, TypeOK
  <2>4. pc' \in [Runs -> {"none", "queued", "named", "create", "open", "launch",
                          "run", "post", "done"}]
    BY <1>6, ZenonT(60) DEF Launch, Goto, TypeOK
  <2> QED
    BY <1>6, <2>3, <2>4, ZenonT(60) DEF Launch, TypeOK, traceVars, testVars, timerVars
<1>7. CASE ClientReturns(r)
  BY <1>7, ZenonT(60) DEF ClientReturns, Goto, TypeOK, traceVars, testVars, timerVars
<1>8. CASE RunPost(r)
  <2>1. state' \in States /\ bg' \in Nat
    BY <1>8 DEF RunPost, Terminate, TypeOK, States
  <2> QED
    BY <1>8, <2>1, ZenonT(60) DEF RunPost, Goto, TypeOK, traceVars, testVars, timerVars
<1> QED
  BY <1>1, <1>2, <1>3, <1>4, <1>5, <1>6, <1>7, <1>8, ZenonT(60) DEF Pool

\* So do the checks, with the end of a session that they may bring.
LEMMA CheckTypes ==
  ASSUME SessionInv, ~crashed, Check \/ CheckPost
  PROVE  TypeOK'
<1> USE IperfConstants
<1>T. TypeOK
  BY ZenonT(60) DEF SessionInv
<1>1. CASE Check
  <2> PICK status \in BOOLEAN : CheckFile(status)
    BY <1>1, ZenonT(60) DEF Check
  <2>1. bg' \in Nat /\ posts' \in Nat /\ gone' \in BOOLEAN
    BY <1>T DEF CheckFile, TypeOK
  <2> QED
    BY <1>T, <2>1, ZenonT(60) DEF CheckFile, TypeOK, traceVars, testVars, taskVars, timerVars
<1>2. CASE CheckPost
  <2> DEFINE force == gone /\ state = "RUNNING"
             st == IF force THEN "FORCEFULLY" ELSE state
             checks == IF force THEN bg + 1 ELSE bg
  <2>0. st \in States /\ checks \in Nat
    BY <1>T DEF TypeOK, States
  <2>1. posts' \in Nat
    BY <1>2, <1>T DEF CheckPost, TypeOK
  <2>2. UNCHANGED <<running, ready, tracing, session, saved, runNumber, taskVars,
                    gone, ticks, home>>
    BY <1>2, ZenonT(60) DEF CheckPost
  <2>3. CASE st # "RUNNING" /\ iperf3 # 0
    <3>1. EndIperfSession(st, checks)
      BY <1>2, <2>3, ZenonT(60) DEF CheckPost
    <3> HIDE DEF st, checks
    <3>2. native' \in [Runs -> {"none", "live", "ended", "freed"}]
      BY <3>1, <1>T, ZenonT(60) DEF EndIperfSession, EndOrFree, TypeOK
    <3>3. testRef' \in [Runs -> 0 .. MaxRuns]
      <4>1. testRef' = [testRef EXCEPT ![iperf3] = 0] /\ 0 \in 0 .. MaxRuns
        BY <3>1 DEF EndIperfSession, EndOrFree
      <4> QED
        BY <1>T, <4>1, ZenonT(60) DEF TypeOK
    <3>4. /\ timer' \in [Runs -> {"none", "ticking", "grace", "off"}]
          /\ timerField' \in 0 .. MaxRuns
      BY <3>1, <1>T DEF EndIperfSession, CancelTimer, TypeOK
    <3>5. CASE session = 0
      <4>1. /\ crashed' = TRUE /\ state' = st /\ bg' = checks
            /\ UNCHANGED <<runNumbers, iperf3, toggle>>
        BY <3>1, <3>5, ZenonT(60) DEF EndIperfSession
      <4> QED
        BY <1>T, <2>0, <2>1, <2>2, <3>2, <3>3, <3>4, <4>1, SMTT(30) DEF TypeOK, taskVars
    <3>6. CASE session # 0
      <4>1. session \in Sessions /\ runNumber \in Runs
        BY <1>T, <2>3, <3>6 DEF TypeOK, Sessions, Runs, SessionInv, CurrentOK
      <4>2. runNumbers' \in [Sessions -> Seq(Runs)]
        <5>1. runNumbers' = [runNumbers EXCEPT ![session] = Append(runNumbers[session], runNumber)]
          BY <3>1, <3>6, ZenonT(60) DEF EndIperfSession, appendIperfRunNumber
        <5>2. Append(runNumbers[session], runNumber) \in Seq(Runs)
          BY <1>T, <4>1 DEF TypeOK
        <5> QED
          BY <1>T, <4>1, <5>1, <5>2, ZenonT(60) DEF TypeOK
      <4>3. state' \in States /\ bg' \in Nat
        <5>1. Unchecked(st, checks) \/ (state' = st /\ bg' = checks)
          BY <3>1, <3>6, ZenonT(60) DEF EndIperfSession
        <5> QED
          BY <2>0, <5>1 DEF Unchecked, Terminate, States
      <4>4. iperf3' \in 0 .. MaxRuns /\ toggle' \in BOOLEAN /\ crashed' \in BOOLEAN
        <5>1. iperf3' = 0 /\ toggle' = FALSE /\ crashed' = crashed
          BY <3>1, <3>6, ZenonT(60) DEF EndIperfSession
        <5>2. crashed \in BOOLEAN /\ 0 \in 0 .. MaxRuns
          BY <1>T DEF TypeOK
        <5> QED
          BY <5>1, <5>2, ZenonT(60)
      <4>5. /\ running' \in BOOLEAN /\ ready' \in BOOLEAN /\ tracing' \in BOOLEAN
            /\ session' \in 0 .. MaxSessions /\ runNumber' \in 0 .. MaxRuns
            /\ saved' \in [Sessions -> Seq(Runs) \cup {Unsaved}]
            /\ gone' \in BOOLEAN /\ ticks' \in 0 .. MaxTicks /\ home' \in [Runs -> 0 .. MaxSessions]
        BY <1>T, <2>2, ZenonT(60) DEF TypeOK
      <4>6. /\ pc' \in [Runs -> {"none", "queued", "named", "create", "open", "launch",
                                 "run", "post", "done"}]
            /\ obj' \in [Runs -> 0 .. MaxRuns] /\ using' \in [Runs -> 0 .. MaxRuns]
            /\ file' \in [Runs -> 0 .. MaxRuns]
        BY <1>T, <2>2, ZenonT(60) DEF TypeOK, taskVars
      <4> QED
        BY <2>1, <3>2, <3>3, <3>4, <4>2, <4>3, <4>4, <4>5, <4>6, ZenonT(60) DEF TypeOK
    <3> QED
      BY <3>5, <3>6, ZenonT(60)
  <2>4. CASE ~(st # "RUNNING" /\ iperf3 # 0)
    <3>1. /\ state' = st /\ bg' = checks
          /\ UNCHANGED <<testVars, timerField, timer, runNumbers, toggle, crashed>>
      BY <1>2, <2>4, ZenonT(60) DEF CheckPost
    <3> HIDE DEF st, checks
    <3> QED
      BY <1>T, <2>0, <2>1, <2>2, <3>1, ZenonT(60) DEF TypeOK, taskVars, testVars
  <2> QED
    BY <2>3, <2>4, ZenonT(60)
<1> QED
  BY <1>1, <1>2, ZenonT(60)

\* And so do the timers.
LEMMA TimerTypes ==
  ASSUME TypeOK, NEW r \in Runs, Tick(r) \/ TimeOver(r) \/ GraceOver(r)
  PROVE  TypeOK'
<1> USE IperfConstants
<1>1. CASE Tick(r)
  BY <1>1, SMTT(30) DEF Tick, TypeOK, traceVars, testVars, taskVars
<1>2. CASE TimeOver(r)
  BY <1>2, SMTT(30) DEF TimeOver, TypeOK, traceVars, testVars, taskVars
<1>3. CASE GraceOver(r)
  <2>1. state' \in States /\ bg' \in Nat
    BY <1>3, SMTT(30) DEF GraceOver, Terminate, TypeOK, States
  <2> QED
    BY <1>3, <2>1, ZenonT(60) DEF GraceOver, TypeOK, traceVars, testVars, taskVars
<1> QED
  BY <1>1, <1>2, <1>3, ZenonT(60)

-----------------------------------------------------------------------------
(* The listener and the Start/Stop item.                                   *)

\* RunIperf's onPreExecute: a waiting user starts a run only when the one before is
\* over and recorded, so the new one finds the shared fields clear.
LEMMA ToggleOnKeeps ==
  ASSUME Patience = 2, SessionInv, ~crashed, ToggleOn
  PROVE  RunsOK' /\ ListsOK' /\ CurrentOK' /\ ~crashed'
<1> DEFINE n == runNumber + 1
<1>1. /\ Quiet /\ (\A r \in Runs : timer[r] # "grace") /\ running
      /\ runNumber' = n /\ pc' = [pc EXCEPT ![n] = "queued"]
      /\ timer' = [timer EXCEPT ![n] = "ticking"] /\ timerField' = n
      /\ home' = [home EXCEPT ![n] = IF tracing THEN session ELSE 0]
      /\ UNCHANGED <<traceVars, state, testVars, obj, using, file, bg, posts, gone,
                     ticks, crashed>>
  BY DEF ToggleOn
<1>2. n \in Runs /\ runNumber \in 0 .. MaxRuns /\ n \in Nat
  BY IperfConstants DEF ToggleOn, SessionInv, TypeOK, Runs
<1>3. Future(n)
  BY <1>2 DEF SessionInv, RunsOK
<1>4. TypeOK /\ RunsOK /\ ListsOK /\ CurrentOK
  BY ZenonT(60) DEF SessionInv
<1>5. \A r \in Runs : r = runNumber => Past(r) /\ iperf3 = 0
  <2> SUFFICES ASSUME NEW r \in Runs, r = runNumber PROVE Past(r) /\ iperf3 = 0
    BY ZenonT(60)
  <2>1. pc[r] = "done" /\ iperf3 = 0 /\ timer[r] # "ticking"
    BY <1>1, QuietRun, ZenonT(60)
  <2>2. timer[r] # "none" /\ (testRef[r] # 0 => iperf3 = r) /\ r # 0
    BY <1>4 DEF CurrentOK, Current, Runs
  <2>3. timer[r] \in {"none", "ticking", "grace", "off"}
    BY <1>4, ZenonT(60) DEF TypeOK
  <2> QED
    BY <1>1, <2>1, <2>2, <2>3, ZenonT(60) DEF Past
<1>6. iperf3 = 0
  BY <1>2, <1>4, <1>5 DEF CurrentOK, Runs
<1>7. RunsOK'
  <2> SUFFICES ASSUME NEW r \in Runs
               PROVE  /\ r < n => Past(r)'
                      /\ r > n => Future(r)'
                      /\ file'[r] \in {0, r}
                      /\ pc'[r] = "run" => native'[using'[r]] # "freed"
    BY <1>1, ZenonT(60) DEF RunsOK
  <2>0. r \in Int /\ runNumber \in Int
    BY <1>2 DEF Runs
  <2>1. r < n => Past(r)'
    <3>1. ASSUME r < n PROVE Past(r) /\ r # n
      BY <1>4, <1>5, <2>0, <3>1 DEF RunsOK
    <3> QED
      BY <1>1, <1>4, <3>1, ZenonT(60) DEF Past, TypeOK, testVars
  <2>2. r > n => Future(r)'
    <3>1. ASSUME r > n PROVE Future(r) /\ r # n
      BY <1>4, <2>0, <3>1 DEF RunsOK
    <3> QED
      BY <1>1, <1>4, <3>1, ZenonT(60) DEF Future, TypeOK, testVars
  <2>3. file'[r] \in {0, r} /\ (pc'[r] = "run" => native'[using'[r]] # "freed")
    BY <1>1, <1>4, ZenonT(60) DEF RunsOK, TypeOK, testVars
  <2> QED
    BY <2>1, <2>2, <2>3, ZenonT(60)
<1>8. CurrentOK'
  <2>1. ASSUME NEW r \in Runs, r = n PROVE Current(r)'
    <3>1. /\ pc'[r] = "queued" /\ timer'[r] = "ticking" /\ timerField' = r
          /\ iperf3' = 0 /\ testRef'[r] = 0 /\ using'[r] = 0
          /\ bg' = 0 /\ posts' = 0 /\ running'
      BY <1>1, <1>3, <1>4, <1>6, <2>1, ZenonT(60) DEF Future, TypeOK, Quiet, traceVars, testVars
    <3> QED
      BY <3>1, ZenonT(60) DEF Current, Preparing, Launched
  <2>2. iperf3' = 0 /\ timerField' = n
    BY <1>1, <1>6, ZenonT(60) DEF testVars
  <2> QED
    BY <1>1, <2>1, <2>2, ZenonT(60) DEF CurrentOK
<1>9. ListsOK'
  <2>0. session \in 0 .. MaxSessions /\ UNCHANGED <<tracing, session, runNumbers, saved>>
    BY <1>1, <1>4, ZenonT(60) DEF TypeOK, traceVars
  <2>1. \A r \in Runs : (r < n => Recd(r)) /\ (Recd(r)' <=> Recd(r))
    <3> SUFFICES ASSUME NEW r \in Runs PROVE (r < n => Recd(r)) /\ (Recd(r)' <=> Recd(r))
      BY ZenonT(60)
    <3>1. r \in Int /\ runNumber \in Int
      BY <1>2 DEF Runs
    <3>2. (r < n => Recd(r)) /\ (Recd(r) => r < n)
      BY <1>5, <3>1 DEF Recd, Past, Launched
    <3>3. Recd(r)' <=> r < n
      <4>1. pc'[n] = "queued"
        BY <1>1, <1>2, <1>4, ZenonT(60) DEF TypeOK
      <4> QED
        BY <1>1, <4>1, ZenonT(60) DEF Recd, Launched
    <3> QED
      BY <3>2, <3>3, ZenonT(60)
  <2>2. \A r \in Runs : Listed(r)' = Listed(r)
    BY <2>0 DEF Listed
  <2>3. \A r \in Runs : home'[r] = IF r = n THEN IF tracing THEN session ELSE 0 ELSE home[r]
    BY <1>1, <1>4, ZenonT(60) DEF TypeOK
  <2>4. \A s \in Sessions, r \in Runs : home'[r] = s /\ r = n => tracing /\ s = session
    BY <2>3 DEF Sessions
  <2>5. /\ \A r \in Runs : Recd(r)' => \E x : Listed(r)' = {x}
        /\ \A r \in Runs : ~Recd(r)' => Listed(r)' = {}
    BY <1>4, <2>1, <2>2, ZenonT(60) DEF ListsOK
  <2>6. \A r \in Runs : home'[r] <= session'
    BY <1>4, <2>0, <2>3 DEF ListsOK
  <2>7. \A r \in Runs, s \in Sessions :
          Recd(r)' /\ home'[r] = s /\ s = session' => Lists(runNumbers'[s], r)
    <3> SUFFICES ASSUME NEW r \in Runs, NEW s \in Sessions, Recd(r)', home'[r] = s, s = session'
                 PROVE  Lists(runNumbers'[s], r)
      BY ZenonT(60)
    <3>1. Recd(r) /\ r # n
      <4>1. Recd(n) => n < n \/ n = runNumber
        BY <1>2 DEF Recd
      <4> QED
        BY <1>2, <2>1, <4>1, SMTT(30)
    <3> QED
      BY <1>4, <2>0, <2>3, <3>1, ZenonT(60) DEF ListsOK
  <2>8. \A s \in Sessions, r, q \in Runs :
          r < q /\ home'[r] = s /\ home'[q] = s => Lists(runNumbers'[s], r)
    <3> SUFFICES ASSUME NEW r \in Runs, NEW q \in Runs, NEW s \in Sessions,
                        r < q, home'[r] = s, home'[q] = s
                 PROVE  Lists(runNumbers[s], r)
      BY <2>0, ZenonT(60)
    <3>1. r \in Int /\ q \in Int
      BY DEF Runs
    <3>2. CASE q = n
      <4>1. Recd(r) /\ home[r] = s /\ s = session
        BY <1>2, <2>1, <2>3, <2>4, <3>1, <3>2, SMTT(30)
      <4> QED
        BY <1>4, <4>1, ZenonT(60) DEF ListsOK
    <3>3. CASE q # n
      <4>1. r # n
        <5>1. ASSUME r = n PROVE FALSE
          <6>1. home[q] = 0
            BY <1>2, <1>4, <3>1, <5>1 DEF RunsOK, Future
          <6> QED
            BY <2>3, <3>3, <6>1 DEF Sessions
        <5> QED
          BY <5>1, ZenonT(60)
      <4> QED
        BY <1>4, <2>3, <3>3, <4>1, ZenonT(60) DEF ListsOK
    <3> QED
      BY <3>2, <3>3, ZenonT(60)
  <2>9. \A s \in Sessions, r, q \in Runs :
          saved'[s] # Unsaved /\ r < q /\ home'[r] = s /\ home'[q] = s => Lists(saved'[s], r)
    <3> SUFFICES ASSUME NEW r \in Runs, NEW q \in Runs, NEW s \in Sessions,
                        saved[s] # Unsaved, r < q, home'[r] = s, home'[q] = s
                 PROVE  Lists(saved[s], r)
      BY <2>0, ZenonT(60)
    <3>1. s < session \/ ~tracing
      BY <1>4, ZenonT(60) DEF ListsOK
    <3>2. ~(tracing /\ s = session)
      BY <2>0, <3>1 DEF Sessions
    <3>3. r # n /\ q # n
      BY <2>4, <3>2, ZenonT(60)
    <3> QED
      BY <1>4, <2>3, <3>3, ZenonT(60) DEF ListsOK
  <2>10. /\ \A s \in Sessions : saved'[s] # Unsaved => s < session' \/ (s = session' /\ ~tracing')
         /\ tracing' => session' # 0
    BY <1>4, <2>0, ZenonT(60) DEF ListsOK
  <2> QED
    BY <2>5, <2>6, <2>7, <2>8, <2>9, <2>10, ZenonT(60) DEF ListsOK
<1> QED
  BY <1>1, <1>7, <1>8, <1>9, ZenonT(60)

\* The lists, in a step that only stops tracing and saves the summary.
LEMMA ListsSaved ==
  ASSUME TypeOK, ListsOK, UNCHANGED <<runNumbers, home, session, pc, runNumber, iperf3>>, ~tracing',
         saved' = IF tracing THEN [saved EXCEPT ![session] = runNumbers[session]] ELSE saved
  PROVE  ListsOK'
<1>0. \A r \in Runs : Listed(r)' = Listed(r)
  BY DEF Listed
<1>1. \A r \in Runs : Recd(r)' <=> Recd(r)
  BY ZenonT(60) DEF Recd
<1>2. /\ \A r \in Runs : Recd(r)' => \E x : Listed(r)' = {x}
      /\ \A r \in Runs : ~Recd(r)' => Listed(r)' = {}
  BY <1>0, <1>1, ZenonT(60) DEF ListsOK
<1>3. /\ \A r \in Runs : home'[r] <= session'
      /\ \A r \in Runs, s \in Sessions :
           Recd(r)' /\ home'[r] = s /\ s = session' => Lists(runNumbers'[s], r)
      /\ \A s \in Sessions, r, q \in Runs :
           r < q /\ home'[r] = s /\ home'[q] = s => Lists(runNumbers'[s], r)
  BY <1>1, ZenonT(60) DEF ListsOK
<1>4. \A s \in Sessions : saved'[s] = saved[s] \/ (saved'[s] = runNumbers[s] /\ s = session)
  <2>1. CASE tracing
    BY <2>1, ZenonT(60) DEF TypeOK
  <2>2. CASE ~tracing
    BY <2>2, ZenonT(60)
  <2> QED
    BY <2>1, <2>2, ZenonT(60)
<1>5. \A s \in Sessions, r, q \in Runs :
        saved'[s] # Unsaved /\ r < q /\ home'[r] = s /\ home'[q] = s => Lists(saved'[s], r)
  BY <1>4, ZenonT(60) DEF ListsOK
<1>6. \A s \in Sessions : saved'[s] # Unsaved => s < session' \/ (s = session' /\ ~tracing')
  BY <1>4, ZenonT(60) DEF ListsOK
<1> QED
  BY <1>2, <1>3, <1>5, <1>6, ZenonT(60) DEF ListsOK

\* setChecked(false) and the listener: a waiting user unchecks the button while the
\* client runs or when nothing is under way, and in both cases a check is started
\* or nothing is left to end.
LEMMA UncheckKeeps ==
  ASSUME SessionInv, ~crashed, Interruptible,
         Unchecked(state, bg) \/ UNCHANGED <<state, bg>>,
         UNCHANGED <<runNumber, testVars, taskVars, posts, timerVars, home>>
  PROVE  RunsOK' /\ CurrentOK'
<1>1. TypeOK /\ RunsOK /\ CurrentOK
  BY ZenonT(60) DEF SessionInv
<1>2. RunsOK'
  BY <1>1, ZenonT(60) DEF RunsOK, Past, Future, taskVars, testVars, timerVars
<1>3. ASSUME NEW r \in Runs, r = runNumber PROVE Current(r)'
  <2>1. Current(r)
    BY <1>1, <1>3, ZenonT(60) DEF CurrentOK
  <2>2. pc[r] \in {"run", "done"}
    BY <1>1, <1>3, <2>1, OnlyCurrent, ZenonT(60) DEF Interruptible, Quiet, Current
  <2>3. CASE UNCHANGED <<state, bg>>
    BY <2>1, <2>3, <2>2, ZenonT(60) DEF Current, taskVars, testVars, timerVars, Preparing, Launched
  <2>4. CASE Unchecked(state, bg)
    <3>2. CASE state \in {"AUTOMATICALLY", "FORCEFULLY"}
      BY <2>1, <2>4, <2>2, <3>2, ZenonT(60) DEF Unchecked, Current, taskVars, testVars, timerVars, Preparing, Launched
    <3>3. CASE state \notin {"AUTOMATICALLY", "FORCEFULLY"}
      <4>1. state' = "BY_USER" /\ bg' # 0
        BY <1>1, <2>4, <3>3 DEF Unchecked, Terminate, TypeOK
      <4> QED
        BY <2>1, <2>2, <4>1, ZenonT(60) DEF Current, taskVars, testVars, timerVars, Preparing, Launched
    <3> QED
      BY <3>2, <3>3, ZenonT(60)
  <2> QED
    BY <2>3, <2>4, ZenonT(60)
<1>4. iperf3' \in {0, runNumber'} /\ timerField' \in {0, runNumber'}
  BY <1>1, ZenonT(60) DEF CurrentOK, testVars, timerVars
<1> QED
  BY <1>2, <1>3, <1>4, ZenonT(60) DEF CurrentOK

\* The user's steps keep the invariant.
LEMMA UserKeeps ==
  ASSUME Patience = 2, SessionInv, ~crashed, User
  PROVE  SessionInv'
<1>1. TypeOK'
  BY UserTypes, ZenonT(60) DEF SessionInv
<1>2. TypeOK /\ RunsOK /\ ListsOK /\ CurrentOK
  BY ZenonT(60) DEF SessionInv
<1>3. CASE ToggleOn
  BY <1>1, <1>3, ToggleOnKeeps, ZenonT(60) DEF SessionInv
<1>4. CASE ToggleOff
  <2>1. /\ Interruptible /\ Unchecked(state, bg)
        /\ UNCHANGED <<traceVars, runNumber, testVars, taskVars, posts, gone,
                       timerVars, crashed, home>>
    BY <1>4 DEF ToggleOff
  <2>2. RunsOK' /\ CurrentOK'
    BY <2>1, UncheckKeeps, ZenonT(60)
  <2>3. ListsOK'
    <3>1. \A r \in Runs : Recd(r)' <=> Recd(r)
      BY <2>1, ZenonT(60) DEF Recd, taskVars, testVars
    <3> QED
      BY <1>2, <2>1, <3>1, ListsKept, ZenonT(60) DEF traceVars
  <2> QED
    BY <1>1, <2>1, <2>2, <2>3, ZenonT(60) DEF SessionInv
<1>5. CASE BecomeReady
  <2>1. UNCHANGED <<running, tracing, session, runNumbers, saved, toggle, runNumber, state,
                    testVars, taskVars, bg, posts, gone, timerVars, crashed, home>>
    BY <1>5, ZenonT(60) DEF BecomeReady
  <2>2. RunsOK'
    BY <1>2, <2>1, ZenonT(60) DEF RunsOK, Past, Future, taskVars, testVars, timerVars
  <2>3. CurrentOK'
    <3>1. ASSUME NEW r \in Runs, Current(r) PROVE Current(r)'
      BY <2>1, <3>1 DEF Current, taskVars, testVars, timerVars
    <3> QED
      BY <1>2, <2>1, <3>1, ZenonT(60) DEF CurrentOK, testVars, timerVars
  <2>4. ListsOK'
    <3>1. \A r \in Runs : Recd(r)' <=> Recd(r)
      BY <2>1, ZenonT(60) DEF Recd, taskVars, testVars
    <3> QED
      BY <1>2, <2>1, <3>1, ListsKept, ZenonT(60)
  <2> QED
    BY <1>1, <2>1, <2>2, <2>3, <2>4, ZenonT(60) DEF SessionInv
<1>6. CASE Start
  <2>1. /\ Quiet /\ ~running /\ running' = TRUE
        /\ UNCHANGED <<ready, runNumbers, saved, toggle, runNumber, state, testVars,
                       taskVars, bg, posts, gone, timerVars, crashed, home>>
    BY <1>6 DEF Start
  <2>2. RunsOK'
    BY <1>2, <2>1, ZenonT(60) DEF RunsOK, Past, Future, taskVars, testVars, timerVars
  <2>3. CurrentOK'
    BY <1>2, <2>1 DEF CurrentOK, Current, taskVars, testVars, timerVars, Preparing, Launched
  <2>4. CASE ready
    <3>1. session' = session + 1 /\ tracing' = TRUE /\ session \in 0 .. MaxSessions
      BY <1>2, <1>6, <2>4, ZenonT(60) DEF Start, TypeOK
    <3>2. \A r \in Runs : (Recd(r)' <=> Recd(r)) /\ Listed(r)' = Listed(r)
      BY <2>1 DEF Recd, Listed, taskVars, testVars
    <3>3. /\ \A r \in Runs : Recd(r)' => \E x : Listed(r)' = {x}
          /\ \A r \in Runs : ~Recd(r)' => Listed(r)' = {}
      BY <1>2, <3>2, ZenonT(60) DEF ListsOK
    <3>4. /\ \A r \in Runs : home'[r] <= session'
          /\ \A r \in Runs, s \in Sessions :
               Recd(r)' /\ home'[r] = s /\ s = session' => Lists(runNumbers'[s], r)
      <4>1. \A r \in Runs : home[r] \in 0 .. MaxSessions /\ home[r] <= session
        BY <1>2, ZenonT(60) DEF TypeOK, ListsOK
      <4> QED
        BY <2>1, <3>1, <4>1, SMTT(30)
    <3>5. /\ \A s \in Sessions, r, q \in Runs :
               r < q /\ home'[r] = s /\ home'[q] = s => Lists(runNumbers'[s], r)
          /\ \A s \in Sessions, r, q \in Runs :
               saved'[s] # Unsaved /\ r < q /\ home'[r] = s /\ home'[q] = s => Lists(saved'[s], r)
      BY <1>2, <2>1, ZenonT(60) DEF ListsOK
    <3>6. \A s \in Sessions : saved'[s] # Unsaved => s < session'
      <4>1. \A s \in Sessions : saved[s] # Unsaved => s < session \/ s = session
        BY <1>2, ZenonT(60) DEF ListsOK
      <4>2. \A s \in Sessions : s < session \/ s = session => s < session + 1
        BY <3>1 DEF Sessions
      <4> QED
        BY <2>1, <3>1, <4>1, <4>2, ZenonT(60)
    <3>7. session' # 0
      BY <3>1
    <3>8. ListsOK'
      BY <3>3, <3>4, <3>5, <3>6, <3>7, ZenonT(60) DEF ListsOK
    <3> QED
      BY <1>1, <2>1, <2>2, <2>3, <3>8, ZenonT(60) DEF SessionInv
  <2>5. CASE ~ready
    <3>1. UNCHANGED <<session, tracing>>
      BY <1>6, <2>5, ZenonT(60) DEF Start
    <3>2. \A r \in Runs : Recd(r)' <=> Recd(r)
      BY <2>1, ZenonT(60) DEF Recd, taskVars, testVars
    <3>3. ListsOK'
      BY <1>2, <2>1, <3>1, <3>2, ListsKept, ZenonT(60)
    <3> QED
      BY <1>1, <2>1, <2>2, <2>3, <3>1, <3>3, ZenonT(60) DEF SessionInv
  <2> QED
    BY <2>4, <2>5, ZenonT(60)
<1>7. CASE Stop
  <2>1. /\ Interruptible /\ tracing' = FALSE
        /\ saved' = IF tracing THEN [saved EXCEPT ![session] = runNumbers[session]] ELSE saved
        /\ UNCHANGED <<ready, session, runNumbers, runNumber, testVars, taskVars, posts,
                       gone, timerVars, crashed, home>>
    BY <1>7 DEF Stop
  <2>2. Unchecked(state, bg) \/ UNCHANGED <<state, bg>>
    BY <1>7, ZenonT(60) DEF Stop
  <2>3. RunsOK' /\ CurrentOK'
    BY <2>1, <2>2, UncheckKeeps, ZenonT(60)
  <2>4. ListsOK'
    BY <1>2, <2>1, ListsSaved, ZenonT(60) DEF testVars, taskVars
  <2> QED
    BY <1>1, <2>1, <2>3, <2>4, ZenonT(60) DEF SessionInv
<1> QED
  BY <1>3, <1>4, <1>5, <1>6, <1>7, ZenonT(60) DEF User

-----------------------------------------------------------------------------
(* The run's task.                                                         *)

\* What a step of the task does to the current run.
LEMMA TaskCurrent ==
  ASSUME TypeOK, ~crashed, NEW r \in Runs, r = runNumber, Current(r),
         iperf3 \in {0, r}, timerField \in {0, r}, file[r] \in {0, r},
         Pool(r) \/ ClientReturns(r) \/ RunPost(r)
  PROVE  /\ ~crashed' /\ Current(r)' /\ iperf3' \in {0, r} /\ timerField' \in {0, r}
         /\ file'[r] \in {0, r} /\ (Recd(r)' <=> Recd(r))
<1>0. r # 0 /\ r \in Int /\ bg \in Nat /\ posts \in Nat
  BY DEF TypeOK, Runs
<1>1. CASE Begin(r)
  <2>1. /\ pc[r] = "queued" /\ pc'[r] = "named" /\ file'[r] = r
        /\ UNCHANGED <<traceVars, toggle, runNumber, state, testVars, obj, using, bg,
                       posts, timerVars, crashed>>
    BY <1>1, ZenonT(60) DEF Begin, Goto, Current, Preparing, TypeOK
  <2> QED
    BY <2>1, ZenonT(60) DEF Current, Recd, Preparing, Launched, traceVars, testVars, timerVars
<1>2. CASE SetRunning(r)
  <2>1. /\ pc[r] = "named" /\ pc'[r] = "create" /\ state' = "RUNNING"
        /\ UNCHANGED <<traceVars, toggle, runNumber, testVars, obj, using, file, bg,
                       posts, timerVars, crashed>>
    BY <1>2, ZenonT(60) DEF SetRunning, Goto, TypeOK
  <2> QED
    BY <2>1, ZenonT(60) DEF Current, Recd, Preparing, Launched, traceVars, testVars, timerVars
<1>3. CASE Create(r)
  <2>1. /\ pc[r] = "create" /\ pc'[r] = "open" /\ iperf3' = r
        /\ UNCHANGED <<traceVars, toggle, runNumber, state, testRef, native, obj, using,
                       file, bg, posts, timerVars, crashed>>
    BY <1>3, ZenonT(60) DEF Create, Goto, TypeOK
  <2> QED
    BY <2>1, ZenonT(60) DEF Current, Recd, Preparing, Launched, traceVars, timerVars
<1>4. CASE NewTest(r)
  <2>0. iperf3 = r /\ iperf3 # 0
    BY <1>0, <1>4, ZenonT(60) DEF NewTest, Goto, Current
  <2>1. /\ pc[r] = "open" /\ pc'[r] = "launch" /\ obj'[r] = r /\ native'[r] = "live"
        /\ testRef'[r] = r
        /\ UNCHANGED <<traceVars, toggle, runNumber, state, iperf3, using, file, bg,
                       posts, timerVars, crashed>>
    BY <1>4, <2>0 DEF NewTest, Goto, TypeOK
  <2> QED
    BY <1>0, <2>0, <2>1, ZenonT(60) DEF Current, Recd, Preparing, Launched, traceVars, timerVars
<1>5. CASE NewTestFails(r)
  <2>0. iperf3 = r /\ iperf3 # 0
    BY <1>0, <1>5, ZenonT(60) DEF NewTestFails, Goto, Current
  <2>1. /\ pc[r] = "open" /\ pc'[r] = "post" /\ testRef'[r] = 0
        /\ UNCHANGED <<traceVars, toggle, runNumber, state, iperf3, obj, using, file, bg,
                       posts, timerVars, crashed>>
    BY <1>5, <2>0, ZenonT(60) DEF NewTestFails, Goto, TypeOK
  <2> QED
    BY <1>0, <2>0, <2>1, ZenonT(60) DEF Current, Recd, Preparing, Launched, traceVars, timerVars
<1>6. CASE Launch(r)
  <2>0. pc[r] = "launch" /\ testRef[obj[r]] = r
    BY <1>6, ZenonT(60) DEF Launch, Goto, Current
  <2>1. /\ pc'[r] = "run" /\ ~crashed' /\ using'[r] = r
        /\ UNCHANGED <<traceVars, toggle, runNumber, state, testVars, obj, file, bg,
                       posts, timerVars>>
    BY <1>0, <1>6, <2>0, ZenonT(60) DEF Launch, Goto, TypeOK
  <2> QED
    BY <1>0, <2>0, <2>1, ZenonT(60) DEF Current, Recd, Preparing, Launched, traceVars, testVars, timerVars
<1>7. CASE ClientReturns(r)
  <2>1. /\ pc[r] = "run" /\ pc'[r] = "post"
        /\ UNCHANGED <<traceVars, toggle, runNumber, state, testVars, obj, using, file, bg,
                       posts, timerVars, crashed>>
    BY <1>7, ZenonT(60) DEF ClientReturns, Goto, TypeOK
  <2> QED
    BY <2>1, ZenonT(60) DEF Current, Recd, Preparing, Launched, traceVars, testVars, timerVars
<1>8. CASE RunPost(r)
  <2>1. /\ pc[r] = "post" /\ pc'[r] = "done"
        /\ UNCHANGED <<traceVars, toggle, runNumber, testVars, obj, using, file,
                       posts, timerVars, crashed>>
    BY <1>8, ZenonT(60) DEF RunPost, Goto, TypeOK
  <2>2. CASE state = "RUNNING"
    <3>1. state' = "AUTOMATICALLY" /\ bg' # 0
      BY <1>0, <1>8, <2>2, SMTT(30) DEF RunPost, Terminate
    <3>2. Current(r)'
      BY <2>1, <2>2, <3>1, ZenonT(60) DEF Current, Preparing, Launched, traceVars, testVars, timerVars
    <3> QED
      BY <1>0, <2>1, <2>2, <3>1, <3>2, ZenonT(60) DEF Recd, Launched, testVars, timerVars
  <2>3. CASE state # "RUNNING"
    <3>1. UNCHANGED <<state, bg>>
      BY <1>8, <2>3, ZenonT(60) DEF RunPost
    <3> QED
      BY <1>0, <2>1, <2>3, <3>1, ZenonT(60) DEF Current, Recd, Preparing, Launched, traceVars, testVars, timerVars
  <2> QED
    BY <2>2, <2>3, ZenonT(60)
<1> QED
  BY <1>1, <1>2, <1>3, <1>4, <1>5, <1>6, <1>7, <1>8, ZenonT(60) DEF Pool

\* A step of the task on run r moves only the current run, so the runs before and
\* after it stay as they are and what is recorded does not change.
LEMMA TaskKeeps ==
  ASSUME SessionInv, ~crashed, NEW r \in Runs, Pool(r) \/ ClientReturns(r) \/ RunPost(r)
  PROVE  SessionInv'
<1>1. TypeOK'
  BY TaskTypes, ZenonT(60)
<1>2. TypeOK /\ RunsOK /\ ListsOK /\ CurrentOK
  BY ZenonT(60) DEF SessionInv
<1>3. pc[r] \notin {"none", "done"}
  BY ZenonT(60) DEF Pool, Begin, SetRunning, Create, NewTest, NewTestFails, Launch, ClientReturns, RunPost, Goto
<1>4. r = runNumber /\ r # 0 /\ r \in Int
  BY <1>3, OnlyCurrent, SMTT(30) DEF Runs
<1>5. Current(r) /\ iperf3 \in {0, r} /\ timerField \in {0, r}
  BY <1>2, <1>4, ZenonT(60) DEF CurrentOK
<1>6. /\ UNCHANGED <<traceVars, runNumber, timerVars, posts, home>>
      /\ \A q \in Runs : q # r => pc'[q] = pc[q] /\ using'[q] = using[q] /\ file'[q] = file[q]
  BY <1>2, ZenonT(60) DEF Pool, Begin, SetRunning, Create, NewTest, NewTestFails, Launch, ClientReturns,
              RunPost, Goto, TypeOK
<1>7. \A q \in Runs : q # r => testRef'[q] = testRef[q] /\ native'[q] = native[q]
  <2>1. CASE NewTest(r) \/ NewTestFails(r)
    <3>1. iperf3 = r /\ testRef[r] = 0
      BY <1>5, <2>1, ZenonT(60) DEF NewTest, NewTestFails, Goto, Current
    <3>2. \A q \in Runs : q # testRef[iperf3]
      BY <3>1 DEF Runs
    <3>3. CASE NewTest(r)
      <4>1. /\ native' = [n \in Runs |-> IF n = r THEN "live"
                                         ELSE IF n = testRef[iperf3] THEN "freed"
                                         ELSE native[n]]
            /\ testRef' = [testRef EXCEPT ![iperf3] = r]
        BY <1>4, <3>1, <3>3, ZenonT(60) DEF NewTest
      <4> QED
        BY <1>2, <3>1, <3>2, <4>1, ZenonT(60) DEF TypeOK
    <3>4. CASE NewTestFails(r)
      BY <1>2, <3>1, <3>2, <3>4, ZenonT(60) DEF NewTestFails, TypeOK
    <3> QED
      BY <2>1, <3>3, <3>4, ZenonT(60)
  <2>2. CASE ~(NewTest(r) \/ NewTestFails(r))
    BY <2>2, ZenonT(60) DEF Pool, Begin, SetRunning, Create, Launch, ClientReturns, RunPost, testVars
  <2> QED
    BY <2>1, <2>2, ZenonT(60)
<1>8. /\ ~crashed' /\ Current(r)' /\ iperf3' \in {0, r} /\ timerField' \in {0, r}
      /\ file'[r] \in {0, r} /\ (Recd(r)' <=> Recd(r))
  BY <1>2, <1>4, <1>5, TaskCurrent, ZenonT(60) DEF RunsOK
<1>9. RunsOK'
  <2> SUFFICES ASSUME NEW q \in Runs
               PROVE  /\ q < runNumber => Past(q)'
                      /\ q > runNumber => Future(q)'
                      /\ file'[q] \in {0, q}
                      /\ pc'[q] = "run" => native'[using'[q]] # "freed"
    BY <1>6, ZenonT(60) DEF RunsOK
  <2>1. CASE q = r
    <3>1. pc'[r] = "run" => using'[r] = r /\ native'[r] # "freed"
      BY <1>8, ZenonT(60) DEF Current
    <3> QED
      BY <1>4, <1>8, <2>1, <3>1, SMTT(30)
  <2>2. CASE q # r
    <3>1. pc'[q] = pc[q] /\ using'[q] = using[q] /\ file'[q] = file[q]
          /\ testRef'[q] = testRef[q] /\ native'[q] = native[q]
          /\ timer' = timer /\ home' = home
      BY <1>6, <1>7, <2>2, ZenonT(60) DEF timerVars
    <3>2. pc[q] # "run"
      BY <1>4, <2>2, OnlyCurrent, ZenonT(60)
    <3> QED
      BY <1>2, <3>1, <3>2, ZenonT(60) DEF RunsOK, Past, Future
  <2> QED
    BY <2>1, <2>2, ZenonT(60)
<1>10. ListsOK'
  <2>1. \A q \in Runs : q # r => (Recd(q)' <=> Recd(q))
    BY <1>4, <1>6, ZenonT(60) DEF Recd
  <2> QED
    BY <1>2, <1>6, <1>8, <2>1, ListsKept, ZenonT(60) DEF traceVars
<1>11. CurrentOK'
  BY <1>4, <1>6, <1>8, ZenonT(60) DEF CurrentOK
<1> QED
  BY <1>1, <1>8, <1>9, <1>10, <1>11, ZenonT(60) DEF SessionInv

-----------------------------------------------------------------------------
(* The timers.                                                             *)

\* A timer only starts checks, once the client has run, and ends a grace period by
\* terminating the current run, which is its own.
LEMMA TimerKeeps ==
  ASSUME Prompt, SessionInv, ~crashed, NEW r \in Runs, Tick(r) \/ TimeOver(r) \/ GraceOver(r)
  PROVE  SessionInv'
<1>1. TypeOK'
  BY TimerTypes, ZenonT(60) DEF SessionInv
<1>2. TypeOK /\ RunsOK /\ ListsOK /\ CurrentOK
  BY ZenonT(60) DEF SessionInv
<1>3. r = runNumber /\ r # 0 /\ r \in Int
  BY OnlyCurrent DEF Tick, TimeOver, GraceOver, Runs
<1>4. Current(r) /\ iperf3 \in {0, r} /\ timerField \in {0, r} /\ bg \in Nat /\ posts \in Nat
  BY <1>2, <1>3, ZenonT(60) DEF CurrentOK, TypeOK
<1>5. /\ UNCHANGED <<traceVars, runNumber, testVars, taskVars, posts, crashed, home>>
      /\ \A q \in Runs : q # r => timer'[q] = timer[q]
  BY <1>2, SMTT(30) DEF Tick, TimeOver, GraceOver, TypeOK
<1>6. Current(r)' /\ timerField' \in {0, r}
  <2>1. pc[r] \in Launched
    <3>1. CASE timer[r] = "grace"
      <4>1. pc[r] \notin Preparing /\ pc[r] # "none"
        BY <1>4, <3>1, ZenonT(60) DEF Current
      <4> QED
        BY <1>2, <4>1, ZenonT(60) DEF TypeOK, Preparing, Launched
    <3>2. CASE timer[r] = "ticking"
      BY <3>2, ZenonT(60) DEF Tick, TimeOver, GraceOver, Settled, Launched
    <3> QED
      BY <3>1, <3>2, ZenonT(60) DEF Tick, TimeOver, GraceOver
  <2>2. CASE Tick(r)
    <3>1. bg' # 0 /\ UNCHANGED <<state, timerField, timer>>
      BY <1>4, <2>2 DEF Tick
    <3> QED
      BY <1>4, <1>5, <2>1, <3>1, ZenonT(60) DEF Current, Preparing, Launched, traceVars, testVars, taskVars
  <2>3. CASE TimeOver(r)
    <3>1. timer'[r] \in {"grace", "off"} /\ timerField' = 0 /\ UNCHANGED <<state, bg>>
      BY <1>2, <2>3, ZenonT(60) DEF TimeOver, TypeOK
    <3> QED
      BY <1>3, <1>4, <1>5, <2>1, <3>1, ZenonT(60) DEF Current, Preparing, Launched, traceVars, testVars, taskVars
  <2>4. CASE GraceOver(r)
    <3>1. timer[r] = "grace" /\ timer'[r] = "off" /\ timerField' = timerField
      BY <1>2, <2>4, ZenonT(60) DEF GraceOver, TypeOK
    <3>2. CASE state = "RUNNING"
      <4>1. state' = "FORCEFULLY" /\ bg' # 0
        BY <1>4, <2>4, <3>2 DEF GraceOver, Terminate
      <4> QED
        BY <1>4, <1>5, <2>1, <3>1, <3>2, <4>1, ZenonT(60)
           DEF Current, Preparing, Launched, traceVars, testVars, taskVars
    <3>3. CASE state # "RUNNING"
      <4>1. UNCHANGED <<state, bg>>
        BY <2>4, <3>3, ZenonT(60) DEF GraceOver
      <4> QED
        BY <1>4, <1>5, <2>1, <3>1, <3>3, <4>1, ZenonT(60)
           DEF Current, Preparing, Launched, traceVars, testVars, taskVars
    <3> QED
      BY <3>2, <3>3, ZenonT(60)
  <2> QED
    BY <2>2, <2>3, <2>4, ZenonT(60)
<1>7. RunsOK'
  <2> SUFFICES ASSUME NEW q \in Runs
               PROVE  (q < runNumber => Past(q)') /\ (q > runNumber => Future(q)')
    BY <1>2, <1>5, ZenonT(60) DEF RunsOK, testVars, taskVars
  <2>1. q # runNumber => timer'[q] = timer[q]
    BY <1>3, <1>5, ZenonT(60)
  <2> QED
    BY <1>2, <1>3, <1>5, <2>1, ZenonT(60) DEF RunsOK, Past, Future, testVars, taskVars, Runs
<1>8. CurrentOK'
  BY <1>3, <1>4, <1>5, <1>6, ZenonT(60) DEF CurrentOK, testVars
<1>9. ListsOK'
  <2>1. \A q \in Runs : Recd(q)' <=> Recd(q)
    BY <1>5, ZenonT(60) DEF Recd, testVars, taskVars
  <2> QED
    BY <1>2, <1>5, <2>1, ListsKept, ZenonT(60) DEF traceVars
<1> QED
  BY <1>1, <1>5, <1>7, <1>8, <1>9, ZenonT(60) DEF SessionInv

-----------------------------------------------------------------------------
(* The checks and endIperfSession.                                         *)

\* appendIperfRunNumber: the current run, not recorded yet, is listed in the current
\* session, and no other run's places change.
LEMMA ListsAppended ==
  ASSUME TypeOK, ListsOK, runNumber \in Runs, session \in Sessions,
         pc[runNumber] \in Launched, iperf3 # 0, iperf3' = 0, appendIperfRunNumber,
         UNCHANGED <<pc, runNumber, home, session, saved, tracing>>
  PROVE  ListsOK'
<1> DEFINE c == runNumber
           k == Len(runNumbers[session]) + 1
<1>1. /\ \A s \in Sessions : runNumbers[s] \in Seq(Runs)
      /\ \A s \in Sessions : s # session => runNumbers'[s] = runNumbers[s]
      /\ runNumbers'[session] = Append(runNumbers[session], c)
  BY ZenonT(60) DEF TypeOK, appendIperfRunNumber
<1>2. /\ k \in Nat /\ k > 0 /\ Len(runNumbers'[session]) = k /\ runNumbers'[session][k] = c
      /\ \A i \in 1 .. k - 1 : runNumbers'[session][i] = runNumbers[session][i]
  <2>1. runNumbers[session] \in Seq(Runs) /\ c \in Runs
    BY <1>1, ZenonT(60)
  <2> DEFINE l == runNumbers[session]
  <2>2. l \in Seq(Runs)
    BY <2>1, ZenonT(60)
  <2> HIDE DEF l
  <2>3. /\ Len(l) \in Nat
        /\ Len(Append(l, c)) = Len(l) + 1 /\ Append(l, c)[Len(l) + 1] = c
        /\ \A i \in 1 .. Len(l) : Append(l, c)[i] = l[i]
    BY <2>1, <2>2
  <2>4. runNumbers'[session] = Append(l, c) /\ k = Len(l) + 1
    BY <1>1, ZenonT(60) DEF l
  <2>5. \A i \in 1 .. k - 1 : Append(l, c)[i] = l[i]
    BY <2>3, <2>4
  <2> HIDE DEF k
  <2>6. k \in Nat /\ k > 0
    BY <2>3, <2>4
  <2> QED
    BY <2>3, <2>4, <2>5, <2>6, ZenonT(60) DEF l
<1>3. \A r \in Runs : r # c => (Recd(r)' <=> Recd(r))
  BY ZenonT(60) DEF Recd
<1>4. ~Recd(c) /\ Recd(runNumber)'
  BY DEF Recd, Runs
<1>5. ASSUME NEW r \in Runs, NEW s \in Sessions, Lists(runNumbers[s], r)
      PROVE  Lists(runNumbers'[s], r)
  <2>1. CASE s # session
    BY <1>1, <1>5, <2>1, ZenonT(60)
  <2>2. CASE s = session
    <3>1. PICK i \in 1 .. Len(runNumbers[s]) : runNumbers[s][i] = r
      BY <1>5, ZenonT(60) DEF Lists
    <3>2. i \in 1 .. k - 1 /\ i \in 1 .. k /\ k - 1 = Len(runNumbers[s])
      BY <1>1, <1>2, <2>2, SMTT(30)
    <3> HIDE DEF k
    <3> QED
      BY <1>2, <2>2, <3>1, <3>2, ZenonT(60) DEF Lists
  <2> QED
    BY <2>1, <2>2, ZenonT(60)
<1>6. Lists(runNumbers'[session], c)
  BY <1>2, SMTT(30) DEF Lists
<1>7. /\ \A r, x : x \in Listed(r) <=> \E s \in Sessions : \E i \in 1 .. Len(runNumbers[s]) :
                                         x = <<s, i>> /\ runNumbers[s][i] = r
      /\ \A r, x : x \in Listed(r)' <=> \E s \in Sessions : \E i \in 1 .. Len(runNumbers'[s]) :
                                          x = <<s, i>> /\ runNumbers'[s][i] = r
  BY SMTT(30) DEF Listed
<1>8. ASSUME NEW r \in Runs, NEW x, x \in Listed(r) PROVE x \in Listed(r)'
  <2>0. PICK s \in Sessions : \E i \in 1 .. Len(runNumbers[s]) : x = <<s, i>> /\ runNumbers[s][i] = r
    BY <1>7, <1>8
  <2>1. PICK i \in 1 .. Len(runNumbers[s]) : x = <<s, i>> /\ runNumbers[s][i] = r
    BY <2>0, ZenonT(60)
  <2>2. CASE s # session
    BY <1>1, <1>7, <2>1, <2>2, ZenonT(60)
  <2>3. CASE s = session
    <3>1. i \in 1 .. k - 1 /\ i \in 1 .. k
      <4>1. Len(runNumbers[session]) \in Nat /\ i \in 1 .. Len(runNumbers[session])
        BY <1>1, <2>1, <2>3
      <4> QED
        BY <4>1, SMTT(30)
    <3>2. runNumbers'[s][i] = r /\ i \in 1 .. Len(runNumbers'[s])
      BY <1>2, <2>1, <2>3, <3>1, ZenonT(60)
    <3> QED
      BY <1>7, <2>1, <3>2, ZenonT(60)
  <2> QED
    BY <2>2, <2>3, ZenonT(60)
<1>9. ASSUME NEW r \in Runs, NEW x, x \in Listed(r)', x \notin Listed(r)
      PROVE  x = <<session, k>> /\ r = c
  <2>0. PICK s \in Sessions : \E i \in 1 .. Len(runNumbers'[s]) : x = <<s, i>> /\ runNumbers'[s][i] = r
    BY <1>7, <1>9
  <2>1. PICK i \in 1 .. Len(runNumbers'[s]) : x = <<s, i>> /\ runNumbers'[s][i] = r
    BY <2>0, ZenonT(60)
  <2>2. s = session
    BY <1>1, <1>7, <1>9, <2>1, ZenonT(60)
  <2>3. i \in 1 .. k /\ i \notin 1 .. k - 1
    <3>1. i \in 1 .. k
      BY <1>2, <2>1, <2>2, ZenonT(60)
    <3>2. ASSUME i \in 1 .. k - 1 PROVE FALSE
      <4>0. Len(runNumbers[session]) \in Nat /\ k - 1 = Len(runNumbers[session])
        BY <1>1
      <4>1. runNumbers[s][i] = r /\ i \in 1 .. Len(runNumbers[s])
        BY <1>2, <2>1, <2>2, <3>2, <4>0, ZenonT(60)
      <4> QED
        BY <1>7, <1>9, <2>1, <4>1, ZenonT(60)
    <3> QED
      BY <3>1, <3>2, ZenonT(60)
  <2>4. i = k
    <3> HIDE DEF k
    <3> QED
      BY <1>2, <2>3
  <2> QED
    BY <1>2, <2>1, <2>2, <2>4, ZenonT(60)
<1>10. <<session, k>> \in Listed(runNumber)'
  <2> HIDE DEF k
  <2>1. k \in 1 .. Len(runNumbers'[session]) /\ runNumbers'[session][k] = c
    BY <1>2
  <2> QED
    BY <1>7, <2>1, ZenonT(60)
<1>11. \A r \in Runs : Recd(r)' => \E x : Listed(r)' = {x}
  <2> SUFFICES ASSUME NEW r \in Runs, Recd(r)' PROVE \E x : Listed(r)' = {x}
    BY ZenonT(60)
  <2>1. CASE r = c
    <3>1. Listed(r) = {}
      BY <1>4, <2>1, ZenonT(60) DEF ListsOK
    <3>2. Listed(r)' = {<<session, k>>}
      BY <1>9, <1>10, <2>1, <3>1, ZenonT(60)
    <3> QED
      BY <3>2, ZenonT(60)
  <2>2. CASE r # c
    <3>1. PICK x : Listed(r) = {x}
      BY <1>3, <2>2, ZenonT(60) DEF ListsOK
    <3>2. Listed(r)' = {x}
      BY <1>8, <1>9, <2>2, <3>1, ZenonT(60)
    <3> QED
      BY <3>2, ZenonT(60)
  <2> QED
    BY <2>1, <2>2, ZenonT(60)
<1>12. \A r \in Runs : ~Recd(r)' => Listed(r)' = {}
  <2> SUFFICES ASSUME NEW r \in Runs, ~Recd(r)' PROVE Listed(r)' = {}
    BY ZenonT(60)
  <2>1. r # c /\ Listed(r) = {}
    BY <1>3, <1>4, ZenonT(60) DEF ListsOK
  <2> QED
    BY <1>9, <2>1, ZenonT(60)
<1>13. /\ \A r \in Runs : home'[r] <= session'
       /\ \A s \in Sessions, r, q \in Runs :
            saved'[s] # Unsaved /\ r < q /\ home'[r] = s /\ home'[q] = s => Lists(saved'[s], r)
       /\ \A s \in Sessions : saved'[s] # Unsaved => s < session' \/ (s = session' /\ ~tracing')
       /\ tracing' => session' # 0
  BY ZenonT(60) DEF ListsOK
<1>14. \A r \in Runs, s \in Sessions :
         Recd(r)' /\ home'[r] = s /\ s = session' => Lists(runNumbers'[s], r)
  <2> SUFFICES ASSUME NEW r \in Runs, NEW s \in Sessions, Recd(r)', home[r] = s, s = session
               PROVE  Lists(runNumbers'[s], r)
    BY ZenonT(60)
  <2>1. CASE r = c
    BY <1>6, <2>1, ZenonT(60)
  <2>2. CASE r # c
    <3>1. Lists(runNumbers[s], r)
      BY <1>3, <2>2, ZenonT(60) DEF ListsOK
    <3> QED
      BY <1>5, <3>1, ZenonT(60)
  <2> QED
    BY <2>1, <2>2, ZenonT(60)
<1>15. \A s \in Sessions, r, q \in Runs :
         r < q /\ home'[r] = s /\ home'[q] = s => Lists(runNumbers'[s], r)
  <2> SUFFICES ASSUME NEW r \in Runs, NEW q \in Runs, NEW s \in Sessions,
                      r < q, home[r] = s, home[q] = s
               PROVE  Lists(runNumbers'[s], r)
    BY ZenonT(60)
  <2>1. Lists(runNumbers[s], r)
    BY ZenonT(60) DEF ListsOK
  <2> QED
    BY <1>5, <2>1, ZenonT(60)
<1> QED
  BY <1>11, <1>12, <1>13, <1>14, <1>15, ZenonT(60) DEF ListsOK

\* endIperfSession on the current run, whose client has started.  The test is freed
\* only after onPostExecute has noted AUTOMATICALLY, when the client has returned.
LEMMA EndKeeps ==
  ASSUME SessionInv, ~crashed, NEW st \in States, NEW checks \in Nat, posts > 0,
         st # "RUNNING", st = state \/ st = "FORCEFULLY", iperf3 # 0,
         EndIperfSession(st, checks),
         UNCHANGED <<running, tracing, session, saved, runNumber, taskVars, home>>
  PROVE  /\ RunsOK' /\ ListsOK'
         /\ crashed' => session = 0
         /\ ~crashed' => CurrentOK'
<1> DEFINE c == runNumber
<1>1. TypeOK /\ RunsOK /\ ListsOK /\ CurrentOK
  BY ZenonT(60) DEF SessionInv
<1>2. c \in Runs /\ iperf3 = c /\ c # 0 /\ Current(c)
  <2>1. iperf3 = c /\ c # 0 /\ c \in 0 .. MaxRuns
    BY <1>1, ZenonT(60) DEF CurrentOK, TypeOK
  <2>2. c \in Runs
    BY <2>1, IperfConstants, SMTT(30) DEF Runs
  <2> QED
    BY <1>1, <2>1, <2>2, ZenonT(60) DEF CurrentOK
<1>3. pc[c] \in Launched
  <2>0. posts # 0
    BY <1>1, SMTT(30) DEF TypeOK
  <2>1. pc[c] \notin Preparing /\ pc[c] # "none"
    BY <1>2, <2>0, ZenonT(60) DEF Current
  <2> QED
    BY <1>1, <1>2, <2>1, ZenonT(60) DEF TypeOK, Preparing, Launched
<1>4. testRef[c] \in {0, c} /\ testRef' = [testRef EXCEPT ![c] = 0]
  BY <1>2, ZenonT(60) DEF Current, EndIperfSession, EndOrFree
<1>5. \A q \in Runs : q # c => native'[q] = native[q] /\ testRef'[q] = testRef[q] /\ timer'[q] = timer[q]
  <2>1. \A q \in Runs : q # c => q # testRef[iperf3] /\ q # timerField
    BY <1>1, <1>2, <1>4, SMTT(30) DEF CurrentOK, Runs
  <2> QED
    BY <1>1, <1>4, <2>1, ZenonT(60) DEF EndIperfSession, EndOrFree, CancelTimer, TypeOK
<1>6. pc[c] = "run" => native'[c] # "freed" /\ using[c] = c
  <2>1. pc[c] = "run" => st # "AUTOMATICALLY" /\ native[c] # "freed" /\ using[c] = c
    BY <1>2, ZenonT(60) DEF Current
  <2> QED
    BY <1>2, <2>1, ZenonT(60) DEF EndIperfSession, EndOrFree
<1>7. RunsOK'
  <2> SUFFICES ASSUME NEW q \in Runs
               PROVE  /\ q < runNumber => Past(q)'
                      /\ q > runNumber => Future(q)'
                      /\ file[q] \in {0, q}
                      /\ pc[q] = "run" => native'[using[q]] # "freed"
    BY ZenonT(60) DEF RunsOK, taskVars
  <2>1. CASE q = c
    BY <1>1, <1>2, <1>6, <2>1, SMTT(30) DEF RunsOK, Runs
  <2>2. CASE q # c
    <3>1. pc[q] # "run"
      BY <2>2, OnlyCurrent, ZenonT(60)
    <3>2. native'[q] = native[q] /\ testRef'[q] = testRef[q] /\ timer'[q] = timer[q]
      BY <1>5, <2>2, ZenonT(60)
    <3> QED
      BY <1>1, <3>1, <3>2, ZenonT(60) DEF RunsOK, Past, Future, taskVars
  <2> QED
    BY <2>1, <2>2, ZenonT(60)
<1>8. CASE session = 0
  <2>1. crashed' = TRUE /\ UNCHANGED <<runNumbers, iperf3>>
    BY <1>8, ZenonT(60) DEF EndIperfSession
  <2>2. \A q \in Runs : Recd(q)' <=> Recd(q)
    BY <2>1, ZenonT(60) DEF Recd, taskVars
  <2>3. ListsOK'
    BY <1>1, <2>1, <2>2, ListsKept, ZenonT(60)
  <2> QED
    BY <1>7, <1>8, <2>1, <2>3, ZenonT(60)
<1>9. CASE session # 0
  <2>1. /\ appendIperfRunNumber /\ iperf3' = 0 /\ crashed' = crashed
        /\ Unchecked(st, checks) \/ (state' = st /\ bg' = checks)
    BY <1>9, ZenonT(60) DEF EndIperfSession
  <2>2. session \in Sessions
    BY <1>1, <1>9, IperfConstants, SMTT(30) DEF TypeOK, Sessions
  <2>3. ListsOK'
    BY <1>1, <1>2, <1>3, <2>1, <2>2, ListsAppended, ZenonT(60) DEF taskVars
  <2>4. state' # "RUNNING" /\ (state' = st \/ state' = "BY_USER")
    BY <2>1, ZenonT(60) DEF Unchecked, Terminate
  <2>5. testRef'[c] = 0 /\ timerField' = 0 /\ timer'[c] # "ticking" /\ timer'[c] # "none"
    BY <1>1, <1>2, <1>4, ZenonT(60) DEF EndIperfSession, CancelTimer, Current, TypeOK
  <2>6. ASSUME NEW r \in Runs, r = runNumber PROVE Current(r)'
    <3>1. /\ testRef'[r] = 0 /\ timerField' = 0 /\ timer'[r] # "ticking" /\ timer'[r] # "none"
          /\ pc'[r] = pc[r] /\ pc[r] \in Launched /\ iperf3' = 0 /\ r # 0 /\ using'[r] = using[r]
      BY <1>2, <1>3, <2>1, <2>5, <2>6, ZenonT(60) DEF taskVars
    <3>2. pc[r] = "run" => native'[r] # "freed" /\ using[r] = r
      BY <1>6, <2>6, ZenonT(60)
    <3>3. pc[r] \in {"run", "post"} => state' \notin {"AUTOMATICALLY", "none"}
      BY <1>2, <2>4, <2>6, ZenonT(60) DEF Current
    <3> QED
      BY <2>4, <3>1, <3>2, <3>3, ZenonT(60) DEF Current, Preparing, Launched
  <2>7. CurrentOK'
    BY <2>1, <2>5, <2>6, ZenonT(60) DEF CurrentOK
  <2> QED
    BY <1>7, <2>1, <2>3, <2>7, ZenonT(60)
<1> QED
  BY <1>8, <1>9, ZenonT(60)

\* CheckIperfStatus keeps the invariant: no check is under way while a run is being
\* set up, so what a check ends is a run whose client has started.
LEMMA CheckKeeps ==
  ASSUME SessionInv, ~crashed, Check \/ CheckPost
  PROVE  SessionInv'
<1>1. TypeOK'
  BY CheckTypes, ZenonT(60)
<1>2. TypeOK /\ RunsOK /\ ListsOK /\ CurrentOK /\ bg \in Nat /\ posts \in Nat
  BY ZenonT(60) DEF SessionInv, TypeOK
<1>3. CASE Check
  <2> PICK status \in BOOLEAN : CheckFile(status)
    BY <1>3, ZenonT(60) DEF Check
  <2>1. /\ bg # 0 /\ posts' # 0
        /\ UNCHANGED <<traceVars, runNumber, state, testVars, taskVars, timerVars, crashed, home>>
    BY <1>2 DEF CheckFile
  <2>2. RunsOK'
    BY <1>2, <2>1, ZenonT(60) DEF RunsOK, Past, Future, taskVars, testVars, timerVars
  <2>3. ASSUME NEW r \in Runs, r = runNumber PROVE Current(r)'
    <3>1. Current(r)
      BY <1>2, <2>3, ZenonT(60) DEF CurrentOK
    <3> QED
      BY <2>1, <3>1, ZenonT(60) DEF Current, taskVars, testVars, timerVars, traceVars, Preparing, Launched
  <2>4. CurrentOK'
    BY <1>2, <2>1, <2>3, ZenonT(60) DEF CurrentOK, testVars, timerVars
  <2>5. ListsOK'
    <3>1. \A q \in Runs : Recd(q)' <=> Recd(q)
      BY <2>1, ZenonT(60) DEF Recd, taskVars, testVars
    <3> QED
      BY <1>2, <2>1, <3>1, ListsKept, ZenonT(60) DEF traceVars
  <2> QED
    BY <1>1, <2>1, <2>2, <2>4, <2>5, ZenonT(60) DEF SessionInv
<1>4. CASE CheckPost
  <2> DEFINE force == gone /\ state = "RUNNING"
             st == IF force THEN "FORCEFULLY" ELSE state
             checks == IF force THEN bg + 1 ELSE bg
  <2>0. st \in States /\ checks \in Nat /\ (st = state \/ st = "FORCEFULLY")
    BY <1>2 DEF TypeOK, States
  <2>1. /\ posts > 0 /\ posts' = posts - 1
        /\ UNCHANGED <<running, ready, tracing, session, saved, runNumber, taskVars,
                       gone, ticks, home>>
    BY <1>4, ZenonT(60) DEF CheckPost
  <2>2. CASE st # "RUNNING" /\ iperf3 # 0
    <3>1. EndIperfSession(st, checks)
      BY <1>4, <2>2, ZenonT(60) DEF CheckPost
    <3> HIDE DEF st, checks
    <3>2. /\ RunsOK' /\ ListsOK'
          /\ crashed' => session = 0
          /\ ~crashed' => CurrentOK'
      BY <2>0, <2>1, <2>2, <3>1, EndKeeps, ZenonT(60)
    <3> QED
      BY <1>1, <2>1, <3>2, ZenonT(60) DEF SessionInv
  <2>3. CASE ~(st # "RUNNING" /\ iperf3 # 0)
    <3>1. /\ state' = st /\ bg' = checks
          /\ UNCHANGED <<testVars, timerField, timer, runNumbers, toggle, crashed>>
      BY <1>4, <2>3, ZenonT(60) DEF CheckPost
    <3>2. RunsOK'
      BY <1>2, <2>1, <3>1, ZenonT(60) DEF RunsOK, Past, Future, taskVars, testVars
    <3>3. ASSUME NEW r \in Runs, r = runNumber PROVE Current(r)'
      <4>1. Current(r)
        BY <1>2, <3>3, ZenonT(60) DEF CurrentOK
      <4>2. pc[r] \in Launched
        <5>0. posts # 0
          BY <1>2, <2>1, SMTT(30)
        <5>1. pc[r] \notin Preparing /\ pc[r] # "none"
          BY <4>1, <5>0, ZenonT(60) DEF Current
        <5> QED
          BY <1>2, <5>1, ZenonT(60) DEF TypeOK, Preparing, Launched
      <4>3. ~force
        BY <2>3, <4>1, <4>2, ZenonT(60) DEF Current
      <4>4. state' = state /\ bg' = bg /\ (state = "RUNNING" \/ iperf3 = 0)
        BY <2>3, <3>1, <4>3, ZenonT(60)
      <4> QED
        BY <2>1, <3>1, <4>1, <4>2, <4>4, ZenonT(60) DEF Current, taskVars, testVars, Preparing, Launched
    <3>4. CurrentOK'
      BY <1>2, <2>1, <3>1, <3>3, ZenonT(60) DEF CurrentOK, testVars
    <3>5. ListsOK'
      <4>1. \A q \in Runs : Recd(q)' <=> Recd(q)
        BY <2>1, <3>1, ZenonT(60) DEF Recd, taskVars, testVars
      <4> QED
        BY <1>2, <2>1, <3>1, <4>1, ListsKept, ZenonT(60)
    <3> QED
      BY <1>1, <2>1, <3>1, <3>2, <3>4, <3>5, ZenonT(60) DEF SessionInv
  <2> QED
    BY <2>2, <2>3, ZenonT(60)
<1> QED
  BY <1>3, <1>4, ZenonT(60)

-----------------------------------------------------------------------------
(* The theorems.                                                           *)

\* Before the first tap nothing is under way and nothing is listed.
LEMMA InitHolds ==
  ASSUME Init
  PROVE  SessionInv
<1> USE IperfConstants
<1>1. TypeOK
  <2>1. <<>> \in Seq(Runs)
    OBVIOUS
  <2>2. /\ runNumbers \in [Sessions -> Seq(Runs)]
        /\ saved \in [Sessions -> Seq(Runs) \cup {Unsaved}]
    BY <2>1, ZenonT(60) DEF Init
  <2>3. /\ 0 \in 0 .. MaxRuns /\ 0 \in 0 .. MaxSessions /\ 0 \in 0 .. MaxTicks /\ 0 \in Nat
        /\ state \in States
    BY DEF Init, States
  <2>4. /\ testRef \in [Runs -> 0 .. MaxRuns] /\ obj \in [Runs -> 0 .. MaxRuns]
        /\ using \in [Runs -> 0 .. MaxRuns] /\ file \in [Runs -> 0 .. MaxRuns]
        /\ home \in [Runs -> 0 .. MaxSessions]
    BY <2>3, ZenonT(60) DEF Init
  <2>5. /\ native \in [Runs -> {"none", "live", "ended", "freed"}]
        /\ pc \in [Runs -> {"none", "queued", "named", "create", "open", "launch",
                            "run", "post", "done"}]
        /\ timer \in [Runs -> {"none", "ticking", "grace", "off"}]
    BY ZenonT(60) DEF Init
  <2> QED
    BY <2>2, <2>3, <2>4, <2>5, ZenonT(60) DEF Init, TypeOK
<1>2. RunsOK
  BY DEF Init, RunsOK, Future, Past, Runs
<1>3. CurrentOK
  BY DEF Init, CurrentOK, Runs
<1>4. ListsOK
  <2>1. \A r \in Runs : ~Recd(r) /\ home[r] = 0
    BY DEF Init, Recd, Runs
  <2>2. \A r \in Runs : Listed(r) = {}
    <3>1. \A s \in Sessions : 1 .. Len(runNumbers[s]) = {}
      BY DEF Init
    <3> QED
      BY <3>1, ZenonT(60) DEF Listed
  <2>3. \A s \in Sessions : saved[s] = Unsaved /\ s # 0
    BY DEF Init, Sessions
  <2>4. ~tracing /\ session = 0
    BY ZenonT(60) DEF Init
  <2>5. \A r \in Runs, s \in Sessions : home[r] <= session /\ home[r] # s
    BY <2>1, <2>3, <2>4
  <2>6. /\ \A r \in Runs : Recd(r) => \E x : Listed(r) = {x}
        /\ \A r \in Runs : ~Recd(r) => Listed(r) = {}
    BY <2>1, <2>2, ZenonT(60)
  <2>7. /\ \A r \in Runs : home[r] <= session
        /\ \A r \in Runs, s \in Sessions :
             Recd(r) /\ home[r] = s /\ s = session => Lists(runNumbers[s], r)
        /\ \A s \in Sessions, r, q \in Runs :
             r < q /\ home[r] = s /\ home[q] = s => Lists(runNumbers[s], r)
        /\ \A s \in Sessions, r, q \in Runs :
             saved[s] # Unsaved /\ r < q /\ home[r] = s /\ home[q] = s => Lists(saved[s], r)
    <3>1. \A r \in Runs : home[r] <= session
      BY <2>1, <2>4
    <3> QED
      BY <2>5, <3>1, ZenonT(60)
  <2> QED
    BY <2>3, <2>4, <2>6, <2>7, ZenonT(60) DEF ListsOK
<1> QED
  BY <1>1, <1>2, <1>3, <1>4, ZenonT(60) DEF SessionInv, Init

\* Every step of the app keeps the invariant.
LEMMA NextKeeps ==
  ASSUME Patience = 2, Prompt, SessionInv, [Next]_vars
  PROVE  SessionInv'
<1>1. CASE Next
  <2>1. ~crashed
    BY <1>1, ZenonT(60) DEF Next
  <2>2. CASE User
    BY <2>1, <2>2, UserKeeps, ZenonT(60)
  <2>3. CASE Check \/ CheckPost
    BY <2>1, <2>3, CheckKeeps, ZenonT(60)
  <2>4. ASSUME NEW r \in Runs, Pool(r) \/ ClientReturns(r) \/ RunPost(r)
        PROVE  SessionInv'
    BY <2>1, <2>4, TaskKeeps, ZenonT(60)
  <2>5. ASSUME NEW r \in Runs, Tick(r) \/ TimeOver(r) \/ GraceOver(r)
        PROVE  SessionInv'
    BY <2>1, <2>5, TimerKeeps, ZenonT(60)
  <2> QED
    BY <1>1, <2>2, <2>3, <2>4, <2>5, ZenonT(60) DEF Next
<1>2. CASE UNCHANGED vars
  <2>1. UNCHANGED <<running, ready, tracing, session, runNumbers, saved, toggle, runNumber, state,
                    iperf3, testRef, native, pc, obj, using, file, bg, posts, gone,
                    timerField, timer, ticks, crashed, home>>
    BY <1>2, ZenonT(60) DEF vars, traceVars, testVars, taskVars, timerVars
  <2>2. TypeOK'
    BY <2>1, ZenonT(60) DEF SessionInv, TypeOK
  <2>3. RunsOK'
    BY <2>1, ZenonT(60) DEF SessionInv, RunsOK, Past, Future
  <2>4. ListsOK'
    <3>1. \A q \in Runs : Recd(q)' <=> Recd(q)
      BY <2>1, ZenonT(60) DEF Recd
    <3> QED
      BY <2>1, <3>1, ListsKept, ZenonT(60) DEF SessionInv
  <2>5. CurrentOK => CurrentOK'
    BY <2>1 DEF CurrentOK, Current, Preparing, Launched
  <2> QED
    BY <2>1, <2>2, <2>3, <2>4, <2>5, ZenonT(60) DEF SessionInv
<1> QED
  BY <1>1, <1>2, ZenonT(60)

\* SessionInv holds in every state of the app whose user waits for it.
THEOREM SessionAlways ==
  ASSUME Patience = 2, Prompt
  PROVE  Spec => []SessionInv
<1>1. Init => SessionInv
  BY InitHolds, ZenonT(60)
<1>2. SessionInv /\ [Next]_vars => SessionInv'
  BY NextKeeps, ZenonT(60)
<1> QED
  BY <1>1, <1>2, PTL DEF Spec

\* FragmentAppIperf and Iperf3: no client works on a native test that has been freed,
\* and the app crashes only if no tracing session was ever started, for a user who
\* waits for the app, whatever the number of runs, sessions and checks.
THEOREM NeverUsedAfterFree ==
  ASSUME Patience = 2, Prompt
  PROVE  Spec => []NoUseAfterFree
<1>1. SessionInv => NoUseAfterFree
  BY ZenonT(60) DEF SessionInv, RunsOK, NoUseAfterFree
<1> QED
  BY <1>1, SessionAlways, PTL

\* appendIperfRunNumber and StopTracing: every run whose client has started is
\* recorded exactly once under its own number, and the saved summary of a session
\* lists all its runs but the last.
THEOREM RunsAlwaysRecordedOnce ==
  ASSUME Patience = 2, Prompt
  PROVE  Spec => []RunsRecordedOnce
<1>1. SessionInv => RunsRecordedOnce
  <2> SUFFICES ASSUME SessionInv PROVE RunsRecordedOnce
    BY ZenonT(60)
  <2>1. TypeOK /\ RunsOK /\ ListsOK
    BY ZenonT(60) DEF SessionInv
  <2>2. ASSUME NEW r \in Runs PROVE (Recd(r) => Times(r) = 1) /\ (~Recd(r) => Times(r) = 0)
    <3>1. ASSUME Recd(r) PROVE Times(r) = 1
      <4>1. PICK x : Listed(r) = {x}
        BY <2>1, <3>1, ZenonT(60) DEF ListsOK
      <4> QED
        BY <4>1, FS_Singleton, ZenonT(60) DEF Times
    <3>2. ASSUME ~Recd(r) PROVE Times(r) = 0
      <4>1. Listed(r) = {}
        BY <2>1, <3>2, ZenonT(60) DEF ListsOK
      <4> QED
        BY <4>1, FS_EmptySet, ZenonT(60) DEF Times
    <3> QED
      BY <3>1, <3>2, ZenonT(60)
  <2>3. ASSUME NEW r \in Runs, Quiet, ~crashed, using[r] # 0 PROVE Recd(r)
    <3>1. r \in Int /\ runNumber \in Int
      BY <2>1 DEF TypeOK, Runs
    <3>2. ~(r > runNumber)
      BY <2>1, <2>3, ZenonT(60) DEF RunsOK, Future
    <3>3. CASE r = runNumber
      BY <2>3, <3>3, QuietRun, ZenonT(60) DEF Recd, Launched
    <3> QED
      BY <3>1, <3>2, <3>3, SMTT(30) DEF Recd
  <2>4. ASSUME NEW r \in Runs
        PROVE  Times(r) <= 1 /\ file[r] \in {0, r} /\ ((Quiet /\ ~crashed /\ using[r] # 0) => Times(r) = 1)
    BY <2>1, <2>2, <2>3 DEF RunsOK
  <2>5. ASSUME NEW s \in Sessions, saved[s] # Unsaved, NEW r \in Runs, NEW q \in Runs,
               home[r] = s, home[q] = s, r < q
        PROVE  Lists(saved[s], r)
    BY <2>1, <2>5, ZenonT(60) DEF ListsOK
  <2> QED
    BY <2>4, <2>5, ZenonT(60) DEF RunsRecordedOnce
<1> QED
  BY <1>1, SessionAlways, PTL

\* checkIperfStatusTimer: the end of a grace period terminates no run whose own time
\* is not over.
THEOREM ForcedAlwaysAfterTime ==
  ASSUME Patience = 2, Prompt
  PROVE  Spec => ForcedOnlyAfterTime
<1> DEFINE A == \A r \in Runs :
                  timer[r] = "grace" /\ timer'[r] = "off" /\ state' # state /\ iperf3 # 0
                    => timer[iperf3] # "ticking"
<1>1. SessionInv /\ [Next]_vars => [A]_vars
  <2> SUFFICES ASSUME SessionInv, Next, NEW r \in Runs,
                      timer[r] = "grace", iperf3 # 0
               PROVE  timer[iperf3] # "ticking"
    BY ZenonT(60)
  <2>1. r = runNumber /\ ~crashed
    BY OnlyCurrent, ZenonT(60) DEF Next
  <2>2. iperf3 = r
    BY <2>1, ZenonT(60) DEF SessionInv, CurrentOK
  <2> QED
    BY <2>2, ZenonT(60)
<1>2. Spec => [][A]_vars
  BY <1>1, SessionAlways, PTL DEF Spec
<1> QED
  BY <1>2, ZenonT(60) DEF ForcedOnlyAfterTime
=============================================================================
