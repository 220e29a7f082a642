------------------------------ MODULE TraceLog ------------------------------
(***************************************************************************)
(* The trace logger of the Android app: MonitoringService with its         *)
(* sampling thread, and the Start/Stop item of MapActivity's menu.         *)
(*                                                                         *)
(* Two kinds of actors interleave.  The main looper runs one queued item   *)
(* at a time: a report message, a click on the menu item, or the "Yes" of  *)
(* the Wi-Fi dialog.  Every StartTracing creates a MonitoringThread, which *)
(* samples a report, posts it to the looper and feeds the session summary. *)
(* Sessions are numbered 1, 2, ... in the order they start; the thread of  *)
(* session s is thread s, and the k-th report it samples is the line       *)
(* <<s, k>>.                                                               *)
(***************************************************************************)
EXTENDS Integers, Sequences

CONSTANTS
  MAX_BATCHES_PER_CHUNK,  \* config.MAX_BATCHES_PER_CHUNK
  DefaultBatch,           \* config.MAX_LINES_PER_BATCH when the service class loads
  Batches,                \* the batch sizes the user may type in the tracer dialog
  MaxSessions,            \* bound: sessions started
  MaxSamples,             \* bound: reports sampled by the first thread
  MaxClicks,              \* bound: clicks on the menu item
  MaxFailures,            \* bound: file writes that throw IOException
  MaxEdits                \* bound: batch sizes saved in the tracer dialog

ASSUME LogConstants ==
  /\ MAX_BATCHES_PER_CHUNK \in Nat \ {0}
  /\ DefaultBatch \in Nat \ {0}
  /\ Batches \subseteq Nat
  /\ MaxSessions \in Nat /\ MaxSamples \in Nat /\ MaxClicks \in Nat
  /\ MaxFailures \in Nat /\ MaxEdits \in Nat

\* MonitoringService.MAX_LINES_PER_CHUNK: a static final, so it keeps the
\* batch size of class loading whatever the tracer dialog saves later.
MAX_LINES_PER_CHUNK == MAX_BATCHES_PER_CHUNK * DefaultBatch

Sessions == 1 .. MaxSessions
Line == Sessions \X (1 .. MaxSamples)
NoReport == <<0, 0>>

\* What the main looper's queue holds.  A click remembers, for the
\* properties, the lines that had been posted when the user clicked.
Item == [kind : {"report"}, line : Line]
          \cup [kind : {"click"}, sent : SUBSET Line]
          \cup [kind : {"yes"}]

VARIABLES
  running,     \* MapActivity.running: the menu item shows "stop"
  ready,       \* serviceBound && ServiceReady()
  dialog,      \* the Wi-Fi confirmation dialog is shown
  queue,       \* the main looper's queue
  joining,     \* the main thread is inside monitoringThread.join()
  mon,         \* monitoringThread: the session whose thread it is, 0 for null
  cur,         \* the session that curSession and saveFilePath belong to
  batch,       \* config.MAX_LINES_PER_BATCH
  counter, part, buf,  \* counter, part and reportLines of the service
  files,       \* files[s][p]: the report lines in part p of session s
  summary,     \* summary[s]: the entries of session s in the summary file
  counted,     \* counted[s]: reports that session s's summary has processed
  active, pc,  \* per thread: ThreadActive, and where its run() is
  sampled,     \* per thread: the number of reports it has sampled
  report,      \* the service's field report, shared by all threads
  detected,    \* detectedActivities != null
  clicks, failures, edits,  \* how often the environment has acted so far
  sent,        \* history: the lines posted to the looper
  due          \* history: per session, the lines posted before its Stop click

mapVars == <<running, ready, dialog>>
logVars == <<batch, counter, part, buf, files>>
sessionVars == <<mon, cur, summary, joining>>
threadVars == <<counted, active, pc, sampled, report>>
envVars == <<clicks, failures, edits>>
vars == <<mapVars, queue, logVars, sessionVars, threadVars, detected, envVars,
          sent, due>>

MapType == running \in BOOLEAN /\ ready \in BOOLEAN /\ dialog \in BOOLEAN
QueueType == queue \in Seq(Item)
LogType ==
  /\ batch \in Nat /\ counter \in Nat /\ part \in Nat
  /\ buf \in Seq(Line)
  /\ files \in [Sessions -> Seq(Seq(Line))]
SessionType ==
  /\ mon \in 0 .. MaxSessions /\ cur \in 0 .. MaxSessions
  /\ summary \in [Sessions -> Seq([parts : Nat, counted : Nat])]
  /\ joining \in BOOLEAN
ThreadType ==
  /\ counted \in [Sessions -> Nat]
  /\ active \in [Sessions -> BOOLEAN]
  /\ pc \in [Sessions -> {"new", "loop", "sample", "send", "process", "done"}]
  /\ sampled \in [Sessions -> 0 .. MaxSamples]
  /\ report \in Line \cup {NoReport}
EnvType ==
  /\ detected \in BOOLEAN
  /\ clicks \in 0 .. MaxClicks /\ failures \in 0 .. MaxFailures
  /\ edits \in 0 .. MaxEdits
  /\ sent \in SUBSET Line /\ due \in [Sessions -> SUBSET Line]

\* Every variable of the service, the menu item and the threads keeps its type.
TypeOK ==
  MapType /\ QueueType /\ LogType /\ SessionType /\ ThreadType /\ EnvType

Init ==
  /\ running = FALSE /\ ready = FALSE /\ dialog = FALSE
  /\ queue = <<>> /\ joining = FALSE
  /\ mon = 0 /\ cur = 0
  /\ batch = DefaultBatch /\ counter = 0 /\ part = 0 /\ buf = <<>>
  /\ files = [s \in Sessions |-> <<>>]
  /\ summary = [s \in Sessions |-> <<>>]
  /\ counted = [s \in Sessions |-> 0]
  /\ active = [s \in Sessions |-> FALSE]
  /\ pc = [s \in Sessions |-> "new"]
  /\ sampled = [s \in Sessions |-> 0]
  /\ report = NoReport /\ detected = FALSE
  /\ clicks = 0 /\ failures = 0 /\ edits = 0
  /\ sent = {} /\ due = [s \in Sessions |-> {}]
-----------------------------------------------------------------------------
(* The environment: the user and the callbacks that only set a flag.       *)

\* The service is bound (UIBindConnection) and has a first location fix
\* (PositionCallBack), so that ServiceReady() holds from now on.
BecomeReady ==
  /\ ~ready /\ ~joining
  /\ ready' = TRUE
  /\ UNCHANGED <<running, dialog, queue, logVars, sessionVars, threadVars,
                 detected, envVars, sent, due>>

\* The broadcast receiver of the service stores the first activity update.
DetectActivities ==
  /\ ~detected /\ ~joining
  /\ detected' = TRUE
  /\ UNCHANGED <<mapVars, queue, logVars, sessionVars, threadVars, envVars,
                 sent, due>>

\* The user taps the play/stop item: the view posts the click to the looper
\* (touches are dispatched on the main thread, so never during a join).
Click ==
  /\ clicks < MaxClicks /\ ~dialog /\ ~joining
  /\ clicks' = clicks + 1
  /\ queue' = Append(queue, [kind |-> "click", sent |-> sent])
  /\ UNCHANGED <<mapVars, logVars, sessionVars, threadVars, detected,
                 failures, edits, sent, due>>

\* The user answers the Wi-Fi dialog; "Yes" is posted to the looper.
AnswerDialog(yes) ==
  /\ dialog /\ ~joining
  /\ dialog' = FALSE
  /\ queue' = IF yes THEN Append(queue, [kind |-> "yes"]) ELSE queue
  /\ UNCHANGED <<running, ready, logVars, sessionVars, threadVars, detected,
                 envVars, sent, due>>

\* TracerDialog's "save", which MapActivity opens only when not running.
SaveTracerDialog(b) ==
  /\ ~running /\ ~joining /\ edits < MaxEdits
  /\ batch' = b
  /\ edits' = edits + 1
  /\ UNCHANGED <<mapVars, queue, counter, part, buf, files, sessionVars,
                 threadVars, detected, clicks, failures, sent, due>>
-----------------------------------------------------------------------------
(* MonitoringUpdateHandler.handleMessage                                   *)

NextItem(kind) == ~joining /\ queue # <<>> /\ Head(queue).kind = kind

\* fs with lines added at the end of the part that saveFilePath names.
Appended(fs, lines) == [fs EXCEPT ![cur][part] = @ \o lines]

resetReportLogBuffer_NotReset == buf' = buf
resetReportLogBuffer == buf' = <<>>

NextChunk_OneLate(c, fs) ==
  IF c > MAX_LINES_PER_CHUNK + 1
  THEN counter' = 0 /\ part' = part + 1 /\ files' = [fs EXCEPT ![cur] = Append(@, <<>>)]
  ELSE counter' = c /\ part' = part /\ files' = fs

\* The end of the handler: past MAX_LINES_PER_CHUNK the next part starts,
\* and the lines still buffered stay in the buffer.
NextChunk(c, fs) ==
  IF c > MAX_LINES_PER_CHUNK
  THEN /\ counter' = 0
       /\ part' = part + 1
       /\ files' = [fs EXCEPT ![cur] = Append(@, <<>>)]
  ELSE counter' = c /\ part' = part /\ files' = fs

\* The handler takes a report off the queue; the part every outcome shares.
TakeReport ==
  /\ NextItem("report")
  /\ queue' = Tail(queue)
  /\ UNCHANGED <<mapVars, batch, sessionVars, threadVars, detected, clicks,
                 edits, sent, due>>

\* The buffer with the head report's line added, and the counter.
Lines == Append(buf, Head(queue).line)
BatchFull == (counter + 1) % batch = 0

\* The batch is not full yet: the line is only buffered.
BufferLine ==
  /\ TakeReport
  /\ batch # 0 /\ ~BatchFull
  /\ buf' = Lines
  /\ NextChunk(counter + 1, files)
  /\ UNCHANGED failures

\* The batch is full: the buffer is appended to the file and reset.
FlushBatch ==
  /\ TakeReport
  /\ batch # 0 /\ BatchFull
  /\ resetReportLogBuffer
  /\ NextChunk(counter + 1, Appended(files, Lines))
  /\ UNCHANGED failures

BufferAfterFailure_Reset == buf' = <<>>
BufferAfterFailure == buf' = Lines

\* The append throws after n lines reached the file.  The handler's catch
\* leaves the buffer as it is and skips the step to the next chunk.
FlushFails(n) ==
  /\ TakeReport
  /\ batch # 0 /\ BatchFull /\ failures < MaxFailures
  /\ n <= Len(Lines)
  /\ BufferAfterFailure
  /\ counter' = counter + 1
  /\ files' = Appended(files, SubSeq(Lines, 1, n))
  /\ failures' = failures + 1
  /\ UNCHANGED part

\* A batch size of 0 makes the modulo throw: the line stays buffered.
BatchOfZero ==
  /\ TakeReport
  /\ batch = 0
  /\ buf' = Lines
  /\ counter' = counter + 1
  /\ UNCHANGED <<part, files, failures>>
-----------------------------------------------------------------------------
(* The play/stop item of MapActivity, StartTracing and StopTracing.        *)

CheckIfTraceActive == mon # 0 /\ active[mon]

\* The start branch: the item turns to "stop" whether or not the service
\* could start tracing.  StartTracing opens part 1 of a new session, drops
\* what is still in the buffer and starts the new thread.
StartBranch ==
  /\ running' = TRUE
  /\ IF ready /\ ~CheckIfTraceActive
     THEN /\ cur < MaxSessions
          /\ cur' = cur + 1 /\ mon' = cur + 1
          /\ active' = [active EXCEPT ![cur + 1] = TRUE]
          /\ pc' = [pc EXCEPT ![cur + 1] = "loop"]
          /\ part' = 1 /\ counter' = 0
          /\ resetReportLogBuffer
          /\ files' = [files EXCEPT ![cur + 1] = << <<>> >>]
     ELSE UNCHANGED <<cur, mon, active, pc, part, counter, buf, files>>
  /\ UNCHANGED <<ready, batch, summary, joining, counted, sampled, report,
                 detected, envVars, sent, due>>

ClickStarts ==
  /\ NextItem("click") /\ ~running
  /\ queue' = Tail(queue)
  /\ UNCHANGED dialog
  /\ StartBranch

\* On Wi-Fi the click only opens the confirmation dialog.
ClickAsks ==
  /\ NextItem("click") /\ ~running
  /\ queue' = Tail(queue)
  /\ dialog' = TRUE
  /\ UNCHANGED <<running, ready, logVars, sessionVars, threadVars, detected,
                 envVars, sent, due>>

DialogStarts ==
  /\ NextItem("yes")
  /\ queue' = Tail(queue)
  /\ UNCHANGED dialog
  /\ StartBranch

\* The stop branch up to StopTracing.
TakeStopClick ==
  /\ NextItem("click") /\ running
  /\ queue' = Tail(queue)
  /\ running' = FALSE
  /\ due' = IF cur = 0 THEN due
            ELSE [due EXCEPT ![cur] = @ \cup {l \in Head(queue).sent : l[1] = cur}]
  /\ UNCHANGED <<ready, dialog, batch, counter, part, cur, counted, pc,
                 sampled, report, detected, clicks, edits, sent>>

\* The trace is not active (never started, or its thread died), so
\* StopTracing is not called.
StopWithoutTrace ==
  /\ TakeStopClick
  /\ ~CheckIfTraceActive
  /\ UNCHANGED <<mon, active, buf, files, joining, summary, failures>>

SaveUnsavedLogs_Skip == files' = files
SaveUnsavedLogs == files' = Appended(files, buf)

SummaryEntry_NextPart == [parts |-> part + 1, counted |-> counted[cur]]
SummaryEntry == [parts |-> part, counted |-> counted[cur]]

Deactivate_Not == UNCHANGED active
Deactivate == active' = [active EXCEPT ![mon] = FALSE]

\* StopTracing: flush the buffer, write the summary entry (an exception there
\* is swallowed: ok is FALSE), then wait for the thread in join().
StopTracing(ok) ==
  /\ TakeStopClick
  /\ CheckIfTraceActive
  /\ Deactivate
  /\ SaveUnsavedLogs
  /\ resetReportLogBuffer
  /\ summary' = IF ok THEN [summary EXCEPT ![cur] = Append(@, SummaryEntry)]
                      ELSE summary
  /\ failures' = IF ok THEN failures ELSE failures + 1
  /\ failures' <= MaxFailures
  /\ joining' = TRUE
  /\ UNCHANGED mon

\* The flush throws after n lines reached the file: no summary entry, no
\* join, and the finally block forgets the thread.
StopTracingFails(n) ==
  /\ TakeStopClick
  /\ CheckIfTraceActive
  /\ buf # <<>> /\ n <= Len(buf) /\ failures < MaxFailures
  /\ Deactivate
  /\ files' = Appended(files, SubSeq(buf, 1, n))
  /\ failures' = failures + 1
  /\ mon' = 0
  /\ UNCHANGED <<buf, summary, joining>>

\* join() returns once the thread has left run().
JoinReturns ==
  /\ joining /\ pc[mon] = "done"
  /\ joining' = FALSE
  /\ mon' = 0
  /\ UNCHANGED <<mapVars, queue, logVars, cur, summary, threadVars, detected,
                 envVars, sent, due>>
-----------------------------------------------------------------------------
(* MonitoringThread.run                                                    *)

\* The loop test.  MaxSamples bounds the iterations of an active thread; the
\* thread of a later session is given fewer.
LoopTest(t) ==
  /\ pc[t] = "loop"
  /\ active[t] => sampled[t] + t <= MaxSamples
  /\ pc' = [pc EXCEPT ![t] = IF active[t] THEN "sample" ELSE "done"]
  /\ UNCHANGED <<mapVars, queue, logVars, sessionVars, counted, active,
                 sampled, report, detected, envVars, sent, due>>

\* NetworkInfoToReport returned a report.
Sample(t) ==
  /\ pc[t] = "sample"
  /\ sampled' = [sampled EXCEPT ![t] = @ + 1]
  /\ report' = <<t, sampled[t] + 1>>
  /\ pc' = [pc EXCEPT ![t] = "send"]
  /\ UNCHANGED <<mapVars, queue, logVars, sessionVars, counted, active,
                 detected, envVars, sent, due>>

\* The thread ends with an exception: the finally block clears ThreadActive.
Die(t) ==
  /\ pc' = [pc EXCEPT ![t] = "done"]
  /\ active' = [active EXCEPT ![t] = FALSE]

\* NetworkInfoToReport returned null.  Once an activity update has arrived,
\* report.setActivities dereferences it before the null test.
SampleFails(t) ==
  /\ pc[t] = "sample"
  /\ report' = NoReport
  /\ IF detected THEN Die(t)
     ELSE pc' = [pc EXCEPT ![t] = "loop"] /\ UNCHANGED active
  /\ UNCHANGED <<mapVars, queue, logVars, sessionVars, counted, sampled,
                 detected, envVars, sent, due>>

\* The null test and sendMessage, on whatever the shared field holds now.
Send(t) ==
  /\ pc[t] = "send"
  /\ IF report = NoReport
     THEN /\ pc' = [pc EXCEPT ![t] = "loop"]
          /\ UNCHANGED <<queue, sent>>
     ELSE /\ pc' = [pc EXCEPT ![t] = "process"]
          /\ queue' = Append(queue, [kind |-> "report", line |-> report])
          /\ sent' = sent \cup {report}
  /\ UNCHANGED <<mapVars, logVars, sessionVars, counted, active, sampled,
                 report, detected, envVars, due>>

\* curSession.processNetworkReport, the broadcast and the sleep.  A report
\* that another thread has set to null in between kills this one.
Process(t) ==
  /\ pc[t] = "process"
  /\ IF report = NoReport
     THEN Die(t) /\ UNCHANGED counted
     ELSE /\ counted' = [counted EXCEPT ![cur] = @ + 1]
          /\ pc' = [pc EXCEPT ![t] = "loop"]
          /\ UNCHANGED active
  /\ UNCHANGED <<mapVars, queue, logVars, sessionVars, sampled, report,
                 detected, envVars, sent, due>>
-----------------------------------------------------------------------------
Thread(t) ==
  LoopTest(t) \/ Sample(t) \/ SampleFails(t) \/ Send(t) \/ Process(t)

HandleReport ==
  \/ BufferLine \/ FlushBatch \/ BatchOfZero
  \/ \E n \in 0 .. Len(buf) + 1 : FlushFails(n)

HandleClick ==
  \/ ClickStarts \/ ClickAsks \/ DialogStarts \/ StopWithoutTrace
  \/ \E ok \in BOOLEAN : StopTracing(ok)
  \/ \E n \in 0 .. Len(buf) : StopTracingFails(n)

Main == HandleReport \/ HandleClick \/ JoinReturns

Environment ==
  \/ BecomeReady \/ DetectActivities \/ Click
  \/ \E yes \in BOOLEAN : AnswerDialog(yes)
  \/ \E b \in Batches : SaveTracerDialog(b)

Next == Main \/ Environment \/ \E t \in Sessions : Thread(t)

Spec == Init /\ [][Next]_vars

\* While the looper or a thread can run, one of them does; the user owes nothing.
FairSpec == Spec /\ WF_vars(Main \/ \E t \in Sessions : Thread(t))
-----------------------------------------------------------------------------
(* Properties                                                              *)

Posted(s) == {l \in sent : l[1] = s}
LinesOf(seq) == {seq[i] : i \in 1 .. Len(seq)}
InParts(parts) == UNION {LinesOf(parts[p]) : p \in 1 .. Len(parts)}
Ahead(n) == {queue[i].line : i \in {j \in 1 .. n : queue[j].kind = "report"}}

\* The lines of the queue, in its order; NoReport stands for a click.
Queued == [i \in 1 .. Len(queue) |-> IF queue[i].kind = "report" THEN queue[i].line ELSE NoReport]

\* The reports of session s are in sampling order, each once: in a sequence, in one set
\* of lines after another, and in the parts of a log one after the other.
InOrder(s, seq) ==
  \A i, j \in 1 .. Len(seq) : i < j /\ seq[i][1] = s /\ seq[j][1] = s => seq[i][2] < seq[j][2]
Before(s, lines, later) ==
  \A l \in lines, m \in later : l[1] = s /\ m[1] = s => l[2] < m[2]
PartsInOrder(s, parts) ==
  /\ \A p \in 1 .. Len(parts) : InOrder(s, parts[p])
  /\ \A p, q \in 1 .. Len(parts) : p < q => Before(s, LinesOf(parts[p]), LinesOf(parts[q]))

\* With a report of session s, some lines hold all that were sampled before it.
GapFree(s, lines) == \A l \in lines : l[1] = s => \A k \in 1 .. l[2] : <<s, k>> \in lines

\* Without write errors, every report a session's thread posts to the looper
\* is, exactly once and in sampling order, in the session's files, then in the
\* buffer, then in the queue, until the next session starts; and the files of
\* every session hold a gap-free prefix of its reports (handleMessage and
\* StopTracing never drop, repeat or reorder a line across flushes and parts).
ExactlyOnceInOrder ==
  failures = 0 =>
    \A s \in 1 .. cur :
      /\ PartsInOrder(s, files[s]) /\ GapFree(s, InParts(files[s]))
      /\ s = cur => LET stages == files[s] \o <<buf, Queued>>
                    IN  /\ PartsInOrder(s, stages)
                        /\ {l \in InParts(stages) : l[1] = s} = Posted(s)
                        /\ GapFree(s, Posted(s))

\* Even when appends throw half way, no posted report of the current session
\* is lost: it is in a file, in the buffer or in the queue (the handler resets
\* the buffer only after the append has succeeded).
NothingLost ==
  cur # 0 => Posted(cur) \subseteq
               InParts(files[cur]) \cup LinesOf(buf) \cup Ahead(Len(queue))

\* When StopTracing has written a session's summary entry, every report that
\* had been posted before the user's Stop click is in the session's files.
StopSavesPostedLines ==
  \A s \in Sessions : summary[s] # <<>> => due[s] \subseteq InParts(files[s])

\* A session has at most one summary entry, it counts every report posted
\* before the Stop click but at most the last one (the thread posts a report
\* before it gives it to the summary), and it names no part without a file.
SummaryLag ==
  failures = 0 =>
    \A s \in Sessions : summary[s] # <<>> =>
      /\ Len(summary[s]) = 1
      /\ \A l \in due[s] : l[2] <= summary[s][1].counted + 1
      /\ summary[s][1].parts <= Len(files[s])

\* Without write errors and batch size changes no part file ever holds more
\* than MAX_LINES_PER_CHUNK + 1 lines (one more than the comment on the constant
\* says, because the test is counter > MAX_LINES_PER_CHUNK): the line that triggers the step to the
\* next part is either the extra one of its own part or of the next.
ChunkBound ==
  (failures = 0 /\ edits = 0) =>
    \A s \in Sessions : \A p \in DOMAIN files[s] :
      Len(files[s][p]) <= MAX_LINES_PER_CHUNK + 1

\* StopTracing's "save unsaved logs": once the Stop click of a session has been
\* handled without a write error, every report posted before it is in a file.
StopSavesUnsavedLogs ==
  failures = 0 => \A s \in Sessions : due[s] \subseteq InParts(files[s])

\* The main thread always comes back from join(): the thread it waits for
\* sees ThreadActive = FALSE at the next loop test.
StopReturns == joining ~> ~joining
=============================================================================
