--------------------------- MODULE TraceLogProofs ---------------------------
(***************************************************************************)
(* Proofs about the trace logger, for every value of its constants: its    *)
(* types, the bound on the size of a part file, and what becomes of the    *)
(* lines.  None that a thread has posted is lost, and a session with a     *)
(* summary entry has on disk what was posted before its Stop click,        *)
(* whatever appends throw half way.  While no write fails, the summary     *)
(* entry lags by at most one report, and the reports of every session are  *)
(* in its files, in the buffer and in the queue exactly once and in order. *)
(***************************************************************************)
EXTENDS TraceLog, TLAPS

\* A thread past the loop test may still sample within the bound.
SampleInv == \A t \in Sessions : pc[t] = "sample" => sampled[t] < MaxSamples

\* Before the first session nothing can write, and from then on the open part
\* is the last one of the current session.
FileInv ==
  /\ cur = 0 => /\ mon = 0
                /\ \A t \in Sessions : pc[t] = "new"
                /\ \A i \in 1 .. Len(queue) : queue[i].kind # "report"
  /\ cur # 0 => part = Len(files[cur]) /\ part # 0

\* The inductive invariant behind type correctness.
TypeInv == TypeOK /\ SampleInv /\ FileInv

\* Appending lines to the open part keeps the files well-typed and the number
\* of parts as it is.
LEMMA AppendedType ==
  ASSUME files \in [Sessions -> Seq(Seq(Line))],
         cur \in Sessions, part \in 1 .. Len(files[cur]),
         NEW lines \in Seq(Line)
  PROVE  /\ Appended(files, lines) \in [Sessions -> Seq(Seq(Line))]
         /\ Len(Appended(files, lines)[cur]) = Len(files[cur])
         /\ Appended(files, lines)[cur][part] = files[cur][part] \o lines
         /\ \A p \in 1 .. Len(files[cur]) :
              p # part => Appended(files, lines)[cur][p] = files[cur][p]
         /\ \A s \in Sessions : s # cur => Appended(files, lines)[s] = files[s]
<1> DEFINE parts == [files[cur] EXCEPT ![part] = @ \o lines]
<1>1. files[cur] \in Seq(Seq(Line))
  BY ZenonT(60)
<1>2. files[cur][part] \o lines \in Seq(Line)
  BY <1>1, SMTT(30)
<1>3. parts \in Seq(Seq(Line)) /\ Len(parts) = Len(files[cur])
  BY <1>1, <1>2, SMTT(30)
<1>4. /\ parts[part] = files[cur][part] \o lines
      /\ \A p \in 1 .. Len(files[cur]) : p # part => parts[p] = files[cur][p]
  BY <1>1, SMTT(30)
<1>5. Appended(files, lines) = [files EXCEPT ![cur] = parts]
  BY ZenonT(60) DEF Appended
<1> HIDE DEF parts
<1>6. QED
  BY <1>3, <1>4, <1>5, ZenonT(60)

\* The end of the handler keeps counter, part and files well-typed, and the
\* open part the last one.
LEMMA NextChunkType ==
  ASSUME cur \in Sessions, part \in Nat, NEW c \in Nat,
         NEW fs \in [Sessions -> Seq(Seq(Line))], part = Len(fs[cur]), part # 0,
         NextChunk(c, fs)
  PROVE  /\ counter' \in Nat /\ part' \in Nat
         /\ files' \in [Sessions -> Seq(Seq(Line))]
         /\ part' = Len(files'[cur]) /\ part' # 0
<1>1. /\ Append(fs[cur], <<>>) \in Seq(Seq(Line))
      /\ Len(Append(fs[cur], <<>>)) = part + 1
  BY SMTT(30)
<1>2. CASE c > MAX_LINES_PER_CHUNK
  <2>1. /\ counter' = 0 /\ part' = part + 1
        /\ files' = [fs EXCEPT ![cur] = Append(fs[cur], <<>>)]
    BY <1>2, ZenonT(60) DEF NextChunk
  <2>2. files' \in [Sessions -> Seq(Seq(Line))] /\ files'[cur] = Append(fs[cur], <<>>)
    BY <1>1, <2>1, ZenonT(60)
  <2>3. QED
    BY <1>1, <2>1, <2>2, SMTT(30)
<1>3. CASE ~(c > MAX_LINES_PER_CHUNK)
  BY <1>3, ZenonT(60) DEF NextChunk
<1>4. QED
  BY <1>2, <1>3, ZenonT(60)

\* The buffer with the head report's line added is well-typed.
LEMMA LinesType ==
  ASSUME TypeOK, NextItem("report")
  PROVE  /\ Lines \in Seq(Line)
         /\ Tail(queue) \in Seq(Item)
         /\ Len(Lines) = Len(buf) + 1
<1>1. Head(queue) \in Item
  BY SMTT(30) DEF TypeOK, QueueType, NextItem
<1>2. Head(queue).line \in Line
  BY <1>1, ZenonT(60) DEF NextItem, Item
<1>3. QED
  BY <1>2, SMTT(30) DEF TypeOK, QueueType, LogType, NextItem, Lines

\* Taking the head item off the queue keeps it well-typed and adds no report.
LEMMA TailQueue ==
  ASSUME TypeOK, NEW kind, NextItem(kind)
  PROVE  /\ Head(queue) \in Item /\ Head(queue).kind = kind
         /\ Tail(queue) \in Seq(Item)
         /\ (\A i \in 1 .. Len(queue) : queue[i].kind # "report")
              => \A i \in 1 .. Len(Tail(queue)) : Tail(queue)[i].kind # "report"
BY SMTT(30) DEF TypeOK, QueueType, NextItem

\* A group of variables that a step leaves alone keeps its type.
LEMMA Untouched ==
  /\ MapType /\ UNCHANGED mapVars => MapType'
  /\ QueueType /\ UNCHANGED queue => QueueType'
  /\ LogType /\ UNCHANGED logVars => LogType'
  /\ SessionType /\ UNCHANGED sessionVars => SessionType'
  /\ ThreadType /\ UNCHANGED threadVars => ThreadType'
  /\ EnvType /\ UNCHANGED <<envVars, detected, sent, due>> => EnvType'
<1>1. MapType /\ UNCHANGED mapVars => MapType'
  BY ZenonT(60) DEF MapType, mapVars
<1>2. QueueType /\ UNCHANGED queue => QueueType'
  BY ZenonT(60) DEF QueueType
<1>3. LogType /\ UNCHANGED logVars => LogType'
  BY ZenonT(60) DEF LogType, logVars
<1>4. SessionType /\ UNCHANGED sessionVars => SessionType'
  BY ZenonT(60) DEF SessionType, sessionVars
<1>5. ThreadType /\ UNCHANGED threadVars => ThreadType'
  BY ZenonT(60) DEF ThreadType, threadVars
<1>6. EnvType /\ UNCHANGED <<envVars, detected, sent, due>> => EnvType'
  BY ZenonT(60) DEF EnvType, envVars
<1>7. QED
  BY <1>1, <1>2, <1>3, <1>4, <1>5, <1>6, ZenonT(60)

\* A step that leaves the threads, and one that leaves the sessions, the parts
\* and the kinds of the queued items alone, keeps the two structural facts.
LEMMA UntouchedInv ==
  /\ SampleInv /\ UNCHANGED <<pc, sampled>> => SampleInv'
  /\ FileInv /\ UNCHANGED <<cur, mon, pc, queue, part, files>> => FileInv'
BY ZenonT(60) DEF SampleInv, FileInv

\* The user and the callbacks keep the type invariant.
LEMMA EnvironmentType == TypeInv /\ Environment => TypeInv'
<1> SUFFICES ASSUME TypeInv, Environment PROVE TypeInv'
  BY ZenonT(60)
<1> USE Untouched, UntouchedInv DEF TypeInv, TypeOK
<1>1. CASE BecomeReady
  <2>1. MapType'
    BY <1>1, ZenonT(60) DEF BecomeReady, MapType
  <2>2. UNCHANGED <<pc, sampled>> /\ UNCHANGED <<cur, mon, pc, queue, part, files>>
    BY <1>1, ZenonT(60) DEF BecomeReady, logVars, sessionVars, threadVars
  <2>3. QED
    BY <1>1, <2>1, <2>2, ZenonT(60) DEF BecomeReady
<1>2. CASE DetectActivities
  <2>1. EnvType'
    BY <1>2, ZenonT(60) DEF DetectActivities, EnvType, envVars
  <2>2. UNCHANGED <<pc, sampled>> /\ UNCHANGED <<cur, mon, pc, queue, part, files>>
    BY <1>2, ZenonT(60) DEF DetectActivities, logVars, sessionVars, threadVars
  <2>3. QED
    BY <1>2, <2>1, <2>2, ZenonT(60) DEF DetectActivities
<1>3. CASE Click
  <2>1. [kind |-> "click", sent |-> sent] \in Item
    BY ZenonT(60) DEF EnvType, Item
  <2>2. QueueType'
    BY <1>3, <2>1, SMTT(30) DEF Click, QueueType
  <2>3. EnvType'
    BY <1>3, LogConstants, SMTT(30) DEF Click, EnvType
  <2>4. FileInv'
    BY <1>3, SMTT(30) DEF Click, FileInv, QueueType, logVars, sessionVars, threadVars
  <2>5. UNCHANGED <<pc, sampled>>
    BY <1>3, ZenonT(60) DEF Click, threadVars
  <2>6. QED
    BY <1>3, <2>2, <2>3, <2>4, <2>5, ZenonT(60) DEF Click
<1>4. ASSUME NEW yes \in BOOLEAN, AnswerDialog(yes)
      PROVE  TypeInv'
  <2>1. [kind |-> "yes"] \in Item
    BY ZenonT(60) DEF Item
  <2>2. QueueType'
    BY <1>4, <2>1, SMTT(30) DEF AnswerDialog, QueueType
  <2>3. MapType'
    BY <1>4, ZenonT(60) DEF AnswerDialog, MapType
  <2>4. FileInv'
    BY <1>4, SMTT(30) DEF AnswerDialog, FileInv, QueueType, logVars, sessionVars, threadVars
  <2>5. UNCHANGED <<pc, sampled>>
    BY <1>4, ZenonT(60) DEF AnswerDialog, threadVars
  <2>6. QED
    BY <1>4, <2>2, <2>3, <2>4, <2>5, ZenonT(60) DEF AnswerDialog
<1>5. ASSUME NEW b \in Batches, SaveTracerDialog(b)
      PROVE  TypeInv'
  <2>1. LogType'
    BY <1>5, LogConstants, ZenonT(60) DEF SaveTracerDialog, LogType
  <2>2. EnvType'
    BY <1>5, LogConstants, SMTT(30) DEF SaveTracerDialog, EnvType
  <2>3. UNCHANGED <<pc, sampled>> /\ UNCHANGED <<cur, mon, pc, queue, part, files>>
    BY <1>5, ZenonT(60) DEF SaveTracerDialog, sessionVars, threadVars
  <2>4. QED
    BY <1>5, <2>1, <2>2, <2>3, ZenonT(60) DEF SaveTracerDialog
<1>6. QED
  BY <1>1, <1>2, <1>3, <1>4, <1>5, ZenonT(60) DEF Environment

\* What handling a report may rely on: a session has started, its open part
\* exists, and the buffer with the new line is well-typed.
LEMMA ReportFacts ==
  ASSUME TypeInv, TakeReport
  PROVE  /\ cur \in Sessions /\ cur # 0
         /\ part \in Nat /\ part # 0 /\ part = Len(files[cur])
         /\ part \in 1 .. Len(files[cur])
         /\ files \in [Sessions -> Seq(Seq(Line))]
         /\ Lines \in Seq(Line) /\ Len(Lines) = Len(buf) + 1
         /\ counter + 1 \in Nat
         /\ QueueType' /\ MapType' /\ SessionType' /\ ThreadType' /\ SampleInv'
         /\ UNCHANGED <<cur, mon, pc, batch>>
<1>1. TypeOK /\ NextItem("report") /\ FileInv
  BY ZenonT(60) DEF TypeInv, TakeReport
<1>2. Lines \in Seq(Line) /\ Len(Lines) = Len(buf) + 1
  BY <1>1, LinesType, ZenonT(60)
<1>3. cur # 0
  <2>1. queue \in Seq(Item) /\ queue # <<>> /\ Head(queue).kind = "report"
    BY <1>1, ZenonT(60) DEF NextItem, TypeOK, QueueType
  <2>2. 1 \in 1 .. Len(queue) /\ queue[1].kind = "report"
    BY <2>1, SMTT(30)
  <2>3. QED
    BY <1>1, <2>2, ZenonT(60) DEF FileInv
<1>4. cur \in Sessions
  BY <1>1, <1>3, SMTT(30) DEF TypeOK, SessionType, Sessions
<1>5. /\ part \in Nat /\ part # 0 /\ part = Len(files[cur]) /\ counter + 1 \in Nat
      /\ files \in [Sessions -> Seq(Seq(Line))]
  BY <1>1, <1>3, SMTT(30) DEF FileInv, TypeOK, LogType
<1>6. part \in 1 .. Len(files[cur])
  BY <1>5, SMTT(30)
<1>7. QueueType'
  BY <1>1, LinesType, ZenonT(60) DEF TakeReport, QueueType
<1>8. MapType' /\ SessionType' /\ ThreadType'
  BY <1>1, Untouched, ZenonT(60) DEF TakeReport, TypeOK
<1>9. UNCHANGED <<cur, mon, pc, sampled, batch>>
  BY ZenonT(60) DEF TakeReport, sessionVars, threadVars
<1>10. SampleInv'
  BY <1>9, UntouchedInv, ZenonT(60) DEF TypeInv
<1>11. QED
  BY <1>2, <1>3, <1>4, <1>5, <1>6, <1>7, <1>8, <1>9, <1>10, ZenonT(60)

\* The handler of report messages keeps the type invariant.
LEMMA HandleReportType == TypeInv /\ HandleReport => TypeInv'
<1> SUFFICES ASSUME TypeInv, HandleReport PROVE TypeInv'
  BY ZenonT(60)
<1>1. ASSUME TakeReport,
             counter' \in Nat, part' \in Nat, buf' \in Seq(Line),
             files' \in [Sessions -> Seq(Seq(Line))],
             part' = Len(files'[cur]), part' # 0, failures' \in 0 .. MaxFailures
      PROVE  TypeInv'
  <2>1. LogType'
    BY <1>1, ReportFacts, ZenonT(60) DEF LogType, TypeInv, TypeOK
  <2>2. EnvType'
    BY <1>1, ZenonT(60) DEF TypeInv, TypeOK, EnvType, TakeReport
  <2>3. FileInv'
    BY <1>1, ReportFacts, ZenonT(60) DEF FileInv
  <2>4. QED
    BY <1>1, <2>1, <2>2, <2>3, ReportFacts, ZenonT(60) DEF TypeInv, TypeOK
<1>2. failures \in 0 .. MaxFailures
  BY ZenonT(60) DEF TypeInv, TypeOK, EnvType
<1>3. CASE BufferLine
  <2>1. TakeReport /\ NextChunk(counter + 1, files) /\ buf' = Lines /\ failures' = failures
    BY <1>3, ZenonT(60) DEF BufferLine
  <2>2. QED
    BY <1>1, <1>2, <2>1, ReportFacts, NextChunkType, ZenonT(60)
<1>4. CASE FlushBatch
  <2>1. /\ TakeReport /\ NextChunk(counter + 1, Appended(files, Lines))
        /\ buf' = <<>> /\ failures' = failures
    BY <1>4, ZenonT(60) DEF FlushBatch, resetReportLogBuffer
  <2>2. /\ Appended(files, Lines) \in [Sessions -> Seq(Seq(Line))]
        /\ part = Len(Appended(files, Lines)[cur])
    BY <2>1, ReportFacts, AppendedType, ZenonT(60)
  <2>3. buf' \in Seq(Line)
    BY <2>1, SMTT(30)
  <2>4. QED
    BY <1>1, <1>2, <2>1, <2>2, <2>3, ReportFacts, NextChunkType, ZenonT(60)
<1>5. ASSUME NEW n \in 0 .. Len(buf) + 1, FlushFails(n)
      PROVE  TypeInv'
  <2>1. /\ TakeReport /\ buf' = Lines /\ counter' = counter + 1 /\ part' = part
        /\ files' = Appended(files, SubSeq(Lines, 1, n))
        /\ failures' = failures + 1 /\ failures < MaxFailures /\ n <= Len(Lines)
    BY <1>5, ZenonT(60) DEF FlushFails, BufferAfterFailure
  <2>2. SubSeq(Lines, 1, n) \in Seq(Line)
    BY <2>1, ReportFacts, SMTT(30)
  <2>3. /\ files' \in [Sessions -> Seq(Seq(Line))]
        /\ part' = Len(files'[cur])
    BY <2>1, <2>2, ReportFacts, AppendedType, ZenonT(60)
  <2>4. failures' \in 0 .. MaxFailures
    BY <1>2, <2>1, LogConstants, SMTT(30)
  <2>5. QED
    BY <1>1, <2>1, <2>3, <2>4, ReportFacts, ZenonT(60)
<1>6. CASE BatchOfZero
  <2>1. /\ TakeReport /\ buf' = Lines /\ counter' = counter + 1
        /\ UNCHANGED <<part, files, failures>>
    BY <1>6, ZenonT(60) DEF BatchOfZero
  <2>2. QED
    BY <1>1, <1>2, <2>1, ReportFacts, ZenonT(60)
<1>7. QED
  BY <1>3, <1>4, <1>5, <1>6, ZenonT(60) DEF HandleReport

\* StartTracing, and the click or the dialog that calls it, keep the type
\* invariant.
LEMMA StartBranchType ==
  ASSUME TypeInv, StartBranch, NEW kind, NextItem(kind), queue' = Tail(queue),
         UNCHANGED dialog
  PROVE  TypeInv'
<1>1. QueueType'
  BY TailQueue, ZenonT(60) DEF TypeInv, QueueType
<1>2. MapType' /\ EnvType'
  BY ZenonT(60) DEF StartBranch, TypeInv, TypeOK, MapType, EnvType, envVars
<1>3. UNCHANGED <<batch, summary, joining, counted, sampled, report>>
  BY ZenonT(60) DEF StartBranch
<1>4. CASE ready /\ ~CheckIfTraceActive
  <2>0. /\ cur < MaxSessions
        /\ cur' = cur + 1 /\ mon' = cur + 1 /\ part' = 1 /\ counter' = 0
        /\ buf' = <<>>
        /\ active' = [active EXCEPT ![cur + 1] = TRUE]
        /\ pc' = [pc EXCEPT ![cur + 1] = "loop"]
        /\ files' = [files EXCEPT ![cur + 1] = << <<>> >>]
    BY <1>4, ZenonT(60) DEF StartBranch, resetReportLogBuffer
  <2>1. cur + 1 \in Sessions /\ cur + 1 # 0
    BY <2>0, LogConstants, SMTT(30) DEF TypeInv, TypeOK, SessionType, Sessions
  <2>2. << <<>> >> \in Seq(Seq(Line)) /\ Len(<< <<>> >>) = 1
    BY SMTT(30)
  <2>3. files' \in [Sessions -> Seq(Seq(Line))] /\ files'[cur + 1] = << <<>> >>
    BY <2>0, <2>1, <2>2, ZenonT(60) DEF TypeInv, TypeOK, LogType
  <2>4. LogType'
    BY <1>3, <2>0, <2>3, SMTT(30) DEF TypeInv, TypeOK, LogType
  <2>5. SessionType'
    BY <1>3, <2>0, <2>1, SMTT(30) DEF TypeInv, TypeOK, SessionType, Sessions
  <2>6. ThreadType'
    BY <1>3, <2>0, <2>1, ZenonT(60) DEF TypeInv, TypeOK, ThreadType
  <2>7. SampleInv'
    BY <1>3, <2>0, <2>1, ZenonT(60) DEF TypeInv, TypeOK, ThreadType, SampleInv
  <2>8. FileInv'
    BY <2>0, <2>1, <2>2, <2>3, SMTT(30) DEF FileInv
  <2>9. QED
    BY <1>1, <1>2, <2>4, <2>5, <2>6, <2>7, <2>8, ZenonT(60) DEF TypeInv, TypeOK
<1>5. CASE ~(ready /\ ~CheckIfTraceActive)
  <2>1. UNCHANGED <<cur, mon, active, pc, part, counter, buf, files>>
    BY <1>5, ZenonT(60) DEF StartBranch
  <2>2. LogType' /\ SessionType' /\ ThreadType'
    BY <1>3, <2>1, ZenonT(60) DEF TypeInv, TypeOK, LogType, SessionType, ThreadType
  <2>3. SampleInv'
    BY <1>3, <2>1, UntouchedInv, ZenonT(60) DEF TypeInv
  <2>4. FileInv'
    BY <2>1, TailQueue, ZenonT(60) DEF TypeInv, FileInv
  <2>5. QED
    BY <1>1, <1>2, <2>2, <2>3, <2>4, ZenonT(60) DEF TypeInv, TypeOK
<1>6. QED
  BY <1>4, <1>5, ZenonT(60)

\* What the stop branch may rely on, and what it keeps whatever StopTracing does.
LEMMA StopClickFacts ==
  ASSUME TypeInv, TakeStopClick
  PROVE  /\ MapType' /\ QueueType' /\ SampleInv'
         /\ due' \in [Sessions -> SUBSET Line]
         /\ (\A i \in 1 .. Len(queue) : queue[i].kind # "report")
              => \A i \in 1 .. Len(queue') : queue'[i].kind # "report"
         /\ UNCHANGED <<cur, part, pc, batch, counter>>
         /\ UNCHANGED <<counted, sampled, report, detected, clicks, edits, sent>>
<1>1. UNCHANGED <<ready, dialog, batch, counter, part, cur, counted, pc, sampled, report,
                  detected, clicks, edits, sent>>
  BY ZenonT(60) DEF TakeStopClick
<1>2. MapType'
  BY <1>1, ZenonT(60) DEF TakeStopClick, TypeInv, TypeOK, MapType
<1>3. /\ NextItem("click") /\ TypeOK /\ queue' = Tail(queue)
  BY ZenonT(60) DEF TakeStopClick, TypeInv
<1>4. Head(queue) \in Item /\ Head(queue).kind = "click"
  BY <1>3, TailQueue, ZenonT(60)
<1>5. Head(queue).sent \in SUBSET Line
  BY <1>4, ZenonT(60) DEF Item
<1>6. due' \in [Sessions -> SUBSET Line]
  BY <1>5, ZenonT(60) DEF TakeStopClick, TypeInv, TypeOK, EnvType
<1>7. QueueType'
  BY <1>3, TailQueue, ZenonT(60) DEF QueueType
<1>8. SampleInv'
  BY <1>1, UntouchedInv, ZenonT(60) DEF TypeInv
<1>9. QED
  BY <1>1, <1>2, <1>3, <1>6, <1>7, <1>8, TailQueue, ZenonT(60)

\* The stop branch with its three outcomes keeps the type invariant.
LEMMA StopType ==
  ASSUME TypeInv,
         \/ StopWithoutTrace
         \/ \E ok \in BOOLEAN : StopTracing(ok)
         \/ \E n \in 0 .. Len(buf) : StopTracingFails(n)
  PROVE  TypeInv'
<1>1. TakeStopClick
  BY ZenonT(60) DEF StopWithoutTrace, StopTracing, StopTracingFails
<1>2. ASSUME buf' \in Seq(Line), files' \in [Sessions -> Seq(Seq(Line))],
             cur # 0 => Len(files'[cur]) = Len(files[cur]),
             active' \in [Sessions -> BOOLEAN], mon' \in {0, mon}, joining' \in BOOLEAN,
             summary' \in [Sessions -> Seq([parts : Nat, counted : Nat])],
             failures' \in 0 .. MaxFailures
      PROVE  TypeInv'
  <2>1. LogType'
    BY <1>1, <1>2, StopClickFacts, ZenonT(60) DEF TypeInv, TypeOK, LogType
  <2>2. SessionType'
    BY <1>1, <1>2, StopClickFacts, LogConstants, SMTT(30) DEF TypeInv, TypeOK, SessionType
  <2>3. ThreadType'
    BY <1>1, <1>2, StopClickFacts, ZenonT(60) DEF TypeInv, TypeOK, ThreadType
  <2>4. EnvType'
    BY <1>1, <1>2, StopClickFacts, ZenonT(60) DEF TypeInv, TypeOK, EnvType
  <2>5. FileInv'
    BY <1>1, <1>2, StopClickFacts, ZenonT(60) DEF TypeInv, FileInv
  <2>6. QED
    BY <1>1, <2>1, <2>2, <2>3, <2>4, <2>5, StopClickFacts, ZenonT(60) DEF TypeInv, TypeOK
<1>3. /\ buf \in Seq(Line) /\ files \in [Sessions -> Seq(Seq(Line))]
      /\ active \in [Sessions -> BOOLEAN] /\ joining \in BOOLEAN
      /\ summary \in [Sessions -> Seq([parts : Nat, counted : Nat])]
      /\ failures \in 0 .. MaxFailures
  BY ZenonT(60) DEF TypeInv, TypeOK, LogType, SessionType, ThreadType, EnvType
<1>4. CASE StopWithoutTrace
  BY <1>2, <1>3, <1>4, ZenonT(60) DEF StopWithoutTrace
<1>5. ASSUME CheckIfTraceActive
      PROVE  cur \in Sessions /\ part \in 1 .. Len(files[cur])
  BY <1>5, SMTT(30) DEF CheckIfTraceActive, TypeInv, TypeOK, SessionType, LogType, FileInv, Sessions
<1>6. ASSUME NEW ok \in BOOLEAN, StopTracing(ok)
      PROVE  TypeInv'
  <2>1. /\ CheckIfTraceActive
        /\ files' = Appended(files, buf) /\ buf' = <<>> /\ mon' = mon /\ joining' = TRUE
        /\ active' = [active EXCEPT ![mon] = FALSE]
    BY <1>6, ZenonT(60) DEF StopTracing, SaveUnsavedLogs, Deactivate, resetReportLogBuffer
  <2>2. files' \in [Sessions -> Seq(Seq(Line))] /\ Len(files'[cur]) = Len(files[cur])
    BY <1>3, <1>5, <2>1, AppendedType, ZenonT(60)
  <2>3. summary' \in [Sessions -> Seq([parts : Nat, counted : Nat])]
    <3>1. SummaryEntry \in [parts : Nat, counted : Nat]
      BY <1>5, <2>1, ZenonT(60) DEF SummaryEntry, TypeInv, TypeOK, LogType, ThreadType
    <3>2. Append(summary[cur], SummaryEntry) \in Seq([parts : Nat, counted : Nat])
      BY <1>3, <1>5, <2>1, <3>1, SMTT(30)
    <3>3. \/ summary' = summary
          \/ summary' = [summary EXCEPT ![cur] = Append(summary[cur], SummaryEntry)]
      BY <1>6, ZenonT(60) DEF StopTracing
    <3>4. QED
      BY <1>3, <3>2, <3>3, ZenonT(60)
  <2>4. failures' \in 0 .. MaxFailures
    BY <1>3, <1>6, LogConstants, SMTT(30) DEF StopTracing
  <2>5. active' \in [Sessions -> BOOLEAN]
    BY <1>3, <2>1, ZenonT(60)
  <2>6. buf' \in Seq(Line)
    BY <2>1, SMTT(30)
  <2>7. QED
    BY <1>2, <2>1, <2>2, <2>3, <2>4, <2>5, <2>6, ZenonT(60)
<1>7. ASSUME NEW n \in 0 .. Len(buf), StopTracingFails(n)
      PROVE  TypeInv'
  <2>1. /\ CheckIfTraceActive
        /\ files' = Appended(files, SubSeq(buf, 1, n)) /\ mon' = 0
        /\ active' = [active EXCEPT ![mon] = FALSE]
        /\ failures < MaxFailures /\ failures' = failures + 1
        /\ UNCHANGED <<buf, summary, joining>>
    BY <1>7, ZenonT(60) DEF StopTracingFails, Deactivate
  <2>2. SubSeq(buf, 1, n) \in Seq(Line)
    BY <1>3, SMTT(30)
  <2>3. files' \in [Sessions -> Seq(Seq(Line))] /\ Len(files'[cur]) = Len(files[cur])
    BY <1>3, <1>5, <2>1, <2>2, AppendedType, ZenonT(60)
  <2>4. failures' \in 0 .. MaxFailures
    BY <1>3, <2>1, LogConstants, SMTT(30)
  <2>5. active' \in [Sessions -> BOOLEAN]
    BY <1>3, <2>1, ZenonT(60)
  <2>6. QED
    BY <1>2, <1>3, <2>1, <2>3, <2>4, <2>5, ZenonT(60)
<1>8. QED
  BY <1>4, <1>6, <1>7, ZenonT(60)

\* The main thread's handlers keep the type invariant.
LEMMA MainType == TypeInv /\ Main => TypeInv'
<1> SUFFICES ASSUME TypeInv, Main PROVE TypeInv'
  BY ZenonT(60)
<1>1. CASE ClickStarts
  BY <1>1, StartBranchType, ZenonT(60) DEF ClickStarts
<1>2. CASE DialogStarts
  BY <1>2, StartBranchType, ZenonT(60) DEF DialogStarts
<1>3. CASE ClickAsks
  <2>1. NextItem("click") /\ queue' = Tail(queue) /\ TypeOK
    BY <1>3, ZenonT(60) DEF ClickAsks, TypeInv
  <2>2. MapType' /\ QueueType'
    BY <1>3, <2>1, TailQueue, ZenonT(60) DEF ClickAsks, TypeInv, TypeOK, MapType, QueueType
  <2>3. UNCHANGED <<pc, sampled>> /\ UNCHANGED <<cur, mon, part, files>>
    BY <1>3, ZenonT(60) DEF ClickAsks, logVars, sessionVars, threadVars
  <2>4. FileInv'
    BY <2>1, <2>3, TailQueue, ZenonT(60) DEF TypeInv, FileInv
  <2>5. QED
    BY <1>3, <2>2, <2>3, <2>4, Untouched, UntouchedInv, ZenonT(60) DEF ClickAsks, TypeInv, TypeOK
<1>4. CASE JoinReturns
  <2>1. SessionType'
    <3>1. joining' = FALSE /\ mon' = 0 /\ UNCHANGED <<cur, summary>>
      BY <1>4, ZenonT(60) DEF JoinReturns
    <3>2. joining' \in BOOLEAN
      BY <3>1, ZenonT(60)
    <3>3. mon' \in 0 .. MaxSessions
      BY <3>1, LogConstants, SMTT(30)
    <3>4. QED
      BY <3>1, <3>2, <3>3, ZenonT(60) DEF TypeInv, TypeOK, SessionType
  <2>2. /\ UNCHANGED <<pc, sampled>> /\ UNCHANGED <<cur, queue, part, files>>
        /\ mon' = 0
    BY <1>4, ZenonT(60) DEF JoinReturns, logVars, threadVars
  <2>3. FileInv'
    BY <2>2, ZenonT(60) DEF TypeInv, FileInv
  <2>4. QED
    BY <1>4, <2>1, <2>2, <2>3, Untouched, UntouchedInv, ZenonT(60) DEF JoinReturns, TypeInv, TypeOK
<1>5. QED
  BY <1>1, <1>2, <1>3, <1>4, HandleReportType, StopType, ZenonT(60) DEF Main, HandleClick

\* A step of a sampling thread keeps the type invariant.
LEMMA ThreadStepType ==
  ASSUME TypeInv, NEW t \in Sessions, Thread(t)
  PROVE  TypeInv'
<1>1. pc[t] # "new" => cur # 0 /\ cur \in Sessions
  <2>1. cur \in 0 .. MaxSessions
    BY ZenonT(60) DEF TypeInv, TypeOK, SessionType
  <2>2. FileInv
    BY ZenonT(60) DEF TypeInv
  <2>3. cur = 0 => pc[t] = "new"
    BY <2>2, ZenonT(60) DEF FileInv
  <2>4. cur # 0 => cur \in Sessions
    BY <2>1, LogConstants, SMTT(30) DEF Sessions
  <2>5. QED
    BY <2>3, <2>4, ZenonT(60)
<1> USE DEF TypeInv, TypeOK
<1>2. pc \in [Sessions -> {"new", "loop", "sample", "send", "process", "done"}]
  BY ZenonT(60) DEF ThreadType
<1>3. ASSUME pc[t] # "new", UNCHANGED <<cur, mon, part, files>>
      PROVE  FileInv'
  BY <1>1, <1>3, ZenonT(60) DEF FileInv
<1>4. CASE LoopTest(t)
  <2>1. ThreadType'
    BY <1>4, ZenonT(60) DEF LoopTest, ThreadType
  <2> active[t] => sampled[t] < MaxSamples
    <3>1. t \in Nat \ {0} /\ sampled[t] \in Nat /\ MaxSamples \in Nat
      BY LogConstants, SMTT(30) DEF ThreadType, Sessions
    <3>2. active[t] => sampled[t] + t <= MaxSamples
      BY <1>4, ZenonT(60) DEF LoopTest
    <3>3. QED
      BY <3>1, <3>2, SMTT(30)
  <2>2. SampleInv'
    BY <1>2, <1>4, ZenonT(60) DEF LoopTest, SampleInv
  <2>3. FileInv'
    BY <1>3, <1>4, ZenonT(60) DEF LoopTest, logVars, sessionVars
  <2>4. QED
    BY <1>4, <2>1, <2>2, <2>3, Untouched, ZenonT(60) DEF LoopTest
<1>5. CASE Sample(t)
  <2>1. sampled[t] + 1 \in 1 .. MaxSamples
    BY <1>5, LogConstants, SMTT(30) DEF Sample, ThreadType, SampleInv
  <2>2. <<t, sampled[t] + 1>> \in Line
    BY <2>1, ZenonT(60) DEF Line
  <2>3. ThreadType'
    BY <1>5, <2>1, <2>2, SMTT(30) DEF Sample, ThreadType
  <2>4. SampleInv'
    BY <1>2, <1>5, ZenonT(60) DEF Sample, SampleInv, ThreadType
  <2>5. FileInv'
    BY <1>3, <1>5, ZenonT(60) DEF Sample, logVars, sessionVars
  <2>6. QED
    BY <1>5, <2>3, <2>4, <2>5, Untouched, ZenonT(60) DEF Sample
<1>6. CASE SampleFails(t)
  <2>1. ThreadType'
    BY <1>6, ZenonT(60) DEF SampleFails, Die, ThreadType
  <2>2. SampleInv'
    BY <1>2, <1>6, ZenonT(60) DEF SampleFails, Die, SampleInv
  <2>3. FileInv'
    BY <1>3, <1>6, ZenonT(60) DEF SampleFails, logVars, sessionVars
  <2>4. QED
    BY <1>6, <2>1, <2>2, <2>3, Untouched, ZenonT(60) DEF SampleFails
<1>7. CASE Send(t)
  <2>1. report # NoReport => [kind |-> "report", line |-> report] \in Item
    BY ZenonT(60) DEF ThreadType, Item
  <2>2. QueueType'
    BY <1>7, <2>1, SMTT(30) DEF Send, QueueType
  <2>3. ThreadType'
    BY <1>7, ZenonT(60) DEF Send, ThreadType
  <2>4. EnvType'
    BY <1>7, ZenonT(60) DEF Send, EnvType, ThreadType, envVars
  <2>5. SampleInv'
    BY <1>2, <1>7, ZenonT(60) DEF Send, SampleInv
  <2>6. FileInv'
    BY <1>3, <1>7, ZenonT(60) DEF Send, logVars, sessionVars
  <2>7. QED
    BY <1>7, <2>2, <2>3, <2>4, <2>5, <2>6, Untouched, ZenonT(60) DEF Send
<1>8. CASE Process(t)
  <2>1. cur \in Sessions
    BY <1>1, <1>8, ZenonT(60) DEF Process
  <2>2. ThreadType'
    <3>1. CASE report = NoReport
      BY <1>8, <3>1, ZenonT(60) DEF Process, Die, ThreadType
    <3>2. CASE report # NoReport
      <4>1. counted' = [counted EXCEPT ![cur] = counted[cur] + 1]
        BY <1>8, <3>2, ZenonT(60) DEF Process
      <4>2. counted' \in [Sessions -> Nat]
        BY <2>1, <4>1, SMTT(30) DEF ThreadType
      <4>3. QED
        BY <1>8, <3>2, <4>2, ZenonT(60) DEF Process, ThreadType
    <3>3. QED
      BY <3>1, <3>2, ZenonT(60)
  <2>3. SampleInv'
    BY <1>2, <1>8, ZenonT(60) DEF Process, Die, SampleInv
  <2>4. FileInv'
    BY <1>3, <1>8, ZenonT(60) DEF Process, logVars, sessionVars
  <2>5. QED
    BY <1>8, <2>2, <2>3, <2>4, Untouched, ZenonT(60) DEF Process
<1>9. QED
  BY <1>4, <1>5, <1>6, <1>7, <1>8, ZenonT(60) DEF Thread

\* Every step of the program keeps the type invariant.
LEMMA TypeInvNext == TypeInv /\ [Next]_vars => TypeInv'
<1> SUFFICES ASSUME TypeInv, [Next]_vars PROVE TypeInv'
  BY ZenonT(60)
<1>1. CASE UNCHANGED vars
  <2>1. /\ UNCHANGED mapVars /\ UNCHANGED queue /\ UNCHANGED logVars
        /\ UNCHANGED sessionVars /\ UNCHANGED threadVars
        /\ UNCHANGED <<envVars, detected, sent, due>>
    BY <1>1, ZenonT(60) DEF vars
  <2>2. UNCHANGED <<pc, sampled>> /\ UNCHANGED <<cur, mon, pc, queue, part, files>>
    BY <2>1, ZenonT(60) DEF logVars, sessionVars, threadVars
  <2>3. QED
    BY <2>1, <2>2, Untouched, UntouchedInv, ZenonT(60) DEF TypeInv, TypeOK
<1>2. QED
  BY <1>1, MainType, EnvironmentType, ThreadStepType, ZenonT(60) DEF Next

\* The initial state satisfies the type invariant.
LEMMA TypeInvInit == Init => TypeInv
<1> SUFFICES ASSUME Init PROVE TypeInv
  BY ZenonT(60)
<1>1. MapType /\ QueueType
  <2>1. MapType
    BY ZenonT(60) DEF Init, MapType
  <2>2. QueueType
    BY SMTT(30) DEF Init, QueueType
  <2>3. QED
    BY <2>1, <2>2, ZenonT(60)
<1>2. LogType
  BY LogConstants, SMTT(30) DEF Init, LogType
<1>3. SessionType
  <2>1. joining \in BOOLEAN
    BY ZenonT(60) DEF Init
  <2>2. QED
    BY <2>1, LogConstants, SMTT(30) DEF Init, SessionType
<1>4. ThreadType
  BY LogConstants, SMTT(30) DEF Init, ThreadType
<1>5. EnvType
  <2>1. detected \in BOOLEAN
    BY ZenonT(60) DEF Init
  <2>2. QED
    BY <2>1, LogConstants, SMTT(30) DEF Init, EnvType
<1>6. SampleInv /\ FileInv
  BY SMTT(30) DEF Init, SampleInv, FileInv
<1>7. QED
  BY <1>1, <1>2, <1>3, <1>4, <1>5, <1>6, ZenonT(60) DEF TypeInv, TypeOK

\* Type correctness of the trace logger: every variable of the service, the
\* menu item and the threads keeps its type in every reachable state, whatever
\* the order of clicks, messages, write errors and dying threads.
THEOREM TypeCorrect == Spec => []TypeOK
<1>1. TypeInv => TypeOK
  BY ZenonT(60) DEF TypeInv
<1>2. QED
  BY <1>1, TypeInvInit, TypeInvNext, PTL DEF Spec
-----------------------------------------------------------------------------
(* The size of a part file.                                                *)

\* No write has failed and the batch size is the one of class loading.
Clean == failures = 0 /\ edits = 0

\* The line a part inherits from the one before it: with batches of one line
\* the line that ends a part is flushed into it, otherwise it stays buffered.
Carry == IF part = 1 \/ DefaultBatch = 1 THEN 0 ELSE 1

PartsBounded ==
  \A s \in Sessions : \A p \in 1 .. Len(files[s]) :
    Len(files[s][p]) <= MAX_LINES_PER_CHUNK + 1

\* The inductive invariant: the open part and the buffer together hold counter
\* lines and the inherited one, and a full batch has just been flushed.
ChunkInv ==
  Clean =>
    /\ batch = DefaultBatch
    /\ counter <= MAX_LINES_PER_CHUNK
    /\ (counter > 0 /\ counter % DefaultBatch = 0) => buf = <<>>
    /\ cur # 0 => Len(files[cur][part]) + Len(buf) = counter + Carry
    /\ PartsBounded

\* A whole chunk is a whole number of batches.
LEMMA WholeBatches ==
  /\ MAX_LINES_PER_CHUNK \in Nat \ {0}
  /\ MAX_LINES_PER_CHUNK % DefaultBatch = 0
<1>1. ASSUME NEW b \in Nat \ {0}, NEW c \in Nat \ {0}
      PROVE  b * c \in Nat \ {0} /\ (b * c) % b = 0
  BY SMTT(30)
<1>2. ASSUME NEW b \in Nat \ {0}, NEW c \in Nat \ {0}
      PROVE  c * b = b * c
  BY SMTT(30)
<1>3. QED
  BY <1>1, <1>2, LogConstants, SMTT(30) DEF MAX_LINES_PER_CHUNK

\* The line after a whole chunk completes a batch only if batches have one line.
LEMMA AfterWholeChunk ==
  (MAX_LINES_PER_CHUNK + 1) % DefaultBatch = 0 <=> DefaultBatch = 1
<1>1. ASSUME NEW m \in Nat, NEW b \in Nat \ {0}, m % b = 0, b > 1
      PROVE  (m + 1) % b # 0
  BY <1>1, SMTT(30)
<1>2. ASSUME NEW m \in Nat
      PROVE  m % 1 = 0
  BY SMTT(30)
<1>3. QED
  BY <1>1, <1>2, WholeBatches, LogConstants, SMTT(30)

\* One line more on both sides of a balance.
LEMMA OneMore ==
  ASSUME NEW a \in Nat, NEW b \in Nat, NEW c \in Nat, NEW d \in Nat, a + b = c + d
  PROVE  a + (b + 1) = (c + 1) + d /\ (a + b) + 1 = (c + 1) + d
BY SMTT(30)

\* A step that leaves the log, the session and the two counters alone keeps
\* the invariant.
LEMMA ChunkUntouched ==
  ChunkInv /\ UNCHANGED <<batch, counter, part, buf, files, cur, failures, edits>>
    => ChunkInv'
BY ZenonT(60) DEF ChunkInv, Clean, Carry, PartsBounded

\* Handling a report keeps the invariant.
LEMMA ChunkReport == TypeInv /\ ChunkInv /\ HandleReport => ChunkInv'
<1> SUFFICES ASSUME TypeInv, ChunkInv, HandleReport, Clean' PROVE ChunkInv'
  BY ZenonT(60) DEF ChunkInv
<1>1. TakeReport
  BY ZenonT(60) DEF HandleReport, BufferLine, FlushBatch, FlushFails, BatchOfZero
<1>2. /\ edits' = edits /\ cur' = cur /\ batch' = batch
      /\ cur \in Sessions /\ cur # 0 /\ part \in 1 .. Len(files[cur]) /\ part \in Nat
      /\ part = Len(files[cur])
      /\ Lines \in Seq(Line) /\ Len(Lines) = Len(buf) + 1
      /\ files \in [Sessions -> Seq(Seq(Line))]
  BY <1>1, ReportFacts, ZenonT(60) DEF TakeReport
<1>3. counter \in Nat /\ buf \in Seq(Line) /\ failures \in Nat
  BY SMTT(30) DEF TypeInv, TypeOK, LogType, EnvType
<1>4. failures' = failures /\ Clean
  BY <1>2, <1>3, SMTT(30) DEF Clean, HandleReport, BufferLine, FlushBatch, FlushFails, BatchOfZero
<1>5. /\ batch = DefaultBatch /\ counter <= MAX_LINES_PER_CHUNK
      /\ (counter > 0 /\ counter % DefaultBatch = 0) => buf = <<>>
      /\ Len(files[cur][part]) + Len(buf) = counter + Carry
      /\ PartsBounded
  BY <1>2, <1>4, ZenonT(60) DEF ChunkInv
<1>6. BufferLine \/ FlushBatch
  BY <1>3, <1>4, <1>5, LogConstants, SMTT(30) DEF HandleReport, FlushFails, BatchOfZero
<1>7. Carry \in {0, 1} /\ Carry \in Nat /\ Len(files[cur][part]) \in Nat /\ Len(buf) \in Nat
      /\ MAX_LINES_PER_CHUNK \in Nat \ {0} /\ DefaultBatch \in Nat \ {0}
  <2>1. files[cur] \in Seq(Seq(Line))
    BY <1>2, ZenonT(60)
  <2>2. files[cur][part] \in Seq(Line)
    BY <1>2, <2>1, SMTT(30)
  <2>3. QED
    BY <1>3, <2>2, WholeBatches, LogConstants, SMTT(30) DEF Carry
<1>8. CASE BufferLine
  <2>1. /\ buf' = Lines /\ NextChunk(counter + 1, files)
        /\ (counter + 1) % DefaultBatch # 0
    BY <1>5, <1>8, ZenonT(60) DEF BufferLine, BatchFull
  <2>2. CASE counter + 1 > MAX_LINES_PER_CHUNK
    <3>1. /\ counter' = 0 /\ part' = part + 1
          /\ files' = [files EXCEPT ![cur] = Append(files[cur], <<>>)]
      BY <2>1, <2>2, ZenonT(60) DEF NextChunk
    <3>2. counter = MAX_LINES_PER_CHUNK
      BY <1>3, <1>5, <1>7, <2>2, SMTT(30)
    <3>3. buf = <<>> /\ Len(buf') = 1
      BY <1>2, <1>5, <1>7, <2>1, <3>2, WholeBatches, SMTT(30)
    <3>4. DefaultBatch # 1
      BY <2>1, <3>2, AfterWholeChunk, ZenonT(60)
    <3>5. Carry' = 1
      BY <1>2, <3>1, <3>4, SMTT(30) DEF Carry
    <3>6. files'[cur] = Append(files[cur], <<>>) /\ files[cur] \in Seq(Seq(Line))
      BY <1>2, <3>1, ZenonT(60)
    <3>7. files'[cur][part'] = <<>>
      BY <1>2, <3>1, <3>6, SMTT(30)
    <3>8. PartsBounded'
      <4> SUFFICES ASSUME NEW s \in Sessions, NEW p \in 1 .. Len(files'[s])
                   PROVE  Len(files'[s][p]) <= MAX_LINES_PER_CHUNK + 1
        BY ZenonT(60) DEF PartsBounded
      <4>1. CASE s = cur /\ p = part + 1
        BY <1>7, <3>1, <3>7, <4>1, SMTT(30)
      <4>2. CASE s = cur /\ p # part + 1
        <5>1. p \in 1 .. Len(files[cur]) /\ files'[cur][p] = files[cur][p]
          BY <1>2, <3>6, <4>2, SMTT(30)
        <5>2. QED
          BY <1>2, <1>5, <4>2, <5>1, ZenonT(60) DEF PartsBounded
      <4>3. CASE s # cur
        <5>1. files'[s] = files[s]
          BY <3>1, <1>2, <4>3, ZenonT(60)
        <5>2. QED
          BY <1>5, <5>1, ZenonT(60) DEF PartsBounded
      <4>4. QED
        BY <4>1, <4>2, <4>3, ZenonT(60)
    <3>9. QED
      BY <1>2, <1>5, <1>7, <3>1, <3>3, <3>5, <3>7, <3>8, SMTT(30) DEF ChunkInv
  <2>3. CASE ~(counter + 1 > MAX_LINES_PER_CHUNK)
    <3>1. counter' = counter + 1 /\ part' = part /\ files' = files
      BY <2>1, <2>3, ZenonT(60) DEF NextChunk
    <3>2. Carry' = Carry /\ PartsBounded'
      BY <1>5, <3>1, ZenonT(60) DEF Carry, PartsBounded
    <3>3. Len(files'[cur'][part']) + Len(buf') = counter' + Carry'
      <4>1. Len(files[cur][part]) + Len(buf) = counter + Carry
        BY <1>5, ZenonT(60)
      <4>2. Len(files[cur][part]) + (Len(buf) + 1) = (counter + 1) + Carry
        <5> DEFINE a == Len(files[cur][part])
                   b == Len(buf)
        <5>1. a \in Nat /\ b \in Nat /\ counter \in Nat /\ Carry \in Nat /\ a + b = counter + Carry
          BY <1>3, <1>7, <4>1, ZenonT(60)
        <5> HIDE DEF a, b
        <5>2. a + (b + 1) = (counter + 1) + Carry
          BY ONLY <5>1, OneMore, SMTT(30)
        <5>3. QED
          BY ONLY <5>2, ZenonT(60) DEF a, b
      <4>3. Len(buf') = Len(buf) + 1
        BY <1>2, <2>1, ZenonT(60)
      <4>4. QED
        BY ONLY <1>2, <3>1, <3>2, <4>2, <4>3, ZenonT(60)
    <3>4. QED
      BY <1>2, <1>3, <1>5, <1>7, <2>1, <2>3, <3>1, <3>2, <3>3, SMTT(30) DEF ChunkInv
  <2>4. QED
    BY <2>2, <2>3, ZenonT(60)
<1>9. CASE FlushBatch
  <2> DEFINE fs == Appended(files, Lines)
  <2>1. /\ buf' = <<>> /\ NextChunk(counter + 1, fs)
        /\ (counter + 1) % DefaultBatch = 0
    BY <1>5, <1>9, ZenonT(60) DEF FlushBatch, BatchFull, resetReportLogBuffer
  <2>2. /\ fs \in [Sessions -> Seq(Seq(Line))]
        /\ Len(fs[cur]) = Len(files[cur])
        /\ fs[cur][part] = files[cur][part] \o Lines
        /\ \A p \in 1 .. Len(files[cur]) : p # part => fs[cur][p] = files[cur][p]
        /\ \A s \in Sessions : s # cur => fs[s] = files[s]
    BY <1>2, AppendedType, ZenonT(60)
  <2> HIDE DEF fs
  <2>3. Len(fs[cur][part]) = counter + 1 + Carry
    <3>1. files[cur] \in Seq(Seq(Line))
      BY <1>2, ZenonT(60)
    <3>2. files[cur][part] \in Seq(Line)
      BY <1>2, <3>1
    <3>3. Len(files[cur][part] \o Lines) = Len(files[cur][part]) + Len(Lines)
      <4> DEFINE f == files[cur][part]
      <4>1. f \in Seq(Line) /\ Lines \in Seq(Line)
        BY <1>2, <3>2, ZenonT(60)
      <4> HIDE DEF f
      <4>2. Len(f \o Lines) = Len(f) + Len(Lines)
        BY <4>1, SMTT(30)
      <4>3. QED
        BY <4>2, ZenonT(60) DEF f
    <3>4. Len(Lines) = Len(buf) + 1 /\ fs[cur][part] = files[cur][part] \o Lines
      BY <1>2, <2>2, ZenonT(60)
    <3>5. Len(fs[cur][part]) = Len(files[cur][part]) + (Len(buf) + 1)
      BY ONLY <3>3, <3>4, ZenonT(60)
    <3>6. Len(files[cur][part]) + Len(buf) = counter + Carry
      BY <1>5, ZenonT(60)
    <3>7. QED
      <4> DEFINE a == Len(files[cur][part])
                 b == Len(buf)
      <4>1. /\ a \in Nat /\ b \in Nat /\ counter \in Nat /\ Carry \in Nat
            /\ a + b = counter + Carry /\ Len(fs[cur][part]) = a + (b + 1)
        BY <1>3, <1>7, <3>5, <3>6, ZenonT(60)
      <4> HIDE DEF a, b
      <4>2. QED
        BY ONLY <4>1, OneMore, SMTT(30)
  <2>4. Len(fs[cur][part]) <= MAX_LINES_PER_CHUNK + 1
    <3>1. CASE counter = MAX_LINES_PER_CHUNK
      <4>1. DefaultBatch = 1
        BY <2>1, <3>1, AfterWholeChunk, ZenonT(60)
      <4>2. Carry = 0
        BY <4>1, ZenonT(60) DEF Carry
      <4>3. QED
        BY <1>3, <1>7, <2>3, <3>1, <4>2, SMTT(30)
    <3>2. CASE counter # MAX_LINES_PER_CHUNK
      BY <1>3, <1>5, <1>7, <2>3, <3>2, SMTT(30)
    <3>3. QED
      BY <3>1, <3>2, ZenonT(60)
  <2>5. \A s \in Sessions : \A p \in 1 .. Len(fs[s]) : Len(fs[s][p]) <= MAX_LINES_PER_CHUNK + 1
    BY <1>2, <1>5, <2>2, <2>4, ZenonT(60) DEF PartsBounded
  <2>6. CASE counter + 1 > MAX_LINES_PER_CHUNK
    <3>1. /\ counter' = 0 /\ part' = part + 1
          /\ files' = [fs EXCEPT ![cur] = Append(fs[cur], <<>>)]
      BY <2>1, <2>6, ZenonT(60) DEF NextChunk
    <3>2. DefaultBatch = 1
      BY <1>3, <1>5, <1>7, <2>1, <2>6, AfterWholeChunk, SMTT(30)
    <3>3. Carry' = 0
      BY <3>2, ZenonT(60) DEF Carry
    <3>4. files'[cur] = Append(fs[cur], <<>>) /\ fs[cur] \in Seq(Seq(Line))
      BY <1>2, <2>2, <3>1, ZenonT(60)
    <3>5. files'[cur][part'] = <<>> /\ Len(files'[cur]) = part + 1
      BY <1>2, <2>2, <3>1, <3>4, SMTT(30)
    <3>6. PartsBounded'
      <4> SUFFICES ASSUME NEW s \in Sessions, NEW p \in 1 .. Len(files'[s])
                   PROVE  Len(files'[s][p]) <= MAX_LINES_PER_CHUNK + 1
        BY ZenonT(60) DEF PartsBounded
      <4>1. CASE s = cur /\ p = part + 1
        BY <1>7, <3>1, <3>5, <4>1, SMTT(30)
      <4>2. CASE s = cur /\ p # part + 1
        <5>1. p \in 1 .. Len(fs[cur]) /\ files'[cur][p] = fs[cur][p]
          BY <1>2, <2>2, <3>4, <4>2, SMTT(30)
        <5>2. QED
          BY <1>2, <2>5, <4>2, <5>1, ZenonT(60)
      <4>3. CASE s # cur
        <5>1. files'[s] = fs[s]
          BY <3>1, <2>2, <4>3, ZenonT(60)
        <5>2. QED
          BY <2>5, <5>1, ZenonT(60)
      <4>4. QED
        BY <4>1, <4>2, <4>3, ZenonT(60)
    <3>7. QED
      BY <1>2, <1>5, <1>7, <2>1, <3>1, <3>3, <3>5, <3>6, SMTT(30) DEF ChunkInv
  <2>7. CASE ~(counter + 1 > MAX_LINES_PER_CHUNK)
    <3>1. counter' = counter + 1 /\ part' = part /\ files' = fs
      BY <2>1, <2>7, ZenonT(60) DEF NextChunk
    <3>2. Carry' = Carry /\ PartsBounded'
      BY <2>5, <3>1, ZenonT(60) DEF Carry, PartsBounded
    <3>3. Len(files'[cur'][part']) + Len(buf') = counter' + Carry'
      BY <1>2, <1>3, <1>7, <2>1, <2>3, <3>1, <3>2, SMTT(30)
    <3>4. QED
      BY <1>2, <1>3, <1>5, <1>7, <2>1, <2>7, <3>1, <3>2, <3>3, SMTT(30) DEF ChunkInv
  <2>8. QED
    BY <2>6, <2>7, ZenonT(60)
<1>10. QED
  BY <1>6, <1>8, <1>9, ZenonT(60)

\* A new session starts with an empty first part, buffer and counter.
LEMMA ChunkStart == TypeInv /\ ChunkInv /\ StartBranch => ChunkInv'
<1> SUFFICES ASSUME TypeInv, ChunkInv, StartBranch, Clean' PROVE ChunkInv'
  BY ZenonT(60) DEF ChunkInv
<1>1. UNCHANGED <<batch, failures, edits>>
  BY ZenonT(60) DEF StartBranch, envVars
<1>2. CASE ~(ready /\ ~CheckIfTraceActive)
  BY <1>1, <1>2, ChunkUntouched, ZenonT(60) DEF StartBranch
<1>3. CASE ready /\ ~CheckIfTraceActive
  <2>1. /\ cur < MaxSessions /\ cur' = cur + 1 /\ part' = 1 /\ counter' = 0
        /\ buf' = <<>> /\ files' = [files EXCEPT ![cur + 1] = << <<>> >>]
    BY <1>3, ZenonT(60) DEF StartBranch, resetReportLogBuffer
  <2>2. /\ cur + 1 \in Sessions /\ files \in [Sessions -> Seq(Seq(Line))]
        /\ MAX_LINES_PER_CHUNK \in Nat
    BY <2>1, LogConstants, WholeBatches, SMTT(30)
       DEF TypeInv, TypeOK, SessionType, LogType, Sessions
  <2>3. files'[cur + 1] = << <<>> >>
    BY <2>1, <2>2, ZenonT(60)
  <2>4. Carry' = 0
    BY <2>1, ZenonT(60) DEF Carry
  <2>5. batch = DefaultBatch /\ PartsBounded
    BY <1>1, ZenonT(60) DEF ChunkInv, Clean
  <2>6. PartsBounded'
    <3> SUFFICES ASSUME NEW s \in Sessions, NEW p \in 1 .. Len(files'[s])
                 PROVE  Len(files'[s][p]) <= MAX_LINES_PER_CHUNK + 1
      BY ZenonT(60) DEF PartsBounded
    <3>1. CASE s = cur + 1
      <4>1. files'[s] = << <<>> >>
        BY <2>3, <3>1, ZenonT(60)
      <4>2. p = 1
        BY <4>1, SMTT(30)
      <4>3. files'[s][p] = <<>>
        BY <4>1, <4>2, SMTT(30)
      <4>4. QED
        BY <2>2, <4>3, SMTT(30)
    <3>2. CASE s # cur + 1
      <4>1. files'[s] = files[s]
        BY <2>1, <2>2, <3>2, ZenonT(60)
      <4>2. QED
        BY <2>5, <4>1, ZenonT(60) DEF PartsBounded
    <3>3. QED
      BY <3>1, <3>2, ZenonT(60)
  <2>7. Len(files'[cur'][part']) + Len(buf') = counter' + Carry'
    BY <2>1, <2>3, <2>4, SMTT(30)
  <2>8. QED
    BY <1>1, <2>1, <2>2, <2>5, <2>6, <2>7, SMTT(30) DEF ChunkInv
<1>4. QED
  BY <1>2, <1>3, ZenonT(60)

\* The flush of StopTracing moves the buffer into the open part.
LEMMA ChunkStop ==
  ASSUME TypeInv, ChunkInv, NEW ok \in BOOLEAN, StopTracing(ok)
  PROVE  ChunkInv'
<1> SUFFICES ASSUME Clean' PROVE ChunkInv'
  BY ZenonT(60) DEF ChunkInv
<1> DEFINE fs == Appended(files, buf)
<1>1. /\ UNCHANGED <<batch, counter, part, cur, edits>>
      /\ buf' = <<>> /\ files' = fs /\ mon # 0
  BY ZenonT(60) DEF StopTracing, TakeStopClick, CheckIfTraceActive, SaveUnsavedLogs,
         resetReportLogBuffer
<1>2. failures' = failures /\ Clean
  <2>1. failures' = (IF ok THEN failures ELSE failures + 1) /\ failures \in Nat
    BY SMTT(30) DEF StopTracing, TypeInv, TypeOK, EnvType
  <2>2. QED
    BY <1>1, <2>1, SMTT(30) DEF Clean
<1>3. /\ cur \in Sessions /\ cur # 0 /\ part = Len(files[cur]) /\ part \in 1 .. Len(files[cur])
      /\ files \in [Sessions -> Seq(Seq(Line))] /\ buf \in Seq(Line)
      /\ counter \in Nat
  <2>1. cur # 0 /\ part = Len(files[cur]) /\ part # 0
    BY <1>1, ZenonT(60) DEF TypeInv, FileInv
  <2>2. QED
    BY <2>1, LogConstants, SMTT(30) DEF TypeInv, TypeOK, LogType, SessionType, Sessions
<1>4. /\ counter <= MAX_LINES_PER_CHUNK /\ batch = DefaultBatch
      /\ Len(files[cur][part]) + Len(buf) = counter + Carry
      /\ PartsBounded
  BY <1>2, <1>3, ZenonT(60) DEF ChunkInv
<1>5. /\ Len(fs[cur]) = Len(files[cur])
      /\ fs[cur][part] = files[cur][part] \o buf
      /\ \A p \in 1 .. Len(files[cur]) : p # part => fs[cur][p] = files[cur][p]
      /\ \A s \in Sessions : s # cur => fs[s] = files[s]
  BY <1>3, AppendedType, ZenonT(60)
<1> HIDE DEF fs
<1>6. Len(fs[cur][part]) = counter + Carry
  <2> DEFINE f == files[cur][part]
  <2>1. files[cur] \in Seq(Seq(Line))
    BY <1>3, ZenonT(60)
  <2>2. f \in Seq(Line)
    BY <1>3, <2>1, SMTT(30)
  <2>3. Len(f) + Len(buf) = counter + Carry /\ fs[cur][part] = f \o buf
    BY <1>4, <1>5, ZenonT(60)
  <2> HIDE DEF f
  <2>4. Len(f \o buf) = Len(f) + Len(buf)
    BY <1>3, <2>2, SMTT(30)
  <2>5. QED
    BY ONLY <2>3, <2>4, ZenonT(60)
<1>7. Carry \in {0, 1} /\ MAX_LINES_PER_CHUNK \in Nat
  BY WholeBatches, ZenonT(60) DEF Carry
<1>8. PartsBounded'
  <2>1. Len(fs[cur][part]) <= MAX_LINES_PER_CHUNK + 1
    BY <1>3, <1>4, <1>6, <1>7, SMTT(30)
  <2>2. QED
    BY <1>1, <1>3, <1>4, <1>5, <2>1, ZenonT(60) DEF PartsBounded
<1>9. Carry' = Carry
  BY <1>1, ZenonT(60) DEF Carry
<1>10. Len(files'[cur'][part']) + Len(buf') = counter' + Carry'
  BY <1>1, <1>3, <1>6, <1>7, <1>9, SMTT(30)
<1>11. QED
  BY <1>1, <1>4, <1>8, <1>10, ZenonT(60) DEF ChunkInv

\* Every step keeps the invariant on the parts.
LEMMA ChunkInvNext == TypeInv /\ ChunkInv /\ [Next]_vars => ChunkInv'
<1> SUFFICES ASSUME TypeInv, ChunkInv, [Next]_vars PROVE ChunkInv'
  BY ZenonT(60)
<1> DEFINE Same == UNCHANGED <<batch, counter, part, buf, files, cur, failures, edits>>
<1>1. CASE HandleReport
  BY <1>1, ChunkReport, ZenonT(60)
<1>2. CASE ClickStarts \/ DialogStarts
  BY <1>2, ChunkStart, ZenonT(60) DEF ClickStarts, DialogStarts
<1>3. CASE ClickAsks \/ StopWithoutTrace \/ JoinReturns
  <2>1. Same
    BY <1>3, ZenonT(60) DEF ClickAsks, StopWithoutTrace, TakeStopClick, JoinReturns, logVars,
                sessionVars, envVars
  <2>2. QED
    BY <2>1, ChunkUntouched, ZenonT(60)
<1>4. CASE \E ok \in BOOLEAN : StopTracing(ok)
  BY <1>4, ChunkStop, ZenonT(60)
<1>5. CASE \E n \in 0 .. Len(buf) : StopTracingFails(n)
  <2>1. failures' = failures + 1 /\ failures \in Nat
    BY <1>5, SMTT(30) DEF StopTracingFails, TypeInv, TypeOK, EnvType
  <2>2. QED
    BY <2>1, SMTT(30) DEF ChunkInv, Clean
<1>6. CASE \E b \in Batches : SaveTracerDialog(b)
  <2>1. edits' = edits + 1 /\ edits \in Nat
    BY <1>6, SMTT(30) DEF SaveTracerDialog, TypeInv, TypeOK, EnvType
  <2>2. QED
    BY <2>1, SMTT(30) DEF ChunkInv, Clean
<1>7. CASE BecomeReady \/ DetectActivities \/ Click \/ \E yes \in BOOLEAN : AnswerDialog(yes)
  <2>1. Same
    BY <1>7, ZenonT(60) DEF BecomeReady, DetectActivities, Click, AnswerDialog, logVars,
                sessionVars, envVars
  <2>2. QED
    BY <2>1, ChunkUntouched, ZenonT(60)
<1>8. CASE \E t \in Sessions : Thread(t)
  <2>1. Same
    BY <1>8, ZenonT(60) DEF Thread, LoopTest, Sample, SampleFails, Send, Process, logVars,
                sessionVars, envVars
  <2>2. QED
    BY <2>1, ChunkUntouched, ZenonT(60)
<1>9. CASE UNCHANGED vars
  <2>1. Same
    BY <1>9, ZenonT(60) DEF vars, logVars, sessionVars, envVars
  <2>2. QED
    BY <2>1, ChunkUntouched, ZenonT(60)
<1>10. QED
  BY <1>1, <1>2, <1>3, <1>4, <1>5, <1>6, <1>7, <1>8, <1>9, ZenonT(60)
     DEF Next, Main, HandleClick, Environment

\* Until a write fails or the batch size is edited, no part file has more than
\* MAX_LINES_PER_CHUNK + 1 lines, for every batch size and chunk size.
THEOREM PartsStayBounded == Spec => []ChunkBound
<1>1. Init => ChunkInv
  <2> SUFFICES ASSUME Init PROVE ChunkInv
    BY ZenonT(60)
  <2>1. \A s \in Sessions : files[s] = <<>> /\ Len(files[s]) = 0
    BY ZenonT(60) DEF Init
  <2>2. PartsBounded
    BY <2>1, SMTT(30) DEF PartsBounded
  <2>3. QED
    BY <2>2, WholeBatches, SMTT(30) DEF Init, ChunkInv
<1>2. TypeInv /\ ChunkInv => ChunkBound
  <2> SUFFICES ASSUME TypeInv, ChunkInv, Clean,
                      NEW s \in Sessions, NEW p \in DOMAIN files[s]
               PROVE  Len(files[s][p]) <= MAX_LINES_PER_CHUNK + 1
    BY ZenonT(60) DEF ChunkBound, Clean
  <2>1. files[s] \in Seq(Seq(Line))
    BY ZenonT(60) DEF TypeInv, TypeOK, LogType
  <2>2. p \in 1 .. Len(files[s])
    BY <2>1, SMTT(30)
  <2>3. QED
    BY <2>2, ZenonT(60) DEF ChunkInv, PartsBounded
<1>3. QED
  BY <1>1, <1>2, TypeInvInit, TypeInvNext, ChunkInvNext, PTL DEF Spec
-----------------------------------------------------------------------------
(* Where the posted lines are.                                             *)

\* The lines of the current session that the handler has seen.
Kept == InParts(files[cur]) \cup LinesOf(buf)

\* Only threads of sessions that were started sample and post.
PostInv ==
  /\ \A l \in sent : l[1] <= cur
  /\ report # NoReport => report[1] <= cur
  /\ \A t \in Sessions : t > cur => pc[t] = "new"

\* The looper is first in, first out: what was posted before a click is ahead of it.
ClickInv ==
  \A i \in 1 .. Len(queue) : queue[i].kind = "click" =>
    /\ queue[i].sent \subseteq sent
    /\ cur # 0 => {l \in queue[i].sent : l[1] = cur} \subseteq Kept \cup Ahead(i - 1)

\* A session is stopped once: with a summary entry it is over, and the next start
\* opens a new one.
StopInv ==
  /\ cur # 0 => ready
  /\ mon # 0 => mon = cur
  /\ joining => mon # 0 /\ ~active[mon]
  /\ CheckIfTraceActive => due[cur] = {} /\ summary[cur] = <<>>
  /\ cur # 0 /\ summary[cur] # <<>> => ~running /\ (mon = 0 \/ joining)
  /\ \A s \in Sessions : s > cur => summary[s] = <<>> /\ due[s] = {}

LineInv == PostInv /\ NothingLost /\ ClickInv /\ StopInv /\ StopSavesPostedLines
-----------------------------------------------------------------------------
(* Lines in the files, in the buffer and in the queue.                     *)

\* The lines of a buffer with a line added.
LEMMA AppendLines ==
  ASSUME NEW b \in Seq(Line), NEW l \in Line
  PROVE  LinesOf(Append(b, l)) = LinesOf(b) \cup {l}
<1>1. /\ Len(b) \in Nat /\ Len(Append(b, l)) = Len(b) + 1 /\ Append(b, l)[Len(b) + 1] = l
      /\ \A i \in 1 .. Len(b) : Append(b, l)[i] = b[i]
  BY SMTT(30)
<1>2. \A i : i \in 1 .. Len(b) + 1 <=> i \in 1 .. Len(b) \/ i = Len(b) + 1
  BY <1>1, SMTT(30)
<1> QED
  BY <1>1, <1>2, ZenonT(60) DEF LinesOf

\* The lines of two sequences, one behind the other.
LEMMA ConcatLines ==
  ASSUME NEW a \in Seq(Line), NEW b \in Seq(Line)
  PROVE  LinesOf(a \o b) = LinesOf(a) \cup LinesOf(b)
<1>1. /\ Len(a) \in Nat /\ Len(b) \in Nat /\ Len(a \o b) = Len(a) + Len(b)
      /\ \A i \in 1 .. Len(a) : (a \o b)[i] = a[i]
      /\ \A i \in 1 .. Len(b) : (a \o b)[Len(a) + i] = b[i]
  BY SMTT(30)
<1>2. \A i \in 1 .. Len(a) + Len(b) : i \in 1 .. Len(a) \/ i - Len(a) \in 1 .. Len(b)
  BY <1>1, SMTT(30)
<1>3. /\ \A i \in 1 .. Len(a) : i \in 1 .. Len(a) + Len(b)
      /\ \A i \in 1 .. Len(b) : Len(a) + i \in 1 .. Len(a) + Len(b)
      /\ \A i \in 1 .. Len(a) + Len(b) : Len(a) + (i - Len(a)) = i
  BY <1>1, SMTT(30)
<1>4. ASSUME NEW l \in LinesOf(a \o b) PROVE l \in LinesOf(a) \cup LinesOf(b)
  <2>1. PICK i \in 1 .. Len(a) + Len(b) : l = (a \o b)[i]
    BY <1>1, ZenonT(60) DEF LinesOf
  <2> QED
    BY <1>1, <1>2, <1>3, <2>1, SMTT(30) DEF LinesOf
<1>5. ASSUME NEW l \in LinesOf(a) \cup LinesOf(b) PROVE l \in LinesOf(a \o b)
  <2>1. CASE l \in LinesOf(a)
    BY <1>1, <1>3, <2>1, SMTT(30) DEF LinesOf
  <2>2. CASE l \in LinesOf(b)
    <3>1. PICK i \in 1 .. Len(b) : l = b[i]
      BY <2>2, ZenonT(60) DEF LinesOf
    <3>2. Len(a) + i \in 1 .. Len(a \o b) /\ (a \o b)[Len(a) + i] = l
      BY <1>1, <1>3, <3>1, SMTT(30)
    <3> QED
      BY <3>2, ZenonT(60) DEF LinesOf
  <2> QED
    BY <2>1, <2>2, ZenonT(60)
<1> QED
  BY <1>4, <1>5, ZenonT(60)

\* Appending to the open part keeps what the files have and adds the lines.
LEMMA AppendedLines ==
  ASSUME files \in [Sessions -> Seq(Seq(Line))],
         cur \in Sessions, part \in 1 .. Len(files[cur]),
         NEW lines \in Seq(Line)
  PROVE  /\ InParts(files[cur]) \subseteq InParts(Appended(files, lines)[cur])
         /\ LinesOf(lines) \subseteq InParts(Appended(files, lines)[cur])
<1> DEFINE fs == Appended(files, lines)
<1>1. /\ Len(fs[cur]) = Len(files[cur])
      /\ fs[cur][part] = files[cur][part] \o lines
      /\ \A p \in 1 .. Len(files[cur]) : p # part => fs[cur][p] = files[cur][p]
  BY AppendedType, ZenonT(60)
<1> HIDE DEF fs
<1>2. files[cur][part] \in Seq(Line)
  BY SMTT(30)
<1>3. LinesOf(files[cur][part] \o lines) = LinesOf(files[cur][part]) \cup LinesOf(lines)
  BY <1>2, ConcatLines, ZenonT(60)
<1>4. LinesOf(lines) \subseteq InParts(fs[cur])
  BY <1>1, <1>3, ZenonT(60) DEF InParts
<1>5. ASSUME NEW l \in InParts(files[cur]) PROVE l \in InParts(fs[cur])
  <2>1. PICK p \in 1 .. Len(files[cur]) : l \in LinesOf(files[cur][p])
    BY ZenonT(60) DEF InParts
  <2>2. l \in LinesOf(fs[cur][p])
    BY <1>1, <1>3, <2>1, ZenonT(60)
  <2> QED
    BY <1>1, <2>2, ZenonT(60) DEF InParts
<1> QED
  BY <1>4, <1>5, ZenonT(60) DEF fs

\* The step to the next part adds an empty file.
LEMMA NextChunkLines ==
  ASSUME cur \in Sessions, NEW c, NEW fs \in [Sessions -> Seq(Seq(Line))], NextChunk(c, fs)
  PROVE  /\ InParts(fs[cur]) \subseteq InParts(files'[cur])
         /\ Len(fs[cur]) <= Len(files'[cur])
         /\ \A s \in Sessions : s # cur => files'[s] = fs[s]
<1>1. fs[cur] \in Seq(Seq(Line)) /\ Len(fs[cur]) \in Nat
  BY SMTT(30)
<1>2. CASE c > MAX_LINES_PER_CHUNK
  <2> DEFINE more == Append(fs[cur], <<>>)
  <2>1. files' = [fs EXCEPT ![cur] = more]
    BY <1>2, ZenonT(60) DEF NextChunk
  <2>2. Len(more) = Len(fs[cur]) + 1 /\ \A p \in 1 .. Len(fs[cur]) : more[p] = fs[cur][p]
    BY <1>1, SMTT(30)
  <2>3. files'[cur] = more /\ \A s \in Sessions : s # cur => files'[s] = fs[s]
    BY <2>1, ZenonT(60)
  <2> HIDE DEF more
  <2>4. ASSUME NEW l \in InParts(fs[cur]) PROVE l \in InParts(more)
    <3>1. PICK p \in 1 .. Len(fs[cur]) : l \in LinesOf(fs[cur][p])
      BY ZenonT(60) DEF InParts
    <3>2. p \in 1 .. Len(more) /\ l \in LinesOf(more[p])
      BY <1>1, <2>2, <3>1, SMTT(30)
    <3> QED
      BY <3>2, ZenonT(60) DEF InParts
  <2>5. Len(fs[cur]) <= Len(more)
    BY <1>1, <2>2, SMTT(30)
  <2> QED
    BY <2>3, <2>4, <2>5, ZenonT(60)
<1>3. CASE ~(c > MAX_LINES_PER_CHUNK)
  BY <1>1, <1>3, SMTT(30) DEF NextChunk
<1> QED
  BY <1>2, <1>3, ZenonT(60)

\* handleMessage, whichever way it ends, keeps every line the handler has seen and the
\* one it takes off the queue.
LEMMA ReportKept ==
  ASSUME TypeInv, HandleReport
  PROVE  /\ Head(queue).kind = "report" /\ queue # <<>> /\ queue' = Tail(queue)
         /\ Kept \subseteq Kept' /\ Head(queue).line \in Kept'
         /\ InParts(files[cur]) \subseteq InParts(files'[cur])
         /\ cur \in Sessions /\ Len(files[cur]) <= Len(files'[cur])
         /\ \A s \in Sessions : s # cur => files'[s] = files[s]
         /\ failures' = 0 => failures = 0
         /\ UNCHANGED <<mapVars, sessionVars, threadVars, detected, sent, due>>
<1>1. TakeReport
  BY ZenonT(60) DEF HandleReport, BufferLine, FlushBatch, FlushFails, BatchOfZero
<1>2. /\ cur \in Sessions /\ cur # 0 /\ part \in Nat /\ part # 0
      /\ part \in 1 .. Len(files[cur])
  BY <1>1, ReportFacts, ZenonT(60)
<1>3. TypeOK /\ files \in [Sessions -> Seq(Seq(Line))] /\ buf \in Seq(Line) /\ failures \in Nat
  BY SMTT(30) DEF TypeInv, TypeOK, LogType, EnvType
<1>4. /\ NextItem("report") /\ queue' = Tail(queue)
      /\ UNCHANGED <<mapVars, sessionVars, threadVars, detected, sent, due>> /\ cur' = cur
  BY <1>1, ZenonT(60) DEF TakeReport, sessionVars
<1>5. Lines \in Seq(Line) /\ Head(queue).line \in Line
  BY <1>3, <1>4, LinesType, SMTT(30) DEF NextItem, TypeOK, QueueType, Item
<1>6. LinesOf(Lines) = LinesOf(buf) \cup {Head(queue).line}
  BY <1>3, <1>5, AppendLines, ZenonT(60) DEF Lines
<1>7. ASSUME InParts(files[cur]) \subseteq InParts(files'[cur]),
             Len(files[cur]) <= Len(files'[cur]),
             \A s \in Sessions : s # cur => files'[s] = files[s],
             failures' = 0 => failures = 0,
             LinesOf(Lines) \subseteq InParts(files'[cur]) \cup LinesOf(buf')
      PROVE  /\ Kept \subseteq Kept' /\ Head(queue).line \in Kept'
             /\ InParts(files[cur]) \subseteq InParts(files'[cur])
             /\ Len(files[cur]) <= Len(files'[cur])
             /\ \A s \in Sessions : s # cur => files'[s] = files[s]
             /\ failures' = 0 => failures = 0
  BY <1>4, <1>6, <1>7, ZenonT(60) DEF Kept
<1>8. CASE BufferLine
  <2>1. buf' = Lines /\ NextChunk(counter + 1, files) /\ failures' = failures
    BY <1>8, ZenonT(60) DEF BufferLine
  <2>2. /\ InParts(files[cur]) \subseteq InParts(files'[cur])
        /\ Len(files[cur]) <= Len(files'[cur])
        /\ \A s \in Sessions : s # cur => files'[s] = files[s]
    BY <1>2, <1>3, <2>1, NextChunkLines, ZenonT(60)
  <2> QED
    BY <1>2, <1>4, <1>7, <2>1, <2>2, ZenonT(60) DEF NextItem
<1>9. CASE FlushBatch
  <2> DEFINE fs == Appended(files, Lines)
  <2>1. NextChunk(counter + 1, fs) /\ failures' = failures
    BY <1>9, ZenonT(60) DEF FlushBatch
  <2>2. /\ fs \in [Sessions -> Seq(Seq(Line))] /\ Len(fs[cur]) = Len(files[cur])
        /\ \A s \in Sessions : s # cur => fs[s] = files[s]
    BY <1>2, <1>3, <1>5, AppendedType, ZenonT(60)
  <2>3. /\ InParts(files[cur]) \subseteq InParts(fs[cur])
        /\ LinesOf(Lines) \subseteq InParts(fs[cur])
    BY <1>2, <1>3, <1>5, AppendedLines, ZenonT(60)
  <2> HIDE DEF fs
  <2>4. /\ InParts(fs[cur]) \subseteq InParts(files'[cur])
        /\ Len(fs[cur]) <= Len(files'[cur])
        /\ \A s \in Sessions : s # cur => files'[s] = fs[s]
    BY <1>2, <2>1, <2>2, NextChunkLines, ZenonT(60)
  <2> QED
    BY <1>2, <1>4, <1>7, <2>1, <2>2, <2>3, <2>4, ZenonT(60) DEF NextItem
<1>10. ASSUME NEW n \in 0 .. Len(buf) + 1, FlushFails(n)
       PROVE  /\ Kept \subseteq Kept' /\ Head(queue).line \in Kept'
              /\ InParts(files[cur]) \subseteq InParts(files'[cur])
              /\ Len(files[cur]) <= Len(files'[cur])
              /\ \A s \in Sessions : s # cur => files'[s] = files[s]
              /\ failures' = 0 => failures = 0
  <2> DEFINE some == SubSeq(Lines, 1, n)
  <2>1. buf' = Lines /\ files' = Appended(files, some) /\ failures' = failures + 1 /\ n <= Len(Lines)
    BY <1>10, ZenonT(60) DEF FlushFails, BufferAfterFailure
  <2>2. some \in Seq(Line)
    BY <1>5, <2>1, SMTT(30)
  <2> HIDE DEF some
  <2>3. InParts(files[cur]) \subseteq InParts(files'[cur])
    BY <1>2, <1>3, <2>1, <2>2, AppendedLines, ZenonT(60)
  <2>4. /\ Len(files'[cur]) = Len(files[cur])
        /\ \A s \in Sessions : s # cur => files'[s] = files[s]
    BY <1>2, <1>3, <2>1, <2>2, AppendedType, ZenonT(60)
  <2>5. Len(files[cur]) <= Len(files'[cur])
    BY <1>2, <1>3, <2>4, SMTT(30)
  <2>6. failures' # 0 /\ LinesOf(Lines) \subseteq InParts(files'[cur]) \cup LinesOf(buf')
    BY <1>3, <2>1, SMTT(30)
  <2> QED
    BY <1>7, <2>3, <2>4, <2>5, <2>6, ZenonT(60)
<1>11. CASE BatchOfZero
  <2>1. buf' = Lines /\ UNCHANGED <<files, failures>>
    BY <1>11, ZenonT(60) DEF BatchOfZero
  <2>2. Len(files[cur]) <= Len(files'[cur])
    BY <1>2, <1>3, <2>1, SMTT(30)
  <2> QED
    BY <1>2, <1>4, <1>7, <2>1, <2>2, ZenonT(60) DEF NextItem
<1> QED
  BY <1>2, <1>4, <1>8, <1>9, <1>10, <1>11, ZenonT(60) DEF HandleReport, NextItem

\* Taking the head off the queue: what was ahead of an item still is, or was the head.
LEMMA AheadTail ==
  ASSUME TypeOK, queue # <<>>, queue' = Tail(queue), NEW n \in 0 .. Len(queue'),
         NEW l \in Ahead(n + 1)
  PROVE  l \in Ahead(n)' \/ (Head(queue).kind = "report" /\ l = Head(queue).line)
<1>1. queue \in Seq(Item)
  BY ZenonT(60) DEF TypeOK, QueueType
<1>2. /\ Len(queue) \in Nat /\ Len(queue') \in Nat /\ Len(queue') + 1 = Len(queue)
      /\ Head(queue) = queue[1]
      /\ \A i \in 1 .. Len(queue') : queue'[i] = queue[i + 1]
  BY <1>1, SMTT(30)
<1>3. PICK i \in 1 .. n + 1 : queue[i].kind = "report" /\ l = queue[i].line
  BY ZenonT(60) DEF Ahead
<1>4. CASE i = 1
  BY <1>2, <1>3, <1>4, ZenonT(60)
<1>5. CASE i # 1
  <2>1. i - 1 \in 1 .. n /\ i - 1 \in 1 .. Len(queue') /\ (i - 1) + 1 = i
    BY <1>2, <1>3, <1>5, SMTT(30)
  <2>2. queue'[i - 1] = queue[i]
    BY <1>2, <2>1, ZenonT(60)
  <2> QED
    BY <1>3, <2>1, <2>2, ZenonT(60) DEF Ahead
<1> QED
  BY <1>4, <1>5, ZenonT(60)

\* Posting an item: what was ahead still is, and a posted report is in the queue.
LEMMA AheadAppend ==
  ASSUME TypeOK, NEW x, queue' = Append(queue, x), x \in Item
  PROVE  /\ \A n \in 0 .. Len(queue) : \A l \in Ahead(n) : l \in Ahead(n)'
         /\ x.kind = "report" => x.line \in Ahead(Len(queue))'
         /\ \A l \in Ahead(Len(queue)) : l \in Ahead(Len(queue))'
<1>1. queue \in Seq(Item)
  BY ZenonT(60) DEF TypeOK, QueueType
<1>2. /\ Len(queue) \in Nat /\ Len(queue') = Len(queue) + 1 /\ queue'[Len(queue')] = x
      /\ \A i \in 1 .. Len(queue) : queue'[i] = queue[i]
  BY <1>1, SMTT(30)
<1>3. ASSUME NEW n \in 0 .. Len(queue), NEW m \in 0 .. Len(queue'), n <= m,
             NEW l \in Ahead(n)
      PROVE  l \in Ahead(m)'
  <2>1. PICK i \in 1 .. n : queue[i].kind = "report" /\ l = queue[i].line
    BY ZenonT(60) DEF Ahead
  <2>2. i \in 1 .. m /\ queue'[i] = queue[i]
    BY <1>2, <1>3, <2>1, SMTT(30)
  <2> QED
    BY <2>1, <2>2, ZenonT(60) DEF Ahead
<1>4. x.kind = "report" => x.line \in Ahead(Len(queue))'
  BY <1>2, SMTT(30) DEF Ahead
<1>5. /\ Len(queue) \in 0 .. Len(queue) /\ Len(queue') \in 0 .. Len(queue')
      /\ Len(queue) <= Len(queue')
      /\ \A n \in 0 .. Len(queue) : n \in 0 .. Len(queue') /\ n <= n
  BY <1>2, SMTT(30)
<1> QED
  BY <1>3, <1>4, <1>5, ZenonT(60)

\* A handler that keeps what it has seen and what it takes loses nothing.
LEMMA TailKept ==
  ASSUME TypeOK, NothingLost, ClickInv, queue # <<>>, queue' = Tail(queue),
         cur' = cur, sent' = sent, cur # 0 => Kept \subseteq Kept',
         Head(queue).kind = "report" => Head(queue).line \in Kept'
  PROVE  NothingLost' /\ ClickInv'
<1>1. queue \in Seq(Item)
  BY ZenonT(60) DEF TypeOK, QueueType
<1>2. /\ Len(queue) \in Nat /\ Len(queue') \in Nat /\ Len(queue') + 1 = Len(queue)
      /\ \A i \in 1 .. Len(queue') : queue'[i] = queue[i + 1]
  BY <1>1, SMTT(30)
<1>3. NothingLost'
  <2>1. SUFFICES ASSUME cur # 0, NEW l \in Posted(cur)
                 PROVE  l \in Kept' \/ l \in Ahead(Len(queue))'
    BY ZenonT(60) DEF NothingLost, Posted, Kept
  <2>2. l \in Kept \/ l \in Ahead(Len(queue))
    BY <2>1, ZenonT(60) DEF NothingLost, Kept
  <2>3. CASE l \in Ahead(Len(queue))
    <3>1. ASSUME NEW n, n = Len(queue') PROVE l \in Ahead(n)' \/ l \in Kept'
      <4>1. n \in 0 .. Len(queue') /\ n + 1 = Len(queue)
        BY <1>2, <3>1, SMTT(30)
      <4> QED
        BY <2>3, <4>1, AheadTail, SMTT(30)
    <3> QED
      BY <3>1, ZenonT(60) DEF Ahead
  <2> QED
    BY <2>1, <2>2, <2>3, ZenonT(60)
<1>4. ClickInv'
  <2> SUFFICES ASSUME NEW i \in 1 .. Len(queue'), queue'[i].kind = "click"
               PROVE  /\ queue'[i].sent \subseteq sent
                      /\ cur # 0 => {l \in queue'[i].sent : l[1] = cur} \subseteq Kept' \cup Ahead(i - 1)'
    BY ZenonT(60) DEF ClickInv, Ahead
  <2>1. /\ i + 1 \in 1 .. Len(queue) /\ queue'[i] = queue[i + 1]
        /\ (i + 1) - 1 = (i - 1) + 1 /\ i - 1 \in 0 .. Len(queue')
    BY <1>2, SMTT(30)
  <2>2. /\ queue'[i].sent \subseteq sent
        /\ cur # 0 => {l \in queue'[i].sent : l[1] = cur} \subseteq Kept \cup Ahead((i - 1) + 1)
    BY <2>1, ZenonT(60) DEF ClickInv
  <2>3. ASSUME NEW l \in Ahead((i - 1) + 1) PROVE l \in Ahead(i - 1)' \/ l \in Kept'
    BY <2>1, AheadTail, ZenonT(60)
  <2> QED
    BY <2>2, <2>3, ZenonT(60)
<1> QED
  BY <1>3, <1>4, ZenonT(60)

\* Posting a report, a click or the dialog's "Yes" loses nothing.
LEMMA AppendKept ==
  ASSUME TypeOK, NothingLost, ClickInv, NEW x \in Item, queue' = Append(queue, x),
         cur' = cur, Kept' = Kept,
         sent' = sent \/ (x.kind = "report" /\ sent' = sent \cup {x.line}),
         x.kind = "click" => x.sent = sent
  PROVE  NothingLost' /\ ClickInv'
<1>1. queue \in Seq(Item)
  BY ZenonT(60) DEF TypeOK, QueueType
<1>2. /\ Len(queue) \in Nat /\ Len(queue') = Len(queue) + 1 /\ queue'[Len(queue')] = x
      /\ \A i \in 1 .. Len(queue) : queue'[i] = queue[i]
  BY <1>1, SMTT(30)
<1>3. /\ \A n \in 0 .. Len(queue) : \A l \in Ahead(n) : l \in Ahead(n)'
      /\ x.kind = "report" => x.line \in Ahead(Len(queue))'
      /\ \A l \in Ahead(Len(queue)) : l \in Ahead(Len(queue))'
  BY AheadAppend, ZenonT(60)
<1>4. cur # 0 => Posted(cur) \subseteq Kept \cup Ahead(Len(queue))
  BY ZenonT(60) DEF NothingLost, Kept
<1>5. NothingLost'
  <2>1. SUFFICES ASSUME cur # 0, NEW l \in Posted(cur)'
                 PROVE  l \in Kept' \/ l \in Ahead(Len(queue))'
    BY ZenonT(60) DEF NothingLost, Posted, Kept
  <2>2. l \in Posted(cur) \/ (x.kind = "report" /\ l = x.line)
    BY ZenonT(60) DEF Posted
  <2> QED
    BY <1>3, <1>4, <2>1, <2>2, ZenonT(60)
<1>6. ClickInv'
  <2> SUFFICES ASSUME NEW i \in 1 .. Len(queue'), queue'[i].kind = "click"
               PROVE  /\ queue'[i].sent \subseteq sent'
                      /\ cur # 0 => {l \in queue'[i].sent : l[1] = cur} \subseteq Kept' \cup Ahead(i - 1)'
    BY ZenonT(60) DEF ClickInv, Ahead
  <2>0. i - 1 \in 0 .. Len(queue) /\ sent \subseteq sent'
    BY <1>2, SMTT(30)
  <2>1. CASE i \in 1 .. Len(queue)
    <3>1. queue'[i] = queue[i]
      BY <1>2, <2>1, ZenonT(60)
    <3>2. /\ queue[i].sent \subseteq sent
          /\ cur # 0 => {l \in queue[i].sent : l[1] = cur} \subseteq Kept \cup Ahead(i - 1)
      BY <2>1, <3>1, ZenonT(60) DEF ClickInv
    <3>3. \A l \in Ahead(i - 1) : l \in Ahead(i - 1)'
      BY <1>3, <2>0, ZenonT(60)
    <3> QED
      BY <2>0, <3>1, <3>2, <3>3, ZenonT(60)
  <2>2. CASE i = Len(queue')
    <3>1. queue'[i] = x /\ i - 1 = Len(queue) /\ x.sent = sent
      BY <1>2, <2>2, SMTT(30)
    <3>2. \A l \in Ahead(i - 1) : l \in Ahead(i - 1)'
      BY <1>3, <2>0, ZenonT(60)
    <3>3. cur # 0 => {l \in sent : l[1] = cur} \subseteq Kept \cup Ahead(i - 1)
      BY <1>4, <3>1, ZenonT(60) DEF Posted
    <3> QED
      BY <2>0, <3>1, <3>2, <3>3, ZenonT(60)
  <2> QED
    BY <1>2, <2>1, <2>2, SMTT(30)
<1> QED
  BY <1>5, <1>6, ZenonT(60)

\* A new session starts with no line of its own posted or asked for.
LEMMA NewKept ==
  ASSUME TypeOK, PostInv, ClickInv, queue # <<>>, queue' = Tail(queue),
         cur' = cur + 1, sent' = sent
  PROVE  NothingLost' /\ ClickInv'
<1>1. queue \in Seq(Item) /\ cur \in Nat /\ sent \subseteq Line
  BY SMTT(30) DEF TypeOK, QueueType, SessionType, EnvType
<1>2. /\ Len(queue) \in Nat /\ Len(queue') + 1 = Len(queue)
      /\ \A i \in 1 .. Len(queue') : queue'[i] = queue[i + 1]
  BY <1>1, SMTT(30)
<1>3. \A l \in sent : l[1] # cur + 1
  <2> SUFFICES ASSUME NEW l \in sent PROVE l[1] # cur + 1
    BY ZenonT(60)
  <2>1. l[1] \in Int /\ l[1] <= cur
    BY <1>1, SMTT(30) DEF Line, Sessions, PostInv
  <2> QED
    BY <1>1, <2>1, SMTT(30)
<1>4. NothingLost'
  BY <1>3, ZenonT(60) DEF NothingLost, Posted
<1>5. ClickInv'
  <2> SUFFICES ASSUME NEW i \in 1 .. Len(queue'), queue'[i].kind = "click"
               PROVE  queue'[i].sent \subseteq sent
    BY <1>3, ZenonT(60) DEF ClickInv
  <2>1. i + 1 \in 1 .. Len(queue) /\ queue'[i] = queue[i + 1]
    BY <1>2, SMTT(30)
  <2> QED
    BY <2>1, ZenonT(60) DEF ClickInv
<1> QED
  BY <1>4, <1>5, ZenonT(60)

-----------------------------------------------------------------------------
(* Sessions and their threads.                                             *)

\* What a step of a sampling thread leaves alone, and what it does to its own state.
LEMMA ThreadFacts ==
  ASSUME TypeInv, NEW t \in Sessions, Thread(t)
  PROVE  /\ UNCHANGED <<running, ready, dialog>>
         /\ UNCHANGED <<batch, counter, part, buf, files>>
         /\ UNCHANGED <<mon, cur, summary, joining, failures, due>>
         /\ pc[t] # "new" /\ \A u \in Sessions : u # t => pc'[u] = pc[u]
         /\ \A u \in Sessions : active'[u] => active[u]
<1>1. /\ UNCHANGED <<mapVars, logVars, sessionVars, envVars, due>>
      /\ pc[t] # "new"
      /\ active' = active \/ active' = [active EXCEPT ![t] = FALSE]
      /\ \/ pc' = [pc EXCEPT ![t] = IF active[t] THEN "sample" ELSE "done"]
         \/ \E q \in {"send", "loop", "process", "done"} : pc' = [pc EXCEPT ![t] = q]
  <2>1. CASE LoopTest(t)
    BY <2>1, ZenonT(60) DEF LoopTest
  <2>2. CASE Sample(t)
    BY <2>2, ZenonT(60) DEF Sample
  <2>3. CASE SampleFails(t)
    BY <2>3, ZenonT(60) DEF SampleFails, Die
  <2>4. CASE Send(t)
    BY <2>4, ZenonT(60) DEF Send
  <2>5. CASE Process(t)
    BY <2>5, ZenonT(60) DEF Process, Die
  <2> QED
    BY <2>1, <2>2, <2>3, <2>4, <2>5, ZenonT(60) DEF Thread
<1>2. pc \in [Sessions -> {"new", "loop", "sample", "send", "process", "done"}]
  BY ZenonT(60) DEF TypeInv, TypeOK, ThreadType
<1>3. active \in [Sessions -> BOOLEAN]
  BY ZenonT(60) DEF TypeInv, TypeOK, ThreadType
<1>4. \A u \in Sessions : u # t => pc'[u] = pc[u]
  BY <1>1, <1>2, ZenonT(60)
<1>5. \A u \in Sessions : active'[u] => active[u]
  BY <1>1, <1>3, ZenonT(60)
<1> QED
  BY <1>1, <1>4, <1>5, ZenonT(60) DEF mapVars, logVars, sessionVars, envVars

\* What a start does: a new session, or only the menu item turns.
LEMMA StartFacts ==
  ASSUME TypeInv, StartBranch, ~joining
  PROVE  /\ running'
         /\ UNCHANGED <<ready, summary, joining, counted, sampled, report, failures, sent, due>>
         /\ \/ /\ ready /\ ~CheckIfTraceActive
               /\ cur + 1 \in Sessions /\ cur' = cur + 1 /\ mon' = cur + 1
               /\ active' = [active EXCEPT ![cur + 1] = TRUE]
               /\ pc' = [pc EXCEPT ![cur + 1] = "loop"]
               /\ \A s \in Sessions : s # cur + 1 => files'[s] = files[s]
            \/ /\ ~ready \/ CheckIfTraceActive
               /\ UNCHANGED <<cur, mon, active, pc, part, counter, buf, files>>
<1>1. running' /\ UNCHANGED <<ready, summary, joining, counted, sampled, report, failures, sent, due>>
  BY ZenonT(60) DEF StartBranch, envVars
<1>2. CASE ready /\ ~CheckIfTraceActive
  <2>1. /\ cur < MaxSessions /\ cur' = cur + 1 /\ mon' = cur + 1
        /\ active' = [active EXCEPT ![cur + 1] = TRUE]
        /\ pc' = [pc EXCEPT ![cur + 1] = "loop"]
        /\ files' = [files EXCEPT ![cur + 1] = << <<>> >>]
    BY <1>2, ZenonT(60) DEF StartBranch
  <2>2. cur + 1 \in Sessions
    BY <2>1, LogConstants, SMTT(30) DEF TypeInv, TypeOK, SessionType, Sessions
  <2>3. \A s \in Sessions : s # cur + 1 => files'[s] = files[s]
    BY <2>1, ZenonT(60) DEF TypeInv, TypeOK, LogType
  <2> QED
    BY <1>1, <1>2, <2>1, <2>2, <2>3, ZenonT(60)
<1>3. CASE ~(ready /\ ~CheckIfTraceActive)
  <2>1. UNCHANGED <<cur, mon, active, pc, part, counter, buf, files>>
    BY <1>3, ZenonT(60) DEF StartBranch
  <2> QED
    BY <1>1, <1>3, <2>1, ZenonT(60)
<1> QED
  BY <1>2, <1>3, ZenonT(60)

\* What the stop branch does to the files, the summary and the thread.
LEMMA StopFacts ==
  ASSUME TypeInv, StopInv,
         \/ StopWithoutTrace
         \/ \E ok \in BOOLEAN : StopTracing(ok)
         \/ \E n \in 0 .. Len(buf) : StopTracingFails(n)
  PROVE  /\ queue # <<>> /\ Head(queue).kind = "click" /\ queue' = Tail(queue)
         /\ running /\ ~joining /\ ~running'
         /\ UNCHANGED <<ready, cur, counted, pc, sampled, report, sent>>
         /\ due' = IF cur = 0 THEN due
                   ELSE [due EXCEPT ![cur] = @ \cup {l \in Head(queue).sent : l[1] = cur}]
         /\ failures' = 0 => failures = 0
         /\ \/ ~CheckIfTraceActive /\ UNCHANGED <<mon, active, buf, files, joining, summary>>
            \/ /\ CheckIfTraceActive /\ cur \in Sessions /\ mon = cur
               /\ active' = [active EXCEPT ![mon] = FALSE]
               /\ Len(files'[cur]) = Len(files[cur])
               /\ InParts(files[cur]) \subseteq InParts(files'[cur])
               /\ \A s \in Sessions : s # cur => files'[s] = files[s]
               /\ \/ /\ summary' = [summary EXCEPT ![cur] = Append(@, SummaryEntry)]
                     /\ LinesOf(buf) \subseteq InParts(files'[cur])
                     /\ joining' /\ mon' = mon
                  \/ /\ summary' = summary
                     /\ LinesOf(buf) \subseteq InParts(files'[cur])
                     /\ joining' /\ mon' = mon /\ failures' # 0
                  \/ /\ summary' = summary
                     /\ buf' = buf /\ ~joining' /\ mon' = 0 /\ failures' # 0
<1>1. TakeStopClick
  BY ZenonT(60) DEF StopWithoutTrace, StopTracing, StopTracingFails
<1>2. /\ queue # <<>> /\ Head(queue).kind = "click" /\ queue' = Tail(queue)
      /\ running /\ ~joining /\ ~running'
      /\ UNCHANGED <<ready, cur, counted, pc, sampled, report, sent>>
      /\ due' = IF cur = 0 THEN due
                ELSE [due EXCEPT ![cur] = @ \cup {l \in Head(queue).sent : l[1] = cur}]
  BY <1>1, ZenonT(60) DEF TakeStopClick, NextItem
<1>3. /\ buf \in Seq(Line) /\ files \in [Sessions -> Seq(Seq(Line))] /\ failures \in Nat
  BY SMTT(30) DEF TypeInv, TypeOK, LogType, EnvType
<1>4. ASSUME CheckIfTraceActive
      PROVE  cur \in Sessions /\ mon = cur /\ part \in 1 .. Len(files[cur])
  BY <1>4, SMTT(30) DEF CheckIfTraceActive, StopInv, TypeInv, TypeOK, SessionType, LogType, FileInv, Sessions
<1>5. CASE StopWithoutTrace
  <2>1. ~CheckIfTraceActive /\ UNCHANGED <<mon, active, buf, files, joining, summary, failures>>
    BY <1>5, ZenonT(60) DEF StopWithoutTrace
  <2> QED
    BY <1>2, <2>1, ZenonT(60)
<1>6. ASSUME NEW ok \in BOOLEAN, StopTracing(ok)
      PROVE  /\ failures' = 0 => failures = 0
             /\ CheckIfTraceActive /\ cur \in Sessions /\ mon = cur
             /\ active' = [active EXCEPT ![mon] = FALSE]
             /\ Len(files'[cur]) = Len(files[cur])
             /\ InParts(files[cur]) \subseteq InParts(files'[cur])
             /\ \A s \in Sessions : s # cur => files'[s] = files[s]
             /\ LinesOf(buf) \subseteq InParts(files'[cur])
             /\ joining' /\ mon' = mon
             /\ \/ summary' = [summary EXCEPT ![cur] = Append(@, SummaryEntry)]
                \/ summary' = summary /\ failures' # 0
  <2>1. /\ CheckIfTraceActive /\ files' = Appended(files, buf)
        /\ active' = [active EXCEPT ![mon] = FALSE] /\ joining' /\ mon' = mon
    BY <1>6, ZenonT(60) DEF StopTracing, SaveUnsavedLogs, Deactivate
  <2>2. /\ Len(files'[cur]) = Len(files[cur])
        /\ \A s \in Sessions : s # cur => files'[s] = files[s]
    BY <1>3, <1>4, <2>1, AppendedType, ZenonT(60)
  <2>3. /\ InParts(files[cur]) \subseteq InParts(files'[cur])
        /\ LinesOf(buf) \subseteq InParts(files'[cur])
    BY <1>3, <1>4, <2>1, AppendedLines, ZenonT(60)
  <2>4. /\ failures' = 0 => failures = 0
        /\ \/ summary' = [summary EXCEPT ![cur] = Append(@, SummaryEntry)]
           \/ summary' = summary /\ failures' # 0
    <3>1. CASE ok
      BY <1>6, <3>1, ZenonT(60) DEF StopTracing
    <3>2. CASE ~ok
      <4>1. summary' = summary /\ failures' = failures + 1
        BY <1>6, <3>2, ZenonT(60) DEF StopTracing
      <4> QED
        BY <1>3, <4>1, SMTT(30)
    <3> QED
      BY <3>1, <3>2, ZenonT(60)
  <2> QED
    BY <1>4, <2>1, <2>2, <2>3, <2>4, ZenonT(60)
<1>7. ASSUME NEW n \in 0 .. Len(buf), StopTracingFails(n)
      PROVE  /\ CheckIfTraceActive /\ cur \in Sessions /\ mon = cur
             /\ active' = [active EXCEPT ![mon] = FALSE]
             /\ Len(files'[cur]) = Len(files[cur])
             /\ InParts(files[cur]) \subseteq InParts(files'[cur])
             /\ \A s \in Sessions : s # cur => files'[s] = files[s]
             /\ summary' = summary /\ buf' = buf /\ mon' = 0 /\ failures' # 0
             /\ joining' = joining
  <2> DEFINE some == SubSeq(buf, 1, n)
  <2>1. /\ CheckIfTraceActive /\ files' = Appended(files, some)
        /\ active' = [active EXCEPT ![mon] = FALSE] /\ mon' = 0
        /\ failures' = failures + 1 /\ UNCHANGED <<buf, summary, joining>>
    BY <1>7, ZenonT(60) DEF StopTracingFails, Deactivate
  <2>2. some \in Seq(Line)
    BY <1>3, SMTT(30)
  <2> HIDE DEF some
  <2>3. /\ Len(files'[cur]) = Len(files[cur])
        /\ \A s \in Sessions : s # cur => files'[s] = files[s]
    BY <1>3, <1>4, <2>1, <2>2, AppendedType, ZenonT(60)
  <2>4. InParts(files[cur]) \subseteq InParts(files'[cur])
    BY <1>3, <1>4, <2>1, <2>2, AppendedLines, ZenonT(60)
  <2> QED
    BY <1>3, <1>4, <2>1, <2>3, <2>4, SMTT(30)
<1>8. CASE \E ok \in BOOLEAN : StopTracing(ok)
  BY <1>2, <1>6, <1>8, ZenonT(60)
<1>9. CASE \E n \in 0 .. Len(buf) : StopTracingFails(n)
  <2>1. PICK n \in 0 .. Len(buf) : StopTracingFails(n)
    BY <1>9, ZenonT(60)
  <2>2. joining' = joining
    BY <1>7, <2>1, ZenonT(60)
  <2>3. ~joining'
    BY <1>2, <2>2, ZenonT(60)
  <2> QED
    BY <1>2, <1>7, <2>1, <2>3, ZenonT(60)
<1> QED
  BY <1>5, <1>8, <1>9, ZenonT(60)

-----------------------------------------------------------------------------
(* Every step keeps the invariant.                                         *)

\* What a step that does not touch it leaves as it is.
LEMMA QuietLines ==
  /\ PostInv /\ UNCHANGED <<sent, cur, report, pc>> => PostInv'
  /\ StopInv /\ UNCHANGED <<cur, ready, mon, joining, active, due, summary, running>> => StopInv'
  /\ StopSavesPostedLines /\ UNCHANGED <<summary, due, files>> => StopSavesPostedLines'
  /\ NothingLost /\ ClickInv /\ UNCHANGED <<queue, sent, cur, files, buf>>
       => NothingLost' /\ ClickInv'
  /\ UNCHANGED <<cur, files, buf>> => Kept' = Kept
<1>1. PostInv /\ UNCHANGED <<sent, cur, report, pc>> => PostInv'
  BY ZenonT(60) DEF PostInv
<1>2. StopInv /\ UNCHANGED <<cur, ready, mon, joining, active, due, summary, running>> => StopInv'
  BY SMTT(30) DEF StopInv, CheckIfTraceActive
<1>3. StopSavesPostedLines /\ UNCHANGED <<summary, due, files>> => StopSavesPostedLines'
  BY ZenonT(60) DEF StopSavesPostedLines
<1>4. UNCHANGED <<cur, files, buf>> => Kept' = Kept
  BY ZenonT(60) DEF Kept
<1>5. ASSUME UNCHANGED <<queue, sent, cur, files, buf>>
      PROVE  (NothingLost => NothingLost') /\ (ClickInv => ClickInv')
  <2>1. Kept' = Kept
    BY <1>4, <1>5, ZenonT(60)
  <2>2. NothingLost => NothingLost'
    BY <1>5, SMTT(30) DEF NothingLost, Posted, Ahead
  <2>3. ClickInv => ClickInv'
    BY <1>5, <2>1, SMTT(30) DEF ClickInv, Ahead
  <2> QED
    BY <2>2, <2>3, ZenonT(60)
<1> QED
  BY <1>1, <1>2, <1>3, <1>4, <1>5, ZenonT(60)

\* The user and the callbacks.
LEMMA EnvironmentLines ==
  ASSUME TypeInv, LineInv, Environment
  PROVE  LineInv'
<1>0. /\ PostInv /\ NothingLost /\ ClickInv /\ StopInv /\ StopSavesPostedLines /\ TypeOK
  BY ZenonT(60) DEF LineInv, TypeInv
<1>1. ASSUME UNCHANGED <<sent, cur, report, pc>>,
             UNCHANGED <<mon, joining, active, due, summary, running, files>>,
             ready' = ready \/ ready',
             NothingLost', ClickInv'
      PROVE  LineInv'
  <2>1. StopInv'
    BY <1>0, <1>1, SMTT(30) DEF StopInv, CheckIfTraceActive
  <2> QED
    BY <1>0, <1>1, <2>1, QuietLines, ZenonT(60) DEF LineInv
<1>2. CASE BecomeReady
  <2>1. /\ UNCHANGED <<sent, cur, report, pc>> /\ ready'
        /\ UNCHANGED <<mon, joining, active, due, summary, running, files>>
        /\ UNCHANGED <<queue, sent, cur, files, buf>>
    BY <1>2, ZenonT(60) DEF BecomeReady, logVars, sessionVars, threadVars
  <2> QED
    BY <1>0, <1>1, <2>1, QuietLines, ZenonT(60)
<1>3. CASE DetectActivities
  <2>1. /\ UNCHANGED <<sent, cur, report, pc>> /\ ready' = ready
        /\ UNCHANGED <<mon, joining, active, due, summary, running, files>>
        /\ UNCHANGED <<queue, sent, cur, files, buf>>
    BY <1>3, ZenonT(60) DEF DetectActivities, mapVars, logVars, sessionVars, threadVars
  <2> QED
    BY <1>0, <1>1, <2>1, QuietLines, ZenonT(60)
<1>4. CASE Click
  <2> DEFINE x == [kind |-> "click", sent |-> sent]
  <2>1. /\ UNCHANGED <<sent, cur, report, pc>> /\ ready' = ready
        /\ UNCHANGED <<mon, joining, active, due, summary, running, files>>
        /\ UNCHANGED <<cur, files, buf>> /\ queue' = Append(queue, x)
    BY <1>4, ZenonT(60) DEF Click, mapVars, logVars, sessionVars, threadVars
  <2>2. x \in Item /\ x.kind = "click" /\ x.sent = sent
    BY <1>0, ZenonT(60) DEF TypeOK, EnvType, Item
  <2> HIDE DEF x
  <2>3. NothingLost' /\ ClickInv'
    BY <1>0, <2>1, <2>2, QuietLines, AppendKept, ZenonT(60)
  <2> QED
    BY <1>1, <2>1, <2>3, ZenonT(60)
<1>5. ASSUME NEW yes \in BOOLEAN, AnswerDialog(yes) PROVE LineInv'
  <2> DEFINE x == [kind |-> "yes"]
  <2>1. /\ UNCHANGED <<sent, cur, report, pc>> /\ ready' = ready
        /\ UNCHANGED <<mon, joining, active, due, summary, running, files>>
        /\ UNCHANGED <<sent, cur, files, buf>>
        /\ queue' = Append(queue, x) \/ queue' = queue
    BY <1>5, ZenonT(60) DEF AnswerDialog, logVars, sessionVars, threadVars
  <2>2. x \in Item /\ x.kind = "yes"
    BY ZenonT(60) DEF Item
  <2> HIDE DEF x
  <2>3. CASE queue' = Append(queue, x)
    <3>1. NothingLost' /\ ClickInv'
      BY <1>0, <2>1, <2>2, <2>3, QuietLines, AppendKept, ZenonT(60)
    <3> QED
      BY <1>1, <2>1, <3>1, ZenonT(60)
  <2>4. CASE queue' = queue
    BY <1>0, <1>1, <2>1, <2>4, QuietLines, ZenonT(60)
  <2> QED
    BY <2>1, <2>3, <2>4, ZenonT(60)
<1>6. ASSUME NEW b \in Batches, SaveTracerDialog(b) PROVE LineInv'
  <2>1. /\ UNCHANGED <<sent, cur, report, pc>> /\ ready' = ready
        /\ UNCHANGED <<mon, joining, active, due, summary, running, files>>
        /\ UNCHANGED <<queue, sent, cur, files, buf>>
    BY <1>6, ZenonT(60) DEF SaveTracerDialog, mapVars, sessionVars, threadVars
  <2> QED
    BY <1>0, <1>1, <2>1, QuietLines, ZenonT(60)
<1> QED
  BY <1>2, <1>3, <1>4, <1>5, <1>6, ZenonT(60) DEF Environment

\* handleMessage.
LEMMA ReportLines ==
  ASSUME TypeInv, LineInv, HandleReport
  PROVE  LineInv'
<1>1. /\ PostInv /\ NothingLost /\ ClickInv /\ StopInv /\ StopSavesPostedLines /\ TypeOK
  BY ZenonT(60) DEF LineInv, TypeInv
<1>2. /\ queue # <<>> /\ queue' = Tail(queue) /\ Kept \subseteq Kept' /\ Head(queue).line \in Kept'
      /\ InParts(files[cur]) \subseteq InParts(files'[cur])
      /\ \A s \in Sessions : s # cur => files'[s] = files[s]
      /\ UNCHANGED <<sent, cur, report, pc>>
      /\ UNCHANGED <<cur, ready, mon, joining, active, due, summary, running>>
  BY ReportKept, ZenonT(60) DEF mapVars, sessionVars, threadVars
<1>3. NothingLost' /\ ClickInv'
  BY <1>1, <1>2, TailKept, ZenonT(60)
<1>4. StopSavesPostedLines'
  <2> SUFFICES ASSUME NEW s \in Sessions, summary[s] # <<>> PROVE due[s] \subseteq InParts(files'[s])
    BY <1>2, ZenonT(60) DEF StopSavesPostedLines
  <2>1. due[s] \subseteq InParts(files[s])
    BY <1>1, ZenonT(60) DEF StopSavesPostedLines
  <2> QED
    BY <1>2, <2>1, ZenonT(60)
<1> QED
  BY <1>1, <1>2, <1>3, <1>4, QuietLines, ZenonT(60) DEF LineInv

\* The start branch, from the click or from the dialog.
LEMMA StartLines ==
  ASSUME TypeInv, LineInv, StartBranch, NEW kind, NextItem(kind), kind # "report",
         queue' = Tail(queue)
  PROVE  LineInv'
<1>1. /\ PostInv /\ NothingLost /\ ClickInv /\ StopInv /\ StopSavesPostedLines /\ TypeOK
  BY ZenonT(60) DEF LineInv, TypeInv
<1>2. ~joining /\ queue # <<>> /\ Head(queue).kind # "report"
  BY ZenonT(60) DEF NextItem
<1>3. /\ running'
      /\ UNCHANGED <<ready, summary, joining, report, sent, due>>
  BY <1>2, StartFacts, ZenonT(60)
<1>4. ASSUME ready, ~CheckIfTraceActive,
             cur + 1 \in Sessions, cur' = cur + 1, mon' = cur + 1,
             active' = [active EXCEPT ![cur + 1] = TRUE],
             pc' = [pc EXCEPT ![cur + 1] = "loop"],
             \A s \in Sessions : s # cur + 1 => files'[s] = files[s]
      PROVE  LineInv'
  <2>0. /\ cur \in Nat /\ pc \in [Sessions -> {"new", "loop", "sample", "send", "process", "done"}]
        /\ active \in [Sessions -> BOOLEAN] /\ sent \subseteq Line /\ report \in Line \cup {NoReport}
    BY <1>1, SMTT(30) DEF TypeOK, SessionType, ThreadType, EnvType
  <2>1. PostInv'
    <3>1. \A l \in sent : l[1] <= cur + 1
      BY <1>1, <2>0, SMTT(30) DEF PostInv, Line, Sessions
    <3>2. report # NoReport => report[1] <= cur + 1
      BY <1>1, <2>0, SMTT(30) DEF PostInv, Line, Sessions
    <3>3. ASSUME NEW t \in Sessions, t > cur + 1 PROVE pc'[t] = "new"
      <4>1. t > cur /\ t # cur + 1
        BY <2>0, <3>3, SMTT(30) DEF Sessions
      <4> QED
        BY <1>1, <1>4, <2>0, <4>1, ZenonT(60) DEF PostInv
    <3> QED
      BY <1>3, <1>4, <3>1, <3>2, <3>3, ZenonT(60) DEF PostInv
  <2>2. NothingLost' /\ ClickInv'
    BY <1>1, <1>2, <1>3, <1>4, NewKept, ZenonT(60)
  <2>3. /\ summary[cur + 1] = <<>> /\ due[cur + 1] = {}
        /\ \A s \in Sessions : s > cur + 1 => summary[s] = <<>> /\ due[s] = {}
    <3>1. cur + 1 > cur /\ \A s \in Sessions : s > cur + 1 => s > cur
      BY <2>0, SMTT(30) DEF Sessions
    <3> QED
      BY <1>1, <1>4, <3>1, ZenonT(60) DEF StopInv
  <2>4. StopInv'
    BY <1>2, <1>3, <1>4, <2>3, ZenonT(60) DEF StopInv
  <2>5. StopSavesPostedLines'
    BY <1>1, <1>3, <1>4, <2>3, ZenonT(60) DEF StopSavesPostedLines
  <2> QED
    BY <2>1, <2>2, <2>4, <2>5, ZenonT(60) DEF LineInv
<1>5. ASSUME ~ready \/ CheckIfTraceActive,
             UNCHANGED <<cur, mon, active, pc, part, counter, buf, files>>
      PROVE  LineInv'
  <2>1. Kept' = Kept
    BY <1>5, QuietLines, ZenonT(60)
  <2>2. NothingLost' /\ ClickInv'
    BY <1>1, <1>2, <1>3, <1>5, <2>1, TailKept, ZenonT(60)
  <2>3. StopInv'
    <3>1. cur # 0 => summary[cur] = <<>>
      BY <1>1, <1>5, ZenonT(60) DEF StopInv
    <3> QED
      BY <1>1, <1>3, <1>5, <3>1, ZenonT(60) DEF StopInv, CheckIfTraceActive
  <2> QED
    BY <1>1, <1>3, <1>5, <2>2, <2>3, QuietLines, ZenonT(60) DEF LineInv
<1> QED
  BY <1>2, <1>4, <1>5, StartFacts, ZenonT(60)

\* The stop branch: the lines that the user had seen posted are on disk before the
\* summary entry is.
LEMMA StopLines ==
  ASSUME TypeInv, LineInv,
         \/ StopWithoutTrace
         \/ \E ok \in BOOLEAN : StopTracing(ok)
         \/ \E n \in 0 .. Len(buf) : StopTracingFails(n)
  PROVE  LineInv'
<1>1. /\ PostInv /\ NothingLost /\ ClickInv /\ StopInv /\ StopSavesPostedLines /\ TypeOK
  BY ZenonT(60) DEF LineInv, TypeInv
<1>2. /\ queue # <<>> /\ Head(queue).kind = "click" /\ queue' = Tail(queue)
      /\ running /\ ~joining /\ ~running'
      /\ UNCHANGED <<ready, cur, pc, report, sent>>
      /\ due' = IF cur = 0 THEN due
                ELSE [due EXCEPT ![cur] = @ \cup {l \in Head(queue).sent : l[1] = cur}]
  BY <1>1, StopFacts, ZenonT(60)
<1>3. /\ queue \in Seq(Item) /\ cur \in 0 .. MaxSessions /\ mon \in 0 .. MaxSessions
      /\ due \in [Sessions -> SUBSET Line] /\ active \in [Sessions -> BOOLEAN]
      /\ summary \in [Sessions -> Seq([parts : Nat, counted : Nat])]
      /\ cur # 0 => cur \in Sessions
  BY <1>1, LogConstants, SMTT(30) DEF TypeOK, QueueType, SessionType, EnvType, ThreadType, Sessions
<1>4. PostInv'
  BY <1>1, <1>2, QuietLines, ZenonT(60)
<1>5. \A s \in Sessions : s # cur => due'[s] = due[s]
  BY <1>2, <1>3, ZenonT(60)
<1>6. cur # 0 => due'[cur] = due[cur] \cup {l \in Head(queue).sent : l[1] = cur}
  BY <1>2, <1>3, ZenonT(60)
<1>7. \A s \in Sessions : s > cur => s # cur
  BY <1>3, SMTT(30) DEF Sessions
<1>8. ASSUME ~CheckIfTraceActive, UNCHANGED <<mon, active, buf, files, joining, summary>>
      PROVE  LineInv'
  <2>1. Kept' = Kept
    BY <1>2, <1>8, QuietLines, ZenonT(60)
  <2>2. NothingLost' /\ ClickInv'
    BY <1>1, <1>2, <2>1, TailKept, ZenonT(60)
  <2>3. cur # 0 => summary[cur] = <<>>
    BY <1>1, <1>2, ZenonT(60) DEF StopInv
  <2>4. StopInv'
    BY <1>1, <1>2, <1>5, <1>7, <1>8, <2>3, ZenonT(60) DEF StopInv, CheckIfTraceActive
  <2>5. StopSavesPostedLines'
    <3> SUFFICES ASSUME NEW s \in Sessions, summary[s] # <<>> PROVE due'[s] \subseteq InParts(files[s])
      BY <1>8, ZenonT(60) DEF StopSavesPostedLines
    <3>1. s # cur
      BY <2>3, SMTT(30) DEF Sessions
    <3> QED
      BY <1>1, <1>5, <3>1, ZenonT(60) DEF StopSavesPostedLines
  <2> QED
    BY <1>4, <2>2, <2>4, <2>5, ZenonT(60) DEF LineInv
<1>9. ASSUME CheckIfTraceActive, cur \in Sessions, mon = cur,
             active' = [active EXCEPT ![mon] = FALSE],
             InParts(files[cur]) \subseteq InParts(files'[cur]),
             \A s \in Sessions : s # cur => files'[s] = files[s]
      PROVE  /\ LinesOf(buf) \subseteq InParts(files'[cur]) \cup LinesOf(buf')
                  => NothingLost' /\ ClickInv'
             /\ summary[cur] = <<>> /\ due[cur] = {} /\ cur # 0
             /\ ~active'[cur]
             /\ LinesOf(buf) \subseteq InParts(files'[cur]) => due'[cur] \subseteq InParts(files'[cur])
  <2>1. summary[cur] = <<>> /\ due[cur] = {} /\ cur # 0 /\ ~active'[cur]
    <3>1. summary[cur] = <<>> /\ due[cur] = {}
      BY <1>1, <1>9, ZenonT(60) DEF StopInv
    <3>2. cur # 0
      BY <1>9, SMTT(30) DEF Sessions
    <3>3. ~active'[cur]
      BY <1>3, <1>9, ZenonT(60)
    <3> QED
      BY <3>1, <3>2, <3>3, ZenonT(60)
  <2>2. LinesOf(buf) \subseteq InParts(files'[cur]) \cup LinesOf(buf') => Kept \subseteq Kept'
    BY <1>2, <1>9, ZenonT(60) DEF Kept
  <2>3. LinesOf(buf) \subseteq InParts(files'[cur]) \cup LinesOf(buf') => NothingLost' /\ ClickInv'
    BY <1>1, <1>2, <2>2, TailKept, ZenonT(60)
  <2>4. {l \in Head(queue).sent : l[1] = cur} \subseteq Kept
    <3>1. 1 \in 1 .. Len(queue) /\ Head(queue) = queue[1] /\ queue[1].kind = "click"
      BY <1>2, <1>3, SMTT(30)
    <3>2. {l \in queue[1].sent : l[1] = cur} \subseteq Kept \cup Ahead(1 - 1)
      BY <1>1, <2>1, <3>1, ZenonT(60) DEF ClickInv
    <3>3. Ahead(1 - 1) = {}
      BY SMTT(30) DEF Ahead
    <3> QED
      BY <3>1, <3>2, <3>3, ZenonT(60)
  <2>5. LinesOf(buf) \subseteq InParts(files'[cur]) => due'[cur] \subseteq InParts(files'[cur])
    BY <1>6, <1>9, <2>1, <2>4, ZenonT(60) DEF Kept
  <2> QED
    BY <2>1, <2>3, <2>5, ZenonT(60)
<1>10. ASSUME CheckIfTraceActive, cur \in Sessions, mon = cur,
              active' = [active EXCEPT ![mon] = FALSE],
              InParts(files[cur]) \subseteq InParts(files'[cur]),
              \A s \in Sessions : s # cur => files'[s] = files[s],
              LinesOf(buf) \subseteq InParts(files'[cur]),
              joining', mon' = mon,
              \A s \in Sessions : s # cur => summary'[s] = summary[s]
       PROVE  LineInv'
  <2>1. /\ NothingLost' /\ ClickInv' /\ cur # 0 /\ ~active'[cur]
        /\ due'[cur] \subseteq InParts(files'[cur])
    BY <1>9, <1>10, ZenonT(60)
  <2>2. StopInv'
    BY <1>1, <1>2, <1>5, <1>7, <1>10, <2>1, ZenonT(60) DEF StopInv, CheckIfTraceActive
  <2>3. StopSavesPostedLines'
    <3> SUFFICES ASSUME NEW s \in Sessions, summary'[s] # <<>> PROVE due'[s] \subseteq InParts(files'[s])
      BY ZenonT(60) DEF StopSavesPostedLines
    <3>1. CASE s = cur
      BY <2>1, <3>1, ZenonT(60)
    <3>2. CASE s # cur
      <4>1. due[s] \subseteq InParts(files[s])
        BY <1>1, <1>10, <3>2, ZenonT(60) DEF StopSavesPostedLines
      <4> QED
        BY <1>5, <1>10, <3>2, <4>1, ZenonT(60)
    <3> QED
      BY <3>1, <3>2, ZenonT(60)
  <2> QED
    BY <1>4, <2>1, <2>2, <2>3, ZenonT(60) DEF LineInv
<1>11. ASSUME CheckIfTraceActive, cur \in Sessions, mon = cur,
              active' = [active EXCEPT ![mon] = FALSE],
              InParts(files[cur]) \subseteq InParts(files'[cur]),
              \A s \in Sessions : s # cur => files'[s] = files[s],
              summary' = summary, buf' = buf, ~joining', mon' = 0
       PROVE  LineInv'
  <2>1. /\ NothingLost' /\ ClickInv' /\ cur # 0 /\ ~active'[cur] /\ summary[cur] = <<>>
    BY <1>9, <1>11, ZenonT(60)
  <2>2. StopInv'
    BY <1>1, <1>2, <1>5, <1>7, <1>11, <2>1, ZenonT(60) DEF StopInv, CheckIfTraceActive
  <2>3. StopSavesPostedLines'
    <3> SUFFICES ASSUME NEW s \in Sessions, summary[s] # <<>> PROVE due'[s] \subseteq InParts(files'[s])
      BY <1>11, ZenonT(60) DEF StopSavesPostedLines
    <3>1. s # cur
      BY <2>1, ZenonT(60)
    <3>2. due[s] \subseteq InParts(files[s])
      BY <1>1, ZenonT(60) DEF StopSavesPostedLines
    <3> QED
      BY <1>5, <1>11, <3>1, <3>2, ZenonT(60)
  <2> QED
    BY <1>4, <2>1, <2>2, <2>3, ZenonT(60) DEF LineInv
<1>12. ASSUME summary' = [summary EXCEPT ![cur] = Append(@, SummaryEntry)]
       PROVE  \A s \in Sessions : s # cur => summary'[s] = summary[s]
  BY <1>3, <1>12, ZenonT(60)
<1>13. ASSUME summary' = summary
       PROVE  \A s \in Sessions : s # cur => summary'[s] = summary[s]
  BY <1>13, ZenonT(60)
<1> QED
  BY <1>1, <1>8, <1>10, <1>11, <1>12, <1>13, StopFacts, ZenonT(60)

\* A step of a sampling thread.
LEMMA ThreadLines ==
  ASSUME TypeInv, LineInv, NEW t \in Sessions, Thread(t)
  PROVE  LineInv'
<1>1. /\ PostInv /\ NothingLost /\ ClickInv /\ StopInv /\ StopSavesPostedLines /\ TypeOK
  BY ZenonT(60) DEF LineInv, TypeInv
<1>2. /\ UNCHANGED <<running, ready>> /\ UNCHANGED <<buf, files>>
      /\ UNCHANGED <<mon, cur, summary, joining, due>>
      /\ pc[t] # "new" /\ \A u \in Sessions : u # t => pc'[u] = pc[u]
      /\ \A u \in Sessions : active'[u] => active[u]
  BY ThreadFacts, ZenonT(60)
<1>3. cur \in Nat /\ t \in Nat /\ (mon # 0 => mon \in Sessions)
  BY <1>1, LogConstants, SMTT(30) DEF TypeOK, SessionType, Sessions
<1>4. t <= cur
  BY <1>1, <1>2, <1>3, SMTT(30) DEF PostInv
<1>5. \/ UNCHANGED <<report, sent, queue>>
      \/ /\ report' = NoReport \/ report'[1] = t
         /\ UNCHANGED <<sent, queue>>
      \/ /\ report # NoReport /\ report' = report /\ sent' = sent \cup {report}
         /\ queue' = Append(queue, [kind |-> "report", line |-> report])
  <2>1. CASE LoopTest(t)
    BY <2>1, ZenonT(60) DEF LoopTest
  <2>2. CASE Sample(t)
    BY <2>2, ZenonT(60) DEF Sample
  <2>3. CASE SampleFails(t)
    BY <2>3, ZenonT(60) DEF SampleFails
  <2>4. CASE Send(t)
    BY <2>4, ZenonT(60) DEF Send
  <2>5. CASE Process(t)
    BY <2>5, ZenonT(60) DEF Process
  <2> QED
    BY <2>1, <2>2, <2>3, <2>4, <2>5, ZenonT(60) DEF Thread
<1>6. PostInv'
  <2>1. ASSUME NEW u \in Sessions, u > cur PROVE pc'[u] = "new"
    BY <1>1, <1>2, <1>3, <1>4, <2>1, ZenonT(60) DEF PostInv, Sessions
  <2>2. /\ \A l \in sent' : l[1] <= cur
        /\ report' # NoReport => report'[1] <= cur
    BY <1>1, <1>4, <1>5, ZenonT(60) DEF PostInv
  <2> QED
    BY <1>2, <2>1, <2>2, ZenonT(60) DEF PostInv
<1>7. StopInv'
  BY <1>1, <1>2, <1>3, ZenonT(60) DEF StopInv, CheckIfTraceActive
<1>8. NothingLost' /\ ClickInv'
  <2>1. CASE UNCHANGED <<sent, queue>>
    BY <1>1, <1>2, <2>1, QuietLines, ZenonT(60)
  <2>2. CASE /\ report # NoReport /\ sent' = sent \cup {report}
             /\ queue' = Append(queue, [kind |-> "report", line |-> report])
    <3> DEFINE x == [kind |-> "report", line |-> report]
    <3>1. x \in Item /\ x.kind = "report" /\ x.line = report
      BY <1>1, <2>2, ZenonT(60) DEF TypeOK, ThreadType, Item
    <3>2. queue' = Append(queue, x)
      BY <2>2, ZenonT(60)
    <3> HIDE DEF x
    <3> QED
      BY <1>1, <1>2, <2>2, <3>1, <3>2, QuietLines, AppendKept, ZenonT(60)
  <2> QED
    BY <1>5, <2>1, <2>2, ZenonT(60)
<1> QED
  BY <1>1, <1>2, <1>6, <1>7, <1>8, QuietLines, ZenonT(60) DEF LineInv

\* Every step keeps the invariant.
LEMMA NextLines == TypeInv /\ LineInv /\ [Next]_vars => LineInv'
<1> SUFFICES ASSUME TypeInv, LineInv, [Next]_vars PROVE LineInv'
  BY ZenonT(60)
<1>1. /\ PostInv /\ NothingLost /\ ClickInv /\ StopInv /\ StopSavesPostedLines /\ TypeOK
  BY ZenonT(60) DEF LineInv, TypeInv
<1>2. CASE UNCHANGED vars
  <2>1. /\ UNCHANGED <<sent, cur, report, pc>>
        /\ UNCHANGED <<cur, ready, mon, joining, active, due, summary, running>>
        /\ UNCHANGED <<summary, due, files>> /\ UNCHANGED <<queue, sent, cur, files, buf>>
    BY <1>2, ZenonT(60) DEF vars, mapVars, logVars, sessionVars, threadVars
  <2> QED
    BY <1>1, <2>1, QuietLines, ZenonT(60) DEF LineInv
<1>3. CASE ClickStarts
  BY <1>3, StartLines, ZenonT(60) DEF ClickStarts
<1>4. CASE DialogStarts
  BY <1>4, StartLines, ZenonT(60) DEF DialogStarts
<1>5. CASE ClickAsks
  <2>1. /\ queue # <<>> /\ Head(queue).kind = "click" /\ queue' = Tail(queue)
        /\ UNCHANGED <<sent, cur, report, pc>>
        /\ UNCHANGED <<cur, ready, mon, joining, active, due, summary, running>>
        /\ UNCHANGED <<summary, due, files>> /\ UNCHANGED <<cur, files, buf>>
    BY <1>5, ZenonT(60) DEF ClickAsks, NextItem, logVars, sessionVars, threadVars
  <2>2. Kept' = Kept
    BY <2>1, QuietLines, ZenonT(60)
  <2>3. NothingLost' /\ ClickInv'
    BY <1>1, <2>1, <2>2, TailKept, ZenonT(60)
  <2> QED
    BY <1>1, <2>1, <2>3, QuietLines, ZenonT(60) DEF LineInv
<1>6. CASE JoinReturns
  <2>1. /\ joining /\ ~joining' /\ mon' = 0
        /\ UNCHANGED <<sent, cur, report, pc>>
        /\ UNCHANGED <<cur, ready, active, due, summary, running>>
        /\ UNCHANGED <<summary, due, files>> /\ UNCHANGED <<queue, sent, cur, files, buf>>
    BY <1>6, ZenonT(60) DEF JoinReturns, mapVars, logVars, threadVars
  <2>2. StopInv'
    BY <1>1, <2>1, ZenonT(60) DEF StopInv, CheckIfTraceActive
  <2> QED
    BY <1>1, <2>1, <2>2, QuietLines, ZenonT(60) DEF LineInv
<1> QED
  BY <1>2, <1>3, <1>4, <1>5, <1>6, EnvironmentLines, ReportLines, StopLines, ThreadLines, ZenonT(60)
     DEF Next, Main, HandleClick

\* Nothing has been posted, stopped or written at the start.
LEMMA InitLines == Init => LineInv
<1> SUFFICES ASSUME Init PROVE LineInv
  BY ZenonT(60)
<1>1. PostInv
  BY ZenonT(60) DEF Init, PostInv
<1>2. NothingLost /\ ClickInv /\ StopSavesPostedLines
  BY SMTT(30) DEF Init, NothingLost, ClickInv, StopSavesPostedLines
<1>3. StopInv
  BY ZenonT(60) DEF Init, StopInv, CheckIfTraceActive
<1> QED
  BY <1>1, <1>2, <1>3, ZenonT(60) DEF LineInv

\* The types and the whereabouts of the posted lines, in every reachable state.
LEMMA LinesAlways == Spec => [](TypeInv /\ LineInv)
<1>1. TypeInv /\ LineInv /\ [Next]_vars => (TypeInv /\ LineInv)'
  BY TypeInvNext, NextLines, ZenonT(60)
<1> QED
  BY <1>1, TypeInvInit, InitLines, PTL DEF Spec

\* handleMessage loses nothing: even when appends throw half way, every report posted
\* for the current session is in one of its files, in the buffer or in the queue.
THEOREM NothingEverLost == Spec => []NothingLost
<1>1. TypeInv /\ LineInv => NothingLost
  BY ZenonT(60) DEF LineInv
<1> QED
  BY <1>1, LinesAlways, PTL

\* StopTracing writes the summary entry of a session only after every report that had
\* been posted before the user's Stop click has reached the session's files.
THEOREM StopAlwaysSaves == Spec => []StopSavesPostedLines
<1>1. TypeInv /\ LineInv => StopSavesPostedLines
  BY ZenonT(60) DEF LineInv
<1> QED
  BY <1>1, LinesAlways, PTL
-----------------------------------------------------------------------------
(* While no write fails.                                                   *)

\* Without write errors only the thread of the current session runs, and the summary
\* has all it has sampled but the report in its hands.
LagInv ==
  failures = 0 =>
    /\ \A t \in Sessions : t < cur => pc[t] = "done"
    /\ \A t \in Sessions : t > cur => sampled[t] = 0 /\ counted[t] = 0
    /\ cur # 0 =>
         /\ mon = 0 => pc[cur] = "done" /\ ~active[cur]
         /\ ~active[cur] /\ ~joining => pc[cur] = "done"
         /\ pc[cur] # "new"
         /\ pc[cur] \in {"send", "process"} =>
              report = <<cur, sampled[cur]>> /\ sampled[cur] = counted[cur] + 1
         /\ pc[cur] \in {"loop", "sample", "done"} => sampled[cur] = counted[cur]
    /\ \A l \in sent : l[2] \in 1 .. sampled[l[1]]

\* The first n reports of session s.
FirstOnes(s, n) == {s} \X (1 .. n)

\* A session has at most one summary entry; without write errors it covers all but one
\* of the reports posted before the Stop click, and names no part that is not there.
EntryInv ==
  /\ \A s \in Sessions : summary[s] = <<>> \/ Len(summary[s]) = 1
  /\ failures = 0 => \A s \in Sessions : summary[s] # <<>> =>
       /\ due[s] \subseteq FirstOnes(s, summary[s][1].counted + 1)
       /\ summary[s][1].parts <= Len(files[s])
-----------------------------------------------------------------------------
(* The summary entry.                                                      *)

\* What a step that does not touch it leaves as it is.
LEMMA QuietLag ==
  ASSUME failures' = 0 => failures = 0
  PROVE  /\ LagInv /\ UNCHANGED <<pc, cur, sampled, counted, mon, active, joining, report, sent>>
              => LagInv'
         /\ EntryInv /\ UNCHANGED <<summary, due, files>> => EntryInv'
<1>1. LagInv /\ UNCHANGED <<pc, cur, sampled, counted, mon, active, joining, report, sent>> => LagInv'
  BY SMTT(30) DEF LagInv
<1>2. EntryInv /\ UNCHANGED <<summary, due, files>> => EntryInv'
  BY ZenonT(60) DEF EntryInv, FirstOnes
<1> QED
  BY <1>1, <1>2, ZenonT(60)

\* The only element of a sequence.
LEMMA OnlyElement ==
  ASSUME NEW S, NEW q \in Seq(S), Len(q) = 1
  PROVE  q[1] \in S
BY SMTT(30)

\* Parts are only added to a session that has its entry.
LEMMA EntryKept ==
  ASSUME TypeOK, TypeOK', EntryInv, failures' = 0 => failures = 0, UNCHANGED <<summary, due>>,
         \A s \in Sessions : summary[s] # <<>> => Len(files[s]) <= Len(files'[s])
  PROVE  EntryInv'
<1> SUFFICES ASSUME failures' = 0, NEW s \in Sessions, summary[s] # <<>>
             PROVE  /\ due[s] \subseteq FirstOnes(s, summary[s][1].counted + 1)
                    /\ summary[s][1].parts <= Len(files'[s])
  BY ZenonT(60) DEF EntryInv, FirstOnes
<1>1. /\ Len(summary[s]) = 1 /\ due[s] \subseteq FirstOnes(s, summary[s][1].counted + 1)
      /\ summary[s][1].parts <= Len(files[s]) /\ Len(files[s]) <= Len(files'[s])
  BY ZenonT(60) DEF EntryInv
<1>2. summary[s] \in Seq([parts : Nat, counted : Nat]) /\ files[s] \in Seq(Seq(Line))
      /\ files'[s] \in Seq(Seq(Line))
  BY ZenonT(60) DEF TypeOK, SessionType, LogType
<1>3. summary[s][1].parts \in Nat /\ Len(files[s]) \in Nat /\ Len(files'[s]) \in Nat
  <2>1. summary[s][1] \in [parts : Nat, counted : Nat]
    BY <1>1, <1>2, OnlyElement, ZenonT(60)
  <2> QED
    BY <1>2, <2>1, SMTT(30)
<1> QED
  BY <1>1, <1>3, SMTT(30)

\* Starting a session.
LEMMA StartLag ==
  ASSUME TypeInv, TypeInv', LineInv, LagInv, EntryInv, StartBranch, ~joining
  PROVE  LagInv' /\ EntryInv'
<1>1. /\ StopInv /\ TypeOK /\ TypeOK' /\ PostInv
  BY ZenonT(60) DEF LineInv, TypeInv
<1>2. UNCHANGED <<summary, joining, counted, sampled, report, failures, sent, due>>
  BY StartFacts, ZenonT(60)
<1>3. /\ cur \in Nat /\ pc \in [Sessions -> {"new", "loop", "sample", "send", "process", "done"}]
      /\ active \in [Sessions -> BOOLEAN] /\ (cur # 0 => cur \in Sessions)
      /\ files \in [Sessions -> Seq(Seq(Line))]
  BY <1>1, LogConstants, SMTT(30) DEF TypeOK, SessionType, ThreadType, LogType, Sessions
<1>4. ASSUME ready, ~CheckIfTraceActive,
             cur + 1 \in Sessions, cur' = cur + 1, mon' = cur + 1,
             active' = [active EXCEPT ![cur + 1] = TRUE],
             pc' = [pc EXCEPT ![cur + 1] = "loop"],
             \A s \in Sessions : s # cur + 1 => files'[s] = files[s]
      PROVE  LagInv' /\ EntryInv'
  <2>1. active'[cur + 1] /\ pc'[cur + 1] = "loop" /\ cur + 1 # 0
    BY <1>3, <1>4, SMTT(30)
  <2>2. LagInv'
    <3> SUFFICES ASSUME failures = 0
                 PROVE  /\ \A t \in Sessions : t < cur + 1 => pc'[t] = "done"
                        /\ \A t \in Sessions : t > cur + 1 => sampled[t] = 0 /\ counted[t] = 0
                        /\ sampled[cur + 1] = counted[cur + 1]
                        /\ \A l \in sent : l[2] \in 1 .. sampled[l[1]]
      BY <1>2, <1>4, <2>1, ZenonT(60) DEF LagInv
    <3>1. ASSUME NEW t \in Sessions, t < cur + 1 PROVE pc'[t] = "done"
      <4>1. t # cur + 1 /\ (t < cur \/ (t = cur /\ cur # 0))
        BY <1>3, <3>1, SMTT(30) DEF Sessions
      <4>2. cur # 0 => pc[cur] = "done"
        BY <1>1, <1>4, ZenonT(60) DEF LagInv, StopInv, CheckIfTraceActive
      <4>3. pc[t] = "done"
        BY <4>1, <4>2, ZenonT(60) DEF LagInv
      <4> QED
        BY <1>3, <1>4, <4>1, <4>3, ZenonT(60)
    <3>2. \A t \in Sessions : t > cur + 1 \/ t = cur + 1 => t > cur
      BY <1>3, SMTT(30) DEF Sessions
    <3> QED
      BY <1>4, <3>1, <3>2, ZenonT(60) DEF LagInv
  <2>3. \A s \in Sessions : summary[s] # <<>> => Len(files[s]) <= Len(files'[s])
    <3> SUFFICES ASSUME NEW s \in Sessions, summary[s] # <<>> PROVE Len(files[s]) <= Len(files'[s])
      BY ZenonT(60)
    <3>1. s # cur + 1
      BY <1>1, <1>3, SMTT(30) DEF StopInv
    <3>2. files'[s] = files[s] /\ Len(files[s]) \in Nat
      BY <1>3, <1>4, <3>1, SMTT(30)
    <3> QED
      BY <3>2, SMTT(30)
  <2>4. EntryInv'
    BY <1>1, <1>2, <2>3, EntryKept, ZenonT(60)
  <2> QED
    BY <2>2, <2>4, ZenonT(60)
<1>5. ASSUME UNCHANGED <<cur, mon, active, pc, part, counter, buf, files>>
      PROVE  LagInv' /\ EntryInv'
  BY <1>2, <1>5, QuietLag, ZenonT(60)
<1> QED
  BY <1>4, <1>5, StartFacts, ZenonT(60)

\* Stopping one: the entry has every report posted before but the one in the
\* thread's hands.
LEMMA StopLag ==
  ASSUME TypeInv, TypeInv', LineInv, LagInv, EntryInv,
         \/ StopWithoutTrace
         \/ \E ok \in BOOLEAN : StopTracing(ok)
         \/ \E n \in 0 .. Len(buf) : StopTracingFails(n)
  PROVE  LagInv' /\ EntryInv'
<1>1. /\ StopInv /\ ClickInv /\ TypeOK /\ FileInv
  BY ZenonT(60) DEF LineInv, TypeInv
<1>2. /\ queue # <<>> /\ Head(queue).kind = "click"
      /\ running /\ UNCHANGED <<cur, counted, pc, sampled, report, sent>>
      /\ due' = IF cur = 0 THEN due
                ELSE [due EXCEPT ![cur] = @ \cup {l \in Head(queue).sent : l[1] = cur}]
      /\ failures' = 0 => failures = 0
  BY <1>1, StopFacts, ZenonT(60)
<1>3. /\ queue \in Seq(Item) /\ cur \in 0 .. MaxSessions
      /\ due \in [Sessions -> SUBSET Line] /\ active \in [Sessions -> BOOLEAN]
      /\ summary \in [Sessions -> Seq([parts : Nat, counted : Nat])]
      /\ counted \in [Sessions -> Nat] /\ sent \subseteq Line /\ part \in Nat
      /\ files \in [Sessions -> Seq(Seq(Line))]
  BY <1>1, ZenonT(60) DEF TypeOK, QueueType, SessionType, EnvType, ThreadType, LogType
<1>4. \A s \in Sessions : s # cur => due'[s] = due[s]
  BY <1>2, <1>3, ZenonT(60)
<1>5. ASSUME UNCHANGED <<mon, active, buf, files, joining, summary>>
      PROVE  LagInv' /\ EntryInv'
  <2>1. LagInv'
    BY <1>2, <1>5, QuietLag, ZenonT(60)
  <2>2. \A s \in Sessions : summary[s] # <<>> => s # cur
    BY <1>1, <1>2, SMTT(30) DEF StopInv, Sessions
  <2>3. EntryInv'
    BY <1>2, <1>4, <1>5, <2>2, ZenonT(60) DEF EntryInv, FirstOnes
  <2> QED
    BY <2>1, <2>3, ZenonT(60)
<1>6. ASSUME CheckIfTraceActive, cur \in Sessions, mon = cur,
             active' = [active EXCEPT ![mon] = FALSE],
             Len(files'[cur]) = Len(files[cur]),
             \A s \in Sessions : s # cur => files'[s] = files[s],
             summary' = [summary EXCEPT ![cur] = Append(@, SummaryEntry)],
             joining', mon' = mon
      PROVE  LagInv' /\ EntryInv'
  <2>1. summary[cur] = <<>> /\ due[cur] = {} /\ cur # 0 /\ active[cur]
    BY <1>1, <1>6, ZenonT(60) DEF StopInv, CheckIfTraceActive
  <2>2. LagInv'
    BY <1>2, <1>6, <2>1, ZenonT(60) DEF LagInv
  <2>3. /\ summary'[cur] = <<SummaryEntry>>
        /\ \A s \in Sessions : s # cur => summary'[s] = summary[s]
    BY <1>3, <1>6, <2>1, SMTT(30)
  <2>4. Len(summary'[cur]) = 1 /\ summary'[cur][1].parts = part /\ summary'[cur][1].counted = counted[cur]
    BY <2>3, SMTT(30) DEF SummaryEntry
  <2>5. part <= Len(files'[cur])
    BY <1>1, <1>3, <1>6, <2>1, SMTT(30) DEF FileInv
  <2>6. failures' = 0 => due'[cur] \subseteq FirstOnes(cur, counted[cur] + 1)
    <3> SUFFICES ASSUME failures = 0, NEW l \in Head(queue).sent, l[1] = cur
                 PROVE  l \in FirstOnes(cur, counted[cur] + 1)
      BY <1>2, <1>3, <1>6, <2>1, ZenonT(60)
    <3>1. 1 \in 1 .. Len(queue) /\ Head(queue) = queue[1] /\ queue[1].kind = "click"
      BY <1>2, <1>3, SMTT(30)
    <3>2. l \in sent
      BY <1>1, <3>1, ZenonT(60) DEF ClickInv
    <3>3. l[2] \in 1 .. sampled[cur]
      BY <3>2, ZenonT(60) DEF LagInv
    <3>4. sampled[cur] = counted[cur] \/ sampled[cur] = counted[cur] + 1
      BY <1>1, <1>6, <2>1, ZenonT(60) DEF LagInv, TypeOK, ThreadType
    <3>5. l = <<cur, l[2]>> /\ l[2] \in 1 .. counted[cur] + 1
      <4>1. l \in Line
        BY <1>3, <3>2, ZenonT(60)
      <4>2. l = <<l[1], l[2]>>
        BY <4>1, SMTT(30) DEF Line
      <4>3. counted[cur] \in Nat
        BY <1>3, <1>6, ZenonT(60)
      <4> QED
        BY <3>3, <3>4, <4>2, <4>3, SMTT(30)
    <3> QED
      BY <3>5, ZenonT(60) DEF FirstOnes
  <2>7. EntryInv'
    <3>1. ASSUME NEW s \in Sessions PROVE summary'[s] = <<>> \/ Len(summary'[s]) = 1
      BY <2>3, <2>4, ZenonT(60) DEF EntryInv
    <3>2. ASSUME failures' = 0, NEW s \in Sessions, summary'[s] # <<>>
          PROVE  /\ due'[s] \subseteq FirstOnes(s, summary'[s][1].counted + 1)
                 /\ summary'[s][1].parts <= Len(files'[s])
      <4>1. CASE s = cur
        BY <2>4, <2>5, <2>6, <3>2, <4>1, ZenonT(60)
      <4>2. CASE s # cur
        BY <1>2, <1>4, <1>6, <2>3, <3>2, <4>2, ZenonT(60) DEF EntryInv
      <4> QED
        BY <4>1, <4>2, ZenonT(60)
    <3> QED
      BY <3>1, <3>2, ZenonT(60) DEF EntryInv, FirstOnes
  <2> QED
    BY <2>2, <2>7, ZenonT(60)
<1>7. ASSUME summary' = summary, failures' # 0
      PROVE  LagInv' /\ EntryInv'
  BY <1>7, ZenonT(60) DEF LagInv, EntryInv
<1> QED
  BY <1>1, <1>5, <1>6, <1>7, StopFacts, ZenonT(60)

\* A step of a sampling thread: without write errors it is the current session's.
LEMMA ThreadLag ==
  ASSUME TypeInv, LineInv, LagInv, EntryInv, NEW t \in Sessions, Thread(t)
  PROVE  LagInv' /\ EntryInv'
<1>1. /\ StopInv /\ PostInv /\ TypeOK
  BY ZenonT(60) DEF LineInv, TypeInv
<1>2. /\ UNCHANGED files /\ UNCHANGED <<mon, cur, summary, joining, failures, due>>
      /\ pc[t] # "new" /\ \A u \in Sessions : u # t => pc'[u] = pc[u]
  BY ThreadFacts, ZenonT(60)
<1>3. EntryInv'
  BY <1>2, QuietLag, ZenonT(60)
<1>4. /\ cur \in Nat /\ (cur # 0 => cur \in Sessions)
      /\ pc \in [Sessions -> {"new", "loop", "sample", "send", "process", "done"}]
      /\ active \in [Sessions -> BOOLEAN] /\ counted \in [Sessions -> Nat]
      /\ sampled \in [Sessions -> Nat] /\ sent \subseteq Line
  BY <1>1, LogConstants, SMTT(30) DEF TypeOK, SessionType, ThreadType, EnvType, Sessions
<1>5. ASSUME failures = 0
      PROVE  LagInv'
  <2>1. pc[t] # "done"
    BY ZenonT(60) DEF Thread, LoopTest, Sample, SampleFails, Send, Process
  <2>2. t = cur /\ cur # 0
    <3>1. ~(t > cur) /\ ~(t < cur)
      BY <1>1, <1>2, <1>5, <2>1, ZenonT(60) DEF PostInv, LagInv
    <3> QED
      BY <1>4, <3>1, SMTT(30) DEF Sessions
  <2>3. /\ mon # 0 /\ (active[cur] \/ joining)
        /\ pc[cur] \in {"send", "process"} =>
              report = <<cur, sampled[cur]>> /\ sampled[cur] = counted[cur] + 1
        /\ pc[cur] \in {"loop", "sample", "done"} => sampled[cur] = counted[cur]
        /\ \A u \in Sessions : u > cur => sampled[u] = 0 /\ counted[u] = 0
        /\ \A l \in sent : l[2] \in 1 .. sampled[l[1]]
    BY <1>5, <2>1, <2>2, ZenonT(60) DEF LagInv
  <2>4. \A u \in Sessions : u < cur => u # t /\ pc'[u] = "done"
    BY <1>2, <1>4, <1>5, <2>2, SMTT(30) DEF LagInv, Sessions
  <2>5. \A u \in Sessions : u > cur => u # cur
    BY <1>4, SMTT(30) DEF Sessions
  <2>6. ASSUME sampled' = sampled, counted' = counted, sent' = sent,
               pc'[cur] \in {"loop", "sample", "done"},
               sampled[cur] = counted[cur],
               active'[cur] = active[cur] \/ pc'[cur] = "done",
               ~active[cur] => pc'[cur] = "done" \/ joining
        PROVE  LagInv'
    BY <1>2, <2>2, <2>3, <2>4, <2>6, ZenonT(60) DEF LagInv
  <2>7. CASE LoopTest(t)
    <3>1. /\ UNCHANGED <<sampled, counted, sent, active>>
          /\ pc' = [pc EXCEPT ![t] = IF active[t] THEN "sample" ELSE "done"] /\ pc[t] = "loop"
      BY <2>7, ZenonT(60) DEF LoopTest
    <3>2. pc'[cur] \in {"sample", "done"} /\ (~active[cur] => pc'[cur] = "done")
      BY <1>4, <2>2, <3>1, ZenonT(60)
    <3> QED
      BY <2>2, <2>3, <2>6, <3>1, <3>2, ZenonT(60)
  <2>8. CASE Sample(t)
    <3>1. /\ UNCHANGED <<counted, sent, active>> /\ pc[t] = "sample"
          /\ sampled' = [sampled EXCEPT ![t] = @ + 1]
          /\ report' = <<t, sampled[t] + 1>> /\ pc' = [pc EXCEPT ![t] = "send"]
      BY <2>8, ZenonT(60) DEF Sample
    <3>2. /\ pc'[cur] = "send" /\ sampled'[cur] = sampled[cur] + 1
          /\ \A u \in Sessions : u # cur => sampled'[u] = sampled[u]
      BY <1>4, <2>2, <3>1, ZenonT(60)
    <3>3. \A l \in sent : l[2] \in 1 .. sampled'[l[1]]
      <4> SUFFICES ASSUME NEW l \in sent PROVE l[2] \in 1 .. sampled'[l[1]]
        BY ZenonT(60)
      <4>1. l[1] \in Sessions
        BY <1>4, ZenonT(60) DEF Line
      <4>2. sampled'[l[1]] = sampled[l[1]] \/ sampled'[l[1]] = sampled[l[1]] + 1
        BY <3>2, <4>1, ZenonT(60)
      <4>3. sampled[l[1]] \in Nat /\ l[2] \in 1 .. sampled[l[1]]
        BY <1>4, <2>3, <4>1, ZenonT(60)
      <4> QED
        BY <4>2, <4>3, SMTT(30)
    <3>4. report' = <<cur, sampled'[cur]>> /\ sampled'[cur] = counted[cur] + 1
      BY <2>2, <2>3, <3>1, <3>2, ZenonT(60)
    <3> QED
      BY <1>2, <2>2, <2>3, <2>4, <2>5, <3>1, <3>2, <3>3, <3>4, ZenonT(60) DEF LagInv
  <2>9. CASE SampleFails(t)
    <3>1. /\ UNCHANGED <<sampled, counted, sent>> /\ pc[t] = "sample"
          /\ \/ pc' = [pc EXCEPT ![t] = "done"]
             \/ pc' = [pc EXCEPT ![t] = "loop"] /\ UNCHANGED active
      BY <2>9, ZenonT(60) DEF SampleFails, Die
    <3>2. pc'[cur] = "done" \/ (pc'[cur] = "loop" /\ active' = active)
      BY <1>4, <2>2, <3>1, ZenonT(60)
    <3> QED
      BY <2>2, <2>3, <2>6, <3>1, <3>2, ZenonT(60)
  <2>10. CASE Send(t)
    <3>1. report # NoReport
      <4>1. report = <<cur, sampled[cur]>>
        BY <2>2, <2>3, <2>10, ZenonT(60) DEF Send
      <4> QED
        BY <2>2, <4>1, ZenonT(60) DEF NoReport
    <3>2. /\ UNCHANGED <<counted, sampled, report, active>> /\ pc[t] = "send"
          /\ pc' = [pc EXCEPT ![t] = "process"] /\ sent' = sent \cup {report}
      BY <2>10, <3>1, ZenonT(60) DEF Send
    <3>3. pc'[cur] = "process"
      BY <1>4, <2>2, <3>2, ZenonT(60)
    <3>4. report = <<cur, sampled[cur]>> /\ sampled[cur] = counted[cur] + 1
      BY <2>2, <2>3, <3>2, ZenonT(60)
    <3>5. report[1] = cur /\ report[2] \in 1 .. sampled[cur]
      BY <1>4, <2>2, <3>4, SMTT(30)
    <3>6. \A l \in sent' : l[2] \in 1 .. sampled[l[1]]
      BY <2>3, <3>2, <3>5, ZenonT(60)
    <3> QED
      BY <1>2, <2>2, <2>3, <2>4, <3>2, <3>3, <3>4, <3>6, ZenonT(60) DEF LagInv
  <2>11. CASE Process(t)
    <3>1. report # NoReport
      <4>1. report = <<cur, sampled[cur]>>
        BY <2>2, <2>3, <2>11, ZenonT(60) DEF Process
      <4> QED
        BY <2>2, <4>1, ZenonT(60) DEF NoReport
    <3>2. /\ UNCHANGED <<sampled, report, active, sent>> /\ pc[t] = "process"
          /\ pc' = [pc EXCEPT ![t] = "loop"] /\ counted' = [counted EXCEPT ![cur] = @ + 1]
      BY <2>11, <3>1, ZenonT(60) DEF Process
    <3>3. /\ pc'[cur] = "loop" /\ counted'[cur] = counted[cur] + 1
          /\ \A u \in Sessions : u # cur => counted'[u] = counted[u]
      BY <1>4, <2>2, <3>2, ZenonT(60)
    <3>4. sampled[cur] = counted'[cur]
      BY <2>2, <2>3, <3>2, <3>3, ZenonT(60)
    <3> QED
      BY <1>2, <2>2, <2>3, <2>4, <2>5, <3>2, <3>3, <3>4, ZenonT(60) DEF LagInv
  <2> QED
    BY <2>7, <2>8, <2>9, <2>10, <2>11, ZenonT(60) DEF Thread
<1>6. ASSUME failures # 0 PROVE LagInv'
  BY <1>2, <1>6, ZenonT(60) DEF LagInv
<1> QED
  BY <1>3, <1>5, <1>6, ZenonT(60)

\* Every step keeps what is known of the threads and of the summary entries.
LEMMA NextLag ==
  TypeInv /\ TypeInv' /\ LineInv /\ LagInv /\ EntryInv /\ [Next]_vars => LagInv' /\ EntryInv'
<1> SUFFICES ASSUME TypeInv, TypeInv', LineInv, LagInv, EntryInv, [Next]_vars
             PROVE  LagInv' /\ EntryInv'
  BY ZenonT(60)
<1>1. ASSUME UNCHANGED <<pc, cur, sampled, counted, mon, active, joining, report, sent>>,
             UNCHANGED <<summary, due, files>>, failures' = failures
      PROVE  LagInv' /\ EntryInv'
  BY <1>1, QuietLag, ZenonT(60)
<1>2. CASE UNCHANGED vars
  BY <1>1, <1>2, ZenonT(60) DEF vars, logVars, sessionVars, threadVars, envVars
<1>3. CASE Environment
  <2>1. CASE BecomeReady
    BY <1>1, <2>1, ZenonT(60) DEF BecomeReady, logVars, sessionVars, threadVars, envVars
  <2>2. CASE DetectActivities
    BY <1>1, <2>2, ZenonT(60) DEF DetectActivities, logVars, sessionVars, threadVars, envVars
  <2>3. CASE Click
    BY <1>1, <2>3, ZenonT(60) DEF Click, logVars, sessionVars, threadVars
  <2>4. ASSUME NEW yes \in BOOLEAN, AnswerDialog(yes) PROVE LagInv' /\ EntryInv'
    BY <1>1, <2>4, ZenonT(60) DEF AnswerDialog, logVars, sessionVars, threadVars, envVars
  <2>5. ASSUME NEW b \in Batches, SaveTracerDialog(b) PROVE LagInv' /\ EntryInv'
    BY <1>1, <2>5, ZenonT(60) DEF SaveTracerDialog, sessionVars, threadVars
  <2> QED
    BY <1>3, <2>1, <2>2, <2>3, <2>4, <2>5, ZenonT(60) DEF Environment
<1>4. CASE HandleReport
  <2>1. /\ cur \in Sessions /\ Len(files[cur]) <= Len(files'[cur])
        /\ \A s \in Sessions : s # cur => files'[s] = files[s]
        /\ failures' = 0 => failures = 0
        /\ UNCHANGED <<pc, cur, sampled, counted, mon, active, joining, report, sent>>
        /\ UNCHANGED <<summary, due>>
    BY <1>4, ReportKept, ZenonT(60) DEF sessionVars, threadVars
  <2>2. TypeOK /\ TypeOK' /\ \A s \in Sessions : Len(files[s]) \in Nat
    BY SMTT(30) DEF TypeInv, TypeOK, LogType
  <2>3. \A s \in Sessions : Len(files[s]) <= Len(files'[s])
    BY <2>1, <2>2, SMTT(30)
  <2> QED
    BY <2>1, <2>2, <2>3, QuietLag, EntryKept, ZenonT(60)
<1>5. CASE ClickStarts \/ DialogStarts
  BY <1>5, StartLag, ZenonT(60) DEF ClickStarts, DialogStarts, NextItem
<1>6. CASE ClickAsks
  BY <1>1, <1>6, ZenonT(60) DEF ClickAsks, logVars, sessionVars, threadVars, envVars
<1>7. CASE JoinReturns
  <2>1. /\ joining /\ pc[mon] = "done" /\ ~joining' /\ mon' = 0 /\ failures' = failures
        /\ UNCHANGED <<pc, cur, sampled, counted, active, report, sent>>
        /\ UNCHANGED <<summary, due, files>>
    BY <1>7, ZenonT(60) DEF JoinReturns, logVars, threadVars, envVars
  <2>2. mon = cur /\ ~active[cur] /\ pc[cur] = "done"
    BY <2>1, ZenonT(60) DEF LineInv, StopInv
  <2>3. LagInv'
    BY <2>1, <2>2, ZenonT(60) DEF LagInv
  <2> QED
    BY <2>1, <2>3, QuietLag, ZenonT(60)
<1> QED
  BY <1>2, <1>3, <1>4, <1>5, <1>6, <1>7, StopLag, ThreadLag, ZenonT(60) DEF Next, Main, HandleClick

\* Before the first session nothing is sampled, counted or written.
LEMMA InitLag == Init => LagInv /\ EntryInv
<1> SUFFICES ASSUME Init PROVE LagInv /\ EntryInv
  BY ZenonT(60)
<1>1. cur = 0 /\ sent = {} /\ (\A t \in Sessions : t \in Nat /\ t > 0)
  BY LogConstants, SMTT(30) DEF Init, Sessions
<1>2. \A t \in Sessions : sampled[t] = 0 /\ counted[t] = 0 /\ summary[t] = <<>>
  BY ZenonT(60) DEF Init
<1>3. LagInv
  BY <1>1, <1>2, SMTT(30) DEF LagInv
<1> QED
  BY <1>2, <1>3, ZenonT(60) DEF EntryInv

\* What the threads have sampled and the summary entries, in every reachable state.
LEMMA LagAlways == Spec => [](TypeInv /\ LineInv /\ LagInv /\ EntryInv)
<1>1. TypeInv /\ LineInv /\ LagInv /\ EntryInv /\ [Next]_vars
        => (TypeInv /\ LineInv /\ LagInv /\ EntryInv)'
  BY TypeInvNext, NextLines, NextLag, ZenonT(60)
<1> QED
  BY <1>1, TypeInvInit, InitLines, InitLag, PTL DEF Spec

\* The summary entry of a session names at most the parts it has, there is at most
\* one, and it lags the reports posted before the Stop click by at most one.
THEOREM SummaryLagsByOne == Spec => []SummaryLag
<1>1. TypeInv /\ EntryInv => SummaryLag
  <2> SUFFICES ASSUME TypeInv, EntryInv, failures = 0, NEW s \in Sessions, summary[s] # <<>>
               PROVE  /\ Len(summary[s]) = 1
                      /\ \A l \in due[s] : l[2] <= summary[s][1].counted + 1
                      /\ summary[s][1].parts <= Len(files[s])
    BY ZenonT(60) DEF SummaryLag
  <2> DEFINE n == summary[s][1].counted + 1
  <2>1. /\ Len(summary[s]) = 1 /\ due[s] \subseteq FirstOnes(s, n)
        /\ summary[s][1].parts <= Len(files[s])
    BY ZenonT(60) DEF EntryInv
  <2> HIDE DEF n
  <2>2. \A l \in due[s] : l[2] <= n
    <3>1. n \in Int
      <4>1. summary[s] \in Seq([parts : Nat, counted : Nat])
        BY ZenonT(60) DEF TypeInv, TypeOK, SessionType
      <4>2. summary[s][1] \in [parts : Nat, counted : Nat]
        BY <2>1, <4>1, OnlyElement, ZenonT(60)
      <4> QED
        BY <4>2, SMTT(30) DEF n
    <3>2. \A l \in FirstOnes(s, n) : l[2] \in 1 .. n
      BY ZenonT(60) DEF FirstOnes
    <3> QED
      BY <2>1, <3>1, <3>2, SMTT(30)
  <2> QED
    BY <2>1, <2>2, ZenonT(60) DEF n
<1> QED
  BY <1>1, LagAlways, PTL
-----------------------------------------------------------------------------
(* The order of the reports.                                               *)

\* How many reports the thread of the current session has posted: all it has sampled
\* but the one it is about to send.
Posts == IF pc[cur] = "send" THEN sampled[cur] - 1 ELSE sampled[cur]

\* The reports of session s are in order in the parts fs, then in the buffer b, then in
\* the queued lines q.
Chain(s, fs, b, q) ==
  /\ PartsInOrder(s, fs) /\ InOrder(s, b) /\ InOrder(s, q)
  /\ Before(s, InParts(fs), LinesOf(b)) /\ Before(s, InParts(fs), LinesOf(q))
  /\ Before(s, LinesOf(b), LinesOf(q))

\* The parts fs with the lines b appended to the last one.
Flushed(fs, b) == [fs EXCEPT ![Len(fs)] = @ \o b]

Everywhere(fs, b, q) == InParts(fs) \cup LinesOf(b) \cup LinesOf(q)

\* The current session's reports are in order wherever they are, and the posted ones
\* are its first ones.
CurOrder ==
  /\ Chain(cur, files[cur], buf, Queued)
  /\ Everywhere(files[cur], buf, Queued) \subseteq sent \cup {NoReport}
  /\ Posted(cur) = FirstOnes(cur, Posts)

\* Without write errors the current session is in order, and the files of an earlier
\* one are as the next start found them.
OrderInv ==
  failures = 0 =>
    /\ \A s \in 1 .. cur : s # cur => PartsInOrder(s, files[s]) /\ GapFree(s, InParts(files[s]))
    /\ cur # 0 => CurOrder
-----------------------------------------------------------------------------
(* Lines in order.                                                         *)

\* A sequence is its head and then its tail.
LEMMA TailOrder ==
  ASSUME NEW S, NEW s, NEW q \in Seq(S), q # <<>>
  PROVE  /\ LinesOf(q) = {Head(q)} \cup LinesOf(Tail(q))
         /\ InOrder(s, q) => InOrder(s, Tail(q)) /\ Before(s, {Head(q)}, LinesOf(Tail(q)))
<1> DEFINE u == Tail(q)
<1>1. /\ Len(q) \in Nat /\ Len(q) > 0 /\ Head(q) = q[1] /\ Len(u) = Len(q) - 1
      /\ \A i \in 1 .. Len(u) : u[i] = q[i + 1] /\ i + 1 \in 1 .. Len(q)
  BY SMTT(30)
<1> HIDE DEF u
<1>2. LinesOf(q) \subseteq {Head(q)} \cup LinesOf(u)
  <2> SUFFICES ASSUME NEW i \in 1 .. Len(q) PROVE q[i] \in {Head(q)} \cup LinesOf(u)
    BY ZenonT(60) DEF LinesOf
  <2>1. CASE i = 1
    BY <1>1, <2>1, ZenonT(60)
  <2>2. CASE i # 1
    <3>1. i - 1 \in 1 .. Len(u) /\ q[i] = u[i - 1]
      BY <1>1, <2>2, SMTT(30)
    <3> QED
      BY <3>1, ZenonT(60) DEF LinesOf
  <2> QED
    BY <2>1, <2>2, ZenonT(60)
<1>3. {Head(q)} \cup LinesOf(u) \subseteq LinesOf(q)
  <2>1. Head(q) \in LinesOf(q)
    <3>1. 1 \in 1 .. Len(q)
      BY <1>1, SMTT(30)
    <3> QED
      BY <1>1, <3>1, ZenonT(60) DEF LinesOf
  <2>2. \A i \in 1 .. Len(u) : u[i] \in LinesOf(q)
    BY <1>1, ZenonT(60) DEF LinesOf
  <2> QED
    BY <2>1, <2>2, ZenonT(60) DEF LinesOf
<1>4. ASSUME InOrder(s, q)
      PROVE  InOrder(s, u) /\ Before(s, {Head(q)}, LinesOf(u))
  <2>1. InOrder(s, u)
    <3> SUFFICES ASSUME NEW i \in 1 .. Len(u), NEW j \in 1 .. Len(u), i < j,
                        u[i][1] = s, u[j][1] = s
                 PROVE  u[i][2] < u[j][2]
      BY ZenonT(60) DEF InOrder
    <3>1. /\ i + 1 \in 1 .. Len(q) /\ j + 1 \in 1 .. Len(q) /\ i + 1 < j + 1
          /\ u[i] = q[i + 1] /\ u[j] = q[j + 1]
      BY <1>1, SMTT(30)
    <3> QED
      BY <1>4, <3>1, ZenonT(60) DEF InOrder
  <2>2. ASSUME NEW i \in 1 .. Len(u), Head(q)[1] = s, u[i][1] = s
        PROVE  Head(q)[2] < u[i][2]
    <3>1. 1 \in 1 .. Len(q) /\ i + 1 \in 1 .. Len(q) /\ 1 < i + 1
      BY <1>1, SMTT(30)
    <3> QED
      BY <1>1, <1>4, <2>2, <3>1, ZenonT(60) DEF InOrder
  <2> QED
    BY <2>1, <2>2, ZenonT(60) DEF Before, LinesOf
<1> QED
  BY <1>2, <1>3, <1>4, ZenonT(60) DEF u

\* A sequence with another behind it.
LEMMA ConcatOrder ==
  ASSUME NEW S, NEW s, NEW a \in Seq(S), NEW b \in Seq(S)
  PROVE  /\ LinesOf(a \o b) = LinesOf(a) \cup LinesOf(b)
         /\ InOrder(s, a) /\ InOrder(s, b) /\ Before(s, LinesOf(a), LinesOf(b))
              => InOrder(s, a \o b)
<1> DEFINE u == a \o b
<1>1. /\ Len(a) \in Nat /\ Len(b) \in Nat /\ Len(u) = Len(a) + Len(b)
      /\ \A i \in 1 .. Len(u) : \/ i \in 1 .. Len(a) /\ u[i] = a[i]
                                \/ i - Len(a) \in 1 .. Len(b) /\ u[i] = b[i - Len(a)]
      /\ \A i \in 1 .. Len(a) : u[i] = a[i] /\ i \in 1 .. Len(u)
      /\ \A i \in 1 .. Len(b) : u[Len(a) + i] = b[i] /\ Len(a) + i \in 1 .. Len(u)
  BY SMTT(30)
<1> HIDE DEF u
<1>2. LinesOf(u) = LinesOf(a) \cup LinesOf(b)
  <2>1. LinesOf(u) \subseteq LinesOf(a) \cup LinesOf(b)
    <3> SUFFICES ASSUME NEW i \in 1 .. Len(u) PROVE u[i] \in LinesOf(a) \cup LinesOf(b)
      BY ZenonT(60) DEF LinesOf
    <3> QED
      BY <1>1, ZenonT(60) DEF LinesOf
  <2>2. LinesOf(a) \subseteq LinesOf(u)
    BY <1>1, SMTT(30) DEF LinesOf
  <2>3. LinesOf(b) \subseteq LinesOf(u)
    BY <1>1, SMTT(30) DEF LinesOf
  <2> QED
    BY <2>1, <2>2, <2>3, ZenonT(60)
<1>3. ASSUME InOrder(s, a), InOrder(s, b), Before(s, LinesOf(a), LinesOf(b)),
             NEW i \in 1 .. Len(u), NEW j \in 1 .. Len(u), i < j, u[i][1] = s, u[j][1] = s
      PROVE  u[i][2] < u[j][2]
  <2>1. CASE j \in 1 .. Len(a)
    <3>1. i \in 1 .. Len(a) /\ u[i] = a[i] /\ u[j] = a[j]
      BY <1>1, <1>3, <2>1, SMTT(30)
    <3> QED
      BY <1>3, <2>1, <3>1, ZenonT(60) DEF InOrder
  <2>2. CASE i \in 1 .. Len(a) /\ j \notin 1 .. Len(a)
    <3>1. u[i] \in LinesOf(a) /\ u[j] \in LinesOf(b)
      BY <1>1, <2>2, ZenonT(60) DEF LinesOf
    <3> QED
      BY <1>3, <3>1, ZenonT(60) DEF Before
  <2>3. CASE i \notin 1 .. Len(a) /\ j \notin 1 .. Len(a)
    <3>1. /\ i - Len(a) \in 1 .. Len(b) /\ u[i] = b[i - Len(a)]
          /\ j - Len(a) \in 1 .. Len(b) /\ u[j] = b[j - Len(a)] /\ i - Len(a) < j - Len(a)
      BY <1>1, <1>3, <2>3, SMTT(30)
    <3> QED
      BY <1>3, <3>1, ZenonT(60) DEF InOrder
  <2> QED
    BY <2>1, <2>2, <2>3, ZenonT(60)
<1> QED
  BY <1>2, <1>3, ZenonT(60) DEF u, InOrder

\* A sequence with one more line.
LEMMA AppendOrder ==
  ASSUME NEW S, NEW s, NEW b \in Seq(S), NEW x \in S
  PROVE  /\ LinesOf(Append(b, x)) = LinesOf(b) \cup {x}
         /\ InOrder(s, b) /\ Before(s, LinesOf(b), {x}) => InOrder(s, Append(b, x))
<1>1. Append(b, x) = b \o <<x>> /\ <<x>> \in Seq(S)
  BY SMTT(30)
<1> DEFINE y == <<x>>
<1>2. 1 .. Len(y) = {1} /\ y[1] = x
  BY SMTT(30)
<1> HIDE DEF y
<1>3. LinesOf(y) = {x} /\ InOrder(s, y)
  <2>1. LinesOf(y) = {x}
    BY <1>2, ZenonT(60) DEF LinesOf
  <2>2. \A i, j \in 1 .. Len(y) : ~(i < j)
    BY <1>2, SMTT(30)
  <2> QED
    BY <2>1, <2>2, ZenonT(60) DEF InOrder
<1>4. y \in Seq(S) /\ Append(b, x) = b \o y
  BY <1>1, ZenonT(60) DEF y
<1>5. /\ LinesOf(b \o y) = LinesOf(b) \cup LinesOf(y)
      /\ InOrder(s, b) /\ InOrder(s, y) /\ Before(s, LinesOf(b), LinesOf(y))
           => InOrder(s, b \o y)
  BY <1>4, ConcatOrder, ZenonT(60)
<1> QED
  BY <1>3, <1>4, <1>5, ZenonT(60)
-----------------------------------------------------------------------------
(* The chain of parts, buffer and queue under the handlers' moves.         *)

\* The lines of a part are among those of the parts.
LEMMA PartIn ==
  ASSUME NEW fs, NEW p \in 1 .. Len(fs)
  PROVE  LinesOf(fs[p]) \subseteq InParts(fs)
BY ZenonT(60) DEF InParts

\* Taking a message that is not buffered off the queue.
LEMMA ChainTail ==
  ASSUME NEW S, NEW s, NEW fs, NEW b, NEW q \in Seq(S), q # <<>>, Chain(s, fs, b, q)
  PROVE  Chain(s, fs, b, Tail(q)) /\ Everywhere(fs, b, Tail(q)) \subseteq Everywhere(fs, b, q)
<1>1. LinesOf(Tail(q)) \subseteq LinesOf(q) /\ InOrder(s, Tail(q))
  BY TailOrder, ZenonT(60) DEF Chain
<1>2. Before(s, InParts(fs), LinesOf(Tail(q))) /\ Before(s, LinesOf(b), LinesOf(Tail(q)))
  BY <1>1, ZenonT(60) DEF Chain, Before
<1> QED
  BY <1>1, <1>2, ZenonT(60) DEF Chain, Everywhere

\* Moving the line at the head of the queue to the buffer.
LEMMA ChainTake ==
  ASSUME NEW S, NEW s, NEW fs, NEW b \in Seq(S), NEW q \in Seq(S), q # <<>>, Chain(s, fs, b, q)
  PROVE  /\ Chain(s, fs, Append(b, Head(q)), Tail(q))
         /\ Everywhere(fs, Append(b, Head(q)), Tail(q)) \subseteq Everywhere(fs, b, q)
<1> DEFINE h == Head(q)
           u == Tail(q)
           c == Append(b, h)
<1>1. h \in S
  BY SMTT(30)
<1>2. LinesOf(q) = {h} \cup LinesOf(u) /\ InOrder(s, u) /\ Before(s, {h}, LinesOf(u))
  BY TailOrder, ZenonT(60) DEF Chain
<1>3. LinesOf(c) = LinesOf(b) \cup {h} /\ (Before(s, LinesOf(b), {h}) => InOrder(s, c))
  BY <1>1, AppendOrder, SMTT(30) DEF Chain
<1> HIDE DEF h, u, c
<1>4. /\ Before(s, LinesOf(b), {h}) /\ Before(s, LinesOf(b), LinesOf(u))
      /\ Before(s, InParts(fs), {h}) /\ Before(s, InParts(fs), LinesOf(u))
  BY <1>2, ZenonT(60) DEF Chain, Before
<1>5. Before(s, InParts(fs), LinesOf(c)) /\ Before(s, LinesOf(c), LinesOf(u))
  BY <1>2, <1>3, <1>4, ZenonT(60) DEF Chain, Before
<1>6. Chain(s, fs, c, u)
  BY <1>2, <1>3, <1>4, <1>5, ZenonT(60) DEF Chain
<1>7. Everywhere(fs, c, u) = Everywhere(fs, b, q)
  BY <1>2, <1>3, ZenonT(60) DEF Everywhere
<1> QED
  BY <1>6, <1>7, ZenonT(60) DEF h, u, c

\* Posting a message: a line that is not of the session, or is after all of its lines.
LEMMA ChainPost ==
  ASSUME NEW S, NEW s, NEW fs, NEW b, NEW q \in Seq(S), NEW x \in S, Chain(s, fs, b, q),
         Before(s, Everywhere(fs, b, q), {x})
  PROVE  /\ Chain(s, fs, b, Append(q, x))
         /\ Everywhere(fs, b, Append(q, x)) \subseteq Everywhere(fs, b, q) \cup {x}
<1> DEFINE u == Append(q, x)
<1>1. /\ Before(s, InParts(fs), {x}) /\ Before(s, LinesOf(b), {x}) /\ Before(s, LinesOf(q), {x})
  BY ZenonT(60) DEF Before, Everywhere
<1>2. LinesOf(u) = LinesOf(q) \cup {x} /\ InOrder(s, u)
  BY <1>1, AppendOrder, SMTT(30) DEF Chain
<1> HIDE DEF u
<1>3. Before(s, InParts(fs), LinesOf(u)) /\ Before(s, LinesOf(b), LinesOf(u))
  BY <1>1, <1>2, ZenonT(60) DEF Chain, Before
<1>4. Chain(s, fs, b, u)
  BY <1>2, <1>3, ZenonT(60) DEF Chain
<1>5. Everywhere(fs, b, u) = Everywhere(fs, b, q) \cup {x}
  BY <1>2, ZenonT(60) DEF Everywhere
<1> QED
  BY <1>4, <1>5, ZenonT(60) DEF u

\* Opening a next part.
LEMMA ChainPart ==
  ASSUME NEW S, NEW s, NEW fs \in Seq(Seq(S)), NEW b, NEW q, Chain(s, fs, b, q)
  PROVE  Chain(s, Append(fs, <<>>), b, q) /\ InParts(Append(fs, <<>>)) = InParts(fs)
<1> DEFINE gs == Append(fs, <<>>)
           n == Len(fs)
<1>1. /\ n \in Nat /\ Len(gs) = n + 1 /\ Len(gs[n + 1]) = 0
      /\ \A p \in 1 .. n : gs[p] = fs[p]
  BY SMTT(30)
<1> HIDE DEF gs, n
<1>2. LinesOf(gs[n + 1]) = {} /\ InOrder(s, gs[n + 1])
  BY <1>1, SMTT(30) DEF LinesOf, InOrder
<1>3. \A p \in 1 .. Len(gs) : p \in 1 .. n \/ p = n + 1
  BY <1>1, SMTT(30)
<1>4. \A p \in 1 .. n : p \in 1 .. Len(gs)
  BY <1>1, SMTT(30)
<1>5. InParts(gs) = InParts(fs)
  BY <1>1, <1>2, <1>3, <1>4, ZenonT(60) DEF InParts, n
<1>6. PartsInOrder(s, fs)
  BY ZenonT(60) DEF Chain
<1>7. \A p \in 1 .. Len(gs) : InOrder(s, gs[p])
  BY <1>1, <1>2, <1>3, <1>6, ZenonT(60) DEF PartsInOrder, n
<1>8. ASSUME NEW p \in 1 .. Len(gs), NEW r \in 1 .. Len(gs), p < r
      PROVE  Before(s, LinesOf(gs[p]), LinesOf(gs[r]))
  <2>1. CASE r = n + 1
    BY <1>2, <2>1, ZenonT(60) DEF Before
  <2>2. CASE r \in 1 .. n
    <3>1. p \in 1 .. n
      BY <1>1, <1>8, <2>2, SMTT(30)
    <3> QED
      BY <1>1, <1>6, <1>8, <2>2, <3>1, ZenonT(60) DEF PartsInOrder, n
  <2> QED
    BY <1>3, <2>1, <2>2, ZenonT(60)
<1> QED
  BY <1>5, <1>7, <1>8, ZenonT(60) DEF Chain, PartsInOrder, gs

\* Appending the buffer to the last part and emptying it.
LEMMA ChainFlush ==
  ASSUME NEW S, NEW s, NEW fs \in Seq(Seq(S)), fs # <<>>, NEW b \in Seq(S), NEW q,
         Chain(s, fs, b, q)
  PROVE  /\ Flushed(fs, b) \in Seq(Seq(S))
         /\ Chain(s, Flushed(fs, b), <<>>, q)
         /\ Everywhere(Flushed(fs, b), <<>>, q) \subseteq Everywhere(fs, b, q)
<1> DEFINE n == Len(fs)
           gs == [fs EXCEPT ![n] = @ \o b]
<1>1. /\ n \in 1 .. n /\ Len(gs) = n /\ fs[n] \in Seq(S) /\ gs[n] = fs[n] \o b
      /\ \A p \in 1 .. n : p # n => gs[p] = fs[p]
  BY SMTT(30)
<1>2. n = Len(fs)
  BY ZenonT(60)
<1>0. gs \in Seq(Seq(S))
  <2>1. fs[n] \o b \in Seq(S)
    <3>1. \A c \in Seq(S) : c \o b \in Seq(S)
      BY SMTT(30)
    <3> QED
      BY <1>1, <3>1, ZenonT(60)
  <2>2. \A x \in Seq(S) : [fs EXCEPT ![n] = x] \in Seq(Seq(S))
    <3> DEFINE T == Seq(S)
    <3> HIDE DEF T
    <3>1. fs \in Seq(T) /\ n \in 1 .. Len(fs)
      BY <1>1, <1>2, ZenonT(60) DEF T
    <3> HIDE DEF n
    <3>2. \A x \in T : [fs EXCEPT ![n] = x] \in Seq(T)
      BY <3>1, SMTT(30)
    <3> QED
      BY <3>2, ZenonT(60) DEF T
  <2> QED
    BY <2>1, <2>2, ZenonT(60)
<1> HIDE DEF gs, n
<1>3. PartsInOrder(s, fs) /\ InOrder(s, b) /\ Before(s, InParts(fs), LinesOf(b))
  BY ZenonT(60) DEF Chain
<1>4. InOrder(s, fs[n]) /\ Before(s, LinesOf(fs[n]), LinesOf(b))
  <2>1. LinesOf(fs[n]) \subseteq InParts(fs)
    BY <1>1, <1>2, PartIn, ZenonT(60)
  <2> QED
    BY <1>1, <1>2, <1>3, <2>1, ZenonT(60) DEF PartsInOrder, Before
<1>5. LinesOf(gs[n]) = LinesOf(fs[n]) \cup LinesOf(b) /\ InOrder(s, gs[n])
  BY <1>1, <1>3, <1>4, ConcatOrder, SMTT(30)
<1>6. InParts(gs) = InParts(fs) \cup LinesOf(b)
  <2>1. InParts(gs) \subseteq InParts(fs) \cup LinesOf(b)
    <3> SUFFICES ASSUME NEW p \in 1 .. n PROVE LinesOf(gs[p]) \subseteq InParts(fs) \cup LinesOf(b)
      BY <1>1, ZenonT(60) DEF InParts
    <3>1. LinesOf(fs[p]) \subseteq InParts(fs)
      BY <1>2, PartIn, ZenonT(60)
    <3> QED
      BY <1>1, <1>5, <3>1, ZenonT(60)
  <2>2. ASSUME NEW p \in 1 .. n PROVE LinesOf(fs[p]) \subseteq InParts(gs)
    <3>1. LinesOf(fs[p]) \subseteq LinesOf(gs[p])
      BY <1>1, <1>5, ZenonT(60)
    <3>2. LinesOf(gs[p]) \subseteq InParts(gs)
      BY <1>1, PartIn, ZenonT(60)
    <3> QED
      BY <3>1, <3>2, ZenonT(60)
  <2>3. LinesOf(b) \subseteq InParts(gs)
    <3>1. LinesOf(gs[n]) \subseteq InParts(gs)
      BY <1>1, PartIn, ZenonT(60)
    <3> QED
      BY <1>5, <3>1, ZenonT(60)
  <2>4. InParts(fs) \subseteq InParts(gs)
    BY <1>2, <2>2, ZenonT(60) DEF InParts
  <2> QED
    BY <2>1, <2>3, <2>4, ZenonT(60)
<1>7. \A p \in 1 .. n : InOrder(s, gs[p])
  BY <1>1, <1>2, <1>3, <1>5, ZenonT(60) DEF PartsInOrder
<1>8. ASSUME NEW p \in 1 .. n, NEW r \in 1 .. n, p < r
      PROVE  Before(s, LinesOf(gs[p]), LinesOf(gs[r]))
  <2>1. p # n /\ gs[p] = fs[p] /\ Before(s, LinesOf(fs[p]), LinesOf(fs[r]))
    BY <1>1, <1>2, <1>3, <1>8, SMTT(30) DEF PartsInOrder
  <2>2. Before(s, LinesOf(fs[p]), LinesOf(b))
    <3>1. LinesOf(fs[p]) \subseteq InParts(fs)
      BY <1>2, PartIn, ZenonT(60)
    <3> QED
      BY <1>3, <3>1, ZenonT(60) DEF Before
  <2>3. CASE r # n
    BY <1>1, <2>1, <2>3, ZenonT(60)
  <2>4. CASE r = n
    BY <1>5, <2>1, <2>2, <2>4, ZenonT(60) DEF Before
  <2> QED
    BY <2>3, <2>4, ZenonT(60)
<1>9. PartsInOrder(s, gs)
  BY <1>1, <1>7, <1>8, ZenonT(60) DEF PartsInOrder
<1>10. LinesOf(<<>>) = {} /\ InOrder(s, <<>>)
  BY SMTT(30) DEF LinesOf, InOrder
<1>11. Chain(s, gs, <<>>, q)
  <2>1. Before(s, InParts(gs), LinesOf(q))
    BY <1>6, ZenonT(60) DEF Chain, Before
  <2>2. Before(s, InParts(gs), LinesOf(<<>>)) /\ Before(s, LinesOf(<<>>), LinesOf(q))
    BY <1>10, ZenonT(60) DEF Before
  <2> QED
    BY <1>9, <1>10, <2>1, <2>2, ZenonT(60) DEF Chain
<1>12. Everywhere(gs, <<>>, q) = Everywhere(fs, b, q)
  BY <1>6, <1>10, ZenonT(60) DEF Everywhere
<1> QED
  BY <1>0, <1>11, <1>12, ZenonT(60) DEF Flushed, gs, n

\* The chain written as one list of stages, as ExactlyOnceInOrder states it.
LEMMA ChainStages ==
  ASSUME NEW S, NEW s, NEW fs \in Seq(Seq(S)), NEW b \in Seq(S), NEW q \in Seq(S),
         Chain(s, fs, b, q)
  PROVE  /\ PartsInOrder(s, fs \o <<b, q>>)
         /\ InParts(fs \o <<b, q>>) = Everywhere(fs, b, q)
<1> DEFINE gs == fs \o <<b, q>>
           n == Len(fs)
<1>1. /\ n \in Nat /\ Len(gs) = n + 2 /\ gs[n + 1] = b /\ gs[n + 2] = q
      /\ \A p \in 1 .. n : gs[p] = fs[p]
  BY SMTT(30)
<1>2. n = Len(fs)
  BY ZenonT(60)
<1> HIDE DEF gs, n
<1>3. /\ \A p \in 1 .. Len(gs) : p \in 1 .. n \/ p = n + 1 \/ p = n + 2
      /\ \A p \in 1 .. n : p \in 1 .. Len(gs)
      /\ n + 1 \in 1 .. Len(gs) /\ n + 2 \in 1 .. Len(gs)
  BY <1>1, SMTT(30)
<1>4. InParts(gs) = Everywhere(fs, b, q)
  <2>1. ASSUME NEW p \in 1 .. Len(gs) PROVE LinesOf(gs[p]) \subseteq Everywhere(fs, b, q)
    <3>1. CASE p \in 1 .. n
      <4>1. LinesOf(fs[p]) \subseteq InParts(fs)
        BY <1>2, <3>1, PartIn, ZenonT(60)
      <4> QED
        BY <1>1, <3>1, <4>1, ZenonT(60) DEF Everywhere
    <3>2. CASE p = n + 1 \/ p = n + 2
      BY <1>1, <3>2, ZenonT(60) DEF Everywhere
    <3> QED
      BY <1>3, <3>1, <3>2, ZenonT(60)
  <2>2. InParts(gs) \subseteq Everywhere(fs, b, q)
    BY <2>1, ZenonT(60) DEF InParts
  <2>3. LinesOf(b) \subseteq InParts(gs) /\ LinesOf(q) \subseteq InParts(gs)
    BY <1>1, <1>3, PartIn, ZenonT(60)
  <2>4. \A p \in 1 .. n : LinesOf(fs[p]) \subseteq InParts(gs)
    BY <1>1, <1>3, PartIn, ZenonT(60)
  <2>5. InParts(fs) \subseteq InParts(gs)
    BY <1>2, <2>4, ZenonT(60) DEF InParts
  <2> QED
    BY <2>2, <2>3, <2>5, ZenonT(60) DEF Everywhere
<1>5. \A p \in 1 .. Len(gs) : InOrder(s, gs[p])
  BY <1>1, <1>2, <1>3, ZenonT(60) DEF Chain, PartsInOrder
<1>6. ASSUME NEW p \in 1 .. Len(gs), NEW r \in 1 .. Len(gs), p < r
      PROVE  Before(s, LinesOf(gs[p]), LinesOf(gs[r]))
  <2>1. ASSUME p \in 1 .. n PROVE LinesOf(gs[p]) \subseteq InParts(fs)
    BY <1>1, <1>2, <2>1, PartIn, ZenonT(60)
  <2>2. CASE r \in 1 .. n
    <3>1. p \in 1 .. n
      BY <1>1, <1>6, <2>2, SMTT(30)
    <3> QED
      BY <1>1, <1>2, <1>6, <2>2, <3>1, ZenonT(60) DEF Chain, PartsInOrder
  <2>3. CASE r = n + 1
    <3>1. p \in 1 .. n
      BY <1>1, <1>6, <2>3, SMTT(30)
    <3> QED
      BY <1>1, <2>1, <2>3, <3>1, ZenonT(60) DEF Chain, Before
  <2>4. CASE r = n + 2
    <3>1. p \in 1 .. n \/ p = n + 1
      BY <1>1, <1>6, <2>4, SMTT(30)
    <3> QED
      BY <1>1, <2>1, <2>4, <3>1, ZenonT(60) DEF Chain, Before
  <2> QED
    BY <1>3, <2>2, <2>3, <2>4, ZenonT(60)
<1> QED
  BY <1>4, <1>5, <1>6, ZenonT(60) DEF PartsInOrder, gs
-----------------------------------------------------------------------------
(* The queue as a sequence of lines.                                       *)

Entry == Line \cup {NoReport}

\* Two sequences with the same elements are the same.
LEMMA SameSeq ==
  ASSUME NEW S, NEW a \in Seq(S), NEW b \in Seq(S), Len(a) = Len(b),
         \A i \in 1 .. Len(a) : a[i] = b[i]
  PROVE  a = b
BY SMTT(30)

\* The queued lines have the shape of the queue.
LEMMA QueuedShape ==
  ASSUME TypeOK
  PROVE  /\ Queued \in Seq(Entry) /\ Len(Queued) = Len(queue)
         /\ Ahead(Len(queue)) \subseteq LinesOf(Queued)
<1>1. queue \in Seq(Item) /\ Len(queue) \in Nat
  BY SMTT(30) DEF TypeOK, QueueType
<1>2. \A i \in 1 .. Len(queue) : queue[i] \in Item
  BY <1>1, SMTT(30)
<1>3. \A i \in 1 .. Len(queue) : queue[i].kind = "report" => queue[i].line \in Line
  BY <1>2, ZenonT(60) DEF Item
<1>4. Queued \in [1 .. Len(queue) -> Entry]
  BY <1>3, ZenonT(60) DEF Queued, Entry
<1>5. Queued \in Seq(Entry) /\ Len(Queued) = Len(queue)
  BY <1>1, <1>4, SMTT(30)
<1>6. \A i \in 1 .. Len(queue) : queue[i].kind = "report" => Queued[i] = queue[i].line
  BY ZenonT(60) DEF Queued
<1> QED
  BY <1>5, <1>6, ZenonT(60) DEF Ahead, LinesOf

\* Taking an item off the queue takes its line off.
LEMMA QueuedTail ==
  ASSUME TypeOK, queue # <<>>, queue' = Tail(queue)
  PROVE  /\ Queued # <<>> /\ Queued' = Tail(Queued)
         /\ Head(Queued) = IF Head(queue).kind = "report" THEN Head(queue).line ELSE NoReport
<1> DEFINE n == Len(queue)
<1>1. queue \in Seq(Item)
  BY ZenonT(60) DEF TypeOK, QueueType
<1>2. /\ n \in Nat /\ n > 0 /\ Len(queue') = n - 1 /\ Head(queue) = queue[1]
      /\ \A i \in 1 .. n - 1 : queue'[i] = queue[i + 1]
  BY <1>1, SMTT(30)
<1>3. Queued \in Seq(Entry) /\ Len(Queued) = n
  BY QueuedShape, ZenonT(60)
<1>4. /\ Queued # <<>> /\ Head(Queued) = Queued[1] /\ Len(Tail(Queued)) = n - 1
      /\ \A i \in 1 .. n - 1 : Tail(Queued)[i] = Queued[i + 1]
      /\ Tail(Queued) \in Seq(Entry)
  BY <1>2, <1>3, SMTT(30)
<1> HIDE DEF n
<1>5. Queued' = [i \in 1 .. n - 1 |-> IF queue'[i].kind = "report" THEN queue'[i].line ELSE NoReport]
  BY <1>2, ZenonT(60) DEF Queued
<1>6. \A i \in 1 .. n - 1 : i + 1 \in 1 .. n
  BY <1>2, SMTT(30)
<1>7. \A i \in 1 .. n : Queued[i] = IF queue[i].kind = "report" THEN queue[i].line ELSE NoReport
  BY ZenonT(60) DEF Queued, n
<1>8. \A i \in 1 .. n - 1 : Queued'[i] = Tail(Queued)[i]
  BY <1>2, <1>4, <1>5, <1>6, <1>7, ZenonT(60)
<1>9. Queued' = Tail(Queued)
  <2>1. \A i \in 1 .. n - 1 : Tail(Queued)[i] \in Entry
    BY <1>4, SMTT(30)
  <2>2. Queued' \in [1 .. n - 1 -> Entry]
    BY <1>5, <1>8, <2>1, ZenonT(60)
  <2>3. Queued' \in Seq(Entry) /\ Len(Queued') = n - 1
    BY <1>2, <2>2, SMTT(30)
  <2> QED
    BY <1>4, <1>8, <2>3, SameSeq, ZenonT(60)
<1> QED
  BY <1>2, <1>4, <1>7, <1>9, SMTT(30)

\* Posting an item adds its line.
LEMMA QueuedAppend ==
  ASSUME TypeOK, NEW x \in Item, queue' = Append(queue, x)
  PROVE  Queued' = Append(Queued, IF x.kind = "report" THEN x.line ELSE NoReport)
<1> DEFINE n == Len(queue)
           e == IF x.kind = "report" THEN x.line ELSE NoReport
<1>1. queue \in Seq(Item)
  BY ZenonT(60) DEF TypeOK, QueueType
<1>2. /\ n \in Nat /\ Len(queue') = n + 1 /\ queue'[n + 1] = x
      /\ \A i \in 1 .. n : queue'[i] = queue[i]
  BY <1>1, SMTT(30)
<1>3. Queued \in Seq(Entry) /\ Len(Queued) = n
  BY QueuedShape, ZenonT(60)
<1>4. /\ Append(Queued, e) \in Seq(Entry) /\ Len(Append(Queued, e)) = n + 1
      /\ Append(Queued, e)[n + 1] = e
      /\ \A i \in 1 .. n : Append(Queued, e)[i] = Queued[i]
  <2>1. e \in Entry
    BY ZenonT(60) DEF Item, Entry
  <2> HIDE DEF e, n
  <2> QED
    BY <1>2, <1>3, <2>1, SMTT(30)
<1>5. \A i \in 1 .. n : Queued[i] = IF queue[i].kind = "report" THEN queue[i].line ELSE NoReport
  BY ZenonT(60) DEF Queued
<1> HIDE DEF n
<1>6. Queued' = [i \in 1 .. n + 1 |-> IF queue'[i].kind = "report" THEN queue'[i].line ELSE NoReport]
  BY <1>2, ZenonT(60) DEF Queued
<1>7. \A i \in 1 .. n + 1 : i \in 1 .. n \/ i = n + 1
  BY <1>2, SMTT(30)
<1>8. \A i \in 1 .. n + 1 : Queued'[i] = Append(Queued, e)[i]
  BY <1>2, <1>4, <1>5, <1>6, <1>7, SMTT(30)
<1>9. Queued' = Append(Queued, e)
  <2> HIDE DEF e
  <2>1. \A i \in 1 .. n + 1 : Append(Queued, e)[i] \in Entry
    BY <1>4, SMTT(30)
  <2>2. Queued' \in [1 .. n + 1 -> Entry]
    BY <1>6, <1>8, <2>1, ZenonT(60)
  <2>3. Queued' \in Seq(Entry) /\ Len(Queued') = n + 1
    BY <1>2, <2>2, SMTT(30)
  <2> QED
    BY <1>4, <1>8, <2>3, SameSeq, ZenonT(60)
<1> QED
  BY <1>9, ZenonT(60)
-----------------------------------------------------------------------------
(* The current session and the earlier ones.                               *)

\* What OrderInv needs of the types.
LEMMA OrderTypes ==
  ASSUME TypeInv, cur # 0
  PROVE  /\ cur \in Sessions /\ cur \in Nat /\ NoReport[1] # cur
         /\ files[cur] \in Seq(Seq(Line)) /\ files[cur] \in Seq(Seq(Entry)) /\ files[cur] # <<>>
         /\ buf \in Seq(Line) /\ buf \in Seq(Entry)
         /\ part = Len(files[cur])
         /\ files \in [Sessions -> Seq(Seq(Line))]
<1>1. cur \in Sessions /\ cur \in Nat /\ part = Len(files[cur]) /\ part # 0
  BY LogConstants, SMTT(30) DEF TypeInv, TypeOK, SessionType, FileInv, Sessions
<1>2. files \in [Sessions -> Seq(Seq(Line))] /\ buf \in Seq(Line)
  BY ZenonT(60) DEF TypeInv, TypeOK, LogType
<1>3. files[cur] \in Seq(Seq(Line)) /\ files[cur] # <<>>
  BY <1>1, <1>2, SMTT(30)
<1>4. \A q \in Seq(Line) : q \in Seq(Entry)
  BY SMTT(30) DEF Entry
<1>5. files[cur] \in Seq(Seq(Entry))
  <2>1. Seq(Line) \subseteq Seq(Entry)
    BY <1>4, ZenonT(60)
  <2> HIDE DEF Entry, Line
  <2> QED
    BY <1>3, <2>1, SMTT(30)
<1>6. NoReport[1] # cur
  BY ZenonT(60) DEF NoReport
<1> QED
  BY <1>1, <1>2, <1>3, <1>4, <1>5, <1>6, ZenonT(60)

\* A step that stays in the current session and leaves the files of the others alone.
LEMMA SameSession ==
  ASSUME TypeInv, OrderInv, UNCHANGED cur, failures' = 0 => failures = 0,
         \A s \in Sessions : s # cur => files'[s] = files[s],
         failures' = 0 /\ cur # 0 => CurOrder'
  PROVE  OrderInv'
<1>1. \A s \in 1 .. cur : s \in Sessions
  BY LogConstants, SMTT(30) DEF TypeInv, TypeOK, SessionType, Sessions
<1> QED
  BY <1>1, ZenonT(60) DEF OrderInv

\* The current session is in order after a step that stays in it.
LEMMA OrderNext ==
  ASSUME UNCHANGED cur, Chain(cur, files'[cur], buf', Queued'),
         Everywhere(files'[cur], buf', Queued') \subseteq sent' \cup {NoReport},
         (Posted(cur) = FirstOnes(cur, Posts))'
  PROVE  CurOrder'
<1>1. Chain(cur, files[cur], buf, Queued)'
  BY ZenonT(60)
<1>2. (Everywhere(files[cur], buf, Queued) \subseteq sent \cup {NoReport})'
  BY ZenonT(60)
<1> QED
  BY <1>1, <1>2, ZenonT(60) DEF CurOrder

\* A step that only takes a line off the queue.
LEMMA DropOrder ==
  ASSUME TypeInv, OrderInv, queue # <<>>, queue' = Tail(queue),
         UNCHANGED <<cur, failures, files, buf, sent, pc, sampled>>
  PROVE  OrderInv'
<1>1. ASSUME failures = 0, cur # 0
      PROVE  CurOrder'
  <2>1. CurOrder
    BY <1>1, ZenonT(60) DEF OrderInv
  <2>2. Queued \in Seq(Entry) /\ Queued # <<>> /\ Queued' = Tail(Queued)
    BY QueuedShape, QueuedTail, ZenonT(60) DEF TypeInv
  <2>3. /\ Chain(cur, files[cur], buf, Tail(Queued))
        /\ Everywhere(files[cur], buf, Tail(Queued)) \subseteq Everywhere(files[cur], buf, Queued)
    BY <2>1, <2>2, ChainTail, ZenonT(60) DEF CurOrder
  <2>4. (Posted(cur) = FirstOnes(cur, Posts))'
    BY <2>1, ZenonT(60) DEF CurOrder, Posted, Posts, FirstOnes
  <2>5. Chain(cur, files'[cur], buf', Queued')
    BY <2>2, <2>3, ZenonT(60)
  <2>6. Everywhere(files'[cur], buf', Queued') \subseteq sent' \cup {NoReport}
    BY <2>1, <2>2, <2>3, ZenonT(60) DEF CurOrder
  <2> QED
    BY <2>4, <2>5, <2>6, OrderNext, ZenonT(60)
<1> QED
  BY <1>1, SameSession, ZenonT(60)

\* A step that moves no line.
LEMMA StillOrder ==
  ASSUME TypeInv, OrderInv, UNCHANGED <<cur, failures, files, buf, queue, sent>>,
         failures = 0 /\ cur # 0 => Posts' = Posts
  PROVE  OrderInv'
<1>1. ASSUME failures = 0, cur # 0
      PROVE  CurOrder'
  <2>1. CurOrder
    BY <1>1, ZenonT(60) DEF OrderInv
  <2>2. Queued' = Queued
    BY ZenonT(60) DEF Queued
  <2>3. (Posted(cur) = FirstOnes(cur, Posts))'
    BY <1>1, <2>1, ZenonT(60) DEF CurOrder, Posted, FirstOnes
  <2>4. /\ Chain(cur, files'[cur], buf', Queued')
        /\ Everywhere(files'[cur], buf', Queued') \subseteq sent' \cup {NoReport}
    BY <2>1, <2>2, ZenonT(60) DEF CurOrder
  <2> QED
    BY <2>3, <2>4, OrderNext, ZenonT(60)
<1> QED
  BY <1>1, SameSession, ZenonT(60)

\* A step that posts a click, or the dialog's "Yes".
LEMMA ClickOrder ==
  ASSUME TypeInv, OrderInv, NEW x \in Item, x.kind # "report", queue' = Append(queue, x),
         UNCHANGED <<cur, failures, files, buf, sent, pc, sampled>>
  PROVE  OrderInv'
<1>1. ASSUME failures = 0, cur # 0
      PROVE  CurOrder'
  <2>1. CurOrder
    BY <1>1, ZenonT(60) DEF OrderInv
  <2>2. Queued \in Seq(Entry) /\ Queued' = Append(Queued, NoReport)
    BY QueuedShape, QueuedAppend, ZenonT(60) DEF TypeInv
  <2>3. NoReport \in Entry /\ NoReport[1] # cur
    BY <1>1, ZenonT(60) DEF Entry, NoReport
  <2>4. Before(cur, Everywhere(files[cur], buf, Queued), {NoReport})
    BY <2>3, ZenonT(60) DEF Before
  <2>5. /\ Chain(cur, files[cur], buf, Append(Queued, NoReport))
        /\ Everywhere(files[cur], buf, Append(Queued, NoReport))
             \subseteq Everywhere(files[cur], buf, Queued) \cup {NoReport}
    BY <2>1, <2>2, <2>3, <2>4, ChainPost, ZenonT(60) DEF CurOrder
  <2>6. (Posted(cur) = FirstOnes(cur, Posts))'
    BY <2>1, ZenonT(60) DEF CurOrder, Posted, Posts, FirstOnes
  <2>7. Chain(cur, files'[cur], buf', Queued')
    BY <2>2, <2>5, ZenonT(60)
  <2>8. Everywhere(files'[cur], buf', Queued') \subseteq sent' \cup {NoReport}
    BY <2>1, <2>2, <2>5, ZenonT(60) DEF CurOrder
  <2> QED
    BY <2>6, <2>7, <2>8, OrderNext, ZenonT(60)
<1> QED
  BY <1>1, SameSession, ZenonT(60)

\* The user and the callbacks keep the order.
LEMMA EnvironmentOrder ==
  ASSUME TypeInv, OrderInv, Environment
  PROVE  OrderInv'
<1>1. CASE BecomeReady \/ DetectActivities
  <2>1. UNCHANGED <<cur, failures, files, buf, queue, sent, pc, sampled>>
    BY <1>1, ZenonT(60) DEF BecomeReady, DetectActivities, mapVars, logVars, sessionVars, threadVars, envVars
  <2> QED
    BY <2>1, StillOrder, ZenonT(60) DEF Posts
<1>2. CASE \E b \in Batches : SaveTracerDialog(b)
  <2>1. UNCHANGED <<cur, failures, files, buf, queue, sent, pc, sampled>>
    BY <1>2, ZenonT(60) DEF SaveTracerDialog, sessionVars, threadVars
  <2> QED
    BY <2>1, StillOrder, ZenonT(60) DEF Posts
<1>3. CASE Click
  <2> DEFINE x == [kind |-> "click", sent |-> sent]
  <2>1. /\ UNCHANGED <<cur, failures, files, buf, sent, pc, sampled>>
        /\ queue' = Append(queue, x)
    BY <1>3, ZenonT(60) DEF Click, logVars, sessionVars, threadVars
  <2>2. x \in Item /\ x.kind # "report"
    BY ZenonT(60) DEF Item, TypeInv, TypeOK, EnvType
  <2> HIDE DEF x
  <2> QED
    BY <2>1, <2>2, ClickOrder, ZenonT(60)
<1>4. CASE \E yes \in BOOLEAN : AnswerDialog(yes)
  <2> DEFINE x == [kind |-> "yes"]
  <2>1. /\ UNCHANGED <<cur, failures, files, buf, sent, pc, sampled>>
        /\ queue' = Append(queue, x) \/ queue' = queue
    BY <1>4, ZenonT(60) DEF AnswerDialog, logVars, sessionVars, threadVars, envVars
  <2>2. x \in Item /\ x.kind # "report"
    BY ZenonT(60) DEF Item
  <2> HIDE DEF x
  <2>3. CASE queue' = Append(queue, x)
    BY <2>1, <2>2, <2>3, ClickOrder, ZenonT(60)
  <2>4. CASE queue' = queue
    BY <2>1, <2>4, StillOrder, ZenonT(60) DEF Posts
  <2> QED
    BY <2>1, <2>3, <2>4, ZenonT(60)
<1> QED
  BY <1>1, <1>2, <1>3, <1>4, ZenonT(60) DEF Environment
-----------------------------------------------------------------------------
(* The report handler and StopTracing.                                     *)

\* The last part of the current session with lines added.
LEMMA AppendedAt ==
  ASSUME TypeInv, cur # 0, NEW lines \in Seq(Line)
  PROVE  /\ Appended(files, lines) \in [Sessions -> Seq(Seq(Line))]
         /\ Appended(files, lines)[cur] = Flushed(files[cur], lines)
         /\ \A s \in Sessions : s # cur => Appended(files, lines)[s] = files[s]
<1>1. /\ cur \in Sessions /\ part = Len(files[cur]) /\ files[cur] # <<>>
      /\ files \in [Sessions -> Seq(Seq(Line))] /\ files[cur] \in Seq(Seq(Line))
  BY OrderTypes, ZenonT(60)
<1>2. part \in 1 .. Len(files[cur])
  BY <1>1, SMTT(30)
<1>3. Appended(files, lines) = [files EXCEPT ![cur] = [files[cur] EXCEPT ![part] = @ \o lines]]
  BY ZenonT(60) DEF Appended
<1> HIDE DEF Line
<1> QED
  BY <1>1, <1>2, <1>3, AppendedType, ZenonT(60) DEF Flushed

\* The end of the handler: the parts stay, or an empty one follows.
LEMMA NextChunkAt ==
  ASSUME TypeInv, cur # 0, NEW c, NEW fs \in [Sessions -> Seq(Seq(Line))], NextChunk(c, fs)
  PROVE  /\ files'[cur] = fs[cur] \/ files'[cur] = Append(fs[cur], <<>>)
         /\ \A s \in Sessions : s # cur => files'[s] = fs[s]
<1>1. cur \in Sessions
  BY OrderTypes, ZenonT(60)
<1>2. files' = fs \/ files' = [fs EXCEPT ![cur] = Append(fs[cur], <<>>)]
  BY ZenonT(60) DEF NextChunk
<1> HIDE DEF Line
<1> QED
  BY <1>1, <1>2, ZenonT(60)

\* What a report moves, with no write error: its line goes to the end of the buffer,
\* then perhaps the buffer to the last part, and then an empty part may follow.
LEMMA ReportMoves ==
  ASSUME TypeInv, HandleReport, failures' = 0
  PROVE  /\ failures = 0 /\ cur # 0 /\ NextItem("report") /\ queue' = Tail(queue)
         /\ UNCHANGED <<cur, sent, pc, sampled>>
         /\ \A s \in Sessions : s # cur => files'[s] = files[s]
         /\ \/ /\ files'[cur] = files[cur] \/ files'[cur] = Append(files[cur], <<>>)
               /\ buf' = Lines
            \/ /\ \/ files'[cur] = Flushed(files[cur], Lines)
                  \/ files'[cur] = Append(Flushed(files[cur], Lines), <<>>)
               /\ buf' = <<>>
<1>1. ASSUME TakeReport
      PROVE  /\ cur # 0 /\ NextItem("report") /\ queue' = Tail(queue)
             /\ UNCHANGED <<cur, sent, pc, sampled>>
             /\ files \in [Sessions -> Seq(Seq(Line))] /\ Lines \in Seq(Line)
  BY <1>1, ReportFacts, ZenonT(60) DEF TakeReport, sessionVars, threadVars
<1>2. CASE BufferLine
  <2>1. TakeReport /\ NextChunk(counter + 1, files) /\ buf' = Lines /\ failures' = failures
    BY <1>2, ZenonT(60) DEF BufferLine
  <2> QED
    BY <1>1, <2>1, NextChunkAt, ZenonT(60)
<1>3. CASE BatchOfZero
  <2>1. TakeReport /\ files' = files /\ buf' = Lines /\ failures' = failures
    BY <1>3, ZenonT(60) DEF BatchOfZero
  <2> QED
    BY <1>1, <2>1, ZenonT(60)
<1>4. CASE FlushBatch
  <2> DEFINE fs == Appended(files, Lines)
  <2>1. TakeReport /\ NextChunk(counter + 1, fs) /\ buf' = <<>> /\ failures' = failures
    BY <1>4, ZenonT(60) DEF FlushBatch, resetReportLogBuffer
  <2>2. /\ fs \in [Sessions -> Seq(Seq(Line))]
        /\ fs[cur] = Flushed(files[cur], Lines)
        /\ \A s \in Sessions : s # cur => fs[s] = files[s]
    BY <1>1, <2>1, AppendedAt, ZenonT(60)
  <2> HIDE DEF fs
  <2>3. /\ files'[cur] = fs[cur] \/ files'[cur] = Append(fs[cur], <<>>)
        /\ \A s \in Sessions : s # cur => files'[s] = fs[s]
    BY <1>1, <2>1, <2>2, NextChunkAt, ZenonT(60)
  <2> QED
    BY <1>1, <2>1, <2>2, <2>3, ZenonT(60)
<1>5. ASSUME NEW n \in 0 .. Len(buf) + 1, FlushFails(n)
      PROVE  FALSE
  <2>1. failures' = failures + 1 /\ failures \in Nat
    BY <1>5, LogConstants, SMTT(30) DEF FlushFails, TypeInv, TypeOK, EnvType
  <2> QED
    BY <2>1, SMTT(30)
<1> QED
  BY <1>2, <1>3, <1>4, <1>5, ZenonT(60) DEF HandleReport

\* The report handler keeps the order.
LEMMA ReportOrder ==
  ASSUME TypeInv, OrderInv, HandleReport
  PROVE  OrderInv'
<1>1. ASSUME failures' = 0
      PROVE  CurOrder'
  <2> DEFINE fs == files[cur]
             u == Tail(Queued)
  <2>1. /\ failures = 0 /\ cur # 0 /\ NextItem("report") /\ queue' = Tail(queue)
        /\ UNCHANGED <<cur, sent, pc, sampled>>
    BY <1>1, ReportMoves, ZenonT(60)
  <2>2. CurOrder
    BY <2>1, ZenonT(60) DEF OrderInv
  <2>3. /\ Queued \in Seq(Entry) /\ Queued # <<>> /\ Queued' = u /\ u \in Seq(Entry)
        /\ Head(Queued) = Head(queue).line
    <3>1. /\ Queued \in Seq(Entry) /\ Queued # <<>> /\ Queued' = u
          /\ Head(Queued) = Head(queue).line
      BY <2>1, QueuedShape, QueuedTail, ZenonT(60) DEF TypeInv, NextItem
    <3> QED
      BY <3>1, SMTT(30)
  <2>4. fs \in Seq(Seq(Entry)) /\ fs # <<>> /\ buf \in Seq(Entry) /\ Lines \in Seq(Entry)
    <3>1. fs \in Seq(Seq(Entry)) /\ fs # <<>> /\ buf \in Seq(Entry)
      BY <2>1, OrderTypes, ZenonT(60)
    <3>2. Head(Queued) \in Entry
      BY <2>3, SMTT(30)
    <3> QED
      BY <2>3, <3>1, <3>2, SMTT(30) DEF Lines
  <2>5. /\ Chain(cur, fs, Lines, u)
        /\ Everywhere(fs, Lines, u) \subseteq sent \cup {NoReport}
    <3>1. /\ Chain(cur, fs, Append(buf, Head(Queued)), u)
          /\ Everywhere(fs, Append(buf, Head(Queued)), u) \subseteq Everywhere(fs, buf, Queued)
      BY <2>2, <2>3, <2>4, ChainTake, ZenonT(60) DEF CurOrder
    <3> QED
      BY <2>2, <2>3, <3>1, ZenonT(60) DEF CurOrder, Lines
  <2> HIDE DEF u, fs
  <2>6. (Posted(cur) = FirstOnes(cur, Posts))'
    BY <2>1, <2>2, ZenonT(60) DEF CurOrder, Posted, Posts, FirstOnes
  <2>7. ASSUME NEW gs \in Seq(Seq(Entry)), NEW b, Chain(cur, gs, b, u),
               Everywhere(gs, b, u) \subseteq sent \cup {NoReport},
               files'[cur] = gs \/ files'[cur] = Append(gs, <<>>), buf' = b
        PROVE  CurOrder'
    <3>1. /\ Chain(cur, Append(gs, <<>>), b, u)
          /\ Everywhere(Append(gs, <<>>), b, u) = Everywhere(gs, b, u)
      BY <2>7, ChainPart, ZenonT(60) DEF Everywhere
    <3>2. Chain(cur, files'[cur], buf', Queued')
      BY <2>3, <2>7, <3>1, ZenonT(60)
    <3>3. Everywhere(files'[cur], buf', Queued') \subseteq sent' \cup {NoReport}
      BY <2>1, <2>3, <2>7, <3>1, ZenonT(60)
    <3> QED
      BY <2>1, <2>6, <3>2, <3>3, OrderNext, ZenonT(60)
  <2>8. CASE (files'[cur] = fs \/ files'[cur] = Append(fs, <<>>)) /\ buf' = Lines
    BY <2>4, <2>5, <2>7, <2>8, ZenonT(60)
  <2>9. CASE /\ files'[cur] = Flushed(fs, Lines) \/ files'[cur] = Append(Flushed(fs, Lines), <<>>)
             /\ buf' = <<>>
    <3>1. /\ Flushed(fs, Lines) \in Seq(Seq(Entry))
          /\ Chain(cur, Flushed(fs, Lines), <<>>, u)
          /\ Everywhere(Flushed(fs, Lines), <<>>, u) \subseteq Everywhere(fs, Lines, u)
      BY <2>4, <2>5, ChainFlush, ZenonT(60)
    <3> QED
      BY <2>5, <2>7, <2>9, <3>1, ZenonT(60)
  <2> QED
    BY <1>1, <2>8, <2>9, ReportMoves, ZenonT(60) DEF fs
<1>2. /\ UNCHANGED cur /\ (failures' = 0 => failures = 0)
      /\ failures' = 0 => \A s \in Sessions : s # cur => files'[s] = files[s]
  <2>1. UNCHANGED cur
    BY ZenonT(60) DEF HandleReport, BufferLine, FlushBatch, BatchOfZero, FlushFails, TakeReport, sessionVars
  <2> QED
    BY <2>1, ReportMoves, ZenonT(60)
<1>3. CASE failures' = 0
  BY <1>1, <1>2, <1>3, SameSession, ZenonT(60)
<1>4. CASE failures' # 0
  BY <1>4, ZenonT(60) DEF OrderInv
<1> QED
  BY <1>3, <1>4, ZenonT(60)

\* The stop branch keeps the order: the buffer goes to the end of the last part.
LEMMA StopOrder ==
  ASSUME TypeInv, OrderInv,
         \/ StopWithoutTrace
         \/ \E ok \in BOOLEAN : StopTracing(ok)
         \/ \E n \in 0 .. Len(buf) : StopTracingFails(n)
  PROVE  OrderInv'
<1>1. TakeStopClick
  BY ZenonT(60) DEF StopWithoutTrace, StopTracing, StopTracingFails
<1>2. queue # <<>> /\ queue' = Tail(queue) /\ UNCHANGED <<cur, pc, sampled, sent>>
  BY <1>1, ZenonT(60) DEF TakeStopClick, NextItem
<1>3. failures \in Nat
  BY LogConstants, SMTT(30) DEF TypeInv, TypeOK, EnvType
<1>4. CASE StopWithoutTrace
  BY <1>2, <1>4, DropOrder, ZenonT(60) DEF StopWithoutTrace
<1>5. ASSUME NEW n \in 0 .. Len(buf), StopTracingFails(n) PROVE OrderInv'
  <2>1. failures' # 0
    BY <1>3, <1>5, SMTT(30) DEF StopTracingFails
  <2> QED
    BY <2>1, ZenonT(60) DEF OrderInv
<1>6. ASSUME NEW ok \in BOOLEAN, StopTracing(ok) PROVE OrderInv'
  <2>1. /\ CheckIfTraceActive /\ files' = Appended(files, buf) /\ buf' = <<>>
        /\ failures' = IF ok THEN failures ELSE failures + 1
    BY <1>6, ZenonT(60) DEF StopTracing, SaveUnsavedLogs, resetReportLogBuffer
  <2>2. cur # 0
    BY <2>1, ZenonT(60) DEF CheckIfTraceActive, TypeInv, FileInv
  <2>3. /\ files'[cur] = Flushed(files[cur], buf)
        /\ \A s \in Sessions : s # cur => files'[s] = files[s]
    BY <2>1, <2>2, AppendedAt, OrderTypes, ZenonT(60)
  <2>4. failures' = 0 => failures = 0
    BY <1>3, <2>1, SMTT(30)
  <2>5. ASSUME failures = 0 PROVE CurOrder'
    <3>1. CurOrder
      BY <2>2, <2>5, ZenonT(60) DEF OrderInv
    <3>2. /\ Queued \in Seq(Entry) /\ Queued # <<>> /\ Queued' = Tail(Queued)
      BY <1>2, QueuedShape, QueuedTail, ZenonT(60) DEF TypeInv
    <3>3. files[cur] \in Seq(Seq(Entry)) /\ files[cur] # <<>> /\ buf \in Seq(Entry)
      BY <2>2, OrderTypes, ZenonT(60)
    <3>4. /\ Chain(cur, files[cur], buf, Tail(Queued))
          /\ Everywhere(files[cur], buf, Tail(Queued)) \subseteq Everywhere(files[cur], buf, Queued)
      BY <3>1, <3>2, ChainTail, ZenonT(60) DEF CurOrder
    <3>5. /\ Chain(cur, Flushed(files[cur], buf), <<>>, Tail(Queued))
          /\ Everywhere(Flushed(files[cur], buf), <<>>, Tail(Queued))
               \subseteq Everywhere(files[cur], buf, Tail(Queued))
      BY <3>3, <3>4, ChainFlush, ZenonT(60)
    <3>6. (Posted(cur) = FirstOnes(cur, Posts))'
      BY <1>2, <3>1, ZenonT(60) DEF CurOrder, Posted, Posts, FirstOnes
    <3>7. Chain(cur, files'[cur], buf', Queued')
      BY <2>1, <2>3, <3>2, <3>5, ZenonT(60)
    <3>8. Everywhere(files'[cur], buf', Queued') \subseteq sent' \cup {NoReport}
      BY <1>2, <2>1, <2>3, <3>1, <3>2, <3>4, <3>5, ZenonT(60) DEF CurOrder
    <3> QED
      BY <1>2, <3>6, <3>7, <3>8, OrderNext, ZenonT(60)
  <2> QED
    BY <1>2, <2>3, <2>4, <2>5, SameSession, ZenonT(60)
<1> QED
  BY <1>4, <1>5, <1>6, ZenonT(60)
-----------------------------------------------------------------------------
(* A new session.                                                          *)

\* Reports of the current session that are in its files, in the buffer or in the queue
\* were posted, so that they are among its first ones.
LEMMA OwnLines ==
  ASSUME TypeInv, cur # 0, CurOrder,
         NEW l \in Everywhere(files[cur], buf, Queued), l[1] = cur
  PROVE  l \in Posted(cur) /\ l = <<cur, l[2]>> /\ l[2] \in 1 .. Posts
<1>1. l \in sent /\ sent \subseteq Line
  BY OrderTypes, ZenonT(60) DEF CurOrder, TypeInv, TypeOK, EnvType
<1>2. l \in Posted(cur)
  BY <1>1, ZenonT(60) DEF Posted
<1>3. l \in FirstOnes(cur, Posts)
  BY <1>2, ZenonT(60) DEF CurOrder
<1> QED
  BY <1>2, <1>3, SMTT(30) DEF FirstOnes

\* The files of the current session have its reports with no gap: what is missing below
\* a report would be in the buffer or in the queue, behind it.
LEMMA NoGap ==
  ASSUME TypeInv, cur # 0, CurOrder, NothingLost
  PROVE  GapFree(cur, InParts(files[cur]))
<1> SUFFICES ASSUME NEW l \in InParts(files[cur]), l[1] = cur, NEW k \in 1 .. l[2]
             PROVE  <<cur, k>> \in InParts(files[cur])
  BY ZenonT(60) DEF GapFree
<1> DEFINE m == <<cur, k>>
<1>1. l \in Everywhere(files[cur], buf, Queued)
  BY ZenonT(60) DEF Everywhere
<1>2. l[2] \in 1 .. Posts
  BY <1>1, OwnLines, ZenonT(60)
<1>3. Posts \in Int
  BY OrderTypes, SMTT(30) DEF Posts, TypeInv, TypeOK, ThreadType
<1>4. k \in 1 .. Posts /\ ~(l[2] < k)
  BY <1>2, <1>3, SMTT(30)
<1>5. m \in Posted(cur)
  <2>1. m \in FirstOnes(cur, Posts)
    BY <1>4, ZenonT(60) DEF FirstOnes
  <2> QED
    BY <2>1, ZenonT(60) DEF CurOrder
<1>6. m \in InParts(files[cur]) \cup LinesOf(buf) \cup LinesOf(Queued)
  BY <1>5, QueuedShape, ZenonT(60) DEF NothingLost, TypeInv
<1>7. m[1] = cur /\ m[2] = k
  BY ZenonT(60)
<1> HIDE DEF m
<1>8. m \notin LinesOf(buf) /\ m \notin LinesOf(Queued)
  <2>1. Before(cur, InParts(files[cur]), LinesOf(buf)) /\ Before(cur, InParts(files[cur]), LinesOf(Queued))
    BY ZenonT(60) DEF CurOrder, Chain
  <2> QED
    BY <1>4, <1>7, <2>1, ZenonT(60) DEF Before
<1> QED
  BY <1>6, <1>8, ZenonT(60) DEF m

\* A start keeps the order: the session that ends is gap-free, and the new one has no
\* report anywhere yet.
LEMMA StartOrder ==
  ASSUME TypeInv, LineInv, LagInv, OrderInv, ClickStarts \/ DialogStarts
  PROVE  OrderInv'
<1>1. ~joining /\ queue # <<>> /\ queue' = Tail(queue) /\ StartBranch
  BY ZenonT(60) DEF ClickStarts, DialogStarts, NextItem
<1>2. UNCHANGED <<sampled, failures, sent>>
  BY <1>1, StartFacts, ZenonT(60)
<1>3. CASE UNCHANGED <<cur, pc, buf, files>>
  BY <1>1, <1>2, <1>3, DropOrder, ZenonT(60)
<1>4. CASE /\ cur + 1 \in Sessions /\ cur' = cur + 1 /\ pc' = [pc EXCEPT ![cur + 1] = "loop"]
           /\ buf' = <<>> /\ files' = [files EXCEPT ![cur + 1] = << <<>> >>]
  <2> DEFINE n == cur + 1
             fs == << <<>> >>
  <2>1. cur \in Nat /\ \A s \in 1 .. cur : s \in Sessions /\ s # n /\ s # 0
    BY <1>4, LogConstants, SMTT(30) DEF TypeInv, TypeOK, SessionType, Sessions
  <2>2. files'[n] = fs /\ \A s \in Sessions : s # n => files'[s] = files[s]
    BY <1>4, ZenonT(60) DEF TypeInv, TypeOK, LogType
  <2>3. pc'[n] = "loop"
    BY <1>4, ZenonT(60) DEF TypeInv, TypeOK, ThreadType
  <2>4. /\ Queued \in Seq(Entry) /\ Queued # <<>> /\ Queued' = Tail(Queued)
    BY <1>1, QueuedShape, QueuedTail, ZenonT(60) DEF TypeInv
  <2> SUFFICES ASSUME failures = 0 PROVE OrderInv'
    BY <1>2, ZenonT(60) DEF OrderInv
  <2>5. \A l \in LinesOf(Queued) : l \in sent \/ l = NoReport
    <3>1. CASE cur = 0
      <4>1. \A i \in 1 .. Len(queue) : Queued[i] = NoReport
        BY <3>1, ZenonT(60) DEF Queued, TypeInv, FileInv
      <4> QED
        BY <4>1, QueuedShape, ZenonT(60) DEF LinesOf, TypeInv
    <3>2. CASE cur # 0
      BY <3>2, ZenonT(60) DEF OrderInv, CurOrder, Everywhere
    <3> QED
      BY <3>1, <3>2, ZenonT(60)
  <2>6. \A l \in sent : l[1] # n
    <3>1. \A l \in sent : l[1] <= cur /\ l[1] \in Nat
      BY LogConstants, SMTT(30) DEF LineInv, PostInv, TypeInv, TypeOK, EnvType, Line, Sessions
    <3> QED
      BY <2>1, <3>1, SMTT(30)
  <2>7. LinesOf(Tail(Queued)) \subseteq LinesOf(Queued)
    BY <2>4, TailOrder, ZenonT(60)
  <2>8. NoReport[1] # n
    BY <2>1, SMTT(30) DEF NoReport
  <2>9. \A l \in LinesOf(Tail(Queued)) : l[1] # n
    BY <2>5, <2>6, <2>7, <2>8, ZenonT(60)
  <2> HIDE DEF n
  <2>10. /\ 1 .. Len(fs) = {1} /\ fs[1] = <<>>
    BY SMTT(30)
  <2>11. LinesOf(<<>>) = {} /\ InOrder(n, <<>>)
    BY SMTT(30) DEF LinesOf, InOrder
  <2> HIDE DEF fs
  <2>12. InParts(fs) = {} /\ PartsInOrder(n, fs)
    <3>1. InParts(fs) = {}
      BY <2>10, <2>11, ZenonT(60) DEF InParts
    <3>2. \A p, q \in 1 .. Len(fs) : ~(p < q)
      BY <2>10, SMTT(30)
    <3> QED
      BY <2>10, <2>11, <3>1, <3>2, ZenonT(60) DEF PartsInOrder
  <2>13. InOrder(n, Tail(Queued))
    BY <2>9, ZenonT(60) DEF InOrder, LinesOf
  <2>14. Chain(n, fs, <<>>, Tail(Queued))
    BY <2>11, <2>12, <2>13, ZenonT(60) DEF Chain, Before
  <2>15. Everywhere(fs, <<>>, Tail(Queued)) \subseteq sent \cup {NoReport}
    BY <2>5, <2>7, <2>11, <2>12, ZenonT(60) DEF Everywhere
  <2>16. (Posted(cur) = FirstOnes(cur, Posts))'
    <3>1. sampled'[n] = 0
      BY <1>2, <1>4, <2>1, SMTT(30) DEF LagInv, n
    <3>2. Posts' = 0
      BY <1>4, <2>3, <3>1, ZenonT(60) DEF Posts, n
    <3>3. FirstOnes(cur', 0) = {}
      BY SMTT(30) DEF FirstOnes
    <3>4. cur' = n
      BY <1>4, ZenonT(60) DEF n
    <3>5. {l \in sent' : l[1] = cur'} = {}
      BY <1>2, <2>6, <3>4, ZenonT(60)
    <3>6. Posted(cur)' = {}
      BY <3>5, ZenonT(60) DEF Posted
    <3>7. FirstOnes(cur, Posts)' = {}
      BY <3>2, <3>3, ZenonT(60)
    <3> QED
      BY <3>6, <3>7, ZenonT(60)
  <2>17. CurOrder'
    <3>1. cur' = n
      BY <1>4, ZenonT(60) DEF n
    <3>2. Chain(cur, files[cur], buf, Queued)'
      BY <1>4, <2>2, <2>4, <2>14, <3>1, ZenonT(60)
    <3>3. (Everywhere(files[cur], buf, Queued) \subseteq sent \cup {NoReport})'
      BY <1>2, <1>4, <2>2, <2>4, <2>15, <3>1, ZenonT(60)
    <3> QED
      BY <2>16, <3>2, <3>3, ZenonT(60) DEF CurOrder
  <2>18. ASSUME NEW s \in 1 .. cur
         PROVE  PartsInOrder(s, files[s]) /\ GapFree(s, InParts(files[s]))
    <3>1. CASE s # cur
      BY <3>1, ZenonT(60) DEF OrderInv
    <3>2. CASE s = cur
      <4>1. cur # 0 /\ CurOrder /\ NothingLost
        BY <2>1, <3>2, ZenonT(60) DEF OrderInv, LineInv
      <4> QED
        BY <3>2, <4>1, NoGap, ZenonT(60) DEF CurOrder, Chain
    <3> QED
      BY <3>1, <3>2, ZenonT(60)
  <2>19. ASSUME NEW s \in 1 .. cur', s # cur'
         PROVE  PartsInOrder(s, files'[s]) /\ GapFree(s, InParts(files'[s]))
    <3>1. s \in 1 .. cur
      BY <1>4, <2>1, <2>19, SMTT(30)
    <3>2. files'[s] = files[s]
      BY <2>1, <2>2, <3>1, ZenonT(60)
    <3> QED
      BY <2>18, <3>1, <3>2, ZenonT(60)
  <2> QED
    BY <2>17, <2>19, ZenonT(60) DEF OrderInv
<1> QED
  <2>1. CASE ready /\ ~CheckIfTraceActive
    <3>1. /\ cur < MaxSessions /\ cur' = cur + 1 /\ pc' = [pc EXCEPT ![cur + 1] = "loop"]
          /\ buf' = <<>> /\ files' = [files EXCEPT ![cur + 1] = << <<>> >>]
      BY <1>1, <2>1, ZenonT(60) DEF StartBranch, resetReportLogBuffer
    <3>2. cur + 1 \in Sessions
      BY <3>1, LogConstants, SMTT(30) DEF TypeInv, TypeOK, SessionType, Sessions
    <3> QED
      BY <1>4, <3>1, <3>2, ZenonT(60)
  <2>2. CASE ~(ready /\ ~CheckIfTraceActive)
    BY <1>1, <1>3, <2>2, ZenonT(60) DEF StartBranch
  <2> QED
    BY <2>1, <2>2, ZenonT(60)
-----------------------------------------------------------------------------
(* The sampling thread, and the theorem.                                   *)

\* Without write errors a step of a sampling thread keeps the order: only the current
\* session's thread runs, and it posts the next report.
LEMMA ThreadOrder ==
  ASSUME TypeInv, LineInv, LagInv, OrderInv, NEW t \in Sessions, Thread(t)
  PROVE  OrderInv'
<1>1. /\ UNCHANGED <<cur, failures, files, buf>> /\ pc[t] # "new"
      /\ \A u \in Sessions : u # t => pc'[u] = pc[u]
  BY ThreadFacts, ZenonT(60)
<1> SUFFICES ASSUME failures = 0 PROVE OrderInv'
  BY <1>1, ZenonT(60) DEF OrderInv
<1>2. pc \in [Sessions -> {"new", "loop", "sample", "send", "process", "done"}]
  BY ZenonT(60) DEF TypeInv, TypeOK, ThreadType
<1>3. sampled \in [Sessions -> Nat]
  BY LogConstants, SMTT(30) DEF TypeInv, TypeOK, ThreadType
<1>4. ASSUME pc[t] # "done"
      PROVE  t = cur /\ cur # 0
  <2>1. t \in Nat /\ t # 0 /\ cur \in Nat
    BY LogConstants, SMTT(30) DEF Sessions, TypeInv, TypeOK, SessionType
  <2>2. ~(t < cur) /\ ~(t > cur)
    BY <1>1, <1>4, ZenonT(60) DEF LagInv, LineInv, PostInv
  <2> QED
    BY <2>1, <2>2, SMTT(30)
<1>5. CASE LoopTest(t)
  <2>1. /\ UNCHANGED <<queue, sent, sampled>> /\ pc[t] = "loop"
        /\ pc' = [pc EXCEPT ![t] = IF active[t] THEN "sample" ELSE "done"]
    BY <1>5, ZenonT(60) DEF LoopTest
  <2>2. pc'[t] # "send"
    BY <1>2, <2>1, ZenonT(60)
  <2> QED
    BY <1>1, <1>4, <2>1, <2>2, StillOrder, ZenonT(60) DEF Posts
<1>6. CASE Sample(t)
  <2>1. /\ UNCHANGED <<queue, sent>> /\ pc[t] = "sample"
        /\ pc' = [pc EXCEPT ![t] = "send"] /\ sampled' = [sampled EXCEPT ![t] = @ + 1]
    BY <1>6, ZenonT(60) DEF Sample
  <2>2. pc'[t] = "send" /\ sampled'[t] = sampled[t] + 1 /\ sampled[t] \in Nat
    BY <1>2, <1>3, <2>1, ZenonT(60)
  <2>3. t = cur /\ Posts' = Posts
    BY <1>1, <1>4, <2>1, <2>2, SMTT(30) DEF Posts
  <2> QED
    BY <1>1, <2>1, <2>3, StillOrder, ZenonT(60)
<1>7. CASE SampleFails(t) \/ Process(t)
  <2>1. /\ UNCHANGED <<queue, sent, sampled>> /\ pc[t] \in {"sample", "process"}
        /\ pc' = [pc EXCEPT ![t] = "done"] \/ pc' = [pc EXCEPT ![t] = "loop"]
    BY <1>7, ZenonT(60) DEF SampleFails, Process, Die
  <2>2. pc'[t] # "send"
    BY <1>2, <2>1, ZenonT(60)
  <2> QED
    BY <1>1, <1>4, <2>1, <2>2, StillOrder, ZenonT(60) DEF Posts
<1>8. CASE Send(t)
  <2>1. pc[t] = "send" /\ t = cur /\ cur # 0
    BY <1>4, <1>8, ZenonT(60) DEF Send
  <2> DEFINE n == sampled[cur]
             x == <<cur, n>>
             item == [kind |-> "report", line |-> x]
  <2>2. report = x /\ x # NoReport
    BY <2>1, ZenonT(60) DEF LagInv, NoReport
  <2>3. x \in Line
    BY <2>2, ZenonT(60) DEF TypeInv, TypeOK, ThreadType
  <2>4. /\ queue' = Append(queue, item) /\ sent' = sent \cup {x}
        /\ pc' = [pc EXCEPT ![cur] = "process"] /\ sampled' = sampled
    BY <1>8, <2>1, <2>2, ZenonT(60) DEF Send
  <2>5. CurOrder
    BY <2>1, ZenonT(60) DEF OrderInv
  <2>6. n \in Nat /\ Posts = n - 1 /\ Posts' = n
    BY <1>1, <1>2, <1>3, <2>1, <2>4, ZenonT(60) DEF Posts
  <2>7. x[1] = cur /\ x[2] = n
    BY ZenonT(60)
  <2>8. item \in Item /\ item.kind = "report" /\ item.line = x
    BY <2>3, ZenonT(60) DEF Item
  <2> HIDE DEF item
  <2>9. Queued \in Seq(Entry) /\ Queued' = Append(Queued, x) /\ x \in Entry
    <3>1. Queued' = Append(Queued, IF item.kind = "report" THEN item.line ELSE NoReport)
      BY <2>4, <2>8, QueuedAppend, ZenonT(60) DEF TypeInv
    <3> HIDE DEF x
    <3> QED
      BY <2>3, <2>8, <3>1, QueuedShape, ZenonT(60) DEF TypeInv, Entry
  <2> HIDE DEF x, n
  <2>10. Before(cur, Everywhere(files[cur], buf, Queued), {x})
    <3> SUFFICES ASSUME NEW l \in Everywhere(files[cur], buf, Queued), l[1] = cur
                 PROVE  l[2] < x[2]
      BY ZenonT(60) DEF Before
    <3>1. l[2] \in 1 .. Posts
      BY <2>1, <2>5, OwnLines, ZenonT(60)
    <3> QED
      BY <2>6, <2>7, <3>1, SMTT(30)
  <2>11. /\ Chain(cur, files[cur], buf, Append(Queued, x))
         /\ Everywhere(files[cur], buf, Append(Queued, x))
              \subseteq Everywhere(files[cur], buf, Queued) \cup {x}
    BY <2>5, <2>9, <2>10, ChainPost, SMTT(30) DEF CurOrder
  <2>12. (Posted(cur) = FirstOnes(cur, Posts))'
    <3>1. Posted(cur) = FirstOnes(cur, n - 1)
      BY <2>5, <2>6, ZenonT(60) DEF CurOrder
    <3>2. Posted(cur)' = Posted(cur) \cup {x}
      BY <1>1, <2>4, <2>7, ZenonT(60) DEF Posted
    <3>3. FirstOnes(cur, n) = FirstOnes(cur, n - 1) \cup {x}
      <4>1. 1 .. n = (1 .. n - 1) \cup {n}
        <5>1. n >= 1
          BY <2>3, <2>7, LogConstants, SMTT(30) DEF Line
        <5> QED
          BY <2>6, <5>1, SMTT(30)
      <4>2. \A A, e : {cur} \X (A \cup {e}) = ({cur} \X A) \cup {<<cur, e>>}
        BY SMTT(30)
      <4> QED
        BY <4>1, <4>2, ZenonT(60) DEF FirstOnes, x
    <3> QED
      BY <1>1, <2>6, <3>1, <3>2, <3>3, ZenonT(60)
  <2>13. Chain(cur, files'[cur], buf', Queued')
    BY <1>1, <2>9, <2>11, ZenonT(60)
  <2>14. Everywhere(files'[cur], buf', Queued') \subseteq sent' \cup {NoReport}
    BY <1>1, <2>4, <2>5, <2>9, <2>11, ZenonT(60) DEF CurOrder
  <2>15. CurOrder'
    BY <1>1, <2>12, <2>13, <2>14, OrderNext, ZenonT(60)
  <2> QED
    BY <1>1, <2>15, SameSession, ZenonT(60)
<1> QED
  BY <1>5, <1>6, <1>7, <1>8, ZenonT(60) DEF Thread

\* Every step keeps the order.
LEMMA NextOrder == TypeInv /\ LineInv /\ LagInv /\ OrderInv /\ [Next]_vars => OrderInv'
<1> SUFFICES ASSUME TypeInv, LineInv, LagInv, OrderInv, [Next]_vars PROVE OrderInv'
  BY ZenonT(60)
<1>1. CASE UNCHANGED vars
  <2>1. UNCHANGED <<cur, failures, files, buf, queue, sent, pc, sampled>>
    BY <1>1, ZenonT(60) DEF vars, logVars, sessionVars, threadVars, envVars
  <2> QED
    BY <2>1, StillOrder, ZenonT(60) DEF Posts
<1>2. CASE ClickAsks
  <2>1. queue # <<>> /\ queue' = Tail(queue) /\ UNCHANGED <<cur, failures, files, buf, sent, pc, sampled>>
    BY <1>2, ZenonT(60) DEF ClickAsks, NextItem, logVars, sessionVars, threadVars, envVars
  <2> QED
    BY <2>1, DropOrder, ZenonT(60)
<1>3. CASE JoinReturns
  <2>1. UNCHANGED <<cur, failures, files, buf, queue, sent, pc, sampled>>
    BY <1>3, ZenonT(60) DEF JoinReturns, logVars, threadVars, envVars
  <2> QED
    BY <2>1, StillOrder, ZenonT(60) DEF Posts
<1> QED
  BY <1>1, <1>2, <1>3, EnvironmentOrder, ReportOrder, StartOrder, StopOrder, ThreadOrder, ZenonT(60)
  DEF Next, Main, HandleClick

\* Without write errors no report is duplicated, reordered or skipped on its way from the
\* thread through the looper's queue and the handler's buffer to the files, in every
\* session.
THEOREM AlwaysInOrder == Spec => []ExactlyOnceInOrder
<1>1. Init => OrderInv
  <2> SUFFICES ASSUME Init PROVE OrderInv
    BY ZenonT(60)
  <2>1. cur = 0 /\ 1 .. 0 = {}
    BY SMTT(30) DEF Init
  <2> QED
    BY <2>1, ZenonT(60) DEF OrderInv
<1>2. TypeInv /\ LineInv /\ OrderInv => ExactlyOnceInOrder
  <2> SUFFICES ASSUME TypeInv, LineInv, OrderInv, failures = 0, NEW s \in 1 .. cur
               PROVE  /\ PartsInOrder(s, files[s]) /\ GapFree(s, InParts(files[s]))
                      /\ s = cur => LET stages == files[s] \o <<buf, Queued>>
                                    IN  /\ PartsInOrder(s, stages)
                                        /\ {l \in InParts(stages) : l[1] = s} = Posted(s)
                                        /\ GapFree(s, Posted(s))
    BY ZenonT(60) DEF ExactlyOnceInOrder
  <2>1. CASE s # cur
    BY <2>1, ZenonT(60) DEF OrderInv
  <2>2. CASE s = cur
    <3> DEFINE stages == files[cur] \o <<buf, Queued>>
    <3>1. cur # 0 /\ CurOrder /\ NothingLost
      BY <2>2, SMTT(30) DEF OrderInv, LineInv
    <3>2. files[cur] \in Seq(Seq(Entry)) /\ buf \in Seq(Entry) /\ Queued \in Seq(Entry)
      BY <3>1, OrderTypes, QueuedShape, ZenonT(60) DEF TypeInv
    <3>3. PartsInOrder(cur, stages) /\ InParts(stages) = Everywhere(files[cur], buf, Queued)
      BY <3>1, <3>2, ChainStages, SMTT(30) DEF CurOrder
    <3> HIDE DEF stages
    <3>4. PartsInOrder(cur, files[cur]) /\ GapFree(cur, InParts(files[cur]))
      BY <3>1, NoGap, ZenonT(60) DEF CurOrder, Chain
    <3>5. Posted(cur) \subseteq {l \in InParts(stages) : l[1] = cur}
      <4>1. Posted(cur) \subseteq InParts(stages)
        BY <3>1, <3>3, QueuedShape, ZenonT(60) DEF NothingLost, Everywhere, TypeInv
      <4> QED
        BY <4>1, ZenonT(60) DEF Posted
    <3>6. \A l \in InParts(stages) : l[1] = cur => l \in Posted(cur)
      BY <3>1, <3>3, OwnLines, ZenonT(60)
    <3>7. GapFree(cur, Posted(cur))
      <4>1. Posted(cur) = FirstOnes(cur, Posts) /\ Posts \in Int
        BY <3>1, OrderTypes, SMTT(30) DEF CurOrder, Posts, TypeInv, TypeOK, ThreadType
      <4>2. \A l \in FirstOnes(cur, Posts) : l[2] \in 1 .. Posts
        BY ZenonT(60) DEF FirstOnes
      <4>3. \A k \in 1 .. Posts : <<cur, k>> \in FirstOnes(cur, Posts)
        BY ZenonT(60) DEF FirstOnes
      <4> QED
        BY <4>1, <4>2, <4>3, SMTT(30) DEF GapFree
    <3>8. {l \in InParts(stages) : l[1] = cur} = Posted(cur)
      BY <3>5, <3>6, ZenonT(60)
    <3> QED
      BY <2>2, <3>3, <3>4, <3>7, <3>8, ZenonT(60) DEF stages
  <2> QED
    BY <2>1, <2>2, ZenonT(60)
<1>3. OrderInv /\ (TypeInv /\ LineInv) /\ LagInv /\ [Next]_vars => OrderInv'
  BY NextOrder, ZenonT(60)
<1> QED
  BY <1>1, <1>2, <1>3, LagAlways, PTL DEF Spec
=============================================================================
