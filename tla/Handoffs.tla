------------------------------ MODULE Handoffs ------------------------------
(***************************************************************************)
(* Handoff detection: the radio changes while the monitoring thread        *)
(* samples it (MonitoringService.NetworkInfoToReport, Report, Device), and *)
(* the session's counters (SessionSummary) add up what it finds.           *)
(*                                                                         *)
(* A sample is cut where it reads the phone: the cell list, the network    *)
(* service, the network service again for the next comparison, and once    *)
(* more for the summary.                                                   *)
(***************************************************************************)
EXTENDS Integers

CONSTANTS
  Cells,        \* cell identities
  MaxSwitches,  \* bound: changes of the link
  MaxMoves,     \* bound: changes of the cell
  MaxSessions   \* bound: tracing sessions

\* The empty string.
Empty == "EMPTY"

ASSUME HandoffConstants ==
  /\ Empty \notin Cells
  /\ MaxSwitches \in Nat /\ MaxMoves \in Nat /\ MaxSessions \in Nat

SA_NR == "SA_NR"
\* The transport of the active network, and the type of the data network: NR, LTE
\* or an older one.
Transports == {"WIFI", "CELLULAR", "OTHER", "NONE"}
Links == [transport : Transports, data : {"NR", "LTE", "LEGACY"}]
Connects == {"WIFI", "MOBILE", "NOT_CONNECTED"}
Services == {SA_NR, "LTE", "WIFI", "UNKNOWN", "null"}

VARIABLES
  radio,     \* [link, cell]: the phone; no registered cell is Empty
  device,    \* [connect, service]: the static fields of Device
  prev,      \* [nr, mCid, tech]: prevNrStatus, prevMCid, prevAccessNetworkTech
  pc,        \* the monitoring thread
  report,    \* [mCid, tech, type, v, h]: the report it builds
  summary,   \* [n, v, h, orientation]: counters of the current session
  sessions,  \* sessions started
  switches,  \* history: how often the service seen by the app went to or from SA_NR
  links,     \* bound: changes of the link
  moves,     \* history: changes of the cell
  total,     \* history: [v, h], handoffs counted over all sessions
  told       \* history: [mCid, tech, n], the session's last report, without a tech if the phone
             \* changed while it was made, and the changes between its reports

vars == <<radio, device, prev, pc, report, summary, sessions, switches, links, moves, total, told>>
-----------------------------------------------------------------------------
\* Device.getConnectType: another transport leaves the field as it was.
getConnectType(d, link) ==
  CASE link.transport = "WIFI" -> "WIFI"
    [] link.transport = "CELLULAR" -> "MOBILE"
    [] link.transport = "OTHER" -> d.connect
    [] link.transport = "NONE" -> "NOT_CONNECTED"

\* Device.getNetworkService: so does a cellular network older than LTE.
getNetworkService(d, link) ==
  CASE getConnectType(d, link) = "WIFI" -> "WIFI"
    [] getConnectType(d, link) = "NOT_CONNECTED" -> "UNKNOWN"
    [] link.data = "NR" -> SA_NR
    [] link.data = "LTE" -> "LTE"
    [] OTHER -> d.service

ReadDevice(d, link) ==
  [connect |-> getConnectType(d, link), service |-> getNetworkService(d, link)]

\* Report.setNrStatus: the switch over the NR state is commented out.
setNrStatus == Empty

Handoff(type, v, h) == [type |-> type, v |-> v, h |-> h]

\* Report.setHandoffType, outside of standalone 5G.
NonStandalone(nr, mCid, p) ==
  LET Change(x, y) == p.nr = x /\ nr = y
  IN  IF mCid = p.mCid
      THEN CASE Change("CONNECTED", "NOT_RESTRICTED") -> Handoff(1, 1, 0)
             [] Change("NOT_RESTRICTED", "CONNECTED") -> Handoff(2, 1, 0)
             [] OTHER -> Handoff(0, 0, 0)
      ELSE CASE Change("NOT_RESTRICTED", "NOT_RESTRICTED") -> Handoff(4, 0, 1)
             [] Change("NONE", "NONE") -> Handoff(9, 0, 1)
             [] Change("CONNECTED", "NOT_RESTRICTED") -> Handoff(3, 1, 1)
             [] Change("CONNECTED", "NONE") -> Handoff(10, 1, 1)
             [] Change("NOT_RESTRICTED", "CONNECTED") -> Handoff(13, 1, 1)
             [] Change("NOT_RESTRICTED", "NONE") -> Handoff(11, 0, 1)
             [] Change("NONE", "NOT_RESTRICTED") -> Handoff(12, 0, 1)
             [] Change("NONE", "CONNECTED") -> Handoff(14, 1, 1)
             [] OTHER -> Handoff(0, 0, 0)

\* Mutant: leaving SA_NR sets the type, and forgets VerticalHandoff.
setHandoffType_TypeOnly(nr, mCid, tech, p) ==
  LET towerChanged == mCid # p.mCid
  IN  CASE p.tech = SA_NR /\ tech = SA_NR /\ towerChanged -> Handoff(15, 0, 1)
        [] p.tech = SA_NR /\ tech # SA_NR /\ ~towerChanged -> Handoff(16, 0, 0)
        [] OTHER -> Handoff(0, 0, 0)

\* Report.setHandoffType, from the values of the sample before.
setHandoffType(nr, mCid, tech, p) ==
  LET towerChanged == mCid # p.mCid
  IN  IF p.tech = SA_NR
      THEN CASE tech = SA_NR /\ towerChanged -> Handoff(15, 0, 1)
             [] tech = SA_NR /\ ~towerChanged -> Handoff(0, 0, 0)
             [] tech # SA_NR /\ towerChanged -> Handoff(18, 1, 1)
             [] tech # SA_NR /\ ~towerChanged -> Handoff(16, 1, 0)
      ELSE IF tech = SA_NR
      THEN CASE ~towerChanged -> Handoff(17, 1, 0)
             [] towerChanged /\ p.nr = "NOT_RESTRICTED" -> Handoff(19, 1, 1)
             [] OTHER -> Handoff(0, 0, 0)
      ELSE NonStandalone(nr, mCid, p)
-----------------------------------------------------------------------------
NewSummary == [n |-> 0, v |-> 0, h |-> 0, orientation |-> 0]
NoReport == [mCid |-> Empty, tech |-> Empty, type |-> 0, v |-> 0, h |-> 0]
NothingTold == [mCid |-> Empty, tech |-> Empty, n |-> 0]
Fields == [connect |-> "NOT_CONNECTED", service |-> "null"]

\* Device is constructed in onCreate, which reads the phone, and fails on another
\* transport.
Init ==
  /\ radio \in [link : Links, cell : Cells \cup {Empty}]
  /\ radio.link.transport # "OTHER"
  /\ device = ReadDevice(Fields, radio.link)
  /\ prev = [nr |-> Empty, mCid |-> Empty, tech |-> Empty]
  /\ pc = "off" /\ report = NoReport /\ summary = NewSummary /\ sessions = 0
  /\ switches = 0 /\ links = 0 /\ moves = 0
  /\ total = [v |-> 0, h |-> 0] /\ told = NothingTold

\* What the app would find if it asked now.
View == getNetworkService(device, radio.link)
OnSA(tech) == IF tech = SA_NR THEN 1 ELSE 0

PhoneSame == UNCHANGED <<radio, switches, links, moves>>
ThreadSame == UNCHANGED <<prev, pc, report, summary, sessions, total, told>>

\* The phone changes its link, at any time.
ChangeLink(link) ==
  /\ links < MaxSwitches /\ link # radio.link
  /\ links' = links + 1
  /\ radio' = [radio EXCEPT !.link = link]
  /\ switches' = IF OnSA(getNetworkService(device, link)) # OnSA(View) THEN switches + 1
                 ELSE switches
  /\ UNCHANGED <<device, moves>> /\ ThreadSame

\* ... or its cell.
Move(cell) ==
  /\ moves < MaxMoves /\ cell # radio.cell
  /\ moves' = moves + 1
  /\ radio' = [radio EXCEPT !.cell = cell]
  /\ UNCHANGED <<device, switches, links>> /\ ThreadSame

\* The fields are static: the lines the main thread logs, the screens and
\* getNetworkType set both of them, or the connection only.
ReadElsewhere ==
  /\ \/ device' = ReadDevice(device, radio.link)
     \/ device' = [device EXCEPT !.connect = getConnectType(device, radio.link)]
  /\ PhoneSame /\ ThreadSame

\* StartTracing makes a new SessionSummary; the values of the sample before stay.
StartTracing ==
  /\ pc = "off" /\ sessions < MaxSessions
  /\ pc' = "idle" /\ sessions' = sessions + 1
  /\ summary' = NewSummary /\ report' = NoReport /\ told' = NothingTold
  /\ PhoneSame /\ UNCHANGED <<device, prev, total>>

\* Stop lets the thread finish its iteration.
StopTracing ==
  /\ pc = "idle" /\ pc' = "off"
  /\ PhoneSame /\ UNCHANGED <<device, prev, report, summary, sessions, total, told>>

\* Report.setMCid: the registered cell, 4G or 5G, of the list that was read.
setMCid == radio.cell

\* Report.setContext reads the list ...
ReadCells ==
  /\ pc = "idle" /\ pc' = "cells"
  /\ report' = [NoReport EXCEPT !.mCid = setMCid]
  /\ PhoneSame /\ UNCHANGED <<device, prev, summary, sessions, total, told>>

\* ... and then the network service.
ReadService ==
  /\ pc = "cells" /\ pc' = "service"
  /\ device' = ReadDevice(device, radio.link)
  /\ report' = [report EXCEPT !.tech = device'.service]
  /\ PhoneSame /\ UNCHANGED <<prev, summary, sessions, total, told>>

\* Mutant: the values of the sample before are not updated.
Remember_Nothing(nr) == UNCHANGED <<device, prev>>

\* NetworkInfoToReport keeps this sample's values; getAccessNetworkTech asks again.
Remember(nr) ==
  /\ device' = ReadDevice(device, radio.link)
  /\ prev' = [nr |-> nr, mCid |-> report.mCid, tech |-> device'.service]

\* setNrStatus, setMCid, setHandoffType.
Classify ==
  LET found == setHandoffType(setNrStatus, report.mCid, report.tech, prev)
  IN  /\ pc = "service" /\ report.tech # "null"
      /\ pc' = "classified"
      /\ report' = [report EXCEPT !.type = found.type, !.v = found.v, !.h = found.h]
      /\ Remember(setNrStatus)
      /\ PhoneSame /\ UNCHANGED <<summary, sessions, total, told>>

\* An exception while sampling, such as that of equals() on a service that was
\* never set: there is no report, and the thread may go on or die.
SampleFails ==
  /\ pc \in {"cells", "service"} /\ pc' \in {"idle", "off"}
  /\ report' = NoReport
  /\ PhoneSame /\ UNCHANGED <<device, prev, summary, sessions, total, told>>

\* config's orientations: none, vertical, horizontal, both.
Orientation(r, before) ==
  CASE r.type = 0 -> 0
    [] r.type # 0 /\ r.v = 1 /\ r.h = 1 -> 3
    [] r.type # 0 /\ r.v = 1 /\ r.h # 1 -> 1
    [] r.type # 0 /\ r.v # 1 /\ r.h = 1 -> 2
    [] OTHER -> before

\* SessionSummary.processNetworkReport.
processNetworkReport ==
  /\ pc = "classified" /\ pc' = "idle"
  /\ summary' = [n |-> summary.n + (IF report.type # 0 THEN 1 ELSE 0),
                 v |-> summary.v + report.v, h |-> summary.h + report.h,
                 orientation |-> Orientation(report, summary.orientation)]
  /\ total' = [v |-> total.v + report.v, h |-> total.h + report.h]
  /\ told' = [mCid |-> report.mCid,
              tech |-> IF prev.tech = report.tech THEN report.tech ELSE Empty,
              n |-> IF /\ told.tech # Empty /\ OnSA(told.tech) # OnSA(report.tech)
                       /\ told.tech = SA_NR \/ told.mCid = report.mCid
                    THEN told.n + 1 ELSE told.n]
  /\ device' = ReadDevice(device, radio.link)
  /\ PhoneSame /\ UNCHANGED <<prev, report, sessions>>

Next ==
  \/ \E link \in Links : ChangeLink(link)
  \/ \E cell \in Cells \cup {Empty} : Move(cell)
  \/ ReadElsewhere \/ StartTracing \/ StopTracing
  \/ ReadCells \/ ReadService \/ Classify \/ SampleFails \/ processNetworkReport

Spec == Init /\ [][Next]_vars
-----------------------------------------------------------------------------
(* Properties                                                              *)

Names == Cells \cup {Empty}

\* Every variable keeps its type.
TypeOK ==
  /\ radio \in [link : Links, cell : Names]
  /\ device \in [connect : Connects, service : Services]
  /\ prev \in [nr : {Empty}, mCid : Names, tech : Services \cup {Empty}]
  /\ pc \in {"off", "idle", "cells", "service", "classified"}
  /\ report \in [mCid : Names, tech : Services \cup {Empty}, type : Nat, v : {0, 1}, h : {0, 1}]
  /\ summary \in [n : Nat, v : Nat, h : Nat, orientation : 0 .. 3]
  /\ sessions \in Nat /\ switches \in Nat /\ links \in Nat /\ moves \in Nat
  /\ total \in [v : Nat, h : Nat] /\ told \in [mCid : Names, tech : Services \cup {Empty}, n : Nat]

\* Every handoff a session counts is vertical, horizontal or both, and nothing
\* else is counted as one of these.
CountsCover ==
  /\ summary.n <= summary.v + summary.h /\ summary.v + summary.h <= 2 * summary.n
  /\ summary.v <= summary.n /\ summary.h <= summary.n

\* processNetworkReport leaves the map marker of this very report, never that of
\* an earlier one.
MarkerOfReport ==
  [][pc = "classified" /\ pc' = "idle" => summary'.orientation = report.v + 2 * report.h]_vars

\* However the phone changes between the reads of a sample, and over any number of
\* sessions, a change of the cell is counted as at most one horizontal handoff,
\* and a change to or from standalone 5G as at most one vertical handoff.  The
\* exception is the first sample, which is compared with no sample at all.
NoPhantomHandoffs == total.h <= moves /\ total.v <= switches + 1

\* "number of vertical handoffs (between diff technologies)": a session counts every
\* change to or from standalone 5G between two of its reports, if the phone did not
\* change between the two reads of the earlier one, and, on the way to standalone
\* 5G, if the cell stays: for that change setHandoffType has no type with a new cell.
SteadyChangesCount == summary.v >= told.n
=============================================================================
