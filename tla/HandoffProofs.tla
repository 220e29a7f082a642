---------------------------- MODULE HandoffProofs ----------------------------
(***************************************************************************)
(* Theorems about handoff detection: types, the cover of the counters,     *)
(* that no handoff is counted twice, and that a change between two reports *)
(* of a session is counted when the phone is steady for the earlier one.   *)
(***************************************************************************)
EXTENDS Handoffs, TLAPS

Distance(x, y) == IF x = y THEN 0 ELSE 1

\* The changes of the cell that are still to be counted: between the last sample
\* and now, through the cell the current sample has seen.
CellsUncounted ==
  CASE pc \in {"off", "idle"} ->
         IF prev.tech = Empty THEN 0 ELSE Distance(prev.mCid, radio.cell)
    [] pc \in {"cells", "service"} ->
         (IF prev.tech = Empty THEN 0 ELSE Distance(prev.mCid, report.mCid))
           + Distance(report.mCid, radio.cell)
    [] pc = "classified" -> report.h + Distance(prev.mCid, radio.cell)

\* Likewise for changes to or from standalone 5G.
SwitchesUncounted ==
  CASE pc \in {"off", "idle", "cells"} -> Distance(OnSA(prev.tech), OnSA(View))
    [] pc = "service" -> Distance(OnSA(prev.tech), OnSA(report.tech))
                           + Distance(OnSA(report.tech), OnSA(View))
    [] pc = "classified" -> report.v + Distance(OnSA(prev.tech), OnSA(View))

CellBudget == total.h + CellsUncounted <= moves
SwitchBudget == total.v + SwitchesUncounted <= switches + 1

\* A report counts as a handoff if and only if it is vertical or horizontal.
TypeHasKind == report.type = 0 <=> report.v = 0 /\ report.h = 0

HandoffInv ==
  /\ TypeOK /\ TypeHasKind /\ CountsCover /\ CellBudget /\ SwitchBudget
  /\ pc = "classified" => prev.tech # Empty
-----------------------------------------------------------------------------
(* The operators.                                                          *)

Devices == [connect : Connects, service : Services]
Results == [type : Nat, v : {0, 1}, h : {0, 1}]

\* Reading the phone gives values of the fields' types.
LEMMA ReadTypes ==
  ASSUME NEW d \in Devices, NEW link \in Links
  PROVE  /\ getConnectType(d, link) \in Connects
         /\ getNetworkService(d, link) \in Services
         /\ ReadDevice(d, link) \in Devices
<1>1. getConnectType(d, link) \in Connects
  BY DEF Devices, Links, Transports, Connects, getConnectType
<1>2. getNetworkService(d, link) \in Services
  BY <1>1 DEF Devices, Links, Connects, Services, SA_NR, getNetworkService
<1> QED BY <1>1, <1>2 DEF ReadDevice, Devices

\* Reading the phone, or only its connection, does not change what the next read
\* finds while the phone stays as it is.
LEMMA ReadAgain ==
  ASSUME NEW d \in Devices, NEW link \in Links
  PROVE  /\ getNetworkService(ReadDevice(d, link), link) = getNetworkService(d, link)
         /\ getNetworkService([d EXCEPT !.connect = getConnectType(d, link)], link)
              = getNetworkService(d, link)
<1> DEFINE e == ReadDevice(d, link)
           f == [d EXCEPT !.connect = getConnectType(d, link)]
<1>1. /\ e.connect = getConnectType(d, link) /\ e.service = getNetworkService(d, link)
      /\ f.connect = getConnectType(d, link) /\ f.service = d.service
  BY DEF ReadDevice, Devices
<1>2. getConnectType(e, link) = getConnectType(d, link)
  BY <1>1 DEF getConnectType, Links, Transports
<1>3. getConnectType(f, link) = getConnectType(d, link)
  BY <1>1 DEF getConnectType, Links, Transports
<1>4. getNetworkService(e, link) = getNetworkService(d, link)
  <2> HIDE DEF e
  <2> QED BY <1>1, <1>2 DEF getNetworkService
<1>5. getNetworkService(f, link) = getNetworkService(d, link)
  <2> HIDE DEF f
  <2> QED BY <1>1, <1>3 DEF getNetworkService
<1> QED BY <1>4, <1>5

Kinds(f) == f.type = 0 <=> f.v = 0 /\ f.h = 0

\* setHandoffType outside of standalone 5G, for every NR status: a type other than
\* 0 goes with an orientation, and a horizontal handoff with a change of tower.
LEMMA NonStandaloneKinds ==
  ASSUME NEW nr, NEW mCid, NEW p, NEW f, f = NonStandalone(nr, mCid, p)
  PROVE  /\ f \in Results /\ Kinds(f)
         /\ f.h = 1 => mCid # p.mCid
         /\ nr = Empty => f.v = 0 /\ f.h = 0
<1>1. CASE mCid = p.mCid
  <2>1. \/ f = Handoff(0, 0, 0)
        \/ nr # Empty /\ (f = Handoff(1, 1, 0) \/ f = Handoff(2, 1, 0))
    BY <1>1 DEF NonStandalone, Empty
  <2> QED BY <2>1, <1>1 DEF Handoff, Results, Kinds
<1>2. CASE mCid # p.mCid
  <2>1. \/ f = Handoff(0, 0, 0)
        \/ /\ nr # Empty
           /\ \/ f = Handoff(4, 0, 1) \/ f = Handoff(9, 0, 1) \/ f = Handoff(11, 0, 1)
              \/ f = Handoff(12, 0, 1) \/ f = Handoff(3, 1, 1) \/ f = Handoff(10, 1, 1)
              \/ f = Handoff(13, 1, 1) \/ f = Handoff(14, 1, 1)
    BY <1>2 DEF NonStandalone, Empty
  <2> QED BY <2>1, <1>2 DEF Handoff, Results, Kinds
<1> QED BY <1>1, <1>2

\* The same for the whole of setHandoffType, for every NR status, cell and service.
\* While the NR status is Empty, a vertical handoff is a change to or from standalone
\* 5G, and a horizontal one starts there.
LEMMA HandoffKinds ==
  ASSUME NEW nr, NEW mCid, NEW tech, NEW p,
         NEW f, f = setHandoffType(nr, mCid, tech, p)
  PROVE  /\ f \in Results /\ Kinds(f)
         /\ f.h = 1 => mCid # p.mCid
         /\ nr = Empty /\ f.v = 1 => OnSA(p.tech) # OnSA(tech)
         /\ nr = Empty /\ p.nr = Empty /\ f.h = 1 => OnSA(p.tech) = 1
<1>1. CASE p.tech = SA_NR
  <2>1. \/ f = Handoff(15, 0, 1) /\ mCid # p.mCid
        \/ f = Handoff(0, 0, 0)
        \/ f = Handoff(18, 1, 1) /\ mCid # p.mCid /\ tech # SA_NR
        \/ f = Handoff(16, 1, 0) /\ tech # SA_NR
    BY <1>1 DEF setHandoffType
  <2> QED BY <1>1, <2>1 DEF Handoff, Results, Kinds, OnSA
<1>2. CASE p.tech # SA_NR /\ tech = SA_NR
  <2>1. \/ f = Handoff(17, 1, 0)
        \/ f = Handoff(19, 1, 1) /\ mCid # p.mCid /\ p.nr = "NOT_RESTRICTED"
        \/ f = Handoff(0, 0, 0)
    BY <1>2 DEF setHandoffType
  <2> QED BY <1>2, <2>1 DEF Handoff, Results, Kinds, OnSA, Empty
<1>3. CASE p.tech # SA_NR /\ tech # SA_NR
  <2>1. f = NonStandalone(nr, mCid, p)
    BY <1>3 DEF setHandoffType
  <2>2. /\ f \in Results /\ Kinds(f)
        /\ f.h = 1 => mCid # p.mCid
        /\ nr = Empty => f.v = 0 /\ f.h = 0
    BY <2>1, NonStandaloneKinds DEF Kinds
  <2> QED BY <2>2 DEF Kinds
<1> QED BY <1>1, <1>2, <1>3

\* The distance is a distance.
LEMMA DistanceFacts ==
  ASSUME NEW x, NEW y, NEW z
  PROVE  /\ Distance(x, y) \in {0, 1} /\ Distance(x, x) = 0
         /\ x # y => Distance(x, y) = 1
         /\ Distance(x, z) <= Distance(x, y) + Distance(y, z)
BY DEF Distance
-----------------------------------------------------------------------------
(* The invariant holds initially.                                          *)

\* No cell or switch is counted, and only the first read has been made.
LEMMA HandoffInit == Init => HandoffInv
<1> SUFFICES ASSUME Init PROVE HandoffInv
  OBVIOUS
<1>1. radio \in [link : Links, cell : Names] /\ radio.link \in Links
  BY DEF Init, Names
<1>2. Fields \in Devices
  BY DEF Fields, Devices, Connects, Services
<1>3. device \in Devices
  BY <1>1, <1>2, ReadTypes, SMTT(30) DEF Init
<1>4. TypeOK
  BY <1>1, <1>3 DEF Init, TypeOK, Devices, Names, NoReport, NewSummary, NothingTold
<1>5. TypeHasKind /\ CountsCover
  BY DEF Init, TypeHasKind, CountsCover, NoReport, NewSummary
<1>6. CellBudget
  BY DEF Init, CellBudget, CellsUncounted
<1>7. SwitchBudget
  BY DistanceFacts DEF Init, SwitchBudget, SwitchesUncounted
<1>8. pc # "classified"
  BY DEF Init
<1> QED BY <1>4, <1>5, <1>6, <1>7, <1>8 DEF HandoffInv
-----------------------------------------------------------------------------
(* Every step keeps it.                                                    *)

\* What the app would find is of the type of a service.
LEMMA ViewType == TypeOK => View \in Services
BY ReadTypes DEF TypeOK, View, Devices

\* A step that reads the phone, wholly or in part, leaves what it would find.
LEMMA ReadsKeepView ==
  ASSUME TypeOK, radio' = radio,
         \/ device' = device \/ device' = ReadDevice(device, radio.link)
         \/ device' = [device EXCEPT !.connect = getConnectType(device, radio.link)]
  PROVE  View' = View /\ device' \in Devices
<1>1. device \in Devices /\ radio.link \in Links
  BY DEF TypeOK, Devices
<1>2. View' = View
  BY <1>1, ReadAgain, ZenonT(60) DEF View
<1>3. device' \in Devices
  <2>1. CASE device' = device
    BY <1>1, <2>1
  <2>2. CASE device' = ReadDevice(device, radio.link)
    BY <1>1, <2>2, ReadTypes
  <2>3. CASE device' = [device EXCEPT !.connect = getConnectType(device, radio.link)]
    BY <1>1, <2>3, ReadTypes DEF Devices
  <2> QED BY <2>1, <2>2, <2>3
<1> QED BY <1>2, <1>3

\* The phone changes its link: at most one more switch to count, and one counted.
LEMMA LinkStep ==
  ASSUME HandoffInv, NEW link \in Links, ChangeLink(link)
  PROVE  HandoffInv'
<1> USE DEF HandoffInv
<1>1. TypeOK' /\ switches' \in Nat
  BY DEF ChangeLink, ThreadSame, TypeOK
<1>2. View' = getNetworkService(device, link)
  BY DEF ChangeLink, View, TypeOK
<1>3. switches' = switches + Distance(OnSA(View), OnSA(View'))
  BY <1>2 DEF ChangeLink, Distance, TypeOK
<1>4. SwitchesUncounted' <= SwitchesUncounted + Distance(OnSA(View), OnSA(View'))
  BY DistanceFacts DEF SwitchesUncounted, ChangeLink, ThreadSame, TypeOK
<1>5. SwitchesUncounted \in Nat /\ SwitchesUncounted' \in Nat /\ total.v \in Nat
  BY DistanceFacts, SMTT(30) DEF SwitchesUncounted, ChangeLink, ThreadSame, TypeOK
<1>6. SwitchBudget'
  <2>1. total' = total /\ switches \in Nat /\ Distance(OnSA(View), OnSA(View')) \in {0, 1}
    BY DistanceFacts, SMTT(30) DEF ChangeLink, ThreadSame, TypeOK
  <2> QED BY <1>3, <1>4, <1>5, <2>1 DEF SwitchBudget
<1>7. CellBudget' /\ TypeHasKind' /\ CountsCover'
  BY DEF CellBudget, CellsUncounted, TypeHasKind, CountsCover, ChangeLink, ThreadSame, TypeOK
<1>8. pc' = "classified" => prev'.tech # Empty
  BY DEF ChangeLink, ThreadSame
<1> QED BY <1>1, <1>6, <1>7, <1>8

\* The phone changes its cell: likewise.
LEMMA MoveStep ==
  ASSUME HandoffInv, NEW cell \in Names, Move(cell)
  PROVE  HandoffInv'
<1> USE DEF HandoffInv
<1>1. TypeOK'
  BY DEF Move, ThreadSame, TypeOK
<1>2. moves' = moves + 1 /\ moves \in Nat /\ total' = total /\ total.h \in Nat
  BY DEF Move, ThreadSame, TypeOK
<1>3. CellsUncounted' <= CellsUncounted + 1 /\ CellsUncounted \in Nat /\ CellsUncounted' \in Nat
  <2>1. pc' = pc /\ prev' = prev /\ report' = report
    BY DEF Move, ThreadSame
  <2>2. pc \in {"off", "idle", "cells", "service", "classified"} /\ report.h \in {0, 1}
    BY DEF TypeOK
  <2>3. \A x, y : Distance(x, y) \in {0, 1}
    BY DistanceFacts
  <2> HIDE DEF HandoffInv
  <2> QED BY <2>1, <2>2, <2>3, SMTT(30) DEF CellsUncounted
<1>4. CellBudget'
  BY <1>2, <1>3 DEF CellBudget
<1>5. View' = View
  BY DEF Move, View, TypeOK
<1>6. SwitchBudget' /\ TypeHasKind' /\ CountsCover'
  BY <1>5 DEF SwitchBudget, SwitchesUncounted, TypeHasKind, CountsCover, Move, ThreadSame, TypeOK
<1>7. pc' = "classified" => prev'.tech # Empty
  BY DEF Move, ThreadSame
<1> QED BY <1>1, <1>4, <1>6, <1>7

\* Another thread reads the phone.
LEMMA ElsewhereStep ==
  ASSUME HandoffInv, ReadElsewhere
  PROVE  HandoffInv'
<1> USE DEF HandoffInv
<1>1. View' = View /\ device' \in Devices
  BY ReadsKeepView DEF ReadElsewhere, PhoneSame
<1>2. TypeOK'
  BY <1>1 DEF ReadElsewhere, PhoneSame, ThreadSame, TypeOK, Devices
<1>3. SwitchBudget' /\ CellBudget' /\ TypeHasKind' /\ CountsCover'
  BY <1>1, ZenonT(60) DEF SwitchBudget, SwitchesUncounted, CellBudget, CellsUncounted, TypeHasKind,
              CountsCover, ReadElsewhere, PhoneSame, ThreadSame
<1>4. pc' = "classified" => prev'.tech # Empty
  BY DEF ReadElsewhere, ThreadSame
<1> QED BY <1>2, <1>3, <1>4

\* A session starts or stops: nothing is counted, nothing is forgotten.
LEMMA SessionStep ==
  ASSUME HandoffInv, StartTracing \/ StopTracing
  PROVE  HandoffInv'
<1> USE DEF HandoffInv
<1>1. View' = View
  BY DEF View, StartTracing, StopTracing, PhoneSame
<1>2. TypeOK'
  BY DEF StartTracing, StopTracing, PhoneSame, TypeOK, NewSummary, NoReport, NothingTold, Names
<1>3. SwitchBudget' /\ CellBudget'
  BY <1>1 DEF SwitchBudget, SwitchesUncounted, CellBudget, CellsUncounted, StartTracing,
              StopTracing, PhoneSame
<1>4. TypeHasKind' /\ CountsCover'
  BY DEF TypeHasKind, CountsCover, StartTracing, StopTracing, NewSummary, NoReport
<1>5. pc' # "classified"
  BY DEF StartTracing, StopTracing
<1> QED BY <1>2, <1>3, <1>4, <1>5

\* The sample sees a cell: the way from the last one to the phone's now goes through it.
LEMMA CellsStep ==
  ASSUME HandoffInv, ReadCells
  PROVE  HandoffInv'
<1> USE DEF HandoffInv
<1>1. View' = View
  BY DEF View, ReadCells, PhoneSame
<1>2. report' = [mCid |-> radio.cell, tech |-> Empty, type |-> 0, v |-> 0, h |-> 0]
  BY DEF ReadCells, NoReport, setMCid
<1>3. TypeOK'
  <2>1. radio.cell \in Names /\ Empty \in Services \cup {Empty}
    BY DEF TypeOK
  <2>2. report' \in [mCid : Names, tech : Services \cup {Empty}, type : Nat, v : {0, 1}, h : {0, 1}]
    BY <1>2, <2>1
  <2> QED BY <2>2 DEF ReadCells, PhoneSame, TypeOK
<1>4. CellBudget'
  <2>1. CellsUncounted' = CellsUncounted
    BY <1>2, DistanceFacts DEF CellsUncounted, ReadCells, PhoneSame, TypeOK
  <2> QED BY <2>1 DEF CellBudget, ReadCells, PhoneSame
<1>5. SwitchBudget'
  BY <1>1 DEF SwitchBudget, SwitchesUncounted, ReadCells, PhoneSame
<1>6. TypeHasKind' /\ CountsCover' /\ pc' # "classified"
  BY <1>2 DEF TypeHasKind, CountsCover, ReadCells
<1> QED BY <1>3, <1>4, <1>5, <1>6

\* The sample sees the service, which is what the app would find.
LEMMA ServiceStep ==
  ASSUME HandoffInv, ReadService
  PROVE  HandoffInv'
<1> USE DEF HandoffInv
<1>1. View' = View /\ device' \in Devices
  BY ReadsKeepView DEF ReadService, PhoneSame
<1>2. report' = [report EXCEPT !.tech = View] /\ View \in Services
  BY ViewType DEF ReadService, ReadDevice, View
<1>3. TypeOK'
  BY <1>1, <1>2 DEF ReadService, PhoneSame, TypeOK, Devices
<1>4. CellBudget'
  BY <1>2 DEF CellBudget, CellsUncounted, ReadService, PhoneSame, TypeOK
<1>5. SwitchBudget'
  <2>1. report'.tech = View
    BY <1>2 DEF TypeOK
  <2>2. SwitchesUncounted' = SwitchesUncounted
    BY <1>1, <2>1, DistanceFacts DEF SwitchesUncounted, ReadService, TypeOK
  <2> QED BY <2>2 DEF SwitchBudget, ReadService, PhoneSame
<1>6. TypeHasKind' /\ CountsCover' /\ pc' # "classified"
  BY <1>2 DEF TypeHasKind, CountsCover, ReadService, TypeOK
<1> QED BY <1>3, <1>4, <1>5, <1>6

\* The sample is compared with the one before: what it counts is a part of the way
\* from there, and the next way starts at what it remembers.
LEMMA ClassifyStep ==
  ASSUME HandoffInv, Classify
  PROVE  HandoffInv'
<1> USE DEF HandoffInv
<1> DEFINE found == setHandoffType(setNrStatus, report.mCid, report.tech, prev)
<1>1. View' = View /\ device' \in Devices
  BY ReadsKeepView DEF Classify, Remember, PhoneSame
<1>2. View \in Services
  BY ViewType
<1>3. prev' = [nr |-> Empty, mCid |-> report.mCid, tech |-> View]
  BY DEF Classify, Remember, ReadDevice, View, setNrStatus
<1>4. report' = [report EXCEPT !.type = found.type, !.v = found.v, !.h = found.h]
  BY DEF Classify
<1>5. /\ found \in Results /\ (found.type = 0 <=> found.v = 0 /\ found.h = 0)
      /\ found.h = 1 => report.mCid # prev.mCid
      /\ found.v = 1 => OnSA(prev.tech) # OnSA(report.tech)
      /\ found.h = 1 => OnSA(prev.tech) = 1
  BY HandoffKinds DEF setNrStatus, Kinds, TypeOK
<1> HIDE DEF found
<1>6. report' \in [mCid : Names, tech : Services \cup {Empty}, type : Nat, v : {0, 1}, h : {0, 1}]
  BY <1>4, <1>5, ZenonT(60) DEF Results, TypeOK
<1>7. TypeOK'
  BY <1>1, <1>2, <1>3, <1>6 DEF Classify, PhoneSame, TypeOK, Devices
<1>8. report'.type = found.type /\ report'.v = found.v /\ report'.h = found.h
  BY <1>4 DEF TypeOK
<1>9. pc = "service" /\ pc' = "classified" /\ total' = total /\ moves' = moves
      /\ switches' = switches /\ radio' = radio /\ summary' = summary
  BY DEF Classify, PhoneSame
<1>10. CellBudget'
  <2>1. CellsUncounted' = found.h + Distance(report.mCid, radio.cell)
    BY <1>3, <1>8, <1>9 DEF CellsUncounted
  <2>2. found.h <= (IF prev.tech = Empty THEN 0 ELSE Distance(prev.mCid, report.mCid))
    BY <1>5 DEF Results, OnSA, SA_NR, Empty, Distance
  <2>3. CellsUncounted = (IF prev.tech = Empty THEN 0 ELSE Distance(prev.mCid, report.mCid))
                           + Distance(report.mCid, radio.cell)
    BY <1>9, SMTT(30) DEF CellsUncounted
  <2>4. found.h \in Nat /\ Distance(prev.mCid, report.mCid) \in Nat
        /\ Distance(report.mCid, radio.cell) \in Nat /\ total.h \in Nat /\ moves \in Nat
    BY <1>5, DistanceFacts, SMTT(30) DEF Results, TypeOK
  <2> QED BY <1>9, <2>1, <2>2, <2>3, <2>4 DEF CellBudget
<1>11. SwitchBudget'
  <2>1. SwitchesUncounted' = found.v
    BY <1>1, <1>3, <1>5, <1>8, <1>9, DistanceFacts DEF SwitchesUncounted, Results
  <2>2. found.v <= Distance(OnSA(prev.tech), OnSA(report.tech))
    BY <1>5, DistanceFacts DEF Results
  <2>3. SwitchesUncounted = Distance(OnSA(prev.tech), OnSA(report.tech))
                              + Distance(OnSA(report.tech), OnSA(View))
    BY <1>9 DEF SwitchesUncounted
  <2>4. found.v \in Nat /\ Distance(OnSA(prev.tech), OnSA(report.tech)) \in Nat
        /\ Distance(OnSA(report.tech), OnSA(View)) \in Nat
    BY <1>5, DistanceFacts DEF Results
  <2>5. total.v \in Nat /\ switches \in Nat
    BY DEF TypeOK
  <2> QED BY <1>9, <2>1, <2>2, <2>3, <2>4, <2>5 DEF SwitchBudget
<1>12. TypeHasKind' /\ CountsCover'
  BY <1>5, <1>8, <1>9 DEF TypeHasKind, CountsCover
<1>13. prev'.tech # Empty
  BY <1>2, <1>3 DEF Services, SA_NR, Empty
<1> QED BY <1>7, <1>10, <1>11, <1>12, <1>13

\* The sample is dropped: the way from the last sample to the phone is at most the
\* one through what the dropped sample saw.
LEMMA FailStep ==
  ASSUME HandoffInv, SampleFails
  PROVE  HandoffInv'
<1> USE DEF HandoffInv
<1>1. View' = View
  BY SMTT(30) DEF View, SampleFails, PhoneSame
<1>2. TypeOK'
  BY DEF SampleFails, PhoneSame, TypeOK, NoReport, Names
<1>3. CellBudget'
  <2> DEFINE toReport == Distance(prev.mCid, report.mCid)
             toNow == Distance(report.mCid, radio.cell)
             way == Distance(prev.mCid, radio.cell)
  <2>1. way <= toReport + toNow /\ way \in Nat /\ toReport \in Nat /\ toNow \in Nat
    BY DistanceFacts, SMTT(30)
  <2>2. /\ CellsUncounted = (IF prev.tech = Empty THEN 0 ELSE toReport) + toNow
        /\ CellsUncounted' = IF prev.tech = Empty THEN 0 ELSE way
    BY DEF CellsUncounted, SampleFails, PhoneSame
  <2> HIDE DEF toReport, toNow, way
  <2>3. CellsUncounted' <= CellsUncounted /\ CellsUncounted \in Nat /\ CellsUncounted' \in Nat
    BY <2>1, <2>2
  <2> QED BY <2>3 DEF CellBudget, SampleFails, PhoneSame, TypeOK
<1>4. SwitchBudget'
  <2>1. /\ SwitchesUncounted' <= SwitchesUncounted
        /\ SwitchesUncounted \in Nat /\ SwitchesUncounted' \in Nat
    BY <1>1, DistanceFacts DEF SwitchesUncounted, SampleFails
  <2> QED BY <2>1 DEF SwitchBudget, SampleFails, PhoneSame, TypeOK
<1>5. TypeHasKind' /\ CountsCover' /\ pc' # "classified"
  BY DEF TypeHasKind, CountsCover, SampleFails, NoReport
<1> QED BY <1>2, <1>3, <1>4, <1>5

\* The orientation is that of the report, and needs no report before it.
LEMMA OrientationOfReport ==
  ASSUME TypeOK, TypeHasKind
  PROVE  /\ Orientation(report, summary.orientation) = report.v + 2 * report.h
         /\ Orientation(report, summary.orientation) \in 0 .. 3
<1>1. report.v \in {0, 1} /\ report.h \in {0, 1}
  BY DEF TypeOK
<1> QED BY <1>1 DEF Orientation, TypeHasKind

\* The summary counts what the report found.
LEMMA SummaryStep ==
  ASSUME HandoffInv, processNetworkReport
  PROVE  HandoffInv'
<1> USE DEF HandoffInv
<1> DEFINE one == IF report.type # 0 THEN 1 ELSE 0
           rv == report.v
           rh == report.h
<1>1. View' = View /\ device' \in Devices
  BY ReadsKeepView, SMTT(30) DEF processNetworkReport, PhoneSame
<1>2. /\ summary' = [n |-> summary.n + one, v |-> summary.v + rv, h |-> summary.h + rh,
                     orientation |-> Orientation(report, summary.orientation)]
      /\ total' = [v |-> total.v + rv, h |-> total.h + rh]
  BY DEF processNetworkReport
<1>3. /\ one \in {0, 1} /\ rv \in {0, 1} /\ rh \in {0, 1}
      /\ one = 0 <=> rv = 0 /\ rh = 0
  BY DEF TypeOK, TypeHasKind
<1>4. /\ summary.n \in Nat /\ summary.v \in Nat /\ summary.h \in Nat
      /\ total.v \in Nat /\ total.h \in Nat /\ moves \in Nat /\ switches \in Nat
  BY DEF TypeOK
<1> HIDE DEF one, rv, rh
<1>5. summary' \in [n : Nat, v : Nat, h : Nat, orientation : 0 .. 3]
      /\ total' \in [v : Nat, h : Nat]
  BY <1>2, <1>3, <1>4, OrientationOfReport, SMTT(30)
<1>6. told' \in [mCid : Names, tech : Services \cup {Empty}, n : Nat]
  BY SMTT(30) DEF processNetworkReport, TypeOK
<1>7. TypeOK'
  BY <1>1, <1>5, <1>6, SMTT(30) DEF processNetworkReport, PhoneSame, TypeOK, Devices
<1>8. CountsCover'
  BY <1>2, <1>3, <1>4, SMTT(30) DEF CountsCover
<1>9. pc = "classified" /\ pc' = "idle" /\ prev' = prev /\ radio' = radio /\ report' = report
      /\ moves' = moves /\ switches' = switches
  BY DEF processNetworkReport, PhoneSame
<1>10. CellBudget'
  <2>1. /\ CellsUncounted = rh + Distance(prev.mCid, radio.cell)
        /\ CellsUncounted' = Distance(prev.mCid, radio.cell)
    BY <1>9 DEF CellsUncounted, rh
  <2>2. Distance(prev.mCid, radio.cell) \in Nat
    BY DistanceFacts, SMTT(30)
  <2> QED BY <1>2, <1>3, <1>4, <1>9, <2>1, <2>2 DEF CellBudget
<1>11. SwitchBudget'
  <2>1. /\ SwitchesUncounted = rv + Distance(OnSA(prev.tech), OnSA(View))
        /\ SwitchesUncounted' = Distance(OnSA(prev.tech), OnSA(View))
    BY <1>1, <1>9 DEF SwitchesUncounted, rv
  <2>2. Distance(OnSA(prev.tech), OnSA(View)) \in Nat
    BY DistanceFacts
  <2> QED BY <1>2, <1>3, <1>4, <1>9, <2>1, <2>2 DEF SwitchBudget
<1>12. TypeHasKind' /\ pc' # "classified"
  BY <1>9 DEF TypeHasKind
<1> QED BY <1>7, <1>8, <1>10, <1>11, <1>12

\* Every step of the specification keeps the invariant.
LEMMA HandoffSteps == HandoffInv /\ [Next]_vars => HandoffInv'
<1> SUFFICES ASSUME HandoffInv, [Next]_vars PROVE HandoffInv'
  OBVIOUS
<1>1. ASSUME NEW link \in Links, ChangeLink(link) PROVE HandoffInv'
  BY <1>1, LinkStep
<1>2. ASSUME NEW cell \in Names, Move(cell) PROVE HandoffInv'
  BY <1>2, MoveStep
<1>3. CASE UNCHANGED vars
  BY <1>3 DEF vars, HandoffInv, TypeOK, TypeHasKind, CountsCover, CellBudget, CellsUncounted,
              SwitchBudget, SwitchesUncounted, View
<1> QED BY <1>1, <1>2, <1>3, ElsewhereStep, SessionStep, CellsStep, ServiceStep, ClassifyStep,
           FailStep, SummaryStep DEF Next, Names
-----------------------------------------------------------------------------
\* The invariant holds in every reachable state.
LEMMA HandoffInvariant == Spec => []HandoffInv
BY HandoffInit, HandoffSteps, PTL DEF Spec

\* Every variable of handoff detection keeps its type, for any set of cells and any
\* bounds: in particular the map's orientation stays one of the four of config.
THEOREM HandoffTypes == Spec => []TypeOK
<1>1. HandoffInv => TypeOK
  BY DEF HandoffInv
<1> QED BY <1>1, HandoffInvariant, PTL

\* SessionSummary: a counted handoff is vertical, horizontal or both, and only those
\* are counted, whatever the phone did.
THEOREM CountsAreCovered == Spec => []CountsCover
<1>1. HandoffInv => CountsCover
  BY DEF HandoffInv
<1> QED BY <1>1, HandoffInvariant, PTL

\* No change of the phone is counted twice, wherever it falls between the reads of
\* NetworkInfoToReport, and whichever samples fail.
THEOREM NoHandoffTwice == Spec => []NoPhantomHandoffs
<1>1. HandoffInv => NoPhantomHandoffs
  <2> SUFFICES ASSUME HandoffInv PROVE NoPhantomHandoffs
    OBVIOUS
  <2>1. CellsUncounted \in Nat /\ SwitchesUncounted \in Nat
    BY DistanceFacts DEF HandoffInv, TypeOK, CellsUncounted, SwitchesUncounted
  <2>2. total.h \in Nat /\ total.v \in Nat /\ moves \in Nat /\ switches \in Nat
    BY DEF HandoffInv, TypeOK
  <2> QED BY <2>1, <2>2 DEF HandoffInv, CellBudget, SwitchBudget, NoPhantomHandoffs
<1> QED BY <1>1, HandoffInvariant, PTL

\* processNetworkReport leaves the map marker of the report it was given.
THEOREM MarkerIsOfReport == Spec => MarkerOfReport
<1>1. HandoffInv /\ [Next]_vars
        => [pc = "classified" /\ pc' = "idle" => summary'.orientation = report.v + 2 * report.h]_vars
  <2> SUFFICES ASSUME HandoffInv, Next, pc = "classified", pc' = "idle"
               PROVE  summary'.orientation = report.v + 2 * report.h
    OBVIOUS
  <2>1. processNetworkReport
    BY DEF Next, ChangeLink, Move, ReadElsewhere, StartTracing, StopTracing, ReadCells,
           ReadService, Classify, SampleFails, ThreadSame
  <2> QED BY <2>1, OrientationOfReport DEF processNetworkReport, HandoffInv
<1> QED BY <1>1, HandoffInvariant, PTL DEF Spec, MarkerOfReport
-----------------------------------------------------------------------------
(* What is counted at the least.                                           *)

\* The report at hand shows a change to or from standalone 5G since the report
\* told last, of the kind setHandoffType has a type for.
ChangeShown ==
  /\ told.tech # Empty /\ OnSA(told.tech) # OnSA(report.tech)
  /\ told.tech = SA_NR \/ told.mCid = report.mCid

\* The next sample is compared with the report told last; once it has been, a
\* change that it shows is a vertical handoff.
SteadyInv ==
  /\ SteadyChangesCount
  /\ pc # "classified" /\ told.tech # Empty => prev.tech = told.tech /\ prev.mCid = told.mCid
  /\ pc = "classified" => prev.mCid = report.mCid /\ (ChangeShown => report.v = 1)

\* setHandoffType finds every change from standalone 5G, and a change to it in the
\* same cell.
LEMMA ChangesAreVertical ==
  ASSUME NEW nr, NEW mCid, NEW tech, NEW p, OnSA(p.tech) # OnSA(tech),
         p.tech = SA_NR \/ p.mCid = mCid
  PROVE  setHandoffType(nr, mCid, tech, p).v = 1
<1>1. CASE p.tech = SA_NR /\ tech # SA_NR
  <2>1. setHandoffType(nr, mCid, tech, p) \in {Handoff(18, 1, 1), Handoff(16, 1, 0)}
    BY <1>1 DEF setHandoffType
  <2> QED BY <2>1 DEF Handoff
<1>2. CASE p.tech # SA_NR /\ tech = SA_NR
  <2>1. setHandoffType(nr, mCid, tech, p) = Handoff(17, 1, 0)
    BY <1>2 DEF setHandoffType
  <2> QED BY <2>1 DEF Handoff
<1> QED BY <1>1, <1>2 DEF OnSA

\* A session counts no less than the changes its reports show: kept by every step.
LEMMA SteadySteps == HandoffInv /\ SteadyInv /\ [Next]_vars => SteadyInv'
<1> SUFFICES ASSUME HandoffInv, SteadyInv, [Next]_vars PROVE SteadyInv'
  OBVIOUS
<1>1. ASSUME UNCHANGED <<prev, pc, report, summary, told>> PROVE SteadyInv'
  BY <1>1, ZenonT(60) DEF SteadyInv, SteadyChangesCount, ChangeShown
<1>2. ASSUME NEW link \in Links, ChangeLink(link) PROVE SteadyInv'
  BY <1>1, <1>2, ZenonT(60) DEF ChangeLink, ThreadSame
<1>3. ASSUME NEW cell \in Cells \cup {Empty}, Move(cell) PROVE SteadyInv'
  BY <1>1, <1>3, ZenonT(60) DEF Move, ThreadSame
<1>4. CASE ReadElsewhere
  BY <1>1, <1>4, ZenonT(60) DEF ReadElsewhere, ThreadSame
<1>5. CASE UNCHANGED vars
  BY <1>1, <1>5, ZenonT(60) DEF vars
<1>6. CASE StartTracing
  BY <1>6 DEF StartTracing, SteadyInv, SteadyChangesCount, NewSummary, NothingTold
<1>7. CASE StopTracing \/ ReadCells \/ ReadService \/ SampleFails
  <2>1. /\ UNCHANGED <<prev, summary, told>> /\ pc # "classified" /\ pc' # "classified"
    BY <1>7 DEF StopTracing, ReadCells, ReadService, SampleFails
  <2> QED BY <2>1, ZenonT(60) DEF SteadyInv, SteadyChangesCount
<1>8. CASE Classify
  <2> DEFINE found == setHandoffType(setNrStatus, report.mCid, report.tech, prev)
  <2>1. /\ UNCHANGED <<summary, told>> /\ pc = "service" /\ pc' = "classified"
        /\ report' = [report EXCEPT !.type = found.type, !.v = found.v, !.h = found.h]
    BY <1>8, ZenonT(60) DEF Classify
  <2>2. prev'.mCid = report.mCid
    BY <1>8 DEF Classify, Remember
  <2>3. report'.mCid = report.mCid /\ report'.tech = report.tech /\ report'.v = found.v
    BY <2>1 DEF HandoffInv, TypeOK
  <2>4. ChangeShown => found.v = 1
    BY <2>1, ChangesAreVertical DEF SteadyInv, ChangeShown
  <2>5. ChangeShown' <=> ChangeShown
    BY <2>1, <2>3, ZenonT(60) DEF ChangeShown
  <2> QED BY <2>1, <2>2, <2>3, <2>4, <2>5 DEF SteadyInv, SteadyChangesCount
<1>9. CASE processNetworkReport
  <2>1. /\ UNCHANGED prev /\ pc = "classified" /\ pc' = "idle"
        /\ summary'.v = summary.v + report.v
        /\ told'.mCid = report.mCid
        /\ told'.tech # Empty => told'.tech = prev.tech
        /\ told'.n = IF ChangeShown THEN told.n + 1 ELSE told.n
    BY <1>9 DEF processNetworkReport, ChangeShown
  <2>2. summary.v \in Nat /\ told.n \in Nat /\ report.v \in {0, 1}
    BY SMTT(30) DEF HandoffInv, TypeOK
  <2>3. SteadyChangesCount'
    BY <2>1, <2>2 DEF SteadyInv, SteadyChangesCount
  <2> QED BY <2>1, <2>3, SMTT(30) DEF SteadyInv
<1> QED BY <1>2, <1>3, <1>4, <1>5, <1>6, <1>7, <1>8, <1>9 DEF Next

\* SessionSummary misses no change to or from standalone 5G between two reports of a
\* session of the kinds setHandoffType knows, however the phone changes between the
\* reads of a sample, whichever samples fail, and whatever earlier sessions left.
THEOREM SteadyChangesAreCounted == Spec => []SteadyChangesCount
<1>1. Init => SteadyInv
  BY DEF Init, SteadyInv, SteadyChangesCount, NewSummary, NothingTold
<1>2. SteadyInv => SteadyChangesCount
  BY DEF SteadyInv
<1> QED BY <1>1, <1>2, HandoffInvariant, SteadySteps, PTL DEF Spec
==============================================================================
