---------------------------- MODULE ProbeProofs ----------------------------
(* Proofs about the native probes, for any number of packets, losses and doubled       *)
(* datagrams: what ends the process in an exception (CrashExplained), and that the     *)
(* numbers stay in step with what they number (NumbersInStep).                         *)
EXTENDS Probes, TLAPS

Numbers == 0..MaxPackets
Up == [kind : {"Test1", "Test2_ACK", "ack", "data", "end"}, no : Numbers, copy : Nat]
Down == [kind : {"hello", "ack", "data", "end"}, no : Numbers, copy : Nat]
Counters == [recv : Nat, send : Nat]
Readings == [got : Numbers, now : Numbers \cup {-1}, n1 : Counters, n2 : Counters,
             before : Counters, after : Counters, yep : Seq(Numbers)]
Stages == {"start", "hello1", "hello2", "helloAck", "read", "ack", "joinSender", "joinReceiver", "close",
           "done", "dead", "crashed", "sampleProc", "sampleRx", "sampleTx", "echo", "resampleProc",
           "resampleRx", "resampleTx"}

ControlTypes ==
  /\ mode \in Modes /\ main \in Stages
  /\ sender \in {"none", "loop", "done", "dead"}
  /\ receiver \in {"none", "loop", "wait", "done", "dead"}
  /\ running \in BOOLEAN /\ open \in BOOLEAN /\ stopped \in BOOLEAN
  /\ main = "ack" => mode = "down"
  /\ Threads => mode = "up"

NetworkTypes ==
  /\ server \in [phase : {"idle", "run", "ended"}, sent : Numbers]
  /\ toServer \subseteq Up /\ toClient \subseteq Down /\ doubles \in Nat

LogTypes ==
  /\ inbox \in Seq(Down) /\ logged \in Seq(Down)
  /\ seqNo \in Nat \ {0}
  /\ main = "ack" => logged # <<>>

RrcTypes ==
  /\ rrc \in Readings
  /\ rx \in Nat /\ tx \in Nat

Types == ControlTypes /\ NetworkTypes /\ LogTypes /\ RrcTypes

Waiting == {inbox[i] : i \in DOMAIN inbox}
Coming == toClient \cup Waiting
Test1 == Datagram("Test1", 0, 1)
Asked == \E d \in toServer : d.kind = "Test1"
Hellos == {Datagram("hello", 0, 1), Datagram("hello", 0, 2)}

\* No datagram at the socket is there twice or also still on the way.
Once ==
  /\ \A i, j \in DOMAIN inbox : i # j => inbox[i] # inbox[j]
  /\ \A i \in DOMAIN inbox : inbox[i] \notin toClient

\* The handshake without doubled datagrams: the server answers one Test1 with two, one is
\* left after the first read and none after the second.
Handshake ==
  /\ main = "start" => toServer = {} /\ Coming = {}
  /\ main \in {"start", "hello1", "hello2", "helloAck"} =>
       server.phase = "idle" /\ toServer \subseteq {Test1}
  /\ Asked => main = "hello1" /\ Coming = {}
  /\ main \in {"hello1", "hello2"} => Once /\ Coming \subseteq Hellos
  /\ main = "hello2" => \A d, e \in Coming : d = e
  /\ main = "helloAck" => Coming = {}
  /\ main \notin {"start", "hello1", "hello2"} => \A d \in Coming : d.kind # "hello"

\* Neither the user nor a doubled datagram has disturbed the probe.
Calm == ~stopped /\ doubles = 0

OpenInv == ~open => stopped \/ main = "done"

HandshakeInv == Calm => Handshake /\ main # "crashed"

\* The next acknowledgement has the number of the line logged last, or of the line to come.
AckInv ==
  mode = "down" =>
    /\ main = "ack" => seqNo = Len(logged)
    /\ main \in {"start", "hello1", "hello2", "helloAck", "read"} => seqNo = Len(logged) + 1
    /\ \A d \in toServer : d.kind = "ack" => d.copy \in 1..Len(logged) /\ logged[d.copy].no = d.no

YepInv ==
  /\ \A i \in DOMAIN rrc.yep : rrc.yep[i] <= rrc.now
  /\ \A i, j \in DOMAIN rrc.yep : i < j => rrc.yep[i] < rrc.yep[j]

---------------------------------------------------------------------------
(* Types. *)

\* The probe starts with typed variables.
LEMMA InitTypes == Init => Types
  <1> SUFFICES ASSUME Init PROVE Types
    OBVIOUS
  <1> USE ModesAssumption, BoundsAssumption DEF Init, Numbers
  <1>1. ControlTypes
    BY ZenonT(60) DEF ControlTypes, Stages, Threads
  <1>2. NetworkTypes
    BY DEF NetworkTypes
  <1>3. LogTypes
    BY DEF LogTypes
  <1>4. RrcTypes
    BY DEF RrcTypes, Readings, Samples, Counters
  <1> QED
    BY <1>1, <1>2, <1>3, <1>4, ZenonT(60) DEF Types

\* Where the threads are.
LEMMA NextControlTypes == ControlTypes /\ [Next]_vars => ControlTypes'
  <1> SUFFICES ASSUME ControlTypes, [Next]_vars PROVE ControlTypes'
    OBVIOUS
  <1> USE DEF ControlTypes, Threads
  <1>1. CASE Hello
    BY <1>1 DEF Hello, threads, network, counters, Stages
  <1>2. CASE AwaitHello
    BY <1>2 DEF AwaitHello, threads, network, counters, Stages
  <1>3. CASE HelloAck
    BY <1>3, ModesAssumption DEF HelloAck, threads, network, counters, Stages
  <1>4. CASE DownRead
    BY <1>4 DEF DownRead, threads, network, counters, Take, Stages
  <1>5. CASE DownAck
    BY <1>5 DEF DownAck, threads, network, counters, Stages
  <1>6. CASE Join
    BY <1>6 DEF Join, threads, network, counters, Stages
  <1>7. CASE Close
    BY <1>7, ZenonT(60) DEF Close, threads, network, counters, Stages
  <1>8. CASE RrcRead
    BY <1>8 DEF RrcRead, threads, network, counters, RrcStep, RrcOther, Stages
  <1>9. CASE RrcSample
    BY <1>9 DEF RrcSample, threads, network, counters, RrcStep, RrcOther, Stages
  <1>10. CASE RrcEcho
    BY <1>10 DEF RrcEcho, threads, network, counters, RrcStep, RrcOther, Stages
  <1>11. CASE Crash
    BY <1>11 DEF Crash, threads, network, counters, Stages
  <1>12. CASE SendPacket
    BY <1>12 DEF SendPacket, threads, network, counters
  <1>13. CASE SendEnd
    BY <1>13, ZenonT(60) DEF SendEnd, threads, network, counters
  <1>14. CASE ReceiverTest
    BY <1>14 DEF ReceiverTest, threads, network, counters
  <1>15. CASE ReceiverRead
    BY <1>15 DEF ReceiverRead, threads, network, counters, Take
  <1>16. CASE ReceiverTimeout
    BY <1>16 DEF ReceiverTimeout, threads, network, counters
  <1>17. CASE ServerTakes
    BY <1>17, ZenonT(60) DEF ServerTakes, threads, network, counters, Client
  <1>18. CASE Arrive
    BY <1>18, ZenonT(60) DEF Arrive, threads, network, counters
  <1>19. CASE Stop
    BY <1>19, ZenonT(60) DEF Stop, threads, network, counters
  <1>20. CASE ServerSends
    BY <1>20, ZenonT(60) DEF ServerSends, threads, network, counters, Client
  <1>21. CASE Lose
    BY <1>21, ZenonT(60) DEF Lose, threads, network, counters, Client
  <1>22. CASE Background
    BY <1>22, ZenonT(60) DEF Background, threads, network, counters
  <1>23. CASE UNCHANGED vars
    BY <1>23, ZenonT(60) DEF vars, threads, network, counters
  <1> QED
    BY <1>1, <1>2, <1>3, <1>4, <1>5, <1>6, <1>7, <1>8, <1>9, <1>10, <1>11, <1>12, <1>13, <1>14,
       <1>15, <1>16, <1>17, <1>18, <1>19, <1>20, <1>21, <1>22, <1>23, ZenonT(60) DEF Next, Main, Sender,
       Receiver, Environment

\* Datagrams have the kinds and numbers that their senders give them.
LEMMA NextNetworkTypes == Types /\ [Next]_vars => NetworkTypes'
  <1> SUFFICES ASSUME Types, [Next]_vars PROVE NetworkTypes'
    OBVIOUS
  <1> USE DEF Types, NetworkTypes
  <1>1. CASE Hello
    BY <1>1, BoundsAssumption DEF Hello, threads, network, counters, Sent, Datagram, Up, Numbers
  <1>2. CASE AwaitHello
    BY <1>2, ZenonT(60) DEF AwaitHello, threads, network, counters
  <1>3. CASE HelloAck
    BY <1>3, BoundsAssumption DEF HelloAck, threads, network, counters, Sent, Datagram, Up, Numbers
  <1>4. CASE DownRead
    BY <1>4, ZenonT(60) DEF DownRead, threads, network, counters, Take
  <1>5. CASE DownAck
    <2>1. logged[Len(logged)] \in Down
      BY <1>5 DEF DownAck, LogTypes
    <2>2. Datagram("ack", logged[Len(logged)].no, seqNo) \in Up
      BY <2>1 DEF LogTypes, Datagram, Up, Down
    <2>3. UNCHANGED <<server, toClient, doubles>>
      BY <1>5, ZenonT(60) DEF DownAck, threads, network, counters
    <2>4. toServer' \subseteq Up
      BY <1>5, <2>2, ZenonT(60) DEF DownAck, Sent
    <2> QED
      BY <2>3, <2>4, ZenonT(60)
  <1>6. CASE Join
    BY <1>6, ZenonT(60) DEF Join, threads, network, counters
  <1>7. CASE Close
    BY <1>7, ZenonT(60) DEF Close, threads, network, counters
  <1>8. CASE RrcRead
    BY <1>8, ZenonT(60) DEF RrcRead, threads, network, counters, RrcStep, RrcOther
  <1>9. CASE RrcSample
    BY <1>9, ZenonT(60) DEF RrcSample, threads, network, counters, RrcStep, RrcOther
  <1>10. CASE RrcEcho
    BY <1>10, ZenonT(60) DEF RrcEcho, threads, network, counters, RrcStep, RrcOther
  <1>11. CASE Crash
    BY <1>11, ZenonT(60) DEF Crash, threads, network, counters
  <1>12. CASE SendPacket
    BY <1>12, BoundsAssumption, SMTT(30) DEF SendPacket, threads, network, counters, Sent, Datagram, Up,
       Down, Numbers, LogTypes
  <1>13. CASE SendEnd
    BY <1>13, BoundsAssumption DEF SendEnd, threads, network, counters, Ends, Datagram, Up, Down,
       Numbers, Answer
  <1>14. CASE ReceiverTest
    BY <1>14, ZenonT(60) DEF ReceiverTest, threads, network, counters
  <1>15. CASE ReceiverRead
    BY <1>15, ZenonT(60) DEF ReceiverRead, threads, network, counters, Take
  <1>16. CASE ReceiverTimeout
    BY <1>16, ZenonT(60) DEF ReceiverTimeout, threads, network, counters
  <1>17. CASE ServerTakes
    BY <1>17, BoundsAssumption DEF ServerTakes, threads, network, counters, Client, Ends, Datagram,
       Up, Down, Numbers, Answer
  <1>18. CASE Arrive
    BY <1>18 DEF Arrive, threads, network, counters
  <1>19. CASE Stop
    BY <1>19, ZenonT(60) DEF Stop, threads, network, counters
  <1>20. CASE ServerSends
    BY <1>20, BoundsAssumption DEF ServerSends, threads, network, counters, Client, Ends, Datagram,
       Up, Down, Numbers, Answer
  <1>21. CASE Lose
    BY <1>21 DEF Lose, threads, network, counters, Client
  <1>22. CASE Background
    BY <1>22, ZenonT(60) DEF Background, threads, network, counters
  <1>23. CASE UNCHANGED vars
    BY <1>23, ZenonT(60) DEF vars, threads, network, counters
  <1> QED
    BY <1>1, <1>2, <1>3, <1>4, <1>5, <1>6, <1>7, <1>8, <1>9, <1>10, <1>11, <1>12, <1>13, <1>14,
       <1>15, <1>16, <1>17, <1>18, <1>19, <1>20, <1>21, <1>22, <1>23, ZenonT(60) DEF Next, Main, Sender,
       Receiver, Environment

\* The socket and the log hold datagrams of the server.
LEMMA NextLogTypes == Types /\ [Next]_vars => LogTypes'
  <1> SUFFICES ASSUME Types, [Next]_vars PROVE LogTypes'
    OBVIOUS
  <1> USE DEF Types, LogTypes
  <1>1. CASE Hello
    BY <1>1 DEF Hello, threads, network, counters, NetworkTypes, ControlTypes
  <1>2. CASE AwaitHello
    BY <1>2 DEF AwaitHello, threads, network, counters, NetworkTypes, ControlTypes
  <1>3. CASE HelloAck
    <2>1. main' # "ack"
      BY <1>3, ModesAssumption DEF HelloAck, ControlTypes
    <2> QED
      BY <1>3, <2>1, ZenonT(60) DEF HelloAck, threads, network, counters
  <1>4. CASE DownRead
    BY <1>4, SMTT(30) DEF DownRead, threads, network, counters, Take, NetworkTypes, ControlTypes
  <1>5. CASE DownAck
    BY <1>5 DEF DownAck, threads, network, counters, NetworkTypes, ControlTypes
  <1>6. CASE Join
    BY <1>6 DEF Join, threads, network, counters, NetworkTypes, ControlTypes
  <1>7. CASE Close
    BY <1>7 DEF Close, threads, network, counters, NetworkTypes, ControlTypes
  <1>8. CASE RrcRead
    BY <1>8 DEF RrcRead, threads, network, counters, RrcStep, RrcOther, NetworkTypes, ControlTypes
  <1>9. CASE RrcSample
    BY <1>9 DEF RrcSample, threads, network, counters, RrcStep, RrcOther, NetworkTypes, ControlTypes
  <1>10. CASE RrcEcho
    BY <1>10 DEF RrcEcho, threads, network, counters, RrcStep, RrcOther, NetworkTypes, ControlTypes
  <1>11. CASE Crash
    BY <1>11 DEF Crash, threads, network, counters, NetworkTypes, ControlTypes
  <1>12. CASE SendPacket
    BY <1>12 DEF SendPacket, threads, network, counters, NetworkTypes, ControlTypes
  <1>13. CASE SendEnd
    BY <1>13, ZenonT(60) DEF SendEnd, threads, network, counters
  <1>14. CASE ReceiverTest
    BY <1>14, ZenonT(60) DEF ReceiverTest, threads, network, counters
  <1>15. CASE ReceiverRead
    BY <1>15 DEF ReceiverRead, threads, network, counters, Take, NetworkTypes, ControlTypes
  <1>16. CASE ReceiverTimeout
    BY <1>16, ZenonT(60) DEF ReceiverTimeout, threads, network, counters
  <1>17. CASE ServerTakes
    BY <1>17, ZenonT(60) DEF ServerTakes, threads, network, counters, Client
  <1>18. CASE Arrive
    BY <1>18 DEF Arrive, threads, network, counters, NetworkTypes, ControlTypes
  <1>19. CASE Stop
    BY <1>19, ZenonT(60) DEF Stop, threads, network, counters
  <1>20. CASE ServerSends
    BY <1>20, ZenonT(60) DEF ServerSends, threads, network, counters, Client
  <1>21. CASE Lose
    BY <1>21, ZenonT(60) DEF Lose, threads, network, counters, Client
  <1>22. CASE Background
    BY <1>22, ZenonT(60) DEF Background, threads, network, counters
  <1>23. CASE UNCHANGED vars
    BY <1>23, ZenonT(60) DEF vars, threads, network, counters
  <1> QED
    BY <1>1, <1>2, <1>3, <1>4, <1>5, <1>6, <1>7, <1>8, <1>9, <1>10, <1>11, <1>12, <1>13, <1>14,
       <1>15, <1>16, <1>17, <1>18, <1>19, <1>20, <1>21, <1>22, <1>23, ZenonT(60) DEF Next, Main, Sender,
       Receiver, Environment

\* The variables of the rrc probe are numbers of packets and of the counters.
LEMMA NextRrcTypes == Types /\ [Next]_vars => RrcTypes'
  <1> SUFFICES ASSUME Types, [Next]_vars PROVE RrcTypes'
    OBVIOUS
  <1> USE DEF Types, RrcTypes
  <1>1. CASE Hello
    BY <1>1, ZenonT(60) DEF Hello, threads, network, counters
  <1>2. CASE AwaitHello
    BY <1>2, ZenonT(60) DEF AwaitHello, threads, network, counters
  <1>3. CASE HelloAck
    BY <1>3, ZenonT(60) DEF HelloAck, threads, network, counters
  <1>4. CASE DownRead
    BY <1>4, ZenonT(60) DEF DownRead, threads, network, counters, Take
  <1>5. CASE DownAck
    BY <1>5, ZenonT(60) DEF DownAck, threads, network, counters
  <1>6. CASE Join
    BY <1>6, ZenonT(60) DEF Join, threads, network, counters
  <1>7. CASE Close
    BY <1>7, ZenonT(60) DEF Close, threads, network, counters
  <1>8. CASE RrcRead
    <2>1. UNCHANGED <<rx, tx>>
      BY <1>8, ZenonT(60) DEF RrcRead, threads, network, counters, RrcStep, RrcOther
    <2>2. CASE open
      <3>1. Head(inbox).no \in Numbers
        <4>1. inbox \in Seq(Down) /\ inbox # <<>>
          BY <1>8, <2>2, ZenonT(60) DEF RrcRead, LogTypes
        <4>2. Head(inbox) \in Down
          BY <4>1
        <4> QED
          BY <4>2 DEF Down
      <3>2. rrc' = [rrc EXCEPT !.got = Head(inbox).no]
        BY <1>8, <2>2, ZenonT(60) DEF RrcRead
      <3> QED
        BY <2>1, <3>1, <3>2, SMTT(30) DEF Readings
    <2>3. CASE ~open
      BY <1>8, <2>1, <2>3, ZenonT(60) DEF RrcRead
    <2> QED
      BY <2>2, <2>3, ZenonT(60)
  <1>9. CASE RrcSample
    <2>1. UNCHANGED <<rx, tx>>
      BY <1>9, ZenonT(60) DEF RrcSample, threads, network, counters, RrcStep, RrcOther
    <2>2. \/ rrc' = [rrc EXCEPT !.n2 = Samples(rx, tx)] \/ rrc' = [rrc EXCEPT !.n1 = Samples(rx, tx)]
          \/ rrc' = [rrc EXCEPT !.after.recv = rx] \/ rrc' = [rrc EXCEPT !.after.send = tx]
          \/ rrc' = [rrc EXCEPT !.before.recv = rx] \/ rrc' = [rrc EXCEPT !.before.send = tx]
      BY <1>9, ZenonT(60) DEF RrcSample
    <2>3. CASE rrc' = [rrc EXCEPT !.n2 = Samples(rx, tx)]
      BY <2>1, <2>3, ZenonT(60) DEF Readings, Samples, Counters
    <2>4. CASE rrc' = [rrc EXCEPT !.n1 = Samples(rx, tx)]
      BY <2>1, <2>4, SMTT(30) DEF Readings, Samples, Counters
    <2>5. CASE rrc' = [rrc EXCEPT !.after.recv = rx]
      BY <2>1, <2>5, SMTT(30) DEF Readings, Samples, Counters
    <2>6. CASE rrc' = [rrc EXCEPT !.after.send = tx]
      BY <2>1, <2>6, ZenonT(60) DEF Readings, Samples, Counters
    <2>7. CASE rrc' = [rrc EXCEPT !.before.recv = rx]
      BY <2>1, <2>7, ZenonT(60) DEF Readings, Samples, Counters
    <2>8. CASE rrc' = [rrc EXCEPT !.before.send = tx]
      BY <2>1, <2>8, SMTT(30) DEF Readings, Samples, Counters
    <2> QED
      BY <2>2, <2>3, <2>4, <2>5, <2>6, <2>7, <2>8, ZenonT(60)
  <1>10. CASE RrcEcho
    <2>1. rx' \in Nat /\ tx' \in Nat
      BY <1>10 DEF RrcEcho
    <2> DEFINE yep == IF open /\ Yep THEN Append(rrc.yep, rrc.got) ELSE rrc.yep
               now == IF rrc.got > rrc.now THEN rrc.got ELSE rrc.now
    <2>2. yep \in Seq(Numbers) /\ now \in Numbers \cup {-1}
      BY DEF Readings
    <2>3. rrc' = [rrc EXCEPT !.yep = yep, !.now = now]
      BY <1>10, ZenonT(60) DEF RrcEcho
    <2> HIDE DEF yep, now
    <2>4. rrc' \in Readings
      BY <2>2, <2>3, ZenonT(60) DEF Readings
    <2> QED
      BY <2>1, <2>4, ZenonT(60)
  <1>11. CASE Crash
    BY <1>11, ZenonT(60) DEF Crash, threads, network, counters
  <1>12. CASE SendPacket
    BY <1>12, ZenonT(60) DEF SendPacket, threads, network, counters
  <1>13. CASE SendEnd
    BY <1>13, ZenonT(60) DEF SendEnd, threads, network, counters
  <1>14. CASE ReceiverTest
    BY <1>14, ZenonT(60) DEF ReceiverTest, threads, network, counters
  <1>15. CASE ReceiverRead
    BY <1>15, ZenonT(60) DEF ReceiverRead, threads, network, counters, Take
  <1>16. CASE ReceiverTimeout
    BY <1>16, ZenonT(60) DEF ReceiverTimeout, threads, network, counters
  <1>17. CASE ServerTakes
    BY <1>17, ZenonT(60) DEF ServerTakes, threads, network, counters, Client
  <1>18. CASE Arrive
    BY <1>18 DEF Arrive, threads, network, counters
  <1>19. CASE Stop
    BY <1>19, ZenonT(60) DEF Stop, threads, network, counters
  <1>20. CASE ServerSends
    BY <1>20, ZenonT(60) DEF ServerSends, threads, network, counters, Client
  <1>21. CASE Lose
    BY <1>21, ZenonT(60) DEF Lose, threads, network, counters, Client
  <1>22. CASE Background
    BY <1>22 DEF Background, threads, network, counters
  <1>23. CASE UNCHANGED vars
    BY <1>23, ZenonT(60) DEF vars, threads, network, counters
  <1> QED
    BY <1>1, <1>2, <1>3, <1>4, <1>5, <1>6, <1>7, <1>8, <1>9, <1>10, <1>11, <1>12, <1>13, <1>14,
       <1>15, <1>16, <1>17, <1>18, <1>19, <1>20, <1>21, <1>22, <1>23, ZenonT(60) DEF Next, Main, Sender,
       Receiver, Environment

\* Every step of the probe, its threads, the server and the network keeps them typed.
LEMMA NextTypes == Types /\ [Next]_vars => Types'
  BY NextControlTypes, NextNetworkTypes, NextLogTypes, NextRrcTypes, ZenonT(60) DEF Types

---------------------------------------------------------------------------
(* What ends the process. *)

\* A stop and a doubled datagram are not undone.
LEMMA NextCalm == Types /\ [Next]_vars /\ Calm' => Calm
  <1> SUFFICES ASSUME Types, [Next]_vars, Calm' PROVE Calm
    OBVIOUS
  <1> USE DEF Calm
  <1>1. CASE Hello
    BY <1>1, ZenonT(60) DEF Hello, threads, network, counters
  <1>2. CASE AwaitHello
    BY <1>2, ZenonT(60) DEF AwaitHello, threads, network, counters
  <1>3. CASE HelloAck
    BY <1>3, ZenonT(60) DEF HelloAck, threads, network, counters
  <1>4. CASE DownRead
    BY <1>4, ZenonT(60) DEF DownRead, threads, network, counters, Take
  <1>5. CASE DownAck
    BY <1>5, ZenonT(60) DEF DownAck, threads, network, counters
  <1>6. CASE Join
    BY <1>6, ZenonT(60) DEF Join, threads, network, counters
  <1>7. CASE Close
    BY <1>7, ZenonT(60) DEF Close, threads, network, counters
  <1>8. CASE RrcRead
    BY <1>8, ZenonT(60) DEF RrcRead, threads, network, counters, RrcStep, RrcOther
  <1>9. CASE RrcSample
    BY <1>9, ZenonT(60) DEF RrcSample, threads, network, counters, RrcStep, RrcOther
  <1>10. CASE RrcEcho
    BY <1>10, ZenonT(60) DEF RrcEcho, threads, network, counters, RrcStep, RrcOther
  <1>11. CASE Crash
    BY <1>11, ZenonT(60) DEF Crash, threads, network, counters
  <1>12. CASE SendPacket
    BY <1>12, ZenonT(60) DEF SendPacket, threads, network, counters
  <1>13. CASE SendEnd
    BY <1>13, ZenonT(60) DEF SendEnd, threads, network, counters
  <1>14. CASE ReceiverTest
    BY <1>14, ZenonT(60) DEF ReceiverTest, threads, network, counters
  <1>15. CASE ReceiverRead
    BY <1>15, ZenonT(60) DEF ReceiverRead, threads, network, counters, Take
  <1>16. CASE ReceiverTimeout
    BY <1>16, ZenonT(60) DEF ReceiverTimeout, threads, network, counters
  <1>17. CASE ServerTakes
    BY <1>17 DEF ServerTakes, threads, network, counters, Client, Types, NetworkTypes
  <1>18. CASE Arrive
    BY <1>18 DEF Arrive, threads, network, counters, Types, NetworkTypes
  <1>19. CASE Stop
    BY <1>19, ZenonT(60) DEF Stop, threads, network, counters
  <1>20. CASE ServerSends
    BY <1>20, ZenonT(60) DEF ServerSends, threads, network, counters, Client
  <1>21. CASE Lose
    BY <1>21 DEF Lose, threads, network, counters, Client, Types, NetworkTypes
  <1>22. CASE Background
    BY <1>22, ZenonT(60) DEF Background, threads, network, counters
  <1>23. CASE UNCHANGED vars
    BY <1>23, ZenonT(60) DEF vars, threads, network, counters
  <1> QED
    BY <1>1, <1>2, <1>3, <1>4, <1>5, <1>6, <1>7, <1>8, <1>9, <1>10, <1>11, <1>12, <1>13, <1>14,
       <1>15, <1>16, <1>17, <1>18, <1>19, <1>20, <1>21, <1>22, <1>23, ZenonT(60) DEF Next, Main, Sender,
       Receiver, Environment

\* Only Stop and the end of the probe close the socket.
LEMMA NextOpen == OpenInv /\ [Next]_vars => OpenInv'
  <1> SUFFICES ASSUME OpenInv, [Next]_vars PROVE OpenInv'
    OBVIOUS
  <1> USE DEF OpenInv
  <1>1. CASE Hello
    BY <1>1 DEF Hello, threads, network, counters
  <1>2. CASE AwaitHello
    BY <1>2 DEF AwaitHello, threads, network, counters
  <1>3. CASE HelloAck
    BY <1>3 DEF HelloAck, threads, network, counters
  <1>4. CASE DownRead
    BY <1>4 DEF DownRead, threads, network, counters, Take
  <1>5. CASE DownAck
    BY <1>5 DEF DownAck, threads, network, counters
  <1>6. CASE Join
    BY <1>6 DEF Join, threads, network, counters
  <1>7. CASE Close
    BY <1>7 DEF Close, threads, network, counters
  <1>8. CASE RrcRead
    BY <1>8 DEF RrcRead, threads, network, counters, RrcStep, RrcOther
  <1>9. CASE RrcSample
    BY <1>9 DEF RrcSample, threads, network, counters, RrcStep, RrcOther
  <1>10. CASE RrcEcho
    BY <1>10 DEF RrcEcho, threads, network, counters, RrcStep, RrcOther
  <1>11. CASE Crash
    BY <1>11 DEF Crash, threads, network, counters
  <1>12. CASE SendPacket
    BY <1>12, ZenonT(60) DEF SendPacket, threads, network, counters
  <1>13. CASE SendEnd
    BY <1>13, ZenonT(60) DEF SendEnd, threads, network, counters
  <1>14. CASE ReceiverTest
    BY <1>14, ZenonT(60) DEF ReceiverTest, threads, network, counters
  <1>15. CASE ReceiverRead
    BY <1>15, ZenonT(60) DEF ReceiverRead, threads, network, counters, Take
  <1>16. CASE ReceiverTimeout
    BY <1>16, ZenonT(60) DEF ReceiverTimeout, threads, network, counters
  <1>17. CASE ServerTakes
    BY <1>17 DEF ServerTakes, threads, network, counters, Client
  <1>18. CASE Arrive
    BY <1>18 DEF Arrive, threads, network, counters
  <1>19. CASE Stop
    BY <1>19 DEF Stop, threads, network, counters
  <1>20. CASE ServerSends
    BY <1>20, ZenonT(60) DEF ServerSends, threads, network, counters, Client
  <1>21. CASE Lose
    BY <1>21 DEF Lose, threads, network, counters, Client
  <1>22. CASE Background
    BY <1>22, ZenonT(60) DEF Background, threads, network, counters
  <1>23. CASE UNCHANGED vars
    BY <1>23, ZenonT(60) DEF vars, threads, network, counters
  <1> QED
    BY <1>1, <1>2, <1>3, <1>4, <1>5, <1>6, <1>7, <1>8, <1>9, <1>10, <1>11, <1>12, <1>13, <1>14,
       <1>15, <1>16, <1>17, <1>18, <1>19, <1>20, <1>21, <1>22, <1>23, ZenonT(60) DEF Next, Main, Sender,
       Receiver, Environment

\* A handshake without doubled datagrams leaves no datagram of its own behind.
LEMMA NextHandshake == Types /\ OpenInv /\ HandshakeInv /\ [Next]_vars => HandshakeInv'
  <1> SUFFICES ASSUME Types, OpenInv, HandshakeInv, [Next]_vars PROVE HandshakeInv'
    OBVIOUS
  <1> SUFFICES ASSUME Calm' PROVE (Handshake /\ main # "crashed")'
    BY ZenonT(60) DEF HandshakeInv
  <1>a. Calm
    BY NextCalm, ZenonT(60)
  <1>b. Handshake /\ main # "crashed"
    BY <1>a, ZenonT(60) DEF HandshakeInv
  <1>c. open \/ main = "done"
    BY <1>a, ZenonT(60) DEF OpenInv, Calm
  <1>d. Calm'
    OBVIOUS
  <1>1. CASE Hello
    <2>1. toServer = {} /\ Coming = {} /\ server.phase = "idle"
      BY <1>1, <1>b, ZenonT(60) DEF Hello, Handshake
    <2>2. main' = "hello1" /\ toServer' \subseteq {Test1}
      BY <1>1, <2>1, ZenonT(60) DEF Hello, Sent, Test1
    <2>3. UNCHANGED <<inbox, toClient, server>>
      BY <1>1, ZenonT(60) DEF Hello, threads, network, counters
    <2>4. DOMAIN inbox = {} /\ Coming' = {}
      BY <2>1, <2>3, ZenonT(60) DEF Coming, Waiting
    <2> QED
      BY <2>1, <2>2, <2>3, <2>4 DEF Handshake, Once
  <1>2. CASE AwaitHello
    <2>1. inbox # <<>> /\ inbox' = Tail(inbox) /\ inbox \in Seq(Down)
      BY <1>2, <1>c DEF AwaitHello, Types, LogTypes
    <2>2. UNCHANGED <<toServer, toClient, server>>
      BY <1>2, ZenonT(60) DEF AwaitHello, threads, network, counters
    <2>3. Once /\ Coming \subseteq Hellos /\ server.phase = "idle" /\ toServer \subseteq {Test1}
      BY <1>2, <1>b, ZenonT(60) DEF AwaitHello, Handshake
    <2>4. 1 \in DOMAIN inbox /\ inbox[1] \in Coming
      BY <2>1 DEF Coming, Waiting
    <2>5. ~Asked
      BY <1>b, <2>4 DEF Handshake
    <2>6. \A i \in DOMAIN inbox' : i + 1 \in DOMAIN inbox /\ i + 1 # 1 /\ inbox'[i] = inbox[i + 1]
      BY <2>1
    <2>7. \A d \in Coming' : d \in Coming /\ d # inbox[1]
      <3> SUFFICES ASSUME NEW d \in Coming' PROVE d \in Coming /\ d # inbox[1]
        OBVIOUS
      <3>1. CASE d \in toClient
        BY <2>3, <2>4, <3>1, ZenonT(60) DEF Coming, Once
      <3>2. CASE \E i \in DOMAIN inbox' : d = inbox'[i]
        <4>1. PICK i \in DOMAIN inbox' : d = inbox'[i]
          BY <3>2
        <4> QED
          BY <2>3, <2>4, <2>6, <4>1, ZenonT(60) DEF Coming, Waiting, Once
      <3> QED
        BY <2>2, <3>1, <3>2, ZenonT(60) DEF Coming, Waiting
    <2>8. Once'
      <3>1. \A i, j \in DOMAIN inbox' : i # j => inbox'[i] # inbox'[j]
        BY <2>1, <2>3 DEF Once
      <3>2. \A i \in DOMAIN inbox' : inbox'[i] \notin toClient'
        BY <2>2, <2>3, <2>6, ZenonT(60) DEF Once
      <3> QED
        BY <3>1, <3>2, ZenonT(60) DEF Once
    <2>9. CASE main = "hello1"
      <3>1. main' = "hello2"
        BY <1>2, <2>9, ZenonT(60) DEF AwaitHello
      <3>2. \A d, e \in Coming' : d = e
        BY <2>3, <2>4, <2>7, ZenonT(60) DEF Hellos
      <3> QED
        BY <2>2, <2>3, <2>5, <2>7, <2>8, <3>1, <3>2 DEF Handshake, Asked
    <2>10. CASE main = "hello2"
      <3>1. main' = "helloAck"
        BY <1>2, <2>10 DEF AwaitHello
      <3>2. Coming' = {}
        BY <1>b, <2>4, <2>7, <2>10, ZenonT(60) DEF Handshake
      <3> QED
        BY <2>2, <2>3, <2>5, <3>1, <3>2 DEF Handshake, Asked
    <2> QED
      BY <1>2, <2>9, <2>10, ZenonT(60) DEF AwaitHello
  <1>3. CASE HelloAck
    <2>1. Coming = {} /\ ~Asked
      BY <1>3, <1>b DEF HelloAck, Handshake
    <2>2. main' \notin {"start", "hello1", "hello2", "helloAck", "crashed"}
      BY <1>3, <1>a, <1>c, ModesAssumption DEF HelloAck, Types, ControlTypes
    <2>3. ~Asked'
      BY <1>3, <2>1 DEF HelloAck, Sent, Asked, Datagram
    <2>4. UNCHANGED <<inbox, toClient>>
      BY <1>3, ZenonT(60) DEF HelloAck, threads, network, counters
    <2>5. Coming' = {}
      BY <2>1, <2>4, ZenonT(60) DEF Coming, Waiting
    <2> QED
      BY <2>2, <2>3, <2>5, ZenonT(60) DEF Handshake
  <1>4. CASE DownRead
    <2>1. inbox' = Tail(inbox) /\ inbox # <<>> /\ inbox \in Seq(Down)
      BY <1>4, <1>c, ZenonT(60) DEF DownRead, threads, network, counters, Take, Types, LogTypes
    <2>2. /\ main \notin {"start", "hello1", "hello2", "helloAck"}
          /\ main' \notin {"start", "hello1", "hello2", "helloAck", "crashed"}
      BY <1>4 DEF DownRead, threads, network, counters, Take, Threads
    <2>3. UNCHANGED <<toServer, toClient>>
      BY <1>4, ZenonT(60) DEF DownRead, threads, network, counters, Take
    <2>4. \A i \in DOMAIN inbox' : i + 1 \in DOMAIN inbox /\ inbox'[i] = inbox[i + 1]
      BY <2>1
    <2>5. Coming' \subseteq Coming
      BY <2>3, <2>4, ZenonT(60) DEF Coming, Waiting
    <2> QED
      BY <1>b, <2>2, <2>3, <2>5 DEF Handshake, Asked
  <1>5. CASE DownAck
    <2>1. /\ main \notin {"start", "hello1", "hello2", "helloAck"}
          /\ main' \notin {"start", "hello1", "hello2", "helloAck", "crashed"}
      BY <1>5 DEF DownAck, threads, network, counters, Threads
    <2>2. UNCHANGED <<toClient, inbox>>
      BY <1>5, ZenonT(60) DEF DownAck, threads, network, counters
    <2>3. ~Asked
      BY <1>b, <2>1, SMTT(30) DEF Handshake
    <2>4. ~Asked'
      BY <1>5, <2>3 DEF DownAck, Sent, Ends, Asked, Datagram
    <2> QED
      BY <1>b, <2>1, <2>2, <2>4, ZenonT(60) DEF Handshake, Coming, Waiting
  <1>6. CASE Join
    <2>1. /\ main \notin {"start", "hello1", "hello2", "helloAck"}
          /\ main' \notin {"start", "hello1", "hello2", "helloAck", "crashed"}
      BY <1>6 DEF Join, threads, network, counters, Threads
    <2>2. UNCHANGED <<toServer, toClient, inbox>>
      BY <1>6, ZenonT(60) DEF Join, threads, network, counters
    <2> QED
      BY <1>a, <1>b, <2>1, <2>2, ZenonT(60) DEF Handshake, Coming, Waiting, Asked
  <1>7. CASE Close
    <2>1. /\ main \notin {"start", "hello1", "hello2", "helloAck"}
          /\ main' \notin {"start", "hello1", "hello2", "helloAck", "crashed"}
      BY <1>7 DEF Close, threads, network, counters, Threads
    <2>2. UNCHANGED <<toServer, toClient, inbox>>
      BY <1>7, ZenonT(60) DEF Close, threads, network, counters
    <2> QED
      BY <1>a, <1>b, <2>1, <2>2, ZenonT(60) DEF Handshake, Coming, Waiting, Asked
  <1>8. CASE RrcRead
    <2>1. inbox' = Tail(inbox) /\ inbox # <<>> /\ inbox \in Seq(Down)
      BY <1>8, <1>c, ZenonT(60) DEF RrcRead, threads, network, counters, RrcStep, RrcOther, Types,
         LogTypes
    <2>2. /\ main \notin {"start", "hello1", "hello2", "helloAck"}
          /\ main' \notin {"start", "hello1", "hello2", "helloAck", "crashed"}
      BY <1>8 DEF RrcRead, threads, network, counters, RrcStep, RrcOther, Threads
    <2>3. UNCHANGED <<toServer, toClient>>
      BY <1>8, ZenonT(60) DEF RrcRead, threads, network, counters, RrcStep, RrcOther
    <2>4. \A i \in DOMAIN inbox' : i + 1 \in DOMAIN inbox /\ inbox'[i] = inbox[i + 1]
      BY <2>1
    <2>5. Coming' \subseteq Coming
      BY <2>3, <2>4, ZenonT(60) DEF Coming, Waiting
    <2> QED
      BY <1>b, <2>2, <2>3, <2>5 DEF Handshake, Asked
  <1>9. CASE RrcSample
    <2>1. /\ main \notin {"start", "hello1", "hello2", "helloAck"}
          /\ main' \notin {"start", "hello1", "hello2", "helloAck", "crashed"}
      BY <1>9 DEF RrcSample, threads, network, counters, RrcStep, RrcOther, Threads
    <2>2. UNCHANGED <<toServer, toClient, inbox>>
      BY <1>9, ZenonT(60) DEF RrcSample, threads, network, counters, RrcStep, RrcOther
    <2> QED
      BY <1>a, <1>b, <2>1, <2>2, ZenonT(60) DEF Handshake, Coming, Waiting, Asked
  <1>10. CASE RrcEcho
    <2>1. /\ main \notin {"start", "hello1", "hello2", "helloAck"}
          /\ main' \notin {"start", "hello1", "hello2", "helloAck", "crashed"}
      BY <1>10 DEF RrcEcho, threads, network, counters, RrcStep, RrcOther, Threads
    <2>2. UNCHANGED <<toServer, toClient, inbox>>
      BY <1>10, ZenonT(60) DEF RrcEcho, threads, network, counters, RrcStep, RrcOther
    <2> QED
      BY <1>a, <1>b, <2>1, <2>2, ZenonT(60) DEF Handshake, Coming, Waiting, Asked
  <1>11. CASE Crash
    <2>1. main \notin {"start", "hello1", "hello2"} /\ main # "done"
      BY <1>11 DEF Crash
    <2>2. inbox # <<>> /\ Head(inbox).kind = "hello" /\ inbox \in Seq(Down)
      BY <1>11, <1>a, <2>1, ZenonT(60) DEF Crash, Unreadable, Data, OpenInv, Calm, Types, LogTypes
    <2>3. Head(inbox) \in Coming
      BY <2>2 DEF Coming, Waiting
    <2> QED
      BY <1>b, <2>1, <2>2, <2>3, ZenonT(60) DEF Handshake
  <1>12. CASE SendPacket
    <2>1. /\ main \notin {"start", "hello1", "hello2", "helloAck"}
          /\ main' \notin {"start", "hello1", "hello2", "helloAck", "crashed"}
      BY <1>12 DEF SendPacket, threads, network, counters, Threads
    <2>2. UNCHANGED <<toClient, inbox>>
      BY <1>12, ZenonT(60) DEF SendPacket, threads, network, counters
    <2>3. ~Asked
      BY <1>b, <2>1 DEF Handshake
    <2>4. ~Asked'
      BY <1>12, <2>3 DEF SendPacket, Sent, Ends, Asked, Datagram
    <2> QED
      BY <1>b, <2>1, <2>2, <2>4, ZenonT(60) DEF Handshake, Coming, Waiting
  <1>13. CASE SendEnd
    <2>1. /\ main \notin {"start", "hello1", "hello2", "helloAck"}
          /\ main' \notin {"start", "hello1", "hello2", "helloAck", "crashed"}
      BY <1>13 DEF SendEnd, threads, network, counters, Threads
    <2>2. UNCHANGED <<toClient, inbox>>
      BY <1>13, ZenonT(60) DEF SendEnd, threads, network, counters
    <2>3. ~Asked
      BY <1>b, <2>1 DEF Handshake
    <2>4. ~Asked'
      BY <1>13, <2>3 DEF SendEnd, Sent, Ends, Asked, Datagram
    <2> QED
      BY <1>b, <2>1, <2>2, <2>4, ZenonT(60) DEF Handshake, Coming, Waiting
  <1>14. CASE ReceiverTest
    <2>1. /\ main \notin {"start", "hello1", "hello2", "helloAck"}
          /\ main' \notin {"start", "hello1", "hello2", "helloAck", "crashed"}
      BY <1>14 DEF ReceiverTest, threads, network, counters, Threads
    <2>2. UNCHANGED <<toServer, toClient, inbox>>
      BY <1>14, ZenonT(60) DEF ReceiverTest, threads, network, counters
    <2> QED
      BY <1>a, <1>b, <2>1, <2>2, ZenonT(60) DEF Handshake, Coming, Waiting, Asked
  <1>15. CASE ReceiverRead
    <2>1. inbox' = Tail(inbox) /\ inbox # <<>> /\ inbox \in Seq(Down)
      BY <1>15, <1>c, ZenonT(60) DEF ReceiverRead, threads, network, counters, Take, Types, LogTypes
    <2>2. /\ main \notin {"start", "hello1", "hello2", "helloAck"}
          /\ main' \notin {"start", "hello1", "hello2", "helloAck", "crashed"}
      BY <1>15 DEF ReceiverRead, threads, network, counters, Take, Threads
    <2>3. UNCHANGED <<toServer, toClient>>
      BY <1>15, ZenonT(60) DEF ReceiverRead, threads, network, counters, Take
    <2>4. \A i \in DOMAIN inbox' : i + 1 \in DOMAIN inbox /\ inbox'[i] = inbox[i + 1]
      BY <2>1
    <2>5. Coming' \subseteq Coming
      BY <2>3, <2>4, ZenonT(60) DEF Coming, Waiting
    <2> QED
      BY <1>b, <2>2, <2>3, <2>5 DEF Handshake, Asked
  <1>16. CASE ReceiverTimeout
    <2>1. /\ main \notin {"start", "hello1", "hello2", "helloAck"}
          /\ main' \notin {"start", "hello1", "hello2", "helloAck", "crashed"}
      BY <1>16 DEF ReceiverTimeout, threads, network, counters, Threads
    <2>2. UNCHANGED <<toServer, toClient, inbox>>
      BY <1>16, ZenonT(60) DEF ReceiverTimeout, threads, network, counters
    <2> QED
      BY <1>a, <1>b, <2>1, <2>2, ZenonT(60) DEF Handshake, Coming, Waiting, Asked
  <1>17. CASE ServerTakes
    <2>1. PICK d \in toServer :
            /\ toServer' = toServer \ {d} /\ Answer(d)
            /\ d.kind = "Test1" => server'.phase = server.phase
      BY <1>17 DEF ServerTakes, Types, NetworkTypes
    <2>2. UNCHANGED <<main, inbox>>
      BY <1>17 DEF ServerTakes, threads, network, counters, Client
    <2>3. CASE d.kind = "Test1"
      <3>1. main = "hello1" /\ Coming = {} /\ toServer \subseteq {Test1} /\ server.phase = "idle"
        BY <1>b, <2>3 DEF Handshake, Asked
      <3>2. ~Asked' /\ toServer' \subseteq {Test1}
        BY <2>1, <2>3, <3>1, ZenonT(60) DEF Asked
      <3>3. toClient' \subseteq Hellos /\ DOMAIN inbox = {}
        <4>1. toClient' = toClient \cup {Datagram("hello", 0, c) : c \in 1..2}
          BY <2>1, <2>3, ZenonT(60) DEF Answer
        <4>2. toClient = {} /\ DOMAIN inbox = {}
          BY <3>1, ZenonT(60) DEF Coming, Waiting
        <4> QED
          BY <4>1, <4>2 DEF Hellos
      <3>4. Coming' \subseteq Hellos /\ Once'
        BY <2>2, <3>3, ZenonT(60) DEF Coming, Waiting, Once
      <3> QED
        BY <2>1, <2>2, <2>3, <3>1, <3>2, <3>4 DEF Handshake
    <2>4. CASE d.kind # "Test1"
      <3>1. main \notin {"start", "hello1", "hello2", "helloAck"}
        BY <1>b, <2>4 DEF Handshake, Test1, Datagram
      <3>2. \A e \in toClient' : e \in toClient \/ e.kind # "hello"
        BY <2>1, <2>4 DEF Answer, Datagram
      <3>3. \A e \in Coming' : e.kind # "hello"
        BY <1>b, <2>2, <3>1, <3>2, ZenonT(60) DEF Handshake, Coming, Waiting
      <3>4. ~Asked'
        BY <1>b, <2>1, <3>1 DEF Handshake, Asked
      <3> QED
        BY <1>b, <2>2, <3>1, <3>3, <3>4, ZenonT(60) DEF Handshake
    <2> QED
      BY <2>3, <2>4, ZenonT(60)
  <1>18. CASE Arrive
    <2>1. PICK d \in toClient, doubled \in BOOLEAN :
            /\ toClient' = IF doubled THEN toClient ELSE toClient \ {d}
            /\ doubles' = IF doubled THEN doubles + 1 ELSE doubles
            /\ inbox' = IF open THEN Append(inbox, d) ELSE inbox
      BY <1>18, ZenonT(60) DEF Arrive
    <2>7. ~doubled
      BY <1>a, <1>d, <2>1 DEF Calm
    <2>8. toClient' = toClient \ {d}
      BY <2>1, <2>7, ZenonT(60)
    <2>2. UNCHANGED <<main, server, toServer>>
      BY <1>18 DEF Arrive, threads, network, counters
    <2>3. inbox \in Seq(Down) /\ d \in Down
      BY <2>1 DEF Types, LogTypes, NetworkTypes
    <2>4. \A i \in DOMAIN inbox' : IF i = Len(inbox) + 1 THEN inbox'[i] = d
                                  ELSE i \in DOMAIN inbox /\ inbox'[i] = inbox[i]
      BY <2>1, <2>3, SMT
    <2>5. Coming' \subseteq Coming
      BY <2>4, <2>8, ZenonT(60) DEF Coming, Waiting
    <2>6. Once => Once'
      <3> SUFFICES ASSUME Once PROVE Once'
        OBVIOUS
      <3>1. \A i \in DOMAIN inbox' : inbox'[i] \notin toClient'
        BY <2>4, <2>8, ZenonT(60) DEF Once
      <3>2. \A i \in DOMAIN inbox : inbox[i] # d
        BY ZenonT(60) DEF Once
      <3>3. \A i, j \in DOMAIN inbox' : i # j => inbox'[i] # inbox'[j]
        BY <2>4, <3>2, ZenonT(60) DEF Once
      <3> QED
        BY <3>1, <3>3, ZenonT(60) DEF Once
    <2> QED
      BY <1>b, <2>2, <2>5, <2>6 DEF Handshake, Asked
  <1>19. CASE Stop
    BY <1>19, <1>d, ZenonT(60) DEF Stop, Calm
  <1>20. CASE ServerSends
    <2>1. main \notin {"start", "hello1", "hello2", "helloAck"}
      BY <1>20, <1>b DEF ServerSends, Handshake
    <2>2. UNCHANGED <<main, inbox, toServer>>
      BY <1>20, ZenonT(60) DEF ServerSends, threads, network, counters, Client
    <2>3. \A d \in toClient' : d \in toClient \/ d.kind # "hello"
      BY <1>20 DEF ServerSends, Ends, Datagram
    <2>4. \A d \in Coming' : d.kind # "hello"
      BY <1>b, <2>1, <2>2, <2>3, ZenonT(60) DEF Handshake, Coming, Waiting
    <2>5. ~Asked
      BY <1>b, <2>1, SMTT(30) DEF Handshake
    <2> QED
      BY <1>b, <2>1, <2>2, <2>4, <2>5, ZenonT(60) DEF Handshake, Asked
  <1>21. CASE Lose
    <2>1. PICK d \in toServer \cup toClient : toServer' = toServer \ {d} /\ toClient' = toClient \ {d}
      BY <1>21, ZenonT(60) DEF Lose
    <2>2. UNCHANGED <<main, inbox, server>>
      BY <1>21 DEF Lose, threads, network, counters, Client
    <2>3. toServer' \subseteq toServer /\ toClient' \subseteq toClient /\ Coming' \subseteq Coming
      BY <2>1, <2>2, ZenonT(60) DEF Coming, Waiting
    <2> QED
      BY <1>b, <2>2, <2>3 DEF Handshake, Once, Asked
  <1>22. CASE Background
    BY <1>22, <1>b, ZenonT(60) DEF Background, threads, network, counters, Handshake, Coming, Waiting,
       Once, Asked
  <1>23. CASE UNCHANGED vars
    <2>1. UNCHANGED <<main, server, toServer, toClient, inbox>>
      BY <1>23, ZenonT(60) DEF vars, threads, network, counters
    <2> QED
      <3>1. Coming' = Coming
        BY <2>1, ZenonT(60) DEF Coming, Waiting
      <3>2. Once <=> Once'
        BY <2>1, ZenonT(60) DEF Once
      <3>3. Asked <=> Asked'
        BY <2>1, ZenonT(60) DEF Asked
      <3> QED
        BY <1>b, <2>1, <3>1, <3>2, <3>3 DEF Handshake
  <1> QED
    BY <1>1, <1>2, <1>3, <1>4, <1>5, <1>6, <1>7, <1>8, <1>9, <1>10, <1>11, <1>12, <1>13, <1>14,
       <1>15, <1>16, <1>17, <1>18, <1>19, <1>20, <1>21, <1>22, <1>23 DEF Next, Main, Sender,
       Receiver, Environment

---------------------------------------------------------------------------
(* The numbers. *)

\* What Append adds, and what it leaves alone.
LEMMA AppendEntries ==
  ASSUME NEW S, NEW q \in Seq(S), NEW e \in S
  PROVE  \A i \in DOMAIN Append(q, e) :
           (i = Len(q) + 1 /\ Append(q, e)[i] = e) \/ (i \in DOMAIN q /\ Append(q, e)[i] = q[i])
  OBVIOUS

\* Acknowledgements are numbered as the lines of the log.
LEMMA NextAck == Types /\ AckInv /\ [Next]_vars => AckInv'
  <1> SUFFICES ASSUME Types, AckInv, [Next]_vars PROVE AckInv'
    OBVIOUS
  <1> USE DEF Threads
  <1>1. CASE Hello
    <2>1. UNCHANGED <<mode, seqNo, logged>> /\ \A d \in toServer' : d \in toServer \/ d.kind # "ack"
      BY <1>1 DEF Hello, threads, network, counters, Sent, Datagram
    <2>2. main \in {"start", "hello1", "hello2", "helloAck"} /\ main' # "ack"
      BY <1>1 DEF Hello
    <2> QED
      BY <2>1, <2>2 DEF AckInv
  <1>2. CASE AwaitHello
    <2>1. UNCHANGED <<mode, seqNo, logged>> /\ \A d \in toServer' : d \in toServer \/ d.kind # "ack"
      BY <1>2 DEF AwaitHello, threads, network, counters, Sent, Datagram
    <2>2. main \in {"start", "hello1", "hello2", "helloAck"} /\ main' # "ack"
      BY <1>2 DEF AwaitHello
    <2> QED
      BY <2>1, <2>2 DEF AckInv
  <1>3. CASE HelloAck
    <2>1. UNCHANGED <<mode, seqNo, logged>> /\ \A d \in toServer' : d \in toServer \/ d.kind # "ack"
      BY <1>3 DEF HelloAck, threads, network, counters, Sent, Datagram
    <2>2. main \in {"start", "hello1", "hello2", "helloAck"} /\ main' # "ack"
      BY <1>3, ModesAssumption DEF HelloAck, Types, ControlTypes
    <2> QED
      BY <2>1, <2>2 DEF AckInv
  <1>4. CASE DownRead
    <2>1. UNCHANGED <<mode, seqNo, toServer>> /\ logged' = Append(logged, Head(inbox))
      BY <1>4, ZenonT(60) DEF DownRead, threads, network, counters, Take
    <2>2. main = "read" /\ main' \in {"close", "ack"}
      BY <1>4, ZenonT(60) DEF DownRead
    <2>3. logged \in Seq(Down) /\ Head(inbox) \in Down
      BY <1>4 DEF DownRead, Take, Types, LogTypes
    <2>4. Len(logged') = Len(logged) + 1 /\ \A i \in 1..Len(logged) : logged'[i] = logged[i]
      BY <2>1, <2>3
    <2>5. Len(logged) \in Nat
      BY <2>3
    <2> QED
      BY <2>1, <2>2, <2>4, <2>5 DEF AckInv
  <1>5. CASE DownAck
    <2> DEFINE ack == Datagram("ack", logged[Len(logged)].no, seqNo)
    <2>1. UNCHANGED <<mode, logged>> /\ toServer' \subseteq toServer \cup {ack} /\ seqNo' = seqNo + 1
      BY <1>5, ZenonT(60) DEF DownAck, threads, network, counters, Sent
    <2>2. main = "ack" /\ main' # "ack" /\ mode = "down"
      BY <1>5 DEF DownAck, Types, ControlTypes
    <2>3. seqNo = Len(logged) /\ Len(logged) \in 1..Len(logged)
      BY <2>2 DEF AckInv, Types, LogTypes
    <2>4. ack.copy = Len(logged) /\ ack.no = logged[Len(logged)].no
      BY <2>3, SMTT(30) DEF Datagram
    <2> HIDE DEF ack
    <2> QED
      BY <2>1, <2>2, <2>3, <2>4 DEF AckInv
  <1>6. CASE Join
    <2>1. UNCHANGED <<mode, seqNo, logged>> /\ toServer' \subseteq toServer
      BY <1>6 DEF Join, threads, network, counters
    <2>2. main' = main \/ main' \notin {"start", "hello1", "hello2", "helloAck", "read", "ack"}
      BY <1>6 DEF Join, threads, network, counters
    <2> QED
      BY <2>1, <2>2 DEF AckInv
  <1>7. CASE Close
    <2>1. UNCHANGED <<mode, seqNo, logged>> /\ toServer' \subseteq toServer
      BY <1>7 DEF Close, threads, network, counters
    <2>2. main' = main \/ main' \notin {"start", "hello1", "hello2", "helloAck", "read", "ack"}
      BY <1>7 DEF Close, threads, network, counters
    <2> QED
      BY <2>1, <2>2 DEF AckInv
  <1>8. CASE RrcRead
    <2>1. mode # "down" /\ mode' = mode
      BY <1>8 DEF RrcRead, threads, network, counters, RrcStep, RrcOther
    <2> QED
      BY <2>1, ZenonT(60) DEF AckInv
  <1>9. CASE RrcSample
    <2>1. mode # "down" /\ mode' = mode
      BY <1>9 DEF RrcSample, threads, network, counters, RrcStep, RrcOther
    <2> QED
      BY <2>1, ZenonT(60) DEF AckInv
  <1>10. CASE RrcEcho
    <2>1. mode # "down" /\ mode' = mode
      BY <1>10 DEF RrcEcho, threads, network, counters, RrcStep, RrcOther
    <2> QED
      BY <2>1, ZenonT(60) DEF AckInv
  <1>11. CASE Crash
    <2>1. UNCHANGED <<mode, seqNo, logged>> /\ toServer' \subseteq toServer
      BY <1>11 DEF Crash, threads, network, counters
    <2>2. main' = main \/ main' \notin {"start", "hello1", "hello2", "helloAck", "read", "ack"}
      BY <1>11 DEF Crash, threads, network, counters
    <2> QED
      BY <2>1, <2>2 DEF AckInv
  <1>12. CASE SendPacket
    <2>1. mode # "down" /\ mode' = mode
      BY <1>12, SMTT(30) DEF SendPacket, threads, network, counters, Types, ControlTypes
    <2> QED
      BY <2>1, ZenonT(60) DEF AckInv
  <1>13. CASE SendEnd
    <2>1. mode # "down" /\ mode' = mode
      BY <1>13 DEF SendEnd, threads, network, counters, Types, ControlTypes
    <2> QED
      BY <2>1, ZenonT(60) DEF AckInv
  <1>14. CASE ReceiverTest
    BY <1>14, ZenonT(60) DEF AckInv, ReceiverTest, threads, network, counters
  <1>15. CASE ReceiverRead
    <2>1. mode # "down" /\ mode' = mode
      BY <1>15 DEF ReceiverRead, threads, network, counters, Take, Types, ControlTypes
    <2> QED
      BY <2>1, ZenonT(60) DEF AckInv
  <1>16. CASE ReceiverTimeout
    BY <1>16, ZenonT(60) DEF AckInv, ReceiverTimeout, threads, network, counters
  <1>17. CASE ServerTakes
    <2>1. UNCHANGED <<mode, seqNo, logged>> /\ toServer' \subseteq toServer
      BY <1>17 DEF ServerTakes, threads, network, counters, Client
    <2>2. main' = main \/ main' \notin {"start", "hello1", "hello2", "helloAck", "read", "ack"}
      BY <1>17, SMTT(30) DEF ServerTakes, threads, network, counters, Client
    <2> QED
      BY <2>1, <2>2 DEF AckInv
  <1>18. CASE Arrive
    <2>1. UNCHANGED <<mode, seqNo, logged>> /\ toServer' \subseteq toServer
      BY <1>18 DEF Arrive, threads, network, counters
    <2>2. main' = main \/ main' \notin {"start", "hello1", "hello2", "helloAck", "read", "ack"}
      BY <1>18 DEF Arrive, threads, network, counters
    <2> QED
      BY <2>1, <2>2 DEF AckInv
  <1>19. CASE Stop
    BY <1>19, ZenonT(60) DEF AckInv, Stop, threads, network, counters
  <1>20. CASE ServerSends
    BY <1>20, ZenonT(60) DEF AckInv, ServerSends, threads, network, counters, Client
  <1>21. CASE Lose
    <2>1. UNCHANGED <<mode, seqNo, logged>> /\ toServer' \subseteq toServer
      BY <1>21 DEF Lose, threads, network, counters, Client
    <2>2. main' = main \/ main' \notin {"start", "hello1", "hello2", "helloAck", "read", "ack"}
      BY <1>21 DEF Lose, threads, network, counters, Client
    <2> QED
      BY <2>1, <2>2 DEF AckInv
  <1>22. CASE Background
    BY <1>22, ZenonT(60) DEF AckInv, Background, threads, network, counters
  <1>23. CASE UNCHANGED vars
    BY <1>23, ZenonT(60) DEF AckInv, vars, threads, network, counters
  <1> QED
    BY <1>1, <1>2, <1>3, <1>4, <1>5, <1>6, <1>7, <1>8, <1>9, <1>10, <1>11, <1>12, <1>13, <1>14,
       <1>15, <1>16, <1>17, <1>18, <1>19, <1>20, <1>21, <1>22, <1>23, ZenonT(60) DEF Next, Main, Sender,
       Receiver, Environment

\* The rrc probe confirms growing numbers.
LEMMA NextYep == Types /\ YepInv /\ [Next]_vars => YepInv'
  <1> SUFFICES ASSUME Types, YepInv, [Next]_vars PROVE YepInv'
    OBVIOUS
  <1>1. CASE Hello
    BY <1>1, ZenonT(60) DEF YepInv, Hello, threads, network, counters
  <1>2. CASE AwaitHello
    BY <1>2, ZenonT(60) DEF YepInv, AwaitHello, threads, network, counters
  <1>3. CASE HelloAck
    BY <1>3, ZenonT(60) DEF YepInv, HelloAck, threads, network, counters
  <1>4. CASE DownRead
    BY <1>4, ZenonT(60) DEF YepInv, DownRead, threads, network, counters, Take
  <1>5. CASE DownAck
    BY <1>5, ZenonT(60) DEF YepInv, DownAck, threads, network, counters
  <1>6. CASE Join
    BY <1>6, ZenonT(60) DEF YepInv, Join, threads, network, counters
  <1>7. CASE Close
    BY <1>7, ZenonT(60) DEF YepInv, Close, threads, network, counters
  <1>8. CASE RrcRead
    <2>1. rrc'.yep = rrc.yep /\ rrc'.now = rrc.now
      BY <1>8 DEF RrcRead, Types, RrcTypes, Readings
    <2> QED
      BY <2>1, ZenonT(60) DEF YepInv
  <1>9. CASE RrcSample
    <2>1. rrc'.yep = rrc.yep /\ rrc'.now = rrc.now
      BY <1>9 DEF RrcSample, Types, RrcTypes, Readings
    <2> QED
      BY <2>1, ZenonT(60) DEF YepInv
  <1>10. CASE RrcEcho
    <2>1. rrc.yep \in Seq(Numbers) /\ rrc.now \in Int /\ rrc.got \in Int /\ rrc.got \in Numbers
      BY BoundsAssumption DEF Types, RrcTypes, Readings, Numbers
    <2>2. /\ rrc'.yep = IF open /\ Yep THEN Append(rrc.yep, rrc.got) ELSE rrc.yep
          /\ rrc'.now = IF rrc.got > rrc.now THEN rrc.got ELSE rrc.now
      BY <1>10 DEF RrcEcho, Types, RrcTypes, Readings
    <2>3. \A i \in DOMAIN rrc.yep : rrc.yep[i] \in Int
      BY <2>1, BoundsAssumption DEF Numbers
    <2>4. CASE open /\ Yep
      <3>1. rrc.got > rrc.now
        BY <2>4, ZenonT(60) DEF Yep
      <3>2. rrc'.now = rrc.got /\ rrc'.yep = Append(rrc.yep, rrc.got)
        BY <2>2, <2>4, <3>1, ZenonT(60)
      <3>3. \A i \in DOMAIN rrc'.yep :
              (i = Len(rrc.yep) + 1 /\ rrc'.yep[i] = rrc.got) \/ (i \in DOMAIN rrc.yep /\ rrc'.yep[i] = rrc.yep[i])
        BY <2>1, <3>2, AppendEntries
      <3>4. Len(rrc.yep) \in Nat /\ DOMAIN rrc.yep = 1..Len(rrc.yep)
        BY <2>1
      <3>5. \A i \in DOMAIN rrc.yep : rrc.yep[i] < rrc.got
        BY <2>1, <2>3, <3>1 DEF YepInv
      <3>6. \A i \in DOMAIN rrc'.yep : rrc'.yep[i] <= rrc'.now
        BY <2>1, <2>3, <3>2, <3>3, <3>5
      <3>7. \A i, j \in DOMAIN rrc'.yep : i < j => rrc'.yep[i] < rrc'.yep[j]
        BY <3>3, <3>4, <3>5 DEF YepInv
      <3> QED
        BY <3>6, <3>7, ZenonT(60) DEF YepInv
    <2>5. CASE ~(open /\ Yep)
      <3>1. rrc'.yep = rrc.yep /\ rrc'.now \in Int /\ rrc'.now >= rrc.now
        BY <2>1, <2>2, <2>5
      <3> QED
        BY <2>1, <2>3, <3>1 DEF YepInv
    <2> QED
      BY <2>4, <2>5, ZenonT(60)
  <1>11. CASE Crash
    BY <1>11, ZenonT(60) DEF YepInv, Crash, threads, network, counters
  <1>12. CASE SendPacket
    BY <1>12, ZenonT(60) DEF YepInv, SendPacket, threads, network, counters
  <1>13. CASE SendEnd
    BY <1>13, ZenonT(60) DEF YepInv, SendEnd, threads, network, counters
  <1>14. CASE ReceiverTest
    BY <1>14, ZenonT(60) DEF YepInv, ReceiverTest, threads, network, counters
  <1>15. CASE ReceiverRead
    BY <1>15, ZenonT(60) DEF YepInv, ReceiverRead, threads, network, counters, Take
  <1>16. CASE ReceiverTimeout
    BY <1>16, ZenonT(60) DEF YepInv, ReceiverTimeout, threads, network, counters
  <1>17. CASE ServerTakes
    <2>1. UNCHANGED rrc
      BY <1>17, SMTT(30) DEF ServerTakes, threads, network, counters, Client
    <2> QED
      BY <2>1, ZenonT(60) DEF YepInv
  <1>18. CASE Arrive
    <2>1. UNCHANGED rrc
      BY <1>18 DEF Arrive, threads, network, counters
    <2> QED
      BY <2>1, ZenonT(60) DEF YepInv
  <1>19. CASE Stop
    BY <1>19, ZenonT(60) DEF YepInv, Stop, threads, network, counters
  <1>20. CASE ServerSends
    BY <1>20, ZenonT(60) DEF YepInv, ServerSends, threads, network, counters, Client
  <1>21. CASE Lose
    <2>1. UNCHANGED rrc
      BY <1>21 DEF Lose, threads, network, counters, Client
    <2> QED
      BY <2>1, ZenonT(60) DEF YepInv
  <1>22. CASE Background
    BY <1>22, ZenonT(60) DEF YepInv, Background, threads, network, counters
  <1>23. CASE UNCHANGED vars
    BY <1>23, ZenonT(60) DEF YepInv, vars, threads, network, counters
  <1> QED
    BY <1>1, <1>2, <1>3, <1>4, <1>5, <1>6, <1>7, <1>8, <1>9, <1>10, <1>11, <1>12, <1>13, <1>14,
       <1>15, <1>16, <1>17, <1>18, <1>19, <1>20, <1>21, <1>22, <1>23, ZenonT(60) DEF Next, Main, Sender,
       Receiver, Environment

---------------------------------------------------------------------------
ProbeInv == Types /\ OpenInv /\ HandshakeInv /\ AckInv /\ YepInv

\* The invariant of both probes: it holds before the handshake.
LEMMA InitInv == Init => ProbeInv
  <1> SUFFICES ASSUME Init PROVE ProbeInv
    OBVIOUS
  <1>1. Types
    BY InitTypes, SMTT(30)
  <1>2. OpenInv
    BY SMTT(30) DEF Init, OpenInv
  <1>3. HandshakeInv
    BY SMTT(30) DEF Init, HandshakeInv, Handshake, Coming, Waiting, Once, Asked
  <1>4. AckInv
    BY SMTT(30) DEF Init, AckInv
  <1>5. YepInv
    BY DEF Init, YepInv
  <1> QED
    BY <1>1, <1>2, <1>3, <1>4, <1>5, ZenonT(60) DEF ProbeInv

\* And every step of the probes, their threads, the server and the network keeps it.
LEMMA NextInv == ProbeInv /\ [Next]_vars => ProbeInv'
  BY NextTypes, NextOpen, NextHandshake, NextAck, NextYep, ZenonT(60) DEF ProbeInv

\* In every reachable state.
LEMMA InvAlways == Spec => []ProbeInv
  BY InitInv, NextInv, PTL DEF Spec

\* The invariant gives the types of the specification.
LEMMA InvTypeOK == ProbeInv => TypeOK
  <1> SUFFICES ASSUME ProbeInv PROVE TypeOK
    OBVIOUS
  <1>1. ControlTypes /\ NetworkTypes /\ LogTypes
    BY ZenonT(60) DEF ProbeInv, Types
  <1>2. \A d \in toServer \cup toClient \cup {inbox[i] : i \in DOMAIN inbox} : d.no \in 0..MaxPackets
    <2>1. \A i \in DOMAIN inbox : inbox[i] \in Down
      BY <1>1 DEF LogTypes
    <2>2. \A d \in Up : d.no \in 0..MaxPackets
      BY DEF Up, Numbers
    <2>3. \A d \in Down : d.no \in 0..MaxPackets
      BY DEF Down, Numbers
    <2> QED
      BY <1>1, <2>1, <2>2, <2>3, ZenonT(60) DEF NetworkTypes
  <1> QED
    BY <1>1, <1>2 DEF TypeOK, ControlTypes, LogTypes, Stages

\* However datagrams are lost, delayed and reordered, no exception ends the process of the udp
\* probe unless the user stops it or the network doubles a datagram: a datagram of the handshake,
\* which is too short for a Packet, is never left at the socket for recv_packet.
THEOREM CrashesExplained == Spec => []CrashExplained
  <1>1. ProbeInv => CrashExplained
    <2> SUFFICES ASSUME ProbeInv PROVE CrashExplained
      OBVIOUS
    <2>1. TypeOK
      BY InvTypeOK
    <2>2. doubles \in Nat /\ HandshakeInv
      BY ZenonT(60) DEF ProbeInv, Types, NetworkTypes
    <2> QED
      BY <2>1, <2>2 DEF CrashExplained, HandshakeInv, Calm
  <1> QED
    BY <1>1, InvAlways, PTL

\* Acknowledgement n is about line n of the log, and the rrc probe confirms numbers in
\* growing order, each once, however often and late the packets come.
THEOREM NumbersAlwaysInStep == Spec => []NumbersInStep
  <1>1. ProbeInv => NumbersInStep
    <2> SUFFICES ASSUME ProbeInv PROVE NumbersInStep
      OBVIOUS
    <2>1. AckInv /\ YepInv /\ Len(logged) \in Nat
      BY DEF ProbeInv, Types, LogTypes
    <2> QED
      BY <2>1 DEF NumbersInStep, AckInv, YepInv
  <1> QED
    BY <1>1, InvAlways, PTL
===========================================================================
