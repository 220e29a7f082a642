------------------------------ MODULE Probes ------------------------------
(* The native UDP probes: run_client of udprecvlib, which sends packets and logs their *)
(* acknowledgements ("up") or acknowledges and logs what a server sends ("down"), and  *)
(* client of rrclibcpp ("rrc"), which tells the server for every numbered packet       *)
(* whether it was alone on the radio. The network loses, doubles and reorders.         *)
EXTENDS Integers, Sequences

CONSTANTS Modes,         \* which probes
          MaxPackets,    \* bound: packets with a number
          EndCopies,     \* copies of the end packet; 5 in send_udp_packets
          MaxLosses,     \* bound: datagrams lost
          MaxDoubles,    \* bound: datagrams doubled
          MaxBackground  \* bound: packets of other programs

ASSUME ModesAssumption == Modes \subseteq {"up", "down", "rrc"}
ASSUME BoundsAssumption == MaxPackets \in Nat /\ EndCopies \in Nat

VARIABLES mode,
          main,        \* where run_client or client is
          sender,      \* where send_udp_packets is
          receiver,    \* where recv_udp_packets is
          running,     \* SENDER_RUNNING
          open,        \* client_fd, or s, is open
          server,      \* the other side, which is not in this repository
          toServer, toClient,   \* datagrams on the way
          inbox,       \* datagrams at the socket
          seqNo,       \* server_seq_no or client_seq_no: the next number to send
          logged,      \* the log file: the packet each line is about
          rrc,         \* the variables of client of rrclibcpp
          rx, tx,      \* packet counters of the phone, which only the "rrc" probe reads
          losses, doubles, background, stopped

threads == <<main, sender, receiver, running>>
network == <<server, toServer, toClient, losses, doubles>>
counters == <<rx, tx, background>>
vars == <<mode, threads, open, network, inbox, seqNo, logged, rrc, counters, stopped>>

\* copy tells equal datagrams apart; of an acknowledgement it is its own number.
Datagram(kind, no, copy) == [kind |-> kind, no |-> no, copy |-> copy]
Ends == {Datagram("end", 0, c) : c \in 1..EndCopies}
Samples(r, t) == [recv |-> r, send |-> t]

Init ==
  /\ mode \in Modes
  /\ main = "start" /\ sender = "none" /\ receiver = "none" /\ running = TRUE
  /\ open = TRUE
  /\ server = [phase |-> "idle", sent |-> 0]
  /\ toServer = {} /\ toClient = {} /\ inbox = <<>>
  /\ seqNo = 1 /\ logged = <<>>
  /\ rrc = [got |-> 0, now |-> -1, n1 |-> Samples(0, 0), n2 |-> Samples(0, 0),
            before |-> Samples(0, 0), after |-> Samples(0, 0), yep |-> <<>>]
  /\ rx = 0 /\ tx = 0
  /\ losses = 0 /\ doubles = 0 /\ background = 0 /\ stopped = FALSE

---------------------------------------------------------------------------
(* The handshake, the same in both libraries: any datagram counts. *)

\* sendto does not fail visibly: on a closed socket the datagram is not sent.
Sent(d) == toServer' = IF open THEN toServer \cup {d} ELSE toServer

Hello ==
  /\ main = "start"
  /\ Sent(Datagram("Test1", 0, 1))
  /\ main' = "hello1"
  /\ UNCHANGED <<mode, sender, receiver, running, open, server, toClient, losses, doubles, inbox,
                 seqNo, logged, rrc, counters, stopped>>

\* The datagrams of the handshake are taken to arrive in order.
AwaitHello_InOrder ==
  /\ main \in {"hello1", "hello2"}
  /\ inbox # <<>> \/ ~open
  /\ inbox' = IF inbox = <<>> THEN inbox ELSE Tail(inbox)
  /\ main' = IF main = "hello2" /\ (~open \/ Head(inbox).copy = 2) THEN "helloAck" ELSE "hello2"
  /\ UNCHANGED <<mode, sender, receiver, running, open, network, seqNo, logged, rrc, counters, stopped>>

\* recvfrom without a timeout: returns with a datagram, or with an error nobody looks at.
AwaitHello ==
  /\ main \in {"hello1", "hello2"}
  /\ inbox # <<>> \/ ~open
  /\ inbox' = IF inbox = <<>> THEN inbox ELSE Tail(inbox)
  /\ main' = IF main = "hello1" THEN "hello2" ELSE "helloAck"
  /\ UNCHANGED <<mode, sender, receiver, running, open, network, seqNo, logged, rrc, counters, stopped>>

\* After the last datagram of the handshake: connect throws on a closed socket, and nothing
\* catches it; the rrc probe does not connect and takes its first samples.
HelloAck ==
  /\ main = "helloAck"
  /\ Sent(Datagram("Test2_ACK", 0, 1))
  /\ main' = CASE mode = "rrc" -> "resampleProc"
               [] mode # "rrc" /\ ~open -> "crashed"
               [] mode = "down" /\ open -> "read"
               [] mode = "up" /\ open -> "joinSender"
  /\ IF main' = "joinSender" THEN sender' = "loop" /\ receiver' = "loop" ELSE UNCHANGED <<sender, receiver>>
  /\ UNCHANGED <<mode, running, open, server, toClient, losses, doubles, inbox, seqNo, logged, rrc, counters,
                 stopped>>

---------------------------------------------------------------------------
(* recv_packet and what it is used for. *)

Data(d) == d.kind # "hello"    \* a datagram long enough for a Packet

\* On a closed socket, and for a datagram without a whole header, the constructors of string and
\* Packet throw; nothing catches it and the process ends.
Unreadable == ~open \/ (inbox # <<>> /\ ~Data(Head(inbox)))

Crash ==
  /\ \/ mode = "down" /\ main = "read"
     \/ mode = "up" /\ main \in {"joinSender", "joinReceiver"} /\ receiver = "wait"
  /\ Unreadable
  /\ main' = "crashed"
  /\ UNCHANGED <<mode, sender, receiver, running, open, network, inbox, seqNo, logged, rrc, counters, stopped>>

Take(line) == /\ inbox # <<>> /\ ~Unreadable
              /\ inbox' = Tail(inbox)
              /\ logged' = Append(logged, line)

\* sequence_number < 0, which an unsigned number never is.
DownRead_NoEnd ==
  /\ mode = "down" /\ main = "read"
  /\ Take(Head(inbox))
  /\ main' = "ack"
  /\ UNCHANGED <<mode, sender, receiver, running, open, network, seqNo, rrc, counters, stopped>>

DownRead ==
  /\ mode = "down" /\ main = "read"
  /\ Take(Head(inbox))
  /\ main' = IF Head(inbox).kind = "end" THEN "close" ELSE "ack"
  /\ UNCHANGED <<mode, sender, receiver, running, open, network, seqNo, rrc, counters, stopped>>

\* transform_into_ack and send_packet, which ends the thread on a closed socket.
DownAck ==
  /\ main = "ack"
  /\ main' = IF open THEN "read" ELSE "dead"
  /\ Sent(Datagram("ack", logged[Len(logged)].no, seqNo))
  /\ seqNo' = seqNo + 1
  /\ UNCHANGED <<mode, sender, receiver, running, open, server, toClient, losses, doubles, inbox,
                 logged, rrc, counters, stopped>>

Threads == main \in {"joinSender", "joinReceiver"}

SendPacket ==
  /\ Threads /\ sender = "loop" /\ running /\ seqNo <= MaxPackets
  /\ Sent(Datagram("data", seqNo, 1))
  /\ sender' = IF open THEN "loop" ELSE "dead"
  /\ seqNo' = seqNo + 1
  /\ UNCHANGED <<mode, main, receiver, running, open, server, toClient, losses, doubles, inbox, logged,
                 rrc, counters, stopped>>

\* The duration is over.
SendEnd ==
  /\ Threads /\ sender = "loop"
  /\ toServer' = IF open THEN toServer \cup Ends ELSE toServer
  /\ sender' = IF open THEN "done" ELSE "dead"
  /\ running' = IF open THEN FALSE ELSE running
  /\ UNCHANGED <<mode, main, receiver, open, server, toClient, losses, doubles, inbox, seqNo, logged, rrc,
                 counters, stopped>>

ReceiverTest ==
  /\ Threads /\ receiver = "loop"
  /\ receiver' = IF running THEN "wait" ELSE "done"
  /\ UNCHANGED <<mode, main, sender, running, open, network, inbox, seqNo, logged, rrc, counters, stopped>>

ReceiverRead ==
  /\ Threads /\ receiver = "wait"
  /\ Take(Head(inbox))
  /\ receiver' = "loop"
  /\ UNCHANGED <<mode, main, sender, running, open, network, seqNo, rrc, counters, stopped>>

\* EAGAIN is not told apart from other errors.
ReceiverTimeout_Thrown ==
  /\ Threads /\ receiver = "wait" /\ inbox = <<>> /\ open
  /\ main' = "crashed"
  /\ UNCHANGED <<mode, sender, receiver, running, open, network, inbox, seqNo, logged, rrc, counters, stopped>>

\* SERVER_RECV_MSG_TIMEOUT seconds without a datagram end the thread.
ReceiverTimeout ==
  /\ Threads /\ receiver = "wait" /\ inbox = <<>> /\ open
  /\ receiver' = "dead"
  /\ UNCHANGED <<mode, main, sender, running, open, network, inbox, seqNo, logged, rrc, counters, stopped>>

Join ==
  /\ \/ main = "joinSender" /\ sender \in {"done", "dead"} /\ main' = "joinReceiver"
     \/ main = "joinReceiver" /\ receiver \in {"done", "dead"} /\ main' = "close"
  /\ UNCHANGED <<mode, sender, receiver, running, open, network, inbox, seqNo, logged, rrc, counters, stopped>>

Close ==
  /\ main = "close"
  /\ main' = "done"
  /\ open' = FALSE
  /\ UNCHANGED <<mode, sender, receiver, running, network, inbox, seqNo, logged, rrc, counters, stopped>>

---------------------------------------------------------------------------
(* client of rrclibcpp: the counters are read twice, from /proc/net/dev and from Java. *)

RrcStep(from, to) == mode = "rrc" /\ main = from /\ main' = to
RrcOther == UNCHANGED <<mode, sender, receiver, running, open, network, seqNo, logged, stopped>>

\* The loop goes on after an error.
RrcRead_IgnoresErrors ==
  /\ inbox # <<>> \/ ~open
  /\ RrcStep("read", IF open THEN "sampleProc" ELSE "read")
  /\ inbox' = IF open THEN Tail(inbox) ELSE inbox
  /\ rrc' = IF open THEN [rrc EXCEPT !.got = Head(inbox).no] ELSE rrc
  /\ UNCHANGED counters /\ RrcOther

\* An error or an empty datagram, as on a closed socket, ends the probe.
RrcRead ==
  /\ inbox # <<>> \/ ~open
  /\ RrcStep("read", IF open THEN "sampleProc" ELSE "done")
  /\ inbox' = IF open THEN Tail(inbox) ELSE inbox
  /\ rrc' = IF open THEN [rrc EXCEPT !.got = Head(inbox).no] ELSE rrc
  /\ UNCHANGED counters /\ RrcOther

RrcSample ==
  /\ \/ RrcStep("sampleProc", "sampleRx") /\ rrc' = [rrc EXCEPT !.n2 = Samples(rx, tx)]
     \/ RrcStep("sampleRx", "sampleTx") /\ rrc' = [rrc EXCEPT !.after.recv = rx]
     \/ RrcStep("sampleTx", "echo") /\ rrc' = [rrc EXCEPT !.after.send = tx]
     \/ RrcStep("resampleProc", "resampleRx") /\ rrc' = [rrc EXCEPT !.n1 = Samples(rx, tx)]
     \/ RrcStep("resampleRx", "resampleTx") /\ rrc' = [rrc EXCEPT !.before.recv = rx]
     \/ RrcStep("resampleTx", "read") /\ rrc' = [rrc EXCEPT !.before.send = tx]
  /\ UNCHANGED <<counters, inbox>> /\ RrcOther

OneReceived(a, b) == b.recv = a.recv + 1 /\ b.send = a.send

\* seq_recv is not compared with seq_now.
Yep_AnyNumber == OneReceived(rrc.n1, rrc.n2) \/ OneReceived(rrc.before, rrc.after)

Yep == (OneReceived(rrc.n1, rrc.n2) \/ OneReceived(rrc.before, rrc.after)) /\ rrc.got > rrc.now

RrcEcho ==
  /\ RrcStep("echo", IF open THEN "resampleProc" ELSE "done")
  /\ rrc' = [rrc EXCEPT !.yep = IF open /\ Yep THEN Append(@, rrc.got) ELSE @,
                         !.now = IF rrc.got > @ THEN rrc.got ELSE @]
  /\ tx' = IF open THEN tx + 1 ELSE tx
  /\ UNCHANGED <<rx, background, inbox>> /\ RrcOther

---------------------------------------------------------------------------
(* The user, the server and the network. *)

\* The button while the probe runs: shutdown and close from another thread.
Stop ==
  /\ ~stopped /\ main \notin {"start", "done", "dead", "crashed"}
  /\ stopped' = TRUE /\ open' = FALSE
  /\ UNCHANGED <<mode, threads, network, inbox, seqNo, logged, rrc, counters>>

Client == <<mode, threads, open, inbox, seqNo, logged, rrc, counters, stopped>>

Answer(d) ==
  CASE d.kind = "Test1" -> toClient' = toClient \cup {Datagram("hello", 0, c) : c \in 1..2}
    [] d.kind = "data" -> toClient' = toClient \cup {Datagram("ack", d.no, 1)}
    [] OTHER -> UNCHANGED toClient

ServerTakes == \E d \in toServer :
  /\ toServer' = toServer \ {d}
  /\ server' = [server EXCEPT !.phase =
                  CASE d.kind = "Test2_ACK" -> "run" [] d.kind = "end" -> "ended" [] OTHER -> @]
  /\ Answer(d)
  /\ UNCHANGED <<losses, doubles, Client>>

\* The server numbers its packets; the last one of the "down" probe has number 0, several times.
ServerSends ==
  /\ server.phase = "run" /\ mode \in {"down", "rrc"}
  /\ \/ /\ server.sent < MaxPackets
        /\ toClient' = toClient \cup {Datagram("data", server.sent + 1, 1)}
        /\ server' = [server EXCEPT !.sent = @ + 1]
     \/ /\ mode = "down"
        /\ toClient' = toClient \cup Ends
        /\ server' = [server EXCEPT !.phase = "ended"]
  /\ UNCHANGED <<toServer, losses, doubles, Client>>

\* A datagram on the way arrives, in any order; a doubled one stays on the way.
Arrive == \E d \in toClient, doubled \in BOOLEAN :
  /\ doubled => doubles < MaxDoubles
  /\ toClient' = IF doubled THEN toClient ELSE toClient \ {d}
  /\ doubles' = IF doubled THEN doubles + 1 ELSE doubles
  /\ inbox' = IF open THEN Append(inbox, d) ELSE inbox
  /\ rx' = IF mode = "rrc" THEN rx + 1 ELSE rx
  /\ UNCHANGED <<mode, threads, open, server, toServer, losses, seqNo, logged, rrc, tx, background, stopped>>

Lose == \E d \in toServer \cup toClient :
  /\ losses < MaxLosses
  /\ losses' = losses + 1
  /\ toServer' = toServer \ {d} /\ toClient' = toClient \ {d}
  /\ UNCHANGED <<server, doubles, Client>>

\* Only differences between samples are used: what other programs send or receive before the first
\* sample of a round or after its last does not show, and before "sampleProc" it shows as in "read".
Background ==
  /\ mode = "rrc" /\ background < MaxBackground
  /\ main \in {"read", "sampleRx", "sampleTx", "resampleRx", "resampleTx"}
  /\ background' = background + 1
  /\ \/ rx' = rx + 1 /\ UNCHANGED tx
     \/ tx' = tx + 1 /\ UNCHANGED rx
  /\ UNCHANGED <<mode, threads, open, network, inbox, seqNo, logged, rrc, stopped>>

Main == Hello \/ AwaitHello \/ HelloAck \/ DownRead \/ DownAck \/ Join \/ Close
        \/ RrcRead \/ RrcSample \/ RrcEcho
Sender == SendPacket \/ SendEnd
Receiver == ReceiverTest \/ ReceiverRead \/ ReceiverTimeout
Environment == Stop \/ ServerSends \/ Lose \/ Background

Next == Main \/ Crash \/ Sender \/ Receiver \/ ServerTakes \/ Arrive \/ Environment

Spec == Init /\ [][Next]_vars

\* Threads run, a receive with a timeout ends, the server answers, and a datagram that is not lost
\* arrives. Nothing forces the server to send, the user to stop, or the network to lose.
FairSpec == Spec /\ WF_vars(Main) /\ WF_vars(Crash) /\ WF_vars(Sender) /\ WF_vars(Receiver)
            /\ WF_vars(ServerTakes) /\ WF_vars(Arrive)
---------------------------------------------------------------------------
TypeOK ==
  /\ mode \in Modes
  /\ main \in {"start", "hello1", "hello2", "helloAck", "read", "ack", "joinSender", "joinReceiver", "close",
               "done", "dead", "crashed", "sampleProc", "sampleRx", "sampleTx", "echo", "resampleProc",
               "resampleRx", "resampleTx"}
  /\ sender \in {"none", "loop", "done", "dead"}
  /\ receiver \in {"none", "loop", "wait", "done", "dead"}
  /\ {running, open, stopped} \subseteq BOOLEAN
  /\ seqNo \in Nat \ {0}
  /\ \A d \in toServer \cup toClient \cup {inbox[i] : i \in DOMAIN inbox} : d.no \in 0..MaxPackets

Over == main \in {"done", "dead", "crashed"}

\* The process ends in an exception only when the user stops the probe or when a doubled datagram
\* stood for the second one of the handshake, which is then read as a packet: timeouts, losses and
\* reordering are survived.
CrashExplained ==
  /\ TypeOK
  /\ main = "crashed" => stopped \/ doubles > 0

\* The numbers stay in step with what they number.  Every acknowledgement under way is about the
\* line of the log with its number, as recv_packets_and_send_ack counts them; and the rrc probe
\* confirms no number twice and none after a later one, whatever is doubled or late.
NumbersInStep ==
  /\ mode = "down" =>
       \A d \in toServer : d.kind = "ack" => d.copy <= Len(logged) /\ logged[d.copy].no = d.no
  /\ \A i, j \in DOMAIN rrc.yep : i < j => rrc.yep[i] < rrc.yep[j]

\* Without a lost datagram the handshake, which has no timeout (client.cpp:102), is completed.
HandshakeCompletes == main = "hello1" ~> (main \notin {"hello1", "hello2"} \/ losses > 0)

\* The "up" probe returns whatever the network loses; the "down" probe, which receives without a
\* timeout, when one of its end packets is not lost.
ProbesReturn ==
  (main = "joinSender" \/ (mode = "down" /\ server.phase = "ended"))
    ~> (Over \/ (mode = "down" /\ losses >= EndCopies))

\* The button ends every probe wherever it is, in the handshake, which has no timeout, included.
StopEnds == stopped ~> Over
===========================================================================
