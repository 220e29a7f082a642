---------------------------- MODULE IperfControl ----------------------------
(***************************************************************************)
(* The control protocol of iperf: the clients (iperf_client_api.c), the    *)
(* server (iperf_server_api.c, main.c) and the exchanges they share        *)
(* (iperf_api.c), for tests over TCP.                                      *)
(*                                                                         *)
(* A connection is <<c, k>>: the control connection of client c if k = 0,  *)
(* otherwise its k-th stream.  A connection carries bytes in order both    *)
(* ways; a message is <<"state", x>> for a state byte, <<"cookie", c>>,    *)
(* <<"params", c>> or <<"results", c>>.  Once one end is closed, the other *)
(* may still read what was sent before, or find the connection reset.      *)
(*                                                                         *)
(* The server is one thread: pc "select" is its loop, and "cookie",        *)
(* "params", "scookie" and "results" are the blocking reads inside a       *)
(* handler, during which it serves nobody else.                            *)
(***************************************************************************)
EXTENDS Integers, Sequences, FiniteSets

CONSTANTS
  Clients,       \* the clients; each runs one test
  NoClient,      \* not a client
  N,             \* num_streams of a test
  Processes,     \* a client is a process that exits when iperf_run_client returns
  EndTests,      \* another thread may call iperf_client_end, as the app's endTest does
  MaxInterrupts  \* bound: SIGINTs to the server

ASSUME ControlConstants ==
  /\ NoClient \notin Clients
  /\ N \in Nat \ {0} /\ Processes \in BOOLEAN /\ EndTests \in BOOLEAN
  /\ MaxInterrupts \in Nat

Conns == Clients \X (0 .. N)
NoConn == <<NoClient, 0>>
Ctrl(c) == <<c, 0>>
Streams(c) == {c} \X (1 .. N)

VARIABLES
  server,      \* [pc, state, ctrl, acc, cookie, streams, done, timer]
  client,      \* per client: [pc, state, made, ended]
  net,         \* per connection: [toS, toC, c, s]: bytes under way and the two ends
  backlog,     \* connections the server has not accepted
  got,         \* history: clients whose results the server has
  has,         \* history: per client, whose test the results it was sent are of
  interrupts   \* bound: how often the server was interrupted

vars == <<server, client, net, backlog, got, has, interrupts>>

States == {"START", "PARAM_EXCHANGE", "CREATE_STREAMS", "TEST_START", "TEST_RUNNING",
           "TEST_END", "EXCHANGE_RESULTS", "DISPLAY_RESULTS", "DONE", "ACCESS_DENIED",
           "SERVER_ERROR", "SERVER_TERMINATE", "CLIENT_TERMINATE"}
Messages == ({"state"} \X States) \cup ({"cookie", "params", "results"} \X Clients)
Ends == {"none", "queued", "open", "closed"}

\* Server, clients and connections keep their types.
TypeOK ==
  /\ server \in [pc : {"down", "select", "cookie", "params", "scookie", "results", "gone"},
                 state : States, ctrl : Conns \cup {NoConn}, acc : Conns \cup {NoConn},
                 cookie : Clients \cup {NoClient}, streams : SUBSET Conns,
                 done : BOOLEAN, timer : BOOLEAN]
  /\ client \in [Clients -> [pc : {"idle", "dialled", "loop", "streams", "results",
                                   "ok", "failed", "gone"},
                             state : States, made : 0 .. N, ended : BOOLEAN]]
  /\ net \in [Conns -> [toS : Seq(Messages), toC : Seq(Messages), c : Ends, s : Ends]]
  /\ backlog \in Seq(Conns)
  /\ got \subseteq Clients /\ has \in [Clients -> Clients \cup {NoClient}]
  /\ interrupts \in 0 .. MaxInterrupts

\* The test object after iperf_reset_test, with the listener still closed.
FreshServer == [pc |-> "down", state |-> "START", ctrl |-> NoConn, acc |-> NoConn,
                cookie |-> NoClient, streams |-> {}, done |-> FALSE, timer |-> FALSE]

Init ==
  /\ server = FreshServer
  /\ client = [c \in Clients |-> [pc |-> "idle", state |-> "START", made |-> 0,
                                  ended |-> FALSE]]
  /\ net = [k \in Conns |-> [toS |-> <<>>, toC |-> <<>>, c |-> "none", s |-> "none"]]
  /\ backlog = <<>> /\ got = {} /\ has = [c \in Clients |-> NoClient] /\ interrupts = 0
-----------------------------------------------------------------------------
(* Connections: Nread, Nwrite and close.                                   *)

State(x) == <<"state", x>>
ServerReset(k) == net[k].c = "closed"
ClientReset(k) == net[k].s = "closed"

\* What the server, or a client, finds first on a connection.
ServerReads(k, m) == net[k].toS # <<>> /\ Head(net[k].toS) = m
ServerEOF(k) == net[k].toS = <<>> /\ net[k].c = "closed"
ClientReads(k, m) == net[k].c = "open" /\ net[k].toC # <<>> /\ Head(net[k].toC) = m

TookS(n, k) == [n EXCEPT ![k].toS = Tail(@)]
TookC(n, k) == [n EXCEPT ![k].toC = Tail(@)]
SentC(n, k, ms) == [n EXCEPT ![k].toC = @ \o ms]
SentS(n, k, m) == [n EXCEPT ![k].toS = Append(@, m)]

\* close() of the server's, or of the client's, end of the connections in ks.
ServerCloses(n, ks) ==
  [k \in Conns |-> IF k \in ks /\ n[k].s # "none" THEN [n[k] EXCEPT !.s = "closed"] ELSE n[k]]
ClientCloses(n, ks) ==
  [k \in Conns |-> IF k \in ks /\ n[k].c # "none" THEN [n[k] EXCEPT !.c = "closed"] ELSE n[k]]

Queued == {backlog[i] : i \in DOMAIN backlog}
ServerSame == UNCHANGED <<client, got, has, interrupts>>
ClientSame == UNCHANGED <<server, got, interrupts>>
-----------------------------------------------------------------------------
(* The server.                                                             *)

\* Mutant: iperf_reset_test forgets to set ctrl_sck to -1.
EndRun_KeepsControl(n) ==
  /\ net' = ServerCloses(n, {server.ctrl} \cup Queued)
  /\ server' = [FreshServer EXCEPT !.ctrl = server.ctrl]
  /\ backlog' = <<>>

\* cleanup_server closes the control connection and the listener, and with it
\* what waits there; then iperf_reset_test.  The streams' sockets stay open.
EndRun(n) ==
  /\ net' = ServerCloses(n, {server.ctrl} \cup Queued)
  /\ server' = FreshServer
  /\ backlog' = <<>>

iperf_server_listen ==
  /\ server.pc = "down"
  /\ server' = [server EXCEPT !.pc = "select"]
  /\ ServerSame /\ UNCHANGED <<net, backlog>>

Accepts == server.pc = "select" /\ backlog # <<>> /\ backlog' = Tail(backlog)
Accepted(n) == [n EXCEPT ![Head(backlog)].s = "open"]

\* iperf_accept takes a control connection, and reads its cookie.
AcceptControl ==
  /\ Accepts /\ server.ctrl = NoConn
  /\ server' = [server EXCEPT !.pc = "cookie", !.ctrl = Head(backlog)]
  /\ net' = Accepted(net)
  /\ ServerSame

\* Mutant: a busy server accepts the connection and forgets it.
Deny_Silent ==
  /\ Accepts /\ server.ctrl # NoConn /\ server.state # "CREATE_STREAMS"
  /\ net' = Accepted(net)
  /\ ServerSame /\ UNCHANGED server

\* A busy server denies access, without reading.
Deny ==
  /\ Accepts /\ server.ctrl # NoConn /\ server.state # "CREATE_STREAMS"
  /\ net' = ServerCloses(SentC(net, Head(backlog), <<State("ACCESS_DENIED")>>), {Head(backlog)})
  /\ ServerSame /\ UNCHANGED server

\* ... and gives up its own run if the denial cannot be written.
DenyFails ==
  /\ server.pc = "select" /\ backlog # <<>>
  /\ server.ctrl # NoConn /\ server.state # "CREATE_STREAMS"
  /\ ServerReset(Head(backlog))
  /\ EndRun(net)
  /\ ServerSame

\* A short read of the cookie is not an error.
ReadCookie ==
  /\ server.pc = "cookie"
  /\ LET k == server.ctrl
     IN  \/ \E c \in Clients :
              /\ ServerReads(k, <<"cookie", c>>)
              /\ server' = [server EXCEPT !.pc = "params", !.state = "PARAM_EXCHANGE",
                                          !.cookie = c]
              /\ net' = SentC(TookS(net, k), k, <<State("PARAM_EXCHANGE")>>)
         \/ /\ ServerEOF(k)
            /\ server' = [server EXCEPT !.pc = "params", !.state = "PARAM_EXCHANGE"]
            /\ net' = SentC(net, k, <<State("PARAM_EXCHANGE")>>)
  /\ ServerSame /\ UNCHANGED backlog

\* get_parameters, then CREATE_STREAMS.
ReadParams ==
  /\ server.pc = "params"
  /\ \E c \in Clients : ServerReads(server.ctrl, <<"params", c>>)
  /\ server' = [server EXCEPT !.pc = "select", !.state = "CREATE_STREAMS"]
  /\ net' = SentC(TookS(net, server.ctrl), server.ctrl, <<State("CREATE_STREAMS")>>)
  /\ ServerSame /\ UNCHANGED backlog

\* The protocol cannot listen: SERVER_ERROR.
ListenFails ==
  /\ server.pc = "params"
  /\ \E c \in Clients : ServerReads(server.ctrl, <<"params", c>>)
  /\ EndRun(SentC(TookS(net, server.ctrl), server.ctrl, <<State("SERVER_ERROR")>>))
  /\ ServerSame

\* In CREATE_STREAMS the same listener gives streams: iperf_tcp_accept.
AcceptStream ==
  /\ Accepts /\ server.state = "CREATE_STREAMS"
  /\ server' = [server EXCEPT !.pc = "scookie", !.acc = Head(backlog)]
  /\ net' = Accepted(net)
  /\ ServerSame

\* Mutants: the cookies are not compared; the test starts one stream early.
Matches_Anything(k) == TRUE
LastStream_OneEarly(k) == Cardinality(server.streams) + 2 = N

\* iperf_tcp_accept compares the cookie it has read with that of the test.  If the
\* other end closes before it sends one, the buffer is compared uninitialized,
\* and may still hold the cookie of the stream before.
Matches(k) == net[k].toS # <<>> => Head(net[k].toS)[2] = server.cookie
Differs(k) == net[k].toS # <<>> => Head(net[k].toS)[2] # server.cookie
CookieRead(k) == server.pc = "scookie" /\ (net[k].toS # <<>> \/ ServerEOF(k))
Taken(k) == IF net[k].toS = <<>> THEN net ELSE TookS(net, k)
LastStream(k) == Cardinality(server.streams \cup {k}) = N

\* The cookie is that of the test: a new stream.  The last one starts the test.
TakeStream ==
  LET k == server.acc
      taken == [server EXCEPT !.pc = "select", !.streams = @ \cup {k}, !.acc = NoConn]
  IN  /\ CookieRead(k) /\ Matches(k)
      /\ IF LastStream(k)
         THEN /\ server' = [taken EXCEPT !.state = "TEST_RUNNING", !.timer = TRUE]
              /\ net' = SentC(Taken(k), server.ctrl,
                              <<State("TEST_START"), State("TEST_RUNNING")>>)
         ELSE server' = taken /\ net' = Taken(k)
      /\ ServerSame /\ UNCHANGED backlog

\* Another cookie: the connection is denied and closed.
DenyStream ==
  LET k == server.acc
  IN  /\ CookieRead(k) /\ Differs(k)
      /\ server' = [server EXCEPT !.pc = "select", !.acc = NoConn]
      /\ net' = ServerCloses(SentC(Taken(k), k, <<State("ACCESS_DENIED")>>), {k})
      /\ ServerSame /\ UNCHANGED backlog

Talks == server.pc = "select" /\ server.ctrl # NoConn

\* Mutant: TEST_END is answered by DISPLAY_RESULTS, without the exchange.
HandleTestEnd_NoExchange ==
  /\ Talks /\ ServerReads(server.ctrl, State("TEST_END"))
  /\ server' = [server EXCEPT !.state = "DISPLAY_RESULTS", !.done = TRUE]
  /\ net' = SentC(ServerCloses(TookS(net, server.ctrl), server.streams), server.ctrl,
                  <<State("DISPLAY_RESULTS")>>)
  /\ ServerSame /\ UNCHANGED backlog

\* Mutant: the streams are left open.
HandleTestEnd_KeepsStreams ==
  /\ Talks /\ ServerReads(server.ctrl, State("TEST_END"))
  /\ server' = [server EXCEPT !.pc = "results", !.state = "EXCHANGE_RESULTS", !.done = TRUE]
  /\ net' = SentC(TookS(net, server.ctrl), server.ctrl, <<State("EXCHANGE_RESULTS")>>)
  /\ ServerSame /\ UNCHANGED backlog

\* TEST_END: close the streams, ask for the client's results and wait for them.
HandleTestEnd ==
  /\ Talks /\ ServerReads(server.ctrl, State("TEST_END"))
  /\ server' = [server EXCEPT !.pc = "results", !.state = "EXCHANGE_RESULTS", !.done = TRUE]
  /\ net' = SentC(ServerCloses(TookS(net, server.ctrl), server.streams), server.ctrl,
                  <<State("EXCHANGE_RESULTS")>>)
  /\ ServerSame /\ UNCHANGED backlog

\* Mutant: the server sends its results without reading the client's.
ReadResults_Early ==
  /\ server.pc = "results"
  /\ server' = [server EXCEPT !.pc = "select", !.state = "DISPLAY_RESULTS"]
  /\ net' = SentC(net, server.ctrl, <<<<"results", server.cookie>>, State("DISPLAY_RESULTS")>>)
  /\ UNCHANGED <<client, got, has, interrupts, backlog>>

\* get_results, send_results, DISPLAY_RESULTS.
ReadResults ==
  /\ server.pc = "results"
  /\ \E c \in Clients : /\ ServerReads(server.ctrl, <<"results", c>>)
                        /\ got' = got \cup {c}
  /\ server' = [server EXCEPT !.pc = "select", !.state = "DISPLAY_RESULTS"]
  /\ net' = SentC(TookS(net, server.ctrl), server.ctrl,
                  <<<<"results", server.cookie>>, State("DISPLAY_RESULTS")>>)
  /\ UNCHANGED <<client, has, interrupts, backlog>>

\* IPERF_DONE, or the client has closed the connection.
HandleDone ==
  /\ Talks
  /\ ServerReads(server.ctrl, State("DONE")) \/ ServerEOF(server.ctrl)
  /\ EndRun(net)
  /\ ServerSame

\* CLIENT_TERMINATE closes the streams as well.
HandleTerminate ==
  /\ Talks /\ ServerReads(server.ctrl, State("CLIENT_TERMINATE"))
  /\ EndRun(ServerCloses(net, server.streams))
  /\ ServerSame

Expects(m) ==
  \/ server.pc = "params" /\ m[1] = "params"
  \/ server.pc = "results" /\ m[1] = "results"
  \/ server.pc = "select" /\ m \in {State("TEST_END"), State("DONE"), State("CLIENT_TERMINATE")}

\* A read or a write on the control connection fails, or what is read is not
\* what the handler expects: the run ends with an error.
ControlFails ==
  /\ server.pc \in {"cookie", "params", "scookie", "results"} \/ Talks
  /\ LET k == server.ctrl
     IN  \/ server.pc # "scookie" /\ ServerReset(k)
         \/ server.pc \in {"select", "params", "results"} /\ net[k].toS # <<>>
              /\ ~Expects(Head(net[k].toS))
         \/ server.pc = "scookie" /\ ServerReset(server.acc)
         \/ /\ CookieRead(server.acc) /\ Matches(server.acc) /\ LastStream(server.acc)
            /\ ServerReset(k)
  /\ EndRun(net)
  /\ ServerSame

\* server_timer_proc, long after the end of the test: the streams and the
\* control connection are closed, so the next select fails.
server_timer_proc ==
  /\ server.pc = "select" /\ server.timer
  /\ IF server.done
     THEN server' = [server EXCEPT !.timer = FALSE] /\ UNCHANGED <<net, backlog>>
     ELSE EndRun(ServerCloses(net, server.streams))
  /\ ServerSame

\* SIGINT: iperf_got_sigend tells the client and the process exits.
ServerInterrupted ==
  /\ server.pc # "gone" /\ interrupts < MaxInterrupts
  /\ interrupts' = interrupts + 1
  /\ net' = ServerCloses(IF server.ctrl = NoConn THEN net
                         ELSE SentC(net, server.ctrl, <<State("SERVER_TERMINATE")>>), Conns)
  /\ server' = [FreshServer EXCEPT !.pc = "gone"]
  /\ backlog' = <<>>
  /\ UNCHANGED <<client, got, has>>

ServerRestarted ==
  /\ server.pc = "gone"
  /\ server' = FreshServer
  /\ ServerSame /\ UNCHANGED <<net, backlog>>
-----------------------------------------------------------------------------
(* The clients.                                                            *)

Listening == server.pc \notin {"down", "gone"}
Moves(c, pc, state) == client' = [client EXCEPT ![c].pc = pc, ![c].state = state]
Fails(c) == client' = [client EXCEPT ![c].pc = "failed"]

\* A client's connect() succeeds as soon as the server listens.
Connect(n, k, ms) ==
  /\ net' = [n EXCEPT ![k] = [toS |-> ms, toC |-> <<>>, c |-> "open", s |-> "queued"]]
  /\ backlog' = Append(backlog, k)

\* iperf_connect: dial the server, which may not be listening.
Dial(c) ==
  /\ client[c].pc = "idle"
  /\ IF Listening
     THEN Moves(c, "dialled", "START") /\ Connect(net, Ctrl(c), <<>>)
     ELSE Fails(c) /\ UNCHANGED <<net, backlog>>
  /\ ClientSame /\ UNCHANGED has

\* ... and send the cookie.
SendCookie(c) ==
  /\ client[c].pc = "dialled" /\ net[Ctrl(c)].c = "open"
  /\ Moves(c, "loop", "START")
  /\ net' = SentS(net, Ctrl(c), <<"cookie", c>>)
  /\ ClientSame /\ UNCHANGED <<has, backlog>>

InLoop(c) == client[c].pc = "loop" /\ client[c].state # "DONE"

\* iperf_handle_message_client for the states that ask for nothing, or for
\* something to be sent.
HandleState(c) ==
  /\ InLoop(c)
  /\ \/ /\ ClientReads(Ctrl(c), State("PARAM_EXCHANGE"))
        /\ Moves(c, "loop", "PARAM_EXCHANGE")
        /\ net' = SentS(TookC(net, Ctrl(c)), Ctrl(c), <<"params", c>>)
     \/ /\ ClientReads(Ctrl(c), State("CREATE_STREAMS"))
        /\ Moves(c, "streams", "CREATE_STREAMS")
        /\ net' = TookC(net, Ctrl(c))
     \/ \E st \in {"TEST_START", "TEST_RUNNING"} :
          /\ ClientReads(Ctrl(c), State(st))
          /\ Moves(c, "loop", st)
          /\ net' = TookC(net, Ctrl(c))
     \/ /\ ClientReads(Ctrl(c), State("EXCHANGE_RESULTS"))
        /\ Moves(c, "results", "EXCHANGE_RESULTS")
        /\ net' = SentS(TookC(net, Ctrl(c)), Ctrl(c), <<"results", c>>)
  /\ ClientSame /\ UNCHANGED <<has, backlog>>

\* The states that end the run with an error.
HandleRefusal(c) ==
  /\ InLoop(c)
  /\ \E st \in {"ACCESS_DENIED", "SERVER_ERROR", "SERVER_TERMINATE"} :
       /\ ClientReads(Ctrl(c), State(st))
       /\ Moves(c, "failed", st)
  /\ net' = TookC(net, Ctrl(c))
  /\ ClientSame /\ UNCHANGED <<has, backlog>>

\* iperf_client_end: close the streams, send IPERF_DONE, close the control
\* connection.
iperf_client_end(n, c) ==
  ClientCloses(SentS(n, Ctrl(c), State("DONE")), {Ctrl(c)} \cup ({c} \X (1 .. client[c].made)))

HandleDisplay(c) ==
  /\ InLoop(c) /\ ClientReads(Ctrl(c), State("DISPLAY_RESULTS"))
  /\ Moves(c, "loop", "DONE")
  /\ net' = iperf_client_end(TookC(net, Ctrl(c)), c)
  /\ ClientSame /\ UNCHANGED <<has, backlog>>

\* iperf_create_streams connects the streams one by one, each with the cookie.
ConnectStream(c) ==
  /\ client[c].pc = "streams"
  /\ IF Listening
     THEN LET i == client[c].made + 1
          IN  /\ client' = [client EXCEPT ![c].made = i,
                                          ![c].pc = IF i = N THEN "loop" ELSE "streams"]
              /\ Connect(net, <<c, i>>, <<<<"cookie", c>>>>)
     ELSE Fails(c) /\ UNCHANGED <<net, backlog>>
  /\ ClientSame /\ UNCHANGED has

\* get_results of the client.
GetResults(c) ==
  /\ client[c].pc = "results"
  /\ net[Ctrl(c)].toC # <<>>
  /\ LET m == Head(net[Ctrl(c)].toC)
     IN  IF m[1] = "results"
         THEN client' = [client EXCEPT ![c].pc = "loop"] /\ has' = [has EXCEPT ![c] = m[2]]
         ELSE Fails(c) /\ UNCHANGED has
  /\ net' = TookC(net, Ctrl(c))
  /\ ClientSame /\ UNCHANGED backlog

\* The time, or the amount to send, is over: TEST_END.
TestOver(c) ==
  /\ client[c].pc = "loop" /\ client[c].state = "TEST_RUNNING"
  /\ Moves(c, "loop", "TEST_END")
  /\ net' = SentS(net, Ctrl(c), State("TEST_END"))
  /\ ClientSame /\ UNCHANGED <<has, backlog>>

\* The control connection is at its end, was reset or was closed by another
\* thread, whose state a byte read meanwhile may replace; or a stream cannot be
\* written.
ClientFails(c) ==
  /\ \/ /\ client[c].pc \in {"dialled", "results"} \/ InLoop(c)
        /\ ClientReset(Ctrl(c)) \/ net[Ctrl(c)].c = "closed"
     \/ client[c].pc = "loop" /\ client[c].ended
     \/ /\ client[c].pc = "loop" /\ client[c].state = "TEST_RUNNING"
        /\ \E k \in Streams(c) : net[k].s = "closed"
  /\ Fails(c)
  /\ ClientSame /\ UNCHANGED <<has, net, backlog>>

\* The loop ends: iperf_run_client returns 0.
Finish(c) ==
  /\ client[c].pc = "loop" /\ client[c].state = "DONE"
  /\ client' = [client EXCEPT ![c].pc = "ok"]
  /\ ClientSame /\ UNCHANGED <<has, net, backlog>>

\* The process exits after the run, which closes what is open.
Exit(c) ==
  /\ Processes /\ client[c].pc \in {"ok", "failed"}
  /\ client' = [client EXCEPT ![c].pc = "gone"]
  /\ net' = ClientCloses(net, {Ctrl(c)} \cup Streams(c))
  /\ ClientSame /\ UNCHANGED <<has, backlog>>

Active(c) == client[c].pc \in {"dialled", "loop", "streams", "results"}

\* The client is killed, or interrupted: then it tells the server first.
Crash(c) ==
  /\ Active(c)
  /\ client' = [client EXCEPT ![c].pc = "gone"]
  /\ \/ net' = ClientCloses(net, {Ctrl(c)} \cup Streams(c))
     \/ /\ Processes /\ net[Ctrl(c)].c = "open"
        /\ net' = ClientCloses(SentS(net, Ctrl(c), State("CLIENT_TERMINATE")),
                               {Ctrl(c)} \cup Streams(c))
  /\ ClientSame /\ UNCHANGED <<has, backlog>>

\* endTest of the app's wrapper: another thread calls iperf_client_end.
EndTest(c) ==
  /\ EndTests /\ Active(c) /\ ~client[c].ended /\ net[Ctrl(c)].c = "open"
  /\ client' = [client EXCEPT ![c].ended = TRUE, ![c].state = "DONE"]
  /\ net' = iperf_client_end(net, c)
  /\ ClientSame /\ UNCHANGED <<has, backlog>>
-----------------------------------------------------------------------------
ServerStep ==
  \/ iperf_server_listen \/ AcceptControl \/ Deny \/ ReadCookie \/ ReadParams
  \/ AcceptStream \/ TakeStream \/ DenyStream \/ HandleTestEnd \/ ReadResults
  \/ HandleDone \/ HandleTerminate \/ ControlFails \/ server_timer_proc

ClientStep(c) ==
  \/ Dial(c) \/ SendCookie(c) \/ HandleState(c) \/ HandleRefusal(c) \/ HandleDisplay(c)
  \/ ConnectStream(c) \/ GetResults(c) \/ TestOver(c) \/ ClientFails(c) \/ Finish(c) \/ Exit(c)

Next ==
  \/ ServerStep \/ DenyFails \/ ListenFails \/ ServerInterrupted \/ ServerRestarted
  \/ \E c \in Clients : ClientStep(c) \/ Crash(c) \/ EndTest(c)

Spec == Init /\ [][Next]_vars

\* The server's loop and the clients' run on; connections deliver.  Nothing
\* makes a client crash, an environment fail or a user call endTest.
FairSpec ==
  Spec /\ WF_vars(ServerStep) /\ \A c \in Clients : WF_vars(ClientStep(c))
-----------------------------------------------------------------------------
(* Properties                                                              *)

Testing == {"CREATE_STREAMS", "TEST_RUNNING", "EXCHANGE_RESULTS", "DISPLAY_RESULTS"}

\* From CREATE_STREAMS on, the server's control connection is the control
\* connection of the client whose cookie it holds, never a late stream that
\* iperf_accept took for one.  Every stream of the test is that client's, but for
\* connections whose other end is closed (iperf_tcp_accept's buffer).
OwnConnections ==
  /\ TypeOK
  /\ server.state \in Testing =>
       /\ server.ctrl = Ctrl(server.cookie)
       /\ \A k \in server.streams : k \in Streams(server.cookie) \/ net[k].c = "closed"

\* A client that believes its test to run, over a connection the server has not
\* closed, is the one the server serves, and the server runs as many streams.
RunsTogether ==
  \A c \in Clients :
    client[c].state \in {"TEST_START", "TEST_RUNNING", "TEST_END"} /\ net[Ctrl(c)].s = "open"
      => server.cookie = c /\ Cardinality(server.streams) = N

\* iperf_run_client returns 0 without a call of endTest only if both sides have
\* the results of this very test.
ResultsAgree ==
  \A c \in Clients : client[c].pc = "ok" /\ ~client[c].ended => c \in got /\ has[c] = c

\* The server serves a client from CREATE_STREAMS on; a run has succeeded once
\* the client has handled DISPLAY_RESULTS.
Owner == IF server.state \in Testing THEN server.cookie ELSE NoClient
Phase == CASE server.state = "CREATE_STREAMS" -> "setup"
           [] server.state \in {"TEST_RUNNING", "EXCHANGE_RESULTS"} -> "running"
           [] server.state = "DISPLAY_RESULTS" -> "done"
           [] OTHER -> "free"
Outcome(c) == IF client[c].state = "DONE" /\ ~client[c].ended THEN "ok"
              ELSE IF client[c].pc = "idle" \/ Active(c) THEN "none" ELSE "failed"

Service == INSTANCE TestService WITH
  owner <- Owner, phase <- Phase, collected <- got,
  outcome <- [c \in Clients |-> Outcome(c)]

\* The protocol implements the service: whatever connections, messages, crashes
\* and denials there are, the server takes a client only when it is free, goes
\* through the phases in order, collects the owner's results and nobody else's,
\* and no client succeeds before that.
ImplementsService == Service!SSpec

\* cleanup_server's "Close open test sockets": at the end of a run whose test was
\* ended, the sockets of its streams are closed, although cleanup_server itself
\* only closes the control connection and the listener.
TestSocketsClosed ==
  [][server.pc # "down" /\ server'.pc = "down" /\ server.done =>
       \A k \in server.streams : net'[k].s = "closed"]_vars

\* The server always becomes free again.
ServerFrees == server.ctrl # NoConn ~> server.ctrl = NoConn

\* Every call of iperf_run_client returns.
RunReturns == \A c \in Clients : Active(c) ~> ~Active(c)
=============================================================================
