------------------------- MODULE IperfControlProofs -------------------------
(***************************************************************************)
(* Theorems about the control protocol, for any number of clients and      *)
(* streams: whose connections the server works on, that both ends run the  *)
(* same test, that a run which returns 0 has its results, and that the     *)
(* protocol implements TestService.  First the rest of the steps that keep *)
(* the invariant: those with which the server talks to its client.         *)
(***************************************************************************)
EXTENDS IperfControlInvariant

\* The server answers on its control connection: for the other clients nothing
\* changes, but that a connection may be read or closed.
LEMMA Replied ==
  ASSUME ControlInv, NEW k \in Conns, k = server.ctrl, server'.ctrl = k,
         client' = client, has' = has, got \subseteq got', net' \in Net,
         net'[k].s = "open",
         \A j \in Conns :
           /\ net'[j].c = net[j].c
           /\ net'[j].toS = net[j].toS \/ (net[j].toS # <<>> /\ net'[j].toS = Tail(net[j].toS))
           /\ net'[j].s \in {net[j].s, "closed"}
           /\ j # k => net'[j].toC = net[j].toC
           /\ net[j].s = "none" => net'[j] = net[j],
         \A c \in Clients : Ctrl(c) = k =>
           Conversation(c)' /\ Inbox(net'[k].toC, c, client[c], got', has[c])
  PROVE  /\ \A j \in Conns : Carries(j, net[j].toS)'
         /\ \A c \in Clients :
              ClientOK(c)' /\ TalkOK(c)' /\ Inbox(net[Ctrl(c)].toC, c, client[c], got, has[c])'
<1>1. ASSUME NEW j \in Conns
      PROVE  Carries(j, net[j].toS)'
  <2>1. net[j].toS \in Seq(Messages) /\ Carries(j, net[j].toS)
    BY Holds, SMTT(30) DEF Link, ControlInv
  <2> QED
    BY <2>1, CarriesTail, SMTT(30)
<1>2. ASSUME NEW c \in Clients
      PROVE  ClientOK(c)' /\ TalkOK(c)' /\ Inbox(net[Ctrl(c)].toC, c, client[c], got, has[c])'
  <2>1. Ctrl(c) \in Conns
    BY CtrlConn, ZenonT(60)
  <2>2. ClientOK(c)' /\ Inbox(net[Ctrl(c)].toC, c, client[c], got, has[c])'
    <3>1. \/ net'[Ctrl(c)].toC = net[Ctrl(c)].toC
          \/ Inbox(net'[Ctrl(c)].toC, c, client[c], got', has[c])
      BY <2>1, ZenonT(60)
    <3>2. /\ net'[Ctrl(c)].c = net[Ctrl(c)].c
          /\ \A j \in Conns : net[j].s = "none" =>
               net'[j].s = "none" /\ net'[j].toS = net[j].toS /\ net'[j].toC = net[j].toC
      BY <2>1, SMTT(30)
    <3> QED
      BY <3>1, <3>2, ClientKept, ZenonT(60)
  <2>3. CASE Ctrl(c) = k
    BY <2>2, <2>3, SMTT(30) DEF TalkOK
  <2>4. CASE Ctrl(c) # k
    <3>1. /\ \/ net'[Ctrl(c)].toS = net[Ctrl(c)].toS
             \/ net[Ctrl(c)].toS # <<>> /\ net'[Ctrl(c)].toS = Tail(net[Ctrl(c)].toS)
          /\ net'[Ctrl(c)].toC = net[Ctrl(c)].toC /\ net'[Ctrl(c)].c = net[Ctrl(c)].c
          /\ net'[Ctrl(c)].s \in {net[Ctrl(c)].s, "closed"}
      BY <2>1, <2>4, ZenonT(60)
    <3> QED
      BY <2>2, <2>4, <3>1, TalkKept, ZenonT(60)
  <2> QED
    BY <2>3, <2>4, SMTT(30)
<1> QED
  BY <1>1, <1>2, SMTT(30)

\* A message read from, and one sent on, the control connection.
LEMMA ReplyLink ==
  ASSUME NEW n \in Net, NEW k \in Conns, NEW e \in Messages, n[k].toS # <<>>,
         net' = SentC(TookS(n, k), k, <<e>>)
  PROVE  /\ net' \in Net /\ net'[k].toS = Tail(n[k].toS) /\ net'[k].toC = Append(n[k].toC, e)
         /\ net'[k].c = n[k].c /\ net'[k].s = n[k].s
         /\ \A j \in Conns : j # k => net'[j] = n[j]
<1> DEFINE u == TookS(n, k)
<1>1. /\ u \in Net /\ u[k].toS = Tail(n[k].toS) /\ u[k].toC = n[k].toC
      /\ u[k].c = n[k].c /\ u[k].s = n[k].s
      /\ \A j \in Conns : j # k => u[j] = n[j]
  BY TookSLink, ZenonT(60)
<1>2. net' = SentC(u, k, <<e>>)
  BY ZenonT(60)
<1> HIDE DEF u
<1>3. /\ SentC(u, k, <<e>>) \in Net
      /\ SentC(u, k, <<e>>)[k].toC = Append(u[k].toC, e)
      /\ SentC(u, k, <<e>>)[k].toS = u[k].toS
      /\ SentC(u, k, <<e>>)[k].c = u[k].c /\ SentC(u, k, <<e>>)[k].s = u[k].s
      /\ \A j \in Conns : j # k => SentC(u, k, <<e>>)[j] = u[j]
  BY <1>1, SentCLink, ZenonT(60)
<1> QED
  BY <1>1, <1>2, <1>3, ZenonT(60)

\* The cookie of a control connection keeps the invariant: it is the connection's
\* client's, or the other end is closed and the parameters never come.
LEMMA ReadCookieKeeps ==
  ASSUME ControlInv, ReadCookie
  PROVE  ControlInv'
<1> DEFINE k == server.ctrl
           e == State("PARAM_EXCHANGE")
<1>1. /\ k \in Conns /\ net[k].s = "open" /\ net \in Net /\ k # NoConn /\ server.pc = "cookie"
      /\ server.state = "START" /\ server.streams = {} /\ server.acc = NoConn
      /\ server.done = FALSE
  BY Holds, CtrlConn, ZenonT(60) DEF ReadCookie, ControlInv, ServerOK, Servers
<1>2. /\ e \in Messages /\ e[1] = "state"
      /\ e \notin {State("CREATE_STREAMS"), State("DISPLAY_RESULTS"), State("TEST_START"),
                   State("TEST_RUNNING")}
  BY Bytes, ZenonT(60) DEF States
<1> HIDE DEF e
<1>3. /\ server' \in Servers /\ server'.pc = "params" /\ server'.state = "PARAM_EXCHANGE"
      /\ server'.ctrl = server.ctrl /\ server'.streams = server.streams
      /\ server'.acc = server.acc /\ server'.done = server.done
      /\ ServerSame /\ backlog' = backlog
  <2>1. \E c \in Clients \cup {NoClient} :
          server' = [server EXCEPT !.pc = "params", !.state = "PARAM_EXCHANGE", !.cookie = c]
    <3>1. CASE \E c \in Clients :
                 server' = [server EXCEPT !.pc = "params", !.state = "PARAM_EXCHANGE", !.cookie = c]
      BY <3>1, ZenonT(60)
    <3>2. CASE server' = [server EXCEPT !.pc = "params", !.state = "PARAM_EXCHANGE"]
      <4>1. server.cookie \in Clients \cup {NoClient}
        BY Holds, ZenonT(60) DEF Servers
      <4>2. server' = [server EXCEPT !.pc = "params", !.state = "PARAM_EXCHANGE",
                                     !.cookie = server.cookie]
        BY <3>2, Holds, ZenonT(60) DEF Servers
      <4> QED
        BY <4>1, <4>2, ZenonT(60)
    <3> QED
      BY <3>1, <3>2, ZenonT(60) DEF ReadCookie
  <2>2. PICK c \in Clients \cup {NoClient} :
          server' = [server EXCEPT !.pc = "params", !.state = "PARAM_EXCHANGE", !.cookie = c]
    BY <2>1, ZenonT(60)
  <2>3. server \in Servers
    BY Holds, SMTT(30)
  <2> QED
    BY <2>2, <2>3, ZenonT(60) DEF ReadCookie, Servers, States
<1>4. /\ net' \in Net /\ net'[k].toC = Append(net[k].toC, e)
      /\ net'[k].c = net[k].c /\ net'[k].s = net[k].s
      /\ net'[k].toS = net[k].toS \/ (net[k].toS # <<>> /\ net'[k].toS = Tail(net[k].toS))
      /\ \A j \in Conns : j # k => net'[j] = net[j]
      /\ \/ server'.cookie = k[1]
         \/ net'[k].toS = <<>> /\ net'[k].c = "closed"
  <2>1. CASE \E c \in Clients : /\ ServerReads(k, <<"cookie", c>>) /\ server'.cookie = c
                                /\ net' = SentC(TookS(net, k), k, <<e>>)
    <3>1. PICK c \in Clients : ServerReads(k, <<"cookie", c>>) /\ server'.cookie = c
      BY <2>1, ZenonT(60)
    <3>2. net[k].toS # <<>> /\ net[k].toS \in Seq(Messages) /\ Head(net[k].toS) = <<"cookie", c>>
      BY <1>1, <3>1, Holds, ZenonT(60) DEF ServerReads, Link
    <3>3. c = k[1]
      <4>1. Carries(k, net[k].toS)
        BY <1>1, ZenonT(60) DEF ControlInv
      <4>2. 1 \in 1 .. Len(net[k].toS) /\ net[k].toS[1] = <<"cookie", c>>
        BY <3>2, TailOf, SMTT(30)
      <4> HIDE DEF k
      <4> QED
        BY <4>1, <4>2, SMTT(30) DEF Carries
    <3> QED
      BY <1>1, <1>2, <2>1, <3>1, <3>2, <3>3, ReplyLink, ZenonT(60)
  <2>2. CASE ServerEOF(k) /\ net' = SentC(net, k, <<e>>)
    BY <1>1, <1>2, <2>2, SentCLink, ZenonT(60) DEF ServerEOF
  <2> QED
    BY <2>1, <2>2, Holds, ZenonT(60) DEF ReadCookie, e, Servers
<1>5. TypeOK'
  BY <1>3, <1>4, Types, TypesNext, SMTT(30) DEF ControlInv, ServerSame
<1>6. ServerOK'
  BY <1>1, <1>3, SMTT(30) DEF ServerOK, Testing
<1>7. LinksOK'
  <2>1. LinksOK /\ \A i \in 1 .. Len(backlog) : backlog[i] \in Conns
    BY Types, QueueLen, SMTT(30) DEF ControlInv
  <2>2. \A i \in 1 .. Len(backlog') : net'[backlog'[i]].s = "queued"
    BY <1>3, <1>4, <2>1, SMTT(30) DEF LinksOK
  <2>3. \A i, j \in 1 .. Len(backlog') : backlog'[i] = backlog'[j] => i = j
    BY <1>3, <2>1, SMTT(30) DEF LinksOK
  <2> QED
    BY <1>1, <1>3, <1>4, <2>2, <2>3, SMTT(30) DEF LinksOK, ServerEOF
<1>8. ASSUME NEW c \in Clients, Ctrl(c) = k
      PROVE  Conversation(c)' /\ Inbox(net'[k].toC, c, client[c], got', has[c])
  <2>1. Conversation(c) /\ Inbox(net[k].toC, c, client[c], got, has[c])
    BY <1>8, ZenonT(60) DEF ControlInv, TalkOK
  <2>2. net[k].toC \in Seq(Messages) /\ net[k].toS \in Seq(Messages)
    BY <1>1, Holds, SMTT(30) DEF Link
  <2>3. \A m \in {State("CREATE_STREAMS"), State("TEST_START"), State("TEST_RUNNING")} :
          ~In(m, net[k].toC) => ~In(m, net'[k].toC)
    BY <1>2, <1>4, <2>2, AppendIn, SMTT(30)
  <2>4. ~In(State("TEST_END"), net[k].toS) => ~In(State("TEST_END"), net'[k].toS)
    BY <1>4, <2>2, TailIn, ZenonT(60)
  <2>5. Conversation(c)'
    BY <1>1, <1>3, <1>8, <2>1, <2>3, <2>4, ZenonT(60) DEF Conversation, NoToken, ServerSame
  <2>6. Inbox(net'[k].toC, c, client[c], got, has[c])
    BY <1>2, <1>4, <2>1, <2>2, InboxAppend, ZenonT(60)
  <2> QED
    BY <1>3, <2>5, <2>6, ZenonT(60) DEF ServerSame
<1>9. /\ \A j \in Conns : Carries(j, net[j].toS)'
      /\ \A c \in Clients :
           ClientOK(c)' /\ TalkOK(c)' /\ Inbox(net[Ctrl(c)].toC, c, client[c], got, has[c])'
  <2>1. \A j \in Conns :
           /\ net'[j].c = net[j].c
           /\ net'[j].toS = net[j].toS \/ (net[j].toS # <<>> /\ net'[j].toS = Tail(net[j].toS))
           /\ net'[j].s \in {net[j].s, "closed"}
           /\ j # k => net'[j].toC = net[j].toC
           /\ net[j].s = "none" => net'[j] = net[j]
    BY <1>1, <1>4, SMTT(30)
  <2> HIDE DEF k
  <2> QED
    BY <1>1, <1>3, <1>4, <1>8, <2>1, Replied, ZenonT(60) DEF k, ServerSame
<1> QED
  BY <1>5, <1>6, <1>7, <1>9, ZenonT(60) DEF ControlInv

\* The parameters come on the control connection of the client whose cookie the
\* server holds, never on a stream.
LEMMA ParamsOwn ==
  ASSUME ControlInv, server.pc = "params",
         \E c \in Clients : ServerReads(server.ctrl, <<"params", c>>)
  PROVE  /\ server.ctrl \in Conns /\ net[server.ctrl].s = "open" /\ server.ctrl # NoConn
         /\ net[server.ctrl].toS # <<>> /\ server.cookie \in Clients
         /\ server.ctrl = Ctrl(server.cookie)
         /\ server.state = "PARAM_EXCHANGE" /\ server.streams = {}
         /\ server.acc = NoConn /\ server.done = FALSE
<1> DEFINE k == server.ctrl
<1>1. /\ k \in Conns /\ net[k].s = "open" /\ k # NoConn
      /\ server.state = "PARAM_EXCHANGE" /\ server.streams = {}
      /\ server.acc = NoConn /\ server.done = FALSE
  BY Holds, CtrlConn, ZenonT(60) DEF ControlInv, ServerOK, Servers
<1>2. PICK c \in Clients : ServerReads(k, <<"params", c>>)
  BY ZenonT(60)
<1>3. /\ net[k].toS # <<>> /\ net[k].toS \in Seq(Messages)
      /\ Head(net[k].toS) = <<"params", c>>
  BY <1>1, <1>2, Holds, SMTT(30) DEF ServerReads, Link
<1>4. 1 \in 1 .. Len(net[k].toS) /\ net[k].toS[1] = <<"params", c>>
  BY <1>3, TailOf, SMTT(30)
<1>5. Carries(k, net[k].toS)
  BY <1>1, SMTT(30) DEF ControlInv
<1>6. server.cookie = k[1]
  BY <1>3, ZenonT(60) DEF ControlInv, LinksOK, ServerEOF
<1>7. k[2] = 0
  <2> HIDE DEF k
  <2> QED
    BY <1>4, <1>5, SMTT(30) DEF Carries
<1> QED
  BY <1>1, <1>3, <1>6, <1>7, CtrlConn, SMTT(30)

\* get_parameters keeps the invariant: CREATE_STREAMS is sent for the first time.
LEMMA ReadParamsKeeps ==
  ASSUME ControlInv, ReadParams
  PROVE  ControlInv'
<1> DEFINE k == server.ctrl
           e == State("CREATE_STREAMS")
<1>1. /\ k \in Conns /\ net[k].s = "open" /\ net \in Net /\ k # NoConn /\ net[k].toS # <<>>
      /\ server.cookie \in Clients /\ k = Ctrl(server.cookie)
      /\ server.state = "PARAM_EXCHANGE" /\ server.streams = {} /\ server.acc = NoConn
      /\ server.done = FALSE
  BY ParamsOwn, Holds, ZenonT(60) DEF ReadParams
<1>2. /\ e \in Messages /\ e[1] = "state"
      /\ e \notin {State("TEST_START"), State("TEST_RUNNING")}
  BY Bytes, ZenonT(60) DEF States
<1>3. /\ server' \in Servers /\ server'.pc = "select" /\ server'.state = "CREATE_STREAMS"
      /\ server'.ctrl = server.ctrl /\ server'.streams = server.streams
      /\ server'.acc = server.acc /\ server'.done = server.done /\ server'.cookie = server.cookie
      /\ ServerSame /\ backlog' = backlog
  BY Holds, ZenonT(60) DEF ReadParams, Servers, States
<1>4. /\ net' \in Net /\ net'[k].toC = Append(net[k].toC, e) /\ net'[k].toS = Tail(net[k].toS)
      /\ net'[k].c = net[k].c /\ net'[k].s = net[k].s
      /\ \A j \in Conns : j # k => net'[j] = net[j]
  BY <1>1, <1>2, ReplyLink, ZenonT(60) DEF ReadParams
<1> HIDE DEF e
<1>5. TypeOK'
  BY <1>3, <1>4, Types, TypesNext, SMTT(30) DEF ControlInv, ServerSame
<1>6. ServerOK'
  BY <1>1, <1>3, ZenonT(60) DEF ServerOK, Testing
<1>7. LinksOK'
  <2>1. LinksOK /\ \A i \in 1 .. Len(backlog) : backlog[i] \in Conns
    BY Types, QueueLen, ZenonT(60) DEF ControlInv
  <2>2. \A i \in 1 .. Len(backlog') : net'[backlog'[i]].s = "queued"
    BY <1>3, <1>4, <2>1, SMTT(30) DEF LinksOK
  <2>3. \A i, j \in 1 .. Len(backlog') : backlog'[i] = backlog'[j] => i = j
    BY <1>3, <2>1, SMTT(30) DEF LinksOK
  <2> QED
    BY <1>1, <1>3, <1>4, <2>2, <2>3, SMTT(30) DEF LinksOK, ServerEOF
<1>8. ASSUME NEW c \in Clients, Ctrl(c) = k
      PROVE  Conversation(c)' /\ Inbox(net'[k].toC, c, client[c], got', has[c])
  <2>1. Conversation(c) /\ Inbox(net[k].toC, c, client[c], got, has[c])
    BY <1>8, ZenonT(60) DEF ControlInv, TalkOK
  <2>2. net[k].toC \in Seq(Messages) /\ net[k].toS \in Seq(Messages)
    BY <1>1, Holds, SMTT(30) DEF Link
  <2>3. \A m \in {State("TEST_START"), State("TEST_RUNNING")} :
          ~In(m, net[k].toC) => ~In(m, net'[k].toC)
    BY <1>2, <1>4, <2>2, AppendIn, SMTT(30)
  <2>4. ~In(State("TEST_END"), net[k].toS) => ~In(State("TEST_END"), net'[k].toS)
    BY <1>1, <1>4, <2>2, TailIn, SMTT(30)
  <2>5. Conversation(c)'
    BY <1>1, <1>3, <1>8, <2>1, <2>3, <2>4, ZenonT(60) DEF Conversation, NoToken, ServerSame
  <2>6. ~In(e, net[k].toC) /\ client[c].made = 0 /\ client[c].pc # "streams"
    BY <1>1, <1>8, <2>1, ZenonT(60) DEF Conversation, e
  <2>7. Inbox(net'[k].toC, c, client[c], got, has[c])
    BY <1>2, <1>4, <2>1, <2>2, <2>6, InboxCreate, ZenonT(60) DEF e
  <2> QED
    BY <1>3, <2>5, <2>7, ZenonT(60) DEF ServerSame
<1>9. /\ \A j \in Conns : Carries(j, net[j].toS)'
      /\ \A c \in Clients :
           ClientOK(c)' /\ TalkOK(c)' /\ Inbox(net[Ctrl(c)].toC, c, client[c], got, has[c])'
  <2>1. \A j \in Conns :
           /\ net'[j].c = net[j].c
           /\ net'[j].toS = net[j].toS \/ (net[j].toS # <<>> /\ net'[j].toS = Tail(net[j].toS))
           /\ net'[j].s \in {net[j].s, "closed"}
           /\ j # k => net'[j].toC = net[j].toC
           /\ net[j].s = "none" => net'[j] = net[j]
    BY <1>1, <1>4, SMTT(30)
  <2> HIDE DEF k
  <2> QED
    BY <1>1, <1>3, <1>4, <1>8, <2>1, Replied, ZenonT(60) DEF k, ServerSame
<1> QED
  BY <1>5, <1>6, <1>7, <1>9, ZenonT(60) DEF ControlInv

\* SERVER_ERROR keeps the invariant.
LEMMA ListenFailsKeeps ==
  ASSUME ControlInv, ListenFails
  PROVE  ControlInv'
<1> DEFINE k == server.ctrl
           e == State("SERVER_ERROR")
           n == SentC(TookS(net, k), k, <<e>>)
<1>1. k \in Conns /\ net \in Net /\ net[k].toS # <<>>
  BY ParamsOwn, Holds, ZenonT(60) DEF ListenFails
<1>2. /\ e \in Messages /\ e[1] = "state" 
      /\ e \notin {State("CREATE_STREAMS"), State("DISPLAY_RESULTS")}
  BY Bytes, ZenonT(60) DEF States
<1> HIDE DEF e
<1>3. /\ n \in Net /\ n[k].toC = Append(net[k].toC, e) /\ n[k].toS = Tail(net[k].toS)
      /\ n[k].c = net[k].c /\ n[k].s = net[k].s
      /\ \A j \in Conns : j # k => n[j] = net[j]
  <2> DEFINE u == TookS(net, k)
  <2>1. /\ u \in Net /\ u[k].toS = Tail(net[k].toS) /\ u[k].toC = net[k].toC
        /\ u[k].c = net[k].c /\ u[k].s = net[k].s
        /\ \A j \in Conns : j # k => u[j] = net[j]
    BY <1>1, TookSLink, ZenonT(60)
  <2> HIDE DEF u
  <2>2. /\ SentC(u, k, <<e>>) \in Net
        /\ SentC(u, k, <<e>>)[k].toC = Append(u[k].toC, e)
        /\ SentC(u, k, <<e>>)[k].toS = u[k].toS
        /\ SentC(u, k, <<e>>)[k].c = u[k].c /\ SentC(u, k, <<e>>)[k].s = u[k].s
        /\ \A j \in Conns : j # k => SentC(u, k, <<e>>)[j] = u[j]
    BY <1>1, <1>2, <2>1, SentCLink, ZenonT(60)
  <2> QED
    BY <2>1, <2>2, ZenonT(60) DEF u
<1>4. EndRun(n) /\ ServerSame
  BY ZenonT(60) DEF ListenFails, e
<1> HIDE DEF n
<1>5. net[k].toC \in Seq(Messages) /\ net[k].toS \in Seq(Messages)
  BY <1>1, Holds, SMTT(30) DEF Link
<1>6. ASSUME NEW j \in Conns
      PROVE  /\ n[j].c = net[j].c /\ n[j].s = net[j].s /\ Carries(j, n[j].toS)
             /\ j # server.ctrl => n[j].toS = net[j].toS /\ n[j].toC = net[j].toC
  BY <1>1, <1>3, <1>5, CarriesTail, SMTT(30) DEF ControlInv
<1>7. ASSUME NEW c \in Clients
      PROVE  Inbox(n[Ctrl(c)].toC, c, client[c], got, has[c])
  <2>1. Inbox(net[Ctrl(c)].toC, c, client[c], got, has[c]) /\ Ctrl(c) \in Conns
    BY CtrlConn, ZenonT(60) DEF ControlInv
  <2>2. CASE Ctrl(c) = k
    BY <1>2, <1>3, <1>5, <2>1, <2>2, InboxAppend, ZenonT(60)
  <2>3. CASE Ctrl(c) # k
    BY <1>3, <2>1, <2>3, ZenonT(60)
  <2> QED
    BY <2>2, <2>3, ZenonT(60)
<1>8. interrupts' \in 0 .. MaxInterrupts
  BY <1>4, Types, ZenonT(60) DEF ControlInv, ServerSame
<1> QED
  BY <1>3, <1>4, <1>6, <1>7, <1>8, RunEnds, SMTT(30) DEF EndRun, ServerSame

\* TEST_END comes from the client whose test runs, and comes once.
LEMMA TestEndOwn ==
  ASSUME ControlInv, Talks, ServerReads(server.ctrl, State("TEST_END"))
  PROVE  /\ server.ctrl \in Conns /\ net[server.ctrl].s = "open"
         /\ net[server.ctrl].toS # <<>> /\ server.ctrl = Ctrl(server.cookie)
         /\ server.cookie \in Clients
         /\ server.state = "TEST_RUNNING" /\ Token(server.cookie)
         /\ ~In(State("TEST_RUNNING"), net[server.ctrl].toC)
         /\ client[server.cookie].state # "TEST_RUNNING"
         /\ ~In(State("TEST_END"), Tail(net[server.ctrl].toS))
<1> DEFINE k == server.ctrl
           c == server.cookie
<1>1. k \in Conns /\ net[k].s = "open" /\ k # NoConn
  BY Holds, ZenonT(60) DEF Talks
<1>2. server.state \in {"CREATE_STREAMS", "TEST_RUNNING", "DISPLAY_RESULTS"} /\ k = Ctrl(c)
  BY <1>1, ZenonT(60) DEF Talks, ControlInv, ServerOK, Testing
<1>3. c \in Clients
  BY <1>1, <1>2, CtrlConn, SMTT(30) DEF Ctrl, Conns
<1>4. Conversation(c)
  BY <1>2, <1>3, ZenonT(60) DEF ControlInv, TalkOK
<1>5. /\ net[k].toS \in Seq(Messages) /\ net[k].toS # <<>> /\ Head(net[k].toS) = State("TEST_END")
  BY <1>1, Holds, ZenonT(60) DEF ServerReads, Link
<1>6. In(State("TEST_END"), net[k].toS)
  BY <1>5, HeadIn, ZenonT(60)
<1>7. server.state = "TEST_RUNNING" /\ Token(c)
  BY <1>2, <1>4, <1>6, ZenonT(60) DEF Conversation, NoToken
<1>8. /\ ~In(State("TEST_RUNNING"), net[k].toC) /\ client[c].state # "TEST_RUNNING"
      /\ Once(State("TEST_END"), net[k].toS)
  BY <1>2, <1>6, <1>7, ZenonT(60) DEF Token
<1>9. ~In(State("TEST_END"), Tail(net[k].toS))
  BY <1>5, <1>8, TailIn, SMTT(30)
<1> QED
  BY <1>1, <1>2, <1>3, <1>5, <1>7, <1>8, <1>9, SMTT(30)

\* TEST_END keeps the invariant: the token is used up, the streams are closed.
LEMMA HandleTestEndKeeps ==
  ASSUME ControlInv, HandleTestEnd
  PROVE  ControlInv'
<1> DEFINE k == server.ctrl
           e == State("EXCHANGE_RESULTS")
<1>1. /\ k \in Conns /\ net[k].s = "open" /\ net \in Net /\ net[k].toS # <<>>
      /\ server.cookie \in Clients /\ k = Ctrl(server.cookie) /\ k # NoConn
      /\ server.state = "TEST_RUNNING" /\ server.acc = NoConn
      /\ ~In(State("TEST_RUNNING"), net[k].toC)
      /\ client[server.cookie].state # "TEST_RUNNING"
      /\ ~In(State("TEST_END"), Tail(net[k].toS))
  BY TestEndOwn, Holds, SMTT(30) DEF HandleTestEnd, Talks, ControlInv, ServerOK
<1>2. /\ e \in Messages /\ e[1] = "state"
      /\ e \notin {State("CREATE_STREAMS"), State("DISPLAY_RESULTS"), State("TEST_RUNNING")}
  BY Bytes, ZenonT(60) DEF States
<1>3. /\ server' \in Servers /\ server'.pc = "results" /\ server'.state = "EXCHANGE_RESULTS"
      /\ server'.ctrl = server.ctrl /\ server'.streams = server.streams
      /\ server'.acc = server.acc /\ server'.done = TRUE /\ server'.cookie = server.cookie
      /\ ServerSame /\ backlog' = backlog
  BY Holds, ZenonT(60) DEF HandleTestEnd, Servers, States
<1>4. /\ \A j \in server.streams : j # k /\ j \in Conns /\ net[j].s # "none"
      /\ \A j \in server.streams : j \in Streams(server.cookie) \/ net[j].c = "closed"
  BY Holds, ZenonT(60) DEF ControlInv, LinksOK
<1>5. /\ net' \in Net /\ net'[k].toC = Append(net[k].toC, e) /\ net'[k].toS = Tail(net[k].toS)
      /\ net'[k].c = net[k].c /\ net'[k].s = net[k].s
      /\ \A j \in Conns : /\ j # k => net'[j].toC = net[j].toC /\ net'[j].toS = net[j].toS
                          /\ net'[j].c = net[j].c
                          /\ j \in server.streams => net'[j].s = "closed"
                          /\ j \notin server.streams => net'[j].s = net[j].s
  <2> DEFINE u == TookS(net, k)
             w == ServerCloses(u, server.streams)
  <2>1. /\ u \in Net /\ u[k].toS = Tail(net[k].toS) /\ u[k].toC = net[k].toC
        /\ u[k].c = net[k].c /\ u[k].s = net[k].s
        /\ \A j \in Conns : j # k => u[j] = net[j]
    BY <1>1, TookSLink, ZenonT(60)
  <2>2. net' = SentC(w, k, <<e>>)
    BY ZenonT(60) DEF HandleTestEnd
  <2> HIDE DEF u, e
  <2>3. /\ w \in Net
        /\ \A j \in Conns :
              /\ w[j].toS = u[j].toS /\ w[j].toC = u[j].toC /\ w[j].c = u[j].c
              /\ w[j].s = IF j \in server.streams /\ u[j].s # "none" THEN "closed" ELSE u[j].s
    BY <2>1, ServerClosesLink, SMTT(30)
  <2> HIDE DEF w
  <2>4. /\ SentC(w, k, <<e>>) \in Net
        /\ SentC(w, k, <<e>>)[k].toC = Append(w[k].toC, e)
        /\ SentC(w, k, <<e>>)[k].toS = w[k].toS
        /\ SentC(w, k, <<e>>)[k].c = w[k].c /\ SentC(w, k, <<e>>)[k].s = w[k].s
        /\ \A j \in Conns : j # k => SentC(w, k, <<e>>)[j] = w[j]
    BY <1>1, <1>2, <2>3, SentCLink, ZenonT(60)
  <2>5. /\ net' \in Net /\ net'[k].toC = Append(net[k].toC, e) /\ net'[k].toS = Tail(net[k].toS)
        /\ net'[k].c = net[k].c /\ net'[k].s = net[k].s
    <3>1. k \notin server.streams /\ k \in Conns
      BY <1>1, <1>4, ZenonT(60)
    <3>2. w[k].toS = u[k].toS /\ w[k].toC = u[k].toC /\ w[k].c = u[k].c /\ w[k].s = u[k].s
      BY <2>3, <3>1, ZenonT(60)
    <3> HIDE DEF k
    <3> QED
      BY <2>1, <2>2, <2>4, <3>2, ZenonT(60)
  <2>6. ASSUME NEW j \in Conns, j # k
        PROVE  /\ net'[j].toC = net[j].toC /\ net'[j].toS = net[j].toS /\ net'[j].c = net[j].c
               /\ j \in server.streams => net'[j].s = "closed"
               /\ j \notin server.streams => net'[j].s = net[j].s
    <3>1. net'[j] = w[j] /\ u[j] = net[j]
      BY <2>1, <2>2, <2>4, <2>6, ZenonT(60)
    <3> QED
      BY <1>4, <2>3, <3>1, SMTT(30)
  <2> QED
    BY <1>4, <2>5, <2>6, ZenonT(60)
<1> HIDE DEF e
<1>6. TypeOK'
  BY <1>3, <1>5, Types, TypesNext, ZenonT(60) DEF ControlInv, ServerSame
<1>7. ServerOK'
  <2>1. Cardinality(server'.streams) = N
    BY <1>1, <1>3, ZenonT(60) DEF ControlInv, ServerOK
  <2> QED
    BY <1>1, <1>3, <2>1, SMTT(30) DEF ServerOK, Testing
<1>8. LinksOK'
  <2>1. LinksOK /\ \A i \in 1 .. Len(backlog) : backlog[i] \in Conns
    BY Types, QueueLen, ZenonT(60) DEF ControlInv
  <2>2. \A i \in 1 .. Len(backlog) : net[backlog[i]].s = "queued"
    BY <2>1, ZenonT(60) DEF LinksOK
  <2>3. \A i \in 1 .. Len(backlog) : backlog[i] \notin server.streams
    BY <2>2, Holds, ZenonT(60)
  <2>4. \A i \in 1 .. Len(backlog') : net'[backlog'[i]].s = "queued"
    BY <1>3, <1>5, <2>1, <2>2, <2>3, SMTT(30)
  <2>5. \A i, j \in 1 .. Len(backlog') : backlog'[i] = backlog'[j] => i = j
    BY <1>3, <2>1, SMTT(30) DEF LinksOK
  <2>6. \A j \in server'.streams : /\ j # server'.ctrl /\ net'[j].s = "closed"
                                   /\ j \in Streams(server'.cookie) \/ net'[j].c = "closed"
    BY <1>3, <1>4, <1>5, SMTT(30)
  <2> QED
    BY <1>1, <1>3, <1>5, <2>4, <2>5, <2>6, SMTT(30) DEF LinksOK, ServerEOF
<1>9. ASSUME NEW c \in Clients, Ctrl(c) = k
      PROVE  Conversation(c)' /\ Inbox(net'[k].toC, c, client[c], got', has[c])
  <2>1. c = server.cookie /\ Inbox(net[k].toC, c, client[c], got, has[c])
    BY <1>1, <1>9, CtrlConn, ZenonT(60) DEF ControlInv
  <2>2. net[k].toC \in Seq(Messages) /\ net[k].toS \in Seq(Messages)
    BY <1>1, Holds, ZenonT(60) DEF Link
  <2>3. ~In(State("TEST_RUNNING"), net'[k].toC)
    <3> HIDE DEF k
    <3>1. ~In(State("TEST_RUNNING"), net[k].toC) /\ State("TEST_RUNNING") # e
      BY <1>1, <1>2, ZenonT(60)
    <3> QED
      BY <1>2, <1>5, <2>2, <3>1, AppendIn, SMTT(30)
  <2>4. ~In(State("TEST_END"), net'[k].toS)
    BY <1>1, <1>5, ZenonT(60)
  <2>5. Conversation(c)'
    BY <1>1, <1>3, <1>9, <2>1, <2>3, <2>4, ZenonT(60) DEF Conversation, NoToken, ServerSame
  <2>6. Inbox(net'[k].toC, c, client[c], got, has[c])
    <3> HIDE DEF k
    <3>1. Inbox(Append(net[k].toC, e), c, client[c], got, has[c])
      BY <1>2, <2>1, <2>2, InboxAppend, SMTT(30)
    <3> QED
      BY <1>5, <3>1, ZenonT(60)
  <2> QED
    BY <1>3, <2>5, <2>6, ZenonT(60) DEF ServerSame
<1>10. /\ \A j \in Conns : Carries(j, net[j].toS)'
       /\ \A c \in Clients :
            ClientOK(c)' /\ TalkOK(c)' /\ Inbox(net[Ctrl(c)].toC, c, client[c], got, has[c])'
  <2>1. \A j \in Conns : net[j].s = "none" => net'[j] = net[j]
    <3> TAKE j \in Conns
    <3> HAVE net[j].s = "none"
    <3>1. /\ net'[j].toC = net[j].toC /\ net'[j].toS = net[j].toS /\ net'[j].c = net[j].c
          /\ net'[j].s = net[j].s /\ net'[j] \in Link /\ net[j] \in Link
      BY <1>1, <1>4, <1>5, ZenonT(60) DEF Net
    <3> HIDE DEF k
    <3> QED
      BY <3>1, SameLink, ZenonT(60)
  <2>2. \A j \in Conns :
           /\ net'[j].c = net[j].c
           /\ net'[j].toS = net[j].toS \/ (net[j].toS # <<>> /\ net'[j].toS = Tail(net[j].toS))
           /\ net'[j].s \in {net[j].s, "closed"}
           /\ j # k => net'[j].toC = net[j].toC
           /\ net[j].s = "none" => net'[j] = net[j]
    BY <1>1, <1>5, <2>1, SMTT(30)
  <2>3. /\ net' \in Net /\ net'[k].s = "open" /\ server'.ctrl = k
        /\ client' = client /\ has' = has /\ got \subseteq got'
    BY <1>1, <1>3, <1>5, SMTT(30) DEF ServerSame
  <2> QED
    BY <1>1, <1>9, <2>2, <2>3, Replied, ZenonT(60)
<1> QED
  BY <1>6, <1>7, <1>8, <1>10, ZenonT(60) DEF ControlInv

\* The results the server reads are those of the client it serves.
LEMMA ResultsOwn ==
  ASSUME ControlInv, server.pc = "results", NEW c \in Clients,
         ServerReads(server.ctrl, <<"results", c>>)
  PROVE  /\ server.ctrl \in Conns /\ net[server.ctrl].s = "open" /\ server.ctrl # NoConn
         /\ net[server.ctrl].toS # <<>> /\ server.ctrl = Ctrl(c) /\ server.cookie = c
         /\ server.state = "EXCHANGE_RESULTS" /\ server.acc = NoConn /\ server.done = TRUE
<1> DEFINE k == server.ctrl
<1>1. /\ k \in Conns /\ net[k].s = "open" /\ k # NoConn
      /\ server.state = "EXCHANGE_RESULTS" /\ server.acc = NoConn /\ server.done = TRUE
      /\ k = Ctrl(server.cookie)
  BY Holds, CtrlConn, ZenonT(60) DEF ControlInv, ServerOK, Servers, Testing
<1>2. /\ net[k].toS # <<>> /\ net[k].toS \in Seq(Messages)
      /\ Head(net[k].toS) = <<"results", c>>
  BY <1>1, Holds, ZenonT(60) DEF ServerReads, Link
<1>3. 1 \in 1 .. Len(net[k].toS) /\ net[k].toS[1] = <<"results", c>>
  BY <1>2, TailOf, ZenonT(60)
<1>4. Carries(k, net[k].toS)
  BY <1>1, ZenonT(60) DEF ControlInv
<1>5. k[2] = 0 /\ k[1] = server.cookie
  BY <1>1, SMTT(30) DEF Ctrl
<1>6. c = server.cookie
  <2> HIDE DEF k
  <2> QED
    BY <1>3, <1>4, <1>5, SMTT(30) DEF Carries
<1> QED
  BY <1>1, <1>2, <1>6, SMTT(30)

\* The exchange of the results keeps the invariant.
LEMMA ReadResultsKeeps ==
  ASSUME ControlInv, ReadResults
  PROVE  ControlInv'
<1> DEFINE k == server.ctrl
           d == State("DISPLAY_RESULTS")
<1>0. PICK c \in Clients : ServerReads(k, <<"results", c>>) /\ got' = got \cup {c}
  BY ZenonT(60) DEF ReadResults
<1> DEFINE e == <<"results", c>>
<1>1. /\ k \in Conns /\ net[k].s = "open" /\ net \in Net /\ net[k].toS # <<>>
      /\ server.cookie = c /\ k = Ctrl(c) /\ k # NoConn
      /\ server.state = "EXCHANGE_RESULTS" /\ server.acc = NoConn /\ server.done = TRUE
  BY <1>0, ResultsOwn, Holds, ZenonT(60) DEF ReadResults
<1>2. /\ e \in Messages /\ d \in Messages
      /\ e # State("TEST_RUNNING") /\ d # State("TEST_RUNNING")
  BY Bytes, ZenonT(60) DEF State, States
<1>3. /\ server' \in Servers /\ server'.pc = "select" /\ server'.state = "DISPLAY_RESULTS"
      /\ server'.ctrl = server.ctrl /\ server'.streams = server.streams
      /\ server'.acc = server.acc /\ server'.done = TRUE /\ server'.cookie = server.cookie
      /\ client' = client /\ has' = has /\ interrupts' = interrupts /\ backlog' = backlog
  BY <1>1, Holds, ZenonT(60) DEF ReadResults, Servers, States
<1>4. /\ net' \in Net /\ net'[k].toC = Append(Append(net[k].toC, e), d)
      /\ net'[k].toS = Tail(net[k].toS) /\ net'[k].c = net[k].c /\ net'[k].s = net[k].s
      /\ \A j \in Conns : j # k => net'[j] = net[j]
  <2> DEFINE u == TookS(net, k)
  <2>1. /\ u \in Net /\ u[k].toS = Tail(net[k].toS) /\ u[k].toC = net[k].toC
        /\ u[k].c = net[k].c /\ u[k].s = net[k].s
        /\ \A j \in Conns : j # k => u[j] = net[j]
    BY <1>1, TookSLink, ZenonT(60)
  <2>2. net' = SentC(u, k, <<e, d>>)
    BY <1>1, ZenonT(60) DEF ReadResults
  <2>0. k \in Conns /\ e \in Messages /\ d \in Messages
    BY <1>1, <1>2, ZenonT(60)
  <2> HIDE DEF u, e, d, k
  <2>3. /\ SentC(u, k, <<e, d>>) \in Net
        /\ SentC(u, k, <<e, d>>)[k].toC = Append(Append(u[k].toC, e), d)
        /\ SentC(u, k, <<e, d>>)[k].toS = u[k].toS
        /\ SentC(u, k, <<e, d>>)[k].c = u[k].c /\ SentC(u, k, <<e, d>>)[k].s = u[k].s
        /\ \A j \in Conns : j # k => SentC(u, k, <<e, d>>)[j] = u[j]
    BY <2>0, <2>1, SentTwoLink, ZenonT(60)
  <2> QED
    BY <2>1, <2>2, <2>3, ZenonT(60)
<1>5. TypeOK'
  BY <1>0, <1>3, <1>4, Types, TypesNext, ZenonT(60) DEF ControlInv
<1>6. ServerOK'
  <2>1. Cardinality(server'.streams) = N
    BY <1>1, <1>3, ZenonT(60) DEF ControlInv, ServerOK
  <2> QED
    BY <1>1, <1>3, <2>1, SMTT(30) DEF ServerOK, Testing
<1>7. LinksOK'
  <2>1. LinksOK /\ \A i \in 1 .. Len(backlog) : backlog[i] \in Conns
    BY Types, QueueLen, SMTT(30) DEF ControlInv
  <2>2. \A i \in 1 .. Len(backlog') : net'[backlog'[i]].s = "queued"
    BY <1>3, <1>4, <2>1, SMTT(30) DEF LinksOK
  <2>3. \A i, j \in 1 .. Len(backlog') : backlog'[i] = backlog'[j] => i = j
    BY <1>3, <2>1, SMTT(30) DEF LinksOK
  <2>4. \A j \in server.streams : j # k /\ j \in Conns
    BY <2>1, Holds, ZenonT(60) DEF LinksOK
  <2>5. \A j \in server.streams : net'[j] = net[j]
    BY <1>4, <2>4, ZenonT(60)
  <2>6. /\ server'.pc # "params" /\ server'.ctrl = server.ctrl
        /\ server'.cookie = server.cookie /\ server'.streams = server.streams
        /\ server'.acc = NoConn /\ server.done
    BY <1>1, <1>3, ZenonT(60)
  <2> QED
    BY <1>1, <1>4, <2>1, <2>2, <2>3, <2>5, <2>6, SMTT(30) DEF LinksOK
<1>8. ASSUME NEW a \in Clients, Ctrl(a) = k
      PROVE  Conversation(a)' /\ Inbox(net'[k].toC, a, client[a], got', has[a])
  <2>1. /\ a = c /\ Conversation(a) /\ Inbox(net[k].toC, a, client[a], got, has[a])
    BY <1>1, <1>8, CtrlConn, ZenonT(60) DEF ControlInv, TalkOK
  <2>2. net[k].toC \in Seq(Messages) /\ net[k].toS \in Seq(Messages)
    BY <1>1, Holds, ZenonT(60) DEF Link
  <2>3. /\ Append(net[k].toC, e) \in Seq(Messages)
        /\ ~In(State("TEST_RUNNING"), net[k].toC) => ~In(State("TEST_RUNNING"), net'[k].toC)
    <3>1. /\ Append(net[k].toC, e) \in Seq(Messages)
          /\ ~In(State("TEST_RUNNING"), net[k].toC) => ~In(State("TEST_RUNNING"), Append(net[k].toC, e))
      BY <1>2, <2>2, AppendIn, ZenonT(60)
    <3> DEFINE v == Append(net[k].toC, e)
    <3>2. In(State("TEST_RUNNING"), Append(v, d)) <=> In(State("TEST_RUNNING"), v) \/ State("TEST_RUNNING") = d
      <4> HIDE DEF v, d
      <4> QED
        BY <1>2, <3>1, AppendIn, ZenonT(60) DEF v
    <3> QED
      BY <1>2, <1>4, <3>1, <3>2, ZenonT(60)
  <2>4. ~In(State("TEST_END"), net[k].toS) => ~In(State("TEST_END"), net'[k].toS)
    BY <1>1, <1>4, <2>2, TailIn, SMTT(30)
  <2>5. Conversation(a)'
    BY <1>1, <1>3, <1>8, <2>1, <2>3, <2>4, ZenonT(60) DEF Conversation, NoToken
  <2>6. Inbox(net[k].toC, a, client[a], got', has[a]) /\ a \in got'
    BY <1>0, <2>1, ZenonT(60) DEF Inbox
  <2>7. Inbox(net'[k].toC, a, client[a], got', has[a])
    BY <1>4, <2>1, <2>2, <2>6, InboxDisplay, SMTT(30)
  <2> QED
    BY <2>5, <2>7, ZenonT(60)
<1>9. /\ \A j \in Conns : Carries(j, net[j].toS)'
      /\ \A a \in Clients :
           ClientOK(a)' /\ TalkOK(a)' /\ Inbox(net[Ctrl(a)].toC, a, client[a], got, has[a])'
  <2>1. \A j \in Conns :
           /\ net'[j].c = net[j].c
           /\ net'[j].toS = net[j].toS \/ (net[j].toS # <<>> /\ net'[j].toS = Tail(net[j].toS))
           /\ net'[j].s \in {net[j].s, "closed"}
           /\ j # k => net'[j].toC = net[j].toC
           /\ net[j].s = "none" => net'[j] = net[j]
    BY <1>1, <1>4, ZenonT(60)
  <2>2. /\ net' \in Net /\ net'[k].s = "open" /\ server'.ctrl = k
        /\ client' = client /\ has' = has /\ got \subseteq got'
    BY <1>0, <1>1, <1>3, <1>4, SMTT(30)
  <2> QED
    BY <1>1, <1>8, <2>1, <2>2, Replied, ZenonT(60)
<1> QED
  BY <1>5, <1>6, <1>7, <1>9, SMTT(30) DEF ControlInv

\* A message that is not under way is not there twice.
LEMMA NotInOnce ==
  ASSUME NEW m, NEW q, ~In(m, q)
  PROVE  Once(m, q)
BY ZenonT(60) DEF In, Once

\* A stream whose cookie matches is one of the client the server serves, or its
\* other end is closed.
LEMMA StreamOwn ==
  ASSUME ControlInv, CookieRead(server.acc), Matches(server.acc)
  PROVE  server.acc \in Streams(server.cookie) \/ net[server.acc].c = "closed"
<1> DEFINE k == server.acc
           q == net[k].toS
<1>1. /\ k \in Conns /\ net[k].s = "open" /\ server.ctrl = Ctrl(server.cookie)
      /\ k # server.ctrl
  BY Holds, ZenonT(60) DEF CookieRead, ControlInv, ServerOK, LinksOK, Testing
<1>2. CASE q = <<>>
  BY <1>2, ZenonT(60) DEF CookieRead, ServerEOF
<1>3. CASE q # <<>>
  <2>1. q \in Seq(Messages) /\ Carries(k, q)
    BY <1>1, Holds, ZenonT(60) DEF Link, ControlInv
  <2>2. 1 \in 1 .. Len(q) /\ q[1][2] = server.cookie
    BY <1>3, <2>1, TailOf, ZenonT(60) DEF Matches
  <2>3. k[1] \in Clients /\ k[2] \in 0 .. N /\ k = <<k[1], k[2]>>
    BY <1>1, SMTT(30) DEF Conns
  <2>4. CASE k[2] # 0
    <3>1. q[1] = <<"cookie", k[1]>>
      <4> HIDE DEF k, q
      <4> QED
        BY <2>1, <2>2, <2>4, ZenonT(60) DEF Carries
    <3>2. k[1] = server.cookie
      BY <2>2, <3>1, SMTT(30)
    <3>3. k[2] \in 1 .. N
      BY <2>3, <2>4, ControlConstants, SMTT(30)
    <3> QED
      BY <2>3, <3>2, <3>3, ZenonT(60) DEF Streams
  <2>5. CASE k[2] = 0
    <3>1. k = Ctrl(k[1])
      BY <2>3, <2>5, ZenonT(60) DEF Ctrl
    <3>2. Untouched(k[1])
      BY <1>1, <2>3, <3>1, SMTT(30) DEF ControlInv, TalkOK
    <3>3. q[1] = <<"cookie", k[1]>> \/ net[k].c = "closed"
      BY <2>2, <3>1, <3>2, ZenonT(60) DEF Untouched
    <3>4. q[1] # <<"cookie", k[1]>>
      BY <1>1, <2>2, <3>1, SMTT(30)
    <3> QED
      BY <3>3, <3>4, ZenonT(60)
  <2> QED
    BY <2>4, <2>5, ZenonT(60)
<1> QED
  BY <1>2, <1>3, SMTT(30)

\* A new stream keeps the invariant; the last one creates the token.
LEMMA TakeStreamKeeps ==
  ASSUME ControlInv, TakeStream
  PROVE  ControlInv'
<1> DEFINE a == server.acc
           k == server.ctrl
           n == Taken(a)
           e == State("TEST_START")
           f == State("TEST_RUNNING")
<1>1. /\ k \in Conns /\ net[k].s = "open" /\ net \in Net /\ k # NoConn
      /\ a \in Conns /\ net[a].s = "open" /\ a # k
      /\ k = Ctrl(server.cookie) /\ server.state = "CREATE_STREAMS" /\ server.done = FALSE
  BY Holds, CtrlConn, SMTT(30) DEF TakeStream, CookieRead, ControlInv, ServerOK, LinksOK, Testing, Servers
<1>2. server.cookie \in Clients
  BY <1>1, CtrlConn, SMTT(30) DEF Ctrl, Conns
<1>3. a \in Streams(server.cookie) \/ net[a].c = "closed"
  BY StreamOwn, ZenonT(60) DEF TakeStream
<1>4. /\ n \in Net
      /\ n[a].toS = net[a].toS \/ (net[a].toS # <<>> /\ n[a].toS = Tail(net[a].toS))
      /\ n[a].toC = net[a].toC /\ n[a].c = net[a].c /\ n[a].s = net[a].s
      /\ \A j \in Conns : j # a => n[j] = net[j]
  BY <1>1, TookSLink, ZenonT(60) DEF Taken
<1>5. /\ e \in Messages /\ f \in Messages /\ e # f /\ e[1] = "state" /\ f[1] = "state"
      /\ e \notin {State("CREATE_STREAMS"), State("DISPLAY_RESULTS")}
      /\ f \notin {State("CREATE_STREAMS"), State("DISPLAY_RESULTS")}
  BY Bytes, ZenonT(60) DEF States
<1>6. /\ server' \in Servers /\ server'.pc = "select" /\ server'.ctrl = k /\ server'.acc = NoConn
      /\ server'.streams = server.streams \cup {a} /\ server'.done = FALSE
      /\ server'.cookie = server.cookie
      /\ \/ server'.state = "CREATE_STREAMS" /\ net' = n
         \/ /\ server'.state = "TEST_RUNNING" /\ net' = SentC(n, k, <<e, f>>)
            /\ Cardinality(server'.streams) = N
      /\ ServerSame /\ backlog' = backlog
  <2>1. server \in Servers
    BY Holds, ZenonT(60)
  <2>2. CASE LastStream(a)
    <3> DEFINE taken == [server EXCEPT !.pc = "select", !.streams = @ \cup {a}, !.acc = NoConn]
    <3>1. server' = [taken EXCEPT !.state = "TEST_RUNNING", !.timer = TRUE]
      BY <2>2, ZenonT(60) DEF TakeStream
    <3>0. /\ taken \in Servers /\ taken.pc = "select" /\ taken.ctrl = k
          /\ taken.acc = NoConn /\ taken.streams = server.streams \cup {a}
          /\ taken.done = server.done /\ taken.cookie = server.cookie
      BY <1>1, <2>1, ZenonT(60) DEF Servers
    <3> HIDE DEF taken
    <3>2. net' = SentC(n, k, <<e, f>>) /\ ServerSame /\ backlog' = backlog
      BY <2>2, ZenonT(60) DEF TakeStream
    <3>3. /\ server' \in Servers /\ server'.pc = "select" /\ server'.ctrl = k
          /\ server'.acc = NoConn /\ server'.streams = server.streams \cup {a}
          /\ server'.done = FALSE /\ server'.cookie = server.cookie
          /\ server'.state = "TEST_RUNNING"
      BY <1>1, <3>0, <3>1, ZenonT(60) DEF Servers, States
    <3> QED
      BY <2>2, <3>2, <3>3, ZenonT(60) DEF LastStream
  <2>3. CASE ~LastStream(a)
    <3>1. server' = [server EXCEPT !.pc = "select", !.streams = server.streams \cup {a},
                                   !.acc = NoConn]
      BY <2>1, <2>3, ZenonT(60) DEF TakeStream, Servers
    <3>2. net' = n /\ ServerSame /\ backlog' = backlog
      BY <2>3, ZenonT(60) DEF TakeStream
    <3>3. /\ server' \in Servers /\ server'.pc = "select" /\ server'.ctrl = k
          /\ server'.acc = NoConn /\ server'.streams = server.streams \cup {a}
          /\ server'.done = FALSE /\ server'.cookie = server.cookie
          /\ server'.state = "CREATE_STREAMS"
      BY <1>1, <2>1, <3>1, ZenonT(60) DEF Servers, States
    <3> QED
      BY <3>2, <3>3, ZenonT(60)
  <2> QED
    BY <2>2, <2>3, ZenonT(60)
<1> HIDE DEF n, e, f
<1>7. /\ net' \in Net
      /\ \A j \in Conns : /\ j # a => net'[j].toS = net[j].toS
                          /\ j # k => net'[j].toC = net[j].toC
                          /\ net'[j].c = net[j].c /\ net'[j].s = net[j].s
                          /\ j # a /\ j # k => net'[j] = net[j]
      /\ net'[a].toS = net[a].toS \/ (net[a].toS # <<>> /\ net'[a].toS = Tail(net[a].toS))
      /\ \/ server'.state = "CREATE_STREAMS" /\ net'[k].toC = net[k].toC
         \/ server'.state = "TEST_RUNNING" /\ net'[k].toC = Append(Append(net[k].toC, e), f)
  <2>1. CASE net' = n /\ server'.state = "CREATE_STREAMS"
    BY <1>1, <1>4, <2>1, ZenonT(60)
  <2>2. CASE net' = SentC(n, k, <<e, f>>) /\ server'.state = "TEST_RUNNING"
    <3>0. n \in Net /\ k \in Conns /\ e \in Messages /\ f \in Messages
      BY <1>1, <1>4, <1>5, SMTT(30)
    <3> HIDE DEF k, a
    <3>1. /\ SentC(n, k, <<e, f>>) \in Net
          /\ SentC(n, k, <<e, f>>)[k].toC = Append(Append(n[k].toC, e), f)
          /\ SentC(n, k, <<e, f>>)[k].toS = n[k].toS
          /\ SentC(n, k, <<e, f>>)[k].c = n[k].c /\ SentC(n, k, <<e, f>>)[k].s = n[k].s
          /\ \A j \in Conns : j # k => SentC(n, k, <<e, f>>)[j] = n[j]
      BY <3>0, SentTwoLink, SMTT(30)
    <3>2. n[k] = net[k] /\ net'[a] = n[a]
      BY <1>1, <1>4, <2>2, <3>1, ZenonT(60)
    <3>3. \A j \in Conns : j # a /\ j # k => net'[j] = net[j]
      BY <1>4, <2>2, <3>1, SMTT(30)
    <3>4. /\ net'[k].toC = Append(Append(net[k].toC, e), f) /\ net'[k].toS = net[k].toS
          /\ net'[k].c = net[k].c /\ net'[k].s = net[k].s
      BY <2>2, <3>1, <3>2, ZenonT(60)
    <3>5. /\ net'[a].toS = net[a].toS \/ (net[a].toS # <<>> /\ net'[a].toS = Tail(net[a].toS))
          /\ net'[a].toC = net[a].toC /\ net'[a].c = net[a].c /\ net'[a].s = net[a].s
      BY <1>4, <3>2, ZenonT(60)
    <3>6. net' \in Net
      BY <2>2, <3>1, SMTT(30)
    <3> QED
      BY <1>1, <2>2, <3>3, <3>4, <3>5, <3>6, ZenonT(60)
  <2> QED
    BY <1>6, <2>1, <2>2, ZenonT(60)
<1>8. TypeOK'
  BY <1>6, <1>7, Types, TypesNext, ZenonT(60) DEF ControlInv, ServerSame
<1>9. ServerOK'
  BY <1>1, <1>6, ZenonT(60) DEF ServerOK, Testing
<1>10. LinksOK'
  <2>1. LinksOK /\ \A i \in 1 .. Len(backlog) : backlog[i] \in Conns
    BY Types, QueueLen, ZenonT(60) DEF ControlInv
  <2>0. \A i \in 1 .. Len(backlog) : net'[backlog[i]].s = net[backlog[i]].s
    BY <1>7, <2>1, ZenonT(60)
  <2>2. \A i \in 1 .. Len(backlog') : net'[backlog'[i]].s = "queued"
    BY <1>6, <2>0, <2>1, SMTT(30) DEF LinksOK
  <2>3. \A i, j \in 1 .. Len(backlog') : backlog'[i] = backlog'[j] => i = j
    BY <1>6, <2>1, SMTT(30) DEF LinksOK
  <2>4. \A j \in server'.streams : /\ j # k /\ net'[j].s \in {"open", "closed"}
                                   /\ j \in Streams(server.cookie) \/ net'[j].c = "closed"
    <3> TAKE j \in server'.streams
    <3>1. CASE j = a
      <4> HIDE DEF a, k
      <4>1. net'[a].s = net[a].s /\ net'[a].c = net[a].c
        BY <1>1, <1>7, ZenonT(60)
      <4> QED
        BY <1>1, <1>3, <3>1, <4>1, ZenonT(60)
    <3>2. CASE j \in server.streams
      <4>1. /\ j \in Conns /\ j # k /\ net[j].s \in {"open", "closed"}
            /\ j \in Streams(server.cookie) \/ net[j].c = "closed"
        BY <1>1, <2>1, <3>2, Holds, SMTT(30) DEF LinksOK
      <4> HIDE DEF a, k
      <4>2. net'[j].s = net[j].s /\ net'[j].c = net[j].c
        BY <1>7, <4>1, ZenonT(60)
      <4> QED
        BY <4>1, <4>2, ZenonT(60)
    <3> QED
      BY <1>6, <3>1, <3>2, ZenonT(60)
  <2>5. net'[k].s = "open"
    BY <1>1, <1>7, ZenonT(60)
  <2> QED
    BY <1>1, <1>6, <2>2, <2>3, <2>4, <2>5, SMTT(30) DEF LinksOK
<1>11. ASSUME NEW c \in Clients, Ctrl(c) = k
       PROVE  Conversation(c)' /\ Inbox(net'[k].toC, c, client[c], got', has[c])
  <2>1. /\ Conversation(c) /\ Inbox(net[k].toC, c, client[c], got, has[c])
        /\ net[k].toC \in Seq(Messages) /\ net'[k].toS = net[k].toS
    BY <1>1, <1>7, <1>11, Holds, ZenonT(60) DEF ControlInv, TalkOK, Link
  <2>2. CASE server'.state = "CREATE_STREAMS" /\ net'[k].toC = net[k].toC
    BY <1>1, <1>6, <1>11, <2>1, <2>2, ZenonT(60) DEF Conversation, NoToken, ServerSame
  <2>3. CASE server'.state = "TEST_RUNNING" /\ net'[k].toC = Append(Append(net[k].toC, e), f)
    <3> DEFINE v == Append(net[k].toC, e)
    <3>1. /\ ~In(f, net[k].toC) /\ client[c].state # "TEST_RUNNING"
          /\ ~In(State("TEST_END"), net[k].toS)
      BY <1>1, <1>11, <2>1, ZenonT(60) DEF Conversation, NoToken, f
    <3>2. v \in Seq(Messages) /\ ~In(f, v)
      <4>1. e \in Messages /\ e # f /\ net[k].toC \in Seq(Messages)
        BY <1>5, <2>1, ZenonT(60)
      <4>2. v \in Seq(Messages) /\ (In(f, v) => In(f, net[k].toC) \/ f = e)
        BY <4>1, AppendIn, ZenonT(60)
      <4> QED
        BY <3>1, <4>1, <4>2, ZenonT(60)
    <3>3. Inbox(v, c, client[c], got, has[c])
      BY <1>5, <2>1, InboxAppend, ZenonT(60)
    <3> HIDE DEF v
    <3>4. Once(f, Append(v, f))
      BY <1>5, <3>2, NotInOnce, AppendIn, ZenonT(60)
    <3>5. Inbox(Append(v, f), c, client[c], got, has[c])
      BY <1>5, <3>2, <3>3, InboxAppend, SMTT(30)
    <3>6. Once(State("TEST_END"), net[k].toS)
      BY <3>1, NotInOnce, ZenonT(60)
    <3>7. Once(f, net'[k].toC) /\ Inbox(net'[k].toC, c, client[c], got, has[c])
      BY <2>3, <3>4, <3>5, SMTT(30) DEF v
    <3>8. Token(c)'
      BY <1>6, <1>11, <2>1, <3>1, <3>6, <3>7, ZenonT(60) DEF Token, ServerSame, f
    <3> QED
      BY <1>6, <2>3, <3>7, <3>8, ZenonT(60) DEF Conversation, ServerSame
  <2> QED
    BY <1>7, <2>2, <2>3, ZenonT(60)
<1>12. /\ \A j \in Conns : Carries(j, net[j].toS)'
       /\ \A c \in Clients :
            ClientOK(c)' /\ TalkOK(c)' /\ Inbox(net[Ctrl(c)].toC, c, client[c], got, has[c])'
  <2>1. \A j \in Conns :
           /\ net'[j].c = net[j].c
           /\ net'[j].toS = net[j].toS \/ (net[j].toS # <<>> /\ net'[j].toS = Tail(net[j].toS))
           /\ net'[j].s \in {net[j].s, "closed"}
           /\ j # k => net'[j].toC = net[j].toC
           /\ net[j].s = "none" => net'[j] = net[j]
    BY <1>1, <1>7, ZenonT(60)
  <2>2. /\ net' \in Net /\ net'[k].s = "open" /\ server'.ctrl = k
        /\ client' = client /\ has' = has /\ got \subseteq got'
    BY <1>1, <1>6, <1>7, ZenonT(60) DEF ServerSame
  <2> QED
    BY <1>1, <1>11, <2>1, <2>2, Replied, ZenonT(60)
<1> QED
  BY <1>8, <1>9, <1>10, <1>12, ZenonT(60) DEF ControlInv

\* iperf_got_sigend of the server keeps the invariant.
LEMMA InterruptKeeps ==
  ASSUME ControlInv, ServerInterrupted
  PROVE  ControlInv'
<1> DEFINE k == server.ctrl
           e == State("SERVER_TERMINATE")
           n == IF k = NoConn THEN net ELSE SentC(net, k, <<e>>)
           ks == Conns \cup {k}
<1>1. /\ e \in Messages /\ e[1] = "state"
      /\ e \notin {State("CREATE_STREAMS"), State("DISPLAY_RESULTS")}
  BY Bytes, ZenonT(60) DEF States
<1>2. /\ server' \in {FreshServer, [FreshServer EXCEPT !.pc = "gone"]}
      /\ net' = ServerCloses(n, Conns) /\ backlog' = <<>> /\ UNCHANGED <<client, got, has>>
      /\ interrupts' \in 0 .. MaxInterrupts
  BY Types, ControlConstants, SMTT(30) DEF ServerInterrupted, ControlInv
<1>3. ServerCloses(n, Conns) = ServerCloses(n, ks)
  BY ZenonT(60) DEF ServerCloses
<1> HIDE DEF e
<1>4. net \in Net /\ (k # NoConn => k \in Conns /\ net[k].s = "open")
  BY Holds, ZenonT(60)
<1>5. /\ n \in Net
      /\ \A j \in Conns : /\ n[j].c = net[j].c /\ n[j].s = net[j].s /\ n[j].toS = net[j].toS
                          /\ j # k => n[j].toC = net[j].toC
      /\ n = net \/ (k \in Conns /\ n[k].toC = Append(net[k].toC, e))
  <2>1. CASE k = NoConn
    BY <1>4, <2>1, ZenonT(60)
  <2>2. CASE k # NoConn
    <3>1. n = SentC(net, k, <<e>>) /\ k \in Conns /\ net \in Net
      BY <1>4, <2>2, ZenonT(60)
    <3> HIDE DEF n, k
    <3>2. /\ SentC(net, k, <<e>>) \in Net
          /\ SentC(net, k, <<e>>)[k].toC = Append(net[k].toC, e)
          /\ SentC(net, k, <<e>>)[k].toS = net[k].toS
          /\ SentC(net, k, <<e>>)[k].c = net[k].c /\ SentC(net, k, <<e>>)[k].s = net[k].s
          /\ \A j \in Conns : j # k => SentC(net, k, <<e>>)[j] = net[j]
      BY <1>1, <3>1, SentCLink, SMTT(30)
    <3>3. \A j \in Conns : j # k => n[j] = net[j]
      BY <3>1, <3>2, ZenonT(60)
    <3>4. /\ n \in Net /\ n[k].toC = Append(net[k].toC, e) /\ n[k].toS = net[k].toS
          /\ n[k].c = net[k].c /\ n[k].s = net[k].s
      BY <3>1, <3>2, ZenonT(60)
    <3> QED
      BY <3>1, <3>3, <3>4, SMTT(30)
  <2> QED
    BY <2>1, <2>2, ZenonT(60)
<1> HIDE DEF n
<1>6. \A j \in Conns : Carries(j, n[j].toS)
  BY <1>5, ZenonT(60) DEF ControlInv
<1>7. ASSUME NEW c \in Clients
      PROVE  Inbox(n[Ctrl(c)].toC, c, client[c], got, has[c])
  <2>1. Inbox(net[Ctrl(c)].toC, c, client[c], got, has[c]) /\ Ctrl(c) \in Conns
    BY CtrlConn, ZenonT(60) DEF ControlInv
  <2>2. CASE n[Ctrl(c)].toC = net[Ctrl(c)].toC
    BY <2>1, <2>2, ZenonT(60)
  <2>3. CASE Ctrl(c) = k /\ n[Ctrl(c)].toC = Append(net[Ctrl(c)].toC, e)
    <3>1. net[Ctrl(c)].toC \in Seq(Messages)
      BY <2>1, Holds, ZenonT(60) DEF Link
    <3> QED
      BY <1>1, <2>1, <2>3, <3>1, InboxAppend, SMTT(30)
  <2> QED
    BY <1>5, <2>1, <2>2, <2>3, ZenonT(60)
<1>8. net' = ServerCloses(n, ks) /\ k \in ks
  BY <1>2, <1>3, ZenonT(60)
<1> HIDE DEF ks
<1> QED
  BY <1>2, <1>5, <1>6, <1>7, <1>8, RunEnds, SMTT(30)

\* Every step of the server.
LEMMA ServerKeeps ==
  ASSUME ControlInv,
         ServerStep \/ DenyFails \/ ListenFails \/ ServerInterrupted \/ ServerRestarted
  PROVE  ControlInv'
<1>1. CASE DenyFails
  BY <1>1, EndRunKeeps, ZenonT(60) DEF DenyFails
<1>2. CASE HandleDone
  BY <1>2, EndRunKeeps, ZenonT(60) DEF HandleDone
<1>3. CASE HandleTerminate
  BY <1>3, EndRunKeeps, ZenonT(60) DEF HandleTerminate
<1>4. CASE ControlFails
  BY <1>4, EndRunKeeps, ZenonT(60) DEF ControlFails
<1> QED
  BY <1>1, <1>2, <1>3, <1>4, ListenKeeps, AcceptControlKeeps, DenyKeeps, ReadCookieKeeps,
     ReadParamsKeeps, AcceptStreamKeeps, TakeStreamKeeps, DenyStreamKeeps, HandleTestEndKeeps,
     ReadResultsKeeps, TimerKeeps, ListenFailsKeeps, InterruptKeeps, RestartKeeps, SMTT(30)
     DEF ServerStep
-----------------------------------------------------------------------------
(* The theorems.                                                           *)

\* The invariant holds initially.
LEMMA InitHolds ==
  Init => ControlInv
<1> SUFFICES ASSUME Init PROVE ControlInv
  BY ZenonT(60)
<1>1. /\ server \in Servers /\ net \in Net /\ client \in ClientTable
      /\ backlog \in Seq(Conns) /\ got \subseteq Clients
      /\ has \in [Clients -> Clients \cup {NoClient}] /\ interrupts \in 0 .. MaxInterrupts
  <2>1. server \in Servers
    BY ZenonT(60) DEF Init, FreshServer, Servers, States
  <2>2. net \in Net
    BY SMTT(30) DEF Init, Net, Link, Ends
  <2>3. client \in ClientTable
    BY ControlConstants, SMTT(30) DEF Init, ClientTable, States
  <2> QED
    BY <2>1, <2>2, <2>3, ControlConstants, SMTT(30) DEF Init
<1>2. TypeOK
  BY <1>1, Types, ZenonT(60)
<1>3. ServerOK
  BY ZenonT(60) DEF Init, FreshServer, ServerOK, Testing
<1>4. LinksOK
  BY SMTT(30) DEF Init, FreshServer, LinksOK
<1>5. \A k \in Conns : Carries(k, net[k].toS)
  BY SMTT(30) DEF Init, Carries
<1>6. ASSUME NEW c \in Clients
      PROVE  ClientOK(c) /\ TalkOK(c) /\ Inbox(net[Ctrl(c)].toC, c, client[c], got, has[c])
  <2>1. Ctrl(c) \in Conns /\ Ctrl(c) # NoConn
    BY CtrlConn, ZenonT(60)
  <2>2. \A i \in 1 .. N : <<c, i>> \in Conns
    BY SMTT(30) DEF Conns
  <2>3. net[Ctrl(c)] = [toS |-> <<>>, toC |-> <<>>, c |-> "none", s |-> "none"]
    BY <2>1, ZenonT(60) DEF Init
  <2>4. \A i \in 1 .. N : net[<<c, i>>].s = "none"
    BY <2>2, ZenonT(60) DEF Init
  <2>5. client[c] = [pc |-> "idle", state |-> "START", made |-> 0, ended |-> FALSE]
    BY ZenonT(60) DEF Init
  <2>6. ClientOK(c)
    BY <2>3, <2>4, <2>5, SMTT(30) DEF ClientOK, Active
  <2>7. TalkOK(c)
    BY <2>1, <2>3, <2>5, SMTT(30) DEF TalkOK, Untouched, Init, FreshServer
  <2> QED
    BY <2>3, <2>6, <2>7, InboxEmpty, SMTT(30)
<1> QED
  BY <1>2, <1>3, <1>4, <1>5, <1>6, SMTT(30) DEF ControlInv

\* The invariant is inductive.
LEMMA NextKeeps ==
  ControlInv /\ [Next]_vars => ControlInv'
<1> SUFFICES ASSUME ControlInv, [Next]_vars PROVE ControlInv'
  BY ZenonT(60)
<1>1. CASE ServerStep \/ DenyFails \/ ListenFails \/ ServerInterrupted \/ ServerRestarted
  BY <1>1, ServerKeeps, ZenonT(60)
<1>2. ASSUME NEW c \in Clients, ClientStep(c) \/ Crash(c) \/ EndTest(c)
      PROVE  ControlInv'
  BY <1>2, ClientKeeps, ZenonT(60)
<1>3. CASE UNCHANGED vars
  <2>1. /\ server' = server /\ client' = client /\ net' = net /\ backlog' = backlog /\ got' = got
        /\ has' = has /\ interrupts' = interrupts
    BY <1>3, ZenonT(60) DEF vars
  <2>2. TypeOK'
    BY <2>1, SMTT(30) DEF ControlInv, TypeOK
  <2>3. ServerOK'
    BY <2>1, SMTT(30) DEF ControlInv, ServerOK
  <2>4. LinksOK'
    BY <2>1, SMTT(30) DEF ControlInv, LinksOK, ServerEOF
  <2>5. \A k \in Conns : Carries(k, net[k].toS)'
    BY <2>1, ZenonT(60) DEF ControlInv
  <2>6. ASSUME NEW c \in Clients
        PROVE  (ClientOK(c) /\ TalkOK(c) /\ Inbox(net[Ctrl(c)].toC, c, client[c], got, has[c]))'
    <3>1. ClientOK(c) /\ TalkOK(c) /\ Inbox(net[Ctrl(c)].toC, c, client[c], got, has[c])
      BY ZenonT(60) DEF ControlInv
    <3>2. ClientOK(c)'
      BY <2>1, <3>1, ZenonT(60) DEF ClientOK, Active
    <3>3. TalkOK(c)'
      BY <2>1, <3>1, ZenonT(60) DEF TalkOK, Untouched, Conversation, Token, NoToken
    <3> QED
      BY <2>1, <3>1, <3>2, <3>3, SMTT(30)
  <2> QED
    BY <2>2, <2>3, <2>4, <2>5, <2>6, SMTT(30) DEF ControlInv
<1> QED
  BY <1>1, <1>2, <1>3, SMTT(30) DEF Next

\* The inductive invariant of the control protocol holds in every reachable state
\* of iperf_run_server and iperf_run_client.
THEOREM ControlAlways == Spec => []ControlInv
<1>1. Init => ControlInv
  BY InitHolds, ZenonT(60)
<1>2. ControlInv /\ [Next]_vars => ControlInv'
  BY NextKeeps, ZenonT(60)
<1> QED
  BY <1>1, <1>2, PTL DEF Spec

\* iperf_accept and iperf_tcp_accept: from CREATE_STREAMS on, the server works on the
\* control connection of the client whose cookie it holds, and its streams are that
\* client's, or closed at their other end.
THEOREM OwnConnectionsAlways == Spec => []OwnConnections
<1>1. ControlInv => OwnConnections
  BY SMTT(30) DEF ControlInv, ServerOK, LinksOK, OwnConnections
<1> QED
  BY <1>1, ControlAlways, PTL

\* TEST_START and TEST_RUNNING: a client whose test runs, on a connection the server
\* has not closed, is the one the server serves, with all the streams.
THEOREM RunsTogetherAlways == Spec => []RunsTogether
<1>1. ControlInv => RunsTogether
  <2> SUFFICES ASSUME ControlInv, NEW c \in Clients, net[Ctrl(c)].s = "open",
                      client[c].state \in {"TEST_START", "TEST_RUNNING", "TEST_END"}
               PROVE  server.cookie = c /\ Cardinality(server.streams) = N
    BY ZenonT(60) DEF RunsTogether
  <2>1. TalkOK(c) /\ ServerOK /\ Ctrl(c) # NoConn
    BY CtrlConn, ZenonT(60) DEF ControlInv
  <2>2. ~Untouched(c)
    BY ZenonT(60) DEF Untouched
  <2>3. server.ctrl = Ctrl(c) /\ Conversation(c)
    BY <2>1, <2>2, ZenonT(60) DEF TalkOK
  <2>4. server.state \notin {"START", "PARAM_EXCHANGE", "CREATE_STREAMS"}
    BY <2>3, ZenonT(60) DEF Conversation, NoToken
  <2>5. server.state \in {"TEST_RUNNING", "EXCHANGE_RESULTS", "DISPLAY_RESULTS"}
    <3>1. server.pc \in {"down", "select", "cookie", "params", "scookie", "results", "gone"}
      BY Holds, ZenonT(60) DEF Servers
    <3> QED
      BY <2>1, <2>3, <2>4, <3>1, SMTT(30) DEF ServerOK
  <2>6. Ctrl(c) = Ctrl(server.cookie) /\ Cardinality(server.streams) = N
    BY <2>1, <2>3, <2>5, SMTT(30) DEF ServerOK, Testing
  <2> QED
    BY <2>6, ZenonT(60) DEF Ctrl
<1> QED
  BY <1>1, ControlAlways, PTL

\* iperf_run_client returns 0, without endTest, only with the results of this test on
\* both sides.
THEOREM ResultsAgreeAlways == Spec => []ResultsAgree
<1>1. ControlInv => ResultsAgree
  BY ZenonT(60) DEF ControlInv, ClientOK, ResultsAgree
<1> QED
  BY <1>1, ControlAlways, PTL

\* A run that ends leaves the closed connections closed.
LEMMA EndRunCloses ==
  ASSUME NEW n \in Net, EndRun(n), NEW k \in Conns, n[k].s = "closed"
  PROVE  net'[k].s = "closed"
<1> DEFINE ks == {server.ctrl} \cup Queued
<1>1. net' = ServerCloses(n, ks)
  BY ZenonT(60) DEF EndRun
<1> HIDE DEF ks
<1> QED
  BY <1>1, ServerClosesLink, SMTT(30)

\* cleanup_server: a run whose test was ended leaves no stream's socket open, although
\* cleanup_server itself closes only the control connection and the listener.
THEOREM TestSocketsAlwaysClosed == Spec => TestSocketsClosed
<1> DEFINE A == server.pc # "down" /\ server'.pc = "down" /\ server.done =>
                  \A k \in server.streams : net'[k].s = "closed"
<1>1. ControlInv /\ [Next]_vars => [A]_vars
  <2> SUFFICES ASSUME ControlInv, Next, server.pc # "down", server'.pc = "down", server.done,
                      NEW k \in server.streams
               PROVE  net'[k].s = "closed"
    BY ZenonT(60)
  <2>1. /\ k \in Conns /\ net[k].s = "closed" /\ net \in Net /\ server \in Servers
    BY Holds, SMTT(30) DEF ControlInv, LinksOK
  <2>2. CASE EndRun(net)
    BY <2>1, <2>2, EndRunCloses, ZenonT(60)
  <2>3. CASE EndRun(ServerCloses(net, server.streams))
    <3> DEFINE n == ServerCloses(net, server.streams)
    <3>1. n \in Net /\ n[k].s = "closed"
      BY <2>1, ServerClosesLink, SMTT(30)
    <3> HIDE DEF n
    <3> QED
      BY <2>1, <2>3, <3>1, EndRunCloses, SMTT(30) DEF n
  <2>4. ~ListenFails
    BY ParamsOwn, ZenonT(60) DEF ListenFails
  <2>5. ASSUME net' = net
        PROVE  net'[k].s = "closed"
    BY <2>1, <2>5, ZenonT(60)
  <2>6. CASE \/ iperf_server_listen \/ AcceptControl \/ Deny \/ ReadCookie \/ ReadParams
             \/ AcceptStream \/ TakeStream \/ DenyStream \/ HandleTestEnd \/ ReadResults
    <3>1. server'.pc # "down"
      BY <2>1, <2>6, ZenonT(60) DEF iperf_server_listen, AcceptControl, Deny, ReadCookie, ReadParams,
           AcceptStream, TakeStream, DenyStream, HandleTestEnd, ReadResults, Servers
    <3> QED
      BY <3>1, ZenonT(60)
  <2>7. CASE ServerInterrupted
    BY <2>7, ZenonT(60) DEF ServerInterrupted, FreshServer
  <2>8. CASE ServerRestarted
    BY <2>5, <2>8, ZenonT(60) DEF ServerRestarted
  <2>9. CASE server_timer_proc
    BY <2>3, <2>5, <2>9, ZenonT(60) DEF server_timer_proc
  <2>10. CASE HandleDone \/ HandleTerminate \/ ControlFails \/ DenyFails
    BY <2>2, <2>3, <2>10, ZenonT(60) DEF HandleDone, HandleTerminate, ControlFails, DenyFails
  <2>11. ASSUME NEW c \in Clients, ClientStep(c) \/ Crash(c) \/ EndTest(c)
         PROVE  server' = server
    BY <2>11, ZenonT(60) DEF ClientStep, Crash, EndTest, Dial, SendCookie, HandleState, HandleRefusal,
         HandleDisplay, ConnectStream, GetResults, TestOver, ClientFails, Finish, Exit, ClientSame
  <2> QED
    BY <2>4, <2>6, <2>7, <2>8, <2>9, <2>10, <2>11, SMTT(30) DEF Next, ServerStep
<1> HIDE DEF A
<1>2. Spec => [][A]_vars
  BY <1>1, ControlAlways, PTL DEF Spec
<1> QED
  BY <1>2, ZenonT(60) DEF TestSocketsClosed, A
-----------------------------------------------------------------------------
(* The refinement.                                                         *)

\* The server serves a client exactly in the states of Testing.
LEMMA Serves ==
  ASSUME ControlInv
  PROVE  /\ server.state \in Testing => Owner = server.cookie /\ Owner \in Clients
         /\ server.state \notin Testing => Owner = NoClient /\ Phase = "free"
         /\ server.state = "CREATE_STREAMS" => Phase = "setup"
         /\ server.state \in {"TEST_RUNNING", "EXCHANGE_RESULTS"} => Phase = "running"
         /\ server.state = "DISPLAY_RESULTS" => Phase = "done"
<1>1. server.state \in Testing => server.cookie \in Clients
  <2>1. server.state \in Testing => server.ctrl = Ctrl(server.cookie) /\ server.ctrl \in Conns
    BY Holds, ZenonT(60) DEF ControlInv, ServerOK, Testing
  <2> QED
    BY <2>1, SMTT(30) DEF Ctrl, Conns
<1> QED
  BY <1>1, ZenonT(60) DEF Owner, Phase, Testing

\* The same in the next state.
LEMMA ServesNext ==
  /\ Owner' = IF server'.state \in Testing THEN server'.cookie ELSE NoClient
  /\ server'.state \notin Testing => Phase' = "free"
  /\ server'.state = "CREATE_STREAMS" => Phase' = "setup"
  /\ server'.state \in {"TEST_RUNNING", "EXCHANGE_RESULTS"} => Phase' = "running"
  /\ server'.state = "DISPLAY_RESULTS" => Phase' = "done"
BY ZenonT(60) DEF Owner, Phase, Testing

\* A step of the server that changes neither its state nor its cookie.
LEMMA Stutters ==
  ASSUME server'.state = server.state, server'.cookie = server.cookie
  PROVE  Owner' = Owner /\ Phase' = Phase
BY ZenonT(60) DEF Owner, Phase

\* The end of a run releases the client, if there was one.
LEMMA Releases ==
  ASSUME ControlInv, server'.state = "START"
  PROVE  Owner' = NoClient /\ Phase' = "free"
         /\ (Owner # NoClient \/ (Owner' = Owner /\ Phase' = Phase))
<1>1. Owner' = NoClient /\ Phase' = "free"
  BY ServesNext, ZenonT(60) DEF Testing
<1>2. Owner # NoClient \/ (Owner = NoClient /\ Phase = "free")
  BY Serves, ControlConstants, SMTT(30)
<1> QED
  BY <1>1, <1>2, ZenonT(60)

\* What a step of the server is, seen from the service.
LEMMA ServerImplements ==
  ASSUME ControlInv,
         ServerStep \/ DenyFails \/ ListenFails \/ ServerInterrupted \/ ServerRestarted
  PROVE  /\ client' = client
         /\ \/ Owner' = Owner /\ Phase' = Phase /\ got' = got
            \/ /\ Owner = NoClient /\ Owner' \in Clients /\ Phase' = "setup" /\ got' = got
            \/ Phase = "setup" /\ Phase' = "running" /\ Owner' = Owner /\ got' = got
            \/ Phase = "running" /\ Phase' = "done" /\ Owner' = Owner /\ got' = got \cup {Owner}
            \/ Owner # NoClient /\ Owner' = NoClient /\ Phase' = "free" /\ got' = got
<1>1. server \in Servers /\ ServerOK
  BY Holds, ZenonT(60) DEF ControlInv
<1>2. client' = client
  BY ZenonT(60) DEF ServerStep, iperf_server_listen, AcceptControl, Deny, ReadCookie, ReadParams,
         AcceptStream, TakeStream, DenyStream, HandleTestEnd, ReadResults, HandleDone,
         HandleTerminate, ControlFails, server_timer_proc, DenyFails, ListenFails,
         ServerInterrupted, ServerRestarted, ServerSame
<1>3. CASE iperf_server_listen \/ AcceptControl \/ Deny \/ AcceptStream \/ DenyStream
  <2>1. server'.state = server.state /\ server'.cookie = server.cookie /\ got' = got
    BY <1>1, <1>3, ZenonT(60) DEF iperf_server_listen, AcceptControl, Deny, AcceptStream, DenyStream,
         ServerSame, Servers
  <2> QED
    BY <1>2, <2>1, Stutters, ZenonT(60)
<1>4. CASE ReadCookie
  <2>1. server.state = "START" /\ server'.state = "PARAM_EXCHANGE" /\ got' = got
    BY <1>1, <1>4, ZenonT(60) DEF ReadCookie, ServerOK, ServerSame, Servers
  <2> QED
    BY <1>2, <2>1, Serves, ServesNext, SMTT(30) DEF Testing
<1>5. CASE ReadParams
  <2>1. /\ server.state = "PARAM_EXCHANGE" /\ server.cookie \in Clients
        /\ server'.state = "CREATE_STREAMS" /\ server'.cookie = server.cookie /\ got' = got
    BY <1>1, <1>5, ParamsOwn, ZenonT(60) DEF ReadParams, ServerSame, Servers
  <2>2. Owner = NoClient
    BY <2>1, Serves, ZenonT(60) DEF Testing
  <2>3. Owner' \in Clients /\ Phase' = "setup"
    BY <2>1, ServesNext, ZenonT(60) DEF Testing
  <2> QED
    BY <1>2, <2>1, <2>2, <2>3, ZenonT(60)
<1>6. CASE TakeStream
  <2>1. /\ server.state = "CREATE_STREAMS" /\ got' = got /\ server'.cookie = server.cookie
        /\ server'.state \in {"CREATE_STREAMS", "TEST_RUNNING"}
    BY <1>1, <1>6, ZenonT(60) DEF TakeStream, CookieRead, ServerOK, ServerSame, Servers
  <2>2. CASE server'.state = "CREATE_STREAMS"
    BY <1>2, <2>1, <2>2, Stutters, ZenonT(60)
  <2>3. CASE server'.state = "TEST_RUNNING"
    <3>1. Phase = "setup" /\ Owner = server.cookie
      BY <2>1, Serves, ZenonT(60) DEF Testing
    <3>2. Phase' = "running" /\ Owner' = server.cookie
      BY <2>1, <2>3, ServesNext, SMTT(30) DEF Testing
    <3> QED
      BY <1>2, <2>1, <3>1, <3>2, SMTT(30)
  <2> QED
    BY <2>1, <2>2, <2>3, SMTT(30)
<1>7. CASE HandleTestEnd
  <2>1. server.state = "TEST_RUNNING"
    BY <1>7, TestEndOwn, ZenonT(60) DEF HandleTestEnd
  <2>2. server'.state = "EXCHANGE_RESULTS" /\ got' = got /\ server'.cookie = server.cookie
    BY <1>1, <1>7, ZenonT(60) DEF HandleTestEnd, ServerSame, Servers
  <2>3. Phase = "running" /\ Owner = server.cookie
    BY <2>1, Serves, ZenonT(60) DEF Testing
  <2>4. Phase' = "running" /\ Owner' = server.cookie
    BY <2>2, ServesNext, ZenonT(60) DEF Testing
  <2> QED
    BY <1>2, <2>2, <2>3, <2>4, SMTT(30)
<1>8. CASE ReadResults
  <2>1. PICK c \in Clients : ServerReads(server.ctrl, <<"results", c>>) /\ got' = got \cup {c}
    BY <1>8, ZenonT(60) DEF ReadResults
  <2>2. server.pc = "results"
    BY <1>8, ZenonT(60) DEF ReadResults
  <2>3. server.cookie = c /\ server.state = "EXCHANGE_RESULTS"
    BY <2>1, <2>2, ResultsOwn, ZenonT(60)
  <2>4. server'.state = "DISPLAY_RESULTS" /\ server'.cookie = server.cookie
    BY <1>1, <1>8, ZenonT(60) DEF ReadResults, Servers
  <2>5. Phase = "running" /\ Owner = c
    BY <2>3, Serves, ZenonT(60) DEF Testing
  <2>6. Phase' = "done" /\ Owner' = c
    BY <2>3, <2>4, ServesNext, SMTT(30) DEF Testing
  <2> QED
    BY <1>2, <2>1, <2>5, <2>6, SMTT(30)
<1>9. CASE HandleDone \/ HandleTerminate \/ ControlFails \/ DenyFails \/ ListenFails
           \/ ServerInterrupted
  <2>1. server'.state = "START" /\ got' = got
    BY <1>9, SMTT(30) DEF HandleDone, HandleTerminate, ControlFails, DenyFails, ListenFails,
         ServerInterrupted, EndRun, FreshServer, ServerSame
  <2> QED
    BY <1>2, <2>1, Releases, SMTT(30)
<1>10. CASE server_timer_proc
  <2>1. got' = got
    BY <1>10, ZenonT(60) DEF server_timer_proc, ServerSame
  <2>2. CASE server.done
    <3>1. server'.state = server.state /\ server'.cookie = server.cookie
      BY <1>1, <1>10, <2>2, SMTT(30) DEF server_timer_proc, Servers
    <3> QED
      BY <1>2, <2>1, <3>1, Stutters, SMTT(30)
  <2>3. CASE ~server.done
    <3>1. server'.state = "START"
      BY <1>10, <2>3, SMTT(30) DEF server_timer_proc, EndRun, FreshServer
    <3> QED
      BY <1>2, <2>1, <3>1, Releases, SMTT(30)
  <2> QED
    BY <2>2, <2>3, ZenonT(60)
<1>11. CASE ServerRestarted
  <2>1. server'.state = "START" /\ got' = got
    BY <1>11, ZenonT(60) DEF ServerRestarted, FreshServer, ServerSame
  <2> QED
    BY <1>2, <2>1, Releases, ZenonT(60)
<1> QED
  BY <1>3, <1>4, <1>5, <1>6, <1>7, <1>8, <1>9, <1>10, <1>11, SMTT(30) DEF ServerStep

\* What the outcome is, from the client's fields.
LEMMA OutcomeNext ==
  ASSUME NEW c, NEW pc, NEW st, client'[c].pc = pc, client'[c].state = st
  PROVE  /\ st = "DONE" /\ ~client'[c].ended => Outcome(c)' = "ok"
         /\ (st # "DONE" \/ client'[c].ended)
            /\ pc \in {"idle", "dialled", "loop", "streams", "results"} => Outcome(c)' = "none"
         /\ (st # "DONE" \/ client'[c].ended)
            /\ pc \in {"ok", "failed", "gone"} => Outcome(c)' = "failed"
BY ZenonT(60) DEF Outcome, Active

\* What a step of a client is, seen from the service.
LEMMA ClientImplements ==
  ASSUME ControlInv, NEW c \in Clients, ClientStep(c) \/ Crash(c) \/ EndTest(c)
  PROVE  /\ server' = server /\ got' = got
         /\ \A d \in Clients : d # c => Outcome(d)' = Outcome(d)
         /\ \/ Outcome(c)' = Outcome(c)
            \/ Outcome(c) = "none" /\ Outcome(c)' = "failed"
            \/ Outcome(c) = "none" /\ Outcome(c)' = "ok" /\ c \in got
<1>1. /\ ClientOK(c) /\ client \in ClientTable /\ client[c].state \in States
      /\ {"START", "PARAM_EXCHANGE", "CREATE_STREAMS", "TEST_START", "TEST_RUNNING", "TEST_END",
          "EXCHANGE_RESULTS", "DONE", "ACCESS_DENIED", "SERVER_ERROR", "SERVER_TERMINATE"}
           \subseteq States
  BY OfClient, ZenonT(60) DEF ClientTable, States
<1>2. server' = server /\ got' = got
  BY ZenonT(60) DEF ClientStep, Crash, EndTest, Dial, SendCookie, HandleState, HandleRefusal,
         HandleDisplay, ConnectStream, GetResults, TestOver, ClientFails, Finish, Exit, ClientSame
<1>3. \A d \in Clients : d # c => client'[d] = client[d]
  BY <1>1, SMTT(30) DEF ClientStep, Crash, EndTest, Dial, SendCookie, HandleState, HandleRefusal,
         HandleDisplay, ConnectStream, GetResults, TestOver, ClientFails, Finish, Exit,
         Moves, Fails, ClientTable
<1>4. \A d \in Clients : d # c => Outcome(d)' = Outcome(d)
  BY <1>3, ZenonT(60) DEF Outcome, Active
<1>5. /\ client[c].state = "DONE" /\ ~client[c].ended => Outcome(c) = "ok"
      /\ client[c].state # "DONE" \/ client[c].ended =>
           /\ client[c].pc \in {"idle", "dialled", "loop", "streams", "results"} => Outcome(c) = "none"
           /\ client[c].pc \in {"ok", "failed", "gone"} => Outcome(c) = "failed"
  BY ZenonT(60) DEF Outcome, Active
<1>6. ASSUME NEW pc \in {"dialled", "loop", "streams", "results", "failed"}, NEW st \in States,
             client[c].pc \in {"idle", "dialled", "loop", "streams", "results"},
             client[c].state # "DONE" \/ client[c].ended,
             client'[c].pc = pc, client'[c].state = st, client'[c].ended = client[c].ended,
             st # "DONE" \/ st = client[c].state
      PROVE  Outcome(c) = "none" /\ Outcome(c)' \in {"none", "failed"}
  BY <1>5, <1>6, OutcomeNext, SMTT(30)
<1>7. ASSUME NEW pc \in {"dialled", "loop", "streams", "results", "failed"},
              NEW st \in States \ {"DONE"}, Moves(c, pc, st),
              client[c].pc \in {"idle", "dialled", "loop", "streams", "results"},
              client[c].state # "DONE" \/ client[c].ended
       PROVE  Outcome(c) = "none" /\ Outcome(c)' \in {"none", "failed"}
  <2>1. client'[c].pc = pc /\ client'[c].state = st /\ client'[c].ended = client[c].ended
    BY <1>7, MovesTo, SMTT(30)
  <2> QED
    BY <1>6, <1>7, <2>1, SMTT(30)
<1>8. \A st \in {"START", "PARAM_EXCHANGE", "CREATE_STREAMS", "TEST_START", "TEST_RUNNING",
                  "TEST_END", "EXCHANGE_RESULTS", "ACCESS_DENIED", "SERVER_ERROR",
                  "SERVER_TERMINATE"} : st \in States \ {"DONE"}
  BY ZenonT(60) DEF States
<1>9. CASE Dial(c) \/ SendCookie(c) \/ HandleState(c) \/ HandleRefusal(c) \/ TestOver(c)
  <2> SUFFICES Outcome(c) = "none" /\ Outcome(c)' \in {"none", "failed"}
    BY <1>2, <1>4, ZenonT(60)
  <2>1. CASE Dial(c)
    <3>1. client[c].pc = "idle" /\ client[c].state = "START"
      BY <1>1, <2>1, ZenonT(60) DEF Dial, ClientOK
    <3>2. CASE Moves(c, "dialled", "START")
      BY <1>7, <1>8, <3>1, <3>2, SMTT(30)
    <3>3. CASE Fails(c)
      <4>1. /\ client'[c].pc = "failed" /\ client'[c].state = client[c].state
            /\ client'[c].ended = client[c].ended
        BY <1>1, <3>3, ZenonT(60) DEF Fails, ClientTable
      <4> QED
        BY <1>1, <1>6, <3>1, <4>1, SMTT(30)
    <3> QED
      BY <2>1, <3>2, <3>3, SMTT(30) DEF Dial
  <2>2. CASE SendCookie(c)
    <3>1. client[c].state # "DONE" \/ client[c].ended
      BY <1>1, <2>2, ZenonT(60) DEF SendCookie, ClientOK
    <3>2. client[c].pc = "dialled" /\ Moves(c, "loop", "START")
      BY <2>2, ZenonT(60) DEF SendCookie
    <3> QED
      BY <1>7, <1>8, <3>1, <3>2, SMTT(30)
  <2>3. CASE HandleState(c)
    <3>1. client[c].pc = "loop" /\ client[c].state # "DONE"
      BY <2>3, ZenonT(60) DEF HandleState, InLoop
    <3>2. CASE Moves(c, "loop", "PARAM_EXCHANGE")
      BY <1>7, <1>8, <3>1, <3>2, SMTT(30)
    <3>3. CASE Moves(c, "streams", "CREATE_STREAMS")
      BY <1>7, <1>8, <3>1, <3>3, SMTT(30)
    <3>4. ASSUME NEW st \in {"TEST_START", "TEST_RUNNING"}, Moves(c, "loop", st)
          PROVE  Outcome(c) = "none" /\ Outcome(c)' \in {"none", "failed"}
      BY <1>7, <1>8, <3>1, <3>4, SMTT(30)
    <3>5. CASE Moves(c, "results", "EXCHANGE_RESULTS")
      BY <1>7, <1>8, <3>1, <3>5, SMTT(30)
    <3> QED
      BY <2>3, <3>2, <3>3, <3>4, <3>5, SMTT(30) DEF HandleState
  <2>4. CASE HandleRefusal(c)
    <3>1. client[c].pc = "loop" /\ client[c].state # "DONE"
      BY <2>4, ZenonT(60) DEF HandleRefusal, InLoop
    <3>2. PICK st \in {"ACCESS_DENIED", "SERVER_ERROR", "SERVER_TERMINATE"} :
            Moves(c, "failed", st)
      BY <2>4, ZenonT(60) DEF HandleRefusal
    <3> QED
      BY <1>7, <1>8, <3>1, <3>2, SMTT(30)
  <2>5. CASE TestOver(c)
    <3>1. client[c].pc = "loop" /\ client[c].state # "DONE" /\ Moves(c, "loop", "TEST_END")
      BY <2>5, ZenonT(60) DEF TestOver
    <3> QED
      BY <1>7, <1>8, <3>1, ZenonT(60)
  <2> QED
    BY <1>9, <2>1, <2>2, <2>3, <2>4, <2>5, SMTT(30)
<1>10. CASE ConnectStream(c) \/ GetResults(c) \/ ClientFails(c)
  <2>1. /\ client[c].pc \in {"dialled", "loop", "streams", "results"}
        /\ client[c].state # "DONE" \/ client[c].ended
    BY <1>1, <1>10, ZenonT(60) DEF ConnectStream, GetResults, ClientFails, InLoop, ClientOK
  <2>2. PICK pc \in {"dialled", "loop", "streams", "results", "failed"} :
          /\ client'[c].pc = pc /\ client'[c].state = client[c].state
          /\ client'[c].ended = client[c].ended
    BY <1>1, <1>10, SMTT(30) DEF ConnectStream, GetResults, ClientFails, Fails, ClientTable
  <2> QED
    BY <1>1, <1>2, <1>4, <1>6, <2>1, <2>2, SMTT(30)
<1>11. CASE HandleDisplay(c)
  <2>1. client'[c].pc = "loop" /\ client'[c].state = "DONE" /\ client'[c].ended = client[c].ended
    BY <1>1, <1>11, MovesTo, ZenonT(60) DEF HandleDisplay
  <2>2. client[c].pc = "loop" /\ client[c].state # "DONE" /\ ~client[c].ended
    BY <1>1, <1>11, ZenonT(60) DEF HandleDisplay, InLoop, ClientOK
  <2>3. c \in got
    <3> DEFINE q == net[Ctrl(c)].toC
    <3>1. /\ q \in Seq(Messages) /\ q # <<>> /\ Head(q) = State("DISPLAY_RESULTS")
          /\ Inbox(q, c, client[c], got, has[c])
      BY <1>11, OfClient, ZenonT(60) DEF HandleDisplay, ClientReads
    <3> HIDE DEF q
    <3>2. In(State("DISPLAY_RESULTS"), q)
      BY <3>1, HeadIn, ZenonT(60)
    <3> QED
      BY <3>1, <3>2, ZenonT(60) DEF Inbox
  <2> QED
    BY <1>2, <1>4, <1>5, <2>1, <2>2, <2>3, OutcomeNext, ZenonT(60)
<1>12. CASE Finish(c) \/ Exit(c) \/ Crash(c)
  <2>1. PICK pc \in {"ok", "gone"} : client' = [client EXCEPT ![c].pc = pc]
    BY <1>12, ZenonT(60) DEF Finish, Exit, Crash
  <2>2. /\ client'[c].pc = pc /\ client'[c].state = client[c].state
        /\ client'[c].ended = client[c].ended
    BY <1>1, <2>1, ZenonT(60) DEF ClientTable
  <2>3. client[c].pc \in {"dialled", "loop", "streams", "results", "ok", "failed"}
    BY <1>12, ZenonT(60) DEF Finish, Exit, Crash, Active
  <2>4. CASE client[c].state = "DONE" /\ ~client[c].ended
    BY <1>2, <1>4, <1>5, <2>2, <2>4, OutcomeNext, SMTT(30)
  <2>5. CASE client[c].state # "DONE" \/ client[c].ended
    BY <1>2, <1>4, <1>5, <2>2, <2>3, <2>5, OutcomeNext, SMTT(30)
  <2> QED
    BY <2>4, <2>5, ZenonT(60)
<1>13. CASE EndTest(c)
  <2>1. /\ client'[c].pc = client[c].pc /\ client'[c].state = "DONE" /\ client'[c].ended
        /\ client[c].pc \in {"dialled", "loop", "streams", "results"}
    BY <1>1, <1>13, ZenonT(60) DEF EndTest, ClientTable, Active
  <2>2. client[c].state # "DONE"
    BY <1>1, <1>13, ZenonT(60) DEF EndTest, ClientOK
  <2> QED
    BY <1>2, <1>4, <1>5, <2>1, <2>2, OutcomeNext, SMTT(30)
<1> QED
  BY <1>9, <1>10, <1>11, <1>12, <1>13, SMTT(30) DEF ClientStep

\* Every step of the protocol is a step of the service, or leaves it as it is.
LEMMA StepImplements ==
  ControlInv /\ [Next]_vars => [Service!SNext]_(Service!svars)
<1> SUFFICES ASSUME ControlInv, [Next]_vars
             PROVE  Service!SNext \/ Service!svars' = Service!svars
  BY ZenonT(60)
<1> DEFINE Out == [c \in Clients |-> Outcome(c)]
<1>1. CASE ServerStep \/ DenyFails \/ ListenFails \/ ServerInterrupted \/ ServerRestarted
  <2>1. /\ client' = client
        /\ \/ Owner' = Owner /\ Phase' = Phase /\ got' = got
           \/ /\ Owner = NoClient /\ Owner' \in Clients /\ Phase' = "setup" /\ got' = got
           \/ Phase = "setup" /\ Phase' = "running" /\ Owner' = Owner /\ got' = got
           \/ Phase = "running" /\ Phase' = "done" /\ Owner' = Owner /\ got' = got \cup {Owner}
           \/ Owner # NoClient /\ Owner' = NoClient /\ Phase' = "free" /\ got' = got
    BY <1>1, ServerImplements, ZenonT(60)
  <2>2. Out' = Out
    <3>1. \A c \in Clients : Outcome(c)' = Outcome(c)
      BY <2>1, ZenonT(60) DEF Outcome, Active
    <3> QED
      BY <3>1, ZenonT(60)
  <2>3. CASE Owner' = Owner /\ Phase' = Phase /\ got' = got
    BY <2>2, <2>3, ZenonT(60) DEF Service!svars
  <2>4. CASE Owner = NoClient /\ Owner' \in Clients /\ Phase' = "setup" /\ got' = got
    BY <2>2, <2>4, ZenonT(60) DEF Service!SNext, Service!Begin
  <2>5. CASE Phase = "setup" /\ Phase' = "running" /\ Owner' = Owner /\ got' = got
    BY <2>2, <2>5, ZenonT(60) DEF Service!SNext, Service!Run
  <2>6. CASE Phase = "running" /\ Phase' = "done" /\ Owner' = Owner /\ got' = got \cup {Owner}
    BY <2>2, <2>6, ZenonT(60) DEF Service!SNext, Service!Collect
  <2>7. CASE Owner # NoClient /\ Owner' = NoClient /\ Phase' = "free" /\ got' = got
    BY <2>2, <2>7, ZenonT(60) DEF Service!SNext, Service!Release
  <2> QED
    BY <2>1, <2>3, <2>4, <2>5, <2>6, <2>7, SMTT(30)
<1>2. ASSUME NEW c \in Clients, ClientStep(c) \/ Crash(c) \/ EndTest(c)
      PROVE  Service!SNext \/ Service!svars' = Service!svars
  <2>1. /\ server' = server /\ got' = got
        /\ \A d \in Clients : d # c => Outcome(d)' = Outcome(d)
        /\ \/ Outcome(c)' = Outcome(c)
           \/ Outcome(c) = "none" /\ Outcome(c)' = "failed"
           \/ Outcome(c) = "none" /\ Outcome(c)' = "ok" /\ c \in got
    BY <1>2, ClientImplements, ZenonT(60)
  <2>2. Owner' = Owner /\ Phase' = Phase
    BY <2>1, Stutters, ZenonT(60)
  <2>3. CASE Outcome(c)' = Outcome(c)
    <3>1. \A d \in Clients : Outcome(d)' = Outcome(d)
      BY <2>1, <2>3, ZenonT(60)
    <3>2. Out' = Out
      BY <3>1, ZenonT(60)
    <3> QED
      BY <2>1, <2>2, <3>2, ZenonT(60) DEF Service!svars
  <2>4. ASSUME NEW x, Outcome(c)' = x
        PROVE  Out' = [Out EXCEPT ![c] = x]
    BY <2>1, <2>4, ZenonT(60)
  <2>5. CASE Outcome(c) = "none" /\ Outcome(c)' = "failed"
    <3>1. Out' = [Out EXCEPT ![c] = "failed"] /\ Out[c] = "none"
      BY <2>4, <2>5, ZenonT(60)
    <3> QED
      BY <2>1, <2>2, <3>1, ZenonT(60) DEF Service!SNext, Service!GiveUp
  <2>6. CASE Outcome(c) = "none" /\ Outcome(c)' = "ok" /\ c \in got
    <3>1. Out' = [Out EXCEPT ![c] = "ok"] /\ Out[c] = "none"
      BY <2>4, <2>6, ZenonT(60)
    <3> QED
      BY <2>1, <2>2, <2>6, <3>1, ZenonT(60) DEF Service!SNext, Service!Succeed
  <2> QED
    BY <2>1, <2>3, <2>5, <2>6, SMTT(30)
<1>3. CASE UNCHANGED vars
  <2>1. server' = server /\ client' = client /\ got' = got
    BY <1>3, ZenonT(60) DEF vars
  <2>2. Owner' = Owner /\ Phase' = Phase
    BY <2>1, Stutters, SMTT(30)
  <2>3. Out' = Out
    <3>1. \A c \in Clients : Outcome(c)' = Outcome(c)
      BY <2>1, ZenonT(60) DEF Outcome, Active
    <3> QED
      BY <3>1, ZenonT(60)
  <2> QED
    BY <2>1, <2>2, <2>3, ZenonT(60) DEF Service!svars
<1> QED
  BY <1>1, <1>2, <1>3, ZenonT(60) DEF Next

\* The control protocol implements the service: iperf_run_server takes a client only
\* when it is free, goes through the phases in order, collects its client's results
\* and nobody else's, and no iperf_run_client succeeds before that.
THEOREM ProtocolImplementsService == Spec => ImplementsService
<1>1. Init => Service!SInit
  <2> SUFFICES ASSUME Init PROVE Service!SInit
    BY ZenonT(60)
  <2>1. Owner = NoClient /\ Phase = "free"
    BY ZenonT(60) DEF Init, FreshServer, Owner, Phase, Testing
  <2>2. \A c \in Clients : Outcome(c) = "none"
    BY ZenonT(60) DEF Init, Outcome
  <2> QED
    BY <2>1, <2>2, ZenonT(60) DEF Init, Service!SInit
<1>2. ControlInv /\ [Next]_vars => [Service!SNext]_(Service!svars)
  BY StepImplements, ZenonT(60)
<1> QED
  BY <1>1, <1>2, ControlAlways, PTL DEF Spec, ImplementsService, Service!SSpec
=============================================================================
