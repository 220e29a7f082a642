----------------------- MODULE IperfControlInvariant ------------------------
(***************************************************************************)
(* The inductive invariant of the control protocol, for any number of      *)
(* clients and streams.  The steps that keep it, in this module: those of  *)
(* a client (iperf_run_client's loop, the handlers it calls, the end of    *)
(* its test, its failures and its crash), and those with which the server  *)
(* starts, accepts or denies a connection and ends a run.                  *)
(***************************************************************************)
EXTENDS IperfControl, TLAPS

\* Message m is under way in q, and m is there only once.
In(m, q) == \E i \in 1 .. Len(q) : q[i] = m
Once(m, q) == \A i, j \in 1 .. Len(q) : q[i] = m /\ q[j] = m => i = j

-----------------------------------------------------------------------------
(* The inductive invariant.                                                *)

\* The server's fields, by where it is.
ServerOK ==
  /\ server.pc \in {"down", "gone"} => server.ctrl = NoConn
  /\ server.ctrl = NoConn =>
       /\ server.pc \in {"down", "gone", "select"}
       /\ server.state = "START" /\ server.streams = {}
  /\ server.pc = "cookie" => server.state = "START" /\ server.streams = {}
  /\ server.pc = "params" => server.state = "PARAM_EXCHANGE" /\ server.streams = {}
  /\ server.pc = "select" /\ server.ctrl # NoConn =>
       server.state \in {"CREATE_STREAMS", "TEST_RUNNING", "DISPLAY_RESULTS"}
  /\ server.pc = "scookie" => server.state = "CREATE_STREAMS"
  /\ server.pc = "results" => server.state = "EXCHANGE_RESULTS"
  /\ server.pc = "scookie" <=> server.acc # NoConn
  /\ server.done <=> server.state \in {"EXCHANGE_RESULTS", "DISPLAY_RESULTS"}
  /\ server.state \in Testing => server.ctrl = Ctrl(server.cookie)
  /\ server.state \in {"TEST_RUNNING", "EXCHANGE_RESULTS", "DISPLAY_RESULTS"} =>
       Cardinality(server.streams) = N

\* What the server holds is open, and apart from what it has still to accept.
LinksOK ==
  /\ server.ctrl # NoConn => net[server.ctrl].s = "open"
  /\ server.acc # NoConn => net[server.acc].s = "open" /\ server.acc # server.ctrl
  /\ \A k \in server.streams : /\ k # server.ctrl /\ net[k].s \in {"open", "closed"}
                               /\ k \in Streams(server.cookie) \/ net[k].c = "closed"
                               /\ server.done => net[k].s = "closed"
  /\ \A i \in 1 .. Len(backlog) : net[backlog[i]].s = "queued"
  /\ \A i, j \in 1 .. Len(backlog) : backlog[i] = backlog[j] => i = j
  /\ server.pc = "params" => server.cookie = server.ctrl[1] \/ ServerEOF(server.ctrl)

\* What is on its way to the server: a stream carries the cookie, and on a control
\* connection everything but a state byte names its client.
Carries(k, q) ==
  \A i \in 1 .. Len(q) :
    IF k[2] = 0 THEN q[i][1] = "state" \/ q[i][2] = k[1] ELSE q[i] = <<"cookie", k[1]>>

\* What is on its way to client c, whose fields are me; g are the clients whose
\* results the server has, h is whose results c has.  CREATE_STREAMS comes once, and
\* the results of c's test are right before DISPLAY_RESULTS, or with c already.
Inbox(q, c, me, g, h) ==
  /\ In(State("CREATE_STREAMS"), q) => me.made = 0 /\ me.pc # "streams"
  /\ Once(State("CREATE_STREAMS"), q)
  /\ In(State("DISPLAY_RESULTS"), q) => c \in g
  /\ \A i \in 1 .. Len(q) : q[i][1] = "results" => q[i][2] = c
  /\ \A i \in 1 .. Len(q) : q[i] = State("DISPLAY_RESULTS") =>
       IF i = 1 THEN h = c ELSE q[i - 1] = <<"results", c>>

\* A client, its ends of its connections, and its results.
ClientOK(c) ==
  LET me == client[c]
      link == net[Ctrl(c)]
  IN  /\ me.pc = "idle" => /\ me.state = "START" /\ me.made = 0 /\ ~me.ended
                           /\ link.c = "none" /\ link.s = "none"
                           /\ link.toS = <<>> /\ link.toC = <<>>
      /\ \A i \in 1 .. N : i > me.made => net[<<c, i>>].s = "none"
      /\ me.pc = "streams" => me.made < N
      /\ me.ended => me.state = "DONE"
      /\ me.state = "DONE" => link.c = "closed"
      /\ Active(c) /\ me.state # "DONE" => link.c = "open"
      /\ me.state = "DONE" /\ ~me.ended =>
           me.pc \in {"loop", "ok", "gone"} /\ c \in got /\ has[c] = c
      /\ me.pc = "ok" => me.state = "DONE"

\* The server has not yet dealt with the control connection of c.
Untouched(c) ==
  LET me == client[c]
      link == net[Ctrl(c)]
  IN  /\ link.toC = <<>>
      /\ me.state \in {"START", "DONE"} /\ (me.state = "DONE" => me.ended)
      /\ me.made = 0 /\ me.pc # "streams"
      /\ \A i \in 1 .. Len(link.toS) :
           \/ link.toS[i] = <<"cookie", c>>
           \/ link.c = "closed" /\ link.toS[i] \in {State("DONE"), State("CLIENT_TERMINATE")}

\* The start of the test goes from the server to c and its end back, as one token: it
\* is TEST_RUNNING on its way, or c's state, or TEST_END on its way.
Token(c) ==
  LET toC == net[Ctrl(c)].toC
      toS == net[Ctrl(c)].toS
  IN  /\ Once(State("TEST_RUNNING"), toC) /\ Once(State("TEST_END"), toS)
      /\ ~(In(State("TEST_RUNNING"), toC) /\ client[c].state = "TEST_RUNNING")
      /\ ~(In(State("TEST_RUNNING"), toC) /\ In(State("TEST_END"), toS))
      /\ ~(client[c].state = "TEST_RUNNING" /\ In(State("TEST_END"), toS))

NoToken(c) ==
  /\ ~In(State("TEST_RUNNING"), net[Ctrl(c)].toC)
  /\ client[c].state # "TEST_RUNNING"
  /\ ~In(State("TEST_END"), net[Ctrl(c)].toS)

\* The server talks to c.
Conversation(c) ==
  /\ server.state \in {"START", "PARAM_EXCHANGE"} =>
       /\ ~In(State("CREATE_STREAMS"), net[Ctrl(c)].toC)
       /\ client[c].made = 0 /\ client[c].pc # "streams"
  /\ server.state \in {"START", "PARAM_EXCHANGE", "CREATE_STREAMS"} =>
       /\ ~In(State("TEST_START"), net[Ctrl(c)].toC)
       /\ client[c].state \notin {"TEST_START", "TEST_END"}
       /\ NoToken(c)
  /\ server.state = "TEST_RUNNING" => Token(c)
  /\ server.state \in {"EXCHANGE_RESULTS", "DISPLAY_RESULTS"} => NoToken(c)

TalkOK(c) ==
  /\ \/ net[Ctrl(c)].s \in {"none", "queued"}
     \/ net[Ctrl(c)].s = "open" /\ server.ctrl # Ctrl(c)
     => Untouched(c)
  /\ server.ctrl = Ctrl(c) => Conversation(c)

ControlInv ==
  /\ TypeOK /\ ServerOK /\ LinksOK
  /\ \A k \in Conns : Carries(k, net[k].toS)
  /\ \A c \in Clients : /\ ClientOK(c) /\ TalkOK(c)
                         /\ Inbox(net[Ctrl(c)].toC, c, client[c], got, has[c])
-----------------------------------------------------------------------------
(* Types, and what the two sides send.                                     *)

Link == [toS : Seq(Messages), toC : Seq(Messages), c : Ends, s : Ends]
Net == [Conns -> Link]
Servers == [pc : {"down", "select", "cookie", "params", "scookie", "results", "gone"},
            state : States, ctrl : Conns \cup {NoConn}, acc : Conns \cup {NoConn},
            cookie : Clients \cup {NoClient}, streams : SUBSET Conns,
            done : BOOLEAN, timer : BOOLEAN]
ClientTable == [Clients -> [pc : {"idle", "dialled", "loop", "streams", "results",
                                  "ok", "failed", "gone"},
                            state : States, made : 0 .. N, ended : BOOLEAN]]

\* The type invariant, piece by piece.
LEMMA Types ==
  TypeOK <=> /\ server \in Servers /\ client \in ClientTable /\ net \in Net
             /\ backlog \in Seq(Conns) /\ got \subseteq Clients
             /\ has \in [Clients -> Clients \cup {NoClient}] /\ interrupts \in 0 .. MaxInterrupts
BY ZenonT(60) DEF TypeOK, Servers, ClientTable, Net, Link

\* The same in the next state.
LEMMA TypesNext ==
  ASSUME server' \in Servers, client' \in ClientTable, net' \in Net,
         backlog' \in Seq(Conns), got' \subseteq Clients,
         has' \in [Clients -> Clients \cup {NoClient}], interrupts' \in 0 .. MaxInterrupts
  PROVE  TypeOK'
BY ZenonT(60) DEF TypeOK, Servers, ClientTable, Net, Link

\* The elements of a queue.
LEMMA QueueLen ==
  ASSUME NEW S, NEW q \in Seq(S)
  PROVE  /\ Len(q) \in Nat /\ (q # <<>> => Len(q) # 0)
         /\ \A i \in 1 .. Len(q) : q[i] \in S
BY SMTT(30)

\* The queue without its first element.
LEMMA QueueTail ==
  ASSUME NEW S, NEW q \in Seq(S), q # <<>>
  PROVE  /\ Head(q) \in S /\ Head(q) = q[1] /\ Tail(q) \in Seq(S) /\ Len(Tail(q)) = Len(q) - 1
         /\ \A i \in 1 .. Len(Tail(q)) : Tail(q)[i] = q[i + 1]
BY SMTT(30)

\* The queue with one element more.
LEMMA QueueAppend ==
  ASSUME NEW S, NEW q \in Seq(S), NEW e \in S
  PROVE  /\ Append(q, e) \in Seq(S) /\ Append(q, e) # <<>> /\ Len(Append(q, e)) = Len(q) + 1
         /\ \A i \in 1 .. Len(q) : Append(q, e)[i] = q[i]
         /\ Append(q, e)[Len(q) + 1] = e
BY SMTT(30)

\* A queue without its first message.
LEMMA TailOf ==
  ASSUME NEW q \in Seq(Messages), q # <<>>
  PROVE  /\ Tail(q) \in Seq(Messages) /\ Head(q) \in Messages
         /\ 1 \in 1 .. Len(q) /\ Head(q) = q[1]
         /\ Len(Tail(q)) = Len(q) - 1
         /\ \A i \in 1 .. Len(Tail(q)) : i + 1 \in 1 .. Len(q) /\ Tail(q)[i] = q[i + 1]
<1>1. Len(q) \in Nat /\ Len(q) # 0
  BY QueueLen, ZenonT(60)
<1>2. /\ Head(q) \in Messages /\ Tail(q) \in Seq(Messages) /\ Len(Tail(q)) = Len(q) - 1
      /\ \A i \in 1 .. Len(Tail(q)) : Tail(q)[i] = q[i + 1]
  BY QueueTail, ZenonT(60)
<1>3. Head(q) = q[1]
  BY SMTT(30)
<1> QED
  BY <1>1, <1>2, <1>3, SMTT(30)

\* What is under way behind the first message was under way before, and what was
\* there once and is read is gone.
LEMMA TailIn ==
  ASSUME NEW q \in Seq(Messages), q # <<>>, NEW m
  PROVE  /\ In(m, Tail(q)) => In(m, q)
         /\ Once(m, q) => Once(m, Tail(q))
         /\ Once(m, q) /\ Head(q) = m => ~In(m, Tail(q))
<1>1. Len(q) \in Nat
  BY QueueLen, ZenonT(60)
<1>2. In(m, Tail(q)) => In(m, q)
  BY TailOf, SMTT(30) DEF In
<1>3. Once(m, q) => Once(m, Tail(q))
  BY <1>1, TailOf, SMTT(30) DEF Once
<1>4. Once(m, q) /\ Head(q) = m => ~In(m, Tail(q))
  BY <1>1, TailOf, SMTT(30) DEF Once, In
<1> QED
  BY <1>2, <1>3, <1>4, ZenonT(60)

\* The same for the first message itself.
LEMMA HeadIn ==
  ASSUME NEW q \in Seq(Messages), q # <<>>
  PROVE  In(Head(q), q)
BY TailOf, ZenonT(60) DEF In

\* Sending adds the message, at the end.
LEMMA AppendIn ==
  ASSUME NEW q \in Seq(Messages), NEW e \in Messages, NEW m
  PROVE  /\ Append(q, e) \in Seq(Messages)
         /\ In(m, Append(q, e)) <=> In(m, q) \/ m = e
         /\ Once(m, q) /\ (m = e => ~In(m, q)) => Once(m, Append(q, e))
<1> DEFINE u == Append(q, e)
<1>1. /\ u \in Seq(Messages) /\ Len(q) \in Nat /\ Len(u) = Len(q) + 1
      /\ \A i \in 1 .. Len(q) : u[i] = q[i]
      /\ u[Len(q) + 1] = e
  BY QueueAppend, QueueLen, SMTT(30)
<1> HIDE DEF u
<1>2. In(m, u) => In(m, q) \/ m = e
  BY <1>1, SMTT(30) DEF In
<1>3. In(m, q) => In(m, u)
  BY <1>1, SMTT(30) DEF In
<1>4. m = e => In(m, u)
  BY <1>1, SMTT(30) DEF In
<1>5. ASSUME Once(m, q), m = e => ~In(m, q)
      PROVE  Once(m, u)
  BY <1>1, <1>5, SMTT(30) DEF Once, In
<1> QED
  BY <1>1, <1>2, <1>3, <1>4, <1>5, ZenonT(60) DEF u

\* Nothing on its way is always in order.
LEMMA InboxEmpty ==
  ASSUME NEW c, NEW me, NEW g, NEW h
  PROVE  Inbox(<<>>, c, me, g, h)
BY SMTT(30) DEF Inbox, In, Once

\* A control connection is a connection, and no client has NoConn.
LEMMA CtrlConn ==
  /\ \A c \in Clients : Ctrl(c) \in Conns /\ Ctrl(c) # NoConn
  /\ NoConn \notin Conns
  /\ \A c, d \in Clients : Ctrl(c) = Ctrl(d) => c = d
  /\ \A k \in Conns : k[1] \in Clients /\ k[2] \in 0 .. N /\ (k[2] = 0 => k = Ctrl(k[1]))
BY ControlConstants, SMTT(30) DEF Conns, NoConn, Ctrl

\* The bytes and the messages the two sides send are messages.
LEMMA Bytes ==
  /\ \A x \in States : State(x) \in Messages /\ State(x)[1] = "state" /\ State(x)[2] = x
  /\ \A x, y \in States : State(x) = State(y) => x = y
  /\ \A c \in Clients, x \in {"cookie", "params", "results"} : <<x, c>> \in Messages
BY ZenonT(60) DEF State, Messages

\* What the server holds.
LEMMA Holds ==
  ASSUME ControlInv
  PROVE  /\ net \in Net /\ server \in Servers
         /\ server.ctrl # NoConn => server.ctrl \in Conns /\ net[server.ctrl].s = "open"
         /\ server.acc # NoConn => server.acc \in Conns /\ net[server.acc].s = "open"
         /\ \A k \in Conns : net[k] \in Link
         /\ \A k \in server.streams : k \in Conns /\ net[k].s \in {"open", "closed"}
BY Types, ZenonT(60) DEF ControlInv, Servers, LinksOK, Net
-----------------------------------------------------------------------------
(* The steps of a client.                                                  *)

\* A client sends a state byte, or something with its name, on its control connection.
LEMMA CarriesAppend ==
  ASSUME NEW c \in Clients, NEW q \in Seq(Messages), NEW e \in Messages, Carries(Ctrl(c), q),
         e[1] = "state" \/ e[2] = c
  PROVE  Carries(Ctrl(c), Append(q, e))
<1>1. /\ Len(q) \in Nat /\ Len(Append(q, e)) = Len(q) + 1
      /\ \A i \in 1 .. Len(q) : Append(q, e)[i] = q[i]
      /\ Append(q, e)[Len(q) + 1] = e
  BY QueueAppend, QueueLen, SMTT(30)
<1>2. Ctrl(c)[2] = 0 /\ Ctrl(c)[1] = c
  BY ZenonT(60) DEF Ctrl
<1> QED
  BY <1>1, <1>2, SMTT(30) DEF Carries

\* The client reads something other than results: then DISPLAY_RESULTS is not next.
LEMMA InboxTail ==
  ASSUME NEW c, NEW me, NEW g, NEW h, NEW q \in Seq(Messages), q # <<>>,
         Inbox(q, c, me, g, h), Head(q)[1] # "results"
  PROVE  Inbox(Tail(q), c, me, g, h)
<1>1. Len(q) \in Nat
  BY QueueLen, ZenonT(60)
<1>2. /\ In(State("CREATE_STREAMS"), Tail(q)) => me.made = 0 /\ me.pc # "streams"
      /\ Once(State("CREATE_STREAMS"), Tail(q))
      /\ In(State("DISPLAY_RESULTS"), Tail(q)) => c \in g
  BY TailIn, ZenonT(60) DEF Inbox
<1>3. \A i \in 1 .. Len(Tail(q)) : Tail(q)[i][1] = "results" => Tail(q)[i][2] = c
  BY TailOf, SMTT(30) DEF Inbox
<1>4. ASSUME NEW i \in 1 .. Len(Tail(q)), Tail(q)[i] = State("DISPLAY_RESULTS")
      PROVE  IF i = 1 THEN h = c ELSE Tail(q)[i - 1] = <<"results", c>>
  <2>1. i + 1 \in 1 .. Len(q) /\ q[i + 1] = State("DISPLAY_RESULTS") /\ i + 1 # 1
    BY <1>4, TailOf, SMTT(30)
  <2>2. q[i] = <<"results", c>>
    BY <2>1, SMTT(30) DEF Inbox
  <2>3. i # 1
    BY <2>2, TailOf, SMTT(30)
  <2>4. i - 1 \in 1 .. Len(Tail(q)) /\ Tail(q)[i - 1] = q[i]
    BY <1>1, <2>3, TailOf, SMTT(30)
  <2> QED
    BY <2>2, <2>3, <2>4, ZenonT(60)
<1> QED
  BY <1>2, <1>3, <1>4, ZenonT(60) DEF Inbox

\* The client reads results: they are those of its test.
LEMMA InboxResults ==
  ASSUME NEW c, NEW me, NEW g, NEW h, NEW q \in Seq(Messages), q # <<>>,
         Inbox(q, c, me, g, h), Head(q)[1] = "results"
  PROVE  Head(q)[2] = c /\ Inbox(Tail(q), c, me, g, c)
<1>1. Len(q) \in Nat
  BY QueueLen, ZenonT(60)
<1>2. Head(q)[2] = c
  BY TailOf, SMTT(30) DEF Inbox
<1>3. /\ In(State("CREATE_STREAMS"), Tail(q)) => me.made = 0 /\ me.pc # "streams"
      /\ Once(State("CREATE_STREAMS"), Tail(q))
      /\ In(State("DISPLAY_RESULTS"), Tail(q)) => c \in g
  BY TailIn, ZenonT(60) DEF Inbox
<1>4. \A i \in 1 .. Len(Tail(q)) : Tail(q)[i][1] = "results" => Tail(q)[i][2] = c
  BY TailOf, SMTT(30) DEF Inbox
<1>5. ASSUME NEW i \in 1 .. Len(Tail(q)), Tail(q)[i] = State("DISPLAY_RESULTS"), i # 1
      PROVE  Tail(q)[i - 1] = <<"results", c>>
  <2>1. i + 1 \in 1 .. Len(q) /\ q[i + 1] = State("DISPLAY_RESULTS") /\ i + 1 # 1
    BY <1>5, TailOf, SMTT(30)
  <2>2. q[i] = <<"results", c>>
    BY <2>1, SMTT(30) DEF Inbox
  <2>3. i - 1 \in 1 .. Len(Tail(q)) /\ Tail(q)[i - 1] = q[i]
    BY <1>1, <1>5, TailOf, SMTT(30)
  <2> QED
    BY <2>2, <2>3, ZenonT(60)
<1> QED
  BY <1>2, <1>3, <1>4, <1>5, ZenonT(60) DEF Inbox

\* The client has read a message of connection k.
LEMMA TookCLink ==
  ASSUME NEW n \in Net, NEW k \in Conns, n[k].toC # <<>>
  PROVE  /\ TookC(n, k) \in Net
         /\ TookC(n, k)[k].toC = Tail(n[k].toC) /\ TookC(n, k)[k].toS = n[k].toS
         /\ TookC(n, k)[k].c = n[k].c /\ TookC(n, k)[k].s = n[k].s
         /\ \A j \in Conns : j # k => TookC(n, k)[j] = n[j]
<1>1. Tail(n[k].toC) \in Seq(Messages)
  BY TailOf, ZenonT(60) DEF Net, Link
<1> QED
  BY <1>1, ZenonT(60) DEF TookC, Net, Link

\* The client has sent a message on connection k.
LEMMA SentSLink ==
  ASSUME NEW n \in Net, NEW k \in Conns, NEW e \in Messages
  PROVE  /\ SentS(n, k, e) \in Net
         /\ SentS(n, k, e)[k].toS = Append(n[k].toS, e)
         /\ SentS(n, k, e)[k].toC = n[k].toC
         /\ SentS(n, k, e)[k].c = n[k].c /\ SentS(n, k, e)[k].s = n[k].s
         /\ \A j \in Conns : j # k => SentS(n, k, e)[j] = n[j]
<1>1. n[k].toS \in Seq(Messages)
  BY ZenonT(60) DEF Net, Link
<1>2. Append(n[k].toS, e) \in Seq(Messages)
  BY <1>1, AppendIn, ZenonT(60)
<1> QED
  BY <1>2, ZenonT(60) DEF SentS, Net, Link

\* close() of the client's ends of ks.
LEMMA ClientClosesLink ==
  ASSUME NEW n \in Net, NEW ks
  PROVE  /\ ClientCloses(n, ks) \in Net
         /\ \A k \in Conns :
              /\ ClientCloses(n, ks)[k].toS = n[k].toS /\ ClientCloses(n, ks)[k].toC = n[k].toC
              /\ ClientCloses(n, ks)[k].s = n[k].s
              /\ ClientCloses(n, ks)[k].c = IF k \in ks /\ n[k].c # "none" THEN "closed" ELSE n[k].c
              /\ k \notin ks => ClientCloses(n, ks)[k] = n[k]
BY SMTT(30) DEF ClientCloses, Net, Link, Ends

\* A step of c is nothing to the others.
LEMMA OthersKept ==
  ASSUME ControlInv, NEW c \in Clients, NEW d \in Clients, d # c, ClientSame,
         client'[d] = client[d], has'[d] = has[d],
         \A k \in Conns : k[1] # c => net'[k] = net[k]
  PROVE  ClientOK(d)' /\ TalkOK(d)' /\ Inbox(net[Ctrl(d)].toC, d, client[d], got, has[d])'
<1>1. ClientOK(d) /\ TalkOK(d) /\ Inbox(net[Ctrl(d)].toC, d, client[d], got, has[d])
  BY ZenonT(60) DEF ControlInv
<1>2. /\ net'[Ctrl(d)] = net[Ctrl(d)] /\ server' = server /\ got' = got
      /\ \A i \in 1 .. N : net'[<<d, i>>] = net[<<d, i>>]
  BY ControlConstants, SMTT(30) DEF Ctrl, Conns, ClientSame
<1>3. ClientOK(d)'
  BY <1>1, <1>2, ZenonT(60) DEF ClientOK, Active
<1>4. TalkOK(d)'
  BY <1>1, <1>2, SMTT(30) DEF TalkOK, Untouched, Conversation, Token, NoToken
<1> QED
  BY <1>1, <1>2, <1>3, <1>4, ZenonT(60)

\* A step of client c, from what has to be shown about c.
LEMMA ClientStepKeeps ==
  ASSUME ControlInv, NEW c \in Clients, ClientSame,
         client' \in ClientTable, net' \in Net, backlog' \in Seq(Conns),
         has' \in [Clients -> Clients \cup {NoClient}],
         \A d \in Clients : d # c => client'[d] = client[d] /\ has'[d] = has[d],
         \A k \in Conns : k[1] # c => net'[k] = net[k],
         \A k \in Conns : k[1] = c => Carries(k, net'[k].toS),
         LinksOK', ClientOK(c)', TalkOK(c)',
         Inbox(net[Ctrl(c)].toC, c, client[c], got, has[c])'
  PROVE  ControlInv'
<1>1. TypeOK'
  BY Types, TypesNext, ZenonT(60) DEF ControlInv, ClientSame
<1>2. ServerOK'
  BY ZenonT(60) DEF ControlInv, ServerOK, ClientSame
<1>3. \A k \in Conns : Carries(k, net[k].toS)'
  BY ZenonT(60) DEF ControlInv
<1>4. ASSUME NEW d \in Clients
      PROVE  ClientOK(d)' /\ TalkOK(d)' /\ Inbox(net[Ctrl(d)].toC, d, client[d], got, has[d])'
  BY OthersKept, SMTT(30)
<1> QED
  BY <1>1, <1>2, <1>3, <1>4, ZenonT(60) DEF ControlInv

\* What the server holds, in a step of a client that connects nothing: a closed end
\* stays closed, and nothing more is sent from it.
LEMMA ClientLinks ==
  ASSUME ControlInv, ClientSame, backlog' = backlog,
         \A k \in Conns : /\ net'[k].s = net[k].s
                          /\ net[k].c = "closed" => net'[k].c = "closed" /\ net'[k].toS = net[k].toS
  PROVE  LinksOK'
<1>1. LinksOK /\ server' = server /\ \A i \in 1 .. Len(backlog) : backlog[i] \in Conns
  BY Types, QueueLen, ZenonT(60) DEF ControlInv, ClientSame
<1>2. server.ctrl # NoConn => net'[server.ctrl].s = "open"
  BY Holds, ZenonT(60)
<1>3. server'.acc = NoConn \/ (server'.acc = server.acc /\ net'[server.acc].s = "open")
  BY <1>1, Holds, ZenonT(60)
<1>4. \A k \in server.streams : /\ net'[k].s \in {"open", "closed"}
                                /\ net[k].s = "closed" => net'[k].s = "closed"
                                /\ net[k].c = "closed" => net'[k].c = "closed"
  BY Holds, ZenonT(60)
<1>5. /\ \A i \in 1 .. Len(backlog') : net'[backlog'[i]].s = "queued"
      /\ \A i, j \in 1 .. Len(backlog') : backlog'[i] = backlog'[j] => i = j
  BY <1>1, SMTT(30) DEF LinksOK
<1>6. server'.pc = "params" =>
        \/ server'.cookie = server'.ctrl[1]
        \/ net'[server'.ctrl].toS = <<>> /\ net'[server'.ctrl].c = "closed"
  <2>1. server.pc = "params" => server.ctrl \in Conns
    BY Holds, ZenonT(60) DEF ControlInv, ServerOK
  <2> QED
    BY <1>1, <2>1, ZenonT(60) DEF LinksOK, ServerEOF
<1> QED
  BY <1>1, <1>2, <1>3, <1>4, <1>5, <1>6, SMTT(30) DEF LinksOK, ServerEOF

\* A client's record after a step.
LEMMA MovesTo ==
  ASSUME ControlInv, NEW c \in Clients, NEW st \in States,
         NEW pc \in {"dialled", "loop", "streams", "results", "ok", "failed", "gone"},
         \/ Moves(c, pc, st)
         \/ client' = [client EXCEPT ![c].pc = pc] /\ st = client[c].state
  PROVE  /\ client' \in ClientTable /\ client'[c].pc = pc /\ client'[c].state = st
         /\ client'[c].made = client[c].made /\ client'[c].ended = client[c].ended
         /\ \A d \in Clients : d # c => client'[d] = client[d]
<1>1. client \in ClientTable
  BY Types, ZenonT(60) DEF ControlInv
<1> QED
  BY <1>1, SMTT(30) DEF Moves, ClientTable

\* A client reads: then the server has dealt with its connection, and holds or has
\* closed it.  What the client goes over to has come from the server.
LEMMA TalkRead ==
  ASSUME ControlInv, NEW c \in Clients, server' = server,
         net[Ctrl(c)].toC # <<>>, net'[Ctrl(c)].toC = Tail(net[Ctrl(c)].toC),
         net'[Ctrl(c)].s = net[Ctrl(c)].s,
         NEW x \in Messages, x # State("TEST_END"),
         net'[Ctrl(c)].toS \in {net[Ctrl(c)].toS, Append(net[Ctrl(c)].toS, x)},
         client'[c].made = client[c].made,
         client'[c].pc = "streams" => Head(net[Ctrl(c)].toC) = State("CREATE_STREAMS"),
         \/ client'[c].state \notin {"TEST_START", "TEST_RUNNING", "TEST_END"}
         \/ client'[c].state = client[c].state
         \/ /\ client'[c].state \in {"TEST_START", "TEST_RUNNING"}
            /\ Head(net[Ctrl(c)].toC) = State(client'[c].state)
  PROVE  TalkOK(c)'
<1> DEFINE q == net[Ctrl(c)].toC
           r == net[Ctrl(c)].toS
           q2 == net'[Ctrl(c)].toC
           r2 == net'[Ctrl(c)].toS
<1>1. TalkOK(c) /\ Ctrl(c) \in Conns
  BY CtrlConn, ZenonT(60) DEF ControlInv
<1>2. q \in Seq(Messages) /\ r \in Seq(Messages)
  BY <1>1, Holds, ZenonT(60) DEF Link
<1>3. ~Untouched(c)
  BY ZenonT(60) DEF Untouched
<1>4. /\ In(State("CREATE_STREAMS"), q2) => In(State("CREATE_STREAMS"), q)
      /\ In(State("TEST_START"), q2) => In(State("TEST_START"), q)
      /\ In(State("TEST_RUNNING"), q2) => In(State("TEST_RUNNING"), q)
      /\ Once(State("TEST_RUNNING"), q) => Once(State("TEST_RUNNING"), q2)
      /\ Once(State("TEST_RUNNING"), q) /\ Head(q) = State("TEST_RUNNING") =>
           ~In(State("TEST_RUNNING"), q2)
  BY <1>2, TailIn, ZenonT(60)
<1>5. /\ In(State("TEST_END"), r2) => In(State("TEST_END"), r)
      /\ Once(State("TEST_END"), r) => Once(State("TEST_END"), r2)
  <2>1. r2 = r \/ r2 = Append(r, x)
    BY ZenonT(60)
  <2>2. /\ In(State("TEST_END"), Append(r, x)) => In(State("TEST_END"), r)
        /\ Once(State("TEST_END"), r) => Once(State("TEST_END"), Append(r, x))
    BY <1>2, AppendIn, ZenonT(60)
  <2> QED
    BY <2>1, <2>2, ZenonT(60)
<1>6. In(Head(q), q)
  BY <1>2, HeadIn, ZenonT(60)
<1> HIDE DEF q, r, q2, r2
<1>7. ASSUME server.ctrl = Ctrl(c)
      PROVE  Conversation(c)'
  <2>1. Conversation(c)
    BY <1>1, <1>7, ZenonT(60) DEF TalkOK
  <2>2. server.state \in {"START", "PARAM_EXCHANGE"} =>
          /\ ~In(State("CREATE_STREAMS"), q2)
          /\ client'[c].made = 0 /\ client'[c].pc # "streams"
    BY <1>4, <1>6, <2>1, ZenonT(60) DEF Conversation, q, q2
  <2>3. server.state \in {"START", "PARAM_EXCHANGE", "CREATE_STREAMS"} =>
          /\ ~In(State("TEST_START"), q2) /\ client'[c].state \notin {"TEST_START", "TEST_END"}
          /\ ~In(State("TEST_RUNNING"), q2) /\ client'[c].state # "TEST_RUNNING"
          /\ ~In(State("TEST_END"), r2)
    BY <1>4, <1>5, <1>6, <2>1, ZenonT(60) DEF Conversation, NoToken, q, q2, r, r2
  <2>4. server.state = "TEST_RUNNING" =>
          /\ Once(State("TEST_RUNNING"), q2) /\ Once(State("TEST_END"), r2)
          /\ ~(In(State("TEST_RUNNING"), q2) /\ client'[c].state = "TEST_RUNNING")
          /\ ~(In(State("TEST_RUNNING"), q2) /\ In(State("TEST_END"), r2))
          /\ ~(client'[c].state = "TEST_RUNNING" /\ In(State("TEST_END"), r2))
    BY <1>4, <1>5, <1>6, <2>1, ZenonT(60) DEF Conversation, Token, q, q2, r, r2
  <2>5. server.state \in {"EXCHANGE_RESULTS", "DISPLAY_RESULTS"} =>
          /\ ~In(State("TEST_RUNNING"), q2) /\ client'[c].state # "TEST_RUNNING"
          /\ ~In(State("TEST_END"), r2)
    BY <1>4, <1>5, <1>6, <2>1, ZenonT(60) DEF Conversation, NoToken, q, q2, r, r2
  <2> QED
    BY <2>2, <2>3, <2>4, <2>5, ZenonT(60) DEF Conversation, Token, NoToken, q2, r2
<1> QED
  BY <1>1, <1>3, <1>7, ZenonT(60) DEF TalkOK

\* A client writes, closes or leaves.
LEMMA TalkWrites ==
  ASSUME ControlInv, NEW c \in Clients, server' = server,
         net'[Ctrl(c)].toC = net[Ctrl(c)].toC, net'[Ctrl(c)].s = net[Ctrl(c)].s,
         net[Ctrl(c)].c = "closed" => net'[Ctrl(c)].c = "closed",
         NEW x \in Messages, x # State("TEST_END"),
         \/ net'[Ctrl(c)].toS = net[Ctrl(c)].toS
         \/ /\ net'[Ctrl(c)].toS = Append(net[Ctrl(c)].toS, x)
            /\ \/ x = <<"cookie", c>>
               \/ /\ net'[Ctrl(c)].c = "closed"
                  /\ x \in {State("DONE"), State("CLIENT_TERMINATE")},
         client'[c].made = client[c].made, client'[c].pc # "streams" \/ client[c].pc = "streams",
         \/ client'[c].state = client[c].state /\ (client[c].ended => client'[c].ended)
         \/ client'[c].state = "START"
         \/ client'[c].state = "DONE" /\ client'[c].ended
  PROVE  TalkOK(c)'
<1> DEFINE r == net[Ctrl(c)].toS
           r2 == net'[Ctrl(c)].toS
<1>1. TalkOK(c) /\ Ctrl(c) \in Conns
  BY CtrlConn, ZenonT(60) DEF ControlInv
<1>2. r \in Seq(Messages) /\ Len(r) \in Nat
  BY <1>1, Holds, QueueLen, ZenonT(60) DEF Link
<1>3. /\ In(State("TEST_END"), r2) => In(State("TEST_END"), r)
      /\ Once(State("TEST_END"), r) => Once(State("TEST_END"), r2)
  BY <1>2, AppendIn, ZenonT(60)
<1>4. ASSUME NEW i \in 1 .. Len(r2)
      PROVE  (i \in 1 .. Len(r) /\ r2[i] = r[i]) \/ (r2 = Append(r, x) /\ r2[i] = x)
  <2>1. CASE r2 = r
    BY <1>4, <2>1, ZenonT(60)
  <2>2. CASE r2 = Append(r, x)
    <3>1. /\ Len(r2) = Len(r) + 1 /\ \A j \in 1 .. Len(r) : r2[j] = r[j]
          /\ r2[Len(r) + 1] = x
      BY <1>2, <2>2, QueueAppend, SMTT(30)
    <3> HIDE DEF r, r2
    <3> QED
      BY <1>2, <1>4, <2>2, <3>1, SMTT(30)
  <2> QED
    BY <2>1, <2>2, ZenonT(60)
<1>5. ASSUME Untouched(c)
      PROVE  Untouched(c)'
  <2>1. \A i \in 1 .. Len(r2) :
           \/ r2[i] = <<"cookie", c>>
           \/ net'[Ctrl(c)].c = "closed" /\ r2[i] \in {State("DONE"), State("CLIENT_TERMINATE")}
    <3> TAKE i \in 1 .. Len(r2)
    <3>1. CASE i \in 1 .. Len(r) /\ r2[i] = r[i]
      BY <1>5, <3>1, ZenonT(60) DEF Untouched
    <3>2. CASE r2 = Append(r, x) /\ r2[i] = x /\ r2 # r
      BY <3>2, ZenonT(60)
    <3>3. CASE r2 = r
      BY <1>5, <3>3, ZenonT(60) DEF Untouched
    <3> QED
      BY <1>4, <3>1, <3>2, <3>3, ZenonT(60)
  <2> QED
    BY <1>5, <2>1, ZenonT(60) DEF Untouched
<1> HIDE DEF r, r2
<1>6. ASSUME Conversation(c)
      PROVE  Conversation(c)'
  BY <1>3, <1>6, ZenonT(60) DEF Conversation, Token, NoToken, r, r2
<1> QED
  BY <1>1, <1>5, <1>6, ZenonT(60) DEF TalkOK

\* A step of a client that connects nothing and sends on its control connection only.
LEMMA ClientWorks ==
  ASSUME ControlInv, NEW c \in Clients, ClientSame, backlog' = backlog,
         client' \in ClientTable, net' \in Net,
         has' \in [Clients -> Clients \cup {NoClient}],
         \A d \in Clients : d # c => client'[d] = client[d] /\ has'[d] = has[d],
         \A k \in Conns : k[1] # c => net'[k] = net[k],
         \A k \in Conns : /\ net'[k].s = net[k].s
                          /\ net[k].c = "closed" => net'[k].c = "closed" /\ net'[k].toS = net[k].toS
                          /\ k # Ctrl(c) => net'[k].toS = net[k].toS,
         Carries(Ctrl(c), net'[Ctrl(c)].toS), ClientOK(c)', TalkOK(c)',
         Inbox(net[Ctrl(c)].toC, c, client[c], got, has[c])'
  PROVE  ControlInv'
<1>1. LinksOK'
  BY ClientLinks, ZenonT(60)
<1>2. ASSUME NEW k \in Conns
      PROVE  Carries(k, net'[k].toS)
  <2>1. Carries(k, net[k].toS)
    BY ZenonT(60) DEF ControlInv
  <2> QED
    BY <2>1, ZenonT(60)
<1>3. backlog' \in Seq(Conns)
  BY Types, ZenonT(60) DEF ControlInv
<1> QED
  BY <1>1, <1>2, <1>3, ClientStepKeeps, ZenonT(60)

\* What is on its way to a client, when only the client changes.
LEMMA InboxMe ==
  ASSUME NEW q, NEW c, NEW me, NEW g, NEW h, NEW you, Inbox(q, c, me, g, h),
         In(State("CREATE_STREAMS"), q) => you.made = 0 /\ you.pc # "streams"
  PROVE  Inbox(q, c, you, g, h)
BY ZenonT(60) DEF Inbox

\* The invariant of one client, unfolded.
LEMMA OfClient ==
  ASSUME ControlInv, NEW c \in Clients
  PROVE  /\ ClientOK(c) /\ TalkOK(c) /\ Inbox(net[Ctrl(c)].toC, c, client[c], got, has[c])
         /\ Carries(Ctrl(c), net[Ctrl(c)].toS) /\ Ctrl(c) \in Conns /\ net[Ctrl(c)] \in Link
         /\ net[Ctrl(c)].toC \in Seq(Messages) /\ net[Ctrl(c)].toS \in Seq(Messages)
         /\ client \in ClientTable /\ client[c].made \in 0 .. N
         /\ has \in [Clients -> Clients \cup {NoClient}]
BY CtrlConn, Types, Holds, ZenonT(60) DEF ControlInv, Link, ClientTable

\* The client reads a state byte, and answers it or not.
LEMMA ReadsByte ==
  ASSUME ControlInv, NEW c \in Clients, ClientSame, UNCHANGED <<has, backlog>>,
         NEW st \in States \ {"DONE", "TEST_END"}, NEW x \in Messages, x[1] # "state", x[2] = c,
         NEW pc \in {"loop", "streams", "results", "failed"},
         pc = "streams" => st = "CREATE_STREAMS",
         InLoop(c), ClientReads(Ctrl(c), State(st)), Moves(c, pc, st),
         \/ net' = TookC(net, Ctrl(c))
         \/ net' = SentS(TookC(net, Ctrl(c)), Ctrl(c), x)
  PROVE  ControlInv'
<1> DEFINE k == Ctrl(c)
           q == net[k].toC
           t == TookC(net, k)
<1>1. /\ ClientOK(c) /\ Inbox(q, c, client[c], got, has[c])
      /\ Carries(k, net[k].toS) /\ k \in Conns /\ q \in Seq(Messages)
      /\ net[k].toS \in Seq(Messages)
      /\ client \in ClientTable /\ has \in [Clients -> Clients \cup {NoClient}]
  BY OfClient, ZenonT(60)
<1>2. q # <<>> /\ Head(q) = State(st) /\ net[k].c = "open" /\ net \in Net
  BY Holds, ZenonT(60) DEF ClientReads
<1>3. /\ client' \in ClientTable /\ client'[c].pc = pc /\ client'[c].state = st
      /\ client'[c].made = client[c].made /\ client'[c].ended = client[c].ended
      /\ \A d \in Clients : d # c => client'[d] = client[d]
  BY MovesTo, SMTT(30)
<1>4. /\ t \in Net /\ t[k].toC = Tail(q) /\ t[k].toS = net[k].toS
      /\ t[k].c = net[k].c /\ t[k].s = net[k].s
      /\ \A j \in Conns : j # k => t[j] = net[j]
  BY <1>1, <1>2, TookCLink, SMTT(30)
<1> HIDE DEF k, t, q
<1>5. /\ SentS(t, k, x) \in Net
      /\ SentS(t, k, x)[k].toS = Append(t[k].toS, x)
      /\ SentS(t, k, x)[k].toC = t[k].toC
      /\ SentS(t, k, x)[k].c = t[k].c /\ SentS(t, k, x)[k].s = t[k].s
      /\ \A j \in Conns : j # k => SentS(t, k, x)[j] = t[j]
  BY <1>1, <1>4, SentSLink, ZenonT(60)
<1>6. net' = t \/ net' = SentS(t, k, x)
  BY ZenonT(60) DEF k, t
<1>7. /\ net' \in Net /\ net'[k].toC = Tail(q) /\ net'[k].c = "open" /\ net'[k].s = net[k].s
      /\ net'[k].toS = net[k].toS \/ net'[k].toS = Append(net[k].toS, x)
      /\ \A j \in Conns : j # k => net'[j] = net[j]
  BY <1>2, <1>4, <1>5, <1>6, ZenonT(60)
<1>8. Carries(k, net'[k].toS)
  BY <1>1, <1>7, CarriesAppend, ZenonT(60) DEF k
<1>9. In(State(st), q)
  BY <1>1, <1>2, HeadIn, ZenonT(60)
<1>10. TalkOK(c)'
  <2>1. x # State("TEST_END")
    BY SMTT(30) DEF State
  <2>2. server' = server
    BY ZenonT(60) DEF ClientSame
  <2>3. client'[c].pc = "streams" => Head(net[Ctrl(c)].toC) = State("CREATE_STREAMS")
    BY <1>2, <1>3, ZenonT(60) DEF k, q
  <2>4. \/ client'[c].state \notin {"TEST_START", "TEST_RUNNING", "TEST_END"}
        \/ /\ client'[c].state \in {"TEST_START", "TEST_RUNNING"}
           /\ Head(net[Ctrl(c)].toC) = State(client'[c].state)
    BY <1>2, <1>3, ZenonT(60) DEF k, q
  <2>5. /\ net[Ctrl(c)].toC # <<>> /\ net'[Ctrl(c)].toC = Tail(net[Ctrl(c)].toC)
        /\ net'[Ctrl(c)].s = net[Ctrl(c)].s
        /\ net'[Ctrl(c)].toS \in {net[Ctrl(c)].toS, Append(net[Ctrl(c)].toS, x)}
    BY <1>2, <1>7, ZenonT(60) DEF k, q
  <2> QED
    BY <1>3, <2>1, <2>2, <2>3, <2>4, <2>5, TalkRead, ZenonT(60)
<1>11. Inbox(net[Ctrl(c)].toC, c, client[c], got, has[c])'
  <2>1. Inbox(Tail(q), c, client[c], got, has[c])
    <3>1. Head(q)[1] = "state"
      BY <1>2, SMTT(30) DEF State
    <3> QED
      BY <1>1, <1>2, <3>1, InboxTail, ZenonT(60)
  <2>2. In(State("CREATE_STREAMS"), Tail(q)) => client'[c].made = 0 /\ client'[c].pc # "streams"
    <3>1. Once(State("CREATE_STREAMS"), q)
      BY <1>1, ZenonT(60) DEF Inbox
    <3>2. Head(q) = State("CREATE_STREAMS") => ~In(State("CREATE_STREAMS"), Tail(q))
      BY <1>1, <1>2, <3>1, TailIn, ZenonT(60)
    <3> QED
      BY <1>2, <1>3, <2>1, <3>2, ZenonT(60) DEF Inbox
  <2>3. Inbox(Tail(q), c, client'[c], got, has[c])
    BY <2>1, <2>2, InboxMe, ZenonT(60)
  <2> QED
    BY <1>7, <2>3, ZenonT(60) DEF k, ClientSame
<1>12. ClientOK(c)'
  <2>1. ~client[c].ended
    BY <1>1, ZenonT(60) DEF ClientOK, InLoop
  <2>2. pc = "streams" => client[c].made < N
    <3>1. In(State("CREATE_STREAMS"), q) => client[c].made = 0
      BY <1>1, ZenonT(60) DEF Inbox
    <3> QED
      BY <1>9, <3>1, ControlConstants, SMTT(30)
  <2>3. \A i \in 1 .. N : net'[<<c, i>>].s = net[<<c, i>>].s
    BY <1>7, SMTT(30) DEF Conns, Ctrl, k
  <2> QED
    BY <1>1, <1>2, <1>3, <1>7, <2>1, <2>2, <2>3, ZenonT(60) DEF ClientOK, Active, k
<1>13. \A j \in Conns : j[1] # c => net'[j] = net[j]
  BY <1>7, SMTT(30) DEF k, Ctrl
<1>14. \A j \in Conns : /\ net'[j].s = net[j].s
                        /\ net[j].c = "closed" => net'[j].c = "closed" /\ net'[j].toS = net[j].toS
                        /\ j # Ctrl(c) => net'[j].toS = net[j].toS
  BY <1>2, <1>7, ZenonT(60) DEF k
<1> QED
  BY <1>1, <1>3, <1>7, <1>8, <1>10, <1>11, <1>12, <1>13, <1>14, ClientWorks, ZenonT(60) DEF k

\* iperf_handle_message_client for the protocol's states keeps the invariant.
LEMMA HandleStateKeeps ==
  ASSUME ControlInv, NEW c \in Clients, HandleState(c)
  PROVE  ControlInv'
<1>1. InLoop(c) /\ ClientSame /\ UNCHANGED <<has, backlog>>
  BY ZenonT(60) DEF HandleState
<1>2. /\ <<"params", c>> \in Messages /\ <<"results", c>> \in Messages
      /\ <<"params", c>>[1] # "state" /\ <<"params", c>>[2] = c
      /\ <<"results", c>>[1] # "state" /\ <<"results", c>>[2] = c
  BY Bytes, ZenonT(60)
<1>3. /\ "PARAM_EXCHANGE" \in States \ {"DONE", "TEST_END"}
      /\ "CREATE_STREAMS" \in States \ {"DONE", "TEST_END"}
      /\ "TEST_START" \in States \ {"DONE", "TEST_END"}
      /\ "TEST_RUNNING" \in States \ {"DONE", "TEST_END"}
      /\ "EXCHANGE_RESULTS" \in States \ {"DONE", "TEST_END"}
  BY ZenonT(60) DEF States
<1>4. CASE /\ ClientReads(Ctrl(c), State("PARAM_EXCHANGE"))
           /\ Moves(c, "loop", "PARAM_EXCHANGE")
           /\ net' = SentS(TookC(net, Ctrl(c)), Ctrl(c), <<"params", c>>)
  BY <1>1, <1>2, <1>3, <1>4, ReadsByte, ZenonT(60)
<1>5. CASE /\ ClientReads(Ctrl(c), State("CREATE_STREAMS"))
           /\ Moves(c, "streams", "CREATE_STREAMS")
           /\ net' = TookC(net, Ctrl(c))
  BY <1>1, <1>2, <1>3, <1>5, ReadsByte, ZenonT(60)
<1>6. ASSUME NEW st \in {"TEST_START", "TEST_RUNNING"},
             ClientReads(Ctrl(c), State(st)), Moves(c, "loop", st), net' = TookC(net, Ctrl(c))
      PROVE  ControlInv'
  BY <1>1, <1>2, <1>3, <1>6, ReadsByte, ZenonT(60)
<1>7. CASE /\ ClientReads(Ctrl(c), State("EXCHANGE_RESULTS"))
           /\ Moves(c, "results", "EXCHANGE_RESULTS")
           /\ net' = SentS(TookC(net, Ctrl(c)), Ctrl(c), <<"results", c>>)
  BY <1>1, <1>2, <1>3, <1>7, ReadsByte, ZenonT(60)
<1> QED
  BY <1>4, <1>5, <1>6, <1>7, ZenonT(60) DEF HandleState

\* iperf_handle_message_client for a refusal keeps the invariant.
LEMMA HandleRefusalKeeps ==
  ASSUME ControlInv, NEW c \in Clients, HandleRefusal(c)
  PROVE  ControlInv'
<1>1. PICK st \in {"ACCESS_DENIED", "SERVER_ERROR", "SERVER_TERMINATE"} :
        ClientReads(Ctrl(c), State(st)) /\ Moves(c, "failed", st)
  BY ZenonT(60) DEF HandleRefusal
<1>2. /\ InLoop(c) /\ ClientSame /\ UNCHANGED <<has, backlog>> /\ net' = TookC(net, Ctrl(c))
  BY ZenonT(60) DEF HandleRefusal
<1>3. /\ <<"params", c>> \in Messages /\ <<"params", c>>[1] # "state" /\ <<"params", c>>[2] = c
      /\ st \in States \ {"DONE", "TEST_END"}
  BY <1>1, Bytes, ZenonT(60) DEF States
<1> QED
  BY <1>1, <1>2, <1>3, ReadsByte, ZenonT(60)

\* The client writes on its control connection, closes connections or leaves.
LEMMA WritesKeep ==
  ASSUME ControlInv, NEW c \in Clients, ClientSame, UNCHANGED <<has, backlog>>,
         client' \in ClientTable, net' \in Net,
         \A d \in Clients : d # c => client'[d] = client[d],
         \A k \in Conns : k[1] # c => net'[k] = net[k],
         \A k \in Conns : /\ net'[k].s = net[k].s
                          /\ net[k].c = "closed" => net'[k].c = "closed" /\ net'[k].toS = net[k].toS
                          /\ k # Ctrl(c) => net'[k].toS = net[k].toS,
         net'[Ctrl(c)].toC = net[Ctrl(c)].toC,
         NEW x \in Messages,
         \/ net'[Ctrl(c)].toS = net[Ctrl(c)].toS
         \/ /\ net'[Ctrl(c)].toS = Append(net[Ctrl(c)].toS, x)
            /\ \/ x = <<"cookie", c>>
               \/ /\ net'[Ctrl(c)].c = "closed"
                  /\ x \in {State("DONE"), State("CLIENT_TERMINATE")},
         client'[c].made = client[c].made, client'[c].pc # "streams" \/ client[c].pc = "streams",
         \/ client'[c].state = client[c].state /\ (client[c].ended => client'[c].ended)
         \/ client'[c].state = "START"
         \/ client'[c].state = "DONE" /\ client'[c].ended,
         ClientOK(c)'
  PROVE  ControlInv'
<1>1. /\ Inbox(net[Ctrl(c)].toC, c, client[c], got, has[c])
      /\ Carries(Ctrl(c), net[Ctrl(c)].toS) /\ Ctrl(c) \in Conns
      /\ net[Ctrl(c)].toS \in Seq(Messages)
      /\ has \in [Clients -> Clients \cup {NoClient}]
  BY OfClient, ZenonT(60)
<1>2. Inbox(net[Ctrl(c)].toC, c, client[c], got, has[c])'
  <2>1. In(State("CREATE_STREAMS"), net[Ctrl(c)].toC) =>
          client'[c].made = 0 /\ client'[c].pc # "streams"
    BY <1>1, ZenonT(60) DEF Inbox
  <2>2. Inbox(net[Ctrl(c)].toC, c, client'[c], got, has[c])
    BY <1>1, <2>1, InboxMe, ZenonT(60)
  <2> QED
    BY <2>2, ZenonT(60) DEF ClientSame
<1>3. Carries(Ctrl(c), net'[Ctrl(c)].toS)
  <2>1. CASE net'[Ctrl(c)].toS = net[Ctrl(c)].toS
    BY <1>1, <2>1, ZenonT(60)
  <2>2. CASE /\ net'[Ctrl(c)].toS = Append(net[Ctrl(c)].toS, x)
             /\ x \in {<<"cookie", c>>, State("DONE"), State("CLIENT_TERMINATE")}
    <3>1. x[1] = "state" \/ x[2] = c
      BY <2>2, SMTT(30) DEF State
    <3> QED
      BY <1>1, <2>2, <3>1, CarriesAppend, SMTT(30)
  <2> QED
    BY <2>1, <2>2, ZenonT(60)
<1>4. TalkOK(c)'
  <2>1. CASE net'[Ctrl(c)].toS = net[Ctrl(c)].toS
    <3>1. State("DONE") \in Messages /\ State("DONE") # State("TEST_END") /\ server' = server
      BY ZenonT(60) DEF State, Messages, States, ClientSame
    <3>2. net'[Ctrl(c)].s = net[Ctrl(c)].s
      BY <1>1, ZenonT(60)
    <3>3. net[Ctrl(c)].c = "closed" => net'[Ctrl(c)].c = "closed"
      BY <1>1, ZenonT(60)
    <3> QED
      BY <2>1, <3>1, <3>2, <3>3, TalkWrites, ZenonT(60)
  <2>2. CASE /\ net'[Ctrl(c)].toS = Append(net[Ctrl(c)].toS, x)
             /\ \/ x = <<"cookie", c>>
                \/ /\ net'[Ctrl(c)].c = "closed"
                   /\ x \in {State("DONE"), State("CLIENT_TERMINATE")}
    <3>1. x # State("TEST_END") /\ server' = server
      <4>1. <<"cookie", c>> # State("TEST_END")
        BY ZenonT(60) DEF State
      <4>2. State("DONE") # State("TEST_END") /\ State("CLIENT_TERMINATE") # State("TEST_END")
        BY ZenonT(60) DEF State
      <4> QED
        BY <2>2, <4>1, <4>2, ZenonT(60) DEF ClientSame
    <3>2. net'[Ctrl(c)].s = net[Ctrl(c)].s
      BY <1>1, ZenonT(60)
    <3>3. net[Ctrl(c)].c = "closed" => net'[Ctrl(c)].c = "closed"
      BY <1>1, ZenonT(60)
    <3> QED
      BY <2>2, <3>1, <3>2, <3>3, TalkWrites, ZenonT(60)
  <2> QED
    BY <2>1, <2>2, ZenonT(60)
<1>5. has' \in [Clients -> Clients \cup {NoClient}] /\ \A d \in Clients : has'[d] = has[d]
  BY <1>1, ZenonT(60)
<1> QED
  BY <1>2, <1>3, <1>4, <1>5, ClientWorks, ZenonT(60)

\* The cookie that iperf_connect sends keeps the invariant.
LEMMA SendCookieKeeps ==
  ASSUME ControlInv, NEW c \in Clients, SendCookie(c)
  PROVE  ControlInv'
<1> DEFINE k == Ctrl(c)
           x == <<"cookie", c>>
<1>1. /\ ClientOK(c) /\ k \in Conns /\ net \in Net /\ x \in Messages /\ "START" \in States
  BY OfClient, Holds, Bytes, ZenonT(60) DEF States
<1>2. /\ client' \in ClientTable /\ client'[c].pc = "loop" /\ client'[c].state = "START"
      /\ client'[c].made = client[c].made /\ client'[c].ended = client[c].ended
      /\ \A d \in Clients : d # c => client'[d] = client[d]
  BY <1>1, MovesTo, ZenonT(60) DEF SendCookie
<1>3. /\ ClientSame /\ UNCHANGED <<has, backlog>> /\ net[k].c = "open"
      /\ net' = SentS(net, k, x) /\ client[c].pc = "dialled"
  BY ZenonT(60) DEF SendCookie
<1> HIDE DEF k, x
<1>4. /\ net' \in Net /\ net'[k].toC = net[k].toC /\ net'[k].c = net[k].c /\ net'[k].s = net[k].s
      /\ net'[k].toS = Append(net[k].toS, x)
      /\ \A j \in Conns : j # k => net'[j] = net[j]
  BY <1>1, <1>3, SentSLink, SMTT(30)
<1>5. /\ \A j \in Conns : j[1] # c => net'[j] = net[j]
      /\ \A j \in Conns : /\ net'[j].s = net[j].s
                          /\ net[j].c = "closed" => net'[j].c = "closed" /\ net'[j].toS = net[j].toS
                          /\ j # k => net'[j].toS = net[j].toS
  <2>1. \A j \in Conns : j[1] # c => j # k
    BY SMTT(30) DEF k, Ctrl
  <2> QED
    BY <1>3, <1>4, <2>1, ZenonT(60)
<1>6. ClientOK(c)'
  <2>1. ~client[c].ended
    BY <1>1, <1>3, ZenonT(60) DEF ClientOK, k
  <2>2. \A i \in 1 .. N : net'[<<c, i>>].s = net[<<c, i>>].s
    BY <1>4, SMTT(30) DEF Conns, Ctrl, k
  <2> QED
    BY <1>1, <1>2, <1>3, <1>4, <2>1, <2>2, ZenonT(60) DEF ClientOK, Active, k
<1> QED
  BY <1>1, <1>2, <1>3, <1>4, <1>5, <1>6, WritesKeep, ZenonT(60) DEF k, x

\* The run of a client ends, its connections as they are.
LEMMA Leaves ==
  ASSUME ControlInv, NEW c \in Clients, ClientSame, UNCHANGED <<has, net, backlog>>,
         NEW pc \in {"ok", "failed"}, client' = [client EXCEPT ![c].pc = pc],
         client[c].state = "DONE" /\ ~client[c].ended => pc = "ok",
         pc = "ok" => client[c].state = "DONE"
  PROVE  ControlInv'
<1>1. ClientOK(c) /\ net \in Net /\ client[c].state \in States /\ State("DONE") \in Messages
  BY OfClient, Holds, Bytes, ZenonT(60) DEF ClientTable, States
<1>2. /\ client' \in ClientTable /\ client'[c].pc = pc /\ client'[c].state = client[c].state
      /\ client'[c].made = client[c].made /\ client'[c].ended = client[c].ended
      /\ \A d \in Clients : d # c => client'[d] = client[d]
  BY <1>1, MovesTo, ZenonT(60)
<1>3. ClientOK(c)'
  BY <1>1, <1>2, ZenonT(60) DEF ClientOK, Active, ClientSame
<1> QED
  BY <1>1, <1>2, <1>3, WritesKeep, ZenonT(60)

\* A run that fails keeps the invariant.
LEMMA ClientFailsKeeps ==
  ASSUME ControlInv, NEW c \in Clients, ClientFails(c)
  PROVE  ControlInv'
<1>1. ClientOK(c)
  BY OfClient, ZenonT(60)
<1>2. client[c].state = "DONE" => client[c].ended
  BY <1>1, ZenonT(60) DEF ClientFails, InLoop, ClientOK
<1> QED
  BY <1>2, Leaves, ZenonT(60) DEF ClientFails, Fails

\* A run that returns 0 keeps the invariant.
LEMMA FinishKeeps ==
  ASSUME ControlInv, NEW c \in Clients, Finish(c)
  PROVE  ControlInv'
BY Leaves, ZenonT(60) DEF Finish

\* The connections n after client c has closed its control connection and those in ks.
Closed(n, c, ks) == ClientCloses(n, {Ctrl(c)} \cup ks)

\* A client's connections once it has closed some of them.
LEMMA ClosesOwn ==
  ASSUME NEW c \in Clients, NEW n \in Net, NEW ks, \A k \in ks : k \in Conns /\ k[1] = c
  PROVE  /\ Closed(n, c, ks) \in Net
         /\ \A k \in Conns : k[1] # c => Closed(n, c, ks)[k] = n[k]
         /\ \A k \in Conns : /\ Closed(n, c, ks)[k].s = n[k].s
                             /\ Closed(n, c, ks)[k].toS = n[k].toS
                             /\ Closed(n, c, ks)[k].toC = n[k].toC
                             /\ n[k].c = "closed" => Closed(n, c, ks)[k].c = "closed"
         /\ n[Ctrl(c)].c # "none" => Closed(n, c, ks)[Ctrl(c)].c = "closed"
<1> DEFINE all == {Ctrl(c)} \cup ks
           u == ClientCloses(n, all)
<1>1. Ctrl(c) \in Conns /\ Ctrl(c)[1] = c
  BY CtrlConn, ZenonT(60) DEF Ctrl
<1>2. /\ Ctrl(c) \in all /\ \A k \in all : k[1] = c
  BY <1>1, ZenonT(60)
<1> HIDE DEF all
<1>3. /\ u \in Net
      /\ \A k \in Conns :
           /\ u[k].toS = n[k].toS /\ u[k].toC = n[k].toC
           /\ u[k].s = n[k].s
           /\ u[k].c = IF k \in all /\ n[k].c # "none" THEN "closed" ELSE n[k].c
           /\ k \notin all => u[k] = n[k]
  BY ClientClosesLink, SMTT(30)
<1> HIDE DEF u
<1>4. \A k \in Conns : k[1] # c => u[k] = n[k]
  BY <1>2, <1>3, ZenonT(60)
<1>5. \A k \in Conns : /\ u[k].s = n[k].s /\ u[k].toS = n[k].toS
                       /\ u[k].toC = n[k].toC
                       /\ n[k].c = "closed" => u[k].c = "closed"
  BY <1>3, ZenonT(60)
<1>6. n[Ctrl(c)].c # "none" => u[Ctrl(c)].c = "closed"
  BY <1>1, <1>2, <1>3, ZenonT(60)
<1> QED
  BY <1>3, <1>4, <1>5, <1>6, ZenonT(60) DEF u, all, Closed

\* ks are connections of client c.
Own(c, ks) == \A k \in ks : k \in Conns /\ k[1] = c

\* ... after its last word, x.
Bye(c, ks, x) == Closed(SentS(net, Ctrl(c), x), c, ks)

\* The server will find the word, and then the end.
LEMMA SaysBye ==
  ASSUME ControlInv, NEW c \in Clients, NEW ks, Own(c, ks),
         NEW x \in Messages, net[Ctrl(c)].c = "open"
  PROVE  /\ Bye(c, ks, x) \in Net
         /\ \A k \in Conns : k[1] # c => Bye(c, ks, x)[k] = net[k]
         /\ \A k \in Conns :
              /\ Bye(c, ks, x)[k].s = net[k].s
              /\ net[k].c = "closed" =>
                   Bye(c, ks, x)[k].c = "closed" /\ Bye(c, ks, x)[k].toS = net[k].toS
              /\ k # Ctrl(c) => Bye(c, ks, x)[k].toS = net[k].toS
              /\ Bye(c, ks, x)[k].toC = net[k].toC
         /\ Bye(c, ks, x)[Ctrl(c)].c = "closed"
         /\ Bye(c, ks, x)[Ctrl(c)].toS = Append(net[Ctrl(c)].toS, x)
<1> DEFINE k == Ctrl(c)
           n == SentS(net, k, x)
           u == Closed(n, c, ks)
<1>1. net \in Net /\ k \in Conns
  BY OfClient, Holds, ZenonT(60)
<1> HIDE DEF k
<1>2. /\ n \in Net /\ n[k].toS = Append(net[k].toS, x) /\ n[k].toC = net[k].toC
      /\ n[k].c = net[k].c /\ n[k].s = net[k].s
      /\ \A j \in Conns : j # k => n[j] = net[j]
  BY <1>1, SentSLink, SMTT(30)
<1> HIDE DEF n
<1>3. /\ u \in Net
      /\ \A j \in Conns : j[1] # c => u[j] = n[j]
      /\ \A j \in Conns : /\ u[j].s = n[j].s /\ u[j].toS = n[j].toS
                          /\ u[j].toC = n[j].toC
                          /\ n[j].c = "closed" => u[j].c = "closed"
      /\ n[Ctrl(c)].c # "none" => u[Ctrl(c)].c = "closed"
  BY <1>2, ClosesOwn, SMTT(30) DEF Own
<1> HIDE DEF u
<1>4. \A j \in Conns : j[1] # c => u[j] = net[j]
  <2>1. \A j \in Conns : j[1] # c => j # k
    BY SMTT(30) DEF k, Ctrl
  <2> QED
    BY <1>2, <1>3, <2>1, SMTT(30)
<1>5. net[k].c = "open"
  BY ZenonT(60) DEF k
<1>6. \A j \in Conns : /\ u[j].s = net[j].s
                       /\ net[j].c = "closed" => u[j].c = "closed" /\ u[j].toS = net[j].toS
                       /\ j # k => u[j].toS = net[j].toS
                       /\ u[j].toC = net[j].toC
  <2> TAKE j \in Conns
  <2>1. CASE j = k
    BY <1>2, <1>3, <1>5, <2>1, ZenonT(60)
  <2>2. CASE j # k
    BY <1>2, <1>3, <2>2, SMTT(30)
  <2> QED
    BY <2>1, <2>2, ZenonT(60)
<1>7. u[k].c = "closed" /\ u[k].toS = Append(net[k].toS, x)
  BY <1>1, <1>2, <1>3, <1>5, ZenonT(60) DEF k
<1> QED
  BY <1>3, <1>4, <1>6, <1>7, ZenonT(60) DEF u, n, k, Bye

\* The streams of a client are its connections.
LEMMA OwnStreams ==
  ASSUME NEW c \in Clients, NEW m \in 0 .. N
  PROVE  /\ \A k \in Streams(c) : k \in Conns /\ k[1] = c
         /\ \A k \in {c} \X (1 .. m) : k \in Conns /\ k[1] = c
         /\ \A i \in 1 .. N : <<c, i>> \in Conns
BY ControlConstants, SMTT(30) DEF Streams, Conns

\* A client leaves, and its connections are closed.
LEMMA Departs ==
  ASSUME ControlInv, NEW c \in Clients, ClientSame, UNCHANGED <<has, backlog>>,
         client[c].pc # "idle", client' = [client EXCEPT ![c].pc = "gone"],
         net' = Closed(net, c, Streams(c))
  PROVE  ControlInv'
<1>1. /\ ClientOK(c) /\ net \in Net /\ client[c].state \in States /\ State("DONE") \in Messages
      /\ Ctrl(c) \in Conns /\ 0 \in 0 .. N
  BY OfClient, Holds, Bytes, ControlConstants, SMTT(30) DEF ClientTable, States
<1>2. /\ client' \in ClientTable /\ client'[c].pc = "gone" /\ client'[c].state = client[c].state
      /\ client'[c].made = client[c].made /\ client'[c].ended = client[c].ended
      /\ \A d \in Clients : d # c => client'[d] = client[d]
  BY <1>1, MovesTo, ZenonT(60)
<1>3. \A k \in Streams(c) : k \in Conns /\ k[1] = c
  BY <1>1, OwnStreams, ZenonT(60)
<1>4. /\ net' \in Net
      /\ \A k \in Conns : k[1] # c => net'[k] = net[k]
      /\ \A k \in Conns : /\ net'[k].s = net[k].s /\ net'[k].toS = net[k].toS
                          /\ net'[k].toC = net[k].toC
                          /\ net[k].c = "closed" => net'[k].c = "closed"
  <2> DEFINE ks == Streams(c)
             u == Closed(net, c, ks)
  <2>1. net \in Net /\ \A k \in ks : k \in Conns /\ k[1] = c
    BY <1>1, <1>3, ZenonT(60)
  <2> HIDE DEF ks
  <2>2. /\ u \in Net
        /\ \A k \in Conns : k[1] # c => u[k] = net[k]
        /\ \A k \in Conns : /\ u[k].s = net[k].s /\ u[k].toS = net[k].toS
                            /\ u[k].toC = net[k].toC
                            /\ net[k].c = "closed" => u[k].c = "closed"
    BY <2>1, ClosesOwn, SMTT(30)
  <2> HIDE DEF u
  <2>3. net' = u
    BY ZenonT(60) DEF u, ks
  <2> QED
    BY <2>2, <2>3, ZenonT(60)
<1>5. ClientOK(c)'
  <2>1. \A i \in 1 .. N : net'[<<c, i>>].s = net[<<c, i>>].s
    BY <1>4, SMTT(30) DEF Conns
  <2>2. net[Ctrl(c)].c = "closed" => net'[Ctrl(c)].c = "closed"
    BY <1>1, <1>4, ZenonT(60)
  <2> QED
    BY <1>1, <1>2, <2>1, <2>2, ZenonT(60) DEF ClientOK, Active, ClientSame
<1> QED
  BY <1>1, <1>2, <1>4, <1>5, WritesKeep, ZenonT(60)

\* The exit of the process keeps the invariant.
LEMMA ExitKeeps ==
  ASSUME ControlInv, NEW c \in Clients, Exit(c)
  PROVE  ControlInv'
BY Departs, ZenonT(60) DEF Exit, Closed

\* A client that is killed or interrupted keeps the invariant.
LEMMA CrashKeeps ==
  ASSUME ControlInv, NEW c \in Clients, Crash(c)
  PROVE  ControlInv'
<1>1. /\ ClientSame /\ UNCHANGED <<has, backlog>> /\ client[c].pc # "idle" /\ Active(c)
      /\ client' = [client EXCEPT ![c].pc = "gone"]
  BY ZenonT(60) DEF Crash, Active
<1>2. CASE net' = Closed(net, c, Streams(c))
  BY <1>1, <1>2, Departs, ZenonT(60)
<1>3. CASE /\ net[Ctrl(c)].c = "open"
           /\ net' = Closed(SentS(net, Ctrl(c), State("CLIENT_TERMINATE")), c, Streams(c))
  <2> DEFINE x == State("CLIENT_TERMINATE")
             ks == Streams(c)
             u == Bye(c, ks, x)
  <2>1. /\ ClientOK(c) /\ client[c].state \in States /\ x \in Messages
        /\ Ctrl(c) \in Conns /\ 0 \in 0 .. N
    BY OfClient, Bytes, ControlConstants, SMTT(30) DEF ClientTable, States
  <2>2. /\ client' \in ClientTable /\ client'[c].pc = "gone" /\ client'[c].state = client[c].state
        /\ client'[c].made = client[c].made /\ client'[c].ended = client[c].ended
        /\ \A d \in Clients : d # c => client'[d] = client[d]
    BY <1>1, <2>1, MovesTo, ZenonT(60)
  <2>3. Own(c, ks)
    BY <2>1, OwnStreams, ZenonT(60) DEF Own
  <2> HIDE DEF ks, x
  <2>10. x \in Messages /\ net[Ctrl(c)].c = "open"
    BY <1>3, <2>1, ZenonT(60)
  <2>4. /\ u \in Net
        /\ \A k \in Conns : k[1] # c => u[k] = net[k]
        /\ \A k \in Conns : /\ u[k].s = net[k].s
                            /\ net[k].c = "closed" => u[k].c = "closed" /\ u[k].toS = net[k].toS
                            /\ k # Ctrl(c) => u[k].toS = net[k].toS
                            /\ u[k].toC = net[k].toC
        /\ u[Ctrl(c)].c = "closed" /\ u[Ctrl(c)].toS = Append(net[Ctrl(c)].toS, x)
    BY <2>3, <2>10, SaysBye, SMTT(30)
  <2> HIDE DEF u
  <2>5. net' = u
    BY <1>3, ZenonT(60) DEF u, x, ks, Bye
  <2>6. ClientOK(c)'
    <3>1. \A i \in 1 .. N : net'[<<c, i>>].s = net[<<c, i>>].s
      BY <2>4, <2>5, SMTT(30) DEF Conns
    <3> QED
      BY <1>1, <2>1, <2>2, <2>4, <2>5, <3>1, SMTT(30) DEF ClientOK, Active, ClientSame
  <2>7. net'[Ctrl(c)].toC = net[Ctrl(c)].toC
    BY <2>1, <2>4, <2>5, ZenonT(60)
  <2>8. /\ net' \in Net
        /\ \A k \in Conns : k[1] # c => net'[k] = net[k]
        /\ \A k \in Conns : /\ net'[k].s = net[k].s
                            /\ net[k].c = "closed" => net'[k].c = "closed" /\ net'[k].toS = net[k].toS
                            /\ k # Ctrl(c) => net'[k].toS = net[k].toS
    BY <2>4, <2>5, ZenonT(60)
  <2>9. /\ net'[Ctrl(c)].toS = Append(net[Ctrl(c)].toS, x) /\ net'[Ctrl(c)].c = "closed"
        /\ x \in {State("DONE"), State("CLIENT_TERMINATE")}
    BY <2>4, <2>5, ZenonT(60) DEF x
  <2> QED
    BY <1>1, <2>1, <2>2, <2>6, <2>7, <2>8, <2>9, WritesKeep, ZenonT(60)
<1> QED
  BY <1>2, <1>3, ZenonT(60) DEF Crash, Closed

\* endTest keeps the invariant.
LEMMA EndTestKeeps ==
  ASSUME ControlInv, NEW c \in Clients, EndTest(c)
  PROVE  ControlInv'
<1> DEFINE x == State("DONE")
           ks == {c} \X (1 .. client[c].made)
           u == Bye(c, ks, x)
<1>1. /\ ClientSame /\ UNCHANGED <<has, backlog>> /\ client[c].pc # "idle" /\ net[Ctrl(c)].c = "open"
      /\ client' = [client EXCEPT ![c].ended = TRUE, ![c].state = "DONE"]
      /\ net' = u
  BY ZenonT(60) DEF EndTest, Active, iperf_client_end, Closed, Bye
<1>2. /\ ClientOK(c) /\ client \in ClientTable /\ x \in Messages
      /\ Ctrl(c) \in Conns /\ client[c].made \in 0 .. N
  BY OfClient, Bytes, SMTT(30) DEF States
<1>3. /\ client' \in ClientTable /\ client'[c].pc = client[c].pc /\ client'[c].state = "DONE"
      /\ client'[c].made = client[c].made /\ client'[c].ended
      /\ \A d \in Clients : d # c => client'[d] = client[d]
  BY <1>1, <1>2, ZenonT(60) DEF ClientTable, States
<1>4. Own(c, ks)
  BY <1>2, OwnStreams, ZenonT(60) DEF Own
<1> HIDE DEF ks, x
<1>11. x \in Messages /\ net[Ctrl(c)].c = "open"
  BY <1>1, <1>2, ZenonT(60)
<1>5. /\ u \in Net
      /\ \A k \in Conns : k[1] # c => u[k] = net[k]
      /\ \A k \in Conns : /\ u[k].s = net[k].s
                          /\ net[k].c = "closed" => u[k].c = "closed" /\ u[k].toS = net[k].toS
                          /\ k # Ctrl(c) => u[k].toS = net[k].toS
                          /\ u[k].toC = net[k].toC
      /\ u[Ctrl(c)].c = "closed" /\ u[Ctrl(c)].toS = Append(net[Ctrl(c)].toS, x)
  BY <1>4, <1>11, SaysBye, ZenonT(60)
<1> HIDE DEF u
<1>6. ClientOK(c)'
  <2>1. \A i \in 1 .. N : net'[<<c, i>>].s = net[<<c, i>>].s
    <3>1. \A i \in 1 .. N : <<c, i>> \in Conns
      BY <1>2, OwnStreams, ZenonT(60)
    <3> QED
      BY <1>1, <1>5, <3>1, ZenonT(60)
  <2> QED
    <3>1. net'[Ctrl(c)].c = "closed" /\ client'[c].pc # "idle"
      BY <1>1, <1>3, <1>5, ZenonT(60)
    <3>2. /\ \A i \in 1 .. N : i > client[c].made => net[<<c, i>>].s = "none"
          /\ client[c].pc = "streams" => client[c].made < N
      BY <1>2, ZenonT(60) DEF ClientOK
    <3> QED
      BY <1>3, <2>1, <3>1, <3>2, ZenonT(60) DEF ClientOK
<1>7. net'[Ctrl(c)].toC = net[Ctrl(c)].toC
  BY <1>1, <1>2, <1>5, ZenonT(60)
<1>8. /\ net' \in Net
      /\ \A k \in Conns : k[1] # c => net'[k] = net[k]
      /\ \A k \in Conns : /\ net'[k].s = net[k].s
                          /\ net[k].c = "closed" => net'[k].c = "closed" /\ net'[k].toS = net[k].toS
                          /\ k # Ctrl(c) => net'[k].toS = net[k].toS
  BY <1>1, <1>5, ZenonT(60)
<1>9. /\ net'[Ctrl(c)].toS = Append(net[Ctrl(c)].toS, x) /\ net'[Ctrl(c)].c = "closed"
      /\ x \in {State("DONE"), State("CLIENT_TERMINATE")}
  BY <1>1, <1>5, ZenonT(60) DEF x
<1>10. client'[c].pc # "streams" \/ client[c].pc = "streams"
  BY <1>3, ZenonT(60)
<1> QED
  BY <1>1, <1>2, <1>3, <1>6, <1>7, <1>8, <1>9, <1>10, WritesKeep, ZenonT(60)

\* DISPLAY_RESULTS keeps the invariant: the results are here, and were collected.
LEMMA HandleDisplayKeeps ==
  ASSUME ControlInv, NEW c \in Clients, HandleDisplay(c)
  PROVE  ControlInv'
<1> DEFINE k == Ctrl(c)
           q == net[k].toC
           t == TookC(net, k)
           x == State("DONE")
           n == SentS(t, k, x)
           ks == {c} \X (1 .. client[c].made)
           u == Closed(n, c, ks)
<1>1. /\ InLoop(c) /\ ClientReads(k, State("DISPLAY_RESULTS")) /\ Moves(c, "loop", "DONE")
      /\ net' = u /\ ClientSame /\ UNCHANGED <<has, backlog>>
  BY ZenonT(60) DEF HandleDisplay, iperf_client_end, Closed
<1>2. /\ ClientOK(c) /\ Inbox(q, c, client[c], got, has[c]) /\ Carries(k, net[k].toS)
      /\ k \in Conns /\ q \in Seq(Messages) /\ net[k].toS \in Seq(Messages)
      /\ has \in [Clients -> Clients \cup {NoClient}] /\ client[c].made \in 0 .. N
  BY OfClient, ZenonT(60)
<1>3. /\ client' \in ClientTable /\ client'[c].pc = "loop" /\ client'[c].state = "DONE"
      /\ client'[c].made = client[c].made /\ client'[c].ended = client[c].ended
      /\ \A d \in Clients : d # c => client'[d] = client[d]
  <2>1. "DONE" \in States
    BY ZenonT(60) DEF States
  <2> QED
    BY <1>1, <2>1, MovesTo, ZenonT(60)
<1>4. /\ q # <<>> /\ Head(q) = State("DISPLAY_RESULTS") /\ net[k].c = "open" /\ net \in Net
      /\ x \in Messages
  BY <1>1, Holds, Bytes, ZenonT(60) DEF ClientReads, States
<1>5. Own(c, ks)
  BY <1>2, OwnStreams, ZenonT(60) DEF Own
<1>6. /\ t \in Net /\ t[k].toC = Tail(q) /\ t[k].toS = net[k].toS
      /\ t[k].c = net[k].c /\ t[k].s = net[k].s
      /\ \A j \in Conns : j # k => t[j] = net[j]
  BY <1>2, <1>4, TookCLink, ZenonT(60)
<1> HIDE DEF k, q, t, ks, x
<1>7. /\ n \in Net /\ n[k].toS = Append(t[k].toS, x) /\ n[k].toC = t[k].toC
      /\ n[k].c = t[k].c /\ n[k].s = t[k].s
      /\ \A j \in Conns : j # k => n[j] = t[j]
  BY <1>2, <1>4, <1>6, SentSLink, ZenonT(60)
<1> HIDE DEF n
<1>8. /\ u \in Net
      /\ \A j \in Conns : j[1] # c => u[j] = n[j]
      /\ \A j \in Conns : /\ u[j].s = n[j].s /\ u[j].toS = n[j].toS
                          /\ u[j].toC = n[j].toC
                          /\ n[j].c = "closed" => u[j].c = "closed"
      /\ n[Ctrl(c)].c # "none" => u[Ctrl(c)].c = "closed"
  <2>1. n \in Net
    BY <1>7, ZenonT(60)
  <2>2. \A j \in ks : j \in Conns /\ j[1] = c
    BY <1>5, ZenonT(60) DEF Own
  <2> QED
    BY <2>1, <2>2, ClosesOwn, SMTT(30)
<1> HIDE DEF u
<1>9. /\ net' \in Net /\ net'[k].toC = Tail(q) /\ net'[k].toS = Append(net[k].toS, x)
      /\ net'[k].c = "closed" /\ net'[k].s = net[k].s
  BY <1>1, <1>2, <1>4, <1>6, <1>7, <1>8, ZenonT(60) DEF k
<1>10. \A j \in Conns : j # k =>
         /\ net'[j].s = net[j].s /\ net'[j].toS = net[j].toS
         /\ net[j].c = "closed" => net'[j].c = "closed"
  BY <1>1, <1>6, <1>7, <1>8, ZenonT(60)
<1>11. \A j \in Conns : j[1] # c => net'[j] = net[j]
  <2>1. \A j \in Conns : j[1] # c => j # k
    BY DEF k, Ctrl
  <2> QED
    BY <1>1, <1>6, <1>7, <1>8, <2>1, ZenonT(60)
<1>12. \A j \in Conns : /\ net'[j].s = net[j].s
                        /\ net[j].c = "closed" => net'[j].c = "closed" /\ net'[j].toS = net[j].toS
                        /\ j # k => net'[j].toS = net[j].toS
  <2> TAKE j \in Conns
  <2>1. CASE j = k
    BY <1>4, <1>9, <2>1, ZenonT(60)
  <2>2. CASE j # k
    BY <1>10, <2>2, ZenonT(60)
  <2> QED
    BY <2>1, <2>2, ZenonT(60)
<1>13. Carries(k, net'[k].toS)
  <2>1. x[1] = "state"
    BY ZenonT(60) DEF x, State
  <2> QED
    BY <1>2, <1>4, <1>9, <2>1, CarriesAppend, SMTT(30) DEF k
<1>14. TalkOK(c)'
  <2>1. x \in Messages /\ x # State("TEST_END") /\ server' = server
    BY <1>1, <1>4, SMTT(30) DEF State, x, ClientSame
  <2>2. /\ client'[c].pc # "streams"
        /\ client'[c].state \notin {"TEST_START", "TEST_RUNNING", "TEST_END"}
        /\ client'[c].made = client[c].made
    BY <1>3, ZenonT(60)
  <2>3. /\ net[Ctrl(c)].toC # <<>> /\ net'[Ctrl(c)].toC = Tail(net[Ctrl(c)].toC)
        /\ net'[Ctrl(c)].s = net[Ctrl(c)].s
        /\ net'[Ctrl(c)].toS \in {net[Ctrl(c)].toS, Append(net[Ctrl(c)].toS, x)}
    BY <1>4, <1>9, ZenonT(60) DEF k, q
  <2> QED
    BY <2>1, <2>2, <2>3, TalkRead, ZenonT(60)
<1>15. Inbox(net[Ctrl(c)].toC, c, client[c], got, has[c])'
  <2>1. Head(q)[1] = "state"
    BY <1>4, SMTT(30) DEF State
  <2>2. Inbox(Tail(q), c, client[c], got, has[c])
    BY <1>2, <1>4, <2>1, InboxTail, ZenonT(60)
  <2>3. In(State("CREATE_STREAMS"), Tail(q)) => client'[c].made = 0 /\ client'[c].pc # "streams"
    BY <1>3, <2>2, ZenonT(60) DEF Inbox
  <2>4. Inbox(Tail(q), c, client'[c], got, has[c])
    BY <2>2, <2>3, InboxMe, SMTT(30)
  <2> QED
    BY <1>1, <1>9, <2>4, ZenonT(60) DEF k, ClientSame
<1>16. c \in got /\ has[c] = c
  <2>1. In(State("DISPLAY_RESULTS"), q) /\ 1 \in 1 .. Len(q) /\ q[1] = State("DISPLAY_RESULTS")
    BY <1>2, <1>4, HeadIn, TailOf, SMTT(30)
  <2> QED
    BY <1>2, <2>1, SMTT(30) DEF Inbox
<1>17. ClientOK(c)'
  <2>1. ~client[c].ended
    BY <1>1, <1>2, ZenonT(60) DEF ClientOK, InLoop
  <2>2. \A i \in 1 .. N : net'[<<c, i>>].s = net[<<c, i>>].s
    BY <1>12, SMTT(30) DEF Conns
  <2>3. net'[Ctrl(c)].c = "closed" /\ got' = got /\ has' = has
    BY <1>1, <1>9, ZenonT(60) DEF k, ClientSame
  <2>4. \A i \in 1 .. N : i > client[c].made => net[<<c, i>>].s = "none"
    BY <1>2, ZenonT(60) DEF ClientOK
  <2> QED
    BY <1>3, <1>16, <2>1, <2>2, <2>3, <2>4, ZenonT(60) DEF ClientOK
<1>18. has' \in [Clients -> Clients \cup {NoClient}] /\ \A d \in Clients : has'[d] = has[d]
  BY <1>1, <1>2, ZenonT(60)
<1> QED
  BY <1>1, <1>3, <1>9, <1>11, <1>12, <1>13, <1>14, <1>15, <1>17, <1>18, ClientWorks, ZenonT(60) DEF k

\* get_results of the client keeps the invariant.
LEMMA GetResultsKeeps ==
  ASSUME ControlInv, NEW c \in Clients, GetResults(c)
  PROVE  ControlInv'
<1> DEFINE k == Ctrl(c)
           q == net[k].toC
           t == TookC(net, k)
<1>1. /\ client[c].pc = "results" /\ q # <<>> /\ net' = t /\ ClientSame /\ UNCHANGED backlog
      /\ \/ /\ Head(q)[1] = "results" /\ client' = [client EXCEPT ![c].pc = "loop"]
            /\ has' = [has EXCEPT ![c] = Head(q)[2]]
         \/ /\ Head(q)[1] # "results" /\ client' = [client EXCEPT ![c].pc = "failed"]
            /\ has' = has
  BY ZenonT(60) DEF GetResults, Fails
<1>2. /\ ClientOK(c) /\ Inbox(q, c, client[c], got, has[c]) /\ Carries(k, net[k].toS)
      /\ k \in Conns /\ q \in Seq(Messages) /\ net[k].toS \in Seq(Messages) /\ net \in Net
      /\ client \in ClientTable /\ has \in [Clients -> Clients \cup {NoClient}]
      /\ client[c].state \in States
  BY OfClient, Holds, ZenonT(60) DEF ClientTable
<1>3. PICK pc \in {"loop", "failed"} : client' = [client EXCEPT ![c].pc = pc]
  BY <1>1, ZenonT(60)
<1>4. /\ client' \in ClientTable /\ client'[c].pc = pc /\ client'[c].state = client[c].state
      /\ client'[c].made = client[c].made /\ client'[c].ended = client[c].ended
      /\ \A d \in Clients : d # c => client'[d] = client[d]
  BY <1>2, <1>3, MovesTo, ZenonT(60)
<1>5. /\ t \in Net /\ t[k].toC = Tail(q) /\ t[k].toS = net[k].toS
      /\ t[k].c = net[k].c /\ t[k].s = net[k].s
      /\ \A j \in Conns : j # k => t[j] = net[j]
  BY <1>1, <1>2, TookCLink, SMTT(30)
<1> HIDE DEF k, q, t
<1>6. /\ net' \in Net /\ net'[k].toC = Tail(q) /\ net'[k].toS = net[k].toS
      /\ net'[k].c = net[k].c /\ net'[k].s = net[k].s
      /\ \A j \in Conns : j # k => net'[j] = net[j]
  BY <1>1, <1>5, ZenonT(60)
<1>7. \A j \in Conns : j[1] # c => net'[j] = net[j]
  <2>1. \A j \in Conns : j[1] # c => j # k
    BY SMTT(30) DEF k, Ctrl
  <2> QED
    BY <1>6, <2>1, ZenonT(60)
<1>8. \A j \in Conns : /\ net'[j].s = net[j].s
                       /\ net[j].c = "closed" => net'[j].c = "closed" /\ net'[j].toS = net[j].toS
                       /\ j # k => net'[j].toS = net[j].toS
  BY <1>6, ZenonT(60)
<1>9. TalkOK(c)'
  <2>1. State("DONE") \in Messages /\ State("DONE") # State("TEST_END") /\ server' = server
    BY <1>1, ZenonT(60) DEF State, Messages, States, ClientSame
  <2>2. /\ net[Ctrl(c)].toC # <<>> /\ net'[Ctrl(c)].toC = Tail(net[Ctrl(c)].toC)
        /\ net'[Ctrl(c)].s = net[Ctrl(c)].s
        /\ net'[Ctrl(c)].toS \in {net[Ctrl(c)].toS, Append(net[Ctrl(c)].toS, State("DONE"))}
    BY <1>1, <1>6, ZenonT(60) DEF k, q
  <2>3. client'[c].pc # "streams"
    BY <1>3, <1>4, ZenonT(60)
  <2> QED
    BY <1>4, <2>1, <2>2, <2>3, TalkRead, SMTT(30)
<1>10. Inbox(Tail(q), c, client[c], got, has'[c]) /\ has' \in [Clients -> Clients \cup {NoClient}]
  <2>1. CASE Head(q)[1] = "results" /\ has' = [has EXCEPT ![c] = Head(q)[2]]
    <3>1. Head(q)[2] = c /\ Inbox(Tail(q), c, client[c], got, c)
      BY <1>1, <1>2, <2>1, InboxResults, ZenonT(60)
    <3>2. has'[c] = c
      BY <1>2, <2>1, <3>1, ZenonT(60)
    <3> QED
      BY <1>2, <2>1, <3>1, <3>2, ZenonT(60)
  <2>2. CASE Head(q)[1] # "results" /\ has' = has
    BY <1>1, <1>2, <2>2, InboxTail, ZenonT(60)
  <2> QED
    BY <1>1, <2>1, <2>2, ZenonT(60)
<1>11. \A d \in Clients : d # c => has'[d] = has[d]
  BY <1>1, <1>2, ZenonT(60)
<1>12. Inbox(net[Ctrl(c)].toC, c, client[c], got, has[c])'
  <2>1. In(State("CREATE_STREAMS"), Tail(q)) => client'[c].made = 0 /\ client'[c].pc # "streams"
    BY <1>3, <1>4, <1>10, ZenonT(60) DEF Inbox
  <2>2. Inbox(Tail(q), c, client'[c], got, has'[c])
    BY <1>10, <2>1, InboxMe, ZenonT(60)
  <2> QED
    BY <1>1, <1>6, <2>2, ZenonT(60) DEF k, ClientSame
<1>13. ClientOK(c)'
  <2>1. \A i \in 1 .. N : net'[<<c, i>>].s = net[<<c, i>>].s
    BY <1>8, SMTT(30) DEF Conns
  <2>2. net'[Ctrl(c)].c = net[Ctrl(c)].c
    BY <1>6, ZenonT(60) DEF k
  <2> QED
    BY <1>1, <1>2, <1>3, <1>4, <2>1, <2>2, ZenonT(60) DEF ClientOK, Active
<1>14. Carries(k, net'[k].toS)
  BY <1>2, <1>6, ZenonT(60)
<1> QED
  BY <1>1, <1>4, <1>6, <1>7, <1>8, <1>9, <1>10, <1>11, <1>12, <1>13, <1>14, ClientWorks, ZenonT(60) DEF k

\* The end of the test keeps the invariant: the token goes back as TEST_END.
LEMMA TestOverKeeps ==
  ASSUME ControlInv, NEW c \in Clients, TestOver(c)
  PROVE  ControlInv'
<1> DEFINE k == Ctrl(c)
           x == State("TEST_END")
<1>1. /\ client[c].pc = "loop" /\ client[c].state = "TEST_RUNNING" /\ Moves(c, "loop", "TEST_END")
      /\ net' = SentS(net, k, x) /\ ClientSame /\ UNCHANGED <<has, backlog>>
  BY ZenonT(60) DEF TestOver
<1>2. /\ ClientOK(c) /\ TalkOK(c) /\ Inbox(net[k].toC, c, client[c], got, has[c])
      /\ Carries(k, net[k].toS) /\ k \in Conns /\ net[k].toS \in Seq(Messages) /\ net \in Net
      /\ has \in [Clients -> Clients \cup {NoClient}] /\ x \in Messages /\ "TEST_END" \in States
  BY OfClient, Holds, Bytes, SMTT(30) DEF States
<1>3. /\ client' \in ClientTable /\ client'[c].pc = "loop" /\ client'[c].state = "TEST_END"
      /\ client'[c].made = client[c].made /\ client'[c].ended = client[c].ended
      /\ \A d \in Clients : d # c => client'[d] = client[d]
  BY <1>1, <1>2, MovesTo, ZenonT(60)
<1>4. net[k].c = "open" /\ ~client[c].ended
  BY <1>1, <1>2, ZenonT(60) DEF ClientOK, Active
<1> HIDE DEF k, x
<1>5. /\ net' \in Net /\ net'[k].toC = net[k].toC /\ net'[k].c = net[k].c /\ net'[k].s = net[k].s
      /\ net'[k].toS = Append(net[k].toS, x)
      /\ \A j \in Conns : j # k => net'[j] = net[j]
  BY <1>1, <1>2, SentSLink, ZenonT(60)
<1>6. \A j \in Conns : j[1] # c => net'[j] = net[j]
  <2>1. \A j \in Conns : j[1] # c => j # k
    BY DEF k, Ctrl
  <2> QED
    BY <1>5, <2>1, ZenonT(60)
<1>7. \A j \in Conns : /\ net'[j].s = net[j].s
                       /\ net[j].c = "closed" => net'[j].c = "closed" /\ net'[j].toS = net[j].toS
                       /\ j # k => net'[j].toS = net[j].toS
  BY <1>4, <1>5, ZenonT(60)
<1>8. Carries(k, net'[k].toS)
  <2>1. x[1] = "state"
    BY ZenonT(60) DEF x, State
  <2> QED
    BY <1>2, <1>5, <2>1, CarriesAppend, ZenonT(60) DEF k
<1>9. TalkOK(c)'
  <2>1. ~Untouched(c)
    BY <1>1, ZenonT(60) DEF Untouched
  <2>2. ASSUME server.ctrl = k
        PROVE  Conversation(c)'
    <3>1. Conversation(c) /\ server' = server
      BY <1>1, <1>2, <2>2, SMTT(30) DEF TalkOK, k, ClientSame
    <3>2. \/ /\ Token(c)
             /\ server.state \notin {"START", "PARAM_EXCHANGE", "CREATE_STREAMS",
                                     "EXCHANGE_RESULTS", "DISPLAY_RESULTS"}
          \/ server.state \notin {"START", "PARAM_EXCHANGE", "CREATE_STREAMS", "TEST_RUNNING",
                                  "EXCHANGE_RESULTS", "DISPLAY_RESULTS"}
      BY <1>1, <3>1, ZenonT(60) DEF Conversation, NoToken
    <3>3. Token(c) => Token(c)'
      <4> HAVE Token(c)
      <4>1. /\ ~In(State("TEST_RUNNING"), net[k].toC) /\ ~In(x, net[k].toS)
            /\ Once(State("TEST_RUNNING"), net[k].toC) /\ Once(x, net[k].toS)
        BY <1>1, ZenonT(60) DEF Token, k, x
      <4>2. Once(x, Append(net[k].toS, x))
        BY <1>2, <4>1, AppendIn, ZenonT(60)
      <4> QED
        BY <1>3, <1>5, <4>1, <4>2, ZenonT(60) DEF Token, k, x
    <3> QED
      BY <3>1, <3>2, <3>3, SMTT(30) DEF Conversation
  <2> QED
    BY <1>1, <1>2, <1>5, <2>1, <2>2, ZenonT(60) DEF TalkOK, k, ClientSame
<1>10. Inbox(net[Ctrl(c)].toC, c, client[c], got, has[c])'
  <2>1. In(State("CREATE_STREAMS"), net[k].toC) => client'[c].made = 0 /\ client'[c].pc # "streams"
    BY <1>2, <1>3, SMTT(30) DEF Inbox
  <2>2. Inbox(net[k].toC, c, client'[c], got, has[c])
    BY <1>2, <2>1, InboxMe, SMTT(30)
  <2> QED
    BY <1>1, <1>5, <2>2, SMTT(30) DEF k, ClientSame
<1>11. ClientOK(c)'
  <2>1. \A i \in 1 .. N : net'[<<c, i>>].s = net[<<c, i>>].s
    BY <1>7 DEF Conns
  <2>2. net'[Ctrl(c)].c = "open"
    BY <1>4, <1>5, ZenonT(60) DEF k
  <2> QED
    BY <1>2, <1>3, <1>4, <2>1, <2>2, ZenonT(60) DEF ClientOK, Active
<1>12. has' \in [Clients -> Clients \cup {NoClient}] /\ \A d \in Clients : has'[d] = has[d]
  BY <1>1, <1>2, ZenonT(60)
<1> QED
  BY <1>1, <1>3, <1>5, <1>6, <1>7, <1>8, <1>9, <1>10, <1>11, <1>12, ClientWorks, ZenonT(60) DEF k

\* A client connects: the connection is new to the server.
LEMMA ConnectLinks ==
  ASSUME ControlInv, ClientSame, NEW k \in Conns, net[k].s = "none",
         NEW ms \in Seq(Messages), Connect(net, k, ms)
  PROVE  /\ net' \in Net /\ backlog' \in Seq(Conns) /\ LinksOK'
         /\ net'[k].toS = ms /\ net'[k].toC = <<>> /\ net'[k].c = "open" /\ net'[k].s = "queued"
         /\ \A j \in Conns : j # k => net'[j] = net[j]
<1>1. /\ net' = [net EXCEPT ![k] = [toS |-> ms, toC |-> <<>>, c |-> "open", s |-> "queued"]]
      /\ backlog' = Append(backlog, k) /\ server' = server
  BY ZenonT(60) DEF Connect, ClientSame
<1>2. net \in Net /\ backlog \in Seq(Conns) /\ LinksOK /\ ServerOK
  BY Types, ZenonT(60) DEF ControlInv
<1>3. <<>> \in Seq(Messages)
  BY SMTT(30)
<1>4. /\ net' \in Net /\ net'[k].toS = ms /\ net'[k].toC = <<>> /\ net'[k].c = "open"
      /\ net'[k].s = "queued" /\ \A j \in Conns : j # k => net'[j] = net[j]
  BY <1>1, <1>2, <1>3, ZenonT(60) DEF Net, Link, Ends
<1> DEFINE b == backlog
           b2 == backlog'
<1>5. /\ b2 \in Seq(Conns) /\ Len(b) \in Nat /\ Len(b2) = Len(b) + 1
      /\ \A i \in 1 .. Len(b) : b2[i] = b[i] /\ b[i] \in Conns
      /\ b2[Len(b) + 1] = k
  BY <1>1, <1>2, QueueAppend, QueueLen, SMTT(30)
<1>6. /\ \A i \in 1 .. Len(b) : net[b[i]].s = "queued"
      /\ \A i, j \in 1 .. Len(b) : b[i] = b[j] => i = j
  BY <1>2, ZenonT(60) DEF LinksOK
<1> HIDE DEF b, b2
<1>7. \A i \in 1 .. Len(b) : b[i] # k
  BY <1>6, ZenonT(60)
<1>8. \A i \in 1 .. Len(b2) : net'[b2[i]].s = "queued"
  <2> TAKE i \in 1 .. Len(b2)
  <2>1. CASE i \in 1 .. Len(b)
    BY <1>4, <1>5, <1>6, <1>7, <2>1, SMTT(30)
  <2>2. CASE i = Len(b) + 1
    BY <1>4, <1>5, <2>2, SMTT(30)
  <2> QED
    BY <1>5, <2>1, <2>2, SMTT(30)
<1>9. \A i, j \in 1 .. Len(b2) : b2[i] = b2[j] => i = j
  <2> TAKE i, j \in 1 .. Len(b2)
  <2>1. i \in 1 .. Len(b) \/ i = Len(b) + 1
    BY <1>5, SMTT(30)
  <2>2. j \in 1 .. Len(b) \/ j = Len(b) + 1
    BY <1>5, SMTT(30)
  <2> QED
    BY <1>5, <1>6, <1>7, <2>1, <2>2, SMTT(30)
<1>10. /\ server.ctrl # NoConn => server.ctrl # k /\ server.ctrl \in Conns
       /\ server.acc # NoConn => server.acc # k /\ server.acc \in Conns
       /\ \A j \in server.streams : j # k /\ j \in Conns
  BY Holds, ZenonT(60)
<1>11. /\ server.ctrl # NoConn => net'[server.ctrl] = net[server.ctrl]
       /\ server.acc # NoConn => net'[server.acc] = net[server.acc]
       /\ \A j \in server.streams : net'[j] = net[j]
  BY <1>4, <1>10, SMTT(30)
<1>12. LinksOK'
  <2>1. /\ server'.ctrl # NoConn => net'[server'.ctrl].s = "open"
        /\ server'.acc # NoConn => net'[server'.acc].s = "open" /\ server'.acc # server'.ctrl
    BY <1>1, <1>2, <1>11, SMTT(30) DEF LinksOK
  <2>2. \A j \in server'.streams : /\ j # server'.ctrl /\ net'[j].s \in {"open", "closed"}
                                   /\ j \in Streams(server'.cookie) \/ net'[j].c = "closed"
                                   /\ server'.done => net'[j].s = "closed"
    BY <1>1, <1>2, <1>11, SMTT(30) DEF LinksOK
  <2>3. server'.pc = "params" =>
          \/ server'.cookie = server'.ctrl[1]
          \/ net'[server'.ctrl].toS = <<>> /\ net'[server'.ctrl].c = "closed"
    <3>1. server.pc = "params" => server.ctrl # NoConn
      BY <1>2, ZenonT(60) DEF ServerOK
    <3> QED
      BY <1>1, <1>2, <1>11, <3>1, SMTT(30) DEF LinksOK, ServerEOF
  <2> QED
    BY <1>8, <1>9, <2>1, <2>2, <2>3, SMTT(30) DEF LinksOK, ServerEOF, b2
<1> QED
  BY <1>4, <1>5, <1>12, ZenonT(60) DEF b2

\* iperf_connect keeps the invariant.
LEMMA DialKeeps ==
  ASSUME ControlInv, NEW c \in Clients, Dial(c)
  PROVE  ControlInv'
<1> DEFINE k == Ctrl(c)
<1>1. /\ ClientOK(c) /\ TalkOK(c) /\ k \in Conns /\ net[k] \in Link
      /\ has \in [Clients -> Clients \cup {NoClient}] /\ "START" \in States
  BY OfClient, ZenonT(60) DEF States
<1>2. client[c].pc = "idle" /\ ClientSame /\ UNCHANGED has
  BY ZenonT(60) DEF Dial
<1>3. /\ client[c].state = "START" /\ client[c].made = 0 /\ ~client[c].ended
      /\ net[k].s = "none"
  BY <1>1, <1>2, SMTT(30) DEF ClientOK
<1>4. CASE Fails(c) /\ UNCHANGED <<net, backlog>>
  BY <1>2, <1>3, <1>4, Leaves, ZenonT(60) DEF Fails
<1>5. CASE Moves(c, "dialled", "START") /\ Connect(net, Ctrl(c), <<>>)
  <2>1. /\ client' \in ClientTable /\ client'[c].pc = "dialled" /\ client'[c].state = "START"
        /\ client'[c].made = client[c].made /\ client'[c].ended = client[c].ended
        /\ \A d \in Clients : d # c => client'[d] = client[d]
    BY <1>1, <1>5, MovesTo, SMTT(30)
  <2>2. <<>> \in Seq(Messages) /\ Connect(net, k, <<>>)
    BY <1>5, SMTT(30)
  <2> HIDE DEF k
  <2>3. /\ net' \in Net /\ backlog' \in Seq(Conns) /\ LinksOK'
        /\ net'[k].toS = <<>> /\ net'[k].toC = <<>> /\ net'[k].c = "open" /\ net'[k].s = "queued"
        /\ \A j \in Conns : j # k => net'[j] = net[j]
    BY <1>1, <1>2, <1>3, <2>2, ConnectLinks, ZenonT(60)
  <2>4. \A j \in Conns : j[1] # c => net'[j] = net[j]
    <3>1. \A j \in Conns : j[1] # c => j # k
      BY DEF k, Ctrl
    <3> QED
      BY <2>3, <3>1, ZenonT(60)
  <2>5. \A j \in Conns : j[1] = c => Carries(j, net'[j].toS)
    <3> TAKE j \in Conns
    <3>1. CASE j = k
      BY <2>3, <3>1, SMTT(30) DEF Carries
    <3>2. CASE j # k
      BY <2>3, <3>2, ZenonT(60) DEF ControlInv
    <3> QED
      BY <3>1, <3>2, ZenonT(60)
  <2>6. Untouched(c)'
    BY <1>3, <2>1, <2>3, SMTT(30) DEF Untouched, k
  <2>7. TalkOK(c)'
    <3>1. server'.ctrl # k
      <4>1. k # NoConn /\ server' = server
        BY <1>2, CtrlConn, ZenonT(60) DEF k, ClientSame
      <4>2. server.ctrl # NoConn => net[server.ctrl].s = "open"
        BY Holds, ZenonT(60)
      <4> QED
        BY <1>3, <4>1, <4>2, ZenonT(60)
    <3> QED
      BY <2>6, <3>1, ZenonT(60) DEF TalkOK, k
  <2>8. Inbox(net[Ctrl(c)].toC, c, client[c], got, has[c])'
    BY <2>3, InboxEmpty, ZenonT(60) DEF k
  <2>9. ClientOK(c)'
    <3>1. \A i \in 1 .. N : net'[<<c, i>>].s = net[<<c, i>>].s
      <4>1. \A i \in 1 .. N : <<c, i>> \in Conns /\ <<c, i>> # k
        BY SMTT(30) DEF Conns, Ctrl, k
      <4> QED
        BY <2>3, <4>1, ZenonT(60)
    <3> QED
      BY <1>1, <1>3, <2>1, <2>3, <3>1, ZenonT(60) DEF ClientOK, Active, k
  <2>10. has' \in [Clients -> Clients \cup {NoClient}] /\ \A d \in Clients : has'[d] = has[d]
    BY <1>1, <1>2, ZenonT(60)
  <2> QED
    BY <1>2, <2>1, <2>3, <2>4, <2>5, <2>7, <2>8, <2>9, <2>10, ClientStepKeeps, ZenonT(60)
<1> QED
  BY <1>4, <1>5, SMTT(30) DEF Dial

\* iperf_create_streams keeps the invariant.
LEMMA ConnectStreamKeeps ==
  ASSUME ControlInv, NEW c \in Clients, ConnectStream(c)
  PROVE  ControlInv'
<1>1. /\ ClientOK(c) /\ TalkOK(c) /\ Ctrl(c) \in Conns /\ client \in ClientTable
      /\ Inbox(net[Ctrl(c)].toC, c, client[c], got, has[c]) /\ client[c].made \in 0 .. N
      /\ has \in [Clients -> Clients \cup {NoClient}]
  BY OfClient, ZenonT(60)
<1>2. client[c].pc = "streams" /\ ClientSame /\ UNCHANGED has
  BY ZenonT(60) DEF ConnectStream
<1>3. client[c].state = "DONE" => client[c].ended
  BY <1>1, <1>2, ZenonT(60) DEF ClientOK
<1>4. CASE Fails(c) /\ UNCHANGED <<net, backlog>>
  BY <1>2, <1>3, <1>4, Leaves, ZenonT(60) DEF Fails
<1> DEFINE i == client[c].made + 1
           k == <<c, i>>
           ms == <<<<"cookie", c>>>>
<1>5. CASE /\ client' = [client EXCEPT ![c].made = i, ![c].pc = IF i = N THEN "loop" ELSE "streams"]
           /\ Connect(net, k, ms)
  <2>1. i \in 1 .. N /\ i > client[c].made /\ k \in Conns /\ k # Ctrl(c) /\ k[1] = c /\ k[2] # 0
    <3>1. i \in 1 .. N /\ i > client[c].made
      BY <1>1, <1>2, ControlConstants, SMTT(30) DEF ClientOK
    <3> HIDE DEF i
    <3> QED
      BY <3>1, SMTT(30) DEF Conns, Ctrl
  <2>2. net[k].s = "none" /\ ms \in Seq(Messages) /\ Len(ms) = 1 /\ ms[1] = <<"cookie", c>>
    <3>1. net[<<c, i>>].s = "none"
      <4>1. \A m \in 1 .. N : m > client[c].made => net[<<c, m>>].s = "none"
        BY <1>1, ZenonT(60) DEF ClientOK
      <4> HIDE DEF i
      <4> QED
        BY <2>1, <4>1, ZenonT(60)
    <3>2. <<"cookie", c>> \in Messages
      BY Bytes, ZenonT(60)
    <3> QED
      BY <3>1, <3>2, SMTT(30)
  <2>3. /\ client' \in ClientTable /\ client'[c].pc \in {"loop", "streams"}
        /\ client'[c].pc = "streams" => i < N
        /\ client'[c].state = client[c].state
        /\ client'[c].made = i /\ client'[c].ended = client[c].ended
        /\ \A d \in Clients : d # c => client'[d] = client[d]
    <3> DEFINE p == IF i = N THEN "loop" ELSE "streams"
    <3>1. p \in {"loop", "streams"} /\ (p = "streams" => i < N) /\ i \in 0 .. N
      BY <2>1, ControlConstants, SMTT(30)
    <3>2. client' = [client EXCEPT ![c].made = i, ![c].pc = p]
      BY <1>5, ZenonT(60)
    <3> HIDE DEF i, p
    <3>3. /\ client'[c].pc = p /\ client'[c].made = i /\ client'[c].state = client[c].state
          /\ client'[c].ended = client[c].ended
          /\ \A d \in Clients : d # c => client'[d] = client[d]
      BY <1>1, <3>2, SMTT(30) DEF ClientTable
    <3>4. client' \in ClientTable
      <4> DEFINE R == [pc : {"idle", "dialled", "loop", "streams", "results",
                             "ok", "failed", "gone"},
                       state : States, made : 0 .. N, ended : BOOLEAN]
                 r == [client[c] EXCEPT !.made = i, !.pc = p]
      <4>1. client \in [Clients -> R] /\ client[c] \in R
        BY <1>1, ZenonT(60) DEF ClientTable
      <4>2. r \in R
        BY <3>1, <4>1, ZenonT(60)
      <4>3. client' = [client EXCEPT ![c] = r]
        BY <3>2, <4>1, ZenonT(60)
      <4> HIDE DEF R, r
      <4>4. client' \in [Clients -> R]
        BY <4>1, <4>2, <4>3, SMTT(30)
      <4> QED
        BY <4>4, ZenonT(60) DEF ClientTable, R
    <3> QED
      BY <3>1, <3>3, <3>4, ZenonT(60)
  <2> HIDE DEF k, ms
  <2>4. /\ net' \in Net /\ backlog' \in Seq(Conns) /\ LinksOK'
        /\ net'[k].toS = ms /\ net'[k].toC = <<>> /\ net'[k].c = "open" /\ net'[k].s = "queued"
        /\ \A j \in Conns : j # k => net'[j] = net[j]
    BY <1>2, <1>5, <2>1, <2>2, ConnectLinks, SMTT(30)
  <2>5. net'[Ctrl(c)] = net[Ctrl(c)] /\ \A j \in Conns : j[1] # c => net'[j] = net[j]
    BY <1>1, <2>1, <2>4, SMTT(30)
  <2>6. \A j \in Conns : j[1] = c => Carries(j, net'[j].toS)
    <3> TAKE j \in Conns
    <3>1. CASE j = k
      BY <2>1, <2>2, <2>4, <3>1, SMTT(30) DEF Carries
    <3>2. CASE j # k
      BY <2>4, <3>2, SMTT(30) DEF ControlInv
    <3> QED
      BY <3>1, <3>2, ZenonT(60)
  <2>7. TalkOK(c)'
    <3>1. ~Untouched(c) /\ server' = server
      BY <1>2, ZenonT(60) DEF Untouched, ClientSame
    <3>2. ASSUME Conversation(c)
          PROVE  Conversation(c)'
      <4>1. server.state \notin {"START", "PARAM_EXCHANGE"}
        BY <1>2, <3>2, ZenonT(60) DEF Conversation
      <4> QED
        BY <2>3, <2>5, <3>1, <3>2, <4>1, ZenonT(60) DEF Conversation, NoToken, Token
    <3> QED
      BY <1>1, <2>5, <3>1, <3>2, SMTT(30) DEF TalkOK
  <2>8. Inbox(net[Ctrl(c)].toC, c, client[c], got, has[c])'
    <3>1. ~In(State("CREATE_STREAMS"), net[Ctrl(c)].toC)
      BY <1>1, <1>2, ZenonT(60) DEF Inbox
    <3>2. Inbox(net[Ctrl(c)].toC, c, client'[c], got, has[c])
      BY <1>1, <3>1, InboxMe, ZenonT(60)
    <3> QED
      BY <1>2, <2>5, <3>2, ZenonT(60) DEF ClientSame
  <2>9. ClientOK(c)'
    <3>1. \A m \in 1 .. N : m > i => net'[<<c, m>>].s = "none"
      <4>1. \A m \in 1 .. N : m > i => m > client[c].made /\ <<c, m>> \in Conns /\ <<c, m>> # k
        BY <1>1, SMTT(30) DEF Conns, k
      <4>2. \A m \in 1 .. N : m > client[c].made => net[<<c, m>>].s = "none"
        BY <1>1, ZenonT(60) DEF ClientOK
      <4> QED
        BY <2>4, <4>1, <4>2, ZenonT(60)
    <3>2. /\ client[c].state = "DONE" => client[c].ended /\ net[Ctrl(c)].c = "closed"
          /\ client[c].state # "DONE" => net[Ctrl(c)].c = "open"
          /\ client[c].ended => client[c].state = "DONE"
      BY <1>1, <1>2, <1>3, ZenonT(60) DEF ClientOK, Active
    <3> HIDE DEF i
    <3> QED
      BY <2>3, <2>5, <3>1, <3>2, ZenonT(60) DEF ClientOK, Active
  <2>10. has' \in [Clients -> Clients \cup {NoClient}] /\ \A d \in Clients : has'[d] = has[d]
    BY <1>1, <1>2, ZenonT(60)
  <2> QED
    BY <1>2, <2>3, <2>4, <2>5, <2>6, <2>7, <2>8, <2>9, <2>10, ClientStepKeeps, ZenonT(60)
<1> QED
  BY <1>4, <1>5, ZenonT(60) DEF ConnectStream

\* Every step of a client keeps the invariant.
LEMMA ClientKeeps ==
  ASSUME ControlInv, NEW c \in Clients, ClientStep(c) \/ Crash(c) \/ EndTest(c)
  PROVE  ControlInv'
BY DialKeeps, SendCookieKeeps, HandleStateKeeps, HandleRefusalKeeps, HandleDisplayKeeps,
   ConnectStreamKeeps, GetResultsKeeps, TestOverKeeps, ClientFailsKeeps, FinishKeeps,
   ExitKeeps, CrashKeeps, EndTestKeeps, SMTT(30)
   DEF ClientStep
-----------------------------------------------------------------------------
(* What the server reads and sends.                                        *)

\* One message, or two, sent in one go.
LEMMA Sent ==
  ASSUME NEW q \in Seq(Messages), NEW e \in Messages, NEW f \in Messages
  PROVE  q \o <<e>> = Append(q, e) /\ q \o <<e, f>> = Append(Append(q, e), f)
BY SMTT(30)

\* Reading and sending keep what a connection may carry to the server.
LEMMA CarriesTail ==
  ASSUME NEW k \in Conns, NEW q \in Seq(Messages), q # <<>>, Carries(k, q)
  PROVE  Carries(k, Tail(q))
BY TailOf, SMTT(30) DEF Carries

\* The server sends a message other than CREATE_STREAMS and DISPLAY_RESULTS.
LEMMA InboxAppend ==
  ASSUME NEW c, NEW me, NEW g, NEW h, NEW q \in Seq(Messages), NEW e \in Messages,
         Inbox(q, c, me, g, h),
         e \notin {State("CREATE_STREAMS"), State("DISPLAY_RESULTS")},
         e[1] = "results" => e[2] = c
  PROVE  Inbox(Append(q, e), c, me, g, h)
<1> DEFINE u == Append(q, e)
<1>1. /\ Len(q) \in Nat /\ Len(u) = Len(q) + 1
      /\ \A i \in 1 .. Len(q) : u[i] = q[i]
      /\ u[Len(q) + 1] = e
  BY QueueAppend, QueueLen, SMTT(30)
<1>2. /\ In(State("CREATE_STREAMS"), u) => me.made = 0 /\ me.pc # "streams"
      /\ Once(State("CREATE_STREAMS"), u)
      /\ In(State("DISPLAY_RESULTS"), u) => c \in g
  BY AppendIn, ZenonT(60) DEF Inbox
<1> HIDE DEF u
<1>3. \A i \in 1 .. Len(u) : u[i][1] = "results" => u[i][2] = c
  BY <1>1, SMTT(30) DEF Inbox
<1>4. ASSUME NEW i \in 1 .. Len(u), u[i] = State("DISPLAY_RESULTS")
      PROVE  IF i = 1 THEN h = c ELSE u[i - 1] = <<"results", c>>
  <2>1. i \in 1 .. Len(q) /\ q[i] = State("DISPLAY_RESULTS")
    BY <1>1, <1>4, SMTT(30)
  <2>2. i # 1 => i - 1 \in 1 .. Len(q)
    BY <1>1, <2>1, SMTT(30)
  <2> QED
    BY <1>1, <2>1, <2>2, ZenonT(60) DEF Inbox
<1> QED
  BY <1>2, <1>3, <1>4, ZenonT(60) DEF Inbox, u

\* CREATE_STREAMS is sent to a client that has not had it.
LEMMA InboxCreate ==
  ASSUME NEW c, NEW me, NEW g, NEW h, NEW q \in Seq(Messages), NEW e \in Messages,
         Inbox(q, c, me, g, h), e = State("CREATE_STREAMS"),
         ~In(State("CREATE_STREAMS"), q), me.made = 0, me.pc # "streams"
  PROVE  Inbox(Append(q, e), c, me, g, h)
<1> DEFINE u == Append(q, e)
<1>1. /\ Len(q) \in Nat /\ Len(u) = Len(q) + 1
      /\ \A i \in 1 .. Len(q) : u[i] = q[i]
      /\ u[Len(q) + 1] = e
  BY QueueAppend, QueueLen, SMTT(30)
<1>2. e # State("DISPLAY_RESULTS") /\ e[1] # "results"
  BY ZenonT(60) DEF State
<1>3. /\ Once(State("CREATE_STREAMS"), u)
      /\ In(State("DISPLAY_RESULTS"), u) => c \in g
  BY <1>2, AppendIn, SMTT(30) DEF Inbox
<1> HIDE DEF u
<1>4. \A i \in 1 .. Len(u) : u[i][1] = "results" => u[i][2] = c
  BY <1>1, <1>2, SMTT(30) DEF Inbox
<1>5. ASSUME NEW i \in 1 .. Len(u), u[i] = State("DISPLAY_RESULTS")
      PROVE  IF i = 1 THEN h = c ELSE u[i - 1] = <<"results", c>>
  <2>1. i \in 1 .. Len(q) /\ q[i] = State("DISPLAY_RESULTS")
    BY <1>1, <1>2, <1>5, SMTT(30)
  <2>2. i # 1 => i - 1 \in 1 .. Len(q)
    BY <1>1, <2>1, SMTT(30)
  <2> QED
    BY <1>1, <2>1, <2>2, SMTT(30) DEF Inbox
<1> QED
  BY <1>3, <1>4, <1>5, ZenonT(60) DEF Inbox, u

\* DISPLAY_RESULTS is sent right behind the results.
LEMMA InboxDisplay ==
  ASSUME NEW c \in Clients, NEW me, NEW g, NEW h, NEW q \in Seq(Messages), c \in g,
         Inbox(q, c, me, g, h)
  PROVE  Inbox(Append(Append(q, <<"results", c>>), State("DISPLAY_RESULTS")), c, me, g, h)
<1> DEFINE r == <<"results", c>>
           d == State("DISPLAY_RESULTS")
           v == Append(q, r)
           u == Append(v, d)
<1>1. /\ r \in Messages /\ d \in Messages /\ d # State("CREATE_STREAMS") /\ d[1] # "results"
      /\ r # d /\ r # State("CREATE_STREAMS")
  BY ZenonT(60) DEF State, Messages, States
<1> HIDE DEF r, d
<1>2. Inbox(v, c, me, g, h)
  <2>1. r \notin {State("CREATE_STREAMS"), State("DISPLAY_RESULTS")} /\ (r[1] = "results" => r[2] = c)
    BY <1>1, ZenonT(60) DEF r, d
  <2> QED
    BY <1>1, <2>1, InboxAppend, ZenonT(60)
<1>3. /\ v \in Seq(Messages) /\ Len(q) \in Nat /\ Len(v) = Len(q) + 1 /\ v[Len(q) + 1] = r
  BY <1>1, QueueAppend, QueueLen, SMTT(30)
<1> HIDE DEF v
<1>4. /\ Len(v) \in Nat /\ Len(u) = Len(v) + 1
      /\ \A i \in 1 .. Len(v) : u[i] = v[i]
      /\ u[Len(v) + 1] = d
  BY <1>1, <1>3, QueueAppend, QueueLen, SMTT(30)
<1>5. /\ In(State("CREATE_STREAMS"), u) => me.made = 0 /\ me.pc # "streams"
      /\ Once(State("CREATE_STREAMS"), u)
  BY <1>1, <1>2, <1>3, AppendIn, ZenonT(60) DEF Inbox
<1> HIDE DEF u
<1>6. \A i \in 1 .. Len(u) : u[i][1] = "results" => u[i][2] = c
  BY <1>1, <1>2, <1>4, SMTT(30) DEF Inbox
<1>7. ASSUME NEW i \in 1 .. Len(u), u[i] = State("DISPLAY_RESULTS")
      PROVE  IF i = 1 THEN h = c ELSE u[i - 1] = <<"results", c>>
  <2>1. CASE i = Len(v) + 1
    <3>1. i # 1 /\ i - 1 = Len(q) + 1 /\ i - 1 \in 1 .. Len(v)
      BY <2>1, <1>3, SMTT(30)
    <3> QED
      BY <3>1, <1>3, <1>4, ZenonT(60) DEF r
  <2>2. CASE i # Len(v) + 1
    <3>1. i \in 1 .. Len(v) /\ v[i] = State("DISPLAY_RESULTS")
      BY <1>4, <1>7, <2>2, SMTT(30)
    <3>2. i # 1 => i - 1 \in 1 .. Len(v)
      BY <1>4, <3>1, SMTT(30)
    <3> QED
      BY <1>2, <1>4, <3>1, <3>2, ZenonT(60) DEF Inbox
  <2> QED
    BY <2>1, <2>2, ZenonT(60)
<1>8. Inbox(u, c, me, g, h)
  BY <1>5, <1>6, <1>7, ZenonT(60) DEF Inbox
<1> QED
  BY <1>8, ZenonT(60) DEF u, v, r, d
-----------------------------------------------------------------------------
(* Connections.                                                            *)

\* What each operation does to the connections.
LEMMA TookSLink ==
  ASSUME NEW n \in Net, NEW k \in Conns, n[k].toS # <<>>
  PROVE  /\ TookS(n, k) \in Net
         /\ TookS(n, k)[k].toS = Tail(n[k].toS) /\ TookS(n, k)[k].toC = n[k].toC
         /\ TookS(n, k)[k].c = n[k].c /\ TookS(n, k)[k].s = n[k].s
         /\ \A j \in Conns : j # k => TookS(n, k)[j] = n[j]
<1>1. Tail(n[k].toS) \in Seq(Messages)
  BY TailOf, ZenonT(60) DEF Net, Link
<1> QED
  BY <1>1, ZenonT(60) DEF TookS, Net, Link

\* The server has sent a message on connection k.
LEMMA SentCLink ==
  ASSUME NEW n \in Net, NEW k \in Conns, NEW e \in Messages
  PROVE  /\ SentC(n, k, <<e>>) \in Net
         /\ SentC(n, k, <<e>>)[k].toC = Append(n[k].toC, e)
         /\ SentC(n, k, <<e>>)[k].toS = n[k].toS
         /\ SentC(n, k, <<e>>)[k].c = n[k].c /\ SentC(n, k, <<e>>)[k].s = n[k].s
         /\ \A j \in Conns : j # k => SentC(n, k, <<e>>)[j] = n[j]
<1>1. n[k].toC \in Seq(Messages)
  BY ZenonT(60) DEF Net, Link
<1>2. n[k].toC \o <<e>> = Append(n[k].toC, e) /\ Append(n[k].toC, e) \in Seq(Messages)
  BY <1>1, Sent, AppendIn, ZenonT(60)
<1> QED
  BY <1>2, ZenonT(60) DEF SentC, Net, Link

\* The server has sent two messages on connection k.
LEMMA SentTwoLink ==
  ASSUME NEW n \in Net, NEW k \in Conns, NEW e \in Messages, NEW f \in Messages
  PROVE  /\ SentC(n, k, <<e, f>>) \in Net
         /\ SentC(n, k, <<e, f>>)[k].toC = Append(Append(n[k].toC, e), f)
         /\ SentC(n, k, <<e, f>>)[k].toS = n[k].toS
         /\ SentC(n, k, <<e, f>>)[k].c = n[k].c /\ SentC(n, k, <<e, f>>)[k].s = n[k].s
         /\ \A j \in Conns : j # k => SentC(n, k, <<e, f>>)[j] = n[j]
<1>1. n[k].toC \in Seq(Messages)
  BY ZenonT(60) DEF Net, Link
<1>2. Append(n[k].toC, e) \in Seq(Messages)
  BY <1>1, AppendIn, ZenonT(60)
<1>3. /\ n[k].toC \o <<e, f>> = Append(Append(n[k].toC, e), f)
      /\ Append(Append(n[k].toC, e), f) \in Seq(Messages)
  BY <1>1, <1>2, Sent, AppendIn, ZenonT(60)
<1> QED
  BY <1>3, ZenonT(60) DEF SentC, Net, Link

\* close() of the server's ends of ks.
LEMMA ServerClosesLink ==
  ASSUME NEW n \in Net, NEW ks
  PROVE  /\ ServerCloses(n, ks) \in Net
         /\ \A k \in Conns :
              /\ ServerCloses(n, ks)[k].toS = n[k].toS /\ ServerCloses(n, ks)[k].toC = n[k].toC
              /\ ServerCloses(n, ks)[k].c = n[k].c
              /\ ServerCloses(n, ks)[k].s = IF k \in ks /\ n[k].s # "none" THEN "closed" ELSE n[k].s
BY ZenonT(60) DEF ServerCloses, Net, Link, Ends

\* The next connection to accept waits, and is not among the others.
LEMMA NextConn ==
  ASSUME ControlInv, backlog # <<>>
  PROVE  /\ Head(backlog) \in Conns /\ net[Head(backlog)].s = "queued"
         /\ Tail(backlog) \in Seq(Conns)
         /\ \A i \in 1 .. Len(Tail(backlog)) : /\ net[Tail(backlog)[i]].s = "queued"
                                               /\ Tail(backlog)[i] # Head(backlog)
                                               /\ Tail(backlog)[i] \in Conns
         /\ \A i, j \in 1 .. Len(Tail(backlog)) : Tail(backlog)[i] = Tail(backlog)[j] => i = j
<1> DEFINE q == backlog
           t == Tail(backlog)
<1>1. q \in Seq(Conns) /\ Len(q) \in Nat /\ Len(q) # 0
  BY QueueLen, ZenonT(60) DEF ControlInv, TypeOK
<1>2. /\ Head(q) \in Conns /\ t \in Seq(Conns) /\ Len(t) = Len(q) - 1
      /\ \A i \in 1 .. Len(t) : t[i] = q[i + 1]
  BY <1>1, QueueTail, ZenonT(60)
<1>3. Head(q) = q[1]
  BY <1>1, SMTT(30)
<1>4. /\ \A i \in 1 .. Len(q) : net[q[i]].s = "queued"
      /\ \A i, j \in 1 .. Len(q) : q[i] = q[j] => i = j
  BY ZenonT(60) DEF ControlInv, LinksOK
<1>5. \A i \in 1 .. Len(t) : t[i] \in Conns
  BY <1>2, QueueLen, ZenonT(60)
<1> HIDE DEF q, t
<1>6. /\ net[Head(q)].s = "queued"
      /\ \A i \in 1 .. Len(t) : net[t[i]].s = "queued" /\ t[i] # Head(q)
      /\ \A i, j \in 1 .. Len(t) : t[i] = t[j] => i = j
  BY <1>1, <1>2, <1>3, <1>4, SMTT(30)
<1> QED
  BY <1>2, <1>5, <1>6, ZenonT(60) DEF q, t
-----------------------------------------------------------------------------
(* What a step leaves alone.                                               *)

\* A step of the server keeps what is known of a client, if what the client is sent
\* is as it should be.
LEMMA ClientKept ==
  ASSUME ControlInv, NEW c \in Clients, client' = client, has' = has, got \subseteq got',
         net'[Ctrl(c)].c = net[Ctrl(c)].c,
         \/ net'[Ctrl(c)].toC = net[Ctrl(c)].toC
         \/ Inbox(net'[Ctrl(c)].toC, c, client[c], got', has[c]),
         \A k \in Conns : net[k].s = "none" =>
           /\ net'[k].s = "none"
           /\ net'[k].toS = net[k].toS /\ net'[k].toC = net[k].toC
  PROVE  ClientOK(c)' /\ Inbox(net[Ctrl(c)].toC, c, client[c], got, has[c])'
<1>1. ClientOK(c) /\ Inbox(net[Ctrl(c)].toC, c, client[c], got, has[c])
  BY ZenonT(60) DEF ControlInv
<1>2. Inbox(net[Ctrl(c)].toC, c, client[c], got', has[c])
  BY <1>1, ZenonT(60) DEF Inbox
<1>3. Ctrl(c) \in Conns /\ \A i \in 1 .. N : <<c, i>> \in Conns
  BY CtrlConn, ControlConstants, SMTT(30) DEF Conns
<1>4. ClientOK(c)'
  BY <1>1, <1>3, ZenonT(60) DEF ClientOK, Active
<1> QED
  BY <1>2, <1>4, ZenonT(60)

\* ... and what it has not dealt with, or is done with, stays so.
LEMMA TalkKept ==
  ASSUME ControlInv, NEW c \in Clients, client' = client,
         \/ net'[Ctrl(c)].toS = net[Ctrl(c)].toS
         \/ net[Ctrl(c)].toS # <<>> /\ net'[Ctrl(c)].toS = Tail(net[Ctrl(c)].toS),
         net'[Ctrl(c)].toC = net[Ctrl(c)].toC,
         net'[Ctrl(c)].c = net[Ctrl(c)].c,
         server.ctrl # Ctrl(c), server'.ctrl # Ctrl(c),
         \/ net'[Ctrl(c)].s \in {net[Ctrl(c)].s, "closed"}
         \/ net[Ctrl(c)].s = "queued" /\ net'[Ctrl(c)].s = "open"
  PROVE  TalkOK(c)'
<1>1. TalkOK(c) /\ net[Ctrl(c)].toS \in Seq(Messages)
  BY Types, CtrlConn, ZenonT(60) DEF ControlInv, Net, Link
<1>2. ASSUME Untouched(c)
      PROVE  Untouched(c)'
  <2>1. ASSUME NEW i \in 1 .. Len(net'[Ctrl(c)].toS)
        PROVE  \E j \in 1 .. Len(net[Ctrl(c)].toS) : net'[Ctrl(c)].toS[i] = net[Ctrl(c)].toS[j]
    <3>1. CASE net'[Ctrl(c)].toS = net[Ctrl(c)].toS
      BY <2>1, <3>1, ZenonT(60)
    <3>2. CASE net[Ctrl(c)].toS # <<>> /\ net'[Ctrl(c)].toS = Tail(net[Ctrl(c)].toS)
      <4> DEFINE q == net[Ctrl(c)].toS
      <4>1. i + 1 \in 1 .. Len(q) /\ Tail(q)[i] = q[i + 1]
        BY <1>1, <2>1, <3>2, TailOf, ZenonT(60)
      <4> QED
        BY <3>2, <4>1, ZenonT(60)
    <3> QED
      BY <3>1, <3>2, ZenonT(60)
  <2> QED
    BY <1>2, <2>1, ZenonT(60) DEF Untouched
<1> QED
  BY <1>1, <1>2, ZenonT(60) DEF TalkOK

\* ... as does a connection it closes.
LEMMA TalkEnded ==
  ASSUME NEW c \in Clients, server'.ctrl # Ctrl(c), net'[Ctrl(c)].s = "closed"
  PROVE  TalkOK(c)'
BY ZenonT(60) DEF TalkOK

\* The end of a run, by cleanup_server and iperf_reset_test or by a signal.
LEMMA RunEnds ==
  ASSUME ControlInv, NEW n \in Net, NEW ks, server.ctrl \in ks,
         server' \in {FreshServer, [FreshServer EXCEPT !.pc = "gone"]},
         net' = ServerCloses(n, ks), backlog' = <<>>,
         UNCHANGED <<client, got, has>>, interrupts' \in 0 .. MaxInterrupts,
         \A k \in Conns :
           /\ n[k].c = net[k].c /\ Carries(k, n[k].toS)
           /\ n[k].s = net[k].s \/ (net[k].s # "none" /\ n[k].s = "closed")
           /\ k # server.ctrl => n[k].toS = net[k].toS /\ n[k].toC = net[k].toC,
         \A c \in Clients : Inbox(n[Ctrl(c)].toC, c, client[c], got, has[c])
  PROVE  ControlInv'
<1>1. /\ net' \in Net
      /\ \A k \in Conns :
           /\ net'[k].toS = n[k].toS /\ net'[k].toC = n[k].toC /\ net'[k].c = n[k].c
           /\ net'[k].s = IF k \in ks /\ n[k].s # "none" THEN "closed" ELSE n[k].s
  BY ServerClosesLink, SMTT(30)
<1>2. /\ server'.pc \in {"down", "gone"} /\ server'.state = "START" /\ server'.ctrl = NoConn
      /\ server'.acc = NoConn /\ server'.cookie = NoClient /\ server'.streams = {}
      /\ server'.done = FALSE /\ server'.timer = FALSE
  BY SMTT(30) DEF FreshServer
<1>3. TypeOK'
  <2>1. FreshServer \in Servers /\ [FreshServer EXCEPT !.pc = "gone"] \in Servers
    BY ZenonT(60) DEF FreshServer, Servers, States
  <2>2. server' \in Servers
    BY <2>1, ZenonT(60)
  <2>3. backlog' \in Seq(Conns)
    BY SMTT(30)
  <2> QED
    BY <1>1, <2>2, <2>3, Types, TypesNext, ZenonT(60) DEF ControlInv
<1>4. ServerOK'
  BY <1>2, ZenonT(60) DEF ServerOK, Testing
<1>5. LinksOK'
  BY <1>2, SMTT(30) DEF LinksOK
<1>6. \A k \in Conns : Carries(k, net[k].toS)'
  BY <1>1, ZenonT(60)
<1>7. server.ctrl # NoConn => server.ctrl \in Conns /\ net[server.ctrl].s = "open"
  BY ZenonT(60) DEF ControlInv, TypeOK, LinksOK
<1>8. ASSUME NEW c \in Clients
      PROVE  ClientOK(c)' /\ TalkOK(c)' /\ Inbox(net[Ctrl(c)].toC, c, client[c], got, has[c])'
  <2>1. Ctrl(c) \in Conns /\ Ctrl(c) # NoConn
    BY CtrlConn, ZenonT(60)
  <2>2. ClientOK(c)' /\ Inbox(net[Ctrl(c)].toC, c, client[c], got, has[c])'
    <3>1. \A k \in Conns : net[k].s = "none" =>
           /\ net'[k].s = "none"
           /\ net'[k].toS = net[k].toS /\ net'[k].toC = net[k].toC
      BY <1>1, <1>7, CtrlConn, SMTT(30)
    <3>2. net'[Ctrl(c)].c = net[Ctrl(c)].c /\ Inbox(net'[Ctrl(c)].toC, c, client[c], got', has[c])
      BY <1>1, <2>1, SMTT(30)
    <3> QED
      BY <3>1, <3>2, ClientKept, ZenonT(60)
  <2>3. CASE server.ctrl = Ctrl(c)
    BY <1>1, <1>2, <1>7, <2>1, <2>2, <2>3, TalkEnded, SMTT(30)
  <2>4. CASE server.ctrl # Ctrl(c)
    <3>1. /\ net'[Ctrl(c)].toS = net[Ctrl(c)].toS /\ net'[Ctrl(c)].toC = net[Ctrl(c)].toC
          /\ net'[Ctrl(c)].c = net[Ctrl(c)].c
          /\ net'[Ctrl(c)].s \in {net[Ctrl(c)].s, "closed"} /\ server'.ctrl # Ctrl(c)
      BY <1>1, <1>2, <2>1, <2>4, SMTT(30)
    <3> QED
      BY <2>2, <2>4, <3>1, TalkKept, SMTT(30)
  <2> QED
    BY <2>3, <2>4, ZenonT(60)
<1> QED
  BY <1>3, <1>4, <1>5, <1>6, <1>8, SMTT(30) DEF ControlInv

\* EndRun without anything sent before.
LEMMA EndRunKeeps ==
  ASSUME ControlInv, ServerSame, EndRun(net) \/ EndRun(ServerCloses(net, server.streams))
  PROVE  ControlInv'
<1>1. net \in Net /\ interrupts' \in 0 .. MaxInterrupts
  BY ZenonT(60) DEF ControlInv, TypeOK, Net, Link, ServerSame
<1>2. PICK n \in {net, ServerCloses(net, server.streams)} : EndRun(n)
  BY ZenonT(60)
<1>3. /\ n \in Net
      /\ \A k \in Conns : /\ n[k].c = net[k].c /\ n[k].toS = net[k].toS /\ n[k].toC = net[k].toC
                          /\ n[k].s = net[k].s \/ (net[k].s # "none" /\ n[k].s = "closed")
  BY <1>1, ServerClosesLink, SMTT(30)
<1>4. /\ \A k \in Conns : Carries(k, n[k].toS)
      /\ \A c \in Clients : Inbox(n[Ctrl(c)].toC, c, client[c], got, has[c])
  BY <1>3, CtrlConn, SMTT(30) DEF ControlInv
<1> QED
  BY <1>1, <1>2, <1>3, <1>4, RunEnds, ZenonT(60) DEF EndRun, ServerSame
-----------------------------------------------------------------------------
(* The steps of the server.                                                *)

\* A connection is its two queues and its two ends.
LEMMA SameLink ==
  ASSUME NEW x \in Link, NEW y \in Link, x.toS = y.toS, x.toC = y.toC, x.c = y.c, x.s = y.s
  PROVE  x = y
BY SMTT(30) DEF Link

\* Steps of the server that touch no connection.
LEMMA QuietKeeps ==
  ASSUME ControlInv, net' = net, backlog' = backlog, ServerSame, server' \in Servers,
         ServerOK', LinksOK', server'.ctrl = server.ctrl, server'.state = server.state
  PROVE  ControlInv'
<1>1. TypeOK'
  BY Types, TypesNext, ZenonT(60) DEF ControlInv, ServerSame
<1>2. ASSUME NEW c \in Clients
      PROVE  ClientOK(c)' /\ TalkOK(c)' /\ Inbox(net[Ctrl(c)].toC, c, client[c], got, has[c])'
  <2>1. ClientOK(c) /\ TalkOK(c) /\ Inbox(net[Ctrl(c)].toC, c, client[c], got, has[c])
    BY ZenonT(60) DEF ControlInv
  <2>2. ClientOK(c)'
    BY <2>1, ZenonT(60) DEF ClientOK, Active, ServerSame
  <2>3. TalkOK(c)'
    BY <2>1, ZenonT(60) DEF TalkOK, Untouched, Conversation, Token, NoToken, ServerSame
  <2> QED
    BY <2>1, <2>2, <2>3, SMTT(30) DEF ServerSame
<1> QED
  BY <1>1, <1>2, ZenonT(60) DEF ControlInv

\* iperf_server_listen keeps the invariant.
LEMMA ListenKeeps ==
  ASSUME ControlInv, iperf_server_listen
  PROVE  ControlInv'
<1>1. /\ server' \in Servers /\ server'.pc = "select" /\ server.pc = "down"
      /\ server'.ctrl = server.ctrl /\ server'.state = server.state /\ server'.acc = server.acc
      /\ server'.streams = server.streams /\ server'.done = server.done
      /\ server'.cookie = server.cookie
  BY Holds, SMTT(30) DEF iperf_server_listen, Servers
<1>2. ServerOK'
  BY <1>1, ZenonT(60) DEF ServerOK, ControlInv
<1>3. LinksOK'
  BY <1>1, SMTT(30) DEF LinksOK, ControlInv, iperf_server_listen
<1> QED
  BY <1>1, <1>2, <1>3, QuietKeeps, SMTT(30) DEF iperf_server_listen

\* A restart of the server keeps the invariant.
LEMMA RestartKeeps ==
  ASSUME ControlInv, ServerRestarted
  PROVE  ControlInv'
<1>1. /\ server' \in Servers /\ server'.pc = "down" /\ server'.ctrl = NoConn
      /\ server'.state = "START" /\ server'.acc = NoConn /\ server'.streams = {}
      /\ server'.done = FALSE
  BY ZenonT(60) DEF ServerRestarted, FreshServer, Servers, States
<1>2. server.pc = "gone" /\ server.ctrl = NoConn /\ server.state = "START"
  BY ZenonT(60) DEF ServerRestarted, ControlInv, ServerOK
<1>3. ServerOK'
  BY <1>1, ZenonT(60) DEF ServerOK, Testing
<1>4. LinksOK'
  BY <1>1, SMTT(30) DEF LinksOK, ControlInv, ServerRestarted
<1> QED
  BY <1>1, <1>2, <1>3, <1>4, QuietKeeps, SMTT(30) DEF ServerRestarted

\* server_timer_proc keeps the invariant.
LEMMA TimerKeeps ==
  ASSUME ControlInv, server_timer_proc
  PROVE  ControlInv'
<1>1. CASE server.done
  <2>1. /\ server' \in Servers /\ server'.pc = server.pc
        /\ server'.ctrl = server.ctrl /\ server'.state = server.state /\ server'.acc = server.acc
        /\ server'.streams = server.streams /\ server'.done = server.done
        /\ server'.cookie = server.cookie
        /\ net' = net /\ backlog' = backlog /\ ServerSame
    BY <1>1, Holds, ZenonT(60) DEF server_timer_proc, Servers
  <2>2. ServerOK'
    BY <2>1, ZenonT(60) DEF ServerOK, ControlInv
  <2>3. LinksOK'
    BY <2>1, SMTT(30) DEF LinksOK, ControlInv, ServerEOF
  <2> QED
    BY <2>1, <2>2, <2>3, QuietKeeps, SMTT(30)
<1>2. CASE ~server.done
  BY <1>2, EndRunKeeps, ZenonT(60) DEF server_timer_proc
<1> QED
  BY <1>1, <1>2, ZenonT(60)

\* accept() opens the connection that waited longest, and nothing else.
LEMMA AcceptedLink ==
  ASSUME ControlInv, backlog # <<>>, net' = Accepted(net)
  PROVE  /\ net' \in Net /\ net'[Head(backlog)].s = "open"
         /\ \A k \in Conns :
              /\ net'[k].toS = net[k].toS /\ net'[k].toC = net[k].toC /\ net'[k].c = net[k].c
              /\ k # Head(backlog) => net'[k].s = net[k].s
BY NextConn, Holds, ZenonT(60) DEF Accepted, Net, Link, Ends

\* iperf_accept of a control connection keeps the invariant: nothing was sent on it to
\* the client, which is still at the start.
LEMMA AcceptControlKeeps ==
  ASSUME ControlInv, AcceptControl
  PROVE  ControlInv'
<1> DEFINE k == Head(backlog)
<1>1. /\ backlog # <<>> /\ backlog' = Tail(backlog) /\ net' = Accepted(net) /\ ServerSame
      /\ server.pc = "select" /\ server.ctrl = NoConn
  BY ZenonT(60) DEF AcceptControl, Accepts
<1>2. /\ k \in Conns /\ k # NoConn /\ net[k].s = "queued"
      /\ net' \in Net /\ net'[k].s = "open"
      /\ \A j \in Conns :
              /\ net'[j].toS = net[j].toS /\ net'[j].toC = net[j].toC /\ net'[j].c = net[j].c
              /\ j # k => net'[j].s = net[j].s
  BY <1>1, NextConn, AcceptedLink, CtrlConn, SMTT(30)
<1>3. /\ server' \in Servers /\ server'.pc = "cookie" /\ server'.ctrl = k
      /\ server'.state = server.state /\ server'.acc = server.acc
      /\ server'.streams = server.streams /\ server'.done = server.done
  BY <1>2, Holds, ZenonT(60) DEF AcceptControl, Servers
<1>4. server.state = "START" /\ server.streams = {} /\ server.acc = NoConn /\ server.done = FALSE
  BY <1>1, Holds, ZenonT(60) DEF ControlInv, ServerOK, Servers
<1>5. TypeOK'
  BY <1>1, <1>2, <1>3, NextConn, Types, TypesNext, ZenonT(60) DEF ControlInv, ServerSame
<1>6. ServerOK'
  BY <1>2, <1>3, <1>4, ZenonT(60) DEF ServerOK, Testing
<1>7. LinksOK'
  BY <1>1, <1>2, <1>3, <1>4, NextConn, SMTT(30) DEF LinksOK
<1>8. \A j \in Conns : Carries(j, net[j].toS)'
  BY <1>2, ZenonT(60) DEF ControlInv
<1> HIDE DEF k
<1>9. ASSUME NEW c \in Clients
      PROVE  ClientOK(c)' /\ TalkOK(c)' /\ Inbox(net[Ctrl(c)].toC, c, client[c], got, has[c])'
  <2>1. Ctrl(c) \in Conns
    BY CtrlConn, ZenonT(60)
  <2>2. ClientOK(c)' /\ Inbox(net[Ctrl(c)].toC, c, client[c], got, has[c])'
    BY <1>1, <1>2, <2>1, ClientKept, SMTT(30) DEF ServerSame
  <2>3. CASE Ctrl(c) = k
    <3>1. Untouched(c)
      BY <1>2, <2>3, ZenonT(60) DEF ControlInv, TalkOK
    <3>2. ~In(State("TEST_END"), net[Ctrl(c)].toS)
      BY <3>1, SMTT(30) DEF Untouched, In, State
    <3>3. Conversation(c)'
      BY <1>1, <1>2, <1>3, <1>4, <2>1, <3>1, <3>2, SMTT(30)
         DEF Conversation, Untouched, NoToken, In, ServerSame
    <3> QED
      BY <1>2, <1>3, <2>2, <2>3, <3>3, SMTT(30) DEF TalkOK
  <2>4. CASE Ctrl(c) # k
    BY <1>1, <1>2, <1>3, <2>1, <2>2, <2>4, TalkKept, CtrlConn, ZenonT(60) DEF ServerSame
  <2> QED
    BY <2>3, <2>4, ZenonT(60)
<1> QED
  BY <1>5, <1>6, <1>7, <1>8, <1>9, ZenonT(60) DEF ControlInv

\* iperf_tcp_accept, up to the cookie, keeps the invariant.
LEMMA AcceptStreamKeeps ==
  ASSUME ControlInv, AcceptStream
  PROVE  ControlInv'
<1> DEFINE k == Head(backlog)
<1>1. /\ backlog # <<>> /\ backlog' = Tail(backlog) /\ net' = Accepted(net) /\ ServerSame
      /\ server.pc = "select" /\ server.state = "CREATE_STREAMS"
  BY ZenonT(60) DEF AcceptStream, Accepts
<1>2. /\ k \in Conns /\ k # NoConn /\ net[k].s = "queued"
      /\ net' \in Net /\ net'[k].s = "open"
      /\ \A j \in Conns :
              /\ net'[j].toS = net[j].toS /\ net'[j].toC = net[j].toC /\ net'[j].c = net[j].c
              /\ j # k => net'[j].s = net[j].s
  BY <1>1, NextConn, AcceptedLink, CtrlConn, ZenonT(60)
<1>3. /\ server' \in Servers /\ server'.pc = "scookie" /\ server'.acc = k
      /\ server'.state = server.state /\ server'.ctrl = server.ctrl
      /\ server'.streams = server.streams /\ server'.done = server.done
      /\ server'.cookie = server.cookie
  BY <1>2, Holds, ZenonT(60) DEF AcceptStream, Servers
<1>4. server.ctrl # NoConn /\ server.ctrl \in Conns /\ net[server.ctrl].s = "open"
  BY <1>1, Holds, ZenonT(60) DEF ControlInv, ServerOK
<1>5. TypeOK'
  BY <1>1, <1>2, <1>3, NextConn, Types, TypesNext, SMTT(30) DEF ControlInv, ServerSame
<1>6. ServerOK'
  BY <1>1, <1>2, <1>3, <1>4, ZenonT(60) DEF ServerOK, ControlInv
<1>7. LinksOK'
  <2>1. LinksOK
    BY ZenonT(60) DEF ControlInv
  <2>2. \A j \in server.streams : j # k /\ j \in Conns
    BY <1>2, Holds, ZenonT(60)
  <2> QED
    BY <1>1, <1>2, <1>3, <1>4, <2>1, <2>2, NextConn, SMTT(30) DEF LinksOK
<1>8. \A j \in Conns : Carries(j, net[j].toS)'
  BY <1>2, ZenonT(60) DEF ControlInv
<1> HIDE DEF k
<1>9. ASSUME NEW c \in Clients
      PROVE  ClientOK(c)' /\ TalkOK(c)' /\ Inbox(net[Ctrl(c)].toC, c, client[c], got, has[c])'
  <2>1. Ctrl(c) \in Conns
    BY CtrlConn, ZenonT(60)
  <2>2. ClientOK(c)' /\ Inbox(net[Ctrl(c)].toC, c, client[c], got, has[c])'
    BY <1>1, <1>2, <2>1, ClientKept, ZenonT(60) DEF ServerSame
  <2>3. CASE Ctrl(c) = server.ctrl
    <3>1. Conversation(c) /\ Ctrl(c) # k
      BY <1>2, <1>4, <2>3, ZenonT(60) DEF ControlInv, TalkOK
    <3>2. Conversation(c)'
      BY <1>1, <1>2, <1>3, <2>1, <3>1, ZenonT(60) DEF Conversation, NoToken, ServerSame
    <3> QED
      BY <1>2, <1>3, <1>4, <2>1, <2>2, <2>3, <3>1, <3>2, SMTT(30) DEF TalkOK
  <2>4. CASE Ctrl(c) # server.ctrl
    BY <1>1, <1>2, <1>3, <2>1, <2>2, <2>4, TalkKept, ZenonT(60) DEF ServerSame
  <2> QED
    BY <2>3, <2>4, ZenonT(60)
<1> QED
  BY <1>5, <1>6, <1>7, <1>8, <1>9, ZenonT(60) DEF ControlInv

\* The connections the server holds, where it keeps them.
LEMMA LinksKept ==
  ASSUME LinksOK, server'.ctrl = server.ctrl, server'.cookie = server.cookie,
         server'.streams = server.streams, server'.done => server.done,
         server'.acc = NoConn \/ (server'.acc = server.acc /\ net'[server.acc].s = "open"),
         server'.pc = "params" => server.pc = "params",
         server.ctrl # NoConn => net'[server.ctrl].s = "open",
         ServerEOF(server.ctrl) => net'[server.ctrl].toS = <<>> /\ net'[server.ctrl].c = "closed",
         \A k \in server.streams : /\ net'[k].s \in {"open", "closed"}
                                   /\ net[k].s = "closed" => net'[k].s = "closed"
                                   /\ net[k].c = "closed" => net'[k].c = "closed",
         \A i \in 1 .. Len(backlog') : net'[backlog'[i]].s = "queued",
         \A i, j \in 1 .. Len(backlog') : backlog'[i] = backlog'[j] => i = j
  PROVE  LinksOK'
<1>1. /\ server'.ctrl # NoConn => net'[server'.ctrl].s = "open"
      /\ server'.acc # NoConn => net'[server'.acc].s = "open" /\ server'.acc # server'.ctrl
  BY SMTT(30) DEF LinksOK
<1>2. \A k \in server'.streams : /\ k # server'.ctrl /\ net'[k].s \in {"open", "closed"}
                                 /\ k \in Streams(server'.cookie) \/ net'[k].c = "closed"
                                 /\ server'.done => net'[k].s = "closed"
  BY SMTT(30) DEF LinksOK
<1>3. server'.pc = "params" =>
        \/ server'.cookie = server'.ctrl[1]
        \/ net'[server'.ctrl].toS = <<>> /\ net'[server'.ctrl].c = "closed"
  BY SMTT(30) DEF LinksOK, ServerEOF
<1> QED
  BY <1>1, <1>2, <1>3, ZenonT(60) DEF LinksOK, ServerEOF

\* A connection that is not the control connection of the run is told ACCESS_DENIED
\* and closed.
LEMMA Denied ==
  ASSUME ControlInv, NEW k \in Conns, net[k].s \in {"queued", "open"}, k # server.ctrl,
         NEW n, n = net \/ (net[k].toS # <<>> /\ n = TookS(net, k)),
         net' = ServerCloses(SentC(n, k, <<State("ACCESS_DENIED")>>), {k}),
         ServerSame, server'.ctrl = server.ctrl, server'.state = server.state
  PROVE  /\ net' \in Net /\ net'[k].s = "closed"
         /\ \A j \in Conns : net'[j].c = net[j].c
         /\ \A j \in Conns : j # k => net'[j].s = net[j].s /\ net'[j].toS = net[j].toS
         /\ \A j \in Conns : Carries(j, net[j].toS)'
         /\ \A c \in Clients :
              ClientOK(c)' /\ TalkOK(c)' /\ Inbox(net[Ctrl(c)].toC, c, client[c], got, has[c])'
<1> DEFINE e == State("ACCESS_DENIED")
           u == SentC(n, k, <<e>>)
<1>0. e \in Messages /\ e \notin {State("CREATE_STREAMS"), State("DISPLAY_RESULTS")} /\ e[1] = "state"
  BY Bytes, ZenonT(60) DEF States
<1> HIDE DEF e
<1>1. /\ n \in Net
      /\ n[k].toS = net[k].toS \/ (net[k].toS # <<>> /\ n[k].toS = Tail(net[k].toS))
      /\ n[k].toC = net[k].toC /\ n[k].c = net[k].c /\ n[k].s = net[k].s
      /\ \A j \in Conns : j # k => n[j] = net[j]
  BY Holds, TookSLink, SMTT(30)
<1>2. /\ u \in Net /\ u[k].toC = Append(n[k].toC, e) /\ u[k].toS = n[k].toS
      /\ u[k].c = n[k].c /\ u[k].s = n[k].s
      /\ \A j \in Conns : j # k => u[j] = n[j]
  BY <1>0, <1>1, SentCLink, ZenonT(60)
<1> HIDE DEF u
<1>3. /\ net' \in Net
      /\ \A j \in Conns :
           /\ net'[j].toS = u[j].toS /\ net'[j].toC = u[j].toC /\ net'[j].c = u[j].c
           /\ net'[j].s = IF j \in {k} /\ u[j].s # "none" THEN "closed" ELSE u[j].s
  <2>1. net' = ServerCloses(u, {k})
    BY ZenonT(60) DEF u, e
  <2> DEFINE w == {k}
  <2>2. /\ ServerCloses(u, w) \in Net
        /\ \A j \in Conns :
             /\ ServerCloses(u, w)[j].toS = u[j].toS /\ ServerCloses(u, w)[j].toC = u[j].toC
             /\ ServerCloses(u, w)[j].c = u[j].c
             /\ ServerCloses(u, w)[j].s = IF j \in w /\ u[j].s # "none" THEN "closed" ELSE u[j].s
    <3> HIDE DEF w
    <3> QED
      BY <1>2, ServerClosesLink, SMTT(30)
  <2> QED
    BY <2>1, <2>2, ZenonT(60)
<1>4. /\ net'[k].s = "closed" /\ net'[k].toC = Append(net[k].toC, e)
      /\ net'[k].toS = net[k].toS \/ (net[k].toS # <<>> /\ net'[k].toS = Tail(net[k].toS))
      /\ \A j \in Conns : net'[j].c = net[j].c
      /\ \A j \in Conns : j # k => /\ net'[j].toS = net[j].toS /\ net'[j].toC = net[j].toC
                                   /\ net'[j].s = net[j].s
  <2>1. /\ net'[k].s = "closed" /\ net'[k].toC = u[k].toC /\ net'[k].toS = u[k].toS
        /\ net'[k].c = u[k].c
    BY <1>1, <1>2, <1>3, ZenonT(60)
  <2>2. \A j \in Conns : j # k => /\ net'[j].toS = net[j].toS /\ net'[j].toC = net[j].toC
                                  /\ net'[j].s = net[j].s /\ net'[j].c = net[j].c
    <3> TAKE j \in Conns
    <3> HAVE j # k
    <3>1. u[j] = net[j]
      BY <1>1, <1>2, SMTT(30)
    <3>2. /\ net'[j].toS = u[j].toS /\ net'[j].toC = u[j].toC /\ net'[j].c = u[j].c
          /\ net'[j].s = u[j].s
      BY <1>3, ZenonT(60)
    <3> QED
      BY <3>1, <3>2, SMTT(30)
  <2> QED
    BY <1>1, <1>2, <2>1, <2>2, ZenonT(60)
<1>5. net[k].toS \in Seq(Messages) /\ net[k].toC \in Seq(Messages)
  BY Holds, ZenonT(60) DEF Link
<1>6. \A j \in Conns : Carries(j, net[j].toS)'
  BY <1>4, <1>5, CarriesTail, ZenonT(60) DEF ControlInv
<1>7. ASSUME NEW c \in Clients
      PROVE  ClientOK(c)' /\ TalkOK(c)' /\ Inbox(net[Ctrl(c)].toC, c, client[c], got, has[c])'
  <2>1. Ctrl(c) \in Conns
    BY CtrlConn, ZenonT(60)
  <2>2. ClientOK(c)' /\ Inbox(net[Ctrl(c)].toC, c, client[c], got, has[c])'
    <3>1. Ctrl(c) = k => Inbox(net'[Ctrl(c)].toC, c, client[c], got, has[c])
      BY <1>0, <1>4, <1>5, InboxAppend, ZenonT(60) DEF ControlInv
    <3>2. \A j \in Conns : net[j].s = "none" =>
           net'[j].s = "none" /\ net'[j].toS = net[j].toS /\ net'[j].toC = net[j].toC
      BY <1>4, ZenonT(60)
    <3> QED
      BY <1>4, <2>1, <3>1, <3>2, ClientKept, ZenonT(60) DEF ServerSame
  <2>3. CASE Ctrl(c) = k
    BY <1>4, <2>2, <2>3, TalkEnded, ZenonT(60)
  <2>4. CASE Ctrl(c) = server.ctrl
    <3>1. Conversation(c)
      BY <2>4, ZenonT(60) DEF ControlInv, TalkOK
    <3>2. Conversation(c)'
      BY <1>4, <2>1, <2>4, <3>1, ZenonT(60) DEF Conversation, NoToken, Token, ServerSame
    <3>3. net'[Ctrl(c)].s = "open"
      <4>1. server.ctrl # NoConn
        BY <2>4, CtrlConn, SMTT(30)
      <4>2. net[Ctrl(c)].s = "open" /\ Ctrl(c) # k
        BY <2>4, <4>1, Holds, SMTT(30)
      <4> QED
        BY <1>4, <2>1, <4>2, ZenonT(60)
    <3> QED
      BY <2>2, <2>4, <3>2, <3>3, SMTT(30) DEF TalkOK
  <2>5. CASE Ctrl(c) # k /\ Ctrl(c) # server.ctrl
    BY <1>4, <2>1, <2>2, <2>5, TalkKept, ZenonT(60) DEF ServerSame
  <2> QED
    BY <2>3, <2>4, <2>5, ZenonT(60)
<1> QED
  BY <1>3, <1>4, <1>6, <1>7, ZenonT(60)

\* The denial of a busy server keeps the invariant.
LEMMA DenyKeeps ==
  ASSUME ControlInv, Deny
  PROVE  ControlInv'
<1> DEFINE k == Head(backlog)
<1>1. /\ backlog # <<>> /\ backlog' = Tail(backlog) /\ ServerSame /\ server' = server
      /\ server.ctrl # NoConn
      /\ net' = ServerCloses(SentC(net, k, <<State("ACCESS_DENIED")>>), {k})
  BY ZenonT(60) DEF Deny, Accepts
<1>2. k \in Conns /\ net[k].s = "queued" /\ k # server.ctrl
  BY <1>1, NextConn, Holds, SMTT(30)
<1>3. /\ net' \in Net /\ net'[k].s = "closed"
      /\ \A j \in Conns : net'[j].c = net[j].c
      /\ \A j \in Conns : j # k => net'[j].s = net[j].s /\ net'[j].toS = net[j].toS
      /\ \A j \in Conns : Carries(j, net[j].toS)'
      /\ \A c \in Clients :
           ClientOK(c)' /\ TalkOK(c)' /\ Inbox(net[Ctrl(c)].toC, c, client[c], got, has[c])'
  BY <1>1, <1>2, Denied, ZenonT(60)
<1>4. TypeOK'
  BY <1>1, <1>3, NextConn, Types, TypesNext, ZenonT(60) DEF ControlInv, ServerSame
<1>5. ServerOK'
  BY <1>1, ZenonT(60) DEF ControlInv, ServerOK
<1>6. LinksOK'
  <2>1. LinksOK
    BY ZenonT(60) DEF ControlInv
  <2>2. /\ \A j \in server.streams : j # k /\ j \in Conns
        /\ server.acc # NoConn => server.acc \in Conns /\ server.acc # k
        /\ server.ctrl \in Conns
    BY <1>1, <1>2, Holds, ZenonT(60)
  <2>3. /\ \A i \in 1 .. Len(backlog') : net'[backlog'[i]].s = "queued"
        /\ \A i, j \in 1 .. Len(backlog') : backlog'[i] = backlog'[j] => i = j
    BY <1>1, <1>2, <1>3, NextConn, ZenonT(60)
  <2>4. /\ net'[server.ctrl].s = "open"
        /\ server.acc # NoConn => net'[server.acc].s = "open" /\ server.acc # server.ctrl
        /\ ServerEOF(server.ctrl) =>
             net'[server.ctrl].toS = <<>> /\ net'[server.ctrl].c = "closed"
    BY <1>1, <1>2, <1>3, <2>1, <2>2, ZenonT(60) DEF LinksOK, ServerEOF
  <2>5. \A j \in server.streams : net'[j].s = net[j].s /\ net'[j].c = net[j].c
    BY <1>3, <2>2, SMTT(30)
  <2> HIDE DEF k
  <2> QED
    BY <1>1, <2>1, <2>3, <2>4, <2>5, Holds, LinksKept, ZenonT(60)
<1> QED
  BY <1>3, <1>4, <1>5, <1>6, ZenonT(60) DEF ControlInv

\* The denial of a stream keeps the invariant.
LEMMA DenyStreamKeeps ==
  ASSUME ControlInv, DenyStream
  PROVE  ControlInv'
<1> DEFINE k == server.acc
           n == Taken(k)
<1>1. /\ server.pc = "scookie" /\ backlog' = backlog /\ ServerSame
      /\ net' = ServerCloses(SentC(n, k, <<State("ACCESS_DENIED")>>), {k})
      /\ server' = [server EXCEPT !.pc = "select", !.acc = NoConn]
  BY ZenonT(60) DEF DenyStream, CookieRead
<1>2. /\ k \in Conns /\ net[k].s = "open" /\ k # server.ctrl
      /\ server.state = "CREATE_STREAMS" /\ server.ctrl # NoConn /\ server.ctrl \in Conns
      /\ server.done = FALSE
  BY <1>1, Holds, SMTT(30) DEF ControlInv, ServerOK, LinksOK, Servers
<1>3. /\ server' \in Servers /\ server'.pc = "select" /\ server'.acc = NoConn
      /\ server'.state = server.state /\ server'.ctrl = server.ctrl
      /\ server'.streams = server.streams /\ server'.done = server.done
      /\ server'.cookie = server.cookie
  BY <1>1, Holds, ZenonT(60) DEF Servers
<1>4. n = net \/ (net[k].toS # <<>> /\ n = TookS(net, k))
  BY ZenonT(60) DEF Taken
<1> HIDE DEF n
<1>5. /\ net' \in Net /\ net'[k].s = "closed"
      /\ \A j \in Conns : net'[j].c = net[j].c
      /\ \A j \in Conns : j # k => net'[j].s = net[j].s /\ net'[j].toS = net[j].toS
      /\ \A j \in Conns : Carries(j, net[j].toS)'
      /\ \A c \in Clients :
           ClientOK(c)' /\ TalkOK(c)' /\ Inbox(net[Ctrl(c)].toC, c, client[c], got, has[c])'
  BY <1>1, <1>2, <1>3, <1>4, Denied, ZenonT(60)
<1>6. TypeOK'
  BY <1>1, <1>3, <1>5, Types, TypesNext, SMTT(30) DEF ControlInv, ServerSame
<1>7. ServerOK'
  BY <1>1, <1>2, <1>3, SMTT(30) DEF ControlInv, ServerOK
<1>8. LinksOK'
  <2>1. LinksOK
    BY ZenonT(60) DEF ControlInv
  <2>2. /\ \A j \in server.streams : j \in Conns
        /\ \A i \in 1 .. Len(backlog) : backlog[i] \in Conns /\ backlog[i] # k
    BY <1>2, <2>1, Holds, Types, QueueLen, ZenonT(60) DEF LinksOK, ControlInv
  <2>3. \A i \in 1 .. Len(backlog') : net'[backlog'[i]].s = "queued"
    <3> SUFFICES ASSUME NEW i \in 1 .. Len(backlog) PROVE net'[backlog[i]].s = "queued"
      BY <1>1, ZenonT(60)
    <3>1. net[backlog[i]].s = "queued"
      BY <2>1, ZenonT(60) DEF LinksOK
    <3>2. net'[backlog[i]].s = net[backlog[i]].s
      BY <1>5, <2>2, ZenonT(60)
    <3> QED
      BY <3>1, <3>2, ZenonT(60)
  <2>4. /\ net'[server.ctrl].s = "open"
        /\ ServerEOF(server.ctrl) =>
             net'[server.ctrl].toS = <<>> /\ net'[server.ctrl].c = "closed"
    BY <1>2, <1>5, Holds, ZenonT(60) DEF ServerEOF
  <2>5. \A j \in server.streams :
          /\ net'[j].s \in {"open", "closed"}
          /\ net[j].s = "closed" => net'[j].s = "closed"
          /\ net[j].c = "closed" => net'[j].c = "closed"
    BY <1>5, <2>2, Holds, ZenonT(60)
  <2>6. \A i, j \in 1 .. Len(backlog') : backlog'[i] = backlog'[j] => i = j
    BY <1>1, <2>1, SMTT(30) DEF LinksOK
  <2>7. /\ server'.pc # "params" /\ ~server'.done /\ server'.ctrl = server.ctrl
        /\ server'.cookie = server.cookie /\ server'.streams = server.streams
        /\ server'.acc = NoConn
    BY <1>2, <1>3, SMTT(30)
  <2> HIDE DEF k
  <2> QED
    BY <2>1, <2>3, <2>4, <2>5, <2>6, <2>7, LinksKept, SMTT(30)
<1> QED
  BY <1>5, <1>6, <1>7, <1>8, ZenonT(60) DEF ControlInv
=============================================================================
