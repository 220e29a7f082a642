---------------------------- MODULE StreamResults ----------------------------
(***************************************************************************)
(* The data streams of one iperf test and what is counted of them: how     *)
(* both ends make their lists of streams, count the data in UDP datagrams  *)
(* that the network loses, doubles and reorders or in a TCP byte stream,   *)
(* keep interval statistics, leave out the first seconds (-O), exchange    *)
(* their results and print the summary.  Times, and so rates and jitter,   *)
(* are left out; a block of data counts one byte.                          *)
(***************************************************************************)
EXTENDS Integers, FiniteSets, SequencesExt

CONSTANTS
  Configs,      \* the tests that may be run: see ConfigType
  IntBits,      \* bits of an int (32)
  MaxBlocks(_), \* bound: blocks or datagrams a sender sends in a test
  MaxDups,      \* bound: datagrams doubled, and segments sent again
  MaxStats      \* bound: runs of the statistics timer at each end

Sides == {"client", "server"}
Peer(x) == IF x = "client" THEN "server" ELSE "client"

\* mode is the client's; cport is --cport.
ConfigType ==
  [udp : BOOLEAN, mode : {"SENDER", "RECEIVER", "BIDIRECTIONAL"}, num_streams : Nat \ {0},
   omit : BOOLEAN, counters64 : BOOLEAN, cport : BOOLEAN]

ASSUME ConfigsAssumption == Configs \subseteq ConfigType /\ IntBits \in Nat \ {0, 1}

VARIABLES
  cfg,
  streams,     \* per side, its list of streams
  phase,       \* per side: "create", "run", "end", "sent", "shown", "failed"
  omitting,    \* per side
  backlog,     \* connections the server has not accepted yet
  net,         \* per connection, what is under way
  results,     \* per side, the JSON it sent
  summary,     \* per side, what it printed at the end
  stats        \* per side, statistics timers run

vars == <<cfg, streams, phase, omitting, backlog, net, results, summary, stats>>

Mode(x) ==
  IF x = "client" \/ cfg.mode = "BIDIRECTIONAL" THEN cfg.mode
  ELSE IF cfg.mode = "SENDER" THEN "RECEIVER" ELSE "SENDER"

-----------------------------------------------------------------------------
(* The lists of streams.                                                   *)

\* A stream and its result.  interval is the last of interval_results, last
\* the totals at its end.  Not in the code: printed, the sum of the intervals
\* printed and not marked omitted; arrived, dups, the datagrams counted, and
\* counted again; useful, the bytes counted since the omitted seconds.
NoInterval == [bytes |-> 0, packets |-> 0, errors |-> 0, omitted |-> FALSE]

NewStream(conn, sender) ==
  [conn |-> conn, sender |-> sender, id |-> 0,
   bytes_sent |-> 0, bytes_sent_omit |-> 0, bytes_received |-> 0, this_interval |-> 0,
   packet_count |-> 0, omitted_packet_count |-> 0, peer_packet_count |-> 0,
   cnt_error |-> 0, omitted_cnt_error |-> 0,
   outoforder |-> 0, omitted_outoforder |-> 0,
   retrans |-> 0, prev_retrans |-> 0, kernel_retrans |-> 0,
   last |-> [packets |-> 0, errors |-> 0],
   interval |-> NoInterval, printed |-> NoInterval,
   arrived |-> {}, dups |-> 0, useful |-> 0]

\* The first stream is number 1, the next is number 3.
iperf_add_stream(list, sp) ==
  Append(list, [sp EXCEPT !.id = IF list = <<>> THEN 1 ELSE Len(list) + 2])

\* The client connects its streams one after the other, in bidirectional
\* mode the ones it sends on first.  Each call of iperf_create_streams
\* counts local ports up from where the last call left them.
Wanted(x) == IF Mode(x) = "BIDIRECTIONAL" THEN 2 * cfg.num_streams ELSE cfg.num_streams
SendsOnIt(k) == cfg.mode = "SENDER" \/ (cfg.mode = "BIDIRECTIONAL" /\ k <= cfg.num_streams)
PortOf(k) == IF k > cfg.num_streams THEN k - 2 ELSE k - 1
PortTaken(k) == cfg.cport /\ \E i \in 1 .. k - 1 : PortOf(i) = PortOf(k)

Init ==
  /\ cfg \in Configs
  /\ streams = [x \in Sides |-> <<>>]
  /\ phase = [x \in Sides |-> "create"]
  /\ omitting = [x \in Sides |-> cfg.omit]
  /\ backlog = <<>>
  /\ net = <<>>
  /\ results = [x \in Sides |-> <<>>]
  /\ summary = [x \in Sides |-> <<>>]
  /\ stats = [x \in Sides |-> 0]

\* A side that gives up closes the control connection: so does the other.
Fail ==
  /\ phase' = [x \in Sides |-> "failed"]
  /\ UNCHANGED <<cfg, streams, omitting, backlog, net, results, summary, stats>>

\* connect: a TCP connection waits in the server's backlog; a UDP client
\* waits for the answer to its datagram before it makes the next stream.
iperf_create_streams ==
  LET k == Len(streams["client"]) + 1
  IN  /\ phase["client"] = "create" /\ k <= Wanted("client")
      /\ cfg.udp => backlog = <<>>
      /\ \/ PortTaken(k) /\ Fail
         \/ /\ ~PortTaken(k)
            /\ streams' = [streams EXCEPT !["client"] =
                 iperf_add_stream(@, NewStream(k, SendsOnIt(k)))]
            /\ backlog' = Append(backlog, k)
            /\ net' = Append(net, <<>>)
            /\ UNCHANGED <<cfg, phase, omitting, results, summary, stats>>

\* The datagram or its answer is lost: recv gives up after 30 seconds.
ConnectTimesOut ==
  /\ cfg.udp /\ phase["client"] = "create" /\ streams["client"] # <<>>
  /\ Fail

\* Mutant: the streams the server sends on are made first.
AcceptsSender_First(n) == n < (IF Mode("server") = "RECEIVER" THEN 0 ELSE cfg.num_streams)

\* With n streams made, is the next one a stream the server sends on?  First
\* come the ones it receives on.
AcceptsSender(n) == n >= (IF Mode("server") = "SENDER" THEN 0 ELSE cfg.num_streams)

\* accept, and the start of the test once all streams are there.
ServerAccepts ==
  LET n == Len(streams["server"])
  IN  /\ phase["server"] = "create" /\ backlog # <<>>
      /\ streams' = [streams EXCEPT !["server"] =
           iperf_add_stream(@, NewStream(Head(backlog), AcceptsSender(n)))]
      /\ backlog' = Tail(backlog)
      /\ phase' = [phase EXCEPT !["server"] = IF n + 1 = Wanted("server") THEN "run" ELSE @]
      /\ UNCHANGED <<cfg, omitting, net, results, summary, stats>>

ClientStarts ==
  /\ phase["client"] = "create" /\ phase["server"] = "run"
  /\ phase' = [phase EXCEPT !["client"] = "run"]
  /\ UNCHANGED <<cfg, streams, omitting, backlog, net, results, summary, stats>>

-----------------------------------------------------------------------------
(* Sending and receiving.  A datagram is the number of the send that made  *)
(* it; the counter it carries is that number in an int, as the sender's    *)
(* packet_count, and then in 32 or 64 bits.                                *)

ToInt(n)  == LET m == n % 2^IntBits IN IF m < 2^(IntBits - 1) THEN m ELSE m - 2^IntBits
U64(n)  == n % 2^(2 * IntBits)
Wire(n) == IF cfg.counters64 THEN U64(ToInt(n)) ELSE ToInt(n) % 2^IntBits

Sent(sp, x) ==
  [sp EXCEPT !.bytes_sent = @ + 1, !.this_interval = @ + 1,
             !.useful = IF omitting[x] THEN @ ELSE @ + 1]

iperf_udp_send(sp, x) == [Sent(sp, x) EXCEPT !.packet_count = ToInt(@ + 1)]
iperf_tcp_send(sp, x) == Sent(sp, x)

Sends(sp) == IF cfg.udp THEN (sp.packet_count % 2^IntBits) ELSE sp.bytes_sent

Send(x, i) ==
  LET sp == streams[x][i]
      n  == Sends(sp) + 1
  IN  /\ phase[x] = "run" /\ sp.sender /\ n <= MaxBlocks(cfg)
      /\ \/ /\ streams' = [streams EXCEPT ![x][i] =
                IF cfg.udp THEN iperf_udp_send(@, x) ELSE iperf_tcp_send(@, x)]
            /\ net' = [net EXCEPT ![sp.conn] = Append(@, n)]
         \* ENOBUFS: the datagram has its number and is not sent.
         \/ /\ cfg.udp
            /\ streams' = [streams EXCEPT ![x][i].packet_count = ToInt(@ + 1)]
            /\ UNCHANGED net
      /\ UNCHANGED <<cfg, phase, omitting, backlog, results, summary, stats>>

\* Mutant: a late datagram takes a loss away that was not counted.
Backward_Always(sp) == [sp EXCEPT !.outoforder = @ + 1, !.cnt_error = @ - 1]

\* A datagram that is not ahead of packet_count.
Backward(sp) ==
  [sp EXCEPT !.outoforder = @ + 1, !.cnt_error = IF @ > 0 THEN @ - 1 ELSE @]

\* next is packet_count + 1, in an int before it is compared with the 64-bit
\* counter: beyond the last int the compiler may have it either way.
iperf_udp_recv(sp, x, n, next) ==
  LET pcount == Wire(n)
      ahead  == [sp EXCEPT !.packet_count = ToInt(pcount),
                           !.cnt_error = ToInt(@ + U64(pcount - 1 - U64(sp.packet_count)))]
      counted == IF pcount >= next THEN ahead ELSE Backward(sp)
  IN  [counted EXCEPT !.bytes_received = @ + 1, !.this_interval = @ + 1,
                      !.useful = IF omitting[x] THEN @ ELSE @ + 1,
                      !.arrived = @ \cup {n},
                      !.dups = IF n \in sp.arrived THEN @ + 1 ELSE @]

iperf_tcp_recv(sp, x) ==
  [sp EXCEPT !.bytes_received = @ + 1, !.this_interval = @ + 1,
             !.useful = IF omitting[x] THEN @ ELSE @ + 1]

\* Any datagram that is under way, or the first byte.  The client of a
\* reverse test also reads after the end, and does not count.
Recv(x, i) ==
  LET sp == streams[x][i]
      q  == net[sp.conn]
  IN  /\ ~sp.sender /\ phase[x] \in {"run", "end"}
      /\ phase[x] = "end" => x = "client" /\ Mode(x) = "RECEIVER"
      /\ \E k \in DOMAIN q :
           /\ cfg.udp \/ k = 1
           /\ net' = [net EXCEPT ![sp.conn] = RemoveAt(@, k)]
           /\ IF phase[x] = "end" THEN UNCHANGED streams
              ELSE IF ~cfg.udp THEN streams' = [streams EXCEPT ![x][i] = iperf_tcp_recv(@, x)]
              ELSE \E next \in {U64(ToInt(sp.packet_count + 1)), U64(sp.packet_count + 1)} :
                     streams' = [streams EXCEPT ![x][i] = iperf_udp_recv(@, x, q[k], next)]
      /\ UNCHANGED <<cfg, phase, omitting, backlog, results, summary, stats>>

\* Datagrams of connection c that were doubled.
Doubled(c) ==
  LET r == CHOOSE sp \in UNION {ToSet(streams[x]) : x \in Sides} : sp.conn = c /\ ~sp.sender
  IN  Len(net[c]) + r.dups - Cardinality(ToSet(net[c]) \ r.arrived)

\* The network doubles a datagram, or the kernel sends a segment again.  A
\* datagram that is lost stays in net.
Disturb(c) ==
  /\ \/ /\ cfg.udp /\ net[c] # <<>> /\ Doubled(c) < MaxDups
        /\ \E k \in DOMAIN net[c] : net' = [net EXCEPT ![c] = InsertAt(@, k, @[k])]
        /\ UNCHANGED streams
     \/ /\ ~cfg.udp
        /\ \E x \in Sides : \E i \in DOMAIN streams[x] :
             /\ streams[x][i].conn = c /\ streams[x][i].sender
             /\ phase[x] = "run" /\ streams[x][i].kernel_retrans < MaxDups
             /\ streams' = [streams EXCEPT ![x][i].kernel_retrans = @ + 1]
        /\ UNCHANGED net
  /\ UNCHANGED <<cfg, phase, omitting, backlog, results, summary, stats>>

-----------------------------------------------------------------------------
(* Statistics.                                                             *)

\* sender_has_retransmits: this side sends, over TCP.
HasRetransmits(x) == Mode(x) # "RECEIVER" /\ ~cfg.udp

\* An interval has the bytes since the last one, and the packets, losses and
\* retransmissions by the difference of the totals.
iperf_stats_callback(sp, x) ==
  [sp EXCEPT !.interval = [bytes   |-> sp.this_interval,
                           packets |-> ToInt(sp.packet_count - sp.last.packets),
                           errors  |-> ToInt(sp.cnt_error - sp.last.errors),
                           omitted |-> omitting[x]],
             !.last = [packets |-> sp.packet_count, errors |-> sp.cnt_error],
             !.retrans = IF HasRetransmits(x) THEN @ + sp.kernel_retrans - sp.prev_retrans ELSE @,
             !.prev_retrans = IF HasRetransmits(x) THEN sp.kernel_retrans ELSE @,
             !.this_interval = 0]

print_interval_results(sp) ==
  [sp EXCEPT !.printed = IF sp.interval.omitted THEN @
                         ELSE [@ EXCEPT !.bytes   = @ + sp.interval.bytes,
                                        !.packets = ToInt(@ + sp.interval.packets),
                                        !.errors  = ToInt(@ + sp.interval.errors)]]

\* Mutant: a short interval is left out if some stream has no data in it.
interval_ok_All(list) == \A i \in DOMAIN list : list[i].interval.bytes > 0

\* A short interval is printed if some stream has data in it.
interval_ok(list) == \E i \in DOMAIN list : list[i].interval.bytes > 0

iperf_print_intermediate(list, short) ==
  IF short /\ ~interval_ok(list) THEN list
  ELSE [i \in DOMAIN list |-> print_interval_results(list[i])]

WithStats(x) == [i \in DOMAIN streams[x] |-> iperf_stats_callback(streams[x][i], x)]

\* Mutant: the bytes received so far stay in the summary.
iperf_reset_stats_KeepReceived(sp, x) ==
  [sp EXCEPT !.bytes_sent_omit = sp.bytes_sent, !.this_interval = 0]

\* The end of the omitted seconds.
iperf_reset_stats(sp, x) ==
  [sp EXCEPT !.omitted_packet_count = sp.packet_count,
             !.omitted_cnt_error    = sp.cnt_error,
             !.omitted_outoforder   = sp.outoforder,
             !.bytes_sent_omit = sp.bytes_sent, !.bytes_received = 0, !.this_interval = 0,
             !.prev_retrans = IF HasRetransmits(x) THEN sp.kernel_retrans ELSE @,
             !.retrans = 0]

\* The statistics timer and the reporter timer.
StatsTimer(x) ==
  /\ phase[x] = "run" /\ stats[x] < MaxStats
  /\ stats' = [stats EXCEPT ![x] = @ + 1]
  /\ streams' = [streams EXCEPT ![x] = iperf_print_intermediate(WithStats(x), FALSE)]
  /\ UNCHANGED <<cfg, phase, omitting, backlog, net, results, summary>>

OmitTimer(x) ==
  /\ phase[x] = "run" /\ omitting[x]
  /\ omitting' = [omitting EXCEPT ![x] = FALSE]
  /\ streams' = [streams EXCEPT ![x] = [i \in DOMAIN @ |-> iperf_reset_stats(@[i], x)]]
  /\ UNCHANGED <<cfg, phase, backlog, net, results, summary, stats>>

-----------------------------------------------------------------------------
(* The end of the test.                                                    *)

send_results(list, x) ==
  [i \in DOMAIN list |->
     LET sp == list[i]
     IN  [id |-> sp.id,
          bytes |-> IF sp.sender THEN sp.bytes_sent - sp.bytes_sent_omit ELSE sp.bytes_received,
          retransmits |-> IF sp.sender /\ HasRetransmits(x) THEN sp.retrans ELSE -1,
          errors |-> sp.cnt_error, packets |-> sp.packet_count]]

ResultOf(sp, r) == r[CHOOSE i \in DOMAIN r : r[i].id = sp.id]

KnownIds(list, r) == \A j \in DOMAIN r : \E i \in DOMAIN list : list[i].id = r[j].id

get_results(list, r) ==
  [i \in DOMAIN list |->
     LET sp == list[i]
         j  == ResultOf(sp, r)
     IN  IF ~\E k \in DOMAIN r : r[k].id = sp.id THEN sp
         ELSE IF sp.sender
         THEN [sp EXCEPT !.cnt_error = j.errors, !.peer_packet_count = j.packets,
                         !.bytes_received = j.bytes]
         ELSE [sp EXCEPT !.peer_packet_count = j.packets, !.bytes_sent = j.bytes,
                         !.retrans = j.retransmits]]

\* The client prints both halves of a stream, the server its own: the other
\* half has not come yet.
Shown(sp, x) == IF x = "client" THEN {"sender", "receiver"}
                ELSE IF sp.sender THEN {"sender"} ELSE {"receiver"}

\* total_packets takes the sender's count if there is one.
StreamSummary(sp, x) ==
  LET ours   == sp.packet_count
      theirs == sp.peer_packet_count
      sender == IF sp.sender THEN ours ELSE theirs
      receiver == IF sp.sender THEN theirs ELSE ours
      Kept(n) == ToInt(n - sp.omitted_packet_count)
  IN  [conn |-> sp.conn, halves |-> Shown(sp, x),
       sent |-> sp.bytes_sent - sp.bytes_sent_omit, received |-> sp.bytes_received,
       sender_packets |-> Kept(sender), receiver_packets |-> Kept(receiver),
       packets |-> Kept(IF sender # 0 THEN sender ELSE receiver),
       lost |-> ToInt(sp.cnt_error - sp.omitted_cnt_error),
       retransmits |-> IF cfg.udp THEN -1 ELSE sp.retrans]

\* The line "SUM".
Totals(lines) ==
  [f \in {"sent", "received", "packets", "lost"} |->
    FoldLeft(LAMBDA n, line : n + line[f], 0, lines)]

\* In bidirectional mode the client's senders come first, the server's
\* receivers.
Passes(x) ==
  CASE Mode(x) = "BIDIRECTIONAL" -> IF x = "client" THEN <<TRUE, FALSE>> ELSE <<FALSE, TRUE>>
    [] Mode(x) = "SENDER"        -> <<TRUE>>
    [] Mode(x) = "RECEIVER"      -> <<FALSE>>

iperf_print_results(list, x) ==
  [p \in DOMAIN Passes(x) |->
    LET pass  == SelectSeq(list, LAMBDA sp : sp.sender = Passes(x)[p])
        lines == [i \in DOMAIN pass |-> StreamSummary(pass[i], x)]
    IN  [lines |-> lines, sum |-> Totals(lines)]]

ClientEnds ==
  /\ phase["client"] = "run" /\ ~omitting["client"]
  /\ streams' = [streams EXCEPT !["client"] = WithStats("client")]
  /\ phase' = [phase EXCEPT !["client"] = "end"]
  /\ UNCHANGED <<cfg, omitting, backlog, net, results, summary, stats>>

\* TEST_END at the server, until it waits for the client's results.
ServerEnds ==
  /\ phase["client"] = "end" /\ phase["server"] = "run"
  /\ \E short \in BOOLEAN :
       streams' = [streams EXCEPT !["server"] = iperf_print_intermediate(WithStats("server"), short)]
  /\ summary' = [summary EXCEPT !["server"] = iperf_print_results(streams'["server"], "server")]
  /\ phase' = [phase EXCEPT !["server"] = "end"]
  /\ UNCHANGED <<cfg, omitting, backlog, net, results, stats>>

ClientSendsResults ==
  /\ phase["client"] = "end" /\ phase["server"] = "end"
  /\ results' = [results EXCEPT !["client"] = send_results(streams["client"], "client")]
  /\ phase' = [phase EXCEPT !["client"] = "sent"]
  /\ UNCHANGED <<cfg, streams, omitting, backlog, net, summary, stats>>

ServerExchanges ==
  /\ phase["client"] = "sent" /\ phase["server"] = "end"
  /\ LET list == get_results(streams["server"], results["client"])
     IN  IF KnownIds(list, results["client"])
         THEN /\ streams' = [streams EXCEPT !["server"] = list]
              /\ results' = [results EXCEPT !["server"] = send_results(list, "server")]
              /\ phase' = [phase EXCEPT !["server"] = "shown"]
              /\ UNCHANGED <<cfg, omitting, backlog, net, summary, stats>>
         ELSE Fail

ClientShows ==
  /\ phase["client"] = "sent" /\ phase["server"] = "shown"
  /\ LET list == get_results(streams["client"], results["server"])
     IN  IF KnownIds(list, results["server"])
         THEN /\ \E short \in BOOLEAN :
                   streams' = [streams EXCEPT !["client"] = iperf_print_intermediate(list, short)]
              /\ summary' = [summary EXCEPT !["client"] = iperf_print_results(list, "client")]
              /\ phase' = [phase EXCEPT !["client"] = "shown"]
              /\ UNCHANGED <<cfg, omitting, backlog, net, results, stats>>
         ELSE Fail

Next ==
  \/ iperf_create_streams \/ ConnectTimesOut \/ ServerAccepts \/ ClientStarts
  \/ \E x \in Sides : \/ \E i \in DOMAIN streams[x] : Send(x, i) \/ Recv(x, i)
                      \/ StatsTimer(x) \/ OmitTimer(x)
  \/ \E c \in DOMAIN net : Disturb(c)
  \/ ClientEnds \/ ServerEnds \/ ClientSendsResults \/ ServerExchanges \/ ClientShows

Spec == Init /\ [][Next]_vars

-----------------------------------------------------------------------------
AllStreams == UNION {{streams[x][i] : i \in DOMAIN streams[x]} : x \in Sides}

Int32 == -2^(IntBits - 1) .. 2^(IntBits - 1) - 1

TypeOK ==
  /\ cfg \in Configs /\ omitting \in [Sides -> BOOLEAN]
  /\ phase \in [Sides -> {"create", "run", "end", "sent", "shown", "failed"}]
  /\ \A sp \in AllStreams :
       /\ {sp.packet_count, sp.cnt_error, sp.peer_packet_count} \subseteq Int32
       /\ {sp.bytes_sent, sp.bytes_received, sp.this_interval} \subseteq 0 .. MaxBlocks(cfg) + MaxDups
       /\ sp.id \in {1} \cup 3 .. Wanted("client") + 1

\* A stream has the same number at both ends, one end sends and the other
\* receives, and no two streams share a number: the results of one stream
\* are never taken for another's, in either direction, whatever the order
\* in which the two ends make them.
StreamsPaired ==
  /\ \A x \in Sides : \A i, j \in DOMAIN streams[x] :
       i # j => streams[x][i].id # streams[x][j].id
  /\ \A c \in ToSet(streams["client"]), s \in ToSet(streams["server"]) :
       /\ c.conn = s.conn <=> c.id = s.id
       /\ c.conn = s.conn => c.sender # s.sender

\* The receiver counts as lost exactly the datagrams below the highest one
\* that have not come, however they are reordered; each datagram that comes
\* twice hides at most one loss, and the count is never negative.  With
\* 32-bit counters this ends with the last int; with 64-bit counters it
\* goes on beyond it, as long as the losses themselves fit in an int.
LossCounted ==
  /\ TypeOK
  /\ \A sp \in AllStreams :
       (cfg.udp /\ ~sp.sender /\ (cfg.counters64 \/ \A n \in sp.arrived : n < 2^(IntBits - 1))) =>
         LET lost == (IF sp.arrived = {} THEN 0 ELSE Max(sp.arrived)) - Cardinality(sp.arrived)
         IN  sp.cnt_error \in Max({0, lost - sp.dups}) .. lost

Lines(x) == UNION {ToSet(summary[x][p].lines) : p \in DOMAIN summary[x]}
SenderOf(line)   == CHOOSE sp \in AllStreams : sp.conn = line.conn /\ sp.sender
ReceiverOf(line) == CHOOSE sp \in AllStreams : sp.conn = line.conn /\ ~sp.sender

\* The intervals a side has printed, without the ones marked omitted, add up
\* to the bytes of its summary, although a short last interval without data
\* is not printed; a receiver's packets and losses do too when no seconds
\* are omitted.
IntervalsAddUp ==
  \A x \in Sides : \A line \in Lines(x) : ~omitting[x] =>
    LET sp == CHOOSE s \in ToSet(streams[x]) : s.conn = line.conn
    IN  /\ sp.printed.bytes = IF sp.sender THEN line.sent ELSE line.received
        /\ (cfg.udp /\ ~cfg.omit /\ ~sp.sender) =>
             sp.printed.packets = line.receiver_packets /\ sp.printed.errors = line.lost

\* What either end prints of a stream is what its sender put into the
\* network and its receiver took out of it after the omitted seconds, and
\* both print the same; so are the losses when no seconds are omitted, and
\* the retransmissions.
SummariesAgree ==
  \A x \in Sides : \A line \in Lines(x) :
    LET s == SenderOf(line)
        r == ReceiverOf(line)
    IN  ~(omitting["client"] \/ omitting["server"]) =>
        /\ "sender" \in line.halves => /\ line.sent = s.useful
                                       /\ ~cfg.udp => line.retransmits = s.retrans
        /\ "receiver" \in line.halves =>
             /\ line.received = r.useful
             /\ (cfg.udp /\ ~cfg.omit) => line.lost = r.cnt_error
==============================================================================
