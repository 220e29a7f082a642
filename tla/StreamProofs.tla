----------------------------- MODULE StreamProofs -----------------------------
(***************************************************************************)
(* A theorem about the lists of streams: however many streams a test has,  *)
(* and in whatever order both ends make them, a stream has the same number *)
(* at both ends, one of which sends and one of which receives.             *)
(***************************************************************************)
EXTENDS StreamResults, TLAPS

\* A sequence, of whatever it holds.
IsSeq(q) == q \in Seq({q[i] : i \in DOMAIN q})

\* r is q with e behind it.
Longer(q, e, r) ==
  /\ IsSeq(r) /\ Len(r) = Len(q) + 1 /\ r[Len(q) + 1] = e
  /\ \A i \in DOMAIN q : r[i] = q[i]

Named(sp) == {"conn", "sender", "id"} \subseteq DOMAIN sp

\* What no counting, printing or exchange of results changes in a stream.
Kept(sp, r) == Named(r) /\ r.conn = sp.conn /\ r.sender = sp.sender /\ r.id = sp.id

SameList(a, b) ==
  /\ IsSeq(b) /\ DOMAIN b = DOMAIN a
  /\ \A i \in DOMAIN a : Kept(a[i], b[i])

IdOf(i) == IF i = 1 THEN 1 ELSE i + 1
Sender(x, i) == IF x = "client" THEN SendsOnIt(i) ELSE ~SendsOnIt(i)

\* The stream of connection i, of a side that sends on it or not.
Entry(sp, i, sends) ==
  /\ Named(sp) /\ sp.conn = i /\ sp.id = IdOf(i)
  /\ sp.sender \in BOOLEAN /\ (sp.sender <=> sends)

ListOf(x) ==
  /\ IsSeq(streams[x])
  /\ \A i \in DOMAIN streams[x] : Entry(streams[x][i], i, Sender(x, i))

\* Both lists are those of the first connections, in order; the ones the server
\* has not accepted yet are the last ones.
ListInv ==
  /\ cfg \in Configs /\ DOMAIN streams = Sides
  /\ \A x \in Sides : ListOf(x)
  /\ backlog \in Seq(Nat) /\ Len(streams["server"]) + Len(backlog) = Len(streams["client"])
  /\ \A k \in 1 .. Len(backlog) : backlog[k] = Len(streams["server"]) + k
  /\ Len(streams["client"]) <= Wanted("client")
-------------------------------------------------------------------------------
(* Sequences.                                                                *)

\* The domain of a sequence.
LEMMA SeqDomain == ASSUME NEW q, IsSeq(q) PROVE Len(q) \in Nat /\ DOMAIN q = 1 .. Len(q)
BY SMTT(30) DEF IsSeq

\* A connection more is waiting.
LEMMA OneMore ==
  ASSUME NEW a \in Nat, NEW b \in Nat, NEW c \in Nat, a + b = c
  PROVE  a + (b + 1) = c + 1
BY SMTT(30)

\* Any function on the first numbers is one.
LEMMA FunctionIsSeq ==
  ASSUME NEW n \in Nat, NEW q, q = [i \in 1 .. n |-> q[i]]
  PROVE  IsSeq(q) /\ Len(q) = n
<1>1. q \in [1 .. n -> {q[i] : i \in DOMAIN q}]
  BY ZenonT(60)
<1> QED BY <1>1, SMTT(30) DEF IsSeq

\* So is every sequence over a set.
LEMMA SeqIsSeq == ASSUME NEW S, NEW q \in Seq(S) PROVE IsSeq(q)
<1>1. Len(q) \in Nat /\ q \in [1 .. Len(q) -> S]
  BY SMTT(30)
<1>2. q = [i \in 1 .. Len(q) |-> q[i]]
  BY <1>1, ZenonT(60)
<1> QED BY <1>1, <1>2, FunctionIsSeq, ZenonT(60)

\* iperf_add_stream appends.
LEMMA Appended == ASSUME NEW q, NEW e, IsSeq(q) PROVE Longer(q, e, Append(q, e))
<1> DEFINE S == {q[i] : i \in DOMAIN q} \cup {e}
<1>1. q \in Seq(S) /\ e \in S
  BY SMTT(30) DEF IsSeq
<1>2. /\ Append(q, e) \in Seq(S) /\ Len(Append(q, e)) = Len(q) + 1
      /\ Append(q, e)[Len(q) + 1] = e
      /\ \A i \in DOMAIN q : Append(q, e)[i] = q[i]
  <2> HIDE DEF S
  <2> QED BY <1>1, SMTT(30)
<1>4. IsSeq(Append(q, e))
  <2> HIDE DEF S
  <2> QED BY <1>2, SeqIsSeq, ZenonT(60)
<1> QED BY <1>2, <1>4, ZenonT(60) DEF Longer
-------------------------------------------------------------------------------
(* What the operations on streams keep.                                      *)

\* Every field but the three names is a counter.
LEMMA KeptRefl == ASSUME NEW sp, Named(sp) PROVE Kept(sp, sp)
BY ZenonT(60) DEF Kept

\* Keeping is transitive.
LEMMA KeptTrans == ASSUME NEW a, NEW b, NEW c, Kept(a, b), Kept(b, c) PROVE Kept(a, c)
BY ZenonT(60) DEF Kept

\* iperf_udp_send, iperf_tcp_send, and the send that fails with ENOBUFS.
LEMMA SendKeeps ==
  ASSUME NEW sp, NEW x, NEW n, Named(sp)
  PROVE  /\ Kept(sp, iperf_udp_send(sp, x)) /\ Kept(sp, iperf_tcp_send(sp, x))
         /\ Kept(sp, [sp EXCEPT !.packet_count = n])
<1>1. Kept(sp, Sent(sp, x))
  BY SMTT(30) DEF Kept, Named, Sent
<1>2. ASSUME NEW r, Named(r) PROVE Kept(r, [r EXCEPT !.packet_count = ToInt(@ + 1)])
  BY <1>2, SMTT(30) DEF Kept, Named
<1>3. Named(Sent(sp, x))
  BY <1>1, ZenonT(60) DEF Kept
<1>4. Kept(sp, iperf_udp_send(sp, x))
  BY <1>1, <1>2, <1>3, KeptTrans, ZenonT(60) DEF iperf_udp_send
<1>5. Kept(sp, [sp EXCEPT !.packet_count = n])
  BY SMTT(30) DEF Kept, Named
<1> QED BY <1>1, <1>4, <1>5, ZenonT(60) DEF iperf_tcp_send

\* iperf_udp_recv and iperf_tcp_recv.
LEMMA RecvKeeps ==
  ASSUME NEW sp, NEW x, NEW n, NEW next, Named(sp)
  PROVE  Kept(sp, iperf_udp_recv(sp, x, n, next)) /\ Kept(sp, iperf_tcp_recv(sp, x))
<1>1. Kept(sp, iperf_tcp_recv(sp, x))
  BY SMTT(30) DEF Kept, Named, iperf_tcp_recv
<1> DEFINE ahead == [sp EXCEPT !.packet_count = ToInt(Wire(n)),
                               !.cnt_error = ToInt(@ + U64(Wire(n) - 1 - U64(sp.packet_count)))]
           counted == IF Wire(n) >= next THEN ahead ELSE Backward(sp)
           final(r) == [r EXCEPT !.bytes_received = @ + 1, !.this_interval = @ + 1,
                      !.useful = IF omitting[x] THEN @ ELSE @ + 1,
                      !.arrived = @ \cup {n},
                      !.dups = IF n \in sp.arrived THEN @ + 1 ELSE @]
<1>2. Kept(sp, ahead) /\ Kept(sp, Backward(sp))
  BY SMTT(30) DEF Kept, Named, Backward
<1>3. Kept(sp, counted)
  BY <1>2, ZenonT(60)
<1>4. ASSUME NEW r, Named(r) PROVE Kept(r, final(r))
  BY <1>4, SMTT(30) DEF Kept, Named
<1>5. iperf_udp_recv(sp, x, n, next) = final(counted)
  BY ZenonT(60) DEF iperf_udp_recv
<1> HIDE DEF counted, final
<1>6. Kept(sp, final(counted))
  BY <1>3, <1>4, KeptTrans, ZenonT(60) DEF Kept
<1> QED BY <1>1, <1>5, <1>6, ZenonT(60)

\* The statistics timer, the reports and the end of the omitted seconds.
LEMMA StatsKeep ==
  ASSUME NEW sp, NEW x, Named(sp)
  PROVE  /\ Kept(sp, iperf_stats_callback(sp, x)) /\ Kept(sp, print_interval_results(sp))
         /\ Kept(sp, iperf_reset_stats(sp, x))
<1>1. Kept(sp, iperf_stats_callback(sp, x))
  BY SMTT(30) DEF Kept, Named, iperf_stats_callback
<1>2. ASSUME NEW v PROVE Kept(sp, [sp EXCEPT !.printed = v])
  BY SMTT(30) DEF Kept, Named
<1>3. Kept(sp, print_interval_results(sp))
  BY <1>2, SMTT(30) DEF print_interval_results
<1>4. Kept(sp, iperf_reset_stats(sp, x))
  BY SMTT(30) DEF Kept, Named, iperf_reset_stats
<1> QED BY <1>1, <1>3, <1>4, ZenonT(60)

\* The other side's results are taken into the counters.
LEMMA ResultsKeep ==
  ASSUME NEW q, NEW r, NEW i \in DOMAIN q, Named(q[i])
  PROVE  Kept(q[i], get_results(q, r)[i])
<1> DEFINE sp == q[i]
           j == ResultOf(sp, r)
<1>1. /\ Kept(sp, sp)
      /\ Kept(sp, [sp EXCEPT !.cnt_error = j.errors, !.peer_packet_count = j.packets,
                             !.bytes_received = j.bytes])
      /\ Kept(sp, [sp EXCEPT !.peer_packet_count = j.packets, !.bytes_sent = j.bytes,
                             !.retrans = j.retransmits])
  <2> HIDE DEF j
  <2> QED BY SMTT(30) DEF Kept, Named
<1>2. \/ get_results(q, r)[i] = sp
      \/ get_results(q, r)[i] = [sp EXCEPT !.cnt_error = j.errors, !.peer_packet_count = j.packets,
                                           !.bytes_received = j.bytes]
      \/ get_results(q, r)[i] = [sp EXCEPT !.peer_packet_count = j.packets, !.bytes_sent = j.bytes,
                                           !.retrans = j.retransmits]
  BY ZenonT(60) DEF get_results
<1> HIDE DEF sp, j
<1>3. Kept(sp, get_results(q, r)[i])
  BY <1>1, <1>2, ZenonT(60)
<1> QED BY <1>3, ZenonT(60) DEF sp
-------------------------------------------------------------------------------
(* Lists of streams.                                                         *)

\* A list whose streams are all counted anew.
LEMMA MapSame ==
  ASSUME NEW q, IsSeq(q), NEW r, r = [i \in DOMAIN q |-> r[i]],
         \A i \in DOMAIN q : Kept(q[i], r[i])
  PROVE  SameList(q, r)
<1>1. Len(q) \in Nat /\ DOMAIN q = 1 .. Len(q)
  BY SeqDomain, SMTT(30)
<1>2. r = [i \in 1 .. Len(q) |-> r[i]]
  BY <1>1, ZenonT(60)
<1>3. IsSeq(r) /\ DOMAIN r = DOMAIN q
  BY <1>1, <1>2, FunctionIsSeq, ZenonT(60)
<1> QED BY <1>3, ZenonT(60) DEF SameList

\* A list of which one stream is counted anew.
LEMMA PutSame ==
  ASSUME NEW q, IsSeq(q), NEW k \in DOMAIN q, NEW e, Kept(q[k], e),
         \A i \in DOMAIN q : Named(q[i])
  PROVE  SameList(q, [q EXCEPT ![k] = e])
<1> DEFINE r == [q EXCEPT ![k] = e]
<1>1. r = [i \in DOMAIN q |-> r[i]] /\ \A i \in DOMAIN q : r[i] = IF i = k THEN e ELSE q[i]
  BY ZenonT(60)
<1>2. \A i \in DOMAIN q : Kept(q[i], r[i])
  <2> HIDE DEF r
  <2> QED BY <1>1, KeptRefl, ZenonT(60)
<1> HIDE DEF r
<1>3. SameList(q, r)
  BY <1>1, <1>2, MapSame, ZenonT(60)
<1> QED BY <1>3, ZenonT(60) DEF r

\* One counting after another.
LEMMA SameTrans ==
  ASSUME NEW a, NEW b, NEW c, SameList(a, b), SameList(b, c)
  PROVE  SameList(a, c)
BY KeptTrans, ZenonT(60) DEF SameList

\* The statistics, the reports and the results of a whole list.
LEMMA ListsSame ==
  ASSUME NEW q, IsSeq(q), \A i \in DOMAIN q : Named(q[i]), NEW x, NEW short, NEW r
  PROVE  /\ SameList(q, q)
         /\ SameList(q, [i \in DOMAIN q |-> iperf_stats_callback(q[i], x)])
         /\ SameList(q, [i \in DOMAIN q |-> iperf_reset_stats(q[i], x)])
         /\ SameList(q, iperf_print_intermediate(q, short))
         /\ SameList(q, get_results(q, r))
<1>1. SameList(q, q)
  BY KeptRefl, ZenonT(60) DEF SameList
<1>2. SameList(q, [i \in DOMAIN q |-> iperf_stats_callback(q[i], x)])
  <2> DEFINE s == [i \in DOMAIN q |-> iperf_stats_callback(q[i], x)]
  <2>1. s = [i \in DOMAIN q |-> s[i]] /\ \A i \in DOMAIN q : s[i] = iperf_stats_callback(q[i], x)
    BY ZenonT(60)
  <2>2. \A i \in DOMAIN q : Kept(q[i], iperf_stats_callback(q[i], x))
    BY StatsKeep, ZenonT(60)
  <2> HIDE DEF s
  <2>3. SameList(q, s)
    BY <2>1, <2>2, MapSame, ZenonT(60)
  <2> QED BY <2>3, ZenonT(60) DEF s
<1>3. SameList(q, [i \in DOMAIN q |-> iperf_reset_stats(q[i], x)])
  <2> DEFINE s == [i \in DOMAIN q |-> iperf_reset_stats(q[i], x)]
  <2>1. s = [i \in DOMAIN q |-> s[i]] /\ \A i \in DOMAIN q : s[i] = iperf_reset_stats(q[i], x)
    BY ZenonT(60)
  <2>2. \A i \in DOMAIN q : Kept(q[i], iperf_reset_stats(q[i], x))
    BY StatsKeep, ZenonT(60)
  <2> HIDE DEF s
  <2>3. SameList(q, s)
    BY <2>1, <2>2, MapSame, ZenonT(60)
  <2> QED BY <2>3, ZenonT(60) DEF s
<1>4. SameList(q, iperf_print_intermediate(q, short))
  <2> DEFINE s == [i \in DOMAIN q |-> print_interval_results(q[i])]
  <2>1. s = [i \in DOMAIN q |-> s[i]] /\ \A i \in DOMAIN q : s[i] = print_interval_results(q[i])
    BY ZenonT(60)
  <2>2. \A i \in DOMAIN q : Kept(q[i], print_interval_results(q[i]))
    BY StatsKeep, ZenonT(60)
  <2>3. iperf_print_intermediate(q, short) \in {q, s}
    BY ZenonT(60) DEF iperf_print_intermediate
  <2> HIDE DEF s
  <2>4. SameList(q, s)
    BY <2>1, <2>2, MapSame, ZenonT(60)
  <2> QED BY <1>1, <2>3, <2>4, ZenonT(60)
<1>5. SameList(q, get_results(q, r))
  <2> DEFINE s == get_results(q, r)
  <2>1. s = [i \in DOMAIN q |-> s[i]]
    BY ZenonT(60) DEF get_results
  <2>2. \A i \in DOMAIN q : Kept(q[i], s[i])
    BY ResultsKeep, ZenonT(60)
  <2> HIDE DEF s
  <2>3. SameList(q, s)
    BY <2>1, <2>2, MapSame, ZenonT(60)
  <2> QED BY <2>3, ZenonT(60) DEF s
<1> QED BY <1>1, <1>2, <1>3, <1>4, <1>5, ZenonT(60)
-------------------------------------------------------------------------------
(* The invariant.                                                            *)

\* A stream that is counted anew is the same stream.
LEMMA KeptEntry ==
  ASSUME NEW sp, NEW r, NEW i, NEW sends, Entry(sp, i, sends), Kept(sp, r)
  PROVE  Entry(r, i, sends)
BY ZenonT(60) DEF Entry, Kept

\* A step that only counts keeps the lists as they are.
LEMMA CountingKeeps ==
  ASSUME ListInv, UNCHANGED <<cfg, backlog>>, DOMAIN streams' = Sides,
         \A x \in Sides : SameList(streams[x], streams'[x])
  PROVE  ListInv'
<1>1. \A x \in Sides : Len(streams'[x]) = Len(streams[x])
  <2> SUFFICES ASSUME NEW x \in Sides PROVE Len(streams'[x]) = Len(streams[x])
    BY SMTT(30)
  <2>1. IsSeq(streams[x]) /\ IsSeq(streams'[x]) /\ DOMAIN streams'[x] = DOMAIN streams[x]
    BY ZenonT(60) DEF ListInv, ListOf, SameList
  <2>2. /\ Len(streams[x]) \in Nat /\ DOMAIN streams[x] = 1 .. Len(streams[x])
        /\ Len(streams'[x]) \in Nat /\ DOMAIN streams'[x] = 1 .. Len(streams'[x])
    BY <2>1, SeqDomain, ZenonT(60)
  <2> QED BY <2>1, <2>2, SMTT(30)
<1>2. \A x, i : Sender(x, i) <=> Sender(x, i)'
  BY ZenonT(60) DEF Sender, SendsOnIt
<1>3. ASSUME NEW x \in Sides PROVE ListOf(x)'
  <2>1. /\ IsSeq(streams'[x]) /\ DOMAIN streams'[x] = DOMAIN streams[x]
        /\ \A i \in DOMAIN streams[x] : Kept(streams[x][i], streams'[x][i])
    BY ZenonT(60) DEF SameList
  <2>2. ListOf(x)
    BY ZenonT(60) DEF ListInv
  <2>3. ASSUME NEW i \in DOMAIN streams'[x] PROVE Entry(streams'[x][i], i, Sender(x, i)')
    <3>1. Kept(streams[x][i], streams'[x][i]) /\ Entry(streams[x][i], i, Sender(x, i))
      BY <2>1, <2>2, ZenonT(60) DEF ListOf
    <3>2. Entry(streams'[x][i], i, Sender(x, i))
      BY <3>1, KeptEntry, ZenonT(60)
    <3> QED BY <1>2, <3>2, ZenonT(60) DEF Entry
  <2> QED BY <2>1, <2>3, ZenonT(60) DEF ListOf
<1>4. Wanted("client")' = Wanted("client")
  BY ZenonT(60) DEF Wanted, Mode
<1>5. "client" \in Sides /\ "server" \in Sides
  BY SMTT(30) DEF Sides
<1> QED BY <1>1, <1>3, <1>4, <1>5, ZenonT(60) DEF ListInv

\* What the lists hold, for the steps below.
LEMMA ListFacts ==
  ASSUME ListInv, NEW x \in Sides
  PROVE  IsSeq(streams[x]) /\ \A i \in DOMAIN streams[x] : Named(streams[x][i])
BY ZenonT(60) DEF ListInv, ListOf, Entry

\* One side's list is counted anew.
LEMMA OneSideKeeps ==
  ASSUME ListInv, UNCHANGED <<cfg, backlog>>, NEW x \in Sides, NEW list,
         streams' = [streams EXCEPT ![x] = list], SameList(streams[x], list)
  PROVE  ListInv'
<1>1. DOMAIN streams' = Sides /\ \A y \in Sides : streams'[y] = IF y = x THEN list ELSE streams[y]
  BY ZenonT(60) DEF ListInv
<1>2. \A y \in Sides : SameList(streams[y], streams[y])
  BY ListFacts, KeptRefl, ZenonT(60) DEF SameList
<1>3. \A y \in Sides : SameList(streams[y], streams'[y])
  BY <1>1, <1>2, ZenonT(60)
<1> QED BY <1>1, <1>3, CountingKeeps, ZenonT(60)

\* One stream is counted anew.
LEMMA OneStreamKeeps ==
  ASSUME ListInv, UNCHANGED <<cfg, backlog>>, NEW x \in Sides, NEW i \in DOMAIN streams[x], NEW e,
         streams' = [streams EXCEPT ![x][i] = e], Kept(streams[x][i], e)
  PROVE  ListInv'
<1>1. streams' = [streams EXCEPT ![x] = [streams[x] EXCEPT ![i] = e]]
  BY ZenonT(60)
<1>2. SameList(streams[x], [streams[x] EXCEPT ![i] = e])
  BY ListFacts, PutSame, ZenonT(60)
<1> QED BY <1>1, <1>2, OneSideKeeps, ZenonT(60)

\* No list is touched.
LEMMA NoneKeeps == ListInv /\ UNCHANGED <<cfg, backlog, streams>> => ListInv'
<1> SUFFICES ASSUME ListInv, UNCHANGED <<cfg, backlog, streams>> PROVE ListInv'
  BY SMTT(30)
<1>1. \A x \in Sides : SameList(streams[x], streams'[x])
  BY ListFacts, KeptRefl, ZenonT(60) DEF SameList
<1>2. DOMAIN streams' = Sides
  BY ZenonT(60) DEF ListInv
<1> QED BY <1>1, <1>2, CountingKeeps, ZenonT(60)
-------------------------------------------------------------------------------
(* Every step keeps it.                                                      *)

\* A block or a datagram is sent, or has its number and is not sent.
LEMMA SendStep ==
  ASSUME ListInv, NEW x \in Sides, NEW i \in DOMAIN streams[x], Send(x, i)
  PROVE  ListInv'
<1> DEFINE sp == streams[x][i]
<1>1. UNCHANGED <<cfg, backlog>> /\ Named(sp)
  BY ListFacts, ZenonT(60) DEF Send
<1>2. \/ streams' = [streams EXCEPT ![x][i] = IF cfg.udp THEN iperf_udp_send(sp, x) ELSE iperf_tcp_send(sp, x)]
      \/ streams' = [streams EXCEPT ![x][i] = [sp EXCEPT !.packet_count = ToInt(sp.packet_count + 1)]]
  BY SMTT(30) DEF Send
<1>3. /\ Kept(sp, IF cfg.udp THEN iperf_udp_send(sp, x) ELSE iperf_tcp_send(sp, x))
      /\ Kept(sp, [sp EXCEPT !.packet_count = ToInt(sp.packet_count + 1)])
  BY <1>1, SendKeeps, ZenonT(60)
<1> QED BY <1>1, <1>2, <1>3, OneStreamKeeps, ZenonT(60)

\* One is received, and counted unless the test has ended.
LEMMA RecvStep ==
  ASSUME ListInv, NEW x \in Sides, NEW i \in DOMAIN streams[x], Recv(x, i)
  PROVE  ListInv'
<1> DEFINE sp == streams[x][i]
<1>1. UNCHANGED <<cfg, backlog>> /\ Named(sp)
  BY ListFacts, ZenonT(60) DEF Recv
<1>2. \/ UNCHANGED streams
      \/ streams' = [streams EXCEPT ![x][i] = iperf_tcp_recv(sp, x)]
      \/ \E n, next : streams' = [streams EXCEPT ![x][i] = iperf_udp_recv(sp, x, n, next)]
  <2>1. PICK k \in DOMAIN net[sp.conn] :
          IF phase[x] = "end" THEN UNCHANGED streams
          ELSE IF ~cfg.udp THEN streams' = [streams EXCEPT ![x][i] = iperf_tcp_recv(@, x)]
          ELSE \E next \in {U64(ToInt(sp.packet_count + 1)), U64(sp.packet_count + 1)} :
                 streams' = [streams EXCEPT ![x][i] = iperf_udp_recv(@, x, net[sp.conn][k], next)]
    BY ZenonT(60) DEF Recv
  <2>2. CASE phase[x] = "end"
    BY <2>1, <2>2, ZenonT(60)
  <2>3. CASE phase[x] # "end" /\ ~cfg.udp
    BY <2>1, <2>3, ZenonT(60)
  <2>4. CASE phase[x] # "end" /\ cfg.udp
    <3>1. PICK next : streams' = [streams EXCEPT ![x][i] = iperf_udp_recv(@, x, net[sp.conn][k], next)]
      BY <2>1, <2>4, ZenonT(60)
    <3>2. streams' = [streams EXCEPT ![x][i] = iperf_udp_recv(sp, x, net[sp.conn][k], next)]
      BY <3>1, ZenonT(60)
    <3> QED BY <3>2, ZenonT(60)
  <2> QED BY <2>2, <2>3, <2>4, ZenonT(60)
<1>3. Kept(sp, iperf_tcp_recv(sp, x)) /\ \A n, next : Kept(sp, iperf_udp_recv(sp, x, n, next))
  BY <1>1, RecvKeeps, ZenonT(60)
<1> QED BY <1>1, <1>2, <1>3, NoneKeeps, OneStreamKeeps, ZenonT(60)

\* The kernel sends a segment again; a datagram that is doubled is in no list.
LEMMA DisturbStep == ASSUME ListInv, NEW c, Disturb(c) PROVE ListInv'
<1>1. UNCHANGED <<cfg, backlog>>
  BY ZenonT(60) DEF Disturb
<1>2. CASE UNCHANGED streams
  BY <1>1, <1>2, NoneKeeps, ZenonT(60)
<1>3. CASE \E x \in Sides : \E i \in DOMAIN streams[x] :
             streams' = [streams EXCEPT ![x][i].kernel_retrans = @ + 1]
  <2>0. PICK x \in Sides : \E i \in DOMAIN streams[x] :
          streams' = [streams EXCEPT ![x][i].kernel_retrans = @ + 1]
    BY <1>3, ZenonT(60)
  <2>1. PICK i \in DOMAIN streams[x] : streams' = [streams EXCEPT ![x][i].kernel_retrans = @ + 1]
    BY <2>0, ZenonT(60)
  <2> DEFINE sp == streams[x][i]
             r == [sp EXCEPT !.kernel_retrans = sp.kernel_retrans + 1]
  <2>2. streams' = [streams EXCEPT ![x][i] = r]
    BY <2>1, SMTT(30)
  <2>3. Named(sp)
    BY ListFacts, ZenonT(60)
  <2>4. Kept(sp, r)
    <3> HIDE DEF sp
    <3> QED BY <2>3, SMTT(30) DEF Kept, Named
  <2> HIDE DEF r
  <2> QED BY <1>1, <2>2, <2>4, OneStreamKeeps, ZenonT(60)
<1> QED BY <1>2, <1>3, ZenonT(60) DEF Disturb

\* The timers of a side that runs.
LEMMA TimerStep == ASSUME ListInv, NEW x \in Sides, StatsTimer(x) \/ OmitTimer(x) PROVE ListInv'
<1> DEFINE q == streams[x]
           reset == [i \in DOMAIN q |-> iperf_reset_stats(q[i], x)]
<1>1. UNCHANGED <<cfg, backlog>> /\ IsSeq(q) /\ \A i \in DOMAIN q : Named(q[i])
  BY ListFacts, ZenonT(60) DEF StatsTimer, OmitTimer
<1>2. SameList(q, WithStats(x)) /\ SameList(q, reset)
  BY <1>1, ListsSame, ZenonT(60) DEF WithStats
<1>3. SameList(q, iperf_print_intermediate(WithStats(x), FALSE))
  <2> DEFINE s == WithStats(x)
  <2>1. IsSeq(s) /\ DOMAIN s = DOMAIN q /\ \A i \in DOMAIN s : Named(s[i])
    BY <1>2, ZenonT(60) DEF SameList, Kept
  <2>2. SameList(s, iperf_print_intermediate(s, FALSE))
    BY <2>1, ListsSame, ZenonT(60)
  <2> HIDE DEF s
  <2>3. SameList(q, s)
    BY <1>2, ZenonT(60) DEF s
  <2> QED BY <2>2, <2>3, SameTrans, ZenonT(60) DEF s
<1>4. \/ streams' = [streams EXCEPT ![x] = iperf_print_intermediate(WithStats(x), FALSE)]
      \/ streams' = [streams EXCEPT ![x] = reset]
  BY ZenonT(60) DEF StatsTimer, OmitTimer
<1> HIDE DEF q, reset
<1>5. SameList(streams[x], iperf_print_intermediate(WithStats(x), FALSE)) /\ SameList(streams[x], reset)
  BY <1>2, <1>3, ZenonT(60) DEF q
<1> QED BY <1>1, <1>4, <1>5, OneSideKeeps, ZenonT(60)

\* The end of the test, and the exchange of the results.
LEMMA EndStep ==
  ASSUME ListInv, ClientEnds \/ ServerEnds \/ ServerExchanges \/ ClientShows
  PROVE  ListInv'
<1>0. "client" \in Sides /\ "server" \in Sides
  BY SMTT(30) DEF Sides
<1>1. UNCHANGED <<cfg, backlog>>
  BY ZenonT(60) DEF ClientEnds, ServerEnds, ServerExchanges, ClientShows, Fail
<1>2. ASSUME NEW x \in Sides, NEW r, NEW short
      PROVE  /\ SameList(streams[x], WithStats(x))
             /\ SameList(streams[x], iperf_print_intermediate(WithStats(x), short))
             /\ SameList(streams[x], get_results(streams[x], r))
             /\ SameList(streams[x], iperf_print_intermediate(get_results(streams[x], r), short))
  <2>1. IsSeq(streams[x]) /\ \A i \in DOMAIN streams[x] : Named(streams[x][i])
    BY ListFacts, ZenonT(60)
  <2>2. SameList(streams[x], WithStats(x)) /\ SameList(streams[x], get_results(streams[x], r))
    BY <2>1, ListsSame, ZenonT(60) DEF WithStats
  <2>3. ASSUME NEW s, SameList(streams[x], s)
        PROVE  SameList(streams[x], iperf_print_intermediate(s, short))
    <3>1. IsSeq(s) /\ \A i \in DOMAIN s : Named(s[i])
      BY <2>3, ZenonT(60) DEF SameList, Kept
    <3>2. SameList(s, iperf_print_intermediate(s, short))
      BY <3>1, ListsSame, ZenonT(60)
    <3> QED BY <2>3, <3>2, SameTrans, ZenonT(60)
  <2> QED BY <2>2, <2>3, ZenonT(60)
<1>3. \/ UNCHANGED streams
      \/ \E x \in Sides : \E r, short :
           \/ streams' = [streams EXCEPT ![x] = WithStats(x)]
           \/ streams' = [streams EXCEPT ![x] = iperf_print_intermediate(WithStats(x), short)]
           \/ streams' = [streams EXCEPT ![x] = get_results(streams[x], r)]
           \/ streams' = [streams EXCEPT ![x] =
                            iperf_print_intermediate(get_results(streams[x], r), short)]
  <2>1. CASE ClientEnds
    BY <1>0, <2>1, ZenonT(60) DEF ClientEnds
  <2>2. CASE ServerEnds
    BY <1>0, <2>2, ZenonT(60) DEF ServerEnds
  <2>3. CASE ServerExchanges
    BY <1>0, <2>3, ZenonT(60) DEF ServerExchanges, Fail
  <2>4. CASE ClientShows
    <3> DEFINE list == get_results(streams["client"], results["server"])
    <3>1. CASE KnownIds(list, results["server"])
      <4>1. PICK short : streams' = [streams EXCEPT !["client"] = iperf_print_intermediate(list, short)]
        BY <2>4, <3>1, ZenonT(60) DEF ClientShows
      <4> QED BY <1>0, <4>1, ZenonT(60)
    <3>2. CASE ~KnownIds(list, results["server"])
      BY <2>4, <3>2, ZenonT(60) DEF ClientShows, Fail
    <3> QED BY <3>1, <3>2, ZenonT(60)
  <2> QED BY <2>1, <2>2, <2>3, <2>4, ZenonT(60)
<1> QED BY <1>1, <1>2, <1>3, NoneKeeps, OneSideKeeps, ZenonT(60)

\* The client connects one more stream.
LEMMA CreateStep == ASSUME ListInv, iperf_create_streams PROVE ListInv'
<1> DEFINE q == streams["client"]
           k == Len(q) + 1
           sp == [NewStream(k, SendsOnIt(k)) EXCEPT !.id = IF q = <<>> THEN 1 ELSE Len(q) + 2]
<1>0. "client" \in Sides /\ "server" \in Sides /\ "client" # "server" /\ DOMAIN streams = Sides
  BY SMTT(30) DEF Sides, ListInv
<1>1. CASE Fail
  BY <1>1, NoneKeeps, ZenonT(60) DEF Fail
<1>2. CASE ~PortTaken(k)
  <2>1. /\ streams' = [streams EXCEPT !["client"] = Append(q, sp)] /\ backlog' = Append(backlog, k)
        /\ UNCHANGED cfg /\ k <= Wanted("client")
    BY <1>2, ZenonT(60) DEF iperf_create_streams, iperf_add_stream
  <2>2. IsSeq(q) /\ Len(q) \in Nat /\ DOMAIN q = 1 .. Len(q) /\ backlog \in Seq(Nat)
    BY <1>0, ListFacts, SeqDomain, ZenonT(60) DEF ListInv
  <2>3. /\ Named(sp) /\ sp.conn = k /\ sp.sender = SendsOnIt(k)
        /\ sp.id = IF q = <<>> THEN 1 ELSE Len(q) + 2
    BY SMTT(30) DEF NewStream, Named
  <2>4. sp.id = IdOf(k)
    <3>1. q = <<>> <=> Len(q) = 0
      BY <2>2, SMTT(30) DEF IsSeq
    <3> QED BY <2>2, <2>3, <3>1, SMTT(30) DEF IdOf
  <2> HIDE DEF sp
  <2>5. /\ IsSeq(streams'["client"]) /\ Len(streams'["client"]) = k
        /\ streams'["client"][k] = sp /\ \A i \in DOMAIN q : streams'["client"][i] = q[i]
    <3>1. streams'["client"] = Append(q, sp)
      BY <1>0, <2>1, ZenonT(60)
    <3>2. Longer(q, sp, Append(q, sp))
      <4> HIDE DEF q
      <4> QED BY <2>2, Appended, ZenonT(60)
    <3> QED BY <3>1, <3>2, ZenonT(60) DEF Longer
  <2>6. streams'["server"] = streams["server"] /\ DOMAIN streams' = Sides
    BY <1>0, <2>1, ZenonT(60)
  <2>7. \A x, i : Sender(x, i) <=> Sender(x, i)'
    BY <2>1, ZenonT(60) DEF Sender, SendsOnIt
  <2>8. ListOf("client")'
    <3>1. DOMAIN streams'["client"] = 1 .. k
      BY <2>5, SeqDomain, ZenonT(60)
    <3>2. ASSUME NEW i \in 1 .. k PROVE Entry(streams'["client"][i], i, Sender("client", i)')
      <4>1. CASE i = k
        <5>1. sp.sender \in BOOLEAN /\ (sp.sender <=> Sender("client", i))
          BY <2>3, <4>1, ZenonT(60) DEF Sender, SendsOnIt
        <5>2. Named(sp) /\ sp.conn = i /\ sp.id = IdOf(i) /\ streams'["client"][i] = sp
          BY <2>3, <2>4, <2>5, <4>1, ZenonT(60)
        <5>3. Entry(sp, i, Sender("client", i)')
          BY <2>7, <5>1, <5>2, ZenonT(60) DEF Entry
        <5> QED BY <5>2, <5>3, ZenonT(60)
      <4>2. CASE i \in DOMAIN q
        <5>1. Entry(q[i], i, Sender("client", i))
          BY <1>0, <4>2, ZenonT(60) DEF ListInv, ListOf
        <5>2. Entry(q[i], i, Sender("client", i)')
          BY <2>7, <5>1, ZenonT(60) DEF Entry
        <5>3. streams'["client"][i] = q[i]
          BY <2>5, <4>2, ZenonT(60)
        <5> QED BY <5>2, <5>3, ZenonT(60)
      <4>3. i = k \/ i \in DOMAIN q
        BY <2>2, SMTT(30)
      <4> QED BY <4>1, <4>2, <4>3, ZenonT(60)
    <3> QED BY <2>5, <3>1, <3>2, ZenonT(60) DEF ListOf
  <2>9. ListOf("server")'
    <3>1. ListOf("server")
      BY <1>0, ZenonT(60) DEF ListInv
    <3>2. \A i \in DOMAIN streams["server"] : Entry(streams["server"][i], i, Sender("server", i)')
      BY <2>7, <3>1, ZenonT(60) DEF ListOf, Entry
    <3> QED BY <2>6, <3>1, <3>2, ZenonT(60) DEF ListOf
  <2>10. /\ backlog' \in Seq(Nat) /\ Len(backlog') = Len(backlog) + 1 /\ backlog'[Len(backlog) + 1] = k
         /\ \A j \in 1 .. Len(backlog) : backlog'[j] = backlog[j]
    <3>1. k \in Nat
      BY <2>2, SMTT(30)
    <3> HIDE DEF k
    <3> QED BY <2>1, <2>2, <3>1, SMTT(30)
  <2>11. Len(streams["server"]) \in Nat /\ Len(backlog) \in Nat /\ Len(q) \in Nat
    BY <1>0, <2>2, ListFacts, SeqDomain, SMTT(30)
  <2>12. /\ Len(streams'["server"]) + Len(backlog') = Len(streams'["client"])
         /\ \A j \in 1 .. Len(backlog') : backlog'[j] = Len(streams'["server"]) + j
    <3>1. /\ Len(streams["server"]) + Len(backlog) = Len(q)
          /\ \A j \in 1 .. Len(backlog) : backlog[j] = Len(streams["server"]) + j
      BY ZenonT(60) DEF ListInv
    <3>2. ASSUME NEW j \in 1 .. Len(backlog) + 1 PROVE backlog'[j] = Len(streams["server"]) + j
      <4>1. CASE j \in 1 .. Len(backlog)
        BY <2>10, <3>1, <4>1, ZenonT(60)
      <4>2. CASE j = Len(backlog) + 1
        <5>1. backlog'[j] = Len(q) + 1
          BY <2>10, <4>2, ZenonT(60)
        <5>2. Len(q) + 1 = Len(streams["server"]) + j
          BY <2>11, <3>1, <4>2, OneMore, ZenonT(60)
        <5> QED BY <5>1, <5>2, ZenonT(60)
      <4> QED BY <2>11, <4>1, <4>2, SMTT(30)
    <3>3. Len(streams'["server"]) + Len(backlog') = Len(streams'["client"])
      <4>1. Len(streams'["client"]) = Len(q) + 1 /\ Len(streams'["server"]) = Len(streams["server"])
        BY <2>5, <2>6, ZenonT(60)
      <4>2. Len(streams["server"]) + (Len(backlog) + 1) = Len(q) + 1
        BY <2>11, <3>1, OneMore, ZenonT(60)
      <4> QED BY <2>10, <4>1, <4>2, ZenonT(60)
    <3> QED BY <2>6, <2>10, <3>2, <3>3, ZenonT(60)
  <2>13. Len(streams'["client"]) <= Wanted("client")'
    BY <2>1, <2>5, ZenonT(60) DEF Wanted, Mode
  <2>14. \A x \in Sides : ListOf(x)'
    BY <2>8, <2>9, ZenonT(60) DEF Sides
  <2> QED BY <2>1, <2>6, <2>10, <2>12, <2>13, <2>14, ZenonT(60) DEF ListInv
<1> QED BY <1>1, <1>2, ZenonT(60) DEF iperf_create_streams

\* What waits in the backlog: the next connection comes first.
LEMMA BacklogFacts ==
  ASSUME NEW q \in Seq(Nat), q # <<>>, NEW a \in Nat, NEW c \in Nat, a + Len(q) = c,
         \A j \in 1 .. Len(q) : q[j] = a + j
  PROVE  /\ Head(q) = a + 1 /\ Tail(q) \in Seq(Nat) /\ (a + 1) + Len(Tail(q)) = c /\ a + 1 <= c
         /\ \A j \in 1 .. Len(Tail(q)) : Tail(q)[j] = (a + 1) + j
<1>1. Len(q) \in Nat \ {0} /\ Tail(q) \in Seq(Nat) /\ Len(Tail(q)) = Len(q) - 1 /\ Head(q) = q[1]
  BY SMTT(30)
<1>2. ASSUME NEW j \in 1 .. Len(Tail(q)) PROVE Tail(q)[j] = (a + 1) + j
  <2>1. Tail(q)[j] = q[j + 1]
    BY <1>1, SMTT(30)
  <2>2. j + 1 \in 1 .. Len(q)
    BY <1>1, SMTT(30)
  <2>3. q[j + 1] = a + (j + 1)
    BY <2>2, ZenonT(60)
  <2>4. a + (j + 1) = (a + 1) + j
    BY <1>1, SMTT(30)
  <2> QED BY <2>1, <2>3, <2>4, ZenonT(60)
<1>3. 1 \in 1 .. Len(q)
  BY <1>1, SMTT(30)
<1>4. Head(q) = a + 1
  BY <1>1, <1>3, ZenonT(60)
<1> DEFINE n == Len(q)
<1>5. (a + 1) + (n - 1) = c /\ a + 1 <= c
  <2>1. n \in Nat \ {0} /\ a + n = c
    BY <1>1, SMTT(30)
  <2> HIDE DEF n
  <2> QED BY <2>1, SMTT(30)
<1> QED BY <1>1, <1>2, <1>4, <1>5, ZenonT(60)

\* The server makes its streams in the order of the connections: with n of
\* them made, it takes the next one as a sender where the client receives.
LEMMA AcceptsPeer ==
  ASSUME cfg \in Configs, NEW n \in Nat, n + 1 <= Wanted("client")
  PROVE  AcceptsSender(n) \in BOOLEAN /\ (AcceptsSender(n) <=> Sender("server", n + 1))
<1>1. cfg.mode \in {"SENDER", "RECEIVER", "BIDIRECTIONAL"} /\ cfg.num_streams \in Nat \ {0}
  BY ConfigsAssumption, SMTT(30) DEF ConfigType
<1>2. CASE cfg.mode = "SENDER"
  BY <1>1, <1>2, SMTT(30) DEF AcceptsSender, Sender, SendsOnIt, Mode, Wanted
<1>3. CASE cfg.mode = "RECEIVER"
  BY <1>1, <1>3, SMTT(30) DEF AcceptsSender, Sender, SendsOnIt, Mode, Wanted
<1>4. CASE cfg.mode = "BIDIRECTIONAL"
  BY <1>1, <1>4, SMTT(30) DEF AcceptsSender, Sender, SendsOnIt, Mode, Wanted
<1> QED BY <1>1, <1>2, <1>3, <1>4, ZenonT(60)

\* The server accepts the next connection.
LEMMA AcceptStep == ASSUME ListInv, ServerAccepts PROVE ListInv'
<1> DEFINE q == streams["server"]
           k == Len(q) + 1
           c == Len(streams["client"])
           sp == [NewStream(Head(backlog), AcceptsSender(Len(q))) EXCEPT
                    !.id = IF q = <<>> THEN 1 ELSE Len(q) + 2]
<1>0. "client" \in Sides /\ "server" \in Sides /\ "client" # "server" /\ DOMAIN streams = Sides
  BY DEF Sides, ListInv
<1>1. /\ streams' = [streams EXCEPT !["server"] = Append(q, sp)] /\ backlog' = Tail(backlog)
      /\ UNCHANGED cfg /\ backlog # <<>>
  BY ZenonT(60) DEF ServerAccepts, iperf_add_stream
<1>2. /\ IsSeq(q) /\ Len(q) \in Nat /\ DOMAIN q = 1 .. Len(q) /\ backlog \in Seq(Nat)
      /\ c \in Nat /\ Len(q) + Len(backlog) = c
      /\ \A j \in 1 .. Len(backlog) : backlog[j] = Len(q) + j
      /\ c <= Wanted("client") /\ cfg \in Configs
  BY <1>0, ListFacts, SeqDomain, ZenonT(60) DEF ListInv
<1>3. /\ Head(backlog) = k /\ Tail(backlog) \in Seq(Nat) /\ k + Len(Tail(backlog)) = c /\ k <= c
      /\ \A j \in 1 .. Len(Tail(backlog)) : Tail(backlog)[j] = k + j
  BY <1>1, <1>2, BacklogFacts, ZenonT(60)
<1>4. k <= Wanted("client")
  <2>1. Wanted("client") \in Nat
    BY <1>2, ConfigsAssumption, SMTT(30) DEF ConfigType, Wanted
  <2> DEFINE w == Wanted("client")
             m == Len(q)
  <2>2. w \in Nat /\ m \in Nat /\ c \in Nat /\ m + 1 <= c /\ c <= w
    BY <1>2, <1>3, <2>1, ZenonT(60)
  <2>3. m + 1 <= w
    <3> HIDE DEF w, m, c
    <3> QED BY <2>2, SMTT(30)
  <2> QED BY <2>3, ZenonT(60)
<1>5. /\ AcceptsSender(Len(q)) \in BOOLEAN
      /\ AcceptsSender(Len(q)) <=> Sender("server", k)
  BY <1>2, <1>4, AcceptsPeer, ZenonT(60)
<1>6. /\ Named(sp) /\ sp.conn = k /\ sp.sender = AcceptsSender(Len(q))
      /\ sp.id = IF q = <<>> THEN 1 ELSE Len(q) + 2
  BY <1>3, SMTT(30) DEF NewStream, Named
<1>7. sp.id = IdOf(k)
  <2>1. q = <<>> <=> Len(q) = 0
    BY <1>2, SMTT(30) DEF IsSeq
  <2> QED BY <1>2, <1>6, <2>1, SMTT(30) DEF IdOf
<1> HIDE DEF sp
<1>8. /\ IsSeq(streams'["server"]) /\ Len(streams'["server"]) = k
      /\ streams'["server"][k] = sp /\ \A i \in DOMAIN q : streams'["server"][i] = q[i]
  <2>1. streams'["server"] = Append(q, sp)
    BY <1>0, <1>1, ZenonT(60)
  <2>2. Longer(q, sp, Append(q, sp))
    <3> HIDE DEF q
    <3> QED BY <1>2, Appended, ZenonT(60)
  <2> QED BY <2>1, <2>2, ZenonT(60) DEF Longer
<1>9. streams'["client"] = streams["client"] /\ DOMAIN streams' = Sides
  BY <1>0, <1>1, ZenonT(60)
<1>10. \A x, i : Sender(x, i) <=> Sender(x, i)'
  BY <1>1, ZenonT(60) DEF Sender, SendsOnIt
<1>11. ListOf("server")'
  <2>1. DOMAIN streams'["server"] = 1 .. k
    BY <1>8, SeqDomain, ZenonT(60)
  <2>2. ASSUME NEW i \in 1 .. k PROVE Entry(streams'["server"][i], i, Sender("server", i)')
    <3>1. CASE i = k
      <4>1. sp.sender \in BOOLEAN /\ (sp.sender <=> Sender("server", i))
        BY <1>5, <1>6, <3>1, ZenonT(60)
      <4>2. Named(sp) /\ sp.conn = i /\ sp.id = IdOf(i) /\ streams'["server"][i] = sp
        BY <1>6, <1>7, <1>8, <3>1, ZenonT(60)
      <4>3. Entry(sp, i, Sender("server", i)')
        BY <1>10, <4>1, <4>2, ZenonT(60) DEF Entry
      <4> QED BY <4>2, <4>3, ZenonT(60)
    <3>2. CASE i \in DOMAIN q
      <4>1. Entry(q[i], i, Sender("server", i))
        BY <1>0, <3>2, ZenonT(60) DEF ListInv, ListOf
      <4>2. Entry(q[i], i, Sender("server", i)')
        BY <1>10, <4>1, ZenonT(60) DEF Entry
      <4>3. streams'["server"][i] = q[i]
        BY <1>8, <3>2, ZenonT(60)
      <4> QED BY <4>2, <4>3, ZenonT(60)
    <3>3. i = k \/ i \in DOMAIN q
      BY <1>2, SMTT(30)
    <3> QED BY <3>1, <3>2, <3>3, ZenonT(60)
  <2> QED BY <1>8, <2>1, <2>2, ZenonT(60) DEF ListOf
<1>12. ListOf("client")'
  <2>1. ListOf("client")
    BY <1>0, ZenonT(60) DEF ListInv
  <2>2. \A i \in DOMAIN streams["client"] : Entry(streams["client"][i], i, Sender("client", i)')
    BY <1>10, <2>1, ZenonT(60) DEF ListOf, Entry
  <2> QED BY <1>9, <2>1, <2>2, ZenonT(60) DEF ListOf
<1>13. /\ Len(streams'["server"]) + Len(backlog') = Len(streams'["client"])
       /\ \A j \in 1 .. Len(backlog') : backlog'[j] = Len(streams'["server"]) + j
  BY <1>1, <1>3, <1>8, <1>9, ZenonT(60)
<1>14. Len(streams'["client"]) <= Wanted("client")'
  BY <1>1, <1>2, <1>9, ZenonT(60) DEF Wanted, Mode
<1>15. \A x \in Sides : ListOf(x)'
  BY <1>11, <1>12, ZenonT(60) DEF Sides
<1>16. cfg' \in Configs /\ backlog' \in Seq(Nat)
  BY <1>1, <1>2, <1>3, ZenonT(60)
<1> QED BY <1>9, <1>13, <1>14, <1>15, <1>16, ZenonT(60) DEF ListInv
-------------------------------------------------------------------------------
\* Before the first connection both lists are empty.
LEMMA ListsStart == Init => ListInv
<1> SUFFICES ASSUME Init PROVE ListInv
  BY SMTT(30)
<1>1. cfg \in Configs /\ DOMAIN streams = Sides /\ \A x \in Sides : streams[x] = <<>>
  BY ZenonT(60) DEF Init
<1>2. Len(streams["server"]) = 0 /\ Len(streams["client"]) = 0 /\ backlog = <<>>
  BY <1>1, SMTT(30) DEF Init, Sides
<1>3. \A x \in Sides : ListOf(x)
  <2>1. IsSeq(<<>>) /\ DOMAIN <<>> = {}
    BY SMTT(30) DEF IsSeq
  <2> QED BY <1>1, <2>1, ZenonT(60) DEF ListOf
<1>4. Wanted("client") \in Nat
  BY <1>1, ConfigsAssumption, SMTT(30) DEF ConfigType, Wanted
<1> QED BY <1>1, <1>2, <1>3, <1>4, SMTT(30) DEF ListInv

\* No step of either end, of the network or of a timer disturbs the lists.
LEMMA ListSteps == ListInv /\ [Next]_vars => ListInv'
<1> SUFFICES ASSUME ListInv, [Next]_vars PROVE ListInv'
  BY SMTT(30)
<1>1. CASE iperf_create_streams
  BY <1>1, CreateStep, ZenonT(60)
<1>2. CASE ConnectTimesOut \/ ClientStarts \/ ClientSendsResults \/ UNCHANGED vars
  BY <1>2, NoneKeeps, ZenonT(60) DEF ConnectTimesOut, Fail, ClientStarts, ClientSendsResults, vars
<1>3. CASE ServerAccepts
  BY <1>3, AcceptStep, ZenonT(60)
<1>4. ASSUME NEW x \in Sides,
             (\E i \in DOMAIN streams[x] : Send(x, i) \/ Recv(x, i)) \/ StatsTimer(x) \/ OmitTimer(x)
      PROVE  ListInv'
  BY <1>4, SendStep, RecvStep, TimerStep, ZenonT(60)
<1>5. CASE \E c \in DOMAIN net : Disturb(c)
  BY <1>5, DisturbStep, ZenonT(60)
<1>6. CASE ClientEnds \/ ServerEnds \/ ServerExchanges \/ ClientShows
  BY <1>6, EndStep, ZenonT(60)
<1> QED BY <1>1, <1>2, <1>3, <1>4, <1>5, <1>6, ZenonT(60) DEF Next

\* Lists of the first connections, in order, pair the streams by number.
LEMMA ListsPair == ListInv => StreamsPaired
<1> SUFFICES ASSUME ListInv PROVE StreamsPaired
  BY SMTT(30)
<1>1. "client" \in Sides /\ "server" \in Sides /\ "client" # "server"
  BY SMTT(30) DEF Sides
<1>2. \A x \in Sides : \A i \in DOMAIN streams[x] :
        i \in Nat \ {0} /\ Entry(streams[x][i], i, Sender(x, i))
  <2> SUFFICES ASSUME NEW x \in Sides, NEW i \in DOMAIN streams[x] PROVE i \in Nat \ {0}
    BY ZenonT(60) DEF ListInv, ListOf
  <2>1. Len(streams[x]) \in Nat /\ i \in 1 .. Len(streams[x])
    BY ListFacts, SeqDomain, ZenonT(60)
  <2> QED BY <2>1, SMTT(30)
<1>3. ASSUME NEW i \in Nat \ {0}, NEW j \in Nat \ {0} PROVE IdOf(i) = IdOf(j) <=> i = j
  BY SMTT(30) DEF IdOf
<1>4. ASSUME NEW x \in Sides, NEW i \in DOMAIN streams[x], NEW j \in DOMAIN streams[x], i # j
      PROVE  streams[x][i].id # streams[x][j].id
  <2>1. streams[x][i].id = IdOf(i) /\ streams[x][j].id = IdOf(j) /\ i \in Nat \ {0} /\ j \in Nat \ {0}
    BY <1>2, ZenonT(60) DEF Entry
  <2> QED BY <1>3, <1>4, <2>1, ZenonT(60)
<1>5. ASSUME NEW c \in ToSet(streams["client"]), NEW s \in ToSet(streams["server"])
      PROVE  (c.conn = s.conn <=> c.id = s.id) /\ (c.conn = s.conn => c.sender # s.sender)
  <2>1. PICK i \in DOMAIN streams["client"] : c = streams["client"][i]
    BY ZenonT(60) DEF ToSet
  <2>2. PICK j \in DOMAIN streams["server"] : s = streams["server"][j]
    BY ZenonT(60) DEF ToSet
  <2>3. i \in Nat \ {0} /\ Entry(c, i, Sender("client", i))
    BY <1>1, <1>2, <2>1, ZenonT(60)
  <2>4. j \in Nat \ {0} /\ Entry(s, j, Sender("server", j))
    BY <1>1, <1>2, <2>2, ZenonT(60)
  <2>5. c.conn = s.conn <=> c.id = s.id
    BY <1>3, <2>3, <2>4, ZenonT(60) DEF Entry
  <2>6. c.conn = s.conn => c.sender # s.sender
    BY <1>1, <2>3, <2>4, ZenonT(60) DEF Entry, Sender
  <2> QED BY <2>5, <2>6, ZenonT(60)
<1> QED BY <1>4, <1>5, ZenonT(60) DEF StreamsPaired

\* For any number of streams, in all three directions of a test: a stream has
\* one number, the same at both ends, which no other stream has, and where
\* iperf_create_streams makes it a sender iperf_accept makes it a receiver.
THEOREM StreamsAlwaysPaired == Spec => []StreamsPaired
<1>1. Init => ListInv
  BY ListsStart, SMTT(30)
<1>2. ListInv /\ [Next]_vars => ListInv'
  BY ListSteps, SMTT(30)
<1>3. ListInv => StreamsPaired
  BY ListsPair, SMTT(30)
<1> QED BY <1>1, <1>2, <1>3, PTL DEF Spec
===============================================================================
