------------------------------ MODULE Settings ------------------------------
(***************************************************************************)
(* The settings of an iperf test: from the client's command line, option   *)
(* by option, to its struct iperf_test, in the parameter message to a      *)
(* server that has already served other clients, and what the server keeps *)
(* of them for the next one.                                               *)
(*                                                                         *)
(* A number is 0, 1 or 2: unset, allowed, and beyond the limit of an       *)
(* option that has one.  Text is 1 when it is there.                       *)
(***************************************************************************)
EXTENDS Naturals

CONSTANTS
  MaxOptions,   \* bound: options of a command line, without -c
  MaxTests      \* bound: tests the server serves

VARIABLES
  test,     \* the client's struct iperf_test
  flags,    \* locals of iperf_parse_arguments
  given,    \* options parsed
  phase,    \* of the client: "options", "connected", "running", "streaming"
  server,   \* the server's struct iperf_test
  tests     \* tests the server has served

vars == <<test, flags, given, phase, server, tests>>

DURATION == 3
UDP_RATE == 3

\* Block sizes: 1 is below MIN_UDP_BLOCKSIZE, 3 beyond MAX_UDP_BLOCKSIZE and
\* 4 beyond MAX_BLOCKSIZE.
DEFAULT_TCP_BLKSIZE == 3
DEFAULT_UDP_BLKSIZE == 2

-----------------------------------------------------------------------------
(* The struct.                                                             *)

iperf_defaults ==
  [role |-> "none", protocol |-> "tcp", mode |-> "RECEIVER", sender_has_retransmits |-> 0,
   reverse |-> 0, bidirectional |-> 0, omit |-> 0, duration |-> DURATION, bytes |-> 0,
   blocks |-> 0, num_streams |-> 1, blksize |-> DEFAULT_TCP_BLKSIZE, rate |-> 0, burst |-> 0,
   mss |-> 0, no_delay |-> 0, socket_bufsize |-> 0, tos |-> 0, pacing_timer |-> 3,
   title |-> 0, extra_data |-> 0, get_server_output |-> 0, udp_counters_64bit |-> 0,
   repeating_payload |-> 0]

check_sender_has_retransmits(t) ==
  [t EXCEPT !.sender_has_retransmits = IF t.mode # "RECEIVER" /\ t.protocol = "tcp" THEN 1 ELSE 0]

\* The mode of role and reverse; before the role is known it stays.
ModeOf(t) ==
  CASE t.role = "none" -> t.mode
    [] (t.role = "c") = (t.reverse = 0) /\ t.role # "none" -> "SENDER"
    [] OTHER -> "RECEIVER"

iperf_set_test_role(t, role) ==
  LET u == [t EXCEPT !.role = role]
  IN  check_sender_has_retransmits([u EXCEPT !.mode = ModeOf(u)])

iperf_set_test_reverse(t) ==
  LET u == [t EXCEPT !.reverse = 1]
  IN  check_sender_has_retransmits([u EXCEPT !.mode = ModeOf(u)])

iperf_set_test_bidirectional(t) == [t EXCEPT !.bidirectional = 1, !.mode = "BIDIRECTIONAL"]

set_protocol(t, prot) == check_sender_has_retransmits([t EXCEPT !.protocol = prot])

-----------------------------------------------------------------------------
(* iperf_parse_arguments.                                                  *)

NoFlags == [server |-> FALSE, client |-> FALSE, rate |-> FALSE, duration |-> FALSE, blksize |-> 0]

Init ==
  /\ test = iperf_defaults /\ flags = NoFlags /\ given = 0
  /\ phase = "options"
  /\ server = iperf_set_test_role(iperf_defaults, "s")
  /\ tests = 0

\* A command line that is refused; another client comes.
Reject ==
  /\ test' = iperf_defaults /\ flags' = NoFlags /\ given' = 0
  /\ UNCHANGED <<phase, server, tests>>

Take(t, f) ==
  /\ phase = "options" /\ given < MaxOptions
  /\ test' = t /\ flags' = f /\ given' = given + 1
  /\ UNCHANGED <<phase, server, tests>>

ClientFlag == [flags EXCEPT !.client = TRUE]

\* -s, and -c, which is not counted.
RoleOption(role) ==
  /\ phase = "options" /\ tests < MaxTests
  /\ IF test.role \notin {"none", role} THEN Reject
     ELSE /\ test' = iperf_set_test_role(test, role)
          /\ UNCHANGED <<flags, given, phase, server, tests>>

\* -D, -1, -I
ServerOption == Take(test, [flags EXCEPT !.server = TRUE])

\* A value that is refused, or an option this build does not have (-L, -A,
\* -C, --fq-rate).  A value that -p, -f, -i, --cport, -V, -J, -B, -4, -6, -F,
\* -d or --logfile accept only matters to this side.
RefusedOption == phase = "options" /\ given < MaxOptions /\ Reject

\* -u
ProtocolOption == Take(set_protocol(test, "udp"), ClientFlag)

\* -b rate[/burst]
RateOption(rate, burst) ==
  IF burst \in {0, 2} THEN RefusedOption
  ELSE Take([test EXCEPT !.rate = rate, !.burst = IF burst = 1 THEN 1 ELSE @],
            [ClientFlag EXCEPT !.rate = TRUE])

\* -t, -P, -w, -M, -S and --dscp, -O: fields with a limit.
LimitedFields == {"duration", "num_streams", "socket_bufsize", "mss", "tos", "omit"}

Allowed(v) == v < 2

LimitedOption(f, v) ==
  IF ~Allowed(v) THEN RefusedOption
  ELSE Take([test EXCEPT ![f] = v],
            IF f = "duration" THEN [ClientFlag EXCEPT !.duration = TRUE] ELSE ClientFlag)

\* -n, -k, --pacing-timer
NumberOption(f, v) == Take([test EXCEPT ![f] = v], ClientFlag)

\* -l
BlockSizeOption(v) == Take(test, [ClientFlag EXCEPT !.blksize = v])

\* -R and --bidir
DirectionOption(f) ==
  IF (f = "reverse" /\ test.bidirectional = 1) \/ (f = "bidirectional" /\ test.reverse = 1)
  THEN RefusedOption
  ELSE Take(IF f = "reverse" THEN iperf_set_test_reverse(test)
            ELSE iperf_set_test_bidirectional(test), ClientFlag)

\* -N, -T, --extra-data, --get-server-output, --repeating-payload and, for
\* either role, --udp-counters-64bit
SwitchOption(f) ==
  Take([test EXCEPT ![f] = 1], IF f = "udp_counters_64bit" THEN flags ELSE ClientFlag)

Option ==
  \/ \E role \in {"c", "s"} : RoleOption(role)
  \/ ServerOption \/ RefusedOption \/ ProtocolOption
  \/ \E rate \in 0 .. 1, burst \in 0 .. 3 : RateOption(rate, burst)
  \/ \E f \in LimitedFields, v \in 0 .. 2 : LimitedOption(f, v)
  \/ \E f \in {"bytes", "blocks", "pacing_timer"}, v \in 0 .. 1 : NumberOption(f, v)
  \/ \E v \in 0 .. 4 : BlockSizeOption(v)
  \/ \E f \in {"reverse", "bidirectional"} : DirectionOption(f)
  \/ \E f \in {"no_delay", "title", "extra_data", "get_server_output", "udp_counters_64bit",
               "repeating_payload"} : SwitchOption(f)

\* The checks after the last option.
Blksize ==
  IF flags.blksize # 0 THEN flags.blksize
  ELSE IF test.protocol = "udp" THEN 0 ELSE DEFAULT_TCP_BLKSIZE

Duration ==
  IF (test.bytes # 0 \/ test.blocks # 0) /\ ~flags.duration THEN 0 ELSE test.duration

Consistent ==
  /\ ~(test.role = "c" /\ flags.server)
  /\ ~(test.role = "s" /\ flags.client)
  /\ Blksize < 4
  /\ test.protocol = "udp" => Blksize \in {0, 2}
  /\ ~(flags.duration /\ (test.bytes # 0 \/ test.blocks # 0))
  /\ ~(test.bytes # 0 /\ test.blocks # 0)
  /\ test.role # "none"

\* The rest of iperf_parse_arguments and, at the client, iperf_connect, which
\* takes the size of a datagram from the control connection.  A process
\* that would be another server is of no interest.
Connect ==
  /\ phase = "options"
  /\ IF ~Consistent \/ test.role = "s" THEN Reject
     ELSE /\ test' = [test EXCEPT !.blksize = IF Blksize = 0 THEN DEFAULT_UDP_BLKSIZE ELSE Blksize,
                                  !.rate = IF flags.rate THEN @
                                           ELSE IF test.protocol = "udp" THEN UDP_RATE ELSE 0,
                                  !.duration = Duration]
          /\ phase' = "connected"
          /\ flags' = NoFlags /\ given' = 0
          /\ UNCHANGED <<server, tests>>

-----------------------------------------------------------------------------
(* The exchange.                                                           *)

\* The fields the message always has, and those it has unless they are 0.
Always == {"protocol", "omit", "duration", "num_streams"}
IfSet  == {"bytes", "blocks", "mss", "no_delay", "reverse", "bidirectional", "socket_bufsize",
           "blksize", "rate", "pacing_timer", "burst", "tos", "title", "extra_data",
           "get_server_output", "udp_counters_64bit", "repeating_payload"}

send_parameters(t) == [f \in Always \cup {g \in IfSet : t[g] # 0} |-> t[f]]

Received(t, j) == [f \in DOMAIN t |-> IF f \in DOMAIN j THEN j[f] ELSE t[f]]

WithMode(t, j) ==
  LET p == set_protocol(t, j.protocol)
      r == IF "reverse" \in DOMAIN j THEN iperf_set_test_reverse(p) ELSE p
  IN  IF "bidirectional" \in DOMAIN j THEN iperf_set_test_bidirectional(r) ELSE r

\* Mutant: the flag is left as set_protocol and the mode have it.
get_parameters_NoRetransmits(t, j) == Received(WithMode(t, j), j)

get_parameters(t, j) ==
  LET u == Received(WithMode(t, j), j)
  IN  IF u.mode # "RECEIVER" /\ u.protocol = "tcp" THEN [u EXCEPT !.sender_has_retransmits = 1]
      ELSE u

Exchange ==
  /\ phase = "connected"
  /\ server' = get_parameters(server, send_parameters(test))
  /\ phase' = "running"
  /\ UNCHANGED <<test, flags, given, tests>>

\* A UDP socket with the default buffer may turn out too small for a block:
\* iperf_udp_accept and iperf_udp_connect then ask for a larger one.
Larger(t, small) == [t EXCEPT !.socket_bufsize = IF small /\ @ = 0 /\ t.protocol = "udp" THEN 2 ELSE @]

CreateStreams ==
  /\ phase = "running"
  /\ \E s, c \in BOOLEAN : server' = Larger(server, s) /\ test' = Larger(test, c)
  /\ phase' = "streaming"
  /\ UNCHANGED <<flags, given, tests>>

ResetFields == {"omit", "duration", "num_streams", "reverse", "bidirectional", "no_delay",
                "socket_bufsize", "blksize", "rate", "burst", "mss", "tos",
                "udp_counters_64bit", "title", "extra_data"}

\* Mutant: the mode stays.
iperf_reset_test_KeepMode(t) ==
  [f \in DOMAIN t |-> IF f \in ResetFields \cup {"protocol", "sender_has_retransmits"}
                      THEN iperf_defaults[f] ELSE t[f]]

iperf_reset_test(t) ==
  [f \in DOMAIN t |-> IF f \in ResetFields \cup {"mode", "protocol", "sender_has_retransmits"}
                      THEN iperf_defaults[f] ELSE t[f]]

\* The test is over, and the next client comes.
EndTest ==
  /\ phase = "streaming"
  /\ server' = iperf_reset_test(server)
  /\ test' = iperf_defaults
  /\ tests' = tests + 1
  /\ phase' = "options"
  /\ UNCHANGED <<flags, given>>

Next == Option \/ Connect \/ Exchange \/ CreateStreams \/ EndTest

Spec == Init /\ [][Next]_vars

-----------------------------------------------------------------------------
Modes == {"SENDER", "RECEIVER", "BIDIRECTIONAL"}
Numbers == DOMAIN iperf_defaults \ {"role", "protocol", "mode"}

TypeOK ==
  /\ \A t \in {test, server} :
       /\ t.role \in {"none", "c", "s"} /\ t.protocol \in {"tcp", "udp"} /\ t.mode \in Modes
       /\ \A f \in Numbers : t[f] \in 0 .. 3
       /\ \A f \in LimitedFields \ {"socket_bufsize"} : t[f] # 2
  /\ phase \in {"options", "connected", "running", "streaming"}

\* The server runs the test the client asked for, whatever the client before
\* it asked for: it takes the opposite mode of the client, so that one side
\* sends what the other receives, and each setting that iperf_reset_test puts
\* back is the client's, although the message leaves out the ones that are 0.
\* No value beyond a limit is ever stored.
\* (--bidir has to come behind -c, which would take it back.)
ServerMirrors ==
  /\ TypeOK
  /\ phase = "running" =>
       /\ \A f \in ResetFields \cup {"protocol"} : server[f] = test[f]
       /\ ~(test.bidirectional = 1 /\ test.mode # "BIDIRECTIONAL") =>
            server.mode = CASE test.mode = "SENDER" -> "RECEIVER"
                            [] test.mode = "RECEIVER" -> "SENDER"
                            [] OTHER -> "BIDIRECTIONAL"

\* A side reports retransmissions exactly if it sends over TCP: the flag is
\* kept up with the mode and the protocol through all options and messages.
RetransmitsKnown ==
  phase = "running" =>
    \A t \in {test, server} :
      t.sender_has_retransmits = 1 <=> t.mode # "RECEIVER" /\ t.protocol = "tcp"
=============================================================================
