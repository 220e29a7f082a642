--------------------------- MODULE MCStreamResults ---------------------------
(***************************************************************************)
(* Instances of StreamResults for TLC.                                     *)
(***************************************************************************)
EXTENDS StreamResults

Config(udp, mode, n, omit, c64, cport) ==
  [udp |-> udp, mode |-> mode, num_streams |-> n, omit |-> omit, counters64 |-> c64,
   cport |-> cport]

\* One stream each way or two one way, over UDP and TCP.
MCConfigs ==
  {Config(TRUE, "SENDER", 1, FALSE, c64, FALSE) : c64 \in BOOLEAN}
  \cup {Config(TRUE, "RECEIVER", 1, TRUE, TRUE, TRUE),
        Config(FALSE, "SENDER", 2, FALSE, FALSE, TRUE),
        Config(FALSE, "RECEIVER", 1, TRUE, FALSE, FALSE),
        Config(FALSE, "BIDIRECTIONAL", 1, TRUE, FALSE, FALSE),
        Config(FALSE, "BIDIRECTIONAL", 1, FALSE, FALSE, TRUE)}

\* Datagrams up to the first beyond an int of 3 bits (so that the losses fit
\* in an int), or one before and one after the omitted seconds.
MCMaxBlocks(c) == IF c.mode = "BIDIRECTIONAL" THEN 1 ELSE IF ~c.udp \/ c.omit THEN 2 ELSE 4
==============================================================================
