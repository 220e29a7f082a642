------------------------------- MODULE MCTimers -------------------------------
(***************************************************************************)
(* Instances of Timers for TLC: a second has two microseconds.             *)
(***************************************************************************)
EXTENDS Timers

\* A client with and without omitted seconds, pacing and an end; a server
\* that receives.
MCTests ==
  [server : {FALSE}, duration : {0, 1}, omit : {0, 1}, stats : {2}, reporter : {3},
   paced : {{}, Streams}]
  \cup [server : {FALSE}, duration : {1}, omit : {0}, stats : {2}, reporter : {0},
        paced : {Streams}]
  \cup [server : {TRUE}, duration : {1}, omit : {0, 1}, stats : {2}, reporter : {3},
        paced : {{}}]

\* A server that sends at a limited rate.
MCServerSends ==
  [server : {TRUE}, duration : {1}, omit : {0}, stats : {3}, reporter : {0}, paced : {Streams}]
==============================================================================
