----------------------------- MODULE TestService -----------------------------
(***************************************************************************)
(* What the iperf server promises, without connections or messages: it     *)
(* serves one client at a time, and a client's run succeeds only after the *)
(* results of its own test were collected.                                 *)
(***************************************************************************)
CONSTANTS
  Clients,   \* the clients; each runs one test
  NoClient   \* not a client

VARIABLES
  owner,      \* the client whose test the server serves, or NoClient
  phase,      \* how far that test is
  collected,  \* clients whose results the server has collected
  outcome     \* per client, how its run ended

svars == <<owner, phase, collected, outcome>>

SInit ==
  /\ owner = NoClient /\ phase = "free"
  /\ collected = {}
  /\ outcome = [c \in Clients |-> "none"]

\* A free server takes a client.
Begin(c) ==
  /\ owner = NoClient
  /\ owner' = c /\ phase' = "setup"
  /\ UNCHANGED <<collected, outcome>>

\* All streams are there: the test runs.
Run ==
  /\ phase = "setup" /\ phase' = "running"
  /\ UNCHANGED <<owner, collected, outcome>>

\* The test is over, and its results are the owner's.
Collect ==
  /\ phase = "running" /\ phase' = "done"
  /\ collected' = collected \cup {owner}
  /\ UNCHANGED <<owner, outcome>>

\* The server is free again, from any phase.
Release ==
  /\ owner # NoClient
  /\ owner' = NoClient /\ phase' = "free"
  /\ UNCHANGED <<collected, outcome>>

Succeed(c) ==
  /\ outcome[c] = "none" /\ c \in collected
  /\ outcome' = [outcome EXCEPT ![c] = "ok"]
  /\ UNCHANGED <<owner, phase, collected>>

GiveUp(c) ==
  /\ outcome[c] = "none"
  /\ outcome' = [outcome EXCEPT ![c] = "failed"]
  /\ UNCHANGED <<owner, phase, collected>>

SNext ==
  \/ Run \/ Collect \/ Release
  \/ \E c \in Clients : Begin(c) \/ Succeed(c) \/ GiveUp(c)

SSpec == SInit /\ [][SNext]_svars
==============================================================================
