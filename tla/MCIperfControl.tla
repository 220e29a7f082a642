--------------------------- MODULE MCIperfControl ---------------------------
(* The control protocol on small instances. *)
EXTENDS IperfControl, TLC

\* The clients are interchangeable in every definition of the model.
ClientSymmetry == Permutations(Clients)
=============================================================================
