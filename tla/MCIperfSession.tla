--------------------------- MODULE MCIperfSession ---------------------------
(* The module TLC runs; the .cfg files choose the user and the bounds.     *)
EXTENDS IperfSession
=============================================================================
