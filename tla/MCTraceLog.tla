----------------------------- MODULE MCTraceLog -----------------------------
(* TraceLog with the constants of the .cfg files beside it.                *)
EXTENDS TraceLog
=============================================================================
