----------------------------- MODULE MCTaskLoop -----------------------------
(* TaskLoop with its bounds; the instances are in the TaskLoop_*.cfg files.  *)
EXTENDS TaskLoop
=============================================================================
