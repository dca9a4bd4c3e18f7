----------------------------- MODULE MCTaskLock -----------------------------
(* TaskLock on small instances; the processes are given by the cfg.          *)
EXTENDS TaskLock
=============================================================================
