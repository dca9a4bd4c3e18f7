------------------------------ MODULE MCChildren ------------------------------
(***************************************************************************)
(* Children with two executor runs and an acceptance command of one task,  *)
(* and two process ids, so that ids are used again.                        *)
(***************************************************************************)
EXTENDS Children

CONSTANTS e1, e2, a1, t

MCTaskOf == [r \in {e1, e2, a1} |-> t]

\* Process ids are alike: it is enough to follow the behaviours in which the
\* first is used first.  The executors differ in what their adapters make of a
\* run's end, and of their two orders one is followed.
InOrder ==
  /\ state[e2] # "new" => state[e1] # "new"
  /\ (\E r \in Runs : pid[r] = 2) => (\E r \in Runs : pid[r] = 1)
=============================================================================
