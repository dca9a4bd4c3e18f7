---------------------------- MODULE MCScheduler ----------------------------
\* Scheduler on small instances; tasks and interventions come from the cfg.
EXTENDS Scheduler
=============================================================================
