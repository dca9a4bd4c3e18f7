---------------------------- MODULE ChildrenProofs ----------------------------
(***************************************************************************)
(* Proofs about Children, for any set of runs, tasks and process ids, any  *)
(* number of deaths of the owner and of uses of the operator's commands.   *)
(*                                                                         *)
(* The inductive invariant has four parts.  Processes says which states a  *)
(* run with a live process can be in and that it has its handle; OneRun,   *)
(* that a task has one run under way; Requests, that a run whose           *)
(* cancellation has been noted is still noted, by its owner or in its      *)
(* handle, until it is reported; and the types.                            *)
(***************************************************************************)
EXTENDS Children, TLAPS

Processes ==
  \A r \in Runs :
    /\ Alive(r) => state[r] \in {"running", "lost"} /\ handle[r] # "none"
    /\ state[r] = "running" => pid[r] # NoPid
    /\ state[r] \in {"new", "announced"} => handle[r] = "none"
    /\ killer[r] = "killed" => exit[r] # "none"
    /\ state[r] = "lost" => deaths # 0

OneRun ==
  \A r, s \in Runs :
    /\ state[r] \in {"announced", "running"} /\ state[s] \in {"announced", "running"}
    /\ TaskOf[r] = TaskOf[s]
    => r = s

\* What CancelledIsReported says of one run.
ReportedAsAsked(r) ==
  \/ result[r] \in {"cancelled", "not_spawned"}
  \/ r \in TimerFirst /\ result[r] = "timed_out"

Requests ==
  /\ \A r \in Runs : killer[r] # "off" => r \in requested \/ state[r] \in {"over", "lost"}
  /\ cli.at # "idle" => state[cli.run] \notin {"new", "announced"}
  /\ \A r \in asked :
       /\ state[r] # "new"
       /\ state[r] = "announced" => r \in requested
       /\ state[r] = "running" => r \in requested \/ handle[r] = "cancelled"
       /\ state[r] = "over" => ReportedAsAsked(r)

ChildInv == TypeOK /\ Processes /\ OneRun /\ Requests

-----------------------------------------------------------------------------
\* SIGKILL to a process id: exits stay exits, and whoever has the id is gone.
LEMMA KillEnds ==
  ASSUME TypeOK, NEW p, KillAt(p), UNCHANGED pid
  PROVE  /\ exit' \in [Runs -> {"none", "zero", "nonzero"}]
         /\ \A r \in Runs : exit[r] # "none" => exit'[r] # "none"
         /\ \A r \in Runs : pid[r] = p /\ p # NoPid => exit'[r] # "none"
         /\ \A r \in Runs : Alive(r)' => Alive(r)
  BY DEF TypeOK, KillAt, Holders, Alive

\* There is no run, no process and no handle in the beginning.
LEMMA InitChildInv == Init => ChildInv
<1> SUFFICES ASSUME Init PROVE ChildInv
  OBVIOUS
<1>1. TypeOK
  BY DEF Init, TypeOK, IdleCli
<1>2. Processes /\ OneRun /\ Requests
  BY DEF Init, Processes, OneRun, Requests, Alive, IdleCli
<1> QED
  BY <1>1, <1>2 DEF ChildInv

-----------------------------------------------------------------------------
\* Only tasks have chains.
LEMMA BeginIsOfTask ==
  ASSUME TypeOK, NEW r \in Runs, Begin(r)
  PROVE  state[r] = "new" /\ chains' \in SUBSET Tasks
  BY RunsAssumption DEF TypeOK, Begin

\* Launching a process: what spawning an executor and an acceptance have in
\* common.
LEMMA LaunchKeepsTypes ==
  ASSUME TypeOK, NEW r \in Runs, Launch(r), chains' \subseteq Tasks,
         state[r] \in {"new", "announced"},
         \/ r \in Executors /\ registered' = registered \union {r}
         \/ UNCHANGED registered
  PROVE  TypeOK'
  BY RunsAssumption DEF TypeOK, Launch, operatorVars

LEMMA CancelRunsKeepsTypes ==
  ASSUME TypeOK, NEW rs \in SUBSET Executors, CancelRuns(rs),
         handle' = handle, up' = up, chains' = chains, stopping' \in BOOLEAN, deaths' = deaths,
         UNCHANGED <<state, result, procVars, timer, operatorVars>>
  PROVE  TypeOK'
  BY RunsAssumption DEF TypeOK, CancelRuns, procVars, operatorVars

LEMMA OwnerGoneKeepsTypes ==
  ASSUME TypeOK, OwnerGone
  PROVE  TypeOK'
<1>1. /\ state' \in [Runs -> {"new", "announced", "running", "over", "lost"}]
      /\ timer' \in [Runs -> {"off", "armed", "grace", "done"}]
      /\ killer' \in [Runs -> {"off", "grace", "killed"}]
  BY DEF TypeOK, OwnerGone
<1>2. deaths' \in Nat
  BY DEF TypeOK, OwnerGone
<1>3. registered' = {} /\ requested' = {} /\ chains' = {} /\ up' = FALSE /\ stopping' = FALSE
  BY DEF OwnerGone
<1>4. UNCHANGED <<result, pid, exit, handle, cli, reaper, uses, asked>>
  BY DEF OwnerGone, procVars, operatorVars
<1> QED
  BY <1>1, <1>2, <1>3, <1>4 DEF TypeOK

\* Every step keeps the types.
LEMMA StepKeepsTypes == ChildInv /\ [Next]_vars => TypeOK'
<1> SUFFICES ASSUME ChildInv, [Next]_vars PROVE TypeOK'
  OBVIOUS
<1>0. TypeOK /\ Executors \subseteq Runs /\ Acceptances \subseteq Runs
  BY DEF ChildInv, Runs
<1> USE <1>0 DEF procVars, ownerVars, taskVars, operatorVars
<1>1. ASSUME NEW e \in Executors, Announce(e) PROVE TypeOK'
  BY <1>1, BeginIsOfTask DEF TypeOK, Announce
<1>2. ASSUME NEW e \in Executors, SpawnExecutor(e) PROVE TypeOK'
  BY <1>2, LaunchKeepsTypes DEF SpawnExecutor, TypeOK
<1>3. ASSUME NEW e \in Executors, Cancel(e) PROVE TypeOK'
  <2>1. {e} \in SUBSET Executors
    OBVIOUS
  <2> QED
    BY <1>3, <2>1, CancelRunsKeepsTypes DEF Cancel, TypeOK
<1>4. ASSUME NEW e \in Executors, TerminateEscalates(e) PROVE TypeOK'
  BY <1>4, KillEnds DEF TerminateEscalates, TypeOK
<1>5. ASSUME NEW e \in Executors, TerminateEnds(e) PROVE TypeOK'
  BY <1>5 DEF TerminateEnds, TypeOK
<1>6. ASSUME NEW e \in Executors, CliConfirms(e) PROVE TypeOK'
  BY <1>6, RunsAssumption DEF CliConfirms, TypeOK
<1>7. ASSUME NEW a \in Acceptances, SpawnAcceptance(a) PROVE TypeOK'
  BY <1>7, LaunchKeepsTypes, BeginIsOfTask DEF SpawnAcceptance, TypeOK
<1>8. ASSUME NEW a \in Acceptances, Escalate(a) PROVE TypeOK'
  BY <1>8, KillEnds DEF Escalate, TypeOK
<1>9. ASSUME NEW a \in Acceptances, ReaperTidies(a) \/ ReaperTerminates(a) PROVE TypeOK'
  BY <1>9 DEF ReaperTidies, ReaperTerminates, TypeOK
<1>10. ASSUME NEW r \in Runs, NotSpawned(r) PROVE TypeOK'
  <2>1. chains' \in SUBSET Tasks /\ state[r] \in {"new", "announced"}
    BY <1>10, BeginIsOfTask DEF NotSpawned, TypeOK
  <2> QED
    BY <1>10, <2>1 DEF NotSpawned, TypeOK
<1>11. ASSUME NEW r \in Runs, Exit(r) \/ TimeOut(r) PROVE TypeOK'
  BY <1>11 DEF Exit, TimeOut, TypeOK
<1>12. ASSUME NEW r \in Runs, Close(r) PROVE TypeOK'
  <2>1. Verdict(r) \in {"completed", "failed", "timed_out", "cancelled"}
    BY DEF Verdict, Ended
  <2> QED
    BY <1>12, <2>1 DEF Close, TypeOK
<1>13. CASE Crash \/ ShutdownEnds
  BY <1>13, OwnerGoneKeepsTypes DEF Crash, ShutdownEnds
<1>14. CASE Shutdown
  <2>1. {e \in Executors : state[e] \in {"announced", "running"}} \in SUBSET Executors
    OBVIOUS
  <2> QED
    BY <1>14, <2>1, CancelRunsKeepsTypes DEF Shutdown
<1>15. CASE Restart
  BY <1>15 DEF Restart, TypeOK
<1>16. CASE CliReads \/ CliMarks
  BY <1>16 DEF CliReads, CliMarks, TypeOK
<1>17. CASE CliEnds \/ ReaperEnds
  BY <1>17, KillEnds DEF CliEnds, ReaperEnds, IdleCli, TypeOK
<1>18. CASE UNCHANGED vars
  BY <1>18 DEF vars, TypeOK
<1> QED
  BY <1>1, <1>2, <1>3, <1>4, <1>5, <1>6, <1>7, <1>8, <1>9, <1>10, <1>11, <1>12,
     <1>13, <1>14, <1>15, <1>16, <1>17, <1>18 DEF Next

-----------------------------------------------------------------------------
\* A run begins only when its task has no other under way.
LEMMA BeginIsAlone ==
  ASSUME NEW r \in Runs, Begin(r), NEW s \in Runs, TaskOf[s] = TaskOf[r]
  PROVE  state[s] \notin {"announced", "running"}
  BY DEF Begin, InProgress

\* Every step keeps what is said of processes and handles.
LEMMA StepKeepsProcesses == ChildInv /\ [Next]_vars => Processes'
<1> SUFFICES ASSUME ChildInv, [Next]_vars PROVE Processes'
  OBVIOUS
<1>0. TypeOK /\ Processes /\ Executors \subseteq Runs /\ Acceptances \subseteq Runs
  BY DEF ChildInv, Runs
<1> USE <1>0 DEF procVars, ownerVars, taskVars, operatorVars
<1>1. ASSUME NEW r \in Runs, Launch(r), state[r] \in {"new", "announced"} PROVE Processes'
  BY <1>1, RunsAssumption DEF TypeOK, Processes, Launch, Alive
<1>2. ASSUME NEW r \in Runs, state[r] \in {"new", "announced"},
             \/ state' = [state EXCEPT ![r] = "announced"] /\ UNCHANGED killer
             \/ state' = [state EXCEPT ![r] = "over"] /\ UNCHANGED killer,
             UNCHANGED <<pid, exit, handle, deaths>>
      PROVE  Processes'
  BY <1>2 DEF TypeOK, Processes, Alive
<1>3. ASSUME NEW rs, CancelRuns(rs), UNCHANGED <<state, pid, exit, handle, deaths>>
      PROVE  Processes'
  BY <1>3 DEF TypeOK, Processes, CancelRuns, Alive
<1>4. ASSUME NEW r \in Runs, state[r] = "running" \/ killer[r] # "killed",
             KillAt(pid[r]), UNCHANGED <<state, pid, handle, deaths>>,
             \/ UNCHANGED killer
             \/ state[r] = "running" /\ killer' = [killer EXCEPT ![r] = "killed"]
      PROVE  Processes'
  <2>1. state[r] = "running" => exit'[r] # "none"
    BY <1>4, KillEnds DEF Processes
  <2> QED
    BY <1>4, <2>1, KillEnds DEF TypeOK, Processes, Alive
<1>5. CASE OwnerGone
  <2>1. deaths' # 0
    BY <1>5 DEF OwnerGone, TypeOK
  <2> QED
    BY <1>5, <2>1 DEF OwnerGone, TypeOK, Processes, Alive
<1>6. CASE \E e \in Executors : Announce(e) \/ SpawnExecutor(e)
  BY <1>1, <1>2, <1>6 DEF Announce, Begin, SpawnExecutor
<1>7. CASE (\E e \in Executors : Cancel(e)) \/ Shutdown
  BY <1>3, <1>7 DEF Cancel, Shutdown
<1>8. ASSUME NEW e \in Executors, TerminateEscalates(e) PROVE Processes'
  BY <1>4, <1>8 DEF TerminateEscalates
<1>9. ASSUME NEW e \in Executors, TerminateEnds(e) PROVE Processes'
  <2>1. ~Alive(e)
    BY <1>9 DEF TerminateEnds, Processes, Alive
  <2> QED
    BY <1>9, <2>1 DEF TerminateEnds, TypeOK, Processes, Alive
<1>10. CASE \E a \in Acceptances : SpawnAcceptance(a)
  BY <1>1, <1>10 DEF SpawnAcceptance, Begin
<1>11. ASSUME NEW a \in Acceptances, Escalate(a) PROVE Processes'
  BY <1>4, <1>11 DEF Escalate
<1>12. ASSUME NEW a \in Acceptances, ReaperTidies(a) PROVE Processes'
  <2>1. ~Alive(a)
    BY <1>12 DEF ReaperTidies, Holders
  <2> QED
    BY <1>12, <2>1 DEF ReaperTidies, TypeOK, Processes, Alive
<1>13. ASSUME NEW r \in Runs, NotSpawned(r) PROVE Processes'
  BY <1>2, <1>13 DEF NotSpawned, Begin
<1>14. ASSUME NEW r \in Runs, Exit(r) \/ TimeOut(r) PROVE Processes'
  BY <1>14 DEF Exit, TimeOut, TypeOK, Processes, Alive
<1>15. ASSUME NEW r \in Runs, Close(r) PROVE Processes'
  BY <1>15 DEF Close, TypeOK, Processes, Alive
<1>16. CASE Crash \/ ShutdownEnds
  BY <1>5, <1>16 DEF Crash, ShutdownEnds
<1>17. CASE \/ \E e \in Executors : CliConfirms(e)
            \/ \E a \in Acceptances : ReaperTerminates(a)
            \/ Restart \/ CliReads
  BY <1>17 DEF CliConfirms, ReaperTerminates, Restart, CliReads, Processes, Alive
<1>18. CASE CliMarks
  <2>1. cli.run \in Executors /\ state[cli.run] \notin {"new", "announced"}
    BY <1>18 DEF CliMarks, TypeOK, ChildInv, Requests
  <2> QED
    BY <1>18, <2>1 DEF CliMarks, TypeOK, Processes, Alive
<1>19. CASE CliEnds
  <2>1. UNCHANGED <<state, pid, handle, deaths, killer>> /\ KillAt(pid[cli.run])
    BY <1>19 DEF CliEnds
  <2> QED
    BY <2>1, KillEnds DEF TypeOK, Processes, Alive
<1>20. CASE ReaperEnds
  <2>1. reaper \in Runs /\ UNCHANGED <<state, pid, deaths, killer>> /\ KillAt(pid[reaper])
        /\ handle' = [handle EXCEPT ![reaper] = "none"]
    BY <1>20 DEF ReaperEnds, TypeOK
  <2>2. pid'[reaper] = NoPid \/ exit'[reaper] # "none"
    BY <2>1, KillEnds
  <2> QED
    BY <2>1, <2>2, KillEnds DEF TypeOK, Processes, Alive
<1>21. CASE UNCHANGED vars
  BY <1>21 DEF vars, Processes, Alive
<1> QED
  BY <1>6, <1>7, <1>8, <1>9, <1>10, <1>11, <1>12, <1>13, <1>14, <1>15, <1>16, <1>17,
     <1>18, <1>19, <1>20, <1>21 DEF Next

-----------------------------------------------------------------------------
\* A state in which no more runs are under way than before.
LEMMA FewerRuns ==
  ASSUME OneRun,
         \A r \in Runs : state'[r] \in {"announced", "running"}
                           => state[r] \in {"announced", "running"}
  PROVE  OneRun'
  BY DEF OneRun

\* A task's runs come one after the other.
LEMMA StepKeepsOneRun == ChildInv /\ [Next]_vars => OneRun'
<1> SUFFICES ASSUME ChildInv, [Next]_vars PROVE OneRun'
  OBVIOUS
<1>0. TypeOK /\ OneRun /\ Executors \subseteq Runs /\ Acceptances \subseteq Runs
  BY DEF ChildInv, Runs
<1> USE <1>0 DEF procVars, ownerVars, taskVars, operatorVars
<1>1. ASSUME NEW r \in Runs, Begin(r), NEW st, state' = [state EXCEPT ![r] = st]
      PROVE  OneRun'
  BY <1>1, BeginIsAlone DEF TypeOK, OneRun
<1>2. ASSUME NEW e \in Executors, Announce(e) PROVE OneRun'
  BY <1>1, <1>2 DEF Announce
<1>3. ASSUME NEW a \in Acceptances, SpawnAcceptance(a) PROVE OneRun'
  BY <1>1, <1>3 DEF SpawnAcceptance, Launch
<1>4. ASSUME NEW e \in Executors, SpawnExecutor(e) PROVE OneRun'
  BY <1>4, FewerRuns DEF SpawnExecutor, Launch, TypeOK
<1>5. ASSUME NEW r \in Runs, NotSpawned(r) \/ Close(r) PROVE OneRun'
  BY <1>5, FewerRuns DEF NotSpawned, Close, TypeOK
<1>6. CASE Crash \/ ShutdownEnds
  BY <1>6, FewerRuns DEF Crash, ShutdownEnds, OwnerGone, TypeOK
<1>7. CASE UNCHANGED state
  BY <1>7, FewerRuns
<1> QED
  BY <1>2, <1>3, <1>4, <1>5, <1>6, <1>7
  DEF Next, vars, Cancel, TerminateEscalates, TerminateEnds, CliConfirms, Escalate,
      ReaperTidies, ReaperTerminates, Exit, TimeOut, Shutdown, Restart, CliReads,
      CliMarks, CliEnds, ReaperEnds

-----------------------------------------------------------------------------
\* A step that moves no run and forgets no request.
LEMMA RequestsStand ==
  ASSUME TypeOK, Requests, UNCHANGED <<state, result>>,
         requested \subseteq requested', asked' = asked,
         \A r \in Runs : killer'[r] # "off" => killer[r] # "off",
         cli'.at # "idle" => cli.at # "idle" /\ cli'.run = cli.run,
         \A e \in Executors : /\ handle[e] = "cancelled" /\ state[e] = "running"
                              => handle'[e] = "cancelled" \/ e \in requested
  PROVE  Requests'
  BY DEF TypeOK, Requests, Runs, ReportedAsAsked

\* A cancellation that has been noted stays noted until the run is reported.
LEMMA StepKeepsRequests == ChildInv /\ [Next]_vars => Requests'
<1> SUFFICES ASSUME ChildInv, [Next]_vars PROVE Requests'
  OBVIOUS
<1>0. /\ TypeOK /\ Processes /\ Requests
      /\ Executors \subseteq Runs /\ Acceptances \subseteq Runs
      /\ Executors \intersect Acceptances = {}
  BY RunsAssumption DEF ChildInv, Runs
<1> USE <1>0 DEF procVars, ownerVars, taskVars, operatorVars
<1>1. ASSUME NEW e \in Executors, Announce(e) PROVE Requests'
  BY <1>1 DEF Announce, Begin, TypeOK, Requests, ReportedAsAsked
<1>2. ASSUME NEW e \in Executors, SpawnExecutor(e) PROVE Requests'
  BY <1>2 DEF SpawnExecutor, Launch, TypeOK, Requests, ReportedAsAsked
<1>3. ASSUME NEW a \in Acceptances, SpawnAcceptance(a) PROVE Requests'
  BY <1>3 DEF SpawnAcceptance, Begin, Launch, TypeOK, Requests, ReportedAsAsked
<1>4. ASSUME NEW r \in Runs, NotSpawned(r) PROVE Requests'
  <2>1. /\ state[r] \in {"new", "announced"}
        /\ state' = [state EXCEPT ![r] = "over"] /\ result' = [result EXCEPT ![r] = "not_spawned"]
        /\ UNCHANGED <<requested, killer, handle, cli, asked>>
    BY <1>4 DEF NotSpawned, Begin
  <2>2. \A q \in Runs : q # r => state'[q] = state[q] /\ result'[q] = result[q]
    BY <2>1 DEF TypeOK
  <2>3. state'[r] = "over" /\ result'[r] = "not_spawned"
    BY <2>1 DEF TypeOK
  <2>4. cli'.at # "idle" => state'[cli'.run] \notin {"new", "announced"}
    BY <2>1 DEF TypeOK, Requests
  <2>5. ReportedAsAsked(r)'
    BY <2>3 DEF ReportedAsAsked
  <2>6. \A q \in Runs : q # r => (ReportedAsAsked(q)' <=> ReportedAsAsked(q))
    BY <2>2 DEF ReportedAsAsked
  <2>7. asked \subseteq Runs
    BY DEF TypeOK
  <2> QED
    BY <2>1, <2>2, <2>3, <2>4, <2>5, <2>6, <2>7 DEF Requests
<1>5. ASSUME NEW rs \in SUBSET Executors, CancelRuns(rs),
             \A r \in rs : state[r] \in {"announced", "running"},
             UNCHANGED <<state, result, handle, cli>>
      PROVE  Requests'
  BY <1>5 DEF CancelRuns, TypeOK, Requests, ReportedAsAsked
<1>6. ASSUME NEW e \in Executors, Cancel(e) PROVE Requests'
  <2>1. {e} \in SUBSET Executors /\ CancelRuns({e}) /\ UNCHANGED <<state, result, handle, cli>>
        /\ state[e] \in {"announced", "running"}
    BY <1>6 DEF Cancel
  <2> QED
    BY <1>5, <2>1
<1>7. CASE Shutdown
  BY <1>5, <1>7 DEF Shutdown
<1>8. ASSUME NEW r \in Runs, Close(r) PROVE Requests'
  <2>1. r \in asked => \/ Verdict(r) = "cancelled"
                       \/ r \in TimerFirst /\ Verdict(r) = "timed_out"
    <3>1. r \in asked => CancelNoted(r)
      BY <1>8 DEF Close, CancelNoted, TypeOK, Requests
    <3> QED
      BY <3>1 DEF Verdict
  <2>2. /\ state' = [state EXCEPT ![r] = "over"] /\ result' = [result EXCEPT ![r] = Verdict(r)]
        /\ requested' = requested \ {r} /\ handle' = [handle EXCEPT ![r] = "none"]
        /\ UNCHANGED <<killer, cli, asked>>
    BY <1>8 DEF Close
  <2>3. \A q \in Runs : q # r => /\ state'[q] = state[q] /\ result'[q] = result[q]
                                 /\ handle'[q] = handle[q]
                                 /\ (q \in requested') <=> (q \in requested)
    BY <2>2 DEF TypeOK
  <2>4. state'[r] = "over" /\ result'[r] = Verdict(r)
    BY <2>2 DEF TypeOK
  <2>5. \A q \in Runs : killer'[q] # "off" => q \in requested' \/ state'[q] \in {"over", "lost"}
    BY <2>2, <2>3, <2>4 DEF Requests
  <2>6. cli'.at # "idle" => state'[cli'.run] \notin {"new", "announced"}
    BY <2>2 DEF TypeOK, Requests
  <2>7. r \in asked => ReportedAsAsked(r)'
    BY <2>1, <2>4 DEF ReportedAsAsked
  <2>8. \A q \in Runs : q # r => (ReportedAsAsked(q)' <=> ReportedAsAsked(q))
    BY <2>3 DEF ReportedAsAsked
  <2>9. asked' = asked /\ asked \subseteq Runs
    BY <2>2 DEF TypeOK
  <2>10. ASSUME NEW q \in asked'
         PROVE  /\ state'[q] # "new"
                /\ state'[q] = "announced" => q \in requested'
                /\ state'[q] = "running" => q \in requested' \/ handle'[q] = "cancelled"
                /\ state'[q] = "over" => ReportedAsAsked(q)'
    <3>1. q \in asked /\ q \in Runs
      BY <2>9
    <3>2. CASE q = r
      BY <2>4, <2>7, <3>1, <3>2 DEF ReportedAsAsked
    <3>3. CASE q # r
      BY <2>3, <2>8, <3>1, <3>3 DEF Requests
    <3> QED
      BY <3>2, <3>3
  <2> QED
    BY <2>5, <2>6, <2>10 DEF Requests
<1>9. ASSUME NEW e \in Executors, TerminateEnds(e) PROVE Requests'
  BY <1>9, RequestsStand DEF TerminateEnds, TypeOK, Requests
<1>10. CASE Crash \/ ShutdownEnds
  BY <1>10 DEF Crash, ShutdownEnds, OwnerGone, TypeOK, Requests,
     ReportedAsAsked
<1>11. ASSUME NEW e \in Executors, CliConfirms(e) PROVE Requests'
  BY <1>11 DEF CliConfirms, TypeOK, Processes, Requests, ReportedAsAsked
<1>12. CASE CliMarks
  BY <1>12 DEF CliMarks, TypeOK, Requests, ReportedAsAsked
<1>13. ASSUME NEW a \in Acceptances, ReaperTidies(a) \/ ReaperTerminates(a) \/ Escalate(a)
       PROVE  Requests'
  BY <1>13, RequestsStand DEF ReaperTidies, ReaperTerminates, Escalate, TypeOK
<1>14. ASSUME NEW e \in Executors, TerminateEscalates(e) PROVE Requests'
  BY <1>14, RequestsStand DEF TerminateEscalates, TypeOK
<1>15. ASSUME NEW r \in Runs, Exit(r) \/ TimeOut(r) PROVE Requests'
  BY <1>15, RequestsStand DEF Exit, TimeOut
<1>16. CASE ReaperEnds
  <2>1. UNCHANGED <<state, result, requested, killer, cli, asked>>
        /\ reaper \in Acceptances /\ handle' = [handle EXCEPT ![reaper] = "none"]
    BY <1>16 DEF ReaperEnds, TypeOK
  <2> QED
    BY <2>1, RequestsStand DEF TypeOK
<1>17. CASE CliReads \/ CliEnds
  BY <1>17, RequestsStand DEF CliReads, CliEnds, IdleCli, TypeOK
<1>18. CASE Restart \/ UNCHANGED vars
  BY <1>18, RequestsStand DEF Restart, vars
<1> QED
  BY <1>1, <1>2, <1>3, <1>4, <1>6, <1>7, <1>8, <1>9, <1>10, <1>11, <1>12, <1>13, <1>14,
     <1>15, <1>16, <1>17, <1>18 DEF Next

-----------------------------------------------------------------------------
\* The inductive invariant holds in every reachable state.
THEOREM ChildInvariant == Spec => []ChildInv
<1>1. ChildInv /\ [Next]_vars => ChildInv'
  BY StepKeepsTypes, StepKeepsProcesses, StepKeepsOneRun, StepKeepsRequests DEF ChildInv
<1> QED
  BY <1>1, InitChildInv, PTL DEF Spec

\* Types; only running executors are registered as terminable.
THEOREM TypeCorrectness == Spec => []TypeOK
<1>1. ChildInv => TypeOK
  BY DEF ChildInv
<1> QED
  BY <1>1, ChildInvariant, PTL

\* As long as its owner lives no task has two processes in its workspace: a
\* timeout, a cancellation or a SIGKILL ends a run no sooner than its process.
THEOREM OneProcessPerTask == Spec => []SingleWriter
<1>1. ChildInv => SingleWriter
  BY DEF ChildInv, Processes, OneRun, SingleWriter
<1> QED
  BY <1>1, ChildInvariant, PTL

\* Whichever process cancelled an executor, and however that raced with the
\* run's end and its timeout, the run is reported as cancelled, or was never
\* started, or its adapter looks at the timeout first and there was one.
THEOREM CancellationsAreReported == Spec => []CancelledIsReported
<1>1. ChildInv => CancelledIsReported
  BY DEF ChildInv, Requests, ReportedAsAsked, CancelledIsReported
<1> QED
  BY <1>1, ChildInvariant, PTL

\* Whatever the owner's death interrupts, a process it leaves behind has a
\* handle on disk.
THEOREM OrphansHaveHandles == Spec => []OrphansAreDiscoverable
<1>1. ChildInv => OrphansAreDiscoverable
  BY DEF ChildInv, Processes, OrphansAreDiscoverable
<1> QED
  BY <1>1, ChildInvariant, PTL
=============================================================================
