------------------------------- MODULE Children -------------------------------
(***************************************************************************)
(* The child processes of the process that drives tasks: executor runs     *)
(* (execAsync and terminateRun, lib/adapters.mjs) and acceptance commands  *)
(* (runAcceptance, lib/acceptance.mjs), the handle file each of them has   *)
(* on disk, and the three that end them from outside: a cancellation or    *)
(* shutdown in the same process, the cancel command of another process     *)
(* (orchestrator.mjs), and the operator's reaper of orphaned acceptance    *)
(* commands.                                                               *)
(*                                                                         *)
(* A run is started once; its process may exit at any time.  SIGTERM asks, *)
(* and leaves no trace here: a process may ignore it.  SIGKILL ends it.    *)
(* The owner learns of an exit by a 'close' event, later.  A process id is *)
(* free again as soon as its process has exited.                           *)
(*                                                                         *)
(* Left out: output, exit codes beyond zero or not, executor slots (in     *)
(* RuntimeGuard), the owner's 'error' event for a signal it could not      *)
(* send.  Handles are taken to be written; the code goes on without.       *)
(***************************************************************************)
EXTENDS Naturals

CONSTANTS
  Executors, Acceptances,  \* the runs of this instance, of either kind
  TimerFirst,              \* executor runs whose adapter asks for the timeout first
  TimerBlind,              \* executor runs whose adapter does not ask for it
  Tasks, TaskOf,           \* the task each run belongs to
  Pids,                    \* process ids
  NoPid, NoRun,
  MaxDeaths,               \* bound: how often the owner dies or is shut down
  MaxUses                  \* bound: calls of the cancel command and the reaper

Runs == Executors \union Acceptances

ASSUME RunsAssumption ==
  /\ Executors \intersect Acceptances = {} /\ NoRun \notin Runs
  /\ TimerFirst \subseteq Executors /\ TimerBlind \subseteq Executors \ TimerFirst
  /\ TaskOf \in [Runs -> Tasks] /\ NoPid \notin Pids
ASSUME BoundsAssumption == MaxDeaths \in Nat /\ MaxUses \in Nat

VARIABLES
  state,       \* what the owner knows of each run
  result,      \* how the run was reported
  pid, exit,   \* its process: id, and how it has exited, if it has
  timer,       \* the owner's timeout for the run
  killer,      \* where terminateRun stands with the run
  registered,  \* activeRuns: executor runs that can be terminated
  requested,   \* cancelRequested: runs that are to be reported as cancelled
  handle,      \* the run's handle file: none, plain, or marked cancelled
  chains,      \* tasks with a chain that may be under way
  up, stopping,  \* the owner runs; it is shutting down
  cli,         \* the cancel command: where it stands, and with which run
  reaper,      \* the run whose process the reaper has asked to end
  deaths, uses,
  asked        \* history: running or announced runs that were cancelled

procVars == <<pid, exit>>
ownerVars == <<timer, killer, registered, requested>>
taskVars == <<chains, up, stopping>>
operatorVars == <<cli, reaper, uses>>
vars == <<state, result, procVars, ownerVars, handle, taskVars, operatorVars,
          deaths, asked>>

Alive(r) == pid[r] # NoPid /\ exit[r] = "none"
Holders(p) == {r \in Runs : Alive(r) /\ pid[r] = p}

\* SIGKILL to a process id, whoever has it.
KillAt(p) == exit' = [r \in Runs |-> IF r \in Holders(p) THEN "nonzero" ELSE exit[r]]

InProgress(t) == {r \in Runs : TaskOf[r] = t /\ state[r] \in {"announced", "running"}}

IdleCli == [at |-> "idle", run |-> NoRun]

Init ==
  /\ state = [r \in Runs |-> "new"] /\ result = [r \in Runs |-> "none"]
  /\ pid = [r \in Runs |-> NoPid] /\ exit = [r \in Runs |-> "none"]
  /\ timer = [r \in Runs |-> "off"] /\ killer = [r \in Runs |-> "off"]
  /\ registered = {} /\ requested = {} /\ handle = [r \in Runs |-> "none"]
  /\ chains = {} /\ up = TRUE /\ stopping = FALSE
  /\ cli = IdleCli /\ reaper = NoRun
  /\ deaths = 0 /\ uses = 0 /\ asked = {}

-----------------------------------------------------------------------------
(***************************************************************************)
(* Chains: the runs of a task come one after the other.                    *)
(***************************************************************************)

\* The next run of a task begins.  At a shutdown no chain is started, but those
\* under way go on.
Begin(r) ==
  /\ up /\ state[r] = "new" /\ InProgress(TaskOf[r]) = {}
  /\ stopping => TaskOf[r] \in chains
  /\ chains' = chains \union {TaskOf[r]}

\* onRunStart: the run's id is known to the scheduler before there is a process.
Announce(e) ==
  /\ Begin(e) /\ state' = [state EXCEPT ![e] = "announced"]
  /\ UNCHANGED <<result, procVars, ownerVars, handle, up, stopping, operatorVars,
                 deaths, asked>>

\* spawn, registration and handle.
Launch(r) ==
  /\ \E p \in Pids : Holders(p) = {} /\ pid' = [pid EXCEPT ![r] = p]
  /\ state' = [state EXCEPT ![r] = "running"]
  /\ timer' = [timer EXCEPT ![r] = "armed"]
  /\ handle' = [handle EXCEPT ![r] = "plain"]
  /\ UNCHANGED <<result, exit, killer, requested, up, stopping, operatorVars, deaths, asked>>

\* A cancellation that came before the process sends it a SIGTERM now.
SpawnExecutor(e) ==
  /\ up /\ state[e] = "announced"
  /\ Launch(e) /\ registered' = registered \union {e} /\ UNCHANGED chains

SpawnAcceptance(a) ==
  /\ Begin(a) /\ Launch(a) /\ UNCHANGED registered

\* No slot, no workspace, or no such program.
NotSpawned(r) ==
  /\ \/ up /\ state[r] = "announced" /\ UNCHANGED chains
     \/ r \in Acceptances /\ Begin(r)
  /\ state' = [state EXCEPT ![r] = "over"] /\ result' = [result EXCEPT ![r] = "not_spawned"]
  /\ UNCHANGED <<procVars, ownerVars, handle, up, stopping, operatorVars, deaths, asked>>

\* The process ends by itself, or because it was asked to.
Exit(r) ==
  /\ Alive(r) /\ \E c \in {"zero", "nonzero"} : exit' = [exit EXCEPT ![r] = c]
  /\ UNCHANGED <<state, result, pid, ownerVars, handle, taskVars, operatorVars,
                 deaths, asked>>

-----------------------------------------------------------------------------
(***************************************************************************)
(* The owner.                                                              *)
(***************************************************************************)

\* A timeout that reports the run at once.
TimeOutReported(r) ==
  /\ up /\ state[r] = "running" /\ timer[r] = "armed"
  /\ state' = [state EXCEPT ![r] = "over"] /\ result' = [result EXCEPT ![r] = "failed"]
  /\ timer' = [timer EXCEPT ![r] = "grace"]
  /\ UNCHANGED <<procVars, killer, registered, requested, handle, taskVars,
                 operatorVars, deaths, asked>>

\* A timeout of an acceptance command with nothing behind it.
TimeOutSoftly(r) ==
  /\ up /\ state[r] = "running" /\ timer[r] = "armed"
  /\ timer' = [timer EXCEPT ![r] = "done"]
  /\ UNCHANGED <<state, result, procVars, killer, registered, requested, handle,
                 taskVars, operatorVars, deaths, asked>>

\* SIGTERM.  The monitor of an executor (silence, a loop of thoughts, a run
\* that is too long) leaves it at that; an acceptance command has a grace time.
TimeOut(r) ==
  /\ up /\ state[r] = "running" /\ timer[r] = "armed"
  /\ timer' = [timer EXCEPT ![r] = IF r \in Acceptances THEN "grace" ELSE "done"]
  /\ UNCHANGED <<state, result, procVars, killer, registered, requested, handle,
                 taskVars, operatorVars, deaths, asked>>

Escalate(a) ==
  /\ up /\ state[a] = "running" /\ timer[a] = "grace"
  /\ timer' = [timer EXCEPT ![a] = "done"] /\ KillAt(pid[a])
  /\ UNCHANGED <<state, result, pid, killer, registered, requested, handle,
                 taskVars, operatorVars, deaths, asked>>

\* The monitor, or the timeout of a command, has asked the process to end.
TimedOut(r) == timer[r] # "armed"

\* A cancellation of the run is noted by its owner or in its handle.
CancelNoted(r) == r \in Executors /\ (r \in requested \/ handle[r] = "cancelled")

Ended(r) == IF exit[r] = "zero" THEN "completed" ELSE "failed"

\* The marker of another process is not looked at.
VerdictOfOwner(r) ==
  IF r \in TimerFirst /\ TimedOut(r) THEN "timed_out"
  ELSE IF r \in requested THEN "cancelled"
  ELSE IF TimedOut(r) /\ r \notin TimerBlind THEN "timed_out"
  ELSE Ended(r)

\* What a run whose process has exited is reported as.  execAsync hands its
\* adapter two flags, and codex, claude, vertex-gemini and cline look at
\* timedOut before cancelled, antigravity at cancelled first, zcode at
\* cancelled only.  A timeout is a failure, with an error of its own.
Verdict(r) ==
  IF r \in TimerFirst /\ TimedOut(r) THEN "timed_out"
  ELSE IF CancelNoted(r) THEN "cancelled"
  ELSE IF TimedOut(r) /\ r \notin TimerBlind THEN "timed_out"
  ELSE Ended(r)

\* The run stays registered.
CloseRegistered(r) ==
  /\ up /\ state[r] = "running" /\ exit[r] # "none"
  /\ state' = [state EXCEPT ![r] = "over"] /\ result' = [result EXCEPT ![r] = Verdict(r)]
  /\ requested' = requested \ {r} /\ timer' = [timer EXCEPT ![r] = "off"]
  /\ handle' = [handle EXCEPT ![r] = "none"]
  /\ chains' = IF Verdict(r) = "cancelled" THEN chains \ {TaskOf[r]} ELSE chains
  /\ UNCHANGED <<procVars, killer, registered, up, stopping, operatorVars,
                 deaths, asked>>

\* The 'close' event.  A cancelled run ends its task's chain.
Close(r) ==
  /\ up /\ state[r] = "running" /\ exit[r] # "none"
  /\ state' = [state EXCEPT ![r] = "over"] /\ result' = [result EXCEPT ![r] = Verdict(r)]
  /\ registered' = registered \ {r} /\ requested' = requested \ {r}
  /\ timer' = [timer EXCEPT ![r] = "off"] /\ handle' = [handle EXCEPT ![r] = "none"]
  /\ chains' = IF Verdict(r) = "cancelled" THEN chains \ {TaskOf[r]} ELSE chains
  /\ UNCHANGED <<procVars, killer, up, stopping, operatorVars, deaths, asked>>

-----------------------------------------------------------------------------
(***************************************************************************)
(* cancelRun and terminateRun.                                             *)
(***************************************************************************)

\* The runs that are cancelled are noted first, whether they have a process or
\* not; a process that has one gets SIGTERM.
CancelRuns(rs) ==
  /\ requested' = requested \union rs /\ asked' = asked \union rs
  /\ killer' = [r \in Runs |-> IF r \in rs \intersect registered /\ exit[r] = "none"
                               THEN "grace" ELSE killer[r]]
  /\ registered' = registered \ {r \in rs : exit[r] # "none"}

\* The handle goes with the SIGTERM.
CancelForgetting(e) ==
  /\ up /\ state[e] \in {"announced", "running"} /\ killer[e] = "off"
  /\ CancelRuns({e}) /\ handle' = [handle EXCEPT ![e] = "none"]
  /\ UNCHANGED <<state, result, procVars, timer, taskVars, operatorVars, deaths>>

\* scheduler.cancelTask, for one run.
Cancel(e) ==
  /\ up /\ state[e] \in {"announced", "running"} /\ killer[e] = "off"
  /\ CancelRuns({e})
  /\ UNCHANGED <<state, result, procVars, timer, handle, taskVars, operatorVars, deaths>>

\* The grace time is over.
TerminateEscalates(e) ==
  /\ up /\ killer[e] = "grace" /\ state[e] = "running"
  /\ killer' = [killer EXCEPT ![e] = "killed"] /\ KillAt(pid[e])
  /\ UNCHANGED <<state, result, pid, timer, registered, requested, handle, taskVars,
                 operatorVars, deaths, asked>>

\* The exit was seen, or, after SIGKILL, it was not seen in time: the run is
\* unregistered and its handle removed either way.
TerminateEnds(e) ==
  /\ up /\ \/ killer[e] # "off" /\ state[e] = "over"
           \/ killer[e] = "killed"
  /\ killer' = [killer EXCEPT ![e] = "off"] /\ registered' = registered \ {e}
  /\ handle' = [handle EXCEPT ![e] = "none"]
  /\ UNCHANGED <<state, result, procVars, timer, requested, taskVars, operatorVars,
                 deaths, asked>>

-----------------------------------------------------------------------------
(***************************************************************************)
(* The end of the owner.                                                   *)
(***************************************************************************)

\* What is in its memory goes; processes and handles stay.
OwnerGone ==
  /\ up' = FALSE /\ stopping' = FALSE /\ chains' = {} /\ deaths' = deaths + 1
  /\ state' = [r \in Runs |-> IF state[r] \in {"announced", "running"} THEN "lost"
                                                                      ELSE state[r]]
  /\ timer' = [r \in Runs |-> "off"]
  /\ killer' = [r \in Runs |-> "off"] /\ registered' = {} /\ requested' = {}
  /\ UNCHANGED <<result, procVars, handle, operatorVars, asked>>

Crash == up /\ deaths < MaxDeaths /\ OwnerGone

\* Scheduler.shutdown: acceptance commands get SIGTERM, and the executor runs
\* that are known at this moment are cancelled.
Shutdown ==
  /\ up /\ ~stopping /\ deaths < MaxDeaths /\ stopping' = TRUE
  /\ CancelRuns({e \in Executors : state[e] \in {"announced", "running"}})
  /\ UNCHANGED <<state, result, procVars, timer, handle, chains, up, operatorVars, deaths>>

\* Every chain has ended, or the time for that is up; it is longer than the
\* grace time of terminateRun.
ShutdownEnds ==
  /\ up /\ stopping /\ \A r \in Runs : killer[r] # "grace"
  /\ OwnerGone

Restart ==
  /\ ~up /\ up' = TRUE
  /\ UNCHANGED <<state, result, procVars, ownerVars, handle, chains, stopping,
                 operatorVars, deaths, asked>>

-----------------------------------------------------------------------------
(***************************************************************************)
(* Other processes: the cancel command and the reaper.                     *)
(***************************************************************************)

\* The command has read the handle of an executor, and the process at its id
\* looks like an executor.
CliConfirms(e) ==
  /\ cli.at = "idle" /\ uses < MaxUses /\ handle[e] # "none"
  /\ Holders(pid[e]) \intersect Executors # {}
  /\ cli' = [at |-> "confirmed", run |-> e] /\ uses' = uses + 1
  /\ UNCHANGED <<state, result, procVars, ownerVars, handle, taskVars, reaper,
                 deaths, asked>>

\* It reads the handle again to mark it; a handle that is gone is let be.
CliReads ==
  /\ cli.at = "confirmed"
  /\ cli' = [cli EXCEPT !.at = IF handle[cli.run] = "none" THEN "grace" ELSE "marking"]
  /\ UNCHANGED <<state, result, procVars, ownerVars, handle, taskVars, reaper, uses,
                 deaths, asked>>

\* It writes the marked handle, then sends SIGTERM.
CliMarks ==
  /\ cli.at = "marking" /\ cli' = [cli EXCEPT !.at = "grace"]
  /\ handle' = [handle EXCEPT ![cli.run] = "cancelled"]
  /\ asked' = IF state[cli.run] = "running" THEN asked \union {cli.run} ELSE asked
  /\ UNCHANGED <<state, result, procVars, ownerVars, taskVars, reaper, uses, deaths>>

\* SIGKILL, if there still is a process of that id.
CliEnds ==
  /\ cli.at = "grace" /\ cli' = IdleCli /\ KillAt(pid[cli.run])
  /\ UNCHANGED <<state, result, pid, ownerVars, handle, taskVars, reaper, uses,
                 deaths, asked>>

\* A handle whose process is gone is removed.
ReaperTidies(a) ==
  /\ uses < MaxUses /\ uses' = uses + 1
  /\ handle[a] # "none" /\ Holders(pid[a]) = {}
  /\ handle' = [handle EXCEPT ![a] = "none"]
  /\ UNCHANGED <<state, result, procVars, ownerVars, taskVars, cli, reaper, deaths, asked>>

\* The owner of the handle is gone, and the process at its id runs the same
\* command: SIGTERM.
ReaperTerminates(a) ==
  /\ reaper = NoRun /\ uses < MaxUses /\ uses' = uses + 1
  /\ handle[a] # "none" /\ state[a] = "lost"
  /\ Holders(pid[a]) \intersect Acceptances # {}
  /\ reaper' = a
  /\ UNCHANGED <<state, result, procVars, ownerVars, handle, taskVars, cli, deaths, asked>>

\* SIGKILL, if there still is a process of that id.
ReaperEnds ==
  /\ reaper # NoRun /\ reaper' = NoRun /\ KillAt(pid[reaper])
  /\ handle' = [handle EXCEPT ![reaper] = "none"]
  /\ UNCHANGED <<state, result, pid, ownerVars, taskVars, cli, uses, deaths, asked>>

-----------------------------------------------------------------------------

Next ==
  \/ \E e \in Executors :
       \/ Announce(e) \/ SpawnExecutor(e) \/ Cancel(e)
       \/ TerminateEscalates(e) \/ TerminateEnds(e) \/ CliConfirms(e)
  \/ \E a \in Acceptances :
       SpawnAcceptance(a) \/ Escalate(a) \/ ReaperTidies(a) \/ ReaperTerminates(a)
  \/ \E r \in Runs : NotSpawned(r) \/ Exit(r) \/ TimeOut(r) \/ Close(r)
  \/ Crash \/ Shutdown \/ ShutdownEnds \/ Restart
  \/ CliReads \/ CliMarks \/ CliEnds \/ ReaperEnds

Spec == Init /\ [][Next]_vars

\* The owner's timers fire.  Nothing says that a process ends by itself.
FairSpec ==
  /\ Spec
  /\ \A a \in Acceptances : WF_vars(TimeOut(a)) /\ WF_vars(Escalate(a))
  /\ \A e \in Executors : WF_vars(TerminateEscalates(e))

-----------------------------------------------------------------------------
(***************************************************************************)
(* Properties.                                                             *)
(***************************************************************************)

TypeOK ==
  /\ state \in [Runs -> {"new", "announced", "running", "over", "lost"}]
  /\ result \in [Runs -> {"none", "not_spawned", "completed", "failed", "timed_out",
                         "cancelled"}]
  /\ pid \in [Runs -> Pids \union {NoPid}] /\ exit \in [Runs -> {"none", "zero", "nonzero"}]
  /\ timer \in [Runs -> {"off", "armed", "grace", "done"}]
  /\ killer \in [Runs -> {"off", "grace", "killed"}]
  /\ registered \subseteq {e \in Executors : state[e] = "running"}
  /\ requested \subseteq Executors
  /\ handle \in [Runs -> {"none", "plain", "cancelled"}]
  /\ chains \subseteq Tasks /\ up \in BOOLEAN /\ stopping \in BOOLEAN
  /\ cli \in [at : {"idle", "confirmed", "marking", "grace"}, run : Executors \union {NoRun}]
  /\ cli.at # "idle" => cli.run # NoRun
  /\ reaper \in Acceptances \union {NoRun}
  /\ deaths \in Nat /\ uses \in Nat /\ asked \subseteq Executors

\* While the owner lives, a task has no two processes in its workspace: a run
\* is over only when its process is gone, whatever cut it short.
SingleWriter ==
  deaths = 0 => \A r, s \in Runs :
    Alive(r) /\ Alive(s) /\ TaskOf[r] = TaskOf[s] => r = s

\* An executor cancelled before it was reported is reported as cancelled, by
\* whichever process the cancellation was made and however it raced with the
\* run's end and its timeout (the close handler of execAsync and what the
\* adapters make of it).  The exception is the code's: an adapter that looks at
\* the timeout first reports a run that also timed out as a timeout.  None ever
\* reports a cancelled run as completed.
CancelledIsReported ==
  \A r \in asked : state[r] = "over" =>
    \/ result[r] \in {"cancelled", "not_spawned"}
    \/ r \in TimerFirst /\ result[r] = "timed_out"

\* A process that has lost its owner has a handle that leads to it, so that it
\* can be found and ended (writeAcceptanceHandle, RUNS_DIR).
OrphansAreDiscoverable == \A r \in Runs : Alive(r) /\ state[r] = "lost" => handle[r] # "none"

\* An acceptance command, and an executor that terminateRun has been asked to
\* end, are gone in the end even if they ignore SIGTERM, unless their owner
\* goes first.
ChildrenAreBounded ==
  /\ \A a \in Acceptances : state[a] = "running" /\ Alive(a) ~> ~Alive(a) \/ ~up
  /\ \A e \in Executors : killer[e] = "grace" ~> ~Alive(e) \/ ~up
=============================================================================
