------------------------------ MODULE Scheduler ------------------------------
(***************************************************************************)
(* One Scheduler (lib/scheduler.mjs) and the tasks given to it: the queue, *)
(* the running chains, the parked tasks, the task locks and the lease on a *)
(* candidate's target.  What a chain does inside is TaskLoop's subject;    *)
(* here a chain starts, may enter the publish-sensitive stage, and ends.   *)
(*                                                                         *)
(* JavaScript runs to completion: a call of the operator, the end of a     *)
(* chain with its finally block, and the runNext loop are never            *)
(* interrupted.  The loop is taken one task at a time, with pump set and   *)
(* nothing else enabled until it is over.                                  *)
(*                                                                         *)
(* Other processes (CLI commands) share the task files and the locks.      *)
(* Targets do not interact, so there is one: all governed tasks name it.   *)
(***************************************************************************)
EXTENDS Naturals, Sequences, FiniteSets

CONSTANTS
  Tasks,
  Governed,       \* those with a candidate for the one target
  Nobody,         \* the lease is free
  MaxConcurrent,  \* max_concurrent_tasks
  Interventions,  \* what operators and other processes do in this instance
  Foreign,        \* bound: tasks other processes lock or cancel
  MaxRestarts     \* bound: schedulers made after the first

ASSUME TasksAssumption == IsFiniteSet(Tasks) /\ Governed \subseteq Tasks /\ Nobody \notin Tasks
ASSUME ConcurrencyAssumption == MaxConcurrent \in Nat \ {0} /\ MaxRestarts \in Nat
ASSUME InterventionsAssumption ==
  /\ Interventions \subseteq {"foreign_lock", "foreign_cancel", "run_task", "shutdown"}
  /\ Foreign \subseteq Tasks

VARIABLES
  state,    \* the tasks' states on disk
  lock,     \* locks/<task_id>.lock: free, this scheduler's, another's
  queue,    \* this.queue
  chain,    \* where each task's chain stands; this.active has those with one
  waiting,  \* this.waiting
  holder,   \* this.coordination: who holds the target
  pump,     \* runNext is under way, called by the operator or by a chain's end
  shutdown, \* this.shutdownRequested
  up,       \* the process lives
  restarts

vars == <<state, lock, queue, chain, waiting, holder, pump, shutdown, up, restarts>>
process == <<shutdown, up, restarts>>

Terminal == {"COMPLETED", "FAILED", "CANCELLED"}
\* RUNNING stands for all the states of a task a chain is driving.
States == Terminal \union {"absent", "CREATED", "RUNNING", "WAITING_HUMAN"}

\* run: author to acceptance; gate: from the target's acquisition on; resume:
\* a parked task asks the vault again; done: an early return, not yet awaited.
Chains == {"none", "run", "gate", "resume", "done"}
Active == {t \in Tasks : chain[t] # "none"}
InQueue(t) == \E i \in 1..Len(queue) : queue[i] = t
\* enqueue keeps a task from being in the queue twice.
Without(t) ==
  IF InQueue(t)
    THEN LET i == CHOOSE i \in 1..Len(queue) : queue[i] = t
         IN SubSeq(queue, 1, i - 1) \o SubSeq(queue, i + 1, Len(queue))
    ELSE queue

\* The moments at which callbacks and calls run.
Quiet == up /\ pump = "off"

Init ==
  /\ state = [t \in Tasks |-> "absent"]
  /\ lock = [t \in Tasks |-> "free"]
  /\ queue = <<>>
  /\ chain = [t \in Tasks |-> "none"]
  /\ waiting = {}
  /\ holder = Nobody
  /\ pump = "off" /\ shutdown = FALSE /\ up = TRUE /\ restarts = 0

-----------------------------------------------------------------------------
(* Starting a task: #start, with executeOnce up to its first await *)

SetState(t, s) == state' = [state EXCEPT ![t] = s]

\* A cancelled task is returned untouched, a tampered one failed; any other
\* goes back to its author, whatever state it was in.
StartChain(t) ==
  /\ lock' = [lock EXCEPT ![t] = "own"]
  /\ \/ state[t] = "CANCELLED" /\ UNCHANGED state /\ chain' = [chain EXCEPT ![t] = "done"]
     \/ /\ state[t] # "CANCELLED"
        /\ SetState(t, "FAILED") /\ chain' = [chain EXCEPT ![t] = "done"]
     \/ /\ state[t] # "CANCELLED"
        /\ SetState(t, "RUNNING") /\ chain' = [chain EXCEPT ![t] = "run"]

\* A rejection by preflight that returns without releasing the lock.
PreflightRejectsHolding(t) ==
  /\ SetState(t, "FAILED")
  /\ lock' = [lock EXCEPT ![t] = "own"]
  /\ UNCHANGED chain

\* An executor of the task is unavailable: the lock is taken and given back,
\* and the file says FAILED.
PreflightRejects(t) ==
  /\ SetState(t, "FAILED")
  /\ UNCHANGED <<lock, chain>>

Start(t) == StartChain(t) \/ PreflightRejects(t)

-----------------------------------------------------------------------------
(* enqueue, runNext, runTask, resumeTask *)

Enqueue(t) ==
  /\ Quiet /\ ~shutdown
  /\ t \notin Active \union waiting /\ ~InQueue(t)
  /\ queue' = Append(queue, t)
  /\ SetState(t, IF state[t] = "absent" THEN "CREATED" ELSE state[t])
  /\ UNCHANGED <<lock, chain, waiting, holder, pump, process>>

MayPump == queue # <<>> /\ Cardinality(Active) < MaxConcurrent

RunNext ==
  /\ Quiet /\ ~shutdown /\ MayPump
  /\ pump' = "call"
  /\ UNCHANGED <<state, lock, queue, chain, waiting, holder, process>>

\* The head of the queue is started; a lock of another process, or a chain of
\* its own, makes runTask throw.
CannotStart(t) == t \in Active \/ lock[t] # "free"

PumpStarts ==
  /\ up /\ pump # "off" /\ MayPump /\ ~CannotStart(Head(queue))
  /\ Start(Head(queue))
  /\ queue' = Tail(queue)
  /\ UNCHANGED <<waiting, holder, pump, process>>

\* The exception leaves runNext with the task out of the queue.  The operator
\* can catch it; thrown by the finally block of a chain it is an unhandled
\* rejection, which ends the process.
PumpThrows ==
  /\ up /\ pump # "off" /\ MayPump /\ CannotStart(Head(queue))
  /\ queue' = Tail(queue)
  /\ pump' = "off" /\ up' = (pump = "call")
  /\ UNCHANGED <<state, lock, chain, waiting, holder, shutdown, restarts>>

PumpEnds ==
  /\ up /\ pump # "off" /\ ~MayPump
  /\ pump' = "off"
  /\ UNCHANGED <<state, lock, queue, chain, waiting, holder, process>>

RunTask(t) ==
  /\ "run_task" \in Interventions
  /\ Quiet /\ ~shutdown /\ state[t] # "absent"
  /\ ~CannotStart(t) /\ Cardinality(Active) < MaxConcurrent
  /\ Start(t)
  /\ UNCHANGED <<queue, waiting, holder, pump, process>>

\* A parked task goes back to the vault, past preflight and target.
ResumeTask(t) ==
  /\ Quiet /\ ~shutdown /\ state[t] = "WAITING_HUMAN" /\ lock[t] = "free"
  /\ Cardinality(Active) < MaxConcurrent
  /\ lock' = [lock EXCEPT ![t] = "own"] /\ chain' = [chain EXCEPT ![t] = "resume"]
  /\ UNCHANGED <<state, queue, waiting, holder, pump, process>>

-----------------------------------------------------------------------------
(* The chain of a task *)

\* A release that frees the target whoever holds it.
ReleaseAnyone(t, s) == IF t \in Governed /\ s \in Terminal THEN Nobody ELSE holder

\* TargetCoordinator.release, called for a chain that ended in state s.
ReleaseTarget(t, s) == IF holder = t /\ s \in Terminal THEN Nobody ELSE holder

\* The finally block without its runNext.
FinallyStopping(t, s) ==
  /\ chain' = [chain EXCEPT ![t] = "none"]
  /\ lock' = [lock EXCEPT ![t] = "free"]
  /\ holder' = ReleaseTarget(t, s)
  /\ UNCHANGED pump

\* The finally block of runChain for a task whose file says s.
Finally(t, s) ==
  /\ chain' = [chain EXCEPT ![t] = "none"]
  /\ lock' = [lock EXCEPT ![t] = "free"]
  /\ holder' = ReleaseTarget(t, s)
  /\ pump' = IF shutdown THEN "off" ELSE "chain"

\* TargetCoordinator.acquire without the exit for a task that names no target.
EnterGateUntargeted(t) ==
  /\ Quiet /\ chain[t] = "run" /\ holder \in {Nobody, t}
  /\ holder' = t /\ chain' = [chain EXCEPT ![t] = "gate"] /\ SetState(t, "RUNNING")
  /\ UNCHANGED <<lock, queue, waiting, pump, process>>

\* TargetCoordinator.acquire that does not look at the holder.
EnterGateAnyway(t) ==
  /\ Quiet /\ t \in Governed /\ chain[t] = "run"
  /\ holder' = t /\ chain' = [chain EXCEPT ![t] = "gate"] /\ SetState(t, "RUNNING")
  /\ UNCHANGED <<lock, queue, waiting, pump, process>>

\* TargetCoordinator.acquire: a governed task enters the publish-sensitive
\* stage if the target is free or its own.
EnterGate(t) ==
  /\ Quiet /\ t \in Governed /\ chain[t] = "run" /\ holder \in {Nobody, t}
  /\ holder' = t /\ chain' = [chain EXCEPT ![t] = "gate"] /\ SetState(t, "RUNNING")
  /\ UNCHANGED <<lock, queue, waiting, pump, process>>

\* A failure in the publish-sensitive stage is retried from the author on,
\* with the lease kept.
RetryChain(t) ==
  /\ Quiet /\ ~shutdown /\ chain[t] = "gate"
  /\ chain' = [chain EXCEPT ![t] = "run"] /\ SetState(t, "RUNNING")
  /\ UNCHANGED <<lock, queue, waiting, holder, pump, process>>

\* What a chain may leave on disk: a run of a governed task can only fail (a
\* conflict on the target included), the vault's verdict decides the others;
\* a shutdown leaves it as it is.
Outcomes(t) ==
  {"FAILED", "CANCELLED"}
  \union (IF shutdown THEN {state[t]} ELSE {})
  \union (IF t \notin Governed THEN {"COMPLETED"} ELSE {})
  \union (IF chain[t] \in {"gate", "resume"} THEN {"COMPLETED", "WAITING_HUMAN"} ELSE {})

ChainEnds(t) ==
  /\ Quiet /\ chain[t] \in {"run", "gate", "resume"}
  /\ \E s \in Outcomes(t) :
       /\ SetState(t, s) /\ Finally(t, s)
       /\ waiting' = IF s = "WAITING_HUMAN" THEN waiting \union {t} ELSE waiting
  /\ UNCHANGED <<queue, process>>

\* An early return of executeOnce is awaited.
ReturnsEarly(t) ==
  /\ Quiet /\ chain[t] = "done"
  /\ Finally(t, state[t])
  /\ UNCHANGED <<state, queue, waiting, process>>

-----------------------------------------------------------------------------
(* Cancelling, shutting down, other processes *)

Cancelled(t) == IF state[t] \in Terminal \union {"absent"} THEN state[t] ELSE "CANCELLED"

\* cancelTask: out of the queue, CANCELLED on disk; a chain of the task ends
\* by itself when its run has been terminated.
CancelTask(t) ==
  /\ Quiet /\ state[t] # "absent"
  /\ queue' = Without(t)
  /\ SetState(t, Cancelled(t))
  /\ UNCHANGED <<lock, chain, waiting, holder, pump, process>>

\* shutdown: nothing new starts, the queue is dropped, running tasks are
\* cancelled or, in interrupt mode, only their processes terminated.
Shutdown ==
  /\ "shutdown" \in Interventions
  /\ Quiet /\ ~shutdown /\ shutdown' = TRUE
  /\ queue' = <<>>
  /\ \/ state' = [t \in Tasks |-> IF t \in Active THEN Cancelled(t) ELSE state[t]]
     \/ UNCHANGED state
  /\ UNCHANGED <<lock, chain, waiting, holder, pump, up, restarts>>

\* A CLI command drives a task under its lock.
OtherLocks(t) ==
  /\ "foreign_lock" \in Interventions /\ t \in Foreign
  /\ state[t] # "absent" /\ lock[t] = "free"
  /\ lock' = [lock EXCEPT ![t] = "other"]
  /\ UNCHANGED <<state, queue, chain, waiting, holder, pump, process>>

\* It ends or dies, with the task in any state a chain can leave it in.
OtherReleases(t) ==
  /\ lock[t] = "other"
  /\ lock' = [lock EXCEPT ![t] = "free"]
  /\ \E s \in (Terminal \union {state[t], "RUNNING", "WAITING_HUMAN"})
              \ (IF t \in Governed THEN {} ELSE {"WAITING_HUMAN"}) : SetState(t, s)
  /\ UNCHANGED <<queue, chain, waiting, holder, pump, process>>

\* The CLI's cancel takes no lock.
OtherCancels(t) ==
  /\ "foreign_cancel" \in Interventions /\ t \in Foreign
  /\ state[t] \notin Terminal \union {"absent"}
  /\ SetState(t, "CANCELLED")
  /\ UNCHANGED <<lock, queue, chain, waiting, holder, pump, process>>

\* The process dies or exits and another scheduler is made: its locks are
\* stale, everything it had in memory is gone.
Restart ==
  /\ restarts < MaxRestarts /\ restarts' = restarts + 1
  /\ lock' = [t \in Tasks |-> IF lock[t] = "own" THEN "free" ELSE lock[t]]
  /\ queue' = <<>> /\ chain' = [t \in Tasks |-> "none"] /\ waiting' = {}
  /\ holder' = Nobody /\ pump' = "off" /\ shutdown' = FALSE /\ up' = TRUE
  /\ UNCHANGED state

-----------------------------------------------------------------------------
Pump == PumpStarts \/ PumpThrows \/ PumpEnds

ChainStep(t) == EnterGate(t) \/ RetryChain(t) \/ ChainEnds(t) \/ ReturnsEarly(t)

Call(t) == Enqueue(t) \/ RunTask(t) \/ ResumeTask(t) \/ CancelTask(t)

Other(t) == OtherLocks(t) \/ OtherReleases(t) \/ OtherCancels(t)

Next == \/ RunNext \/ Pump \/ Shutdown \/ Restart
        \/ \E t \in Tasks : ChainStep(t) \/ Call(t) \/ Other(t)

Spec == Init /\ [][Next]_vars

\* runNext runs on, and chains end (TaskLoop, EveryChainSettles).  It is enough
\* that SOME chain goes on ending.  The end of a chain is a callback that other
\* turns of the event loop may delay, again and again, and never drop: hence
\* strong fairness.
FairSpec ==
  /\ Spec /\ WF_vars(Pump)
  /\ SF_vars(\E t \in Tasks : ChainEnds(t) \/ ReturnsEarly(t))

-----------------------------------------------------------------------------
(***************************************************************************)
(* What should hold.                                                       *)
(***************************************************************************)

\* Every variable keeps its type; only governed tasks hold the target.
TypeOK ==
  /\ state \in [Tasks -> States]
  /\ lock \in [Tasks -> {"free", "own", "other"}]
  /\ queue \in Seq(Tasks)
  /\ chain \in [Tasks -> Chains]
  /\ waiting \in SUBSET Tasks
  /\ holder \in Governed \union {Nobody}
  /\ pump \in {"off", "call", "chain"}
  /\ shutdown \in BOOLEAN /\ up \in BOOLEAN
  /\ restarts \in 0..MaxRestarts

\* No call, resumes of parked tasks and chain ends included, ever makes more
\* than max_concurrent_tasks chains.
SlotsBounded == Cardinality(Active) <= MaxConcurrent

\* This scheduler holds the locks of exactly the tasks it has chains for:
\* parking, every rejection and every ending give the lock back, and no chain
\* runs beside another owner.
LocksMatchChains == \A t \in Tasks : (lock[t] = "own") = (chain[t] # "none")

\* Two tasks are never in the publish-sensitive stage of the same target on
\* their way from the author, whoever is parked, cancelled or retried meanwhile.
TargetExclusive == \A t, u \in Tasks : chain[t] = "gate" /\ chain[u] = "gate" => t = u

\* A task that has taken the target, parked at the Human Gate or not, loses it
\* only by being over (or with the process): no ending, rejection or
\* cancellation of another task with the same target takes the lease away.
LeaseEndsWithTask ==
  [][\A t \in Governed : holder = t /\ holder' # t
       => state'[t] \in Terminal \/ restarts' # restarts]_vars

\* Behind a running chain, every queued task leaves the queue in the end, each
\* ending starting the next, unless the process ends.
QueuedTasksMoveOn ==
  \A t \in Tasks : (InQueue(t) /\ Active # {}) ~> ~InQueue(t) \/ ~up

\* "one failing task never crashes the scheduler loop or blocks other tasks"
\* (lib/scheduler.mjs).  This is not so: see the run sched_crash.
LoopSurvives == up
=============================================================================
