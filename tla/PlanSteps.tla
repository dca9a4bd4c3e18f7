------------------------------ MODULE PlanSteps ------------------------------
(***************************************************************************)
(* A task that is a plan of several steps: executePlannedSteps and         *)
(* executeSingleStep (orchestrator.mjs), the git worktrees its parallel    *)
(* batches run in (lib/worktree.mjs), and what the scheduler's retry and a *)
(* second submission make of a plan that failed half way.                  *)
(*                                                                         *)
(* A batch of one step runs in the task's own directory, uncommitted.  A   *)
(* batch of several runs each step in a worktree made from HEAD, commits   *)
(* it, and merges the branches one after the other.  The plan's record of  *)
(* completed steps is in memory; it reaches the disk at some saves only.   *)
(*                                                                         *)
(* Executors are processes of their own: they edit files between any two   *)
(* steps of the orchestrator, and outlive it.  The content of a file is    *)
(* the set of steps whose edits it holds.  Git is external: a merge takes  *)
(* a file the other side has not touched, may conflict on one both sides   *)
(* have, and refuses to overwrite uncommitted edits.                       *)
(*                                                                         *)
(* Left out: prompts, roles (the state <ROLE>_RUNNING is STEP_RUNNING      *)
(* here), the choice of executors, shutdown (in TaskLoop).                 *)
(***************************************************************************)
EXTENDS Naturals, Sequences, FiniteSets

CONSTANTS
  Files,        \* files of the workspace the steps edit
  Plans,        \* the plans of this instance
  Undefined,    \* a field of a step that is not there
  Retries,      \* attempts the scheduler adds: retries and fallbacks
  Submissions,  \* bound: how often the task is submitted
  MaxCrashes    \* bound: crashes of the process that drives it

\* A step is known by its place in the plan.
StepNumbers == UNION {DOMAIN p.steps : p \in Plans}

ASSUME PlansAssumption ==
  \A p \in Plans :
    /\ p.worktrees \in BOOLEAN
    /\ p.steps \in Seq([depends_on : {Undefined} \union SUBSET Nat,
                        parallel_group : {Undefined} \union Nat,
                        isolated : BOOLEAN])
ASSUME LimitsAssumption ==
  /\ IsFiniteSet(Files)
  /\ Retries \in Nat /\ Submissions \in Nat /\ MaxCrashes \in Nat

VARIABLES
  plan,         \* planner_result.plan and enable_worktree
  disk,         \* the task's record: state, completed steps, retryable
  done,         \* plan_execution in memory: steps recorded as completed
  pc,           \* where the driving process stands
  batch,        \* index of its batch
  todo,         \* steps of the batch still to be run or merged
  live,         \* executors of this attempt that run
  killed,       \* those of them the operator has terminated
  error,        \* the first error thrown, if any
  head,         \* content committed in the task's repository
  tree,         \* content of its working directory
  wt,           \* each step's worktree
  orphans,      \* executors nobody waits for any more, and where they write
  tries,        \* attempts made since the submission
  submissions, crashes,
  edited,       \* history: the files each completed step has edited
  dropped,      \* history: completed steps whose unmerged branch was deleted
  stopped       \* history: a cancellation has terminated a running step

gitVars == <<head, tree, wt>>
chainVars == <<batch, todo, error, tries>>
runVars == <<live, killed, orphans>>
bounds == <<submissions, crashes>>
history == <<edited, dropped, stopped>>
vars == <<plan, disk, done, pc, chainVars, runVars, gitVars, bounds, history>>

Content == [Files -> SUBSET StepNumbers]
Clean == [f \in Files |-> {}]
NoTree == [on |-> FALSE, base |-> Clean, now |-> Clean, branch |-> Clean]

NonRevivable == {"CANCELLED"}
Terminal == NonRevivable \union {"COMPLETED", "FAILED"}

-----------------------------------------------------------------------------
(***************************************************************************)
(* buildPlanBatches.                                                       *)
(***************************************************************************)

StepsOf(p) == DOMAIN p.steps
Needs(p, s) == IF p.steps[s].depends_on = Undefined THEN {} ELSE p.steps[s].depends_on

\* The steps of the first n batches when steps name what they depend on.
Ready(p) ==
  LET ready[n \in Nat] ==
        IF n = 0 THEN {}
        ELSE LET before == ready[n - 1]
             IN before \union {s \in StepsOf(p) : Needs(p, s) \subseteq before}
  IN ready

\* The steps up to s that start a batch when only groups are declared: all
\* but those of the same group as the step before them.
GroupStarts(p, s) ==
  {i \in 1..s : \/ i = 1
                \/ p.steps[i].parallel_group = Undefined
                \/ p.steps[i].parallel_group # p.steps[i - 1].parallel_group}

\* Groups that win over dependencies.
BatchGroupsFirst(p, s) == Cardinality(GroupStarts(p, s))

\* Dependencies win over groups; a plan with neither is run in its order.
\* Batch 0 is the steps whose dependencies can never be met.
Batch(p, s) ==
  CASE \E i \in StepsOf(p) : p.steps[i].depends_on # Undefined ->
         IF s \in Ready(p)[Len(p.steps)]
         THEN Cardinality({n \in 0..Len(p.steps) : s \notin Ready(p)[n]})
         ELSE 0
    [] OTHER -> Cardinality(GroupStarts(p, s))

Steps == StepsOf(plan)
DependsOn(s) == Needs(plan, s)
BatchOf(s) == Batch(plan, s)

Unsatisfiable == \E s \in Steps : BatchOf(s) = 0
Pending(n) == {s \in Steps : BatchOf(s) = n /\ s \notin done}

\* Batches keep the order of the plan.
First(steps) == CHOOSE s \in steps : \A t \in steps : s <= t

\* A batch too many.
LastBatchMissed == \A s \in Steps : BatchOf(s) < batch - 1

LastBatch == \A s \in Steps : BatchOf(s) < batch

\* A single step may ask for a worktree; several always get one each.
UseWorktree(steps) ==
  /\ Cardinality(steps) > 1 \/ \E s \in steps : plan.steps[s].isolated
  /\ plan.worktrees

-----------------------------------------------------------------------------
(***************************************************************************)
(* Attempts: dispatch, executeTask's entry and its catch, retry.           *)
(***************************************************************************)

Init ==
  /\ plan \in Plans
  /\ disk = [state |-> "CREATED", done |-> {}, retryable |-> FALSE]
  /\ done = {} /\ pc = "idle" /\ batch = 1 /\ todo = {} /\ error = "none"
  /\ live = {} /\ killed = {} /\ orphans = {}
  /\ head = Clean /\ tree = Clean /\ wt = [s \in StepNumbers |-> NoTree]
  /\ tries = 0 /\ submissions = 0 /\ crashes = 0
  /\ edited = [s \in StepNumbers |-> {}] /\ dropped = {} /\ stopped = FALSE

Save(state) == disk' = [disk EXCEPT !.state = state, !.done = done]

\* enqueue keeps the record it finds, in whatever state it is.
Submit ==
  /\ pc = "idle" /\ submissions < Submissions
  /\ pc' = "dispatch" /\ submissions' = submissions + 1 /\ tries' = 0
  /\ UNCHANGED <<plan, disk, done, batch, todo, error, runVars, gitVars, crashes, history>>

\* executeTask reads the record again: the steps an earlier attempt has
\* recorded are not run a second time.
Execute ==
  /\ pc = "dispatch"
  /\ batch' = 1 /\ todo' = {}
  /\ IF disk.state \in NonRevivable
     THEN pc' = "returned" /\ UNCHANGED <<disk, done, error>>
     ELSE /\ disk' = [disk EXCEPT !.state = "AUTHOR_RUNNING"]
          /\ done' = disk.done
          /\ IF Unsatisfiable THEN pc' = "catch" /\ error' \in {"retryable", "fatal"}
                              ELSE pc' = "batch" /\ error' = "none"
  /\ UNCHANGED <<plan, tries, runVars, gitVars, bounds, history>>

\* A record whose acceptance command was changed after its creation, or can
\* never run, fails before any executor is started.
Refuse ==
  /\ pc = "dispatch" /\ disk.state \notin NonRevivable
  /\ disk' = [disk EXCEPT !.state = "FAILED", !.retryable = FALSE] /\ pc' = "returned"
  /\ UNCHANGED <<plan, done, chainVars, runVars, gitVars, bounds, history>>

\* Whether an error is retried is read from its text.
Throw(e) == error' = IF error = "none" THEN e ELSE error
ThrowSome == \E e \in {"retryable", "fatal"} : Throw(e)

\* The catch of executeTask that looks at its own error only.
CaughtBlindly ==
  disk' = [state |-> IF error = "cancelled" THEN "CANCELLED" ELSE "FAILED",
           done |-> done, retryable |-> (error = "retryable")]

\* The catch of executeTask: the record with the steps completed so far is
\* saved, unless a cancellation is already on disk.
Caught ==
  disk' = CASE error = "cancelled" -> [state |-> "CANCELLED", done |-> done,
                                       retryable |-> FALSE]
            [] error # "cancelled" /\ disk.state \in NonRevivable -> disk
            [] OTHER -> [state |-> "FAILED", done |-> done,
                         retryable |-> (error = "retryable")]

MayRetry == disk.state = "FAILED" /\ disk.retryable /\ tries < Retries

\* A retry that is not counted.
RetryUncounted ==
  /\ pc = "returned" /\ disk.state = "FAILED" /\ disk.retryable
  /\ pc' = "dispatch"
  /\ UNCHANGED <<plan, disk, done, chainVars, runVars, gitVars, bounds, history>>

\* The same executor again, or, in the record too, the next one of its list.
Retry ==
  /\ pc = "returned" /\ MayRetry
  /\ pc' = "dispatch" /\ tries' = tries + 1
  /\ disk' \in {disk, [disk EXCEPT !.state = "CREATED", !.retryable = FALSE]}
  /\ UNCHANGED <<plan, done, batch, todo, error, runVars, gitVars, bounds, history>>

EndChain ==
  /\ pc = "returned" /\ ~MayRetry
  /\ pc' = "idle" /\ done' = {} /\ batch' = 1 /\ todo' = {} /\ error' = "none"
  /\ UNCHANGED <<plan, disk, tries, runVars, gitVars, bounds, history>>

-----------------------------------------------------------------------------
(***************************************************************************)
(* Batches.                                                                *)
(***************************************************************************)

\* The next batch that has something left to do; after the last one the
\* acceptance gate.
NextBatch ==
  /\ pc = "batch" /\ Pending(batch) = {}
  /\ IF LastBatch THEN pc' = "accept" /\ UNCHANGED batch
                  ELSE batch' = batch + 1 /\ UNCHANGED pc
  /\ UNCHANGED <<plan, disk, done, todo, error, tries, runVars, gitVars, bounds, history>>

StartSequence ==
  /\ pc = "batch" /\ Pending(batch) # {} /\ ~UseWorktree(Pending(batch))
  /\ pc' = "sequence" /\ todo' = Pending(batch)
  /\ UNCHANGED <<plan, disk, done, batch, error, tries, runVars, gitVars, bounds, history>>

\* One step after the other in the task's directory.
StartStep ==
  /\ pc = "sequence" /\ todo # {}
  /\ Save("STEP_RUNNING")
  /\ pc' = "step" /\ live' = {First(todo)}
  /\ UNCHANGED <<plan, done, chainVars, killed, orphans, gitVars, bounds, history>>

EndSequence ==
  /\ pc = "sequence" /\ todo = {}
  /\ pc' = "batch"
  /\ UNCHANGED <<plan, disk, done, chainVars, runVars, gitVars, bounds, history>>

\* A worktree starts from what is committed; an existing one goes first.
Worktrees(steps) ==
  [s \in StepNumbers |->
     IF s \in steps THEN [on |-> TRUE, base |-> head, now |-> head, branch |-> head]
                    ELSE wt[s]]

\* All worktrees of the batch are made, and all its runs started, in one go;
\* a step that cannot be launched does not hold up the others.
StartParallel ==
  /\ pc = "batch" /\ UseWorktree(Pending(batch))
  /\ Save("PARALLEL_RUNNING")
  /\ todo' = Pending(batch)
  /\ \E launched \in SUBSET Pending(batch) :
       /\ live' = launched
       /\ IF launched = Pending(batch)
          THEN pc' = "parallel" /\ UNCHANGED error
          ELSE pc' = "cleanup" /\ ThrowSome
  /\ wt' = Worktrees(Pending(batch))
  /\ UNCHANGED <<plan, done, batch, tries, killed, orphans, head, tree, bounds, history>>

\* The directory is not a git repository.
SessionFails ==
  /\ pc = "batch" /\ UseWorktree(Pending(batch))
  /\ Save("PARALLEL_RUNNING")
  /\ pc' = "catch" /\ ThrowSome
  /\ UNCHANGED <<plan, done, batch, todo, tries, runVars, gitVars, bounds, history>>

\* An executor edits a file where it was started.
Edit(s) ==
  /\ s \in live
  /\ \E f \in Files :
       IF pc = "step"
       THEN s \notin tree[f] /\ tree' = [tree EXCEPT ![f] = @ \union {s}] /\ UNCHANGED wt
       ELSE /\ s \notin wt[s].now[f]
            /\ wt' = [wt EXCEPT ![s].now[f] = @ \union {s}] /\ UNCHANGED tree
  /\ UNCHANGED <<plan, disk, done, pc, chainVars, runVars, head, bounds, history>>

EditedIn(content, s) == {f \in Files : s \in content[f]}

\* A sequential step is recorded and saved.
StepCompletes(s) ==
  /\ pc = "step" /\ s \in live \ killed
  /\ done' = done \union {s} /\ todo' = todo \ {s} /\ pc' = "sequence"
  /\ disk' = [disk EXCEPT !.state = "STEP_RUNNING", !.done = done']
  /\ live' = {} /\ edited' = [edited EXCEPT ![s] = EditedIn(tree, s)]
  /\ UNCHANGED <<plan, batch, error, tries, killed, orphans, gitVars, bounds, dropped, stopped>>

\* A parallel step is recorded in memory, then committed; the commit can fail.
ParallelCompletes(s) ==
  /\ pc \in {"parallel", "cleanup"} /\ s \in live \ killed
  /\ done' = done \union {s} /\ live' = live \ {s}
  /\ edited' = [edited EXCEPT ![s] = EditedIn(wt[s].now, s)]
  /\ \/ /\ wt' = [wt EXCEPT ![s].branch = wt[s].now]
        /\ UNCHANGED <<pc, error>>
     \/ pc' = "cleanup" /\ ThrowSome /\ UNCHANGED wt
  /\ UNCHANGED <<plan, disk, batch, todo, tries, killed, orphans, head, tree, bounds,
                 dropped, stopped>>

\* A run fails, or was terminated by the operator.
StepFails(s) ==
  /\ s \in live /\ live' = live \ {s} /\ killed' = killed \ {s}
  /\ IF s \in killed THEN Throw("cancelled") ELSE ThrowSome
  /\ pc' = IF pc = "step" THEN "catch" ELSE "cleanup"
  /\ UNCHANGED <<plan, disk, done, batch, todo, tries, orphans, gitVars, bounds, history>>

-----------------------------------------------------------------------------
(***************************************************************************)
(* Merging and clean-up.                                                   *)
(***************************************************************************)

StartMerge ==
  /\ pc = "parallel" /\ live = {}
  /\ pc' = "merge"
  /\ UNCHANGED <<plan, disk, done, chainVars, runVars, gitVars, bounds, history>>

Changed(s) == {f \in Files : wt[s].branch[f] # wt[s].base[f]}
\* Files both sides have changed since the worktree was made, and files with
\* uncommitted edits in the directory that is merged into.
Clashing(s) == {f \in Changed(s) : head[f] # wt[s].base[f]}
Dirty(s) == {f \in Changed(s) : tree[f] # head[f]}

Merged(s) == [f \in Files |-> IF f \in Changed(s) THEN head[f] \union wt[s].branch[f]
                                                  ELSE head[f]]

\* A conflict that is aborted and passed over.
MergeSkippingConflicts(s) ==
  /\ pc = "merge" /\ todo # {} /\ s = First(todo)
  /\ \/ Dirty(s) = {} /\ head' = Merged(s)
        /\ tree' = [f \in Files |-> IF f \in Changed(s) THEN head'[f] ELSE tree[f]]
     \/ Dirty(s) \union Clashing(s) # {} /\ UNCHANGED <<head, tree>>
  /\ todo' = todo \ {s}
  /\ UNCHANGED <<plan, disk, done, pc, batch, error, tries, runVars, wt, bounds, history>>

\* The next branch is merged into the current one of the repository; edits of
\* one file on both sides may or may not fit.  A conflict aborts the merge,
\* and the batch.
MergeStep(s) ==
  /\ pc = "merge" /\ todo # {} /\ s = First(todo)
  /\ \/ /\ Dirty(s) = {} /\ head' = Merged(s) /\ todo' = todo \ {s}
        /\ tree' = [f \in Files |-> IF f \in Changed(s) THEN head'[f] ELSE tree[f]]
        /\ UNCHANGED <<pc, error>>
     \/ /\ Dirty(s) \union Clashing(s) # {}
        /\ pc' = "cleanup" /\ ThrowSome /\ UNCHANGED <<head, tree, todo>>
  /\ UNCHANGED <<plan, disk, done, batch, tries, runVars, wt, bounds, history>>

\* Every branch is merged: the record is saved.
EndMerge ==
  /\ pc = "merge" /\ todo = {}
  /\ Save("PARALLEL_RUNNING") /\ pc' = "cleanup"
  /\ UNCHANGED <<plan, done, chainVars, runVars, gitVars, bounds, history>>

\* The finally of a parallel batch, and the catch behind it.  The worktrees go,
\* and with them the branches that are not merged.  cancelTaskRuns looks for
\* runs of the task's own name; the steps' runs bear names of their own, and
\* those still going are left to themselves.
Cleanup ==
  /\ pc = "cleanup"
  /\ IF error = "none" THEN pc' = "batch" /\ UNCHANGED disk
                       ELSE pc' = "returned" /\ Caught
  /\ wt' = [s \in StepNumbers |-> NoTree]
  /\ orphans' = orphans \union (live \X {"worktree"}) /\ live' = {} /\ killed' = {}
  /\ dropped' = dropped \union (done \intersect todo)
  /\ UNCHANGED <<plan, done, chainVars, head, tree, bounds, edited, stopped>>

\* An error outside a parallel batch.
Catch ==
  /\ pc = "catch"
  /\ Caught /\ pc' = "returned"
  /\ UNCHANGED <<plan, done, chainVars, runVars, gitVars, bounds, history>>

\* The acceptance command decides.
Accept ==
  /\ pc = "accept"
  /\ \/ Save("COMPLETED") /\ pc' = "returned" /\ UNCHANGED error
     \/ ThrowSome /\ pc' = "catch" /\ UNCHANGED disk
  /\ UNCHANGED <<plan, done, batch, todo, tries, runVars, gitVars, bounds, history>>

-----------------------------------------------------------------------------
(***************************************************************************)
(* What happens to the plan from outside.                                  *)
(***************************************************************************)

\* An executor nobody waits for still edits: in the task's directory, or in its
\* worktree while there is one at that path.
OrphanEdits(s) ==
  /\ \E f \in Files :
       \/ /\ <<s, "worktree">> \in orphans /\ wt[s].on /\ s \notin wt[s].now[f]
          /\ wt' = [wt EXCEPT ![s].now[f] = @ \union {s}] /\ UNCHANGED tree
       \/ /\ <<s, "tree">> \in orphans /\ s \notin tree[f]
          /\ tree' = [tree EXCEPT ![f] = @ \union {s}] /\ UNCHANGED wt
  /\ UNCHANGED <<plan, disk, done, pc, chainVars, runVars, head, bounds, history>>

OrphanEnds(s) ==
  /\ \E o \in orphans : o[1] = s /\ orphans' = orphans \ {o}
  /\ UNCHANGED <<plan, disk, done, pc, chainVars, live, killed, gitVars, bounds, history>>

\* The operator cancels the task: its running executors are terminated, and
\* the record says so unless the task has ended.
Cancel ==
  /\ pc # "idle" /\ disk.state \notin Terminal
  /\ disk' = [disk EXCEPT !.state = "CANCELLED", !.retryable = FALSE]
  /\ killed' = live /\ stopped' = (stopped \/ live # {})
  /\ UNCHANGED <<plan, done, pc, chainVars, live, orphans, gitVars, bounds, edited, dropped>>

\* The driving process dies; its executors and worktrees stay behind.
Crash ==
  /\ pc # "idle" /\ crashes < MaxCrashes
  /\ crashes' = crashes + 1 /\ pc' = "idle"
  /\ orphans' = orphans \union (live \X {IF pc = "step" THEN "tree" ELSE "worktree"})
  /\ live' = {} /\ killed' = {}
  /\ done' = {} /\ batch' = 1 /\ todo' = {} /\ error' = "none"
  /\ UNCHANGED <<plan, disk, tries, gitVars, submissions, history>>

-----------------------------------------------------------------------------

\* What the driving process does, and the end of the executors it waits for.
Work ==
  \/ Execute \/ Refuse \/ Retry \/ EndChain
  \/ NextBatch \/ StartSequence \/ StartStep \/ EndSequence
  \/ StartParallel \/ SessionFails \/ StartMerge \/ EndMerge \/ Cleanup \/ Catch \/ Accept
  \/ \E s \in StepNumbers :
       StepCompletes(s) \/ ParallelCompletes(s) \/ StepFails(s) \/ MergeStep(s)

Next ==
  \/ Work
  \/ Submit \/ Cancel \/ Crash
  \/ \E s \in StepNumbers : Edit(s) \/ OrphanEdits(s) \/ OrphanEnds(s)

Spec == Init /\ [][Next]_vars

\* The process is not stopped for good, git and the acceptance command return,
\* and an executor is ended by its own end or by its timeout.
FairSpec == Spec /\ WF_vars(Work)

-----------------------------------------------------------------------------
(***************************************************************************)
(* Properties.                                                             *)
(***************************************************************************)

TypeOK ==
  /\ plan \in Plans
  /\ disk \in [state : {"CREATED", "AUTHOR_RUNNING", "STEP_RUNNING", "PARALLEL_RUNNING"}
                         \union Terminal,
               done : SUBSET Steps, retryable : BOOLEAN]
  /\ done \subseteq Steps /\ batch \in 1..(Len(plan.steps) + 1)
  /\ pc \in {"idle", "dispatch", "batch", "sequence", "step", "parallel", "merge",
             "cleanup", "catch", "accept", "returned"}
  /\ todo \subseteq Steps /\ error \in {"none", "retryable", "fatal", "cancelled"}
  /\ killed \subseteq live /\ live \subseteq Steps
  /\ orphans \subseteq Steps \X {"tree", "worktree"}
  /\ head \in Content /\ tree \in Content
  /\ wt \in [StepNumbers -> [on : BOOLEAN, base : Content, now : Content, branch : Content]]
  /\ tries \in 0..Retries /\ submissions \in 0..Submissions /\ crashes \in 0..MaxCrashes
  /\ edited \in [StepNumbers -> SUBSET Files] /\ dropped \subseteq Steps
  /\ stopped \in BOOLEAN

\* The work of step s is in the task's directory.
WorkOf(s) == \A f \in edited[s] : s \in tree[f]

\* A task is COMPLETED only when every step of its plan has run and the work of
\* each is in the task's directory, through conflicts, retries and crashes
\* (executePlannedSteps); steps whose branch was deleted before its merge are
\* the exception, see CompletedStepsAreMerged.
CompletedHoldsItsWork ==
  disk.state = "COMPLETED" =>
    /\ disk.done = Steps
    /\ \A s \in Steps \ dropped : WorkOf(s)

\* A step runs only when every step it depends on has completed and its work
\* is in the task's directory, dropped branches excepted (buildPlanBatches).
DependenciesAreMerged ==
  \A s \in live : \A d \in DependsOn(s) :
    d \in done /\ (d \in dropped \/ WorkOf(d))

\* A cancellation that has terminated a running step is what the record says
\* in the end, whichever of its siblings failed first (executeTask's catch).
CancelHolds == stopped /\ pc = "idle" /\ crashes = 0 => disk.state = "CANCELLED"

\* Every attempt at a plan comes to an end, and there are only so many
\* (Scheduler.#executeOnce).
PlanSettles == (pc # "idle") ~> (pc = "idle")

\* What lib/worktree.mjs:6 says: completed step branches are merged.  A task
\* that is COMPLETED holds the work of all its steps.
CompletedStepsAreMerged == disk.state = "COMPLETED" => \A s \in Steps : WorkOf(s)
=============================================================================
