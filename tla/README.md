# A verification project for the Agent Foundry orchestrator

TLA+ models of the orchestrator's control plane (`src/orchestrator.mjs` and
`src/lib/`), TLC configurations that check them on small instances, and proofs
that TLAPS checks for every instance. The code is the reference: every
definition is translated from it, and `PROJECT.json` ("map") names the lines
each definition stands for. Comments and documents only enter as statements to
be checked against the code.

## 1. Inventory

The orchestrator runs coding agents (executors: child processes) as author and
reviewer of a task, checks the result with an acceptance command, and hands
governed pages to an external vault (an MCP server) that decides whether they
are published. State is kept in files (`tasks/*.json`, `locks/*.lock`,
`runtime/*.json`) that several processes share: a scheduler, CLI commands, a
recovery after a crash.

| component | state it keeps | operations | made correct by |
|---|---|---|---|
| runtime guard (`lib/executor-runtime-guard.mjs`) | per executor: circuit, active processes, wait queue; a safety file | acquireSlot, releaseSlot, recordResult, reset, probe, admit | slots never exceeded, no lost wake-up, a latched circuit needs an operator, admission on fresh evidence |
| executor launch and close (`lib/adapters.mjs`) | live runs, cancel requests, run handles on disk | execAsync, cancelRun, close handlers, monitors | every launch gives its slot back, a cancelled run is reported as such, no two processes in one workspace |
| gated recovery operations (`lib/executor-ops.mjs`) | audit log | reset, probe, admission, log rotation | the gate cannot be skipped or satisfied by stale evidence |
| error classifier (`lib/executor-error-classifier.mjs`) | none | text to category, category to safety action | |
| task loop (`orchestrator.mjs`) | the task record, in memory and on disk | executeTask, runLoopFromReview, runGovernance, resumeGovernance, cancel | only reviewed and accepted work is delivered or published, a refusal is final, cancellations stick |
| recovery (`lib/recovery.mjs`) | none of its own | classifyRecovery, recoverTask | unknown outcomes are parked, known ones continued, nothing is done twice |
| review binding (`lib/reviews.mjs`) | last_review | bind, validate | a decision applies to the run it was made for |
| task store (`lib/store.mjs`) | the files | atomic save, versioned save | a reader never sees half a record |
| governance bridge, vault client (`lib/governance.mjs`, `lib/vault-client.mjs`) | candidate ids; the vault is external | write_candidate, publish_candidate, get_page | at most one candidate, COMPLETED means published |
| scheduler (`lib/scheduler.mjs`) | queue, active, waiting, target leases | enqueue, runNext, runTask, resumeTask, cancelTask, shutdown | slots and locks match chains, one task per target, the queue moves |
| task lock (`lib/tasklock.mjs`) | the lock file | acquire, renew, release | one owner at a time, a crash frees the lock |
| acceptance runner (`lib/acceptance.mjs`) | child handles | run, time out, reap | the trust anchor, no orphan without a handle |
| router, executor status, operator control | none (files read once) | a choice | |
| plan batches and worktrees (`lib/worktree.mjs`, executePlannedSteps) | worktrees, branches, the record of completed steps | batches, commit, merge, clean-up | the work of every completed step is merged, a step runs after what it depends on |
| intent gate (`approval/intent-gate.mjs`, `intent/`, submitTask and approveTaskIntent) | alignment and approval fields of the record | submit, approve, reject, enqueue | what needs a human does not run without one, a rejection holds, an approval is not lost, a capsule cannot talk its way past the rules |
| planner, configuration, workbench, CLI parsing, fixtures | none | | |

How they interact: the scheduler (or a CLI command) takes the task lock and
calls the task loop; the loop launches executors through adapters, which ask
the guard for a slot and report results to it; the loop calls the vault through
the bridge; a parked task is resumed through the scheduler; after a crash,
recovery reads what the loop left on disk. Calls are asynchronous within a
process; between processes everything goes through files.

What is hard here: the record of a task exists twice and every save writes the
whole copy; recovery deduces what happened from fields that retries re-use;
vault calls can time out and still take effect; the lock is a file that is
looked at and then removed or replaced by name; a woken waiter, a timer or a
child's close event runs after the state it relied on has changed; the only
thing that starts the next queued task is the end of another. `PROJECT.json`
("hazards") lists each with its line.

## 2. The modules

All modules follow one rule for concurrency: an action is the code between two
points at which something else can run (an `await`, a callback, for another
process a file operation).

**RuntimeGuard** (one executor, one process). `circuit`, `active` and `queue`
are the entries of the guard's maps, `pc` says where each execAsync call
stands: waiting in the queue, woken but not yet resumed, in its pacing sleep,
running, resolved. `AcquireSlot`, `ResumeAcquire` (a woken waiter's
continuation), `Spawn`, `CwdMissing`, `SpawnThrows`, `Cancelled`, `Settle` are
the call; `ResetCircuit`, `StartProbe`, `ProbePassed`, `ProbeFailed`,
`AdmitExecutor` the operator. Whether a cooldown's deadline has passed is the
clock's choice. A woken waiter may resume at any later moment, which includes
every order of microtasks. A probe's name stands for its evidence id. A circuit
loaded from the safety file may be in any state, so the real probe-then-admit
sequence over two processes is the same behaviour continued. `latched`, `fresh`,
`leaked` and `refusedAwake` are history variables.

**SlotPool** is what the guard promises its callers, with no counter, queue or
wake-up in it: a pool of tickets that a run takes only while one is free, and that
comes back at most once. RuntimeGuard maps to it (`Pool`): the tickets owned are
the runs in their pacing sleep or running, the lost ones are `leaked`.

**TaskLoop** (one task). `disk` is the file, `mem` the driving process' copy,
`w` where that process stands, with the handler (`frame`) an exception would
reach. Content is a version number: the number of the author run that made it.
`file` is the workspace, for a governed task the staged orchestrator-submission.md;
a governed reply may have no page, and then the file stays and only the record's
`content` is new. A candidate is made of the page or, while none was ever staged,
of the last reply (`Submitted`). A formal decision is approve, reject or `other`,
which is refused like a reject (`FormalRefused`) and does not bar the next review.
An author's reply is taken to be non-empty (`lib/recovery.mjs:41-42`).
The vault is its candidates and what is published. `Crash` in an author run leaves
some of its edits in the workspace, as a run that fails does, or a page staged and
not yet in the record. Dispatch, retries and
fallbacks are executeOnce's; `Recover*` are recoverTask's classes; `CliCancel`,
`CliReread` and `CliWrite` are the three steps of the CLI's cancel, which takes
no lock. `Faults` limits the error categories of an instance, `Interventions`
what its operator does. `passed`, `verified`, `unknown` are history.

**TaskLock** (one task's lock file, any number of processes). One action per
file operation: `TryCreate` (open with wx), `Write`, `Inspect`, `Unlink`, the
renewal in three steps, the release in two. Processes may die (`Mortal`),
outlive their lease (`Slow`), or renew it (`Schedulers`). A file just created is
empty, and reads as corrupt, which is what the code does with it.

**Scheduler** (one scheduler, one target). `queue`, `waiting`, `holder` are its
fields, `chain` its active tasks; `lock` and `state` are the files, which other
processes change too. What a chain does inside is TaskLoop's subject; here it
starts, enters the publish-sensitive stage, and ends together with its finally
block. `runNext` takes one task per step, with `pump` set and nothing else of
this process enabled until it is over.

**IntentPolicy** (no state). `Classify` is classifyTargetAsset, `Derived`
deriveActionProposal, `Effective` validateAndComputeEffectiveAction. A capsule is
what the rules read of it: which pattern each of its paths matches once symbolic
links are resolved, which word lists its text matches, its proposal if it has
one. A scope only counts as valid or not, since the real asset's replaces it.

**IntentGate** (one task id; extends IntentPolicy). `disk` and `mem` are the file
and a running chain's copy; `queued` and `parked` the id's place in the gateway's
scheduler, `approving` the import between approveIntent and enqueue. Commands of
the CLI are processes of their own: their queue ends with them. The gateway's
actions are `Submit`, `Approve` and `EnqueueApproved`, `Reject`, `Start`,
`Resume`; the CLI's are `CliSubmit`, `CliApprove`, `CliRun`, and `Reject`,
`Resume` too. A submission brings what nobody strips from a capsule: a state, an
acceptance_binding and a candidate of its own (`Brought`). `Save`
and `End` are what a chain may do to the file, abstracted from TaskLoop; whether
the pre-flight finds an executor is a choice.

**PlanSteps** (one task that is a plan). `BatchOf` is buildPlanBatches as a
function of a step: dependencies win over groups, and batch 0 is what can never
run: it is the instance, for the task's plan, of operators on any plan (`Needs`,
`Ready`, `Batch`). `todo` are the steps of the batch in progress. `Refuse` is
executeOnce's check of the acceptance command before any executor is started. Of
the final states only CANCELLED cannot be taken up again by submitting the task
once more. A batch of one runs in the task's directory (`StartSequence`, `StartStep`,
`StepCompletes`); a batch of several in worktrees (`StartParallel`,
`ParallelCompletes`, `MergeStep`, `Cleanup`). `done` is plan_execution in memory,
`disk.done` what the saves have put in the record. The content of a file is the
set of steps whose edits it holds, so a merge is a union of sets, a conflict two
sets that differ from their base, and lost work a step missing from the set.
Executors edit between any two actions and go on after their attempt as
`orphans`. `edited`, `dropped` and `stopped` are history.

**Children** (the processes of one owner, and the other processes that end
them). A run is `announced` (onRunStart), `running` (spawned, registered, with a
handle), `over` or, when its owner is gone, `lost`; its process is `pid` and
`exit`, and a process id is free as soon as its process has exited, so that
SIGKILL to an id (`KillAt`) may hit a stranger. `timer` is the monitor of
execAsync or the timeout of runAcceptance, `killer` terminateRun. A run that has
timed out and was cancelled as well is reported as its adapter sees it: codex,
claude, vertex-gemini and cline ask for the timeout first (`TimerFirst`), zcode
never does (`TimerBlind`), antigravity asks for the cancellation first. `Cli*` are the
three steps of the cancel command in a process of its own, `Reaper*` those of
reapOrphanedAcceptances.

The MC modules add symmetry sets, the capsules (MCIntentGate), the plans
(MCPlanSteps) and the order in which alike runs are used first (MCChildren); all
other values are in the cfg files.
Definitions such as `ResumeAcquireIf` or `PreflightRejectsHolding` are not in
any next-state relation: each is a plausible bug of the definition after it, and
shows that a property can fail ("mutants" in `PROJECT.json`).

## 3. What is checked

Runs that pass:

| run | question | bounds | distinct states |
|---|---|---|---|
| slots | the guard implements SlotPool; re-checks of woken waiters, gated recovery, every waiter settles | 3 calls, 2 probes, 2 slots, all categories | 49,000 |
| direct | what a direct task delivers was reviewed and accepted; run budget; every chain ends | 2 revisions, 1 retry, 1 fallback, 1 crash, the scheduler's cancel | 408,000 |
| governed | a page that is published was reviewed and accepted, what is published was submitted last, and COMPLETED means published; a reject is final and only an approval publishes; a decision is applied to its own run; unknown stays parked | 1 retry, 2 crashes, every recovery and intervention, 3 author runs, 2 candidates | 4,849,000 |
| lock_safety | one owner unless a living owner's file was taken away; a settled lock excludes; the lock can always be had again; a loss is noticed | 2 schedulers and a CLI command, 2 mortal, all slow | 243,000 |
| sched | locks match chains, a target has one task, a lease ends with its task, over a restart; the queue moves on | 3 tasks (2 on the target), 2 slots, all interventions, other processes lock one task | 375,000 |
| intent_gate | what waits for a human does not run, a rejection holds, an approval is on its way; the rules of the policy | 3 submissions or CLI runs, 4 kinds of brought fields, 2 deaths; 300,000 capsules | 38,000 |
| plan_steps | completed means merged, dependencies first, a cancellation holds, every attempt ends | 6 plans of 2 or 3 steps, 1 file, 1 retry, 2 submissions, 1 crash | 296,000 |
| children | one process per workspace, cancelled is reported, orphans have handles, what was asked to end does | 2 executor runs, 1 acceptance command, 2 process ids, 1 death or shutdown, 1 call of the cancel command or reaper, one executor of each kind of `TimerFirst` and `TimerBlind` | 1,215,000 |

Why the bounds are enough. Three calls and two probes over two slots have a
waiter behind a waiter while both slots are released at once, and two probes let
one probe's evidence meet another's failure. Two revisions give a fix, one retry
gives a second attempt over the fields of the first, one fallback resets the
retry count. In `direct`, MaxRuns (13) is above what budget and crash allow and
cuts nothing off; in the governed runs it is 3, which is a first run, a fix and
one more, by retry or after a crash; behaviours that want a fourth are cut off.
Two candidates are enough to have one too many; a second crash hits a recovery.
Three processes are a holder, a contender that looked at the lock earlier, and
one that took it over meanwhile. Three tasks are one in the gate, one that wants
to enter it, one that only needs a slot. Other
processes (`Foreign`) lock and cancel only the direct task in `sched`, which is
enough for a lock that is not the scheduler's own (what else the run checks of
foreign locks on any task is proved); all three in `sched_crash`. Three
submissions are one that waits, one that replaces or queues it, and one after it
has run; two deaths take the gateway and a command. The two submissions of
MCIntentGate are one capsule for each verdict, since the gate sees no more of a
capsule than that, each with four kinds of fields of its own: none of interest, a
right and a wrong trust anchor, and the copy of a file that governance has parked.
The rules are checked over every set of words without a
proposal, and every action with every way to misdeclare its target. The plans of
MCPlanSteps are a pair in parallel with a step behind it, a step with a pair behind
it, a group, a single step that asks for a worktree, a cycle, and a pair whose
worktrees are switched off; with one file every two edits meet in it, which is the
case in which a merge can fail or lose something, and since a merge treats files
one by one, a second file adds no new way to lose an edit of the first. Two
submissions are a plan and its return after it has failed. In Children two runs of
one task and a command over two process ids give a late close, a next run beside
it and an id used again; one of the executors asks for
the timeout first and one not at all (an adapter that asks for the cancellation first
reports a run that was cancelled as the second does). The constraint `InOrder` says
which of the two ids, which are alike, is used first, and follows one of the two
orders of the executors; the theorems are about every order.

Fairness. RuntimeGuard: a due continuation runs, a pacing timer fires, a child
exits or is killed by its monitor (weak). TaskLoop: every call a chain awaits has
a timeout, so a chain that can move does (weak). TaskLock: a living process goes
on with its protocol, and a scheduler that has lost its lock ends its task;
`LockRecovers` assumes besides that owners come to an end, and says so in its
premise. Scheduler: runNext runs on (weak), and the end of a chain is a callback
that other turns of the event loop may delay and never drop (strong). It is stated
for the end of some chain, not of each. PlanSteps: the driving process goes on,
and an executor ends by itself or by its timeout. Children: the owner's timers
fire; nothing says that a process ends when it is asked to, so what bounds it is
the escalation to SIGKILL. No fairness is assumed for operators, calls, crashes or
other processes.

`CHECK_DEADLOCK FALSE` is used where a task, a queue or a process really comes
to its end (TaskLoop, Scheduler, IntentGate, PlanSteps, Children).

Runs that find a violation, each of a sentence in a comment or document of the
code, quoted in `PROJECT.json` ("findings"):

| run | what happens |
|---|---|
| auto_recovery | a late 429 overwrites a 403's latch, the cooldown elapses, a late success closes the circuit without an operator |
| lock_empty | a lock file just created is empty, passes for corrupt and is removed: two owners |
| sched_crash | a queued task that cannot start throws out of a finally block and ends the process |
| plan_lost_work | a step of a parallel batch completes, its sibling fails, worktrees and branches are deleted; the retry skips the step and the task is COMPLETED without its work |

Conditions in the passing properties. Several are the strongest form that holds
beside what the code does:

- `NoIdleSlotWhileWaiting` and `EveryWaiterSettles` except a woken waiter that
  was refused (it wakes nobody) and, for the second, a leaked slot.
- `OneOwner` is two statements: `ExclusiveUnlessTorn` and `SettledLockExcludes`. The
  first assumes that no living owner's file was taken away.
- `DeliveredIsReviewed`, `PublishedWasEarned` and `ReviewAppliesToItsRun` hold
  without retries and fallbacks whatever crashes (`RevisionsAreUnique`, as for a
  `run` from the CLI), and with them up to the first crash (`DecisionsAreFresh`;
  both proved): attempts number their revisions from 1 again and re-use the record's
  fields, but only a recovery goes by these numbers. After a retry one crash breaks
  the last two, at any budget. The first lasts to a second crash when
  `max_revisions` is above 1 (the default is 3; TLC checks 2; proved); at 1, and
  after the second, it is false (divergences).
- `PublishedIsLatest` and `CrashedAuthorStaysParked` need `RevisionsAreUnique`.
- `PublishedWasEarned` is about pages. A governed task whose author never sent one
  publishes the bare reply, which no QA reviewer was pointed to (divergences).
- `RejectIsFinal` allows the CLI's cancel, which writes an older copy of the
  record, to lose the reject together with the task. It is about the word reject:
  a decision that is neither word is refused and asked for again (divergences).
- `CancelledIsReported` lets an adapter of `TimerFirst` report a run that timed out
  and was cancelled as timed out (divergences).
- `TargetExclusive` is about tasks on their way from the author: a task resumed
  after a restart, a recovery and a run of the CLI take no lease.
- `QueuedTasksMoveOn` ends where the process does (`\/ ~up`, sched_crash).
- `OnlyClearedRuns` has three exceptions (`adopted`): the id is queued by a
  submission or an approval that was about another definition; the waiting one
  replaces a queued one and brings a trust anchor of its own; or it brings a
  candidate and is resumed.
- `RejectedStaysOut` is about a task that nothing runs when it is rejected, and
  until the pre-flight makes a failure of the rejection.
- `ApprovedIsOnItsWay` leaves out an id in the waiting set and what a process
  had when it ended (`orphaned`), which includes every approval by the CLI.
- `RiskyCapsulesWait` is `ProtectedAssetsWait` and `DangerousWordsWait`; the second leaves out a deployment that also speaks of a cleanup.
- `CompletedHoldsItsWork` and `DependenciesAreMerged` except steps whose unmerged
  branch was deleted (plan_lost_work).
- `CancelHolds` is about a cancellation that has terminated a running step: one that
  finds no run is overwritten by the next save.
- `SingleWriter` and the reporting of a cancellation are about an owner that lives:
  after a crash an executor goes on beside the next run.
- `ChildrenAreBounded` leaves executors out that nobody has cancelled: their
  timeouts send SIGTERM only.

### Divergences seen while modelling, without a run of their own

The models contain these behaviours too (except where said); each contradicts a
comment or document, or would surprise an operator, and stands here with the line
where it happens. Paths are under `src/`.

| where | what the code does |
|---|---|
| `lib/executor-runtime-guard.mjs:283` | a woken waiter that is refused does not wake the next one, which may wait for ever |
| `lib/executor-runtime-guard.mjs:297` | the circuit is not looked at after the pacing sleep: a run is spawned on an executor latched meanwhile |
| `lib/executor-runtime-guard.mjs:253` | an elapsed cooldown becomes HALF_OPEN, which admits no production run: it never closes without an operator |
| `lib/adapters.mjs:213` | a launch that throws after its reservation never gives the slot back |
| `orchestrator.mjs:466-484` | a crash, or a lost answer, between write_candidate and the save of the id leads to a second candidate |
| `orchestrator.mjs:464` | a retry makes and reviews a new page and then publishes the candidate of the attempt before |
| `lib/recovery.mjs:41` | a crashed author run of a retry passes for a finished one: the record still holds the earlier attempt's result |
| `orchestrator.mjs:1151` | a resumed fix runs under AUTHOR_RUNNING: a second crash during it parks the task |
| `orchestrator.mjs:323` | a PASS is not saved before acceptance: after a crash the reviewer is asked again |
| `orchestrator.mjs:67`, `:1703` | saves overwrite a CANCELLED on disk, and the CLI's cancel can overwrite a COMPLETED saved after its re-read |
| `orchestrator.mjs:1064` | a reviewer or fix run killed by a cancel or a shutdown in interrupt mode makes the loop record FAILED |
| `lib/tasklock.mjs:94`, `:117`, `:126` | takeover, renewal and release act on the file by name after an earlier look at it |
| `lib/scheduler.mjs:290` | cancelling a parked task leaves its target held for the life of the process |
| `lib/scheduler.mjs:776` | a task resumed after a restart publishes without the target's lease |
| `lib/scheduler.mjs:113`, `:164` | nothing leaves the waiting set, and enqueue swallows a task that is in it |
| `lib/scheduler.mjs:627`, `:477` | a COMPLETED task enqueued again is run again; a failed preflight writes FAILED over CANCELLED |
| `lib/scheduler.mjs:163`, `:174` | an automatic submission under the id of a task at the gate is accepted, queues that id and so runs the waiting definition, which no human has approved |
| `orchestrator.mjs:1392-1397` | between the approval and the enqueue another submission may replace the file, and is run in the approved one's place |
| `orchestrator.mjs:1398` | approving a task that governance has parked leaves it APPROVED for good: enqueue finds it in the waiting set, and resume wants WAITING_HUMAN |
| `orchestrator.mjs:1508`, `:1516` | submit and approve of the CLI queue in a scheduler that ends with the command; with `--run`, process.exit kills the chain just started |
| `orchestrator.mjs:1250` | the run command saves a new record before it asks for the lock, over a task that runs, waits at the gate or is cancelled |
| `approval/intent-gate.mjs:274` | rejecting a task while a chain runs it is overwritten by the chain's next save |
| `approval/intent-gate.mjs:143` | a queued task whose id is submitted again for a human loses its trust anchor, and what is dispatched fails as TASK_FILE_TAMPERED; but the capsule is saved as submitted, and with an acceptance_binding of its own the waiting definition is run |
| `approval/intent-gate.mjs:143` | a capsule parked for a human may bring a candidate and the mirror of a task that governance has parked: it can be resumed without the human |
| `intent/asset-classifier.mjs:272` | the text decides also for a path that matches no pattern (the comment says: when path is empty) |
| `intent/asset-classifier.mjs:152` | a declared path is classified before the path of the governed candidate (not before the capsule's own) |
| `intent/action-validator.mjs:173` | a deployment or a governed page whose text also reads as a routine cleanup is judged as a deletion in /tmp, and automatic |
| `approval/intent-policy.mjs` | evaluateIntentPolicy, the policy of phase 9, is called by tests only |
| `orchestrator.mjs:975`, `:1164` | recovery re-uses a review by its revision number only, where `lib/reviews.mjs:3-5` asks for the triple of task, revision and run: after a retry and a crash the review of the earlier attempt is applied to a version no reviewer has seen; with one revision the task is then COMPLETED, and a governed one, whose attempt failed after the hand-over to the Governance Plane, is published at any budget |
| `lib/recovery.mjs:41`, `orchestrator.mjs:1164` | two crashes complete a task with unreviewed work at any budget: an attempt ends at its last revision after a PASS (its acceptance failed) and is retried; a crash in the retry's author run passes for a finished one, its partial edits are put under review as REVIEW_RUNNING, and after a crash there the recovery applies the earlier attempt's PASS. `lib/recovery.mjs:13-14` says: "A crash is NEVER papered over" |
| `lib/scheduler.mjs:706` | a denied task leaves no error class of its own; the one of an earlier attempt makes the scheduler retry it, where `orchestrator.mjs:519-520` says "never retries or downgrades" |
| `orchestrator.mjs:829`, `:692` | cancelTaskRuns is asked for the task's id while the steps' runs are registered as `<task>-S<step>`: the siblings of a failed step go on after their worktrees are gone; the cancel command does not find them by the task's id either (`:1650`) |
| `lib/worktree.mjs:122`, `:170` | worktrees start from HEAD and do not see the uncommitted work of earlier sequential steps; a merge refuses to touch a file with such edits |
| `orchestrator.mjs:67` | a cancellation of a plan that finds no live run is overwritten by the plan's next save |
| `lib/adapters.mjs:317`, `:359-396` | a cancellation before the spawn, and the monitors of a run, send SIGTERM and never escalate: an executor that ignores it is bounded by nothing |
| `orchestrator.mjs:1678`, `lib/acceptance.mjs:456` | the cancel command and the reaper check whose process it is before SIGTERM, not again before SIGKILL: an id used again meanwhile is killed, where `lib/acceptance.mjs:334-335` says the reaper "can never take a process that a live orchestrator is still managing" |
| `orchestrator.mjs:1673-1674` | the cancel command's mark may bring back the handle of a run that has just closed |
| `lib/scheduler.mjs:317-382` | shutdown's SIGTERM makes an acceptance command fail; the chain starts a fix run after the pass that cancels runs, and process.exit leaves it behind |
| `orchestrator.mjs:430` | the formal reviewer is shown the author's last reply, the candidate holds the page staged last: they differ in wording always, and in substance when the last reply had no page |
| `orchestrator.mjs:401`, `:461-463` | while no reply has had a page nothing is staged, and the bare last reply is published; the QA reviewer was sent to a file that is not there, where `:398-399` says the reviewer "can read the exact bytes that would be published" and `:182` tells him it "is the exact content that would be published" |
| `orchestrator.mjs:401`, `:912` | a fix or retry whose reply has no page leaves the page staged before it, which is reviewed and published as that run's work |
| `orchestrator.mjs:494`, `:513` | a formal decision that is neither approve nor reject is saved and refused, and on the next retry or recovery another reviewer is asked, who may approve; `:483-486` promises "no silent re-review" of a reject |
| `lib/adapters.mjs:527`, `:572`, `:736`, `:817`, `:945` | a run that timed out and was then cancelled is returned as failed, where `:464-466` says a run terminated by a cancel request is "never" surfaced as a failure; antigravity (`:654`) and zcode (`:1157`, which ignores the timeout) let the cancellation win |

## 4. What is proved

TLAPS checks these for every value of the constants, under the modules' named
assumptions only: the sets of runs, probes, tasks are finite, limits are
positive, the "nobody" values are not members.

**RuntimeGuardProofs.** `GuardInvariant` proves `Spec => []GuardInv`. `SlotsBounded`
(a definition that no run lists any more) alone is not inductive: it needs that the counter is exactly the holders plus the
leaked slots (`SlotAccounting`), that the queue holds each waiting run once
(`QueueIsWaiters`), and types. The invariant falls into a slot half (`SlotInv`)
and a circuit half (`CircuitInv`): each way a run moves (take or wait, refuse,
release, inner move, lost slot) has a lemma about the first, the record updates
have lemmas about the second, and the actions combine them. From it follow
`TypeCorrectness`, `SlotsNeverExceedMaxParallel`, `WakeUpsSuffice`; the action
properties `ReservationsArePermitted` and `RecoveryIsGated` are proved
action by action on top of it (the last
rests on the conjunct of the invariant that evidence on a circuit is fresh: every
failure clears both). `GuardImplementsPool` is the refinement: with the slot half
of the invariant, `active` below the limit is the same as a ticket free in
SlotPool, so each action maps to one of the pool's or to a stutter.

**TaskLoopProofs.** `TypeCorrectness` needs one fact besides the types: from the
formal review on, the record names a candidate (`CandidateNamed`). `RejectsAreFinal`
rests on `RejectInv`: nothing is parked or published without an approve in its own
record (for its second half see `ApprovedArePublished`), the copy a chain works with knows of a reject on disk, and the copy the
CLI's cancel has read knows of no other. `RunsAreBounded` proves `RunBudget` from
`RunInv`, which bounds the runs at every place of a chain: by those of the attempts
before this one (`Spent`, a function of the two counters of executeOnce) and those
the attempt may have made at this step (`Allowed`, from the revision number). That
is not enough by itself: a recovery or resume can drive the task too, and a
recovered fix or review would make runs that no counter has seen. So the invariant
also says that, before a crash, a record nobody drives is new or at rest (`Over`),
and from one at rest only governance is taken up again, which starts no author.

**TaskLoopReviewProofs.** `VaultInv` says that whoever says COMPLETED, on disk or in
a copy, names a published candidate. `EarnedInv` holds while nothing has been
retried. It says of the record on disk and of the driven one what their state and revision
numbers promise of the workspace and of the candidate they name, which is what
the record submits (`SoundAt`, `SubmissionAt`), that every candidate with a page is
of a good version (`Clean`), and of the step the process stands at
what has been judged by then (`AtStep`). Both records are in it because a crash
leaves the one on disk, which lags behind, and a recovery deduces from it alone what
has been judged. Each group of actions has a
lemma. From the two follow `CrashedAuthorsStayParked` and `PublicationsAreLatest`, and the
half without retries of `PublicationsWereEarned`, `ReviewsApplyToTheirRuns` and
`DeliveriesWereReviewed`.

With retries `EarnedInv` is silent. `SteadyInv` holds up to the first crash: a record
is under review only while its chain is, so no recovery re-uses a decision and what
stands at the acceptance was reviewed as it is; a record that awaits its candidate,
or is a completed direct one, has a good workspace, which only the author changes.
It gives the three theorems up to the first crash. For direct tasks after the first crash
there is `DirectInv`. With retries the revision numbers no longer tell attempts
apart, and what a recovery must not do is apply a decision of an earlier attempt.
`DirectInv` says that no record a first crash can leave lets it (`NotReused`): until
then a record with a decision has `revisions_used` above 1 (`Apart`), so the first
result of a new attempt is not the one recovery looks for, and every later one has
only decisions with lower numbers (`Numbered`). It uses that the budget is above 1
where an attempt fails at its end, and that nothing is recovered before a crash,
which is `RunInv`. After the first crash a record can hold any decision under any
number, which is why the second breaks it.

**TaskLockProofs.** `TypeOK /\ ExclusiveUnlessTorn` is inductive as it stands
(`OwnersAreExclusive`), and `LockGivesOneOwner` puts it together with the next: an owner can be displaced only by an Unlink, Rename or
Disown of another process, and these are what sets `torn`. `SettledLocksExclude`
proves the action property step by step: with the owner in place and nobody about
to act on an older look, each file operation of another process either leaves the
file alone or is disabled.

**SchedulerProofs.** The inductive invariant `SchedulerInv` adds to `TypeOK`,
`LocksMatchChains` and `SlotsBounded` that the task in the gate holds the target
(`GateHolds`), without which a second entry could not be excluded. From it:
`SlotsAreBounded`, `LocksAreOfChains`, `TargetsAreExclusive`; and
`LeasesEndWithTheirTasks`, since only `Finally` of the holder's own chain and a
restart take a lease away.

**IntentGateProofs.** Of the rules: `ProtectedAssetsWaitHolds` and
`DangerousWordsWaitHolds` hold for every set of capsules (a path of the capsule's
own decides its class; an automatic verdict needs a harmless action), and `RiskyCapsulesWaitHolds` is
both of the specification. Of the gate:
`GateInv` is the types, that the file exists for whatever runs it, queues it or is
about to queue it, and that while a rejection stands the file is CANCELLED and
nobody runs it. `OnlyClearedRuns` is not inductive, since a chain takes its verdict
from a file that anybody may have replaced. What carries it is the trust anchor:
without a valid one nothing is dispatched, and a definition at the gate gets into
the queue with one only by being queued, or by bringing one into the file of a
queued task. So `Cleared` says that a queued file at the gate with a valid anchor,
and a running copy at the gate, were adopted. From it follow
`GateTypeCorrect`, `OnlyClearedRunsHolds` and `RejectedStaysOutHolds`.
`ApprovedIsOnItsWayHolds` goes through the actions on top of `GateInv`: each hands
an approved definition from the approval to the queue, to a chain, or ends it.
`LiesDoNotHelpHolds` is about the rules alone: a declared target that is not the
real one adds a risk and takes none away, for every capsule.

**PlanStepsProofs.** `PlanInv` carries the types, the batches and the content.
`Ready` is a recursive function over the number of rounds, and what it is about, that
a step's dependencies are in earlier batches and that every batch up to the last is
inhabited, is an induction. The library's induction theorems cannot be instantiated
here, so the module derives what it needs from least elements: a set of naturals with
0 and every successor is all of them (`NaturalsAreGenerated`), hence an iteration
exists and satisfies its recursion (`IterationExists`, `ReadyRecursion`). From it,
`BeforeLemma` and `BatchLemma` say for every plan, also one with cycles, that a batch
needs only earlier ones. `FilesInv` then says what may be in a file, `WorkInv` which
steps' edits must be: those of a completed step are in the task's directory, in its
branch, or the branch was deleted (`dropped`). `TypeCorrectness`,
`CompletedTasksHoldTheirWork` and `DependenciesComeFirst` follow. `CancellationsHold`: what carries `CancelHolds` is that after a
run was terminated the record stays CANCELLED while the chain is on its way to a
catch, with that run still to be waited for or an error already thrown, and no save
comes in between (`Cancelling`); where executors may run and errors are pending is
`Progress`. The catch then writes CANCELLED or keeps what is on disk.
`WorktreesAreRemoved` proves `HermeticCleanup`, stated beside it: between attempts
there are no worktrees unless the process died.

**ChildrenProofs.** `ChildInv` is the types, that a process belongs to a run that has
been spawned and not closed, with a handle while nobody has seen its end
(`Processes`), that a task has one run in progress (`OneRun`), and that a cancelled
run stays noted in `requested` or marked in its handle until it is closed, and is
then reported as cancelled or, by an adapter that asks first, as timed out
(`Requests`). Each conjunct has a lemma that goes through the actions. From it:
`TypeCorrectness`, `OneProcessPerTask`, `CancellationsAreReported`,
`OrphansHaveHandles`.

## 5. What is only model-checked, and what is not modelled

Liveness (`EveryWaiterSettles`, `EveryChainSettles`, `LockRecovers`,
`LossIsNoticed`, `QueuedTasksMoveOn`, `PlanSettles`, `ChildrenAreBounded`) stays
with TLC: the prover does neither fairness nor ENABLED. Every invariant of a
passing run has a theorem, and so has every action property.

Left out on purpose:

- RuntimeGuard: the safety file shared between processes (a plan item), the
  lengths of sleeps and deadlines. Each call runs once, so starvation of a
  waiter by endlessly arriving new calls is outside the instance.
- TaskLoop: prompts; plans are in PlanSteps. A
  dispatch starts from CREATED (what the scheduler does with tasks in other
  states is in Scheduler). `state_version` is compared by no caller. The
  availability gate of classifyRecovery (`lib/recovery.mjs:106`) indexes a Map
  like an object and never fires. The reuse of an acceptance result
  (`lib/recovery.mjs:60`) asks for a field no record has, so acceptance always
  runs again. An executor child that outlives its crashed parent is in
  Children; the content it then writes beside a recovery is a plan item.
- TaskLock: a process that died does not come back under its pid; temporary
  renewal files left by a crash disturb nobody.
- Scheduler: unreadable task files, the restart scan (a report), several
  targets (they do not interact). The queue is kept free of duplicates by
  enqueue, so `Without` takes out one entry where the code filters.
- IntentGate: slots, shutdown and other tasks (Scheduler has them), the race for
  the lock file (TaskLock has it), two approvals at once; a gateway is one process
  with one scheduler. submitTask with `withIntentGate: false` and a proposal
  taken from the planner are the same submissions with another verdict.
- PlanSteps: roles and the choice of executors, shutdown (TaskLoop has it), merges
  of renamed or deleted files. Git is external. A cancellation by the CLI finds no
  run of a plan and is the case of `Cancel` with nothing alive.
- Children: output, exit codes beyond zero or not, a handle that could not be
  written (the code goes on without), the 'error' event of a signal that could not
  be sent, and a grandchild that holds the pipes (then 'close' does not come).
- Log rotation, router and status, planner, configuration: planned or stateless;
  see `PROJECT.json` ("components").

## 6. Plan

Done, in this order: RuntimeGuard (with proofs), TaskLoop (with proofs), TaskLock (with
proofs), Scheduler (with proofs), IntentPolicy and IntentGate (with proofs);
SlotPool and the refinement from RuntimeGuard (with its proof), PlanSteps (with
proofs), Children (with proofs). Left:

1. `Publishing`: two chains, or a CLI run beside the scheduler, on one target
   and one workspace: lease, shared staged page, executor children that outlive
   a crash. Composes Scheduler's lease with a reduced TaskLoop; its abstract
   specification is a target with at most one publisher. Runs: two governed
   tasks with a restart; one of them driven by the CLI.
2. `SafetyFile`: circuits of several processes over one file (last writer
   wins). Run: two processes, two executors.
3. Operators: executor router and error classifier against reference
   definitions over bounded inputs.
4. `LogRotation`: a crash between renames.
5. Theorems: the invariants of the modules above, as they are written.
