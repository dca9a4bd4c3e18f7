----------------------------- MODULE IntentGate -----------------------------
(***************************************************************************)
(* The life of one task id at the human gate: submission, approval and     *)
(* rejection through a gateway (one process with one scheduler) and the    *)
(* same through the CLI (a process per command), and the chains that run   *)
(* it.  approval/intent-gate.mjs, submitTask, approveTaskIntent,           *)
(* rejectTaskIntent and loadTaskFile in orchestrator.mjs, and what enqueue *)
(* and the start of a chain do with the file they find.                    *)
(*                                                                         *)
(* What a chain does between its saves is TaskLoop's, slots and the other  *)
(* tasks are Scheduler's, the files of the lock TaskLock's.                *)
(***************************************************************************)
EXTENDS IntentPolicy

CONSTANTS
  Submissions,      \* the capsules that are submitted under the task's id
  Brought,          \* what they may bring of a task file that nobody strips
  MaxSubmissions,   \* bound: submissions and CLI runs
  MaxDeaths         \* bound: deaths of the gateway or of a CLI process

Terminal == {"COMPLETED", "FAILED", "CANCELLED"}
States == Terminal \union {"CREATED", "READY", "WAITING_HUMAN", "APPROVED", "RUNNING"}
Intents == {"none", "AUTO_ALLOWED", "PENDING_HUMAN", "APPROVED", "CANCELLED"}

\* acceptance_binding, the trust anchor of the acceptance command: missing, that
\* of the file's command, or another's.
Anchors == {"none", "valid", "stale"}

\* candidate: the vault's id of the staged page is in the file.
Record == [state : States, intent : Intents, anchor : Anchors, candidate : BOOLEAN]
Absent == [state |-> "absent"]

ASSUME SubmissionsAssumption ==
  /\ Submissions \subseteq Capsule
  /\ Brought \subseteq [state : States, anchor : Anchors, candidate : BOOLEAN]
ASSUME BoundsAssumption == MaxSubmissions \in Nat /\ MaxDeaths \in Nat

VARIABLES
  disk,         \* the task file
  mem,          \* the copy the running chain works on and saves
  chain,        \* who runs the task; it holds the task's lock
  queued,       \* the gateway's scheduler: id in queue,
  parked,       \*   id in waiting, which nothing ever removes,
  approving,    \*   approveTaskIntent between approveIntent and enqueue
  submissions, deaths,
  history       \* see Observed

fileVars == <<disk, mem, chain>>
gatewayVars == <<queued, parked, approving>>
bounds == <<submissions, deaths>>
vars == <<fileVars, gatewayVars, bounds, history>>

\* rejected: by a human while nothing ran it, and neither submitted nor failed
\* by the pre-flight since;
\* adopted: a definition at the gate was queued by a submission or an approval
\* of another one, brought its own anchor into the file of a queued one, or
\* brought a candidate and was resumed; orphaned: a process is gone since the
\* last approval, which may have had the task.
Observed == [rejected : BOOLEAN, adopted : BOOLEAN, orphaned : BOOLEAN]

TypeOK ==
  /\ disk \in Record \union {Absent}
  /\ mem \in Record \union {Absent}
  /\ chain \in {"none", "run", "resume", "cli"}
  /\ queued \in BOOLEAN /\ parked \in BOOLEAN /\ approving \in BOOLEAN
  /\ submissions \in 0 .. MaxSubmissions /\ deaths \in 0 .. MaxDeaths
  /\ history \in Observed

Init ==
  /\ disk = Absent /\ mem = Absent /\ chain = "none"
  /\ queued = FALSE /\ parked = FALSE /\ approving = FALSE
  /\ submissions = 0 /\ deaths = 0
  /\ history = [rejected |-> FALSE, adopted |-> FALSE, orphaned |-> FALSE]

-----------------------------------------------------------------------------
(* Submission *)

AtTheGate(file) == file # Absent /\ file.intent = "PENDING_HUMAN"

\* alignTaskIntent for a task that needs a human: the capsule, with what it
\* brings, replaces whatever file the id has, also that of a task that is queued
\* or runs.
Park(b) ==
  /\ disk' = [state |-> "WAITING_HUMAN", intent |-> "PENDING_HUMAN",
              anchor |-> b.anchor, candidate |-> b.candidate]
  /\ history' = [history EXCEPT !.rejected = FALSE,
                   !.adopted = (@ /\ chain # "none") \/ (queued /\ b.anchor = "valid")]

\* enqueue gives an anchor to what has none.
AnchorOf(anchor) == IF anchor = "none" THEN "valid" ELSE anchor

\* enqueue, the file: a new one is created and gets an anchor if it brings none.
\* An existing one is kept as it is; whether its anchor is written anew depends
\* on the capsule's, not on its own.
Adopt(b) ==
  /\ disk' = IF disk = Absent
               THEN [state |-> b.state, intent |-> "AUTO_ALLOWED",
                     anchor |-> AnchorOf(b.anchor), candidate |-> b.candidate]
             ELSE IF b.anchor = "none" THEN [disk EXCEPT !.anchor = "valid"]
             ELSE disk
  /\ history' = [history EXCEPT !.rejected = FALSE, !.adopted = @ \/ AtTheGate(disk)]

\* enqueue returns early for an id it has.
Known == queued \/ parked \/ chain \in {"run", "resume"}

\* Submit that goes on to enqueue what needs a human.
SubmitGoesOn(c, b) ==
  /\ submissions < MaxSubmissions /\ ~Refused(c)
  /\ submissions' = submissions + 1
  /\ IF ~Automatic(c)
       THEN /\ disk' = [state |-> "WAITING_HUMAN", intent |-> "PENDING_HUMAN",
                        anchor |-> "valid", candidate |-> b.candidate]
            /\ queued' = TRUE /\ UNCHANGED history
     ELSE IF Known THEN UNCHANGED <<disk, queued, history>>
     ELSE Adopt(b) /\ queued' = TRUE
  /\ UNCHANGED <<mem, chain, parked, approving, deaths>>

Submit(c, b) ==
  /\ submissions < MaxSubmissions /\ ~Refused(c)
  /\ submissions' = submissions + 1
  /\ IF ~Automatic(c) THEN Park(b) /\ UNCHANGED queued
     ELSE IF Known THEN UNCHANGED <<disk, queued, history>>
     ELSE Adopt(b) /\ queued' = TRUE
  /\ UNCHANGED <<mem, chain, parked, approving, deaths>>

\* orchestrator.mjs submit: the scheduler is the command's own, and its queue
\* ends with the command.
CliSubmit(c, b) ==
  /\ submissions < MaxSubmissions /\ ~Refused(c)
  /\ submissions' = submissions + 1
  /\ IF Automatic(c) THEN Adopt(b) ELSE Park(b)
  /\ UNCHANGED <<mem, chain, gatewayVars, deaths>>

-----------------------------------------------------------------------------
(* The human *)

\* approveIntent's checks: also a task governance has parked, or one that runs
\* while a new definition under its id is pending, can be approved.
Approvable ==
  /\ disk # Absent /\ disk.state \notin Terminal
  /\ disk.state = "WAITING_HUMAN" \/ disk.intent = "PENDING_HUMAN"

ApproveIntent == disk' = [disk EXCEPT !.state = "APPROVED", !.intent = "APPROVED"]

\* One approval at a time.
Approve ==
  /\ Approvable /\ ~approving
  /\ ApproveIntent
  /\ approving' = TRUE
  /\ history' = [history EXCEPT !.orphaned = FALSE]
  /\ UNCHANGED <<mem, chain, queued, parked, bounds>>

\* EnqueueApproved with an enqueue that takes an anchored file for a known task.
EnqueueApprovedIfNew ==
  /\ approving /\ approving' = FALSE
  /\ IF Known \/ disk.anchor # "none" THEN UNCHANGED <<disk, queued, history>>
     ELSE /\ disk' = [disk EXCEPT !.anchor = AnchorOf(@)] /\ queued' = TRUE
          /\ history' = [history EXCEPT !.adopted = @ \/ AtTheGate(disk)]
  /\ UNCHANGED <<mem, chain, parked, bounds>>

\* approveTaskIntent after its import: the file, in whatever state by now.
EnqueueApproved ==
  /\ approving /\ approving' = FALSE
  /\ IF Known THEN UNCHANGED <<disk, queued, history>>
     ELSE /\ disk' = [disk EXCEPT !.anchor = AnchorOf(@)] /\ queued' = TRUE
          /\ history' = [history EXCEPT !.adopted = @ \/ AtTheGate(disk)]
  /\ UNCHANGED <<mem, chain, parked, bounds>>

\* orchestrator.mjs approve: the queue ends with the command.
CliApprove ==
  /\ Approvable
  /\ disk' = [disk EXCEPT !.state = "APPROVED", !.intent = "APPROVED",
                         !.anchor = AnchorOf(@)]
  /\ history' = [history EXCEPT !.orphaned = TRUE]
  /\ UNCHANGED <<mem, chain, gatewayVars, bounds>>

\* rejectIntent that does not look whether there is a task.
RejectUnknown ==
  /\ disk.state \notin Terminal
  /\ disk' = [disk EXCEPT !.state = "CANCELLED"]
  /\ history' = [history EXCEPT !.rejected = chain = "none"]
  /\ UNCHANGED <<mem, chain, gatewayVars, bounds>>

\* rejectIntent, by the gateway or the CLI: any task that is not over; the
\* queue and a running chain are not told.
Reject ==
  /\ disk # Absent /\ disk.state \notin Terminal
  /\ disk' = [disk EXCEPT !.state = "CANCELLED", !.intent = "CANCELLED"]
  /\ history' = [history EXCEPT !.rejected = chain = "none"]
  /\ UNCHANGED <<mem, chain, gatewayVars, bounds>>

-----------------------------------------------------------------------------
(* Chains *)

\* Dispatch that runs a cancelled task too.
DispatchCancelled(who, file) ==
  IF file.anchor # "valid"
    THEN disk' = [file EXCEPT !.state = "FAILED"] /\ UNCHANGED <<mem, chain>>
  ELSE /\ mem' = [file EXCEPT !.state = "RUNNING"]
       /\ disk' = mem' /\ chain' = who

\* Runs what it read, whatever state that is in, unless it is cancelled or its
\* trust anchor is missing or another's.
Dispatch(who, file) ==
  IF file.state = "CANCELLED" THEN UNCHANGED fileVars
  ELSE IF file.anchor # "valid"
    THEN disk' = [file EXCEPT !.state = "FAILED"] /\ UNCHANGED <<mem, chain>>
  ELSE /\ mem' = [file EXCEPT !.state = "RUNNING"]
       /\ disk' = mem' /\ chain' = who

\* The head of the queue.  With the lock at a CLI command runTask throws, and
\* the id is lost; the pre-flight fails whatever it finds, and what has failed
\* may be run again where what is cancelled may not.
Start ==
  /\ queued /\ queued' = FALSE /\ chain \notin {"run", "resume"}
  /\ \/ chain = "cli" /\ UNCHANGED <<fileVars, history>>
     \/ chain = "none" /\ Dispatch("run", disk) /\ UNCHANGED history
     \/ /\ chain = "none" /\ UNCHANGED <<mem, chain>>
        /\ disk' = [disk EXCEPT !.state = "FAILED"]
        /\ history' = [history EXCEPT !.rejected = FALSE]
  /\ UNCHANGED <<parked, approving, bounds>>

\* orchestrator.mjs run: loadTaskFile writes a new record before it asks for
\* the lock, over the file of a task that runs, waits or is cancelled.
CliRun ==
  LET new == [state |-> "CREATED", intent |-> "none", anchor |-> "valid", candidate |-> FALSE]
  IN /\ submissions < MaxSubmissions
     /\ submissions' = submissions + 1
     /\ IF chain = "none" THEN Dispatch("cli", new)
                          ELSE disk' = new /\ UNCHANGED <<mem, chain>>
     /\ history' = [history EXCEPT !.rejected = FALSE, !.adopted = @ /\ chain # "none"]
     /\ UNCHANGED <<gatewayVars, deaths>>

\* The resume of a task governance has parked, which the state alone does not
\* tell from one at the gate: without a candidate it fails.
Resume(who) ==
  /\ chain = "none" /\ disk # Absent /\ disk.state = "WAITING_HUMAN"
  /\ IF disk.candidate THEN mem' = disk /\ chain' = who /\ UNCHANGED disk
     ELSE disk' = [disk EXCEPT !.state = "FAILED"] /\ UNCHANGED <<mem, chain>>
  /\ history' = [history EXCEPT !.adopted = @ \/ (AtTheGate(disk) /\ disk.candidate)]
  /\ UNCHANGED <<gatewayVars, bounds>>

\* saveTask, at every step of a chain: the copy replaces the file.
Save ==
  /\ chain # "none"
  /\ disk' = mem
  /\ UNCHANGED <<mem, chain, gatewayVars, bounds, history>>

EndWith(state, candidate) ==
  /\ disk' = [mem EXCEPT !.state = state, !.candidate = candidate]
  /\ mem' = Absent /\ chain' = "none"
  /\ parked' = (parked \/ (state = "WAITING_HUMAN" /\ chain # "cli"))

\* The ends of a chain.  Its error handlers leave a cancelled file alone; the
\* scheduler's, for what they let through, fail the file they find.
End ==
  /\ chain # "none"
  /\ \/ EndWith("COMPLETED", mem.candidate)
     \/ EndWith("WAITING_HUMAN", TRUE)
     \/ EndWith("FAILED", mem.candidate)
     \/ /\ disk.state = "CANCELLED" \/ chain # "cli"
        /\ disk' = IF disk.state \in Terminal THEN disk ELSE [disk EXCEPT !.state = "FAILED"]
        /\ mem' = Absent /\ chain' = "none" /\ UNCHANGED parked
  /\ UNCHANGED <<queued, approving, bounds, history>>

-----------------------------------------------------------------------------
(* Deaths *)

GatewayDies ==
  /\ deaths < MaxDeaths /\ deaths' = deaths + 1
  /\ queued' = FALSE /\ parked' = FALSE /\ approving' = FALSE
  /\ IF chain = "cli" THEN UNCHANGED <<mem, chain>> ELSE mem' = Absent /\ chain' = "none"
  /\ history' = [history EXCEPT !.orphaned = TRUE]
  /\ UNCHANGED <<disk, submissions>>

\* Also an exception that leaves a CLI command, and what submit --run and
\* approve --run do to the chain they have started: process.exit(0).
CliDies ==
  /\ deaths < MaxDeaths /\ deaths' = deaths + 1
  /\ chain = "cli" /\ mem' = Absent /\ chain' = "none"
  /\ history' = [history EXCEPT !.orphaned = TRUE]
  /\ UNCHANGED <<disk, gatewayVars, submissions>>

Next ==
  \/ \E c \in Submissions, b \in Brought : Submit(c, b) \/ CliSubmit(c, b)
  \/ Approve \/ EnqueueApproved \/ CliApprove \/ Reject
  \/ Start \/ CliRun \/ \E who \in {"resume", "cli"} : Resume(who)
  \/ Save \/ End \/ GatewayDies \/ CliDies

Spec == Init /\ [][Next]_vars

-----------------------------------------------------------------------------
(* Properties *)

\* What waits at the gate does not run: a task runs under a verdict of the
\* policy or of a human, or by the CLI's run command, which has no gate.  Three
\* ways past it are known: the id is queued by an automatic submission under it,
\* or by the approval of a definition the waiting one has replaced since; the
\* waiting one replaces the file of a queued one and its capsule has a trust
\* anchor of its own, which alignTaskIntent saves and the dispatch accepts; or
\* its capsule has a candidate, and it is resumed as if governance had parked it.
OnlyClearedRuns == chain # "none" /\ AtTheGate(mem) => history.adopted

\* A task rejected while nothing ran it is not run by the scheduler, which may
\* have it queued or be about to queue it, until it is submitted again (or the
\* pre-flight has made a failure of the rejection).
RejectedStaysOut == history.rejected => chain # "run"

\* A task a human has approved is on its way: somebody holds it that will start it, or is
\* running it.  Two losses are known: a process is gone, or the scheduler has
\* the id in its waiting set.
ApprovedIsOnItsWay ==
  disk # Absent /\ disk.state = "APPROVED" /\ disk.intent = "APPROVED" =>
    queued \/ approving \/ chain # "none" \/ parked \/ history.orphaned

\* The rules, for any capsule that may come first under the id.  They read
\* nothing but the capsule, so it is enough to look before there is a file.
FirstSubmission == disk = Absent

\* A task whose path, links resolved, is a governance or configuration asset
\* waits for a human, whatever its proposal declares and its text says.
ProtectedAssetsWait ==
  FirstSubmission => \A c \in Capsules : c.target_path \in Protected => ~Automatic(c)

\* Declaring a false type or path does not open the gate: if a task with a
\* path of its own is automatic, it is so with a proposal that tells the truth.
LiesDoNotHelp ==
  FirstSubmission =>
    \A c \in Capsules :
      /\ c.proposal # NoProposal /\ c.target_path \notin {"other", "none"}
      /\ Automatic(c)
      => Automatic([c EXCEPT !.proposal.type = c.target_path, !.proposal.path = c.target_path])

\* Without a proposal, the words of a governance, configuration or structure
\* change, of a destructive deletion or a deployment wait for a human; only a
\* deployment that also speaks of a cleanup passes for the cleanup.
DangerousWordsWait ==
  FirstSubmission =>
    \A c \in Capsules :
      /\ c.proposal = NoProposal
      /\ \/ c.words \intersect {"governance", "config", "direction", "destructive"} # {}
         \/ "deploy" \in c.words /\ "cleanup" \notin c.words
      => ~Automatic(c)

\* What the two rules promise together.
RiskyCapsulesWait == ProtectedAssetsWait /\ DangerousWordsWait
=============================================================================
