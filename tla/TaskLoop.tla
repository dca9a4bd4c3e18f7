------------------------------ MODULE TaskLoop ------------------------------
(***************************************************************************)
(* The life of ONE task: the author -> review -> acceptance -> governance  *)
(* loop of orchestrator.mjs, the bounded retry and fallback the scheduler  *)
(* wraps around it (lib/scheduler.mjs), crash recovery (lib/recovery.mjs)  *)
(* and the operator's cancellations and shutdown.                          *)
(*                                                                         *)
(* The task is kept twice: the record on disk (tasks/<id>.json), and the   *)
(* copy in memory of the process that drives it.  saveTask writes the      *)
(* whole copy over the file.  Almost everything that can go wrong comes    *)
(* from these two differing: a crash loses the copy, an operator writes    *)
(* the file under it, a retry re-uses fields an earlier attempt left.      *)
(*                                                                         *)
(* An action is the code between two awaits or two saves, so a crash, or   *)
(* another process, can come between any two writes of the file.           *)
(*                                                                         *)
(* Content is abstracted to versions: the content an author run produces,  *)
(* its edits, its reply and the page in it, is the number of that run.     *)
(* The task's acceptance command, prompts, sessions' text and all reasons  *)
(* are left out.                                                           *)
(***************************************************************************)
EXTENDS Naturals, Sequences

CONSTANTS
  Governed,       \* task_mode = "governed_write" (else "direct_write")
  MaxRevisions,   \* task.max_revisions
  Retries,        \* maxExecutorRetries of the scheduler; 0 for the CLI's run
  Fallbacks,      \* how many fallback executors the route offers
  Faults,         \* error categories runs meet in this instance
  Interventions,  \* what the operator does in this instance
  MaxRuns,        \* bound: author runs in a behaviour
  MaxCandidates,  \* bound: candidates the vault creates
  MaxCrashes      \* bound: crashes of the driving process

\* error_classification.category; AUTH stands for the two categories the
\* scheduler never retries, ACCOUNT_POLICY and AUTH_FAILURE, and NONE for the
\* SUCCESS a run that exits cleanly with an unusable answer is given.
Categories == {"TRANSIENT_FAULT", "RATE_LIMIT", "AUTH", "ENVIRONMENT_FAULT", "NONE"}

ASSUME BoundsAssumption ==
  /\ MaxRevisions \in Nat \ {0}
  /\ Retries \in Nat /\ Fallbacks \in Nat
  /\ MaxRuns \in Nat /\ MaxCandidates \in Nat /\ MaxCrashes \in Nat
ASSUME ChoicesAssumption ==
  /\ Governed \in BOOLEAN
  /\ Faults \subseteq Categories \ {"NONE"}
  /\ Interventions \subseteq {"cli_cancel", "cancel", "interrupt", "shutdown"}

VARIABLES
  disk,        \* the task record in tasks/<id>.json
  mem,         \* the driving process' copy of it
  w,           \* where that process stands (idle: nobody drives the task)
  killed,      \* who terminated the executor run in progress, if anyone
  stop,        \* shutdownMode of the driving process
  cancel,      \* the CLI's cancel command, step by step
  copy,        \* the record that command has read
  file,        \* workspace: version under review (for a governed task the
               \*   staged orchestrator-submission.md)
  candidates,  \* vault: the submission each candidate was created with
  published,   \* vault: the candidates that are published
  runs,        \* author runs so far
  crashes,     \* crashes so far
  passed,      \* history: versions a reviewer run has answered PASS for
  verified,    \* history: versions whose acceptance has succeeded
  unknown,     \* history: a crash interrupted a from-scratch author run
  retried      \* history: a retry or fallback has been dispatched

orderVars == <<runs, crashes>>
operatorVars == <<killed, stop, cancel, copy>>
vaultVars == <<candidates, published>>
judgements == <<passed, verified, unknown>>
history == <<judgements, retried>>
vars == <<disk, mem, w, operatorVars, file, vaultVars, orderVars, history>>

Terminal == {"COMPLETED", "FAILED", "CANCELLED"}
Running == {"AUTHOR_RUNNING", "FIX_RUNNING", "REVIEW_RUNNING"}
TaskStates == Terminal \union Running \union
  {"CREATED", "NEEDS_FIX", "GOVERNANCE_PENDING", "WAITING_HUMAN", "PUBLISHING"}

NoReview == [decision |-> "none", revision |-> 0, run |-> 0]
Review == [decision : {"none", "PASS", "NEEDS_FIX"}, revision : 0..MaxRevisions,
           run : 0..MaxRuns]

\* The fields of a task that its lifecycle reads.  run and status are those
\* of the latest author or fix entry of runs[]; content is last_author_content,
\* staged that submission_path is set; formal is the mirror's review_decision,
\* any word but the two being "other"; published_flag stands for the mirror's
\* published_flag and published_path together.
Task == [state : TaskStates, revisions_used : 1..MaxRevisions,
         review_revision : 0..MaxRevisions, run : 0..MaxRuns,
         status : {"none", "completed", "failed", "cancelled", "interrupted"},
         author_content_revision : 0..MaxRevisions,
         content : 0..MaxRuns, staged : BOOLEAN, session : BOOLEAN,
         last_review : Review, candidate_id : 0..MaxCandidates,
         formal : {"none", "approve", "reject", "other"}, published_flag : BOOLEAN,
         error : Categories, retryable : BOOLEAN]

\* What the vault is handed: a page out of a reply, or a whole reply.
Submissions == [page : BOOLEAN, version : 0..MaxRuns]

NewTask == [state |-> "CREATED", revisions_used |-> 1, review_revision |-> 0,
            run |-> 0, status |-> "none", author_content_revision |-> 0,
            content |-> 0, staged |-> FALSE, session |-> FALSE,
            last_review |-> NoReview, candidate_id |-> 0,
            formal |-> "none", published_flag |-> FALSE,
            error |-> "NONE", retryable |-> FALSE]

Steps == {"idle", "dispatch", "author", "review", "accept", "fix", "candidate",
          "formal", "refused", "publish", "verdict", "settle", "complete", "returned"}
Verdicts == {"published", "human_required", "deny", "rejected", "unknown"}

\* job: who drives (the scheduler's executeOnce, its resumeOnce, or the CLI's
\* recover and resume); frame: the innermost handler an exception reaches.
Worker == [pc : Steps, job : {"none", "run", "resume", "recover"},
           frame : {"execute", "loop", "continue"}, revision : 1..MaxRevisions,
           reuse : BOOLEAN, verdict : Verdicts, attempt : 0..Retries,
           fallbacks : 0..Fallbacks]

Idle == [pc |-> "idle", job |-> "none", frame |-> "continue", revision |-> 1,
         reuse |-> FALSE, verdict |-> "unknown", attempt |-> 0, fallbacks |-> 0]

Init ==
  /\ disk = NewTask /\ mem = NewTask /\ w = Idle
  /\ killed = "no" /\ stop = "no" /\ cancel = "none" /\ copy = NewTask
  /\ file = 0 /\ candidates = <<>> /\ published = {}
  /\ runs = 0 /\ crashes = 0
  /\ passed = {} /\ verified = {} /\ unknown = FALSE /\ retried = FALSE

-----------------------------------------------------------------------------
(***************************************************************************)
(* Saving, returning and throwing.                                         *)
(***************************************************************************)

\* saveTask: the whole copy in memory goes over the file, unread.
Save(t) == disk' = t /\ mem' = t

Go(step) == w' = [w EXCEPT !.pc = step]

\* The chain ends with t as the returned task.
Return(t) == Save(t) /\ Go("returned")

\* A task failed for an error of category c; only a transient fault is
\* retryable (classifyExecutionError).  KILLED is the classification a killed
\* run carries itself: transient, but not retryable.
Failed(t, c) ==
  [t EXCEPT !.state = "FAILED", !.retryable = (c = "TRANSIENT_FAULT"),
            !.error = IF c = "KILLED" THEN "TRANSIENT_FAULT" ELSE c]

\* What the text of an error without a classification can be taken for.
ByMessage == {"TRANSIENT_FAULT"} \union Faults

\* An error without a classification is classified by its message, and
\* "run cancelled by operator" reads as a transient fault.
Classified(e) == IF e = "RUN_CANCELLED" THEN "TRANSIENT_FAULT" ELSE e

\* The catch of runLoopFromReview: only a cancellation already on disk wins.
LoopCatches(t, e) ==
  /\ w.frame = "loop"
  /\ Return(IF disk.state = "CANCELLED" THEN disk ELSE Failed(t, Classified(e)))

\* The catch of executeTask, which also knows shutdown and RUN_CANCELLED.
Interrupted(e) == stop = "interrupt" \/ (stop = "cancel" /\ e # "RUN_CANCELLED")
ExecuteCatches(t, e) ==
  /\ w.frame = "execute"
  /\ Return(CASE Interrupted(e) -> t
              [] ~Interrupted(e) /\ e = "RUN_CANCELLED" ->
                   [t EXCEPT !.state = "CANCELLED", !.retryable = FALSE]
              [] ~Interrupted(e) /\ e # "RUN_CANCELLED" /\ disk.state = "CANCELLED" -> disk
              [] OTHER -> Failed(t, e))

\* continueTask and resumeGovernance catch nothing.  recoverTask reports
\* RECOVERY_ERROR and leaves the file alone; resumeOnce fails the task.
CallerCatches ==
  /\ w.frame = "continue"
  /\ disk' = IF w.job = "resume" /\ disk.state \notin Terminal
             THEN [disk EXCEPT !.state = "FAILED"] ELSE disk
  /\ w' = Idle /\ mem' = NewTask

Raise(t, e) == LoopCatches(t, e) \/ ExecuteCatches(t, e) \/ CallerCatches

-----------------------------------------------------------------------------
(***************************************************************************)
(* The scheduler around the loop: dispatch, bounded retry, fallback.       *)
(***************************************************************************)

\* A queued task gets its chain.
Dispatch ==
  /\ w.pc = "idle" /\ disk.state = "CREATED"
  /\ w' = [Idle EXCEPT !.pc = "dispatch", !.job = "run", !.fallbacks = Fallbacks]
  /\ stop' = "no"
  /\ UNCHANGED <<disk, mem, killed, cancel, copy, file, vaultVars, orderVars, history>>

\* One round of executeOnce up to the author run: re-read the file, check its
\* trust anchor and acceptance command, enter executeTask.  The earlier
\* attempt's review, candidate, verdicts and error class stay in the record.
Execute ==
  /\ w.pc = "dispatch"
  /\ \/ disk.state = "CANCELLED" /\ Return(disk)
     \/ /\ disk.state # "CANCELLED"
        /\ Return(Failed(disk, "ENVIRONMENT_FAULT"))  \* tampered or unusable file
     \/ /\ disk.state # "CANCELLED"
        /\ Save([disk EXCEPT !.state = "AUTHOR_RUNNING"])
        /\ w' = [w EXCEPT !.pc = "author", !.frame = "execute", !.revision = 1,
                          !.reuse = FALSE]
  /\ UNCHANGED <<operatorVars, file, vaultVars, orderVars, history>>

\* The error class executeOnce acts on is the one in the record, whichever
\* attempt put it there.
MayRetry(t) ==
  /\ t.state = "FAILED" /\ t.error \notin {"AUTH", "RATE_LIMIT"}
  /\ t.retryable /\ w.attempt < Retries

MayFallBack(t) ==
  /\ t.state = "FAILED" /\ t.error \in {"TRANSIENT_FAULT", "RATE_LIMIT"}
  /\ ~MayRetry(t) /\ w.fallbacks > 0

\* Retry that does not count its attempts.
RetryUncounted ==
  /\ w.pc = "returned" /\ w.job = "run" /\ stop = "no" /\ MayRetry(mem)
  /\ w' = [w EXCEPT !.pc = "dispatch"]
  /\ retried' = TRUE
  /\ UNCHANGED <<disk, mem, operatorVars, file, vaultVars, orderVars, judgements>>

Retry ==
  /\ w.pc = "returned" /\ w.job = "run" /\ stop = "no" /\ MayRetry(mem)
  /\ w' = [w EXCEPT !.pc = "dispatch", !.attempt = @ + 1]
  /\ retried' = TRUE
  /\ UNCHANGED <<disk, mem, operatorVars, file, vaultVars, orderVars, judgements>>

\* The next available fallback executor; unavailable ones are skipped.
Fallback ==
  /\ w.pc = "returned" /\ w.job = "run" /\ stop = "no" /\ MayFallBack(mem)
  /\ \E left \in 0..(w.fallbacks - 1) :
       w' = [w EXCEPT !.pc = "dispatch", !.attempt = 0, !.fallbacks = left]
  /\ Save([mem EXCEPT !.state = "CREATED", !.session = FALSE, !.error = "NONE"])
  /\ retried' = TRUE
  /\ UNCHANGED <<operatorVars, file, vaultVars, orderVars, judgements>>

\* The chain of a recovery left waiting for the retry only executeOnce makes.
EndChainUnlessRetryable ==
  /\ w.pc = "returned" /\ ~(stop = "no" /\ MayRetry(mem))
  /\ disk' = IF w.job = "recover" THEN mem ELSE disk
  /\ w' = Idle /\ mem' = NewTask
  /\ UNCHANGED <<operatorVars, file, vaultVars, orderVars, history>>

\* The chain is over.  recoverTask saves its copy once more.
EndChain ==
  /\ w.pc = "returned"
  /\ ~(w.job = "run" /\ stop = "no" /\ MayRetry(mem))
  /\ disk' = IF w.job = "recover" THEN mem ELSE disk
  /\ w' = Idle /\ mem' = NewTask
  /\ UNCHANGED <<operatorVars, file, vaultVars, orderVars, history>>

-----------------------------------------------------------------------------
(***************************************************************************)
(* Author and fix runs.                                                    *)
(***************************************************************************)

\* What a run that did not complete may leave in the workspace: a direct
\* task's executor edits it in place, a governed page is staged afterwards.
Partial == IF Governed THEN {file} ELSE {file, runs + 1}

\* The top of the review loop, reached with record t.
EnterReview(t) ==
  /\ Save([t EXCEPT !.state = "REVIEW_RUNNING", !.review_revision = w.revision])
  /\ w' = [w EXCEPT !.pc = "review", !.frame = "loop"]

\* recordRun, then the content and the revision it belongs to; only a
\* from-scratch run (revision 1) sets the author session.  stageSubmission
\* stages the page of a governed reply; one without a <PAGE> leaves the file
\* and submission_path as they are.
AuthorCompletes ==
  /\ w.pc = "author" /\ killed = "no" /\ runs < MaxRuns
  /\ runs' = runs + 1
  /\ file' \in IF Governed THEN {file, runs + 1} ELSE {runs + 1}
  /\ EnterReview([mem EXCEPT !.run = runs + 1, !.status = "completed",
                            !.author_content_revision = w.revision,
                            !.content = runs + 1,
                            !.staged = (@ \/ (Governed /\ file' = runs + 1)),
                            !.session = (@ \/ w.revision = 1)])
  /\ UNCHANGED <<operatorVars, vaultVars, crashes, history>>

AuthorFails ==
  /\ w.pc = "author" /\ killed = "no" /\ runs < MaxRuns
  /\ runs' = runs + 1 /\ file' \in Partial
  /\ \E c \in Faults :
       Raise([mem EXCEPT !.run = runs + 1, !.status = "failed", !.error = c,
                         !.retryable = (c = "TRANSIENT_FAULT")], c)
  /\ UNCHANGED <<operatorVars, vaultVars, crashes, history>>

AuthorKilled ==
  /\ w.pc = "author" /\ killed # "no" /\ runs < MaxRuns
  /\ runs' = runs + 1 /\ file' \in Partial /\ killed' = "no"
  /\ Raise([mem EXCEPT !.run = runs + 1, !.status = "cancelled"], "RUN_CANCELLED")
  /\ UNCHANGED <<stop, cancel, copy, vaultVars, crashes, history>>

-----------------------------------------------------------------------------
(***************************************************************************)
(* The review loop: review, acceptance, the revision budget, the fix.      *)
(***************************************************************************)

\* The budget compared with > instead of >=.
FixOrGiveUpLate(t) ==
  IF w.revision > MaxRevisions
    THEN Return([t EXCEPT !.state = "FAILED"])
    ELSE /\ Save([t EXCEPT !.state = "NEEDS_FIX", !.revisions_used = w.revision + 1])
         /\ w' = [w EXCEPT !.pc = "fix", !.revision = @ + 1]

\* NEEDS_FIX from the reviewer, or a failed acceptance: one more revision if
\* the budget has one.
FixOrGiveUp(t) ==
  IF w.revision >= MaxRevisions
    THEN Return([t EXCEPT !.state = "FAILED"])
    ELSE /\ Save([t EXCEPT !.state = "NEEDS_FIX", !.revisions_used = w.revision + 1])
         /\ w' = [w EXCEPT !.pc = "fix", !.revision = @ + 1]

Decided(t, decision) ==
  \/ decision = "PASS" /\ Go("accept") /\ mem' = t /\ UNCHANGED disk
  \/ decision = "NEEDS_FIX" /\ FixOrGiveUp(t)

\* Recovery may apply the decision the record already holds.
Reusable == w.reuse /\ mem.last_review.decision # "none"
                    /\ mem.last_review.revision = w.revision

\* Any persisted decision taken for the one of this revision.
ReviewReusedUnchecked ==
  /\ w.pc = "review" /\ mem.last_review.decision # "none"
  /\ Decided(mem, mem.last_review.decision)
  /\ UNCHANGED <<operatorVars, file, vaultVars, orderVars, history>>

ReviewReused ==
  /\ w.pc = "review" /\ Reusable
  /\ Decided(mem, mem.last_review.decision)
  /\ UNCHANGED <<operatorVars, file, vaultVars, orderVars, history>>

\* A reviewer run answers and is bound to the latest author run; the record
\* with the answer is saved only by the step that acts on it.
ReviewCompletes ==
  /\ w.pc = "review" /\ ~Reusable /\ killed = "no"
  /\ \E decision \in {"PASS", "NEEDS_FIX"} :
       /\ Decided([mem EXCEPT !.last_review = [decision |-> decision,
                     revision |-> w.revision, run |-> mem.run]], decision)
       /\ passed' = IF decision = "PASS" THEN passed \union {file} ELSE passed
  /\ UNCHANGED <<operatorVars, file, vaultVars, orderVars, verified, unknown, retried>>

\* The run fails, or its answer holds no decision twice in a row ("NONE").
ReviewFails ==
  /\ w.pc = "review" /\ ~Reusable /\ killed = "no"
  /\ \E c \in Faults \union {"NONE"} : Raise(mem, c)
  /\ UNCHANGED <<operatorVars, file, vaultVars, orderVars, history>>

ReviewKilled ==
  /\ w.pc = "review" /\ ~Reusable /\ killed # "no"
  /\ killed' = "no" /\ Raise(mem, "RUN_CANCELLED")
  /\ UNCHANGED <<stop, cancel, copy, file, vaultVars, orderVars, history>>

\* The acceptance command succeeds: a direct task is complete, a governed one
\* is handed to the Governance Plane.
AcceptancePasses ==
  /\ w.pc = "accept"
  /\ verified' = verified \union {file}
  /\ IF Governed
       THEN Save([mem EXCEPT !.state = "GOVERNANCE_PENDING"]) /\ Go("candidate")
       ELSE Return([mem EXCEPT !.state = "COMPLETED"])
  /\ UNCHANGED <<operatorVars, file, vaultVars, orderVars, passed, unknown, retried>>

AcceptanceFails ==
  /\ w.pc = "accept"
  /\ FixOrGiveUp(mem)
  /\ UNCHANGED <<operatorVars, file, vaultVars, orderVars, history>>

\* NEEDS_FIX has been saved; FIX_RUNNING is, and the author session resumes.
StartFix ==
  /\ w.pc = "fix"
  /\ Save([mem EXCEPT !.state = "FIX_RUNNING"])
  /\ Go("author")
  /\ UNCHANGED <<operatorVars, file, vaultVars, orderVars, history>>

-----------------------------------------------------------------------------
(***************************************************************************)
(* Governance: runGovernance, the publish verdict, completePublish.  The   *)
(* vault is external; a call that times out may have taken effect.         *)
(***************************************************************************)

\* Another active task holds the target in the publish-sensitive stage.
TargetConflict ==
  /\ w.pc = "candidate" /\ w.frame = "loop" /\ w.job = "run"
  /\ Return([mem EXCEPT !.state = "FAILED"])
  /\ UNCHANGED <<operatorVars, file, vaultVars, orderVars, history>>

\* The bridge cannot be made, started or registered, or the call is refused.
BridgeFails ==
  /\ w.pc \in {"candidate", "publish", "settle"}
  /\ \E c \in ByMessage : Raise(mem, c)
  /\ UNCHANGED <<operatorVars, file, vaultVars, orderVars, history>>

\* What a candidate is made of: the page staged last or, when no reply of the
\* author ever had one, the last reply as it stands, which no reviewer was
\* pointed to.
Submitted(t) == [page |-> t.staged, version |-> IF t.staged THEN file ELSE t.content]

CreateCandidate ==
  /\ w.pc = "candidate" /\ mem.candidate_id = 0
  /\ Len(candidates) < MaxCandidates
  /\ candidates' = Append(candidates, Submitted(mem))
  /\ \/ Save([mem EXCEPT !.candidate_id = Len(candidates) + 1]) /\ Go("formal")
     \/ Raise(mem, "TRANSIENT_FAULT")           \* the answer is late or lost
  /\ UNCHANGED <<operatorVars, file, published, orderVars, history>>

\* A candidate this record already names is taken over.
ReuseCandidate ==
  /\ w.pc = "candidate" /\ mem.candidate_id # 0
  /\ Go("formal")
  /\ UNCHANGED <<disk, mem, operatorVars, file, vaultVars, orderVars, history>>

\* The formal review, run only while the record's verdict is one of open.  Its
\* answer is saved whatever it is; only an approval goes on to the publication.
FormallyReviewed(open) ==
  /\ w.pc = "formal"
  /\ \/ mem.formal = "approve" /\ Go("publish") /\ UNCHANGED <<disk, mem, killed>>
     \/ /\ mem.formal \notin open \union {"approve"}
        /\ Go("refused") /\ UNCHANGED <<disk, mem, killed>>
     \/ /\ mem.formal \in open /\ killed = "no" /\ UNCHANGED killed
        /\ \/ Save([mem EXCEPT !.formal = "approve"]) /\ Go("publish")
           \/ /\ \E verdict \in {"reject", "other"} : Save([mem EXCEPT !.formal = verdict])
              /\ Go("refused")
           \/ \E c \in Faults \union {"NONE"} : Raise(mem, c)
     \/ /\ mem.formal \in open /\ killed # "no" /\ killed' = "no"
        /\ Raise(mem, "KILLED")
  /\ UNCHANGED <<stop, cancel, copy, file, vaultVars, orderVars, history>>

\* A rejected candidate put to another formal review.
FormalReviewAgain == FormallyReviewed({"none", "reject", "other"})

\* An approve verdict in the record is reused, a reject is final; any other
\* decision is refused like a reject but does not bar the next formal review.
FormalReview == FormallyReviewed({"none", "other"})

\* FORMAL_REVIEW_REJECTED, which carries the reviewer's own words.
FormalRefused ==
  /\ w.pc = "refused"
  /\ \E c \in ByMessage : Raise(mem, c)
  /\ UNCHANGED <<operatorVars, file, vaultVars, orderVars, history>>

\* publish_candidate answers; the mirror is saved before the verdict is used.
Publish ==
  /\ w.pc = "publish"
  /\ \E v \in Verdicts :
       /\ published' = IF v = "published" THEN published \union {mem.candidate_id}
                                         ELSE published
       /\ Save(IF v = "rejected" THEN mem
               ELSE [mem EXCEPT !.published_flag = (v = "published")])
       /\ w' = [w EXCEPT !.pc = "verdict", !.verdict = v]
  /\ UNCHANGED <<operatorVars, file, candidates, orderVars, history>>

\* The vault publishes but its answer is lost.
PublishUnanswered ==
  /\ w.pc = "publish"
  /\ published' = published \union {mem.candidate_id}
  /\ Raise(mem, "TRANSIENT_FAULT")
  /\ UNCHANGED <<operatorVars, file, candidates, orderVars, history>>

\* Everything but a refusal taken for a publication.
ApplyVerdictByPolicy ==
  /\ w.pc = "verdict"
  /\ CASE w.verdict \in {"published", "unknown"} ->
            Save([mem EXCEPT !.state = "PUBLISHING"]) /\ Go("complete")
       [] w.verdict = "human_required" -> Return([mem EXCEPT !.state = "WAITING_HUMAN"])
       [] OTHER -> Return([mem EXCEPT !.state = "FAILED"])
  /\ UNCHANGED <<operatorVars, file, vaultVars, orderVars, history>>

\* The verdict as a Control Plane state.
ApplyVerdict ==
  /\ w.pc = "verdict"
  /\ CASE w.verdict = "published" ->
            Save([mem EXCEPT !.state = "PUBLISHING"]) /\ Go("complete")
       [] w.verdict = "human_required" -> Return([mem EXCEPT !.state = "WAITING_HUMAN"])
       [] OTHER -> Return([mem EXCEPT !.state = "FAILED"])
  /\ UNCHANGED <<operatorVars, file, vaultVars, orderVars, history>>

CompletePublish ==
  /\ w.pc = "complete"
  /\ Return([mem EXCEPT !.state = "COMPLETED"])
  /\ UNCHANGED <<operatorVars, file, vaultVars, orderVars, history>>

-----------------------------------------------------------------------------
(***************************************************************************)
(* Recovery: recoverTask classifies what is on disk, continueTask and      *)
(* resumeGovernance pick the continuation.  The task lock keeps it out     *)
(* while a live process drives the task; nothing else does.                *)
(***************************************************************************)

\* authorResultPersisted, reviewResultPersisted.
AuthorPersisted(t, revision) ==
  t.status = "completed" /\ t.author_content_revision = revision
ReviewPersisted(t) == t.last_review.decision # "none"

\* A fix resumed on the evidence alone, whatever the state.
FixResumableAnyway(t) == t.session /\ ReviewPersisted(t)
\* The classes a fix is resumed from, and a review is taken up again from.
FixResumable(t) == t.state \in {"NEEDS_FIX", "FIX_RUNNING"} /\ t.session /\ ReviewPersisted(t)
\* A crashed author run taken up again whether or not it left a result.
ReviewResumableAnyway(t) == t.state \in {"AUTHOR_RUNNING", "REVIEW_RUNNING"}
ReviewResumable(t) == t.state \in {"AUTHOR_RUNNING", "REVIEW_RUNNING"}
                      /\ AuthorPersisted(t, t.revisions_used)

Recovering(step) == [Idle EXCEPT !.pc = step, !.job = "recover"]

\* WAITING_HUMAN, PUBLISHING, GOVERNANCE_PENDING: back to the vault's truth.
RecoverGovernance ==
  /\ w.pc = "idle"
  /\ \/ disk.state = "GOVERNANCE_PENDING" /\ w' = Recovering("candidate")
     \/ disk.state \in {"PUBLISHING", "WAITING_HUMAN"} /\ disk.candidate_id # 0
        /\ w' = Recovering("settle")
  /\ mem' = disk /\ stop' = "no"
  /\ UNCHANGED <<disk, killed, cancel, copy, file, vaultVars, orderVars, history>>

\* A fix is resumed under AUTHOR_RUNNING, outside every catch.
RecoverFix ==
  /\ w.pc = "idle" /\ FixResumable(disk)
  /\ Save([disk EXCEPT !.state = "AUTHOR_RUNNING"])
  /\ w' = [Recovering("author") EXCEPT !.revision = disk.revisions_used]
  /\ stop' = "no"
  /\ UNCHANGED <<killed, cancel, copy, file, vaultVars, orderVars, history>>

\* The author's result is durable: go on with the review, or with its
\* persisted decision when the crash came after it.
RecoverReview ==
  /\ w.pc = "idle" /\ ReviewResumable(disk)
  /\ LET revision == IF disk.review_revision = 0 THEN disk.revisions_used
                                                ELSE disk.review_revision
     IN /\ Save([disk EXCEPT !.state = "REVIEW_RUNNING", !.review_revision = revision])
        /\ w' = [Recovering("review") EXCEPT !.frame = "loop", !.revision = revision,
                    !.reuse = /\ disk.state = "REVIEW_RUNNING" /\ ReviewPersisted(disk)
                              /\ disk.last_review.revision = revision]
  /\ stop' = "no"
  /\ UNCHANGED <<killed, cancel, copy, file, vaultVars, orderVars, history>>

\* INTERRUPTED: the unknown outcome is recorded and nothing is re-run.
RecoverInterrupted ==
  /\ w.pc = "idle" /\ disk.state = "AUTHOR_RUNNING" /\ ~ReviewResumable(disk)
  /\ disk' = [disk EXCEPT !.status = "interrupted"]
  /\ UNCHANGED <<mem, w, operatorVars, file, vaultVars, orderVars, history>>

\* The scheduler's resumeTask of a parked task.
ResumeTask ==
  /\ w.pc = "idle" /\ disk.state = "WAITING_HUMAN" /\ disk.candidate_id # 0
  /\ w' = [Idle EXCEPT !.pc = "settle", !.job = "resume"]
  /\ mem' = disk /\ stop' = "no"
  /\ UNCHANGED <<disk, killed, cancel, copy, file, vaultVars, orderVars, history>>

\* settleIfPublished: a recorded publication is confirmed by reading the page;
\* otherwise runGovernancePublishOnly asks the vault again.
Settle ==
  /\ w.pc = "settle"
  /\ \/ ~mem.published_flag /\ Go("publish") /\ UNCHANGED <<disk, mem>>
     \/ /\ mem.published_flag /\ mem.candidate_id \in published
        /\ Save([mem EXCEPT !.state = "PUBLISHING"]) /\ Go("complete")
     \/ /\ mem.published_flag /\ mem.candidate_id \notin published
        /\ Save([mem EXCEPT !.published_flag = FALSE]) /\ Go("publish")
  /\ UNCHANGED <<operatorVars, file, vaultVars, orderVars, history>>

\* The driving process dies: its copy of the task is gone, an author run ends
\* without a result but not without edits, or with its page staged already and
\* the record still to be saved.
Crash ==
  /\ w.pc # "idle" /\ crashes < MaxCrashes
  /\ crashes' = crashes + 1
  /\ unknown' = (unknown \/ (w.pc = "author" /\ w.frame = "execute"))
  /\ w' = Idle /\ mem' = NewTask /\ killed' = "no" /\ stop' = "no"
  /\ \/ w.pc = "author" /\ runs < MaxRuns /\ runs' = runs + 1 /\ file' \in {file, runs + 1}
     \/ w.pc # "author" /\ UNCHANGED <<runs, file>>
  /\ UNCHANGED <<disk, cancel, copy, vaultVars, passed, verified, retried>>

-----------------------------------------------------------------------------
(***************************************************************************)
(* The operator.                                                           *)
(***************************************************************************)

RunInProgress == \/ w.pc = "author"
                 \/ w.pc = "review" /\ ~Reusable
                 \/ w.pc = "formal" /\ mem.formal \in {"none", "other"}

Killed(by) == IF w.job = "run" /\ RunInProgress THEN by ELSE killed

\* scheduler.cancelTask, in the process that drives the task: terminate the
\* active run, and record CANCELLED unless the file is terminal.
CancelledOnDisk ==
  disk' = IF disk.state \in Terminal THEN disk ELSE [disk EXCEPT !.state = "CANCELLED"]

CancelTask ==
  /\ "cancel" \in Interventions /\ cancel = "none"
  /\ cancel' = "done" /\ killed' = Killed("cancel")
  /\ CancelledOnDisk
  /\ UNCHANGED <<mem, w, stop, copy, file, vaultVars, orderVars, history>>

\* scheduler.shutdown, mode interrupt or cancel.
Shutdown ==
  /\ w.job \in {"run", "resume"} /\ stop = "no"
  /\ \/ /\ "interrupt" \in Interventions
        /\ stop' = "interrupt" /\ killed' = Killed("interrupt") /\ UNCHANGED disk
     \/ /\ "shutdown" \in Interventions
        /\ stop' = "cancel" /\ killed' = Killed("cancel") /\ CancelledOnDisk
  /\ UNCHANGED <<mem, w, cancel, copy, file, vaultVars, orderVars, history>>

\* The CLI's cancel, another process without the task lock: refuse a terminal
\* task, else terminate the run whose handle it finds, wait for its end ...
CliCancel ==
  /\ "cli_cancel" \in Interventions /\ cancel = "none"
  /\ disk.state \notin Terminal
  /\ cancel' = "signalled"
  /\ killed' \in IF disk.state \in Running /\ RunInProgress THEN {"cli", killed}
                                                            ELSE {killed}
  /\ UNCHANGED <<disk, mem, w, stop, copy, file, vaultVars, orderVars, history>>

\* ... re-read the task, keeping a terminal state ...
CliReread ==
  /\ cancel = "signalled"
  /\ IF disk.state \in Terminal THEN cancel' = "done" /\ UNCHANGED copy
                                 ELSE cancel' = "read" /\ copy' = disk
  /\ UNCHANGED <<disk, mem, w, killed, stop, file, vaultVars, orderVars, history>>

\* ... and write the copy it read, CANCELLED.
CliWrite ==
  /\ cancel = "read"
  /\ disk' = [copy EXCEPT !.state = "CANCELLED"]
  /\ cancel' = "done" /\ copy' = NewTask
  /\ UNCHANGED <<mem, w, killed, stop, file, vaultVars, orderVars, history>>

-----------------------------------------------------------------------------
Work ==
  \/ Execute \/ Retry \/ Fallback \/ EndChain
  \/ AuthorCompletes \/ AuthorFails \/ AuthorKilled
  \/ ReviewReused \/ ReviewCompletes \/ ReviewFails \/ ReviewKilled
  \/ AcceptancePasses \/ AcceptanceFails \/ StartFix
  \/ TargetConflict \/ BridgeFails \/ CreateCandidate \/ ReuseCandidate
  \/ FormalReview \/ FormalRefused \/ Publish \/ PublishUnanswered \/ ApplyVerdict
  \/ CompletePublish \/ Settle

Recover == RecoverGovernance \/ RecoverFix \/ RecoverReview \/ RecoverInterrupted

Operator == CancelTask \/ Shutdown \/ CliCancel \/ CliReread \/ CliWrite

Next == Dispatch \/ Work \/ Recover \/ ResumeTask \/ Crash \/ Operator

Spec == Init /\ [][Next]_vars

\* Every call a chain waits for ends: executor runs and acceptance commands
\* have timeouts, a vault call is given up after a minute.
FairSpec == Spec /\ WF_vars(Work)

-----------------------------------------------------------------------------
(***************************************************************************)
(* What should hold.                                                       *)
(***************************************************************************)

\* Every variable keeps its type: the records on disk and in memory are
\* tasks, the worker's locals stay in their ranges.
TypeOK ==
  /\ disk \in Task /\ mem \in Task /\ copy \in Task /\ w \in Worker
  /\ killed \in {"no", "cli", "cancel", "interrupt"}
  /\ stop \in {"no", "interrupt", "cancel"}
  /\ cancel \in {"none", "signalled", "read", "done"}
  /\ file \in 0..MaxRuns
  /\ candidates \in Seq(Submissions) /\ Len(candidates) <= MaxCandidates
  /\ published \subseteq 1..MaxCandidates
  /\ runs \in 0..MaxRuns /\ crashes \in 0..MaxCrashes
  /\ passed \subseteq 0..MaxRuns /\ verified \subseteq 0..MaxRuns
  /\ unknown \in BOOLEAN /\ retried \in BOOLEAN

\* Several properties need every author run to have a revision number of its
\* own: a retry or fallback numbers its revisions from 1 again.
RevisionsAreUnique == ~retried

\* Only a recovery re-uses a decision by its revision number, so before the
\* first crash the numbers of a retry do no harm.
DecisionsAreFresh == RevisionsAreUnique \/ crashes = 0

\* A COMPLETED direct task delivers a workspace version that a reviewer run
\* has passed and whose acceptance command has succeeded, whatever retries,
\* crashes, recoveries and cancellations came before.  With max_revisions = 1
\* an attempt can fail after a PASS and leave it, in a crash, to the next one,
\* whose content no reviewer has seen.  With more, revisions_used has moved on
\* and keeps them apart, until a second crash: the first, in the author run of a retry whose
\* earlier attempt ended at the last revision, passes for a finished run and is
\* put under review, and the next finds there the earlier attempt's PASS.
DeliveredIsReviewed ==
  DecisionsAreFresh \/ (MaxRevisions > 1 /\ crashes < 2) =>
    (disk.state = "COMPLETED" /\ ~Governed => file \in passed /\ file \in verified)

\* A page the vault publishes for a governed task is a version the QA
\* reviewer has passed and the acceptance command accepted when the candidate
\* was made, also when the record is stale or recovered.  (Only a page: the
\* author's bare reply, which a candidate is made of when no page was ever
\* staged, has been seen by no QA reviewer.)  And the task is
\* COMPLETED only if the vault has its candidate published, on every path that
\* ends there: first publish, resume, recovered settle.  (After a retry one
\* crash is enough to publish what nobody reviewed, at any max_revisions: an
\* attempt that fails in governance leaves its PASS of revision 1 behind.)
PublishedWasEarned ==
  /\ DecisionsAreFresh =>
       \A c \in published : candidates[c].page => /\ candidates[c].version \in passed
                                                  /\ candidates[c].version \in verified
  /\ Governed /\ disk.state = "COMPLETED" => disk.candidate_id \in published

\* A formal "reject", once in the record, stays there and nothing is published
\* after it: no retry, recovery or resume looks for a friendlier reviewer.
\* (Only the CLI's cancel can lose it, and then the task is CANCELLED.)  A
\* decision that is neither word is refused too, but the next retry or recovery
\* asks again; what holds for it is that only an approval publishes.
RejectIsFinal ==
  [][/\ disk.formal = "reject" => /\ published' = published
                                  /\ disk'.formal = "reject" \/ disk'.state = "CANCELLED"
     /\ published' # published => mem.formal = "approve"]_vars

\* Without crashes a dispatch costs at most one author run for each revision
\* of each attempt on each executor.
RunBudget ==
  crashes = 0 => runs <= MaxRevisions * (Retries + 1) * (Fallbacks + 1)

\* After a crash in a from-scratch author run, whose outcome is unknown, the
\* task waits for a human decision: no recovery moves it on.  (In a retry the
\* record holds the result of the attempt before, and passes for finished.)
CrashedAuthorStaysParked ==
  RevisionsAreUnique /\ unknown => disk.state \in {"AUTHOR_RUNNING", "CANCELLED"}

\* A chain that drives the task always ends: completed, failed, parked.
EveryChainSettles == w.pc # "idle" ~> w.pc = "idle"

\* A review decision is applied to the executor run it was made for only, a
\* decision recovered after a crash included.  (After a retry and a crash this
\* fails: the retry's revisions have the numbers of the earlier attempt's, whose
\* last_review is still in the record, and the reuse compares the number only.)
ReviewAppliesToItsRun ==
  DecisionsAreFresh /\ w.pc = "accept" => mem.last_review.run = mem.run

\* What is published is what the author submitted last: the page staged last
\* or, when no page was ever staged, the last reply.  A retry reviews new
\* content and keeps the candidate.
PublishedIsLatest ==
  [][RevisionsAreUnique /\ published' # published
       => candidates[mem.candidate_id] = Submitted(mem)]_vars
=============================================================================
