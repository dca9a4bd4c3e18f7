------------------------ MODULE TaskLoopReviewProofs ------------------------
(***************************************************************************)
(* Proofs about TaskLoop: what the vault publishes was reviewed and        *)
(* accepted, what is COMPLETED is published or, for a direct task, was     *)
(* reviewed and accepted, a decision is applied to the run it was made     *)
(* for, and a crashed author run stays parked.                             *)
(***************************************************************************)
EXTENDS TaskLoopProofs

(***************************************************************************)
(* Completed means published, with or without retries.                     *)
(***************************************************************************)

\* The steps that are reached with a publication in hand.
Winning == w.pc = "complete" \/ (w.pc = "verdict" /\ w.verdict = "published")

Named(t) == t.candidate_id <= Len(candidates)
Completed(t) == Governed /\ t.state = "COMPLETED" => t.candidate_id \in published

VaultInv ==
  /\ published \subseteq 1..Len(candidates)
  /\ Named(disk) /\ Named(mem) /\ Named(copy)
  /\ Completed(disk) /\ Completed(mem) /\ Completed(copy)
  /\ Winning => mem.candidate_id \in published

\* Record r is what became of s without being completed.
From(r, s) == /\ r.candidate_id = s.candidate_id
              /\ r.state = "COMPLETED" => s.state = "COMPLETED"

LEMMA InitVault == Init => VaultInv
<1> SUFFICES ASSUME Init PROVE VaultInv
  OBVIOUS
<1>1. Len(candidates) = 0 /\ candidates = <<>> /\ published = {}
  BY DEF Init
<1> QED
  BY <1>1 DEF Init, VaultInv, Named, Completed, Winning, NewTask, Idle

\* What is left to show of an action that asks nothing of the vault.
LEMMA VaultStays ==
  ASSUME TypeOK, VaultInv, UNCHANGED <<candidates, published>>,
         From(disk', disk) \/ From(disk', mem) \/ From(disk', copy),
         From(mem', mem) \/ From(mem', disk) \/ mem' = NewTask,
         copy' = copy \/ copy' = disk \/ copy' = NewTask,
         Winning' => mem'.candidate_id \in published
  PROVE  VaultInv'
<1>1. NewTask.candidate_id = 0 /\ NewTask.state = "CREATED" /\ 0 <= Len(candidates)
  BY DEF NewTask, TypeOK
<1> QED
  BY <1>1 DEF VaultInv, From, Named, Completed

\* The handlers complete nothing.
LEMMA RaisedFrom ==
  ASSUME TypeOK, NEW t \in Task, From(t, mem), NEW e \in Errors, Raise(t, e)
  PROVE  /\ From(disk', disk) \/ From(disk', mem)
         /\ From(mem', mem) \/ From(mem', disk) \/ mem' = NewTask
         /\ ~Winning'
<1>1. disk \in Task /\ w \in Worker
  BY DEF TypeOK
<1>2. \A c : From(Failed(t, c), mem)
  BY DEF Failed, Task, From
<1>3. From([t EXCEPT !.state = "CANCELLED", !.retryable = FALSE], mem)
  BY DEF Task, From
<1>4. ~Winning'
  BY Raised DEF Winning
<1>5. CASE LoopCatches(t, e) \/ ExecuteCatches(t, e)
  <2>1. disk' = mem' /\ (mem' = disk \/ From(mem', mem))
    BY <1>2, <1>3, <1>5 DEF LoopCatches, ExecuteCatches, Return, Save
  <2> QED
    BY <1>4, <2>1 DEF From
<1>6. CASE CallerCatches
  <2>1. mem' = NewTask /\ From(disk', disk)
    BY <1>1, <1>6 DEF CallerCatches, Task, From
  <2> QED
    BY <1>4, <2>1
<1> QED
  BY <1>5, <1>6 DEF Raise

LEMMA RaisedKeepsVault ==
  ASSUME TypeOK, VaultInv, UNCHANGED <<candidates, published, copy>>,
         NEW t \in Task, From(t, mem), NEW e \in Errors, Raise(t, e)
  PROVE  VaultInv'
  BY RaisedFrom, VaultStays

LEMMA ScheduleKeepsVault ==
  ASSUME TypeOK, VaultInv, Dispatch \/ Execute \/ Retry \/ Fallback \/ EndChain
  PROVE  VaultInv'
<1> USE DEF operatorVars, vaultVars, orderVars, history, judgements
<1>1. disk \in Task /\ mem \in Task /\ w \in Worker
  BY DEF TypeOK
<1>2. UNCHANGED <<copy, candidates, published>>
  BY DEF Dispatch, Execute, Retry, Fallback, EndChain
<1>3. w'.pc \in {"dispatch", "author", "returned", "idle"}
  <2>1. Dispatch => w'.pc = "dispatch"
    BY DEF Dispatch, Idle
  <2>2. Retry => w'.pc = "dispatch"
    BY <1>1 DEF Retry, Worker
  <2>3. EndChain => w'.pc = "idle"
    BY DEF EndChain, Idle
  <2>4. Execute => w'.pc \in {"author", "returned"}
    BY <1>1 DEF Execute, Return, Go, Worker
  <2>5. Fallback => w'.pc = "dispatch"
    BY <1>1 DEF Fallback, Worker
  <2> QED
    BY <2>1, <2>2, <2>3, <2>4, <2>5
<1>4. ~Winning'
  BY <1>3 DEF Winning
<1>5. CASE Dispatch \/ Retry \/ EndChain
  BY <1>2, <1>4, <1>5, VaultStays DEF Dispatch, Retry, EndChain, From
<1>6. CASE Execute
  <2>1. From(Failed(disk, "ENVIRONMENT_FAULT"), disk)
    BY <1>1 DEF Failed, Task, From
  <2>2. From([disk EXCEPT !.state = "AUTHOR_RUNNING"], disk)
    BY <1>1 DEF Task, From
  <2>3. From(disk', disk) /\ From(mem', disk)
    BY <1>6, <2>1, <2>2 DEF Execute, Return, Save, From
  <2> QED
    BY <1>2, <1>4, <2>3, VaultStays
<1>7. CASE Fallback
  <2>1. disk' = mem' /\ From(mem', mem)
    BY <1>1, <1>7 DEF Fallback, Save, Task, From
  <2> QED
    BY <1>2, <1>4, <2>1, VaultStays
<1> QED
  BY <1>5, <1>6, <1>7

LEMMA AuthorKeepsVault ==
  ASSUME TypeOK, TypeOK', VaultInv, AuthorCompletes \/ AuthorFails \/ AuthorKilled
  PROVE  VaultInv'
<1> USE BoundsAssumption, ChoicesAssumption DEF operatorVars, vaultVars, history, judgements
<1>1. mem \in Task /\ w \in Worker /\ runs + 1 \in 0..MaxRuns
  <2>1. runs' \in 0..MaxRuns /\ runs' = runs + 1
    BY DEF TypeOK, AuthorCompletes, AuthorFails, AuthorKilled
  <2> QED
    BY <2>1 DEF TypeOK
<1>2. UNCHANGED <<copy, candidates, published>>
  BY DEF AuthorCompletes, AuthorFails, AuthorKilled
<1>3. CASE AuthorCompletes
  <2> DEFINE done == [mem EXCEPT !.run = runs + 1, !.status = "completed",
                                 !.author_content_revision = w.revision,
                                 !.content = runs + 1,
                                 !.staged = (@ \/ (Governed /\ file' = runs + 1)),
                                 !.session = (@ \/ w.revision = 1)]
  <2>1. /\ disk' = mem' /\ w'.pc = "review"
        /\ mem' = [done EXCEPT !.state = "REVIEW_RUNNING", !.review_revision = w.revision]
    BY <1>1, <1>3 DEF AuthorCompletes, EnterReview, Save, Worker
  <2>2. From(mem', mem)
    BY <1>1, <2>1 DEF Task, From
  <2> QED
    BY <1>2, <2>1, <2>2, VaultStays DEF Winning
<1>4. CASE AuthorFails
  <2>1. PICK c \in Faults : Raise([mem EXCEPT !.run = runs + 1, !.status = "failed",
                                    !.error = c, !.retryable = (c = "TRANSIENT_FAULT")], c)
    BY <1>4 DEF AuthorFails
  <2> DEFINE t == [mem EXCEPT !.run = runs + 1, !.status = "failed",
                              !.error = c, !.retryable = (c = "TRANSIENT_FAULT")]
  <2>2. c \in Categories /\ c \in Errors /\ (c = "TRANSIENT_FAULT") \in BOOLEAN
    BY DEF Errors
  <2>3. t \in Task /\ From(t, mem)
    BY <1>1, <2>2 DEF Task, From
  <2> QED
    BY <1>2, <2>1, <2>2, <2>3, RaisedKeepsVault
<1>5. CASE AuthorKilled
  <2> DEFINE t == [mem EXCEPT !.run = runs + 1, !.status = "cancelled"]
  <2>1. t \in Task /\ From(t, mem)
    BY <1>1 DEF Task, From
  <2>2. Raise(t, "RUN_CANCELLED") /\ "RUN_CANCELLED" \in Errors
    BY <1>5 DEF AuthorKilled, Errors
  <2> QED
    BY <1>2, <2>1, <2>2, RaisedKeepsVault
<1> QED
  BY <1>3, <1>4, <1>5

LEMMA DecidedKeepsVault ==
  ASSUME TypeOK, VaultInv, UNCHANGED <<candidates, published, copy>>,
         NEW t \in Task, From(t, mem), NEW decision,
         Decided(t, decision) \/ FixOrGiveUp(t)
  PROVE  VaultInv'
<1>1. w \in Worker
  BY DEF TypeOK
<1>2. CASE FixOrGiveUp(t)
  <2>1. /\ disk' = mem' /\ w'.pc \in {"fix", "returned"}
        /\ \/ mem' = [t EXCEPT !.state = "FAILED"]
           \/ mem' = [t EXCEPT !.state = "NEEDS_FIX", !.revisions_used = w.revision + 1]
    BY <1>1, <1>2 DEF FixOrGiveUp, Return, Save, Go, Worker
  <2>2. From(mem', mem)
    BY <2>1 DEF Task, From
  <2> QED
    BY <2>1, <2>2, VaultStays DEF Winning
<1>3. CASE Go("accept") /\ mem' = t /\ UNCHANGED disk
  <2>1. w'.pc = "accept"
    BY <1>1, <1>3 DEF Go, Worker
  <2> QED
    BY <1>3, <2>1, VaultStays DEF Winning, From
<1> QED
  BY <1>2, <1>3 DEF Decided

LEMMA ReviewKeepsVault ==
  ASSUME TypeOK, VaultInv, \/ ReviewReused \/ ReviewCompletes \/ ReviewFails
                           \/ ReviewKilled \/ AcceptancePasses \/ AcceptanceFails \/ StartFix
  PROVE  VaultInv'
<1> USE ChoicesAssumption DEF operatorVars, vaultVars, orderVars, history, judgements
<1>1. mem \in Task /\ w \in Worker /\ w.revision \in 0..MaxRevisions /\ mem.run \in 0..MaxRuns
  <2>1. mem \in Task /\ w \in Worker
    BY DEF TypeOK
  <2> QED
    BY <2>1, BoundsAssumption DEF Worker, Task
<1>2. UNCHANGED <<candidates, published, copy>> /\ From(mem, mem)
  BY DEF ReviewReused, ReviewCompletes, ReviewFails, ReviewKilled, AcceptancePasses,
         AcceptanceFails, StartFix, From
<1>3. CASE ReviewReused \/ AcceptanceFails
  BY <1>1, <1>2, <1>3, DecidedKeepsVault DEF ReviewReused, AcceptanceFails
<1>4. CASE ReviewCompletes
  <2>1. PICK decision \in {"PASS", "NEEDS_FIX"} :
          Decided([mem EXCEPT !.last_review = [decision |-> decision,
                     revision |-> w.revision, run |-> mem.run]], decision)
    BY <1>4 DEF ReviewCompletes
  <2> DEFINE review == [decision |-> decision, revision |-> w.revision, run |-> mem.run]
             t == [mem EXCEPT !.last_review = review]
  <2>2. review \in Review
    BY <1>1 DEF Review
  <2> HIDE DEF review
  <2>3. t \in Task /\ From(t, mem)
    BY <1>1, <2>2 DEF Task, From
  <2>4. Decided(t, decision)
    BY <2>1 DEF review
  <2> QED
    BY <1>2, <2>3, <2>4, DecidedKeepsVault
<1>5. CASE ReviewFails
  <2>1. PICK c \in Faults \union {"NONE"} : Raise(mem, c)
    BY <1>5 DEF ReviewFails
  <2>2. c \in Errors
    BY DEF Errors, Categories
  <2> QED
    BY <1>1, <1>2, <2>1, <2>2, RaisedKeepsVault
<1>6. CASE ReviewKilled
  <2>1. Raise(mem, "RUN_CANCELLED") /\ "RUN_CANCELLED" \in Errors
    BY <1>6 DEF ReviewKilled, Errors
  <2> QED
    BY <1>1, <1>2, <2>1, RaisedKeepsVault
<1>7. CASE AcceptancePasses
  <2>1. CASE Governed
    <3>1. w'.pc = "candidate" /\ disk' = mem' /\ From(mem', mem)
      BY <1>1, <1>7, <2>1 DEF AcceptancePasses, Save, Go, Worker, Task, From
    <3> QED
      BY <1>2, <3>1, VaultStays DEF Winning
  <2>2. CASE ~Governed
    <3>1. w'.pc = "returned" /\ disk' = mem' /\ mem'.candidate_id = mem.candidate_id
      BY <1>1, <1>7, <2>2 DEF AcceptancePasses, Return, Save, Go, Worker, Task
    <3> QED
      BY <1>2, <2>2, <3>1 DEF VaultInv, Named, Completed, Winning
  <2> QED
    BY <2>1, <2>2
<1>8. CASE StartFix
  <2>1. disk' = mem' /\ w'.pc = "author" /\ From(mem', mem)
    BY <1>1, <1>8 DEF StartFix, Save, Go, Worker, Task, From
  <2> QED
    BY <1>2, <2>1, VaultStays DEF Winning
<1> QED
  BY <1>3, <1>4, <1>5, <1>6, <1>7, <1>8

LEMMA GovernanceKeepsVault ==
  ASSUME TypeOK, RejectInv, VaultInv,
         \/ TargetConflict \/ BridgeFails \/ CreateCandidate \/ ReuseCandidate
         \/ FormalReview \/ FormalRefused \/ ApplyVerdict \/ CompletePublish \/ Settle
  PROVE  VaultInv'
<1> USE ChoicesAssumption DEF operatorVars, vaultVars, orderVars, history, judgements
<1>1. mem \in Task /\ w \in Worker /\ From(mem, mem)
  BY DEF TypeOK, From
<1>2. UNCHANGED <<copy, published>>
  BY DEF TargetConflict, BridgeFails, CreateCandidate, ReuseCandidate, FormalReview,
         FormallyReviewed, FormalRefused, ApplyVerdict, CompletePublish, Settle
<1>3. ASSUME NEW c \in ByMessage \union Faults \union {"NONE", "KILLED", "TRANSIENT_FAULT"},
             Raise(mem, c), UNCHANGED candidates
      PROVE  VaultInv'
  <2>1. c \in Errors
    BY DEF ByMessage, Errors, Categories
  <2> QED
    BY <1>1, <1>2, <1>3, <2>1, RaisedKeepsVault
<1>4. ASSUME NEW s \in {"FAILED", "WAITING_HUMAN"}, Return([mem EXCEPT !.state = s]),
             UNCHANGED candidates
      PROVE  VaultInv'
  <2>1. disk' = mem' /\ w'.pc = "returned" /\ From(mem', mem)
    BY <1>1, <1>4 DEF Return, Save, Go, Worker, Task, From
  <2> QED
    BY <1>2, <1>4, <2>1, VaultStays DEF Winning
<1>5. ASSUME mem.candidate_id \in published, UNCHANGED candidates,
             Save([mem EXCEPT !.state = "PUBLISHING"])
      PROVE  VaultInv'
  <2>1. disk' = mem' /\ From(mem', mem) /\ mem'.candidate_id \in published
    BY <1>1, <1>5 DEF Save, Task, From
  <2> QED
    BY <1>2, <1>5, <2>1, VaultStays
<1>6. ASSUME UNCHANGED <<disk, mem, candidates>>, w'.pc \in {"publish", "formal", "refused"}
      PROVE  VaultInv'
  BY <1>2, <1>6, VaultStays DEF Winning, From
<1>7. CASE TargetConflict
  BY <1>4, <1>7 DEF TargetConflict
<1>8. CASE BridgeFails
  BY <1>3, <1>8 DEF BridgeFails
<1>9. CASE CreateCandidate
  <2>1. candidates \in Seq(Submissions)
    BY DEF TypeOK
  <2>2. Len(candidates') = Len(candidates) + 1 /\ Len(candidates) \in Nat
    BY <1>9, <2>1 DEF CreateCandidate
  <2>3. ASSUME NEW n \in 0..Len(candidates) PROVE n <= Len(candidates')
    BY <2>2
  <2>4. \A r \in Task : Named(r) => r.candidate_id \in 0..Len(candidates)
    BY <2>2 DEF Named, Task
  <2>5. \A r \in Task : Named(r) => r.candidate_id <= Len(candidates')
    BY <2>3, <2>4
  <2>6. disk \in Task /\ copy \in Task
    BY DEF TypeOK
  <2>7. published' \subseteq 1..Len(candidates') /\ copy'.candidate_id <= Len(candidates')
    BY <1>2, <2>2, <2>5, <2>6 DEF VaultInv
  <2>8. CASE Raise(mem, "TRANSIENT_FAULT")
    <3>1. /\ From(disk', disk) \/ From(disk', mem)
          /\ From(mem', mem) \/ From(mem', disk) \/ mem' = NewTask
          /\ ~Winning'
      BY <1>1, <2>8, RaisedFrom DEF Errors, Categories
    <3>2. NewTask.candidate_id = 0 /\ NewTask.state = "CREATED" /\ 0 <= Len(candidates')
      BY <2>2 DEF NewTask
    <3>3. disk'.candidate_id <= Len(candidates') /\ mem'.candidate_id <= Len(candidates')
      BY <1>1, <2>5, <2>6, <3>1, <3>2 DEF VaultInv, From
    <3>4. Completed(disk)' /\ Completed(mem)' /\ Completed(copy)'
      BY <1>2, <3>1, <3>2 DEF VaultInv, From, Completed
    <3> QED
      BY <2>7, <3>1, <3>3, <3>4 DEF VaultInv, Named
  <2>9. CASE Save([mem EXCEPT !.candidate_id = Len(candidates) + 1]) /\ Go("formal")
    <3>1. /\ disk' = mem' /\ w'.pc = "formal"
          /\ mem' = [mem EXCEPT !.candidate_id = Len(candidates) + 1]
      BY <1>1, <2>9 DEF Save, Go, Worker
    <3>2. mem'.candidate_id = Len(candidates') /\ mem'.state = "GOVERNANCE_PENDING"
      BY <1>1, <1>9, <2>2, <3>1 DEF Task, CreateCandidate, RejectInv
    <3> QED
      BY <1>2, <2>2, <2>7, <3>1, <3>2 DEF VaultInv, Named, Completed, Winning
  <2> QED
    BY <1>9, <2>8, <2>9 DEF CreateCandidate
<1>10. CASE ReuseCandidate
  <2>1. w'.pc = "formal"
    BY <1>1, <1>10 DEF ReuseCandidate, Go, Worker
  <2> QED
    BY <1>6, <1>10, <2>1 DEF ReuseCandidate
<1>11. CASE FormalReview
  <2>1. w.pc = "formal" /\ UNCHANGED candidates
    BY <1>11 DEF FormalReview, FormallyReviewed
  <2>2. CASE Go("publish") /\ UNCHANGED <<disk, mem>>
    <3>1. w'.pc = "publish"
      BY <1>1, <2>2 DEF Go, Worker
    <3> QED
      BY <1>6, <2>1, <2>2, <3>1
  <2>3. CASE /\ \E f \in {"approve", "reject", "other"} : Save([mem EXCEPT !.formal = f])
             /\ Go("publish") \/ Go("refused")
    <3>1. disk' = mem' /\ w'.pc \in {"publish", "formal", "refused"} /\ From(mem', mem)
      BY <1>1, <2>1, <2>3 DEF Save, Go, Worker, Task, From
    <3> QED
      BY <1>2, <2>1, <3>1, VaultStays DEF Winning
  <2>4. CASE \E c \in ByMessage \union Faults \union {"NONE", "KILLED", "TRANSIENT_FAULT"} :
               Raise(mem, c)
    BY <1>3, <2>1, <2>4
  <2>5. CASE Go("refused") /\ UNCHANGED <<disk, mem>>
    <3>1. w'.pc = "refused"
      BY <1>1, <2>5 DEF Go, Worker
    <3> QED
      BY <1>6, <2>1, <2>5, <3>1
  <2> QED
    BY <1>11, <2>2, <2>3, <2>4, <2>5 DEF FormalReview, FormallyReviewed
<1>15. CASE FormalRefused
  BY <1>3, <1>15 DEF FormalRefused
<1>12. CASE ApplyVerdict
  BY <1>4, <1>5, <1>12 DEF ApplyVerdict, VaultInv, Winning
<1>13. CASE CompletePublish
  <2>1. mem.candidate_id \in published
    BY <1>13 DEF CompletePublish, VaultInv, Winning
  <2>2. /\ disk' = mem' /\ w'.pc = "returned" /\ mem'.candidate_id = mem.candidate_id
        /\ UNCHANGED candidates
    BY <1>1, <1>13 DEF CompletePublish, Return, Save, Go, Worker, Task
  <2> QED
    BY <1>2, <2>1, <2>2 DEF VaultInv, Named, Completed, Winning
<1>14. CASE Settle
  <2>1. UNCHANGED candidates
    BY <1>14 DEF Settle
  <2>2. CASE Go("publish") /\ UNCHANGED <<disk, mem>>
    <3>1. w'.pc = "publish"
      BY <1>1, <2>2 DEF Go, Worker
    <3> QED
      BY <1>6, <2>1, <2>2, <3>1
  <2>3. CASE Save([mem EXCEPT !.published_flag = FALSE]) /\ Go("publish")
    <3>1. disk' = mem' /\ w'.pc = "publish" /\ From(mem', mem)
      BY <1>1, <2>3 DEF Save, Go, Worker, Task, From
    <3> QED
      BY <1>2, <2>1, <3>1, VaultStays DEF Winning
  <2> QED
    BY <1>5, <1>14, <2>1, <2>2, <2>3 DEF Settle
<1> QED
  BY <1>7, <1>8, <1>9, <1>10, <1>11, <1>12, <1>13, <1>14, <1>15

\* A publication answered is recorded with the candidate's name in hand; one
\* whose answer is lost completes nothing.
LEMMA PublishKeepsVault ==
  ASSUME TypeInv, VaultInv, Publish \/ PublishUnanswered
  PROVE  VaultInv'
<1> USE DEF operatorVars, vaultVars, orderVars, history, judgements
<1>1. TypeOK /\ mem \in Task /\ w \in Worker /\ From(mem, mem)
  BY DEF TypeInv, TypeOK, From
<1>2. mem.candidate_id \in 1..Len(candidates)
  <2>1. mem.candidate_id # 0
    BY DEF Publish, PublishUnanswered, TypeInv, CandidateNamed, GovernanceSteps
  <2>2. mem.candidate_id \in Nat /\ Len(candidates) \in Nat
    BY <1>1 DEF Task, TypeOK
  <2> QED
    BY <2>1, <2>2 DEF VaultInv, Named
<1>3. UNCHANGED <<copy, candidates>> /\ published \subseteq published'
      /\ published' \subseteq 1..Len(candidates)
  BY <1>2 DEF Publish, PublishUnanswered, VaultInv
<1>4. /\ From(disk', disk) \/ From(disk', mem)
      /\ From(mem', mem) \/ From(mem', disk) \/ mem' = NewTask
      /\ Winning' => mem'.candidate_id \in published'
  <2>1. CASE Publish
    <3>1. PICK v \in Verdicts :
            /\ published' = IF v = "published" THEN published \union {mem.candidate_id}
                                              ELSE published
            /\ Save(IF v = "rejected" THEN mem
                    ELSE [mem EXCEPT !.published_flag = (v = "published")])
            /\ w' = [w EXCEPT !.pc = "verdict", !.verdict = v]
      BY <2>1 DEF Publish
    <3>2. disk' = mem' /\ From(mem', mem)
      BY <1>1, <3>1 DEF Save, Task, From
    <3>3. w'.pc = "verdict" /\ w'.verdict = v
      BY <1>1, <3>1 DEF Worker
    <3> QED
      BY <3>1, <3>2, <3>3 DEF Winning, From
  <2>2. CASE PublishUnanswered
    BY <1>1, <2>2, RaisedFrom DEF PublishUnanswered, Errors, Categories
  <2> QED
    BY <2>1, <2>2
<1>5. NewTask.candidate_id = 0 /\ NewTask.state = "CREATED" /\ 0 <= Len(candidates)
  BY <1>1 DEF NewTask, TypeOK
<1> QED
  BY <1>3, <1>4, <1>5 DEF VaultInv, From, Named, Completed

LEMMA RecoveryKeepsVault ==
  ASSUME TypeOK, VaultInv, Recover \/ ResumeTask
  PROVE  VaultInv'
<1> USE DEF operatorVars, vaultVars, orderVars, history, judgements
<1>1. disk \in Task /\ UNCHANGED <<copy, candidates, published>> /\ w.pc = "idle"
  BY DEF TypeOK, Recover, RecoverGovernance, RecoverFix, RecoverReview, RecoverInterrupted,
         ResumeTask
<1>2. \A step \in Steps : Recovering(step).pc = step /\ Recovering(step) \in Worker
  <2>1. "recover" \in {"none", "run", "resume", "recover"}
    OBVIOUS
  <2> QED
    BY <2>1, NewTypes DEF Recovering, Worker
<1>3. {"candidate", "settle", "author", "review"} \subseteq Steps
  BY DEF Steps
<1>4. CASE RecoverGovernance \/ ResumeTask
  <2>1. UNCHANGED disk /\ mem' = disk /\ w'.pc \in {"candidate", "settle"}
    BY <1>2, <1>3, <1>4 DEF RecoverGovernance, ResumeTask, Idle
  <2> QED
    BY <1>1, <2>1, VaultStays DEF Winning, From
<1>5. CASE RecoverFix
  <2>1. w'.pc = "author" /\ disk' = mem' /\ mem' = [disk EXCEPT !.state = "AUTHOR_RUNNING"]
    BY <1>2, <1>3, <1>5 DEF RecoverFix, Save, Worker
  <2>2. From(mem', disk)
    BY <1>1, <2>1 DEF Task, From
  <2> QED
    BY <1>1, <2>1, <2>2, VaultStays DEF Winning
<1>6. CASE RecoverReview
  <2> DEFINE revision == IF disk.review_revision = 0 THEN disk.revisions_used
                                                    ELSE disk.review_revision
             reuse == /\ disk.state = "REVIEW_RUNNING" /\ ReviewPersisted(disk)
                      /\ disk.last_review.revision = revision
  <2>1. /\ Save([disk EXCEPT !.state = "REVIEW_RUNNING", !.review_revision = revision])
        /\ w' = [Recovering("review") EXCEPT !.frame = "loop", !.revision = revision,
                                             !.reuse = reuse]
    BY <1>6 DEF RecoverReview
  <2> HIDE DEF revision, reuse
  <2>2. w'.pc = "review" /\ disk' = mem' /\ From(mem', disk)
    BY <1>1, <1>2, <1>3, <2>1 DEF Save, Worker, Task, From
  <2> QED
    BY <1>1, <2>2, VaultStays DEF Winning
<1>7. CASE RecoverInterrupted
  <2>1. UNCHANGED <<mem, w>> /\ From(disk', disk)
    BY <1>1, <1>7 DEF RecoverInterrupted, Task, From
  <2> QED
    BY <1>1, <2>1, VaultStays DEF Winning, From
<1> QED
  BY <1>4, <1>5, <1>6, <1>7 DEF Recover

LEMMA OperatorKeepsVault ==
  ASSUME TypeOK, VaultInv, Operator \/ Crash
  PROVE  VaultInv'
<1> USE DEF operatorVars, vaultVars, orderVars, history, judgements
<1>1. disk \in Task /\ copy \in Task /\ UNCHANGED <<candidates, published>>
  BY DEF TypeOK, Operator, CancelTask, Shutdown, CliCancel, CliReread, CliWrite, Crash
<1>2. From(disk', disk) \/ From(disk', copy)
  BY <1>1 DEF Operator, CancelTask, Shutdown, CliCancel, CliReread, CliWrite, Crash,
              CancelledOnDisk, Task, From
<1>3. copy' = copy \/ copy' = disk \/ copy' = NewTask
  BY DEF Operator, CancelTask, Shutdown, CliCancel, CliReread, CliWrite, Crash
<1>4. CASE Operator
  <2>1. UNCHANGED <<mem, w>>
    BY <1>4 DEF Operator, CancelTask, Shutdown, CliCancel, CliReread, CliWrite
  <2> QED
    BY <1>1, <1>2, <1>3, <2>1, VaultStays DEF VaultInv, Winning, From
<1>5. CASE Crash
  BY <1>1, <1>2, <1>3, <1>5, VaultStays DEF Crash, Idle, Winning
<1> QED
  BY <1>4, <1>5

LEMMA VaultHolds == Spec => []VaultInv
<1>1. TypeInv /\ TypeInv' /\ RejectInv /\ VaultInv /\ [Next]_vars => VaultInv'
  <2> SUFFICES ASSUME TypeInv, TypeInv', RejectInv, VaultInv, [Next]_vars PROVE VaultInv'
    OBVIOUS
  <2>1. TypeOK /\ TypeOK'
    BY DEF TypeInv
  <2>2. CASE UNCHANGED vars
    BY <2>2 DEF vars, operatorVars, vaultVars, VaultInv, Named, Completed, Winning
  <2>3. CASE Dispatch
    BY <2>1, <2>3, ScheduleKeepsVault
  <2>4. CASE Work
    BY <2>1, <2>4, ScheduleKeepsVault, AuthorKeepsVault, ReviewKeepsVault,
       GovernanceKeepsVault, PublishKeepsVault DEF Work
  <2>5. CASE Recover \/ ResumeTask
    BY <2>1, <2>5, RecoveryKeepsVault
  <2>6. CASE Operator \/ Crash
    BY <2>1, <2>6, OperatorKeepsVault
  <2> QED
    BY <2>2, <2>3, <2>4, <2>5, <2>6 DEF Next
<1> QED
  BY <1>1, InitVault, TypesHold, RejectsHold, PTL DEF Spec

-----------------------------------------------------------------------------
(***************************************************************************)
(* Without retries every author run has a revision of its own, and a       *)
(* record's revision numbers say what has been reviewed.                   *)
(***************************************************************************)

Pending == {"GOVERNANCE_PENDING", "WAITING_HUMAN", "PUBLISHING"}
Unfinished == {"CREATED", "AUTHOR_RUNNING", "FIX_RUNNING", "NEEDS_FIX"}

\* The versions that were reviewed and accepted.
Good == passed \intersect verified

\* What record t would submit from workspace f, and the submissions whose page,
\* if they are one, is a good version.
SubmissionAt(t, f) == [page |-> t.staged, version |-> IF t.staged THEN f ELSE t.content]
Clean(s, good) == s.page => s.version \in good

\* Record t tells the truth of workspace f, good versions and candidates c:
\* before a review ends no review or content of the current revision is on
\* record, after it the workspace is good, and a named candidate is what the record submits.
SoundAt(t, f, good, c) ==
  /\ t.state = "CREATED" => t.revisions_used = 1
  /\ t.state \in Unfinished => /\ t.candidate_id = 0
                               /\ t.last_review.revision < t.revisions_used
                               /\ t.author_content_revision < t.revisions_used
  /\ t.state = "REVIEW_RUNNING" => /\ t.candidate_id = 0
                                   /\ t.last_review.revision < t.revisions_used
                                   /\ t.author_content_revision <= t.revisions_used
                                   /\ t.review_revision = t.revisions_used
  /\ t.state = "GOVERNANCE_PENDING" => f \in good
  /\ t.state \in Pending => Governed
  /\ t.state \in Pending /\ t.candidate_id # 0 => c[t.candidate_id] = SubmissionAt(t, f)
  /\ t.state = "COMPLETED" /\ ~Governed => f \in good

Sound(t) == SoundAt(t, file, Good, candidates)

\* What the chain's position says of the two records.
AtStep ==
  /\ w.pc = "dispatch" => disk.state \in {"CREATED", "CANCELLED"}
  /\ w.pc = "author" =>
       /\ mem.state \in {"AUTHOR_RUNNING", "FIX_RUNNING"} /\ mem.revisions_used = w.revision
       /\ disk.state \in {"AUTHOR_RUNNING", "FIX_RUNNING", "CANCELLED"}
       /\ w.frame = "execute" => disk.state # "FIX_RUNNING"
  /\ w.pc = "review" =>
       mem.state = "REVIEW_RUNNING" /\ mem.revisions_used = w.revision /\ w.frame = "loop"
  /\ w.pc = "accept" =>
       /\ file \in passed /\ mem.last_review.run = mem.run /\ w.frame = "loop"
       /\ mem.candidate_id = 0 /\ mem.last_review.revision <= w.revision
       /\ mem.author_content_revision <= w.revision
  /\ w.pc = "fix" =>
       mem.state = "NEEDS_FIX" /\ mem.revisions_used = w.revision /\ w.frame = "loop"
  /\ w.pc = "candidate" => mem.state = "GOVERNANCE_PENDING"
  /\ w.pc \in GovernanceSteps => mem.state \in Pending

EarnedCore ==
  /\ Sound(disk) /\ (w.pc # "accept" => Sound(mem)) /\ AtStep
  /\ \A i \in 1..Len(candidates) : Clean(candidates[i], Good)
  /\ unknown => w.pc = "idle" /\ disk.state \in {"AUTHOR_RUNNING", "CANCELLED"}

EarnedInv == RevisionsAreUnique => EarnedCore

\* Records that say the same of what SoundAt looks at.
Like(r, s) ==
  /\ r.state = s.state /\ r.revisions_used = s.revisions_used
  /\ r.candidate_id = s.candidate_id /\ r.last_review = s.last_review
  /\ r.author_content_revision = s.author_content_revision
  /\ r.review_revision = s.review_revision
  /\ r.staged = s.staged /\ r.content = s.content

LEMMA SoundLike ==
  ASSUME NEW r, NEW s, NEW f, NEW good, NEW c, Like(r, s), SoundAt(s, f, good, c)
  PROVE  SoundAt(r, f, good, c)
  BY DEF Like, SoundAt, SubmissionAt

\* A record of a finished chain claims nothing, nor does a new one.
LEMMA SoundEnded ==
  ASSUME NEW r, r.state \in {"FAILED", "CANCELLED"}, NEW f, NEW good, NEW c
  PROVE  SoundAt(r, f, good, c)
  BY DEF SoundAt, Unfinished, Pending

LEMMA SoundNew ==
  ASSUME NEW f, NEW good, NEW c
  PROVE  SoundAt(NewTask, f, good, c)
  BY DEF SoundAt, NewTask, NoReview, Unfinished, Pending

\* While the author works, what is in the workspace does not matter.
LEMMA SoundAway ==
  ASSUME NEW r, r.state \notin Pending \union {"COMPLETED"},
         NEW f, NEW good, NEW c, SoundAt(r, f, good, c), NEW f2, NEW good2, NEW c2
  PROVE  SoundAt(r, f2, good2, c2)
  BY DEF SoundAt, Pending

\* More good versions and one more candidate disturb no claim.
LEMMA SoundGrows ==
  ASSUME NEW c \in Seq(Submissions), NEW f, NEW r \in Task,
         r.candidate_id <= Len(c), NEW good, NEW good2, good \subseteq good2,
         NEW c2, c2 = c \/ \E s \in Submissions : c2 = Append(c, s), SoundAt(r, f, good, c)
  PROVE  SoundAt(r, f, good2, c2)
<1>1. r.candidate_id \in Nat /\ Len(c) \in Nat
  BY DEF Task
<1>2. r.candidate_id # 0 => c2[r.candidate_id] = c[r.candidate_id]
  BY <1>1
<1> QED
  BY <1>2 DEF SoundAt

LEMMA InitEarned == Init => EarnedInv
<1> SUFFICES ASSUME Init PROVE EarnedCore
  BY DEF EarnedInv
<1>1. Sound(disk) /\ Sound(mem)
  BY SoundNew DEF Init, Sound
<1>2. candidates = <<>> /\ Len(candidates) = 0
  BY DEF Init
<1> QED
  BY <1>1, <1>2 DEF Init, EarnedCore, AtStep, Idle, GovernanceSteps

\* An exception, with the claims of both records still true.
LEMMA RaisedKeepsEarned ==
  ASSUME TypeOK, EarnedCore, w.pc # "idle", UNCHANGED unknown,
         NEW t \in Task, Like(t, mem), NEW e \in Errors, Raise(t, e),
         SoundAt(mem, file', Good', candidates'), SoundAt(disk, file', Good', candidates'),
         \A i \in 1..Len(candidates') : Clean(candidates'[i], Good')
  PROVE  EarnedCore'
<1>1. w'.pc \in {"idle", "returned"}
  BY Raised
<1>2. AtStep' /\ ~unknown'
  BY <1>1 DEF AtStep, GovernanceSteps, EarnedCore
<1>3. disk \in Task
  BY DEF TypeOK
<1>4. SoundAt(t, file', Good', candidates')
  BY SoundLike
<1>5. \A c : Failed(t, c).state = "FAILED"
  BY DEF Failed, Task
<1>6. [t EXCEPT !.state = "CANCELLED", !.retryable = FALSE].state = "CANCELLED"
  BY DEF Task
<1>7. CASE LoopCatches(t, e) \/ ExecuteCatches(t, e)
  <2>1. /\ disk' = mem'
        /\ mem' = t \/ mem' = disk \/ mem'.state \in {"FAILED", "CANCELLED"}
    <3>1. CASE LoopCatches(t, e)
      BY <1>5, <3>1 DEF LoopCatches, Return, Save
    <3>2. CASE ExecuteCatches(t, e)
      <4>1. CASE Interrupted(e)
        BY <3>2, <4>1 DEF ExecuteCatches, Return, Save
      <4>2. CASE ~Interrupted(e) /\ e = "RUN_CANCELLED"
        BY <1>6, <3>2, <4>2 DEF ExecuteCatches, Return, Save
      <4>3. CASE ~Interrupted(e) /\ e # "RUN_CANCELLED" /\ disk.state = "CANCELLED"
        BY <3>2, <4>3 DEF ExecuteCatches, Return, Save
      <4>4. CASE ~Interrupted(e) /\ e # "RUN_CANCELLED" /\ disk.state # "CANCELLED"
        BY <1>5, <3>2, <4>4 DEF ExecuteCatches, Return, Save
      <4> QED
        BY <4>1, <4>2, <4>3, <4>4
    <3> QED
      BY <1>7, <3>1, <3>2
  <2>2. SoundAt(mem', file', Good', candidates')
    BY <1>4, <2>1, SoundEnded
  <2> QED
    BY <1>2, <2>1, <2>2 DEF EarnedCore, Sound
<1>8. CASE CallerCatches
  <2>1. mem' = NewTask /\ (disk' = disk \/ disk'.state = "FAILED")
    BY <1>3, <1>8 DEF CallerCatches, Task
  <2>2. /\ SoundAt(mem', file', Good', candidates')
        /\ SoundAt(disk', file', Good', candidates')
    BY <2>1, SoundNew, SoundEnded
  <2> QED
    BY <1>2, <2>2 DEF EarnedCore, Sound
<1> QED
  BY <1>7, <1>8 DEF Raise

LEMMA ScheduleKeepsEarned ==
  ASSUME TypeOK, EarnedCore, Dispatch \/ Execute \/ EndChain
  PROVE  EarnedCore'
<1> USE DEF operatorVars, vaultVars, orderVars, history, judgements
<1>1. disk \in Task /\ mem \in Task /\ w \in Worker
  BY DEF TypeOK
<1>2. UNCHANGED <<file, candidates, passed, verified, unknown>> /\ Good' = Good
  BY DEF Dispatch, Execute, EndChain, Good
<1>3. CASE Dispatch
  <2>1. UNCHANGED <<disk, mem>> /\ w.pc = "idle" /\ w'.pc = "dispatch"
        /\ disk.state = "CREATED"
    BY <1>3 DEF Dispatch, Idle
  <2> QED
    BY <1>2, <2>1 DEF EarnedCore, Sound, AtStep, GovernanceSteps
<1>4. CASE Execute
  <2>1. ~unknown /\ w.pc = "dispatch"
    BY <1>4 DEF Execute, EarnedCore
  <2>2. CASE \/ Return(disk) /\ disk.state = "CANCELLED"
             \/ Return(Failed(disk, "ENVIRONMENT_FAULT"))
    <3>1. disk' = mem' /\ w'.pc = "returned" /\ mem'.state \in {"CANCELLED", "FAILED"}
      BY <1>1, <2>2 DEF Return, Save, Go, Worker, Failed, Task
    <3>2. SoundAt(mem', file', Good', candidates')
      BY <3>1, SoundEnded
    <3> QED
      BY <1>2, <2>1, <3>1, <3>2 DEF EarnedCore, Sound, AtStep, GovernanceSteps
  <2>3. CASE /\ disk.state # "CANCELLED"
             /\ Save([disk EXCEPT !.state = "AUTHOR_RUNNING"])
             /\ w' = [w EXCEPT !.pc = "author", !.frame = "execute", !.revision = 1,
                               !.reuse = FALSE]
    <3>1. disk.state = "CREATED"
      BY <2>1, <2>3 DEF EarnedCore, AtStep
    <3>2. /\ disk' = mem' /\ mem'.state = "AUTHOR_RUNNING"
          /\ mem'.revisions_used = disk.revisions_used
          /\ mem'.candidate_id = disk.candidate_id /\ mem'.last_review = disk.last_review
          /\ mem'.author_content_revision = disk.author_content_revision
      BY <1>1, <2>3 DEF Save, Task
    <3>3. w'.pc = "author" /\ w'.revision = 1
      BY <1>1, <2>3 DEF Worker
    <3>4. SoundAt(mem', file', Good', candidates') /\ mem'.revisions_used = 1
      BY <1>2, <3>1, <3>2 DEF EarnedCore, Sound, SoundAt, Unfinished, Pending
    <3> QED
      BY <1>2, <2>1, <3>2, <3>3, <3>4 DEF EarnedCore, Sound, AtStep, GovernanceSteps
  <2> QED
    BY <1>4, <2>2, <2>3 DEF Execute
<1>5. CASE EndChain
  <2>1. w'.pc = "idle" /\ mem' = NewTask /\ disk' \in {disk, mem} /\ w.pc = "returned"
    BY <1>5 DEF EndChain, Idle
  <2>2. /\ SoundAt(mem', file', Good', candidates')
        /\ SoundAt(disk', file', Good', candidates')
    BY <1>2, <2>1, SoundNew DEF EarnedCore, Sound
  <2> QED
    BY <1>2, <2>1, <2>2 DEF EarnedCore, Sound, AtStep, GovernanceSteps
<1> QED
  BY <1>3, <1>4, <1>5

\* While the author works, both records claim nothing of the workspace.
LEMMA AuthorAway ==
  ASSUME EarnedCore, w.pc = "author", NEW f, NEW good, NEW c
  PROVE  SoundAt(disk, f, good, c) /\ SoundAt(mem, f, good, c) /\ ~unknown
<1>1. disk.state \notin Pending \union {"COMPLETED"} /\ mem.state \notin Pending \union {"COMPLETED"}
  BY DEF EarnedCore, AtStep, Pending
<1>2. SoundAt(disk, file, Good, candidates) /\ SoundAt(mem, file, Good, candidates)
  BY DEF EarnedCore, Sound
<1> QED
  BY <1>1, <1>2, SoundAway DEF EarnedCore

LEMMA AuthorKeepsEarned ==
  ASSUME TypeOK, TypeOK', EarnedCore, AuthorCompletes \/ AuthorFails \/ AuthorKilled
  PROVE  EarnedCore'
<1> USE BoundsAssumption, ChoicesAssumption DEF operatorVars, vaultVars, history, judgements
<1>1. mem \in Task /\ w \in Worker /\ runs + 1 \in 0..MaxRuns
  <2>1. runs' \in 0..MaxRuns /\ runs' = runs + 1
    BY DEF TypeOK, AuthorCompletes, AuthorFails, AuthorKilled
  <2> QED
    BY <2>1 DEF TypeOK
<1>2. UNCHANGED <<candidates, passed, verified, unknown>> /\ w.pc = "author" /\ Good' = Good
  BY DEF AuthorCompletes, AuthorFails, AuthorKilled, Good
<1>3. /\ SoundAt(disk, file', Good', candidates') /\ SoundAt(mem, file', Good', candidates')
      /\ ~unknown'
  BY <1>2, AuthorAway
<1>4. \A i \in 1..Len(candidates') : Clean(candidates'[i], Good')
  BY <1>2 DEF EarnedCore
<1>5. CASE AuthorCompletes
  <2> DEFINE done == [mem EXCEPT !.run = runs + 1, !.status = "completed",
                                 !.author_content_revision = w.revision,
                                 !.content = runs + 1,
                                 !.staged = (@ \/ (Governed /\ file' = runs + 1)),
                                 !.session = (@ \/ w.revision = 1)]
  <2>1. /\ disk' = mem' /\ w' = [w EXCEPT !.pc = "review", !.frame = "loop"]
        /\ mem' = [done EXCEPT !.state = "REVIEW_RUNNING", !.review_revision = w.revision]
    BY <1>5 DEF AuthorCompletes, EnterReview, Save
  <2>2. w'.pc = "review" /\ w'.frame = "loop" /\ w'.revision = w.revision
    BY <1>1, <2>1 DEF Worker
  <2>3. /\ mem'.state = "REVIEW_RUNNING" /\ mem'.review_revision = w.revision
        /\ mem'.author_content_revision = w.revision
        /\ mem'.revisions_used = mem.revisions_used
        /\ mem'.candidate_id = mem.candidate_id /\ mem'.last_review = mem.last_review
    BY <1>1, <2>1 DEF Task
  <2>4. /\ mem.state \in {"AUTHOR_RUNNING", "FIX_RUNNING"}
        /\ mem.revisions_used = w.revision /\ w.revision \in Nat
    BY <1>1, <1>2 DEF EarnedCore, AtStep, Worker
  <2>5. mem.candidate_id = 0 /\ mem.last_review.revision < mem.revisions_used
    BY <1>3, <2>4 DEF SoundAt, Unfinished
  <2>6. w.revision <= w.revision
    BY <2>4
  <2>7. SoundAt(mem', file', Good', candidates')
    BY <2>3, <2>4, <2>5, <2>6 DEF SoundAt, Unfinished, Pending
  <2> QED
    BY <1>3, <1>4, <2>1, <2>2, <2>3, <2>4, <2>7
    DEF EarnedCore, Sound, AtStep, GovernanceSteps
<1>6. CASE AuthorFails
  <2>1. PICK c \in Faults : Raise([mem EXCEPT !.run = runs + 1, !.status = "failed",
                                    !.error = c, !.retryable = (c = "TRANSIENT_FAULT")], c)
    BY <1>6 DEF AuthorFails
  <2> DEFINE t == [mem EXCEPT !.run = runs + 1, !.status = "failed",
                              !.error = c, !.retryable = (c = "TRANSIENT_FAULT")]
  <2>2. c \in Categories /\ c \in Errors /\ (c = "TRANSIENT_FAULT") \in BOOLEAN
    BY DEF Errors
  <2>3. t \in Task /\ Like(t, mem)
    BY <1>1, <2>2 DEF Task, Like
  <2> QED
    BY <1>2, <1>3, <1>4, <2>1, <2>2, <2>3, RaisedKeepsEarned
<1>7. CASE AuthorKilled
  <2> DEFINE t == [mem EXCEPT !.run = runs + 1, !.status = "cancelled"]
  <2>1. t \in Task /\ Like(t, mem)
    BY <1>1 DEF Task, Like
  <2>2. Raise(t, "RUN_CANCELLED") /\ "RUN_CANCELLED" \in Errors
    BY <1>7 DEF AuthorKilled, Errors
  <2> QED
    BY <1>2, <1>3, <1>4, <2>1, <2>2, RaisedKeepsEarned
<1> QED
  BY <1>5, <1>6, <1>7

\* One more revision or the end: everything on record is of earlier revisions.
LEMMA FixKeepsEarned ==
  ASSUME TypeOK, EarnedCore, UNCHANGED <<file, candidates, passed, verified, unknown>>,
         w.pc # "idle", w.frame = "loop",
         NEW t \in Task, t.candidate_id = 0, t.last_review.revision <= w.revision,
         t.author_content_revision <= w.revision, FixOrGiveUp(t)
  PROVE  EarnedCore'
<1>1. w \in Worker /\ w.revision \in Nat /\ ~unknown
  BY DEF TypeOK, Worker, EarnedCore
<1>2. Good' = Good
  BY DEF Good
<1>3. CASE Return([t EXCEPT !.state = "FAILED"])
  <2>1. disk' = mem' /\ w'.pc = "returned" /\ mem'.state = "FAILED"
    BY <1>1, <1>3 DEF Return, Save, Go, Worker, Task
  <2>2. SoundAt(mem', file', Good', candidates')
    BY <2>1, SoundEnded
  <2> QED
    BY <1>1, <1>2, <2>1, <2>2 DEF EarnedCore, Sound, AtStep, GovernanceSteps
<1>4. CASE /\ Save([t EXCEPT !.state = "NEEDS_FIX", !.revisions_used = w.revision + 1])
           /\ w' = [w EXCEPT !.pc = "fix", !.revision = @ + 1]
  <2>1. /\ disk' = mem' /\ mem'.state = "NEEDS_FIX"
        /\ mem'.revisions_used = w.revision + 1 /\ mem'.candidate_id = t.candidate_id
        /\ mem'.last_review = t.last_review
        /\ mem'.author_content_revision = t.author_content_revision
    BY <1>4 DEF Save, Task
  <2>2. w'.pc = "fix" /\ w'.revision = w.revision + 1 /\ w'.frame = "loop"
    BY <1>1, <1>4 DEF Worker
  <2>3. t.last_review.revision \in Nat /\ t.author_content_revision \in Nat
    BY DEF Task, Review
  <2>4. /\ t.last_review.revision < w.revision + 1
        /\ t.author_content_revision < w.revision + 1
    BY <1>1, <2>3
  <2>5. SoundAt(mem', file', Good', candidates')
    BY <2>1, <2>4 DEF SoundAt, Unfinished, Pending
  <2> QED
    BY <1>1, <1>2, <2>1, <2>2, <2>5 DEF EarnedCore, Sound, AtStep, GovernanceSteps
<1> QED
  BY <1>3, <1>4 DEF FixOrGiveUp

\* At the review, what is on record is of earlier revisions.
LEMMA AtReview ==
  ASSUME TypeOK, EarnedCore, w.pc = "review"
  PROVE  /\ mem.state = "REVIEW_RUNNING" /\ w.frame = "loop" /\ mem.candidate_id = 0
         /\ mem.last_review.revision < w.revision /\ ~Reusable
         /\ mem.author_content_revision <= w.revision
<1>1. mem.last_review.revision \in Nat /\ w.revision \in Nat
  <2>1. mem \in Task /\ w \in Worker
    BY DEF TypeOK
  <2>2. mem.last_review \in Review
    BY <2>1 DEF Task
  <2> QED
    BY <2>1, <2>2 DEF Review, Worker
<1>2. /\ mem.state = "REVIEW_RUNNING" /\ mem.revisions_used = w.revision
      /\ w.frame = "loop" /\ Sound(mem)
  BY DEF EarnedCore, AtStep
<1>3. /\ mem.candidate_id = 0 /\ mem.last_review.revision < w.revision
      /\ mem.author_content_revision <= w.revision
  BY <1>2 DEF Sound, SoundAt
<1> QED
  BY <1>1, <1>2, <1>3 DEF Reusable

\* A growing set of good versions keeps every claim and every candidate.
LEMMA GoodGrows ==
  ASSUME TypeOK, VaultInv, EarnedCore, UNCHANGED <<file, candidates>>,
         passed \subseteq passed', verified \subseteq verified'
  PROVE  /\ SoundAt(disk, file', Good', candidates')
         /\ w.pc # "accept" => SoundAt(mem, file', Good', candidates')
         /\ \A i \in 1..Len(candidates') : Clean(candidates'[i], Good')
<1>1. Good \subseteq Good'
  BY DEF Good
<1>2. /\ candidates \in Seq(Submissions) /\ disk \in Task /\ mem \in Task
      /\ disk.candidate_id <= Len(candidates) /\ mem.candidate_id <= Len(candidates)
  BY DEF TypeOK, VaultInv, Named
<1>3. SoundAt(disk, file, Good', candidates)
  BY <1>1, <1>2, SoundGrows DEF EarnedCore, Sound
<1>4. w.pc # "accept" => SoundAt(mem, file, Good', candidates)
  BY <1>1, <1>2, SoundGrows DEF EarnedCore, Sound
<1> QED
  BY <1>1, <1>3, <1>4 DEF EarnedCore, Clean

LEMMA ReviewKeepsEarned ==
  ASSUME TypeOK, VaultInv, EarnedCore,
         \/ ReviewReused \/ ReviewCompletes \/ ReviewFails
         \/ ReviewKilled \/ AcceptancePasses \/ AcceptanceFails \/ StartFix
  PROVE  EarnedCore'
<1> USE ChoicesAssumption DEF operatorVars, vaultVars, orderVars, history, judgements
<1>1. mem \in Task /\ w \in Worker /\ w.revision \in 0..MaxRevisions /\ mem.run \in 0..MaxRuns
  <2>1. mem \in Task /\ w \in Worker
    BY DEF TypeOK
  <2> QED
    BY <2>1, BoundsAssumption DEF Worker, Task
<1>2. /\ UNCHANGED <<file, candidates, unknown>>
      /\ passed \subseteq passed' /\ verified \subseteq verified'
      /\ w.pc \in {"review", "accept", "fix"}
  BY DEF ReviewReused, ReviewCompletes, ReviewFails, ReviewKilled, AcceptancePasses,
         AcceptanceFails, StartFix
<1>3. /\ SoundAt(disk, file', Good', candidates')
      /\ w.pc # "accept" => SoundAt(mem, file', Good', candidates')
      /\ \A i \in 1..Len(candidates') : Clean(candidates'[i], Good')
      /\ ~unknown'
  BY <1>2, GoodGrows DEF EarnedCore
<1>4. Like(mem, mem)
  BY DEF Like
<1>5. CASE ReviewReused
  BY <1>5, AtReview DEF ReviewReused
<1>6. CASE ReviewCompletes
  <2> DEFINE review(d) == [decision |-> d, revision |-> w.revision, run |-> mem.run]
             answered(d) == [mem EXCEPT !.last_review = review(d)]
  <2>1. PICK d \in {"PASS", "NEEDS_FIX"} :
          /\ Decided(answered(d), d)
          /\ passed' = IF d = "PASS" THEN passed \union {file} ELSE passed
    BY <1>6 DEF ReviewCompletes
  <2>2. review(d) \in Review /\ review(d).revision = w.revision /\ review(d).run = mem.run
    BY <1>1 DEF Review
  <2>3. w.pc = "review" /\ UNCHANGED verified
    BY <1>6 DEF ReviewCompletes
  <2> DEFINE t == answered(d)
  <2>4. /\ t \in Task /\ t.candidate_id = mem.candidate_id
        /\ t.author_content_revision = mem.author_content_revision
        /\ t.last_review = review(d) /\ t.run = mem.run
    <3> HIDE DEF review
    <3> QED
      BY <1>1, <2>2 DEF Task
  <2>5. /\ t.candidate_id = 0 /\ t.last_review.revision <= w.revision
        /\ t.author_content_revision <= w.revision /\ w.frame = "loop"
        /\ t.last_review.run = t.run
    BY <1>1, <2>2, <2>3, <2>4, AtReview
  <2>6. Decided(t, d)
    BY <2>1
  <2> HIDE DEF t, answered, review
  <2>7. CASE d = "PASS" /\ Go("accept") /\ mem' = t /\ UNCHANGED disk
    <3>1. w'.pc = "accept" /\ w'.revision = w.revision /\ w'.frame = w.frame
      BY <1>1, <2>7 DEF Go, Worker
    <3>2. file' \in passed'
      BY <1>2, <2>1, <2>7
    <3>3. AtStep'
      BY <2>5, <2>7, <3>1, <3>2 DEF AtStep, GovernanceSteps
    <3> QED
      BY <1>3, <2>7, <3>1, <3>3 DEF EarnedCore, Sound
  <2>8. CASE d = "NEEDS_FIX" /\ FixOrGiveUp(t)
    <3>1. UNCHANGED <<file, candidates, passed, verified, unknown>>
      BY <1>2, <2>1, <2>3, <2>8
    <3> QED
      BY <1>2, <2>4, <2>5, <2>8, <3>1, FixKeepsEarned
  <2> QED
    BY <2>6, <2>7, <2>8 DEF Decided
<1>7. CASE ReviewFails
  <2>1. PICK c \in Faults \union {"NONE"} : Raise(mem, c)
    BY <1>7 DEF ReviewFails
  <2>2. c \in Errors /\ w.pc = "review"
    BY <1>7 DEF Errors, Categories, ReviewFails
  <2> QED
    BY <1>1, <1>2, <1>3, <1>4, <2>1, <2>2, RaisedKeepsEarned
<1>8. CASE ReviewKilled
  <2>1. Raise(mem, "RUN_CANCELLED") /\ "RUN_CANCELLED" \in Errors /\ w.pc = "review"
    BY <1>8 DEF ReviewKilled, Errors
  <2> QED
    BY <1>1, <1>2, <1>3, <1>4, <2>1, RaisedKeepsEarned
<1>9. CASE AcceptancePasses
  <2>1. w.pc = "accept" /\ file' \in Good' /\ mem.candidate_id = 0
    BY <1>9 DEF AcceptancePasses, EarnedCore, AtStep, Good
  <2>2. CASE Governed
    <3>1. /\ w'.pc = "candidate" /\ disk' = mem' /\ mem'.state = "GOVERNANCE_PENDING"
          /\ mem'.candidate_id = 0
      BY <1>1, <1>9, <2>1, <2>2 DEF AcceptancePasses, Save, Go, Worker, Task
    <3>2. SoundAt(mem', file', Good', candidates')
      BY <2>1, <2>2, <3>1 DEF SoundAt, Unfinished, Pending
    <3> QED
      BY <1>3, <3>1, <3>2 DEF EarnedCore, Sound, AtStep, GovernanceSteps
  <2>3. CASE ~Governed
    <3>1. w'.pc = "returned" /\ disk' = mem' /\ mem'.state = "COMPLETED"
      BY <1>1, <1>9, <2>3 DEF AcceptancePasses, Return, Save, Go, Worker, Task
    <3>2. SoundAt(mem', file', Good', candidates')
      BY <2>1, <3>1 DEF SoundAt, Unfinished, Pending
    <3> QED
      BY <1>3, <3>1, <3>2 DEF EarnedCore, Sound, AtStep, GovernanceSteps
  <2> QED
    BY <2>2, <2>3
<1>10. CASE AcceptanceFails
  <2>1. /\ mem.candidate_id = 0 /\ mem.last_review.revision <= w.revision
        /\ mem.author_content_revision <= w.revision /\ w.frame = "loop"
    BY <1>10 DEF AcceptanceFails, EarnedCore, AtStep
  <2>2. UNCHANGED <<file, candidates, passed, verified, unknown>> /\ FixOrGiveUp(mem)
    BY <1>10 DEF AcceptanceFails
  <2> QED
    BY <1>1, <1>2, <2>1, <2>2, FixKeepsEarned
<1>11. CASE StartFix
  <2>1. w.pc = "fix" /\ mem.state = "NEEDS_FIX" /\ mem.revisions_used = w.revision
        /\ w.frame = "loop"
    BY <1>11 DEF StartFix, EarnedCore, AtStep
  <2>2. /\ disk' = mem' /\ mem'.state = "FIX_RUNNING"
        /\ mem'.revisions_used = mem.revisions_used
        /\ mem'.candidate_id = mem.candidate_id /\ mem'.last_review = mem.last_review
        /\ mem'.author_content_revision = mem.author_content_revision
    BY <1>1, <1>11 DEF StartFix, Save, Task
  <2>3. w'.pc = "author" /\ w'.revision = w.revision /\ w'.frame = w.frame
    BY <1>1, <1>11 DEF StartFix, Go, Worker
  <2>4. SoundAt(mem', file', Good', candidates')
    BY <1>3, <2>1, <2>2 DEF SoundAt, Unfinished, Pending
  <2> QED
    BY <1>3, <2>1, <2>2, <2>3, <2>4 DEF EarnedCore, Sound, AtStep, GovernanceSteps
<1> QED
  BY <1>5, <1>6, <1>7, <1>8, <1>9, <1>10, <1>11

\* Records of the same submission and the same candidate.
SameWork(r, s) ==
  r.candidate_id = s.candidate_id /\ r.staged = s.staged /\ r.content = s.content

LEMMA GovernanceKeepsEarned ==
  ASSUME TypeInv, VaultInv, EarnedCore,
         \/ TargetConflict \/ BridgeFails \/ CreateCandidate \/ ReuseCandidate
         \/ FormalReview \/ FormalRefused \/ ApplyVerdict \/ CompletePublish \/ Settle
         \/ Publish \/ PublishUnanswered
  PROVE  EarnedCore'
<1> USE ChoicesAssumption DEF operatorVars, vaultVars, orderVars, history, judgements
<1>1. /\ TypeOK /\ mem \in Task /\ w \in Worker /\ Like(mem, mem)
      /\ "TRANSIENT_FAULT" \in Errors
  BY DEF TypeInv, TypeOK, Like, Errors, Categories
<1>2. /\ UNCHANGED <<file, passed, verified, unknown>>
      /\ w.pc \in {"candidate", "formal", "refused", "publish", "verdict", "settle", "complete"}
  BY DEF TargetConflict, BridgeFails, CreateCandidate, ReuseCandidate, FormalReview,
         FormallyReviewed, FormalRefused, ApplyVerdict, CompletePublish, Settle, Publish, PublishUnanswered
<1>3. ~unknown' /\ Good' = Good /\ Sound(mem) /\ Sound(disk) /\ mem.state \in Pending
  BY <1>2 DEF Good, EarnedCore, AtStep, GovernanceSteps, Pending
<1>4. ASSUME UNCHANGED candidates
      PROVE  /\ SoundAt(disk, file', Good', candidates')
             /\ SoundAt(mem, file', Good', candidates')
             /\ \A i \in 1..Len(candidates') : Clean(candidates'[i], Good')
  BY <1>2, <1>3, <1>4 DEF Sound, EarnedCore
<1>5. ASSUME NEW c \in ByMessage \union Faults \union {"NONE", "KILLED", "TRANSIENT_FAULT"},
             Raise(mem, c), UNCHANGED candidates
      PROVE  EarnedCore'
  <2>1. c \in Errors
    BY DEF ByMessage, Errors, Categories
  <2> QED
    BY <1>1, <1>2, <1>4, <1>5, <2>1, RaisedKeepsEarned
<1>6. ASSUME UNCHANGED candidates, disk' \in {disk, mem'}, SameWork(mem', mem),
             \/ w'.pc \in GovernanceSteps /\ mem'.state \in {mem.state, "PUBLISHING"}
             \/ w'.pc = "returned" /\ mem'.state \in {"FAILED", "WAITING_HUMAN", "COMPLETED"}
      PROVE  EarnedCore'
  <2>1. mem'.state \in Pending \union {"FAILED", "COMPLETED"}
    BY <1>3, <1>6 DEF Pending
  <2>2. /\ Governed
        /\ mem'.candidate_id # 0 => candidates'[mem'.candidate_id] = SubmissionAt(mem', file')
        /\ mem'.state = "GOVERNANCE_PENDING" => file' \in Good'
    BY <1>2, <1>3, <1>6 DEF Sound, SoundAt, SubmissionAt, SameWork, Pending
  <2>3. SoundAt(mem', file', Good', candidates')
    BY <2>1, <2>2 DEF SoundAt, Unfinished, Pending
  <2>4. SoundAt(disk', file', Good', candidates')
    BY <1>4, <1>6, <2>3
  <2>5. w'.pc \in GovernanceSteps => mem'.state \in Pending
    BY <1>3, <1>6 DEF GovernanceSteps, Pending
  <2>6. AtStep'
    BY <1>6, <2>5 DEF AtStep, GovernanceSteps
  <2> QED
    BY <1>3, <1>4, <1>6, <2>3, <2>4, <2>6 DEF EarnedCore, Sound
<1>7. ASSUME NEW s \in {"FAILED", "WAITING_HUMAN", "COMPLETED"},
             Return([mem EXCEPT !.state = s]), UNCHANGED candidates
      PROVE  EarnedCore'
  <2>1. disk' = mem' /\ w'.pc = "returned" /\ mem'.state = s
        /\ SameWork(mem', mem)
    BY <1>1, <1>7 DEF Return, Save, Go, Worker, Task, SameWork
  <2> QED
    BY <1>6, <1>7, <2>1
<1>8. ASSUME Save([mem EXCEPT !.state = "PUBLISHING"]), Go("complete"), UNCHANGED candidates
      PROVE  EarnedCore'
  <2>1. disk' = mem' /\ w'.pc = "complete" /\ mem'.state = "PUBLISHING"
        /\ SameWork(mem', mem)
    BY <1>1, <1>8 DEF Save, Go, Worker, Task, SameWork
  <2> QED
    BY <1>6, <1>8, <2>1 DEF GovernanceSteps
<1>9. CASE TargetConflict
  BY <1>7, <1>9 DEF TargetConflict
<1>10. CASE BridgeFails
  BY <1>5, <1>10 DEF BridgeFails
<1>11. CASE CreateCandidate
  <2> DEFINE s == Submitted(mem)
  <2>1. /\ candidates \in Seq(Submissions) /\ s \in Submissions
        /\ disk \in Task /\ mem \in Task
        /\ disk.candidate_id <= Len(candidates) /\ mem.candidate_id <= Len(candidates)
    <3>1. s \in Submissions
      BY <1>1 DEF TypeOK, Task, Submitted, Submissions
    <3> QED
      BY <1>1, <3>1 DEF TypeOK, VaultInv, Named
  <2>2. candidates' = Append(candidates, s) /\ w.pc = "candidate"
    BY <1>11 DEF CreateCandidate
  <2>3. mem.state = "GOVERNANCE_PENDING" /\ file \in Good /\ Governed
    BY <1>3, <2>2 DEF EarnedCore, AtStep, Sound, SoundAt, Pending
  <2>4. /\ Len(candidates') = Len(candidates) + 1 /\ Len(candidates) \in Nat
        /\ \A i \in 1..Len(candidates') :
             candidates'[i] = IF i = Len(candidates) + 1 THEN s ELSE candidates[i]
    <3> HIDE DEF s
    <3> QED
      BY <2>1, <2>2
  <2>5. \A i \in 1..Len(candidates') : Clean(candidates'[i], Good')
    <3>1. Clean(s, Good)
      BY <2>3 DEF Clean, Submitted
    <3> HIDE DEF s
    <3> QED
      BY <1>3, <2>4, <3>1 DEF EarnedCore
  <2>6. SoundAt(disk, file, Good, candidates') /\ SoundAt(mem, file, Good, candidates')
    BY <1>3, <2>1, <2>2, SoundGrows DEF Sound
  <2>7. CASE Raise(mem, "TRANSIENT_FAULT")
    BY <1>1, <1>2, <1>3, <2>5, <2>6, <2>7, RaisedKeepsEarned
  <2>8. CASE Save([mem EXCEPT !.candidate_id = Len(candidates) + 1]) /\ Go("formal")
    <3>1. /\ disk' = mem' /\ w'.pc = "formal" /\ mem'.state = "GOVERNANCE_PENDING"
          /\ mem'.candidate_id = Len(candidates) + 1
          /\ mem'.staged = mem.staged /\ mem'.content = mem.content
      BY <1>1, <2>3, <2>8 DEF Save, Go, Worker, Task
    <3>2. candidates'[mem'.candidate_id] = s
      BY <2>4, <3>1
    <3>4. s = SubmissionAt(mem', file')
      BY <1>2, <3>1 DEF Submitted, SubmissionAt
    <3>3. SoundAt(mem', file', Good', candidates')
      BY <1>2, <1>3, <2>3, <3>1, <3>2, <3>4 DEF SoundAt, Unfinished, Pending
    <3> QED
      BY <1>3, <2>5, <3>1, <3>3 DEF EarnedCore, Sound, AtStep, GovernanceSteps, Pending
  <2> QED
    BY <1>11, <2>7, <2>8 DEF CreateCandidate
<1>12. CASE ReuseCandidate
  <2>1. w'.pc = "formal" /\ UNCHANGED <<disk, mem, candidates>>
    BY <1>1, <1>12 DEF ReuseCandidate, Go, Worker
  <2> QED
    BY <1>6, <2>1 DEF GovernanceSteps, SameWork
<1>13. CASE FormalReview
  <2>1. w.pc = "formal" /\ UNCHANGED candidates
    BY <1>13 DEF FormalReview, FormallyReviewed
  <2>2. CASE Go("publish") /\ UNCHANGED <<disk, mem>>
    <3>1. w'.pc = "publish"
      BY <1>1, <2>2 DEF Go, Worker
    <3> QED
      BY <1>6, <2>1, <2>2, <3>1 DEF GovernanceSteps, SameWork
  <2>3. CASE /\ \E f \in {"approve", "reject", "other"} : Save([mem EXCEPT !.formal = f])
             /\ Go("publish") \/ Go("refused")
    <3>1. disk' = mem' /\ w'.pc \in {"publish", "formal", "refused"} /\ mem'.state = mem.state
          /\ SameWork(mem', mem)
      BY <1>1, <2>1, <2>3 DEF Save, Go, Worker, Task, SameWork
    <3> QED
      BY <1>6, <2>1, <3>1 DEF GovernanceSteps
  <2>4. CASE \E c \in ByMessage \union Faults \union {"NONE", "KILLED", "TRANSIENT_FAULT"} :
               Raise(mem, c)
    BY <1>5, <2>1, <2>4
  <2>5. CASE Go("refused") /\ UNCHANGED <<disk, mem>>
    <3>1. w'.pc = "refused"
      BY <1>1, <2>5 DEF Go, Worker
    <3> QED
      BY <1>6, <2>1, <2>5, <3>1 DEF GovernanceSteps, SameWork
  <2> QED
    BY <1>13, <2>2, <2>3, <2>4, <2>5 DEF FormalReview, FormallyReviewed
<1>19. CASE FormalRefused
  BY <1>5, <1>19 DEF FormalRefused
<1>14. CASE ApplyVerdict
  BY <1>7, <1>8, <1>14 DEF ApplyVerdict
<1>15. CASE CompletePublish
  BY <1>7, <1>15 DEF CompletePublish
<1>16. CASE Settle
  <2>1. UNCHANGED candidates
    BY <1>16 DEF Settle
  <2>2. CASE Go("publish") /\ UNCHANGED <<disk, mem>>
    <3>1. w'.pc = "publish"
      BY <1>1, <2>2 DEF Go, Worker
    <3> QED
      BY <1>6, <2>1, <2>2, <3>1 DEF GovernanceSteps, SameWork
  <2>3. CASE Save([mem EXCEPT !.published_flag = FALSE]) /\ Go("publish")
    <3>1. disk' = mem' /\ w'.pc = "publish" /\ mem'.state = mem.state
          /\ SameWork(mem', mem)
      BY <1>1, <2>3 DEF Save, Go, Worker, Task, SameWork
    <3> QED
      BY <1>6, <2>1, <3>1 DEF GovernanceSteps
  <2> QED
    BY <1>8, <1>16, <2>1, <2>2, <2>3 DEF Settle
<1>17. CASE Publish
  <2>1. PICK v \in Verdicts :
          /\ Save(IF v = "rejected" THEN mem
                  ELSE [mem EXCEPT !.published_flag = (v = "published")])
          /\ w' = [w EXCEPT !.pc = "verdict", !.verdict = v]
    BY <1>17 DEF Publish
  <2>2. disk' = mem' /\ w'.pc = "verdict" /\ mem'.state = mem.state
        /\ SameWork(mem', mem)
    BY <1>1, <2>1 DEF Save, Worker, Task, SameWork
  <2> QED
    BY <1>6, <1>17, <2>2 DEF Publish, GovernanceSteps
<1>18. CASE PublishUnanswered
  BY <1>5, <1>18 DEF PublishUnanswered
<1> QED
  BY <1>9, <1>10, <1>11, <1>12, <1>13, <1>14, <1>15, <1>16, <1>17, <1>18,
     <1>19

\* Only a record that is Sound can be taken up again: no author run with an
\* unknown outcome is.
LEMMA RecoveryKeepsEarned ==
  ASSUME TypeOK, EarnedCore, Recover \/ ResumeTask
  PROVE  EarnedCore'
<1> USE DEF operatorVars, vaultVars, orderVars, history, judgements
<1>1. /\ disk \in Task /\ w.pc = "idle" /\ Sound(disk) /\ Sound(mem)
      /\ UNCHANGED <<file, candidates, passed, verified, unknown>> /\ Good' = Good
      /\ \A i \in 1..Len(candidates) : Clean(candidates[i], Good)
  BY DEF TypeOK, Recover, RecoverGovernance, RecoverFix, RecoverReview, RecoverInterrupted,
         ResumeTask, EarnedCore, Good
<1>2. \A step \in Steps : /\ Recovering(step).pc = step /\ Recovering(step) \in Worker
                          /\ Recovering(step).frame = "continue"
  <2>1. "recover" \in {"none", "run", "resume", "recover"} /\ Idle.frame = "continue"
    BY DEF Idle
  <2> QED
    BY <2>1, NewTypes DEF Recovering, Worker
<1>3. {"candidate", "settle", "author", "review"} \subseteq Steps
  BY DEF Steps
<1>4. /\ disk.revisions_used \in Nat \ {0} /\ disk.author_content_revision \in Nat
      /\ disk.review_revision \in Nat
  BY <1>1 DEF Task
<1>5. CASE RecoverGovernance \/ ResumeTask
  <2>1. /\ UNCHANGED disk /\ mem' = disk
        /\ \/ w'.pc = "candidate" /\ disk.state = "GOVERNANCE_PENDING"
           \/ w'.pc = "settle" /\ disk.state \in {"PUBLISHING", "WAITING_HUMAN"}
    BY <1>2, <1>3, <1>5 DEF RecoverGovernance, ResumeTask, Idle
  <2>2. ~unknown
    BY <2>1 DEF EarnedCore
  <2> QED
    BY <1>1, <2>1, <2>2 DEF EarnedCore, Sound, AtStep, GovernanceSteps, Pending
<1>6. CASE RecoverFix
  <2>1. disk.state \in {"NEEDS_FIX", "FIX_RUNNING"}
    BY <1>6 DEF RecoverFix, FixResumable
  <2>2. disk' = mem' /\ mem' = [disk EXCEPT !.state = "AUTHOR_RUNNING"]
        /\ w' = [Recovering("author") EXCEPT !.revision = disk.revisions_used]
    BY <1>6 DEF RecoverFix, Save
  <2>3. w'.pc = "author" /\ w'.revision = disk.revisions_used
    BY <1>2, <1>3, <2>2 DEF Worker
  <2>4. /\ mem'.state = "AUTHOR_RUNNING" /\ mem'.revisions_used = disk.revisions_used
        /\ mem'.candidate_id = disk.candidate_id /\ mem'.last_review = disk.last_review
        /\ mem'.author_content_revision = disk.author_content_revision
    BY <1>1, <2>2 DEF Task
  <2>5. SoundAt(mem', file', Good', candidates')
    BY <1>1, <2>1, <2>4 DEF Sound, SoundAt, Unfinished, Pending
  <2>6. ~unknown
    BY <2>1 DEF EarnedCore
  <2> QED
    BY <1>1, <2>2, <2>3, <2>4, <2>5, <2>6 DEF EarnedCore, Sound, AtStep, GovernanceSteps
<1>7. CASE RecoverReview
  <2>1. disk.state = "REVIEW_RUNNING"
    <3>1. /\ disk.state \in {"AUTHOR_RUNNING", "REVIEW_RUNNING"}
          /\ disk.author_content_revision = disk.revisions_used
      BY <1>7 DEF RecoverReview, ReviewResumable, AuthorPersisted
    <3>2. disk.state # "AUTHOR_RUNNING"
      BY <1>1, <1>4, <3>1 DEF Sound, SoundAt, Unfinished
    <3> QED
      BY <3>1, <3>2
  <2>2. disk.review_revision = disk.revisions_used
    BY <1>1, <2>1 DEF Sound, SoundAt
  <2> DEFINE revision == IF disk.review_revision = 0 THEN disk.revisions_used
                                                    ELSE disk.review_revision
             reuse == /\ disk.state = "REVIEW_RUNNING" /\ ReviewPersisted(disk)
                      /\ disk.last_review.revision = revision
  <2>3. /\ Save([disk EXCEPT !.state = "REVIEW_RUNNING", !.review_revision = revision])
        /\ w' = [Recovering("review") EXCEPT !.frame = "loop", !.revision = revision,
                                             !.reuse = reuse]
    BY <1>7 DEF RecoverReview
  <2>4. revision = disk.revisions_used
    BY <2>2
  <2> HIDE DEF revision, reuse
  <2>5. w'.pc = "review" /\ w'.frame = "loop" /\ w'.revision = revision
    BY <1>2, <1>3, <2>3 DEF Worker
  <2>6. /\ disk' = mem' /\ Like(mem', disk)
    BY <1>1, <2>1, <2>2, <2>3, <2>4 DEF Save, Task, Like
  <2>7. SoundAt(mem', file', Good', candidates')
    BY <1>1, <2>6, SoundLike DEF Sound
  <2>8. ~unknown
    BY <2>1 DEF EarnedCore
  <2> QED
    BY <1>1, <2>1, <2>4, <2>5, <2>6, <2>7, <2>8
    DEF EarnedCore, Sound, Like, AtStep, GovernanceSteps
<1>8. CASE RecoverInterrupted
  <2>1. UNCHANGED <<mem, w>> /\ Like(disk', disk)
    BY <1>1, <1>8 DEF RecoverInterrupted, Task, Like
  <2>2. SoundAt(disk', file', Good', candidates')
    BY <1>1, <2>1, SoundLike DEF Sound
  <2> QED
    BY <1>1, <2>1, <2>2 DEF EarnedCore, Sound, Like, AtStep, GovernanceSteps
<1> QED
  BY <1>5, <1>6, <1>7, <1>8 DEF Recover

LEMMA OperatorKeepsEarned ==
  ASSUME TypeOK, EarnedCore, Operator
  PROVE  EarnedCore'
<1> USE DEF operatorVars, vaultVars, orderVars, history, judgements
<1>1. disk \in Task /\ copy \in Task /\ UNCHANGED <<mem, w, file, vaultVars, history>>
  BY DEF TypeOK, Operator, CancelTask, Shutdown, CliCancel, CliReread, CliWrite
<1>2. disk' = disk \/ disk'.state = "CANCELLED"
  BY <1>1 DEF Operator, CancelTask, Shutdown, CliCancel, CliReread, CliWrite,
              CancelledOnDisk, Task
<1>3. Good' = Good
  BY <1>1 DEF Good
<1>4. SoundAt(disk', file', Good', candidates')
  BY <1>1, <1>2, <1>3, SoundEnded DEF EarnedCore, Sound
<1>5. AtStep'
  BY <1>1, <1>2 DEF EarnedCore, AtStep
<1> QED
  BY <1>1, <1>2, <1>3, <1>4, <1>5 DEF EarnedCore, Sound

\* A crash of a from-scratch author run leaves the record AUTHOR_RUNNING, or
\* cancelled.
LEMMA CrashKeepsEarned ==
  ASSUME TypeOK, EarnedCore, Crash
  PROVE  EarnedCore'
<1> USE DEF vaultVars
<1>1. /\ w'.pc = "idle" /\ mem' = NewTask /\ w.pc # "idle"
      /\ UNCHANGED <<disk, candidates, passed, verified>> /\ Good' = Good
  BY DEF Crash, Idle, Good
<1>2. SoundAt(mem', file', Good', candidates')
  BY <1>1, SoundNew
<1>3. SoundAt(disk', file', Good', candidates')
  <2>1. CASE w.pc = "author"
    BY <1>1, <2>1, AuthorAway
  <2>2. CASE w.pc # "author"
    BY <1>1, <2>2 DEF Crash, EarnedCore, Sound
  <2> QED
    BY <2>1, <2>2
<1>4. unknown' => disk'.state \in {"AUTHOR_RUNNING", "CANCELLED"}
  BY <1>1 DEF Crash, EarnedCore, AtStep
<1> QED
  BY <1>1, <1>2, <1>3, <1>4 DEF EarnedCore, Sound, AtStep, GovernanceSteps

LEMMA StepsKeepEarned ==
  ASSUME TypeInv, TypeInv', VaultInv, EarnedInv, Next
  PROVE  EarnedInv'
<1>1. TypeOK /\ TypeOK'
  BY DEF TypeInv
<1>2. CASE Retry \/ Fallback
  BY <1>2 DEF Retry, Fallback, EarnedInv, RevisionsAreUnique
<1>3. CASE retried
  <2>1. retried'
    BY <1>3 DEF Next, Dispatch, Work, Execute, Retry, Fallback, EndChain, AuthorCompletes,
       AuthorFails, AuthorKilled, ReviewReused, ReviewCompletes, ReviewFails, ReviewKilled,
       AcceptancePasses, AcceptanceFails, StartFix, TargetConflict, BridgeFails,
       CreateCandidate, ReuseCandidate, FormalReview, FormallyReviewed, FormalRefused, Publish,
       PublishUnanswered, ApplyVerdict, CompletePublish, Settle, Recover, RecoverGovernance,
       RecoverFix, RecoverReview, RecoverInterrupted, ResumeTask, Crash, Operator, CancelTask,
       Shutdown, CliCancel, CliReread, CliWrite, history, judgements
  <2> QED
    BY <2>1 DEF EarnedInv, RevisionsAreUnique
<1>4. CASE ~retried /\ ~(Retry \/ Fallback)
  <2>1. EarnedCore
    BY <1>4 DEF EarnedInv, RevisionsAreUnique
  <2>2. EarnedCore'
    <3>1. CASE Dispatch
      BY <1>1, <2>1, <3>1, ScheduleKeepsEarned
    <3>2. CASE Work
      BY <1>1, <1>4, <2>1, <3>2, ScheduleKeepsEarned, AuthorKeepsEarned,
         ReviewKeepsEarned, GovernanceKeepsEarned DEF Work
    <3>3. CASE Recover \/ ResumeTask
      BY <1>1, <2>1, <3>3, RecoveryKeepsEarned
    <3>4. CASE Operator
      BY <1>1, <2>1, <3>4, OperatorKeepsEarned
    <3>5. CASE Crash
      BY <1>1, <2>1, <3>5, CrashKeepsEarned
    <3> QED
      BY <3>1, <3>2, <3>3, <3>4, <3>5 DEF Next
  <2> QED
    BY <2>2 DEF EarnedInv
<1> QED
  BY <1>2, <1>3, <1>4

LEMMA EarnedHolds == Spec => []EarnedInv
<1>1. TypeInv /\ TypeInv' /\ VaultInv /\ EarnedInv /\ [Next]_vars => EarnedInv'
  <2>1. EarnedInv /\ UNCHANGED vars => EarnedInv'
    BY DEF vars, operatorVars, vaultVars, history, judgements, EarnedInv, EarnedCore,
           RevisionsAreUnique, Sound, AtStep, Good, Clean
  <2> QED
    BY <2>1, StepsKeepEarned
<1> QED
  BY <1>1, InitEarned, TypesHold, VaultHolds, PTL DEF Spec

-----------------------------------------------------------------------------
(***************************************************************************)
(* Before the first crash.  A record is under review only while its chain  *)
(* is, so no recovery re-uses a decision, and neither retries nor the      *)
(* revision numbers they repeat matter: what is accepted was reviewed.     *)
(***************************************************************************)

\* A record that awaits its candidate, or a completed direct one, says that the
\* workspace is good.
Claims(t) ==
  t.state = "GOVERNANCE_PENDING" \/ (t.state = "COMPLETED" /\ ~Governed) => file \in Good

\* The states of a record, whatever the step of its chain.
SteadyRecords ==
  /\ Claims(disk) /\ Claims(mem)
  /\ disk.state \in Pending \/ mem.state \in Pending => Governed

\* The records by the step of the chain.
SteadyStep ==
  /\ w.reuse = FALSE
  /\ w.pc \in GovernanceSteps \union {"candidate"} => Governed
  /\ disk.state = "REVIEW_RUNNING" \/ mem.state = "REVIEW_RUNNING" =>
       w.pc \in {"review", "accept"}
  /\ w.pc = "author" => /\ mem.state \in {"AUTHOR_RUNNING", "FIX_RUNNING"}
                        /\ disk.state \in {mem.state, "CANCELLED"}
  /\ w.pc = "review" => w.frame = "loop"
  /\ w.pc = "accept" => file \in passed /\ mem.last_review.run = mem.run
  /\ w.pc = "candidate" => mem.state = "GOVERNANCE_PENDING"

SteadyCore ==
  /\ SteadyRecords /\ SteadyStep
  /\ \A i \in 1..Len(candidates) : Clean(candidates[i], Good)

SteadyInv == crashes = 0 => SteadyCore

\* The states of a record that say nothing of the workspace.
Calm == {"CREATED", "AUTHOR_RUNNING", "FIX_RUNNING", "NEEDS_FIX", "FAILED", "CANCELLED"}

LEMMA InitSteady == Init => SteadyInv
<1> SUFFICES ASSUME Init PROVE SteadyCore
  BY DEF SteadyInv
<1>1. candidates = <<>> /\ Len(candidates) = 0
  BY DEF Init
<1> QED
  BY <1>1 DEF Init, SteadyCore, SteadyRecords, SteadyStep, Claims, Pending, NewTask, Idle,
              GovernanceSteps

\* Records that take over each other's states, or calm ones, stay truthful: only
\* the author changes the workspace, and neither record claims it meanwhile.
LEMMA StatesStaySteady ==
  ASSUME SteadyCore, file' = file \/ w.pc = "author", Good \subseteq Good',
         disk'.state \in {disk.state, mem.state, "REVIEW_RUNNING"} \union Calm,
         mem'.state \in {disk.state, mem.state, "REVIEW_RUNNING"} \union Calm
  PROVE  SteadyRecords'
<1>1. file' = file \/ (disk.state \in Calm /\ mem.state \in Calm)
  BY DEF SteadyCore, SteadyStep, Calm
<1>2. \A s \in Calm \union {"REVIEW_RUNNING"} :
        s \notin Pending \union {"GOVERNANCE_PENDING", "COMPLETED"}
  BY DEF Calm, Pending
<1>3. \A s \in {disk.state, mem.state, "REVIEW_RUNNING"} \union Calm :
        /\ s = "GOVERNANCE_PENDING" \/ (s = "COMPLETED" /\ ~Governed) => file' \in Good'
        /\ s \in Pending => Governed
  BY <1>1, <1>2 DEF SteadyCore, SteadyRecords, Claims
<1> QED
  BY <1>3 DEF SteadyRecords, Claims

\* A chain that has returned, or was never one, with no record under review.
LEMMA RestIsSteady ==
  ASSUME SteadyRecords', w'.reuse = FALSE, w'.pc \in {"idle", "dispatch", "returned", "fix"},
         disk'.state # "REVIEW_RUNNING", mem'.state # "REVIEW_RUNNING",
         \A i \in 1..Len(candidates') : Clean(candidates'[i], Good')
  PROVE  SteadyCore'
  BY DEF SteadyCore, SteadyStep, GovernanceSteps

\* An exception leaves no record under review: in the review loop it ends the
\* task, and elsewhere no record is.
LEMMA RaisedKeepsSteady ==
  ASSUME TypeOK, SteadyCore, file' = file \/ w.pc = "author", Good' = Good,
         w.pc \notin {"idle", "accept"},
         NEW t \in Task, t.state = mem.state, NEW e \in Errors, Raise(t, e),
         \A i \in 1..Len(candidates') : Clean(candidates'[i], Good')
  PROVE  SteadyCore'
<1>1. w'.pc \in {"idle", "returned"}
  BY Raised
<1>2. disk \in Task /\ w \in Worker /\ w.reuse = FALSE
  BY DEF TypeOK, SteadyCore, SteadyStep
<1>3. \A c : Failed(t, c).state = "FAILED"
  BY DEF Failed, Task
<1>4. CASE LoopCatches(t, e)
  <2>1. disk' = mem' /\ mem'.state \in {"FAILED", "CANCELLED"} /\ w' = [w EXCEPT !.pc = "returned"]
    BY <1>3, <1>4 DEF LoopCatches, Return, Save, Go
  <2>2. w'.reuse = FALSE
    BY <1>2, <2>1 DEF Worker
  <2>3. SteadyRecords'
    BY <2>1, StatesStaySteady DEF Calm
  <2> QED
    BY <1>1, <2>1, <2>2, <2>3, RestIsSteady
<1>5. CASE ExecuteCatches(t, e)
  <2>1. w.frame = "execute" /\ w.pc # "review" /\ mem.state # "REVIEW_RUNNING"
    BY <1>5 DEF ExecuteCatches, SteadyCore, SteadyStep
  <2>2. [t EXCEPT !.state = "CANCELLED", !.retryable = FALSE].state = "CANCELLED"
    BY DEF Task
  <2>3. /\ disk' = mem' /\ mem'.state \in {mem.state, "FAILED", "CANCELLED"}
        /\ w' = [w EXCEPT !.pc = "returned"]
    BY <1>3, <1>5, <2>2 DEF ExecuteCatches, Return, Save, Go
  <2>4. w'.reuse = FALSE
    BY <1>2, <2>3 DEF Worker
  <2>5. SteadyRecords'
    BY <2>3, StatesStaySteady DEF Calm
  <2> QED
    BY <1>1, <2>1, <2>3, <2>4, <2>5, RestIsSteady
<1>6. CASE CallerCatches
  <2>1. w.pc # "review" /\ disk.state # "REVIEW_RUNNING"
    BY <1>6 DEF CallerCatches, SteadyCore, SteadyStep
  <2>2. /\ mem'.state = "CREATED" /\ disk'.state \in {disk.state, "FAILED"}
        /\ w'.reuse = FALSE
    BY <1>2, <1>6 DEF CallerCatches, NewTask, Idle, Task
  <2>3. SteadyRecords'
    BY <2>2, StatesStaySteady DEF Calm
  <2> QED
    BY <1>1, <2>1, <2>2, <2>3, RestIsSteady
<1> QED
  BY <1>4, <1>5, <1>6 DEF Raise

LEMMA ScheduleKeepsSteady ==
  ASSUME TypeOK, SteadyCore, Dispatch \/ Execute \/ Retry \/ Fallback \/ EndChain
  PROVE  SteadyCore'
<1> USE DEF operatorVars, vaultVars, orderVars, history, judgements
<1>1. disk \in Task /\ mem \in Task /\ w \in Worker /\ w.reuse = FALSE
  BY DEF TypeOK, SteadyCore, SteadyStep
<1>2. /\ UNCHANGED <<file, candidates>> /\ Good' = Good
      /\ \A i \in 1..Len(candidates') : Clean(candidates'[i], Good')
  BY DEF Dispatch, Execute, Retry, Fallback, EndChain, Good, SteadyCore
<1>3. w.pc \in {"idle", "dispatch", "returned"}
  BY DEF Dispatch, Execute, Retry, Fallback, EndChain
<1>4. disk.state # "REVIEW_RUNNING" /\ mem.state # "REVIEW_RUNNING"
  BY <1>3 DEF SteadyCore, SteadyStep
<1>5. CASE Dispatch \/ Retry
  <2>1. UNCHANGED <<disk, mem>> /\ w'.pc = "dispatch" /\ w'.reuse = FALSE
    BY <1>1, <1>5 DEF Dispatch, Retry, Idle, Worker
  <2> QED
    BY <1>2, <1>4, <2>1, StatesStaySteady, RestIsSteady
<1>6. CASE Execute
  <2>1. CASE w' = [w EXCEPT !.pc = "returned"] /\ disk' = mem'
             /\ mem'.state \in {"CANCELLED", "FAILED"}
    <3>1. w'.pc = "returned" /\ w'.reuse = FALSE
      BY <1>1, <2>1 DEF Worker
    <3>2. SteadyRecords'
      BY <1>2, <2>1, StatesStaySteady DEF Calm
    <3> QED
      BY <1>2, <2>1, <3>1, <3>2, RestIsSteady
  <2>2. CASE /\ Save([disk EXCEPT !.state = "AUTHOR_RUNNING"])
             /\ w' = [w EXCEPT !.pc = "author", !.frame = "execute", !.revision = 1,
                               !.reuse = FALSE]
    <3>1. disk' = mem' /\ mem'.state = "AUTHOR_RUNNING"
      BY <1>1, <2>2 DEF Save, Task
    <3>2. w'.pc = "author" /\ w'.reuse = FALSE
      BY <1>1, <2>2 DEF Worker
    <3>3. SteadyRecords'
      BY <1>2, <3>1, StatesStaySteady DEF Calm
    <3> QED
      BY <1>2, <3>1, <3>2, <3>3 DEF SteadyCore, SteadyStep, GovernanceSteps
  <2>3. Failed(disk, "ENVIRONMENT_FAULT").state = "FAILED"
    BY <1>1 DEF Failed, Task
  <2> QED
    BY <1>6, <2>1, <2>2, <2>3 DEF Execute, Return, Save, Go
<1>7. CASE Fallback
  <2>1. disk' = mem' /\ mem'.state = "CREATED" /\ w'.pc = "dispatch" /\ w'.reuse = FALSE
    BY <1>1, <1>7 DEF Fallback, Save, Task, Worker
  <2>2. SteadyRecords'
    BY <1>2, <2>1, StatesStaySteady DEF Calm
  <2> QED
    BY <1>2, <2>1, <2>2, RestIsSteady
<1>8. CASE EndChain
  <2>1. /\ disk' \in {disk, mem} /\ mem'.state = "CREATED"
        /\ w'.pc = "idle" /\ w'.reuse = FALSE
    BY <1>8 DEF EndChain, Idle, NewTask
  <2>2. SteadyRecords'
    BY <1>2, <2>1, StatesStaySteady DEF Calm
  <2> QED
    BY <1>2, <1>4, <2>1, <2>2, RestIsSteady
<1> QED
  BY <1>5, <1>6, <1>7, <1>8

LEMMA AuthorKeepsSteady ==
  ASSUME TypeOK, TypeOK', SteadyCore, AuthorCompletes \/ AuthorFails \/ AuthorKilled
  PROVE  SteadyCore'
<1> USE BoundsAssumption, ChoicesAssumption DEF operatorVars, vaultVars, history, judgements
<1>1. mem \in Task /\ w \in Worker /\ w.reuse = FALSE /\ runs + 1 \in 0..MaxRuns
  <2>1. runs' \in 0..MaxRuns /\ runs' = runs + 1
    BY DEF TypeOK, AuthorCompletes, AuthorFails, AuthorKilled
  <2> QED
    BY <2>1 DEF TypeOK, SteadyCore, SteadyStep
<1>2. /\ w.pc = "author" /\ Good' = Good
      /\ \A i \in 1..Len(candidates') : Clean(candidates'[i], Good')
  BY DEF AuthorCompletes, AuthorFails, AuthorKilled, Good, SteadyCore
<1>3. CASE AuthorCompletes
  <2> DEFINE done == [mem EXCEPT !.run = runs + 1, !.status = "completed",
                                 !.author_content_revision = w.revision,
                                 !.content = runs + 1,
                                 !.staged = (@ \/ (Governed /\ file' = runs + 1)),
                                 !.session = (@ \/ w.revision = 1)]
  <2>1. /\ disk' = mem' /\ w' = [w EXCEPT !.pc = "review", !.frame = "loop"]
        /\ mem' = [done EXCEPT !.state = "REVIEW_RUNNING", !.review_revision = w.revision]
    BY <1>3 DEF AuthorCompletes, EnterReview, Save
  <2>2. w'.pc = "review" /\ w'.frame = "loop" /\ w'.reuse = FALSE
    BY <1>1, <2>1 DEF Worker
  <2>3. mem'.state = "REVIEW_RUNNING"
    BY <1>1, <2>1 DEF Task
  <2>4. SteadyRecords'
    BY <1>2, <2>1, <2>3, StatesStaySteady
  <2> QED
    BY <1>2, <2>1, <2>2, <2>3, <2>4 DEF SteadyCore, SteadyStep, GovernanceSteps
<1>4. CASE AuthorFails
  <2>1. PICK c \in Faults : Raise([mem EXCEPT !.run = runs + 1, !.status = "failed",
                                    !.error = c, !.retryable = (c = "TRANSIENT_FAULT")], c)
    BY <1>4 DEF AuthorFails
  <2> DEFINE t == [mem EXCEPT !.run = runs + 1, !.status = "failed",
                              !.error = c, !.retryable = (c = "TRANSIENT_FAULT")]
  <2>2. c \in Categories /\ c \in Errors /\ (c = "TRANSIENT_FAULT") \in BOOLEAN
    BY DEF Errors
  <2>3. t \in Task /\ t.state = mem.state
    BY <1>1, <2>2 DEF Task
  <2> QED
    BY <1>2, <2>1, <2>2, <2>3, RaisedKeepsSteady
<1>5. CASE AuthorKilled
  <2> DEFINE t == [mem EXCEPT !.run = runs + 1, !.status = "cancelled"]
  <2>1. t \in Task /\ t.state = mem.state
    BY <1>1 DEF Task
  <2>2. Raise(t, "RUN_CANCELLED") /\ "RUN_CANCELLED" \in Errors
    BY <1>5 DEF AuthorKilled, Errors
  <2> QED
    BY <1>2, <2>1, <2>2, RaisedKeepsSteady
<1> QED
  BY <1>3, <1>4, <1>5

\* One more revision or the end: nothing is under review.
LEMMA FixKeepsSteady ==
  ASSUME TypeOK, SteadyCore, UNCHANGED <<file, candidates, passed, verified>>,
         NEW t \in Task, FixOrGiveUp(t)
  PROVE  SteadyCore'
<1>1. w \in Worker /\ w.reuse = FALSE
  BY DEF TypeOK, SteadyCore, SteadyStep
<1>2. Good' = Good /\ \A i \in 1..Len(candidates') : Clean(candidates'[i], Good')
  BY DEF Good, SteadyCore
<1>3. /\ disk' = mem' /\ mem'.state \in {"FAILED", "NEEDS_FIX"}
      /\ w'.pc \in {"returned", "fix"} /\ w'.reuse = FALSE
  <2>1. CASE Return([t EXCEPT !.state = "FAILED"])
    BY <1>1, <2>1 DEF Return, Save, Go, Worker, Task
  <2>2. CASE /\ Save([t EXCEPT !.state = "NEEDS_FIX", !.revisions_used = w.revision + 1])
             /\ w' = [w EXCEPT !.pc = "fix", !.revision = @ + 1]
    BY <1>1, <2>2 DEF Save, Worker, Task
  <2> QED
    BY <2>1, <2>2 DEF FixOrGiveUp
<1>4. SteadyRecords'
  BY <1>2, <1>3, StatesStaySteady DEF Calm
<1> QED
  BY <1>2, <1>3, <1>4, RestIsSteady

LEMMA ReviewKeepsSteady ==
  ASSUME TypeOK, SteadyCore,
         \/ ReviewReused \/ ReviewCompletes \/ ReviewFails \/ ReviewKilled
         \/ AcceptancePasses \/ AcceptanceFails \/ StartFix
  PROVE  SteadyCore'
<1> USE ChoicesAssumption DEF operatorVars, vaultVars, orderVars, history, judgements
<1>1. /\ disk \in Task /\ mem \in Task /\ w \in Worker /\ w.reuse = FALSE
      /\ w.revision \in 0..MaxRevisions /\ mem.run \in 0..MaxRuns
  <2>1. disk \in Task /\ mem \in Task /\ w \in Worker /\ w.reuse = FALSE
    BY DEF TypeOK, SteadyCore, SteadyStep
  <2> QED
    BY <2>1, BoundsAssumption DEF Worker, Task
<1>2. /\ UNCHANGED <<file, candidates>> /\ Good \subseteq Good'
      /\ \A i \in 1..Len(candidates') : Clean(candidates'[i], Good')
  <2>1. UNCHANGED <<file, candidates>> /\ passed \subseteq passed' /\ verified \subseteq verified'
    BY DEF ReviewReused, ReviewCompletes, ReviewFails, ReviewKilled, AcceptancePasses,
           AcceptanceFails, StartFix
  <2> QED
    BY <2>1 DEF Good, SteadyCore, Clean
<1>3. CASE ReviewReused
  BY <1>1, <1>3 DEF ReviewReused, Reusable
<1>4. CASE ReviewCompletes
  <2> DEFINE review(d) == [decision |-> d, revision |-> w.revision, run |-> mem.run]
             answered(d) == [mem EXCEPT !.last_review = review(d)]
  <2>1. PICK d \in {"PASS", "NEEDS_FIX"} :
          /\ Decided(answered(d), d)
          /\ passed' = IF d = "PASS" THEN passed \union {file} ELSE passed
    BY <1>4 DEF ReviewCompletes
  <2>2. review(d) \in Review /\ review(d).run = mem.run
    BY <1>1 DEF Review
  <2>3. w.pc = "review" /\ UNCHANGED verified
    BY <1>4 DEF ReviewCompletes
  <2> DEFINE t == answered(d)
  <2>4. t \in Task /\ t.state = mem.state /\ t.last_review = review(d) /\ t.run = mem.run
    <3> HIDE DEF review
    <3> QED
      BY <1>1, <2>2 DEF Task
  <2>5. Decided(t, d)
    BY <2>1
  <2> HIDE DEF t, answered, review
  <2>6. CASE d = "PASS" /\ Go("accept") /\ mem' = t /\ UNCHANGED disk
    <3>1. w'.pc = "accept" /\ w'.reuse = FALSE
      BY <1>1, <2>6 DEF Go, Worker
    <3>2. file' \in passed' /\ mem'.last_review.run = mem'.run
      BY <1>2, <2>1, <2>2, <2>4, <2>6
    <3>3. SteadyRecords'
      BY <1>2, <2>4, <2>6, StatesStaySteady
    <3> QED
      BY <1>2, <3>1, <3>2, <3>3 DEF SteadyCore, SteadyStep, GovernanceSteps
  <2>7. CASE d = "NEEDS_FIX" /\ FixOrGiveUp(t)
    <3>1. UNCHANGED <<file, candidates, passed, verified>>
      BY <1>2, <2>1, <2>3, <2>7
    <3> QED
      BY <2>4, <2>7, <3>1, FixKeepsSteady
  <2> QED
    BY <2>5, <2>6, <2>7 DEF Decided
<1>5. CASE ReviewFails \/ ReviewKilled
  <2>1. PICK c \in Errors : Raise(mem, c)
    BY <1>5 DEF ReviewFails, ReviewKilled, Errors, Categories
  <2>2. w.pc = "review" /\ Good' = Good
    BY <1>5 DEF ReviewFails, ReviewKilled, Good
  <2> QED
    BY <1>1, <1>2, <2>1, <2>2, RaisedKeepsSteady
<1>6. CASE AcceptancePasses
  <2>1. file' \in Good'
    BY <1>6 DEF AcceptancePasses, SteadyCore, SteadyStep, Good
  <2>2. /\ disk' = mem' /\ w'.reuse = FALSE
        /\ \/ Governed /\ w'.pc = "candidate" /\ mem'.state = "GOVERNANCE_PENDING"
           \/ ~Governed /\ w'.pc = "returned" /\ mem'.state = "COMPLETED"
    BY <1>1, <1>6 DEF AcceptancePasses, Return, Save, Go, Worker, Task
  <2> QED
    BY <1>2, <2>1, <2>2
    DEF SteadyCore, SteadyRecords, SteadyStep, Claims, Pending, GovernanceSteps
<1>7. CASE AcceptanceFails
  BY <1>1, <1>7, FixKeepsSteady DEF AcceptanceFails
<1>8. CASE StartFix
  <2>1. disk' = mem' /\ mem'.state = "FIX_RUNNING" /\ w'.pc = "author" /\ w'.reuse = FALSE
    BY <1>1, <1>8 DEF StartFix, Save, Go, Worker, Task
  <2>2. SteadyRecords'
    BY <1>2, <2>1, StatesStaySteady DEF Calm
  <2> QED
    BY <1>2, <2>1, <2>2 DEF SteadyCore, SteadyStep, GovernanceSteps
<1> QED
  BY <1>3, <1>4, <1>5, <1>6, <1>7, <1>8

\* Only a governed task gets here, and a candidate is made of a good workspace.
LEMMA GovernanceKeepsSteady ==
  ASSUME TypeOK, SteadyCore,
         \/ TargetConflict \/ BridgeFails \/ CreateCandidate \/ ReuseCandidate
         \/ FormalReview \/ FormalRefused \/ ApplyVerdict \/ CompletePublish \/ Settle
         \/ Publish \/ PublishUnanswered
  PROVE  SteadyCore'
<1> USE ChoicesAssumption DEF operatorVars, vaultVars, orderVars, history, judgements
<1>1. disk \in Task /\ mem \in Task /\ w \in Worker /\ w.reuse = FALSE
  BY DEF TypeOK, SteadyCore, SteadyStep
<1>2. /\ UNCHANGED file /\ Good' = Good
      /\ w.pc \in {"candidate", "formal", "refused", "publish", "verdict", "settle", "complete"}
  BY DEF TargetConflict, BridgeFails, CreateCandidate, ReuseCandidate, FormalReview,
         FormallyReviewed, FormalRefused, ApplyVerdict, CompletePublish, Settle, Publish, PublishUnanswered, Good
<1>3. Governed /\ disk.state # "REVIEW_RUNNING" /\ mem.state # "REVIEW_RUNNING"
  BY <1>2 DEF SteadyCore, SteadyStep, GovernanceSteps
<1>4. \A i \in 1..Len(candidates') : Clean(candidates'[i], Good')
  <2>1. CASE UNCHANGED candidates
    BY <1>2, <2>1 DEF SteadyCore
  <2>2. CASE CreateCandidate
    <3>1. file \in Good
      BY <2>2 DEF CreateCandidate, SteadyCore, SteadyRecords, SteadyStep, Claims
    <3> DEFINE s == Submitted(mem)
    <3>2. candidates' = Append(candidates, s) /\ candidates \in Seq(Submissions)
      BY <2>2 DEF CreateCandidate, TypeOK
    <3>5. s \in Submissions
      BY <1>1 DEF TypeOK, Task, Submitted, Submissions
    <3>6. Clean(s, Good)
      BY <3>1 DEF Clean, Submitted
    <3> HIDE DEF s
    <3>3. \A i \in 1..Len(candidates') :
            candidates'[i] = IF i = Len(candidates) + 1 THEN s ELSE candidates[i]
      BY <3>2, <3>5
    <3>4. Len(candidates') = Len(candidates) + 1 /\ Len(candidates) \in Nat
      BY <3>2
    <3> QED
      BY <1>2, <3>6, <3>3, <3>4 DEF SteadyCore
  <2> QED
    BY <2>1, <2>2 DEF TargetConflict, BridgeFails, ReuseCandidate, FormalReview,
       FormallyReviewed, FormalRefused, ApplyVerdict, CompletePublish, Settle, Publish, PublishUnanswered
<1>5. ASSUME NEW e \in Errors, Raise(mem, e) PROVE SteadyCore'
  BY <1>1, <1>2, <1>4, <1>5, RaisedKeepsSteady
<1>6. ASSUME disk' \in {disk, mem'}, w'.pc \in GovernanceSteps \union {"returned"},
             w'.reuse = FALSE,
             mem'.state \in {mem.state, "PUBLISHING", "FAILED", "WAITING_HUMAN", "COMPLETED"}
      PROVE  SteadyCore'
  <2>1. /\ Claims(disk)' /\ Claims(mem)'
        /\ disk'.state # "REVIEW_RUNNING" /\ mem'.state # "REVIEW_RUNNING"
    BY <1>2, <1>3, <1>6 DEF SteadyCore, SteadyRecords, Claims
  <2> QED
    BY <1>3, <1>4, <1>6, <2>1 DEF SteadyCore, SteadyRecords, SteadyStep, GovernanceSteps
<1>7. ASSUME NEW s \in {"FAILED", "WAITING_HUMAN", "COMPLETED"}, Return([mem EXCEPT !.state = s])
      PROVE  SteadyCore'
  <2>1. disk' = mem' /\ mem'.state = s /\ w'.pc = "returned" /\ w'.reuse = FALSE
    BY <1>1, <1>7 DEF Return, Save, Go, Worker, Task
  <2> QED
    BY <1>6, <2>1
<1>8. ASSUME Save([mem EXCEPT !.state = "PUBLISHING"]), Go("complete") PROVE SteadyCore'
  <2>1. disk' = mem' /\ mem'.state = "PUBLISHING" /\ w'.pc = "complete" /\ w'.reuse = FALSE
    BY <1>1, <1>8 DEF Save, Go, Worker, Task
  <2> QED
    BY <1>6, <2>1 DEF GovernanceSteps
<1>9. ASSUME NEW step \in GovernanceSteps, Go(step) \/ (UNCHANGED w /\ w.pc = step),
             disk' \in {disk, mem'}, mem'.state = mem.state
      PROVE  SteadyCore'
  <2>1. w'.pc = step /\ w'.reuse = FALSE
    BY <1>1, <1>9 DEF Go, Worker
  <2> QED
    BY <1>6, <1>9, <2>1
<1>10. /\ \A c \in ByMessage \union Faults \union {"NONE"} : c \in Errors
       /\ "TRANSIENT_FAULT" \in Errors /\ "KILLED" \in Errors
  BY DEF ByMessage, Errors, Categories
<1>11. CASE TargetConflict
  BY <1>7, <1>11 DEF TargetConflict
<1>12. CASE BridgeFails
  BY <1>5, <1>10, <1>12 DEF BridgeFails
<1>13. CASE CreateCandidate
  <2>1. CASE Save([mem EXCEPT !.candidate_id = Len(candidates) + 1]) /\ Go("formal")
    <3>1. disk' = mem' /\ mem'.state = mem.state
      BY <1>1, <2>1 DEF Save, Task
    <3> QED
      BY <1>9, <2>1, <3>1 DEF GovernanceSteps
  <2> QED
    BY <1>5, <1>10, <1>13, <2>1 DEF CreateCandidate
<1>14. CASE ReuseCandidate
  BY <1>9, <1>14 DEF ReuseCandidate, GovernanceSteps
<1>15. CASE FormalReview
  <2>1. CASE Go("publish") /\ UNCHANGED <<disk, mem>>
    BY <1>9, <2>1 DEF GovernanceSteps
  <2>2. CASE /\ \E f \in {"approve", "reject", "other"} : Save([mem EXCEPT !.formal = f])
             /\ Go("publish") \/ Go("refused")
    <3>1. disk' = mem' /\ mem'.state = mem.state
      BY <1>1, <2>2 DEF Save, Task
    <3> QED
      BY <1>9, <2>2, <3>1 DEF GovernanceSteps
  <2>3. CASE \E e \in Errors : Raise(mem, e)
    BY <1>5, <2>3
  <2>4. CASE Go("refused") /\ UNCHANGED <<disk, mem>>
    BY <1>9, <2>4 DEF GovernanceSteps
  <2> QED
    BY <1>10, <1>15, <2>1, <2>2, <2>3, <2>4 DEF FormalReview, FormallyReviewed
<1>21. CASE FormalRefused
  BY <1>5, <1>10, <1>21 DEF FormalRefused
<1>16. CASE ApplyVerdict
  BY <1>7, <1>8, <1>16 DEF ApplyVerdict
<1>17. CASE CompletePublish
  BY <1>7, <1>17 DEF CompletePublish
<1>18. CASE Settle
  <2>1. CASE Go("publish") /\ UNCHANGED <<disk, mem>>
    BY <1>9, <2>1 DEF GovernanceSteps
  <2>2. CASE Save([mem EXCEPT !.published_flag = FALSE]) /\ Go("publish")
    <3>1. disk' = mem' /\ mem'.state = mem.state
      BY <1>1, <2>2 DEF Save, Task
    <3> QED
      BY <1>9, <2>2, <3>1 DEF GovernanceSteps
  <2> QED
    BY <1>8, <1>18, <2>1, <2>2 DEF Settle
<1>19. CASE Publish
  <2>1. PICK v \in Verdicts :
          /\ Save(IF v = "rejected" THEN mem
                  ELSE [mem EXCEPT !.published_flag = (v = "published")])
          /\ w' = [w EXCEPT !.pc = "verdict", !.verdict = v]
    BY <1>19 DEF Publish
  <2>2. disk' = mem' /\ mem'.state = mem.state /\ w'.pc = "verdict" /\ w'.reuse = FALSE
    BY <1>1, <2>1 DEF Save, Worker, Task
  <2> QED
    BY <1>6, <2>2 DEF GovernanceSteps
<1>20. CASE PublishUnanswered
  BY <1>5, <1>10, <1>20 DEF PublishUnanswered
<1> QED
  BY <1>11, <1>12, <1>13, <1>14, <1>15, <1>16, <1>17, <1>18, <1>19, <1>20,
     <1>21

\* A recovery finds no record under review, so it re-uses no decision.
LEMMA RecoveryKeepsSteady ==
  ASSUME TypeOK, SteadyCore, Recover \/ ResumeTask
  PROVE  SteadyCore'
<1> USE DEF operatorVars, vaultVars, orderVars, history, judgements
<1>1. disk \in Task /\ w.pc = "idle" /\ UNCHANGED <<file, candidates>> /\ Good' = Good
  BY DEF TypeOK, Recover, RecoverGovernance, RecoverFix, RecoverReview, RecoverInterrupted,
         ResumeTask, Good
<1>2. /\ disk.state # "REVIEW_RUNNING" /\ mem.state # "REVIEW_RUNNING" /\ w.reuse = FALSE
      /\ \A i \in 1..Len(candidates') : Clean(candidates'[i], Good')
  BY <1>1 DEF SteadyCore, SteadyStep
<1>3. \A step \in Steps : /\ Recovering(step).pc = step /\ Recovering(step) \in Worker
                          /\ Recovering(step).reuse = FALSE
  <2>1. "recover" \in {"none", "run", "resume", "recover"} /\ Idle.reuse = FALSE
    BY DEF Idle
  <2> QED
    BY <2>1, NewTypes DEF Recovering, Worker
<1>4. {"candidate", "settle", "author", "review"} \subseteq Steps
  BY DEF Steps
<1>5. CASE RecoverGovernance \/ ResumeTask
  <2>1. /\ UNCHANGED disk /\ mem' = disk /\ w'.reuse = FALSE /\ disk.state \in Pending
        /\ \/ w'.pc = "candidate" /\ disk.state = "GOVERNANCE_PENDING"
           \/ w'.pc = "settle"
    BY <1>3, <1>4, <1>5 DEF RecoverGovernance, ResumeTask, Idle, Pending
  <2>2. Governed
    BY <2>1 DEF SteadyCore, SteadyRecords
  <2>3. SteadyRecords'
    BY <1>1, <2>1, StatesStaySteady
  <2> QED
    BY <1>2, <2>1, <2>2, <2>3 DEF SteadyCore, SteadyStep
<1>6. CASE RecoverFix
  <2>1. /\ disk' = mem' /\ mem' = [disk EXCEPT !.state = "AUTHOR_RUNNING"]
        /\ w' = [Recovering("author") EXCEPT !.revision = disk.revisions_used]
    BY <1>6 DEF RecoverFix, Save
  <2>2. mem'.state = "AUTHOR_RUNNING"
    BY <1>1, <2>1 DEF Task
  <2>3. w'.pc = "author" /\ w'.reuse = FALSE
    BY <1>3, <1>4, <2>1 DEF Worker
  <2>4. SteadyRecords'
    BY <1>1, <2>1, <2>2, StatesStaySteady DEF Calm
  <2> QED
    BY <1>2, <2>1, <2>2, <2>3, <2>4 DEF SteadyCore, SteadyStep, GovernanceSteps
<1>7. CASE RecoverReview
  <2> DEFINE revision == IF disk.review_revision = 0 THEN disk.revisions_used
                                                    ELSE disk.review_revision
  <2>1. /\ Save([disk EXCEPT !.state = "REVIEW_RUNNING", !.review_revision = revision])
        /\ w' = [Recovering("review") EXCEPT !.frame = "loop", !.revision = revision,
                    !.reuse = /\ disk.state = "REVIEW_RUNNING" /\ ReviewPersisted(disk)
                              /\ disk.last_review.revision = revision]
    BY <1>7 DEF RecoverReview
  <2> HIDE DEF revision
  <2>2. disk' = mem' /\ mem'.state = "REVIEW_RUNNING"
    BY <1>1, <2>1 DEF Save, Task
  <2>3. w'.pc = "review" /\ w'.frame = "loop" /\ w'.reuse = FALSE
    BY <1>2, <1>3, <1>4, <2>1 DEF Worker
  <2>4. SteadyRecords'
    BY <1>1, <2>2, StatesStaySteady
  <2> QED
    BY <1>2, <2>2, <2>3, <2>4 DEF SteadyCore, SteadyStep, GovernanceSteps
<1>8. CASE RecoverInterrupted
  <2>1. UNCHANGED <<mem, w>> /\ disk'.state = disk.state
    BY <1>1, <1>8 DEF RecoverInterrupted, Task
  <2>2. SteadyRecords'
    BY <1>1, <2>1, StatesStaySteady
  <2> QED
    BY <1>1, <1>2, <2>1, <2>2, RestIsSteady
<1> QED
  BY <1>5, <1>6, <1>7, <1>8 DEF Recover

LEMMA OperatorKeepsSteady ==
  ASSUME TypeOK, SteadyCore, Operator
  PROVE  SteadyCore'
<1> USE DEF operatorVars, vaultVars, orderVars, history, judgements
<1>1. disk \in Task /\ copy \in Task /\ UNCHANGED <<mem, w, file, vaultVars, history>>
  BY DEF TypeOK, Operator, CancelTask, Shutdown, CliCancel, CliReread, CliWrite
<1>2. disk' = disk \/ disk'.state = "CANCELLED"
  BY <1>1 DEF Operator, CancelTask, Shutdown, CliCancel, CliReread, CliWrite,
              CancelledOnDisk, Task
<1>3. Good' = Good
  BY <1>1 DEF Good
<1>4. SteadyRecords'
  BY <1>1, <1>2, <1>3, StatesStaySteady DEF Calm
<1> QED
  BY <1>1, <1>2, <1>3, <1>4 DEF SteadyCore, SteadyStep

LEMMA StepsKeepSteady ==
  ASSUME TypeInv, TypeInv', SteadyInv, [Next]_vars
  PROVE  SteadyInv'
<1>1. TypeOK /\ TypeOK' /\ crashes \in Nat
  BY BoundsAssumption DEF TypeInv, TypeOK
<1>2. crashes' = crashes \/ (Crash /\ crashes' = crashes + 1)
  BY DEF Next, Dispatch, Work, Execute, Retry, Fallback, EndChain, AuthorCompletes,
     AuthorFails, AuthorKilled, ReviewReused, ReviewCompletes, ReviewFails, ReviewKilled,
     AcceptancePasses, AcceptanceFails, StartFix, TargetConflict, BridgeFails,
     CreateCandidate, ReuseCandidate, FormalReview, FormallyReviewed, FormalRefused, Publish,
     PublishUnanswered, ApplyVerdict, CompletePublish, Settle, Recover, RecoverGovernance,
     RecoverFix, RecoverReview, RecoverInterrupted, ResumeTask, Crash, Operator, CancelTask,
     Shutdown, CliCancel, CliReread, CliWrite, orderVars, vars
<1>3. SUFFICES ASSUME crashes' = 0 PROVE SteadyCore'
  BY DEF SteadyInv
<1>4. crashes = 0 /\ ~Crash
  BY <1>1, <1>2, <1>3 DEF Crash
<1>5. SteadyCore
  BY <1>4 DEF SteadyInv
<1>6. CASE UNCHANGED vars
  BY <1>5, <1>6 DEF vars, operatorVars, vaultVars, history, judgements, SteadyCore,
                    SteadyRecords, SteadyStep, Claims, Good
<1>7. CASE Dispatch \/ Execute \/ Retry \/ Fallback \/ EndChain
  BY <1>1, <1>5, <1>7, ScheduleKeepsSteady
<1>8. CASE AuthorCompletes \/ AuthorFails \/ AuthorKilled
  BY <1>1, <1>5, <1>8, AuthorKeepsSteady
<1>9. CASE \/ ReviewReused \/ ReviewCompletes \/ ReviewFails \/ ReviewKilled
           \/ AcceptancePasses \/ AcceptanceFails \/ StartFix
  BY <1>1, <1>5, <1>9, ReviewKeepsSteady
<1>10. CASE \/ TargetConflict \/ BridgeFails \/ CreateCandidate \/ ReuseCandidate
            \/ FormalReview \/ FormalRefused \/ ApplyVerdict \/ CompletePublish \/ Settle
            \/ Publish \/ PublishUnanswered
  BY <1>1, <1>5, <1>10, GovernanceKeepsSteady
<1>11. CASE Recover \/ ResumeTask
  BY <1>1, <1>5, <1>11, RecoveryKeepsSteady
<1>12. CASE Operator
  BY <1>1, <1>5, <1>12, OperatorKeepsSteady
<1> QED
  BY <1>4, <1>6, <1>7, <1>8, <1>9, <1>10, <1>11, <1>12 DEF Next, Work

\* The invariant, at every state of every behaviour.
LEMMA SteadyHolds == Spec => []SteadyInv
<1>1. SteadyInv /\ TypeInv /\ TypeInv' /\ [Next]_vars => SteadyInv'
  BY StepsKeepSteady
<1> QED
  BY <1>1, InitSteady, TypesHold, PTL DEF Spec

-----------------------------------------------------------------------------

\* In every behaviour without a retry, and in every other one up to its first
\* crash, the vault publishes only pages that a reviewer passed and the
\* acceptance command accepted (a reply that staged no page is published as it
\* is, and no claim is made for it); and in every behaviour whatsoever a COMPLETED
\* governed task has its candidate published.
THEOREM PublicationsWereEarned == Spec => []PublishedWasEarned
<1>1. VaultInv /\ EarnedInv /\ SteadyInv => PublishedWasEarned
  BY DEF VaultInv, EarnedInv, EarnedCore, SteadyInv, SteadyCore, PublishedWasEarned,
         DecisionsAreFresh, Good, Completed, Clean
<1> QED
  BY <1>1, VaultHolds, EarnedHolds, SteadyHolds, PTL

\* A review decision is only ever applied to the author run it was made for,
\* whatever crashes and recoveries came between as long as nothing is retried,
\* and whatever is retried as long as nothing crashes.
THEOREM ReviewsApplyToTheirRuns == Spec => []ReviewAppliesToItsRun
<1>1. EarnedInv /\ SteadyInv => ReviewAppliesToItsRun
  BY DEF EarnedInv, EarnedCore, AtStep, SteadyInv, SteadyCore, SteadyStep, DecisionsAreFresh,
         ReviewAppliesToItsRun
<1> QED
  BY <1>1, EarnedHolds, SteadyHolds, PTL

\* A first author run that crashed is never taken up by a recovery: its task
\* stays AUTHOR_RUNNING until somebody cancels it.
THEOREM CrashedAuthorsStayParked == Spec => []CrashedAuthorStaysParked
<1>1. EarnedInv => CrashedAuthorStaysParked
  BY DEF EarnedInv, EarnedCore, CrashedAuthorStaysParked
<1> QED
  BY <1>1, EarnedHolds, PTL

\* What the vault publishes is what the author submitted last: the page staged
\* last or, if none ever was, the last reply.
THEOREM PublicationsAreLatest == Spec => PublishedIsLatest
<1>1. TypeInv /\ EarnedInv /\ Next /\ RevisionsAreUnique /\ published' # published
        => candidates[mem.candidate_id] = Submitted(mem)
  <2> SUFFICES ASSUME TypeInv, EarnedCore, Next, published' # published
               PROVE  candidates[mem.candidate_id] = Submitted(mem)
    BY DEF EarnedInv
  <2>1. w.pc = "publish"
    BY DEF Next, Dispatch, Work, Execute, Retry, Fallback, EndChain, AuthorCompletes,
       AuthorFails, AuthorKilled, ReviewReused, ReviewCompletes, ReviewFails, ReviewKilled,
       AcceptancePasses, AcceptanceFails, StartFix, TargetConflict, BridgeFails,
       CreateCandidate, ReuseCandidate, FormalReview, FormallyReviewed, FormalRefused, Publish,
       PublishUnanswered, ApplyVerdict, CompletePublish, Settle, Recover, RecoverGovernance,
       RecoverFix, RecoverReview, RecoverInterrupted, ResumeTask, Crash, Operator, CancelTask,
       Shutdown, CliCancel, CliReread, CliWrite, vaultVars
  <2>2. mem.candidate_id # 0 /\ mem.state \in Pending /\ Sound(mem)
    BY <2>1 DEF TypeInv, CandidateNamed, GovernanceSteps, EarnedCore, AtStep
  <2> QED
    BY <2>2 DEF Sound, SoundAt, SubmissionAt, Submitted
<1>2. TypeInv /\ EarnedInv /\ [Next]_vars =>
        [RevisionsAreUnique /\ published' # published
           => candidates[mem.candidate_id] = Submitted(mem)]_vars
  BY <1>1
<1> QED
  BY <1>2, TypesHold, EarnedHolds, PTL DEF Spec, PublishedIsLatest

-----------------------------------------------------------------------------
(***************************************************************************)
(* Direct deliveries across retries.  A recovery re-uses a review decision *)
(* when its revision number is that of the revision under review.  A retry *)
(* numbers from 1 again but keeps the last attempt's decision and its      *)
(* revisions_used, and what keeps these apart is that an attempt saves a   *)
(* decision only with a revisions_used above 1, or as the end of a budget  *)
(* above 1: the new attempt's first result is then not the one that        *)
(* revisions_used asks for, and its later ones have decisions below them.  *)
(* So up to the first crash no record can be taken up with an old          *)
(* decision, and only a crash and a recovery make one that can.            *)
(***************************************************************************)

\* A reviewer has decided on the task.
Answered(t) == t.last_review.decision # "none"

\* A record with a decision, which an attempt has left unfinished, says it has
\* used more than the first revision.
Apart(t) == t.state # "COMPLETED" /\ Answered(t) => t.revisions_used > 1

\* No recovery finds in t a decision with the number of the revision it would
\* take up again.
NotReused(t) ==
  t.state = "REVIEW_RUNNING" /\ ReviewResumable(t) /\ Answered(t) =>
    t.last_review.revision
      # (IF t.review_revision = 0 THEN t.revisions_used ELSE t.review_revision)

\* Until the first crash: how the numbers in the records follow the chain.
Numbered ==
  /\ Apart(disk) /\ (w.pc # "accept" => Apart(mem))
  /\ Apart(copy) /\ copy.state # "COMPLETED"
  /\ w.pc \in {"author", "review", "accept", "fix"} => w.revision <= mem.revisions_used
  /\ w.pc \in {"author", "review", "fix"} =>
       w.revision = 1 \/ mem.last_review.revision < w.revision
  /\ w.pc = "accept" => mem.last_review.revision = w.revision
  /\ disk.state = "REVIEW_RUNNING" =>
       /\ w.pc \in {"review", "accept"}
       /\ disk.review_revision = w.revision /\ disk.author_content_revision = w.revision
       /\ w.revision = 1 \/ disk.last_review.revision < w.revision

\* A direct task's records, by the step of its chain.
Placed ==
  /\ w.pc \in {"idle", "dispatch", "author", "review", "accept", "fix", "returned"}
  /\ w.reuse = FALSE
  /\ w.pc \in {"review", "accept", "fix"} => w.frame = "loop"
  /\ disk.state \notin Pending /\ mem.state \notin Pending
  /\ w.pc = "accept" => file \in passed
  /\ disk.state = "COMPLETED" => w.pc \in {"idle", "returned"} /\ file \in Good
  /\ mem.state = "COMPLETED" => w.pc = "returned" /\ file \in Good
  /\ disk.state = "REVIEW_RUNNING" => w.pc \in {"idle", "review", "accept"}
  /\ mem.state = "REVIEW_RUNNING" => w.pc \in {"review", "accept"}
  /\ w.pc = "returned" => disk.state \in {mem.state, "CANCELLED"}

DirectCore ==
  /\ Placed
  /\ w.pc = "idle" => NotReused(disk)
  /\ crashes = 0 => Numbered

DirectInv == ~Governed /\ MaxRevisions > 1 /\ crashes < 2 => DirectCore

\* A new task has no decision.
LEMMA InitDirect == Init => DirectInv
  BY DEF Init, DirectInv, DirectCore, Placed, Numbered, NotReused, Apart, Answered,
         NewTask, NoReview, Idle, Pending

\* The chain returns with record t.
LEMMA ReturnKeepsDirect ==
  ASSUME TypeOK, DirectCore, NEW t \in Task, Return(t), UNCHANGED <<copy, crashes>>,
         t.state \notin Pending \union {"REVIEW_RUNNING"},
         t.state = "COMPLETED" => file' \in Good',
         crashes = 0 => Apart(t)
  PROVE  DirectCore'
<1>1. w' = [w EXCEPT !.pc = "returned"] /\ disk' = t /\ mem' = t
  BY DEF Return, Save, Go
<1>2. w'.pc = "returned" /\ w'.reuse = w.reuse
  BY <1>1 DEF TypeOK, Worker
<1>3. Placed'
  BY <1>1, <1>2 DEF DirectCore, Placed
<1>4. crashes' = 0 => Numbered'
  BY <1>1, <1>2 DEF DirectCore, Numbered, Apart, Answered
<1> QED
  BY <1>2, <1>3, <1>4 DEF DirectCore

\* What reaches a handler from an author or reviewer run.
LEMMA RaisedKeepsDirect ==
  ASSUME TypeOK, DirectCore, NEW t \in Task, NEW e \in Errors, Raise(t, e),
         UNCHANGED <<copy, crashes>>, w.pc \in {"author", "review"},
         t.state = mem.state, t.last_review = mem.last_review,
         t.revisions_used = mem.revisions_used
  PROVE  DirectCore'
<1>1. Placed /\ disk \in Task /\ mem \in Task /\ w \in Worker
  BY DEF DirectCore, TypeOK
<1>2. ASSUME NEW c \in Errors \ {"RUN_CANCELLED"}, Return(Failed(t, c))
      PROVE  DirectCore'
  <2>1. Failed(t, c) \in Task
    BY FailedTypes
  <2>2. /\ Failed(t, c).state = "FAILED" /\ Failed(t, c).last_review = t.last_review
        /\ Failed(t, c).revisions_used = t.revisions_used
    BY DEF Failed, Task
  <2>3. crashes = 0 => Apart(Failed(t, c))
    BY <1>1, <2>2 DEF DirectCore, Numbered, Apart, Answered, Placed
  <2> QED
    BY <1>2, <2>1, <2>2, <2>3, ReturnKeepsDirect DEF Pending
<1>3. ASSUME Return(disk), disk.state = "CANCELLED" PROVE DirectCore'
  <2>1. crashes = 0 => Apart(disk)
    BY DEF DirectCore, Numbered
  <2> QED
    BY <1>1, <1>3, <2>1, ReturnKeepsDirect DEF Pending
<1>4. CASE LoopCatches(t, e)
  <2>1. Classified(e) \in Errors \ {"RUN_CANCELLED"}
    BY DEF Classified, Errors, Categories
  <2> QED
    BY <1>2, <1>3, <1>4, <2>1 DEF LoopCatches
<1>5. CASE ExecuteCatches(t, e)
  <2>1. w.pc = "author" /\ w.frame = "execute"
    BY <1>1, <1>5 DEF ExecuteCatches, Placed
  <2>2. CASE Return(t)
    <3>1. t.state \notin Pending \union {"REVIEW_RUNNING", "COMPLETED"}
      BY <1>1, <2>1 DEF Placed
    <3>2. crashes = 0 => Apart(t)
      BY <2>1, <3>1 DEF DirectCore, Numbered, Apart, Answered
    <3> QED
      BY <2>2, <3>1, <3>2, ReturnKeepsDirect
  <2>3. CASE Return([t EXCEPT !.state = "CANCELLED", !.retryable = FALSE])
    <3> DEFINE r == [t EXCEPT !.state = "CANCELLED", !.retryable = FALSE]
    <3>1. /\ r \in Task /\ r.state = "CANCELLED" /\ r.last_review = t.last_review
          /\ r.revisions_used = t.revisions_used
      BY DEF Task, TaskStates, Terminal
    <3>2. crashes = 0 => Apart(r)
      BY <1>1, <2>1, <3>1 DEF DirectCore, Numbered, Apart, Answered, Placed
    <3> HIDE DEF r
    <3>3. Return(r)
      BY <2>3 DEF r
    <3> QED
      BY <3>1, <3>2, <3>3, ReturnKeepsDirect DEF Pending
  <2>4. CASE Interrupted(e)
    BY <1>5, <2>2, <2>4 DEF ExecuteCatches
  <2>5. CASE ~Interrupted(e) /\ e = "RUN_CANCELLED"
    BY <1>5, <2>3, <2>5 DEF ExecuteCatches
  <2>6. CASE ~Interrupted(e) /\ e # "RUN_CANCELLED" /\ disk.state = "CANCELLED"
    BY <1>3, <1>5, <2>6 DEF ExecuteCatches
  <2>7. CASE ~Interrupted(e) /\ e # "RUN_CANCELLED" /\ disk.state # "CANCELLED"
    BY <1>2, <1>5, <2>7 DEF ExecuteCatches
  <2> QED
    BY <2>4, <2>5, <2>6, <2>7
<1>6. CASE CallerCatches
  <2>1. w.frame = "continue" /\ w' = Idle /\ mem' = NewTask
    BY <1>6 DEF CallerCatches
  <2>2. disk' = disk \/ disk' = [disk EXCEPT !.state = "FAILED"]
    BY <1>6 DEF CallerCatches
  <2>3. w.pc = "author" /\ disk.state \notin {"REVIEW_RUNNING", "COMPLETED"}
    BY <1>1, <2>1 DEF Placed
  <2>4. /\ disk'.state \notin Pending \union {"REVIEW_RUNNING", "COMPLETED"}
        /\ disk'.last_review = disk.last_review /\ disk'.revisions_used = disk.revisions_used
    BY <1>1, <2>2, <2>3 DEF Placed, Task, Pending
  <2>5. Placed'
    BY <2>1, <2>4 DEF Placed, Idle, NewTask, Pending
  <2>6. crashes' = 0 => Numbered'
    BY <2>1, <2>3, <2>4 DEF DirectCore, Numbered, Apart, Answered, NewTask, NoReview, Idle
  <2>7. NotReused(disk')
    BY <2>4 DEF NotReused
  <2> QED
    BY <2>5, <2>6, <2>7 DEF DirectCore
<1> QED
  BY <1>4, <1>5, <1>6 DEF Raise

\* The scheduler's actions.  A retry keeps the decision of the attempt before,
\* and starts where no number can be taken for it.
LEMMA ScheduleKeepsDirect ==
  ASSUME TypeInv, DirectCore, Dispatch \/ Execute \/ Retry \/ Fallback \/ EndChain
  PROVE  DirectCore'
<1>1. TypeOK /\ Placed /\ disk \in Task /\ mem \in Task /\ w \in Worker
  BY DEF TypeInv, TypeOK, DirectCore
<1>2. /\ UNCHANGED <<copy, crashes, file, passed, verified>> /\ Good' = Good
  BY DEF Dispatch, Execute, Retry, Fallback, EndChain, operatorVars, orderVars, history,
         judgements, Good
<1>3. CASE Dispatch
  <2>1. /\ w'.pc = "dispatch" /\ w'.reuse = FALSE /\ UNCHANGED <<disk, mem>>
        /\ disk.state = "CREATED" /\ w.pc = "idle"
    BY <1>3 DEF Dispatch, Idle
  <2>2. Placed'
    BY <1>1, <1>2, <2>1 DEF Placed
  <2>3. crashes' = 0 => Numbered'
    BY <1>2, <2>1 DEF DirectCore, Numbered, Apart, Answered
  <2> QED
    BY <2>1, <2>2, <2>3 DEF DirectCore
<1>4. CASE Execute
  <2>1. w.pc = "dispatch"
    BY <1>4 DEF Execute
  <2>2. disk.state \notin Pending \union {"REVIEW_RUNNING", "COMPLETED"}
    BY <1>1, <2>1 DEF Placed
  <2>3. crashes = 0 => /\ Apart(copy) /\ copy.state # "COMPLETED"
                       /\ Answered(disk) => disk.revisions_used > 1
    BY <2>2 DEF DirectCore, Numbered, Apart
  <2>4. CASE Return(disk)
    <3>1. crashes = 0 => Apart(disk)
      BY <2>3 DEF Apart
    <3> QED
      BY <1>1, <1>2, <2>2, <2>4, <3>1, ReturnKeepsDirect
  <2>5. CASE Return(Failed(disk, "ENVIRONMENT_FAULT"))
    <3> DEFINE r == Failed(disk, "ENVIRONMENT_FAULT")
    <3>1. r \in Task
      BY <1>1, FailedTypes DEF Errors, Categories
    <3>2. /\ r.state = "FAILED" /\ r.last_review = disk.last_review
          /\ r.revisions_used = disk.revisions_used
      BY <1>1 DEF Failed, Task
    <3>3. crashes = 0 => Apart(r)
      BY <2>3, <3>2 DEF Apart, Answered
    <3> HIDE DEF r
    <3>4. Return(r)
      BY <2>5 DEF r
    <3> QED
      BY <1>1, <1>2, <3>1, <3>2, <3>3, <3>4, ReturnKeepsDirect DEF Pending
  <2>6. CASE /\ Save([disk EXCEPT !.state = "AUTHOR_RUNNING"])
             /\ w' = [w EXCEPT !.pc = "author", !.frame = "execute", !.revision = 1,
                               !.reuse = FALSE]
    <3>1. /\ w'.pc = "author" /\ w'.reuse = FALSE /\ w'.revision = 1
      BY <1>1, <2>6 DEF Worker
    <3>2. /\ disk' = mem' /\ mem'.state = "AUTHOR_RUNNING"
          /\ mem'.last_review = disk.last_review /\ mem'.revisions_used = disk.revisions_used
      BY <1>1, <2>6 DEF Save, Task
    <3>3. Placed'
      BY <1>2, <3>1, <3>2 DEF Placed, Pending
    <3>4. disk.revisions_used \in Nat /\ 1 <= disk.revisions_used
      BY <1>1, BoundsAssumption DEF Task
    <3>5. crashes' = 0 => Numbered'
      BY <1>2, <2>3, <3>1, <3>2, <3>4 DEF Numbered, Apart, Answered
    <3> QED
      BY <3>1, <3>3, <3>5 DEF DirectCore
  <2> QED
    BY <1>4, <2>4, <2>5, <2>6 DEF Execute
<1>5. CASE Retry
  <2>1. /\ w'.pc = "dispatch" /\ w'.reuse = w.reuse /\ UNCHANGED <<disk, mem>>
        /\ mem.state = "FAILED" /\ w.pc = "returned"
    BY <1>1, <1>5 DEF Retry, MayRetry, Worker
  <2>2. Placed'
    BY <1>1, <1>2, <2>1 DEF Placed
  <2>3. crashes' = 0 => Numbered'
    BY <1>1, <1>2, <2>1 DEF DirectCore, Numbered, Apart, Answered, Placed
  <2> QED
    BY <2>1, <2>2, <2>3 DEF DirectCore
<1>6. CASE Fallback
  <2>1. /\ w'.pc = "dispatch" /\ w'.reuse = w.reuse /\ w.pc = "returned"
    BY <1>1, <1>6 DEF Fallback, Worker
  <2>2. /\ mem.state = "FAILED" /\ disk' = mem' /\ mem'.state = "CREATED"
        /\ mem'.last_review = mem.last_review /\ mem'.revisions_used = mem.revisions_used
    BY <1>1, <1>6 DEF Fallback, MayFallBack, Save, Task
  <2>3. Placed'
    BY <1>1, <1>2, <2>1, <2>2 DEF Placed, Pending
  <2>4. crashes' = 0 => Numbered'
    BY <1>1, <1>2, <2>1, <2>2 DEF DirectCore, Numbered, Apart, Answered
  <2> QED
    BY <2>1, <2>3, <2>4 DEF DirectCore
<1>7. CASE EndChain
  <2>1. /\ w' = Idle /\ mem' = NewTask /\ disk' \in {disk, mem} /\ w.pc = "returned"
    BY <1>7 DEF EndChain
  <2>2. disk'.state \notin Pending \union {"REVIEW_RUNNING"}
        /\ (disk'.state = "COMPLETED" => file \in Good)
    BY <1>1, <2>1 DEF Placed
  <2>3. Placed'
    BY <1>2, <2>1, <2>2 DEF Placed, Idle, NewTask, Pending
  <2>4. crashes' = 0 => Numbered'
    BY <1>2, <2>1, <2>2 DEF DirectCore, Numbered, Apart, Answered, Idle, NewTask, NoReview
  <2>5. NotReused(disk')
    BY <2>2 DEF NotReused
  <2> QED
    BY <2>3, <2>4, <2>5 DEF DirectCore
<1> QED
  BY <1>3, <1>4, <1>5, <1>6, <1>7

\* The author's actions: what is put under review has the chain's number.
LEMMA AuthorKeepsDirect ==
  ASSUME TypeInv, DirectCore, AuthorCompletes \/ AuthorFails \/ AuthorKilled
  PROVE  DirectCore'
<1>1. /\ TypeOK /\ Placed /\ mem \in Task /\ w \in Worker /\ w.pc = "author"
      /\ UNCHANGED <<copy, crashes>>
  BY DEF TypeInv, TypeOK, DirectCore, AuthorCompletes, AuthorFails, AuthorKilled,
         operatorVars
<1>2. runs + 1 \in 0..MaxRuns
  <2>1. runs \in 0..MaxRuns /\ runs < MaxRuns
    BY <1>1 DEF AuthorCompletes, AuthorFails, AuthorKilled, TypeOK
  <2> QED
    BY <2>1, BoundsAssumption
<1>3. CASE AuthorCompletes
  <2>1. /\ w'.pc = "review" /\ w'.frame = "loop" /\ w'.reuse = w.reuse
        /\ w'.revision = w.revision
    BY <1>1, <1>3 DEF AuthorCompletes, EnterReview, Worker
  <2>2. /\ disk' = mem' /\ mem'.state = "REVIEW_RUNNING"
        /\ mem'.last_review = mem.last_review /\ mem'.revisions_used = mem.revisions_used
        /\ mem'.review_revision = w.revision /\ mem'.author_content_revision = w.revision
    BY <1>1, <1>3 DEF AuthorCompletes, EnterReview, Save, Task
  <2>3. Placed'
    BY <1>1, <2>1, <2>2 DEF Placed, Pending
  <2>4. crashes' = 0 => Numbered'
    BY <1>1, <2>1, <2>2 DEF DirectCore, Numbered, Apart, Answered, Placed
  <2> QED
    BY <2>1, <2>3, <2>4 DEF DirectCore
<1>4. CASE AuthorFails
  <2>1. PICK c \in Faults : Raise([mem EXCEPT !.run = runs + 1, !.status = "failed",
                                    !.error = c, !.retryable = (c = "TRANSIENT_FAULT")], c)
    BY <1>4 DEF AuthorFails
  <2> DEFINE t == [mem EXCEPT !.run = runs + 1, !.status = "failed",
                              !.error = c, !.retryable = (c = "TRANSIENT_FAULT")]
  <2>2. c \in Categories /\ c \in Errors
    BY ChoicesAssumption DEF Errors
  <2>3. /\ t \in Task /\ t.state = mem.state /\ t.last_review = mem.last_review
        /\ t.revisions_used = mem.revisions_used
    BY <1>1, <1>2, <2>2 DEF Task
  <2> HIDE DEF t
  <2>4. Raise(t, c)
    BY <2>1 DEF t
  <2> QED
    BY <1>1, <2>2, <2>3, <2>4, RaisedKeepsDirect
<1>5. CASE AuthorKilled
  <2> DEFINE t == [mem EXCEPT !.run = runs + 1, !.status = "cancelled"]
  <2>1. /\ t \in Task /\ t.state = mem.state /\ t.last_review = mem.last_review
        /\ t.revisions_used = mem.revisions_used
    BY <1>1, <1>2 DEF Task
  <2>2. Raise(t, "RUN_CANCELLED")
    BY <1>5 DEF AuthorKilled
  <2>3. "RUN_CANCELLED" \in Errors
    BY DEF Errors
  <2> HIDE DEF t
  <2> QED
    BY <1>1, <2>1, <2>2, <2>3, RaisedKeepsDirect
<1> QED
  BY <1>3, <1>4, <1>5

\* One more revision, or the end of the budget, of which there is more than one.
LEMMA FixKeepsDirect ==
  ASSUME TypeOK, DirectCore, MaxRevisions > 1, UNCHANGED <<copy, crashes>>,
         w.pc \in {"review", "accept"}, NEW t \in Task, FixOrGiveUp(t),
         t.revisions_used = mem.revisions_used,
         crashes = 0 => t.last_review.revision = w.revision
  PROVE  DirectCore'
<1>1. Placed /\ w \in Worker /\ w.revision \in Nat /\ w.revision >= 1 /\ MaxRevisions \in Nat
      /\ t.revisions_used \in Nat
  <2>1. w \in Worker /\ w.revision \in 1..MaxRevisions /\ t.revisions_used \in 1..MaxRevisions
    BY DEF TypeOK, Worker, Task
  <2> QED
    BY <2>1, BoundsAssumption DEF DirectCore
<1>2. CASE w.revision >= MaxRevisions
  <2> DEFINE r == [t EXCEPT !.state = "FAILED"]
  <2>1. Return(r)
    BY <1>2 DEF FixOrGiveUp
  <2>2. r \in Task /\ r.state = "FAILED" /\ r.revisions_used = mem.revisions_used
    BY DEF Task, TaskStates, Terminal
  <2>3. crashes = 0 => r.revisions_used > 1
    BY <1>1, <1>2, <2>2 DEF DirectCore, Numbered
  <2> HIDE DEF r
  <2>4. crashes = 0 => Apart(r)
    BY <2>3 DEF Apart
  <2> QED
    BY <2>1, <2>2, <2>4, ReturnKeepsDirect DEF Pending
<1>3. CASE ~(w.revision >= MaxRevisions)
  <2>1. /\ Save([t EXCEPT !.state = "NEEDS_FIX", !.revisions_used = w.revision + 1])
        /\ w' = [w EXCEPT !.pc = "fix", !.revision = w.revision + 1]
    BY <1>3 DEF FixOrGiveUp
  <2>2. /\ w'.pc = "fix" /\ w'.reuse = w.reuse /\ w'.frame = w.frame
        /\ w'.revision = w.revision + 1
    BY <1>1, <2>1 DEF Worker
  <2>3. /\ disk' = mem' /\ mem'.state = "NEEDS_FIX" /\ mem'.revisions_used = w.revision + 1
        /\ mem'.last_review = t.last_review
    BY <2>1 DEF Save, Task
  <2>4. Placed'
    BY <1>1, <2>2, <2>3 DEF Placed, Pending
  <2>5. crashes' = 0 => Numbered'
    BY <1>1, <2>2, <2>3 DEF DirectCore, Numbered, Apart, Answered
  <2> QED
    BY <2>2, <2>4, <2>5 DEF DirectCore
<1> QED
  BY <1>2, <1>3

\* Review, acceptance and the start of a fix: a PASS is always a reviewer
\* run's, about the workspace as it stands.
LEMMA ReviewKeepsDirect ==
  ASSUME TypeInv, DirectCore, ~Governed, MaxRevisions > 1,
         \/ ReviewReused \/ ReviewCompletes \/ ReviewFails \/ ReviewKilled
         \/ AcceptancePasses \/ AcceptanceFails \/ StartFix
  PROVE  DirectCore'
<1>1. /\ TypeOK /\ Placed /\ mem \in Task /\ w \in Worker
      /\ UNCHANGED <<copy, crashes, file>>
  BY DEF TypeInv, TypeOK, DirectCore, ReviewReused, ReviewCompletes, ReviewFails,
         ReviewKilled, AcceptancePasses, AcceptanceFails, StartFix, operatorVars, orderVars
<1>2. ~ReviewReused
  BY <1>1 DEF ReviewReused, Reusable, Placed
<1>3. CASE ReviewCompletes
  <2>1. PICK decision \in {"PASS", "NEEDS_FIX"} :
          /\ Decided([mem EXCEPT !.last_review = [decision |-> decision,
                        revision |-> w.revision, run |-> mem.run]], decision)
          /\ passed' = IF decision = "PASS" THEN passed \union {file} ELSE passed
    BY <1>3 DEF ReviewCompletes
  <2> DEFINE answer == [decision |-> decision, revision |-> w.revision, run |-> mem.run]
             t == [mem EXCEPT !.last_review = answer]
  <2>2. w.revision \in 0..MaxRevisions /\ mem.run \in 0..MaxRuns
    BY <1>1, BoundsAssumption DEF Worker, Task
  <2>3. answer \in Review /\ answer.revision = w.revision
    BY <2>2 DEF Review
  <2> HIDE DEF answer
  <2>4. /\ t \in Task /\ t.last_review.revision = w.revision /\ t.state = mem.state
        /\ t.revisions_used = mem.revisions_used
    BY <1>1, <2>3 DEF Task
  <2>5. Decided(t, decision) /\ w.pc = "review"
    BY <1>3, <2>1 DEF ReviewCompletes, answer
  <2> HIDE DEF t
  <2>6. CASE FixOrGiveUp(t)
    BY <1>1, <2>4, <2>5, <2>6, FixKeepsDirect
  <2>7. CASE decision = "PASS" /\ Go("accept") /\ mem' = t /\ UNCHANGED disk
    <3>1. /\ w'.pc = "accept" /\ w'.reuse = w.reuse /\ w'.frame = w.frame
          /\ w'.revision = w.revision
      BY <1>1, <2>7 DEF Go, Worker
    <3>2. file' \in passed'
      BY <1>1, <2>1, <2>7
    <3>3. Placed'
      BY <1>1, <2>4, <2>5, <2>7, <3>1, <3>2 DEF Placed
    <3>4. crashes' = 0 => Numbered'
      BY <1>1, <2>4, <2>5, <2>7, <3>1 DEF DirectCore, Numbered
    <3> QED
      BY <3>1, <3>3, <3>4 DEF DirectCore
  <2> QED
    BY <2>5, <2>6, <2>7 DEF Decided
<1>4. CASE ReviewFails
  <2>1. PICK c \in Faults \union {"NONE"} : Raise(mem, c)
    BY <1>4 DEF ReviewFails
  <2>2. c \in Errors /\ w.pc = "review"
    BY <1>4, ChoicesAssumption DEF ReviewFails, Errors, Categories
  <2> QED
    BY <1>1, <2>1, <2>2, RaisedKeepsDirect
<1>5. CASE ReviewKilled
  BY <1>1, <1>5, RaisedKeepsDirect DEF ReviewKilled, Errors
<1>6. CASE AcceptancePasses
  <2> DEFINE r == [mem EXCEPT !.state = "COMPLETED"]
  <2>1. Return(r) /\ w.pc = "accept" /\ verified' = verified \union {file} /\ passed' = passed
    BY <1>6 DEF AcceptancePasses
  <2>2. r \in Task /\ r.state = "COMPLETED"
    BY <1>1 DEF Task, TaskStates, Terminal
  <2>3. file' \in Good'
    BY <1>1, <2>1 DEF Placed, Good
  <2> HIDE DEF r
  <2>4. Apart(r)
    BY <2>2 DEF Apart
  <2> QED
    BY <1>1, <2>1, <2>2, <2>3, <2>4, ReturnKeepsDirect DEF Pending
<1>7. CASE AcceptanceFails
  <2>1. FixOrGiveUp(mem) /\ w.pc = "accept"
    BY <1>7 DEF AcceptanceFails
  <2>2. crashes = 0 => mem.last_review.revision = w.revision
    BY <2>1 DEF DirectCore, Numbered
  <2> QED
    BY <1>1, <2>1, <2>2, FixKeepsDirect
<1>8. CASE StartFix
  <2>1. /\ w.pc = "fix" /\ w'.pc = "author" /\ w'.reuse = w.reuse /\ w'.revision = w.revision
    BY <1>1, <1>8 DEF StartFix, Go, Worker
  <2>2. /\ disk' = mem' /\ mem'.state = "FIX_RUNNING" /\ mem'.last_review = mem.last_review
        /\ mem'.revisions_used = mem.revisions_used
    BY <1>1, <1>8 DEF StartFix, Save, Task
  <2>3. Placed'
    BY <1>1, <2>1, <2>2 DEF Placed, Pending
  <2>4. crashes' = 0 => Numbered'
    BY <1>1, <2>1, <2>2 DEF DirectCore, Numbered, Apart, Answered, Placed
  <2> QED
    BY <2>1, <2>3, <2>4 DEF DirectCore
<1> QED
  BY <1>2, <1>3, <1>4, <1>5, <1>6, <1>7, <1>8

\* No direct task's chain gets to governance.
LEMMA NoDirectGovernance ==
  ASSUME TypeInv, DirectCore,
         \/ TargetConflict \/ BridgeFails \/ CreateCandidate \/ ReuseCandidate
         \/ FormalReview \/ FormalRefused \/ Publish \/ PublishUnanswered \/ ApplyVerdict
         \/ CompletePublish \/ Settle \/ RecoverGovernance \/ ResumeTask
  PROVE  FALSE
  BY DEF DirectCore, Placed, Pending, TargetConflict, BridgeFails, CreateCandidate,
         ReuseCandidate, FormalReview, FormallyReviewed, FormalRefused, Publish, PublishUnanswered,
         ApplyVerdict, CompletePublish, Settle, RecoverGovernance, ResumeTask

\* Recovery.  Before a crash nothing is found to go on with; after it a fix is
\* resumed, or a review taken up again without a decision.
LEMMA RecoveryKeepsDirect ==
  ASSUME TypeInv, RunInv, DirectCore, RecoverFix \/ RecoverReview \/ RecoverInterrupted
  PROVE  DirectCore'
<1>1. /\ TypeOK /\ Placed /\ disk \in Task /\ w \in Worker /\ w.pc = "idle"
      /\ UNCHANGED <<copy, crashes, file, passed, verified>> /\ Good' = Good
  BY DEF TypeInv, TypeOK, DirectCore, RecoverFix, RecoverReview, RecoverInterrupted,
         operatorVars, orderVars, history, judgements, Good
<1>2. crashes # 0 \/ RecoverInterrupted
  <2>1. w.job = "run" \/ w.job = "none" \/ w.job \in {"resume", "recover"}
    BY <1>1 DEF Worker
  <2>2. crashes = 0 => RestStep
    BY <1>1, <2>1 DEF RunInv, RunCore, RunStep, LoopSteps, SettleStep, SettleSteps
  <2>3. crashes = 0 => ~RecoverFix /\ ~RecoverReview
    BY <2>2 DEF RecoverFix, RecoverReview, FixResumable, ReviewResumable,
                AuthorPersisted, RestStep, Over, Terminal
  <2> QED
    BY <2>3
<1>3. CASE RecoverFix /\ crashes # 0
  <2>1. w'.pc = "author" /\ w'.reuse = FALSE
    BY <1>3 DEF RecoverFix, Recovering, Idle
  <2>2. disk' = mem' /\ mem'.state = "AUTHOR_RUNNING"
    BY <1>1, <1>3 DEF RecoverFix, Save, Task
  <2>3. Placed'
    BY <1>1, <2>1, <2>2 DEF Placed, Pending
  <2> QED
    BY <1>1, <1>3, <2>1, <2>3 DEF DirectCore
<1>4. CASE RecoverReview /\ crashes # 0
  <2> DEFINE revision == IF disk.review_revision = 0 THEN disk.revisions_used
                                                   ELSE disk.review_revision
  <2>1. ~(/\ disk.state = "REVIEW_RUNNING" /\ ReviewPersisted(disk)
          /\ disk.last_review.revision = revision)
    BY <1>1, <1>4 DEF DirectCore, NotReused, RecoverReview, ReviewPersisted, Answered
  <2>2. w' = [Recovering("review") EXCEPT !.frame = "loop", !.revision = revision,
                 !.reuse = FALSE]
    BY <1>4, <2>1 DEF RecoverReview
  <2>3. w'.pc = "review" /\ w'.reuse = FALSE /\ w'.frame = "loop"
    BY <2>2 DEF Recovering, Idle
  <2>4. disk' = mem' /\ mem'.state = "REVIEW_RUNNING"
    BY <1>1, <1>4 DEF RecoverReview, Save, Task
  <2>5. Placed'
    BY <1>1, <2>3, <2>4 DEF Placed, Pending
  <2> QED
    BY <1>1, <1>4, <2>3, <2>5 DEF DirectCore
<1>5. CASE RecoverInterrupted
  <2>1. /\ disk'.state = "AUTHOR_RUNNING" /\ disk'.last_review = disk.last_review
        /\ disk'.revisions_used = disk.revisions_used /\ disk.state = "AUTHOR_RUNNING"
        /\ UNCHANGED <<mem, w>>
    BY <1>1, <1>5 DEF RecoverInterrupted, Task
  <2>2. Placed'
    BY <1>1, <2>1 DEF Placed, Pending
  <2>3. crashes' = 0 => Numbered'
    BY <1>1, <2>1 DEF DirectCore, Numbered, Apart, Answered
  <2>4. NotReused(disk')
    BY <2>1 DEF NotReused
  <2> QED
    BY <2>2, <2>3, <2>4 DEF DirectCore
<1> QED
  BY <1>2, <1>3, <1>4, <1>5

\* The operator only cancels.
LEMMA OperatorKeepsDirect ==
  ASSUME TypeInv, DirectCore, Operator
  PROVE  DirectCore'
<1>1. /\ TypeOK /\ Placed /\ disk \in Task /\ copy \in Task
      /\ UNCHANGED <<mem, w, crashes, file, passed, verified>> /\ Good' = Good
  BY DEF TypeInv, TypeOK, DirectCore, Operator, CancelTask, Shutdown, CliCancel, CliReread,
         CliWrite, orderVars, history, judgements, Good
<1>2. CASE /\ disk' = disk
           /\ copy' = copy \/ (copy' = disk /\ disk.state \notin Terminal)
  <2>1. Placed' /\ (w'.pc = "idle" => NotReused(disk'))
    BY <1>1, <1>2 DEF DirectCore, Placed
  <2>2. crashes' = 0 => Numbered'
    BY <1>1, <1>2 DEF DirectCore, Numbered, Apart, Answered, Terminal
  <2> QED
    BY <2>1, <2>2 DEF DirectCore
<1>3. ASSUME NEW t \in {disk, copy}, disk' = [t EXCEPT !.state = "CANCELLED"],
             crashes = 0 /\ Answered(t) => t.revisions_used > 1,
             copy' = copy \/ copy' = NewTask
      PROVE  DirectCore'
  <2>1. /\ disk'.state = "CANCELLED" /\ disk'.last_review = t.last_review
        /\ disk'.revisions_used = t.revisions_used
    BY <1>1, <1>3 DEF Task
  <2>2. Placed'
    BY <1>1, <2>1 DEF Placed, Pending
  <2>3. crashes' = 0 => Numbered'
    BY <1>1, <1>3, <2>1 DEF DirectCore, Numbered, Apart, Answered, NewTask, NoReview
  <2>4. NotReused(disk')
    BY <2>1 DEF NotReused
  <2> QED
    BY <2>2, <2>3, <2>4 DEF DirectCore
<1>4. CASE disk' = [disk EXCEPT !.state = "CANCELLED"] /\ disk.state \notin Terminal
           /\ copy' = copy
  <2>1. crashes = 0 /\ Answered(disk) => disk.revisions_used > 1
    BY <1>4 DEF DirectCore, Numbered, Apart, Terminal
  <2> QED
    BY <1>3, <1>4, <2>1
<1>5. CASE CliWrite
  <2>1. crashes = 0 /\ Answered(copy) => copy.revisions_used > 1
    BY DEF DirectCore, Numbered, Apart
  <2> QED
    BY <1>3, <1>5, <2>1 DEF CliWrite
<1> QED
  BY <1>2, <1>4, <1>5 DEF Operator, CancelTask, Shutdown, CliCancel, CliReread, CliWrite,
                          CancelledOnDisk

\* A crash loses the copy in memory.  The record it leaves cannot be taken up
\* with an old decision: the result it holds has number 1, which is not its
\* revisions_used, or its decision is below the revision under review.
LEMMA CrashKeepsDirect ==
  ASSUME TypeInv, DirectCore, Crash, crashes = 0
  PROVE  DirectCore'
<1>1. TypeOK /\ Placed /\ Numbered /\ disk \in Task /\ w \in Worker
  BY DEF TypeInv, TypeOK, DirectCore
<1>2. /\ w' = Idle /\ mem' = NewTask /\ UNCHANGED <<disk, passed, verified>> /\ Good' = Good
      /\ crashes' = 1 /\ (w.pc # "author" => file' = file)
  BY DEF Crash, Good
<1>3. Placed'
  BY <1>1, <1>2 DEF Placed, Idle, NewTask, Pending
<1>4. NotReused(disk')
  <2> SUFFICES ASSUME disk.state = "REVIEW_RUNNING", ReviewResumable(disk), Answered(disk)
               PROVE  disk.last_review.revision
                        # (IF disk.review_revision = 0 THEN disk.revisions_used
                                                       ELSE disk.review_revision)
    BY <1>2 DEF NotReused
  <2>1. /\ disk.review_revision = w.revision /\ disk.author_content_revision = w.revision
        /\ w.revision = 1 \/ disk.last_review.revision < w.revision
        /\ disk.revisions_used > 1
    BY <1>1 DEF Numbered, Apart
  <2>2. disk.author_content_revision = disk.revisions_used
    BY DEF ReviewResumable, AuthorPersisted
  <2>3. w.revision \in Nat /\ disk.last_review.revision \in Nat
    BY <1>1, BoundsAssumption DEF Worker, Task, Review
  <2> QED
    BY <2>1, <2>2, <2>3
<1> QED
  BY <1>2, <1>3, <1>4 DEF DirectCore

\* Every step keeps the invariant, up to the second crash.
LEMMA StepsKeepDirect ==
  TypeInv /\ TypeInv' /\ RunInv /\ DirectInv /\ [Next]_vars => DirectInv'
<1> SUFFICES ASSUME TypeInv, TypeInv', RunInv, DirectInv, [Next]_vars,
                    ~Governed, MaxRevisions > 1, crashes' < 2
             PROVE  DirectCore'
  BY DEF DirectInv
<1>1. crashes \in Nat /\ (crashes' = crashes \/ (Crash /\ crashes' = crashes + 1))
  <2>1. crashes \in Nat
    BY BoundsAssumption DEF TypeInv, TypeOK
  <2>2. crashes' = crashes \/ (Crash /\ crashes' = crashes + 1)
    BY DEF Next, Dispatch, Work, Execute, Retry, Fallback, EndChain, AuthorCompletes,
       AuthorFails, AuthorKilled, ReviewReused, ReviewCompletes, ReviewFails, ReviewKilled,
       AcceptancePasses, AcceptanceFails, StartFix, TargetConflict, BridgeFails,
       CreateCandidate, ReuseCandidate, FormalReview, FormallyReviewed, FormalRefused, Publish,
       PublishUnanswered, ApplyVerdict, CompletePublish, Settle, Recover, RecoverGovernance,
       RecoverFix, RecoverReview, RecoverInterrupted, ResumeTask, Crash, Operator, CancelTask,
       Shutdown, CliCancel, CliReread, CliWrite, orderVars, vars
  <2> QED
    BY <2>1, <2>2
<1>2. DirectCore
  BY <1>1 DEF DirectInv
<1>3. CASE Dispatch \/ Execute \/ Retry \/ Fallback \/ EndChain
  BY <1>2, <1>3, ScheduleKeepsDirect
<1>4. CASE AuthorCompletes \/ AuthorFails \/ AuthorKilled
  BY <1>2, <1>4, AuthorKeepsDirect
<1>5. CASE \/ ReviewReused \/ ReviewCompletes \/ ReviewFails \/ ReviewKilled
           \/ AcceptancePasses \/ AcceptanceFails \/ StartFix
  BY <1>2, <1>5, ReviewKeepsDirect
<1>6. CASE \/ TargetConflict \/ BridgeFails \/ CreateCandidate \/ ReuseCandidate
           \/ FormalReview \/ FormalRefused \/ Publish \/ PublishUnanswered \/ ApplyVerdict
           \/ CompletePublish \/ Settle \/ RecoverGovernance \/ ResumeTask
  BY <1>2, <1>6, NoDirectGovernance
<1>7. CASE RecoverFix \/ RecoverReview \/ RecoverInterrupted
  BY <1>2, <1>7, RecoveryKeepsDirect
<1>8. CASE Operator
  BY <1>2, <1>8, OperatorKeepsDirect
<1>9. CASE Crash
  <2>1. crashes = 0
    BY <1>1, <1>9 DEF Crash
  <2> QED
    BY <1>2, <1>9, <2>1, CrashKeepsDirect
<1>10. CASE UNCHANGED vars
  <2>1. UNCHANGED <<disk, mem, copy, w, crashes, file, passed, verified>>
    BY <1>10 DEF vars, orderVars, operatorVars, history, judgements
  <2> QED
    BY <1>2, <2>1 DEF DirectCore, Placed, Numbered, NotReused, Apart, Answered, Good
<1> QED
  BY <1>3, <1>4, <1>5, <1>6, <1>7, <1>8, <1>9, <1>10 DEF Next, Work, Recover

\* The invariant, at every state of every behaviour.
LEMMA DirectHolds == Spec => []DirectInv
<1>1. DirectInv /\ TypeInv /\ TypeInv' /\ RunInv /\ [Next]_vars => DirectInv'
  BY StepsKeepDirect
<1> QED
  BY <1>1, InitDirect, TypesHold, RunsHold, PTL DEF Spec

\* DeliveredIsReviewed, for every revision budget, number of retries, fallbacks
\* and crashes: without a retry whatever crashes, and with retries up to the
\* first crash, or to the second if the budget has more than one revision, a
\* direct task is COMPLETED only with a workspace that a reviewer passed and the acceptance
\* command accepted.
THEOREM DeliveriesWereReviewed == Spec => []DeliveredIsReviewed
<1>1. EarnedInv /\ SteadyInv /\ DirectInv => DeliveredIsReviewed
  BY DEF EarnedInv, EarnedCore, Sound, SoundAt, Good, SteadyInv, SteadyCore, SteadyRecords,
         Claims, DirectInv, DirectCore, Placed, DecisionsAreFresh, DeliveredIsReviewed
<1> QED
  BY <1>1, EarnedHolds, SteadyHolds, DirectHolds, PTL
=============================================================================
