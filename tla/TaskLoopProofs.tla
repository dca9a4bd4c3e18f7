---------------------------- MODULE TaskLoopProofs ----------------------------
(***************************************************************************)
(* Proofs about TaskLoop, for every revision budget, every number of       *)
(* retries, fallbacks and crashes, and every choice of faults and          *)
(* interventions.                                                          *)
(***************************************************************************)
EXTENDS TaskLoop, TLAPS

GovernanceSteps == {"formal", "refused", "publish", "verdict", "settle", "complete"}

\* A candidate is named from the formal review on, so that what is published
\* is one.
CandidateNamed == w.pc \in GovernanceSteps => mem.candidate_id # 0

TypeInv == TypeOK /\ CandidateNamed

Errors == Categories \union {"KILLED", "RUN_CANCELLED"}

\* A new task is one, and nobody is a worker.
LEMMA NewTypes == NewTask \in Task /\ Idle \in Worker
<1>1. NoReview \in Review
  BY BoundsAssumption DEF NoReview, Review
<1>2. NewTask \in Task
  BY <1>1, BoundsAssumption DEF NewTask, Task, TaskStates, Categories
<1>3. Idle \in Worker
  BY BoundsAssumption DEF Idle, Worker, Steps, Verdicts
<1> QED
  BY <1>2, <1>3

LEMMA InitTypes == Init => TypeInv
<1> SUFFICES ASSUME Init PROVE TypeInv
  OBVIOUS
<1>1. <<>> \in Seq(Submissions) /\ Len(<<>>) = 0
  OBVIOUS
<1>2. TypeOK
  <2>1. disk \in Task /\ mem \in Task /\ copy \in Task /\ w \in Worker
    BY NewTypes DEF Init
  <2>2. candidates \in Seq(Submissions) /\ Len(candidates) <= MaxCandidates
    BY <1>1, BoundsAssumption DEF Init
  <2>3. file \in 0..MaxRuns /\ runs \in 0..MaxRuns /\ crashes \in 0..MaxCrashes
    BY BoundsAssumption DEF Init
  <2>4. /\ published \subseteq 1..MaxCandidates
        /\ passed \subseteq 0..MaxRuns /\ verified \subseteq 0..MaxRuns
    BY DEF Init
  <2>5. /\ killed \in {"no", "cli", "cancel", "interrupt"}
        /\ stop \in {"no", "interrupt", "cancel"}
        /\ cancel \in {"none", "signalled", "read", "done"}
        /\ unknown \in BOOLEAN /\ retried \in BOOLEAN
    BY DEF Init
  <2> QED
    BY <2>1, <2>2, <2>3, <2>4, <2>5 DEF TypeOK
<1>3. CandidateNamed
  BY DEF Init, CandidateNamed, GovernanceSteps, Idle
<1> QED
  BY <1>2, <1>3 DEF TypeInv

\* A record keeps its type when its error class and state are set.
LEMMA FailedTypes ==
  ASSUME NEW t \in Task, NEW c \in Errors \ {"RUN_CANCELLED"}
  PROVE  Failed(t, c) \in Task
<1>1. (IF c = "KILLED" THEN "TRANSIENT_FAULT" ELSE c) \in Categories
  BY DEF Errors, Categories
<1>2. "FAILED" \in TaskStates /\ (c = "TRANSIENT_FAULT") \in BOOLEAN
  BY DEF TaskStates, Terminal
<1> QED
  BY <1>1, <1>2 DEF Failed, Task

\* What reaches a handler ends the chain, with a record: the one thrown with,
\* the one on disk if it was cancelled, or the one on disk failed.
LEMMA Raised ==
  ASSUME TypeOK, NEW t \in Task, NEW e \in Errors, Raise(t, e)
  PROVE  /\ disk' \in Task /\ mem' \in Task /\ w' \in Worker
         /\ w'.pc \in {"idle", "returned"}
<1> USE BoundsAssumption
<1> DEFINE Written == /\ disk' \in Task /\ mem' \in Task /\ w' \in Worker
                      /\ w'.pc \in {"idle", "returned"}
<1>1. \A r \in Task : Return(r) => Written
  BY DEF Return, Save, Go, TypeOK, Worker, Steps
<1>2. \A c \in Errors \ {"RUN_CANCELLED"} : Failed(t, c) \in Task
  BY FailedTypes
<1>3. CASE LoopCatches(t, e)
  <2>1. Classified(e) \in Errors \ {"RUN_CANCELLED"}
    BY DEF Classified, Errors, Categories
  <2> QED
    BY <1>1, <1>2, <1>3, <2>1 DEF LoopCatches, TypeOK
<1>4. CASE ExecuteCatches(t, e)
  <2>1. [t EXCEPT !.state = "CANCELLED", !.retryable = FALSE] \in Task
    BY DEF Task, TaskStates, Terminal
  <2>2. CASE Interrupted(e)
    BY <1>1, <1>4, <2>2 DEF ExecuteCatches
  <2>3. CASE ~Interrupted(e) /\ e = "RUN_CANCELLED"
    BY <1>1, <1>4, <2>1, <2>3 DEF ExecuteCatches
  <2>4. CASE ~Interrupted(e) /\ e # "RUN_CANCELLED" /\ disk.state = "CANCELLED"
    BY <1>1, <1>4, <2>4 DEF ExecuteCatches, TypeOK
  <2>5. CASE ~Interrupted(e) /\ e # "RUN_CANCELLED" /\ disk.state # "CANCELLED"
    BY <1>1, <1>2, <1>4, <2>5 DEF ExecuteCatches
  <2> QED
    BY <2>2, <2>3, <2>4, <2>5
<1>5. CASE CallerCatches
  <2>1. disk \in Task /\ [disk EXCEPT !.state = "FAILED"] \in Task
    BY DEF TypeOK, Task, TaskStates, Terminal
  <2> QED
    BY <1>5, <2>1, NewTypes DEF CallerCatches, Idle
<1> QED
  BY <1>3, <1>4, <1>5 DEF Raise

\* Going on to another step, with a record.
LEMMA Gone ==
  ASSUME TypeOK, NEW step \in Steps, Go(step)
  PROVE  w' \in Worker /\ w'.pc = step
  BY DEF TypeOK, Go, Worker

LEMMA Returned ==
  ASSUME TypeOK, NEW t \in Task, Return(t)
  PROVE  disk' \in Task /\ mem' \in Task /\ w' \in Worker /\ w'.pc = "returned"
  BY Gone DEF Return, Save, Steps

\* The scheduler's actions.
LEMMA ScheduleKeepsTypes ==
  ASSUME TypeInv, Dispatch \/ Execute \/ Retry \/ Fallback \/ EndChain
  PROVE  TypeInv'
<1> USE BoundsAssumption DEF TypeInv, operatorVars, vaultVars, orderVars, history, judgements
<1> DEFINE Rest == UNCHANGED <<killed, cancel, copy, file, vaultVars, orderVars, judgements>>
<1>1. ASSUME Rest, stop' \in {"no", "interrupt", "cancel"}, retried' \in BOOLEAN,
             disk' \in Task, mem' \in Task, w' \in Worker, w'.pc \notin GovernanceSteps
      PROVE  TypeInv'
  BY <1>1 DEF TypeOK, CandidateNamed
<1>2. CASE Dispatch
  <2>1. "dispatch" \in Steps /\ Fallbacks \in 0..Fallbacks
    BY DEF Steps
  <2>2. w' \in Worker /\ w'.pc = "dispatch"
    BY <1>2, <2>1, NewTypes DEF Dispatch, Worker
  <2> QED
    BY <1>1, <1>2, <2>2 DEF Dispatch, TypeOK, GovernanceSteps
<1>3. CASE Execute
  <2>1. "ENVIRONMENT_FAULT" \in Errors \ {"RUN_CANCELLED"} /\ disk \in Task
    BY DEF Errors, Categories, TypeOK
  <2>2. CASE Return(disk) \/ Return(Failed(disk, "ENVIRONMENT_FAULT"))
    <3>1. disk' \in Task /\ mem' \in Task /\ w' \in Worker /\ w'.pc = "returned"
      BY <2>1, <2>2, Returned, FailedTypes
    <3> QED
      BY <1>1, <1>3, <3>1 DEF Execute, TypeOK, GovernanceSteps
  <2>3. CASE /\ Save([disk EXCEPT !.state = "AUTHOR_RUNNING"])
             /\ w' = [w EXCEPT !.pc = "author", !.frame = "execute", !.revision = 1,
                               !.reuse = FALSE]
    <3>1. disk' \in Task /\ mem' \in Task
      BY <2>3 DEF Save, TypeOK, Task, TaskStates, Running
    <3>2. "author" \in Steps /\ 1 \in 1..MaxRevisions
      BY DEF Steps
    <3>3. w' \in Worker /\ w'.pc = "author"
      BY <2>3, <3>2 DEF TypeOK, Worker
    <3> QED
      BY <1>1, <1>3, <3>1, <3>3 DEF Execute, TypeOK, GovernanceSteps
  <2> QED
    BY <1>3, <2>2, <2>3 DEF Execute
<1>4. CASE Retry
  <2>1. w \in Worker /\ w.attempt \in 0..Retries /\ w.attempt < Retries
    BY <1>4 DEF Retry, MayRetry, TypeOK, Worker
  <2>2. "dispatch" \in Steps /\ w.attempt + 1 \in 0..Retries
    BY <2>1 DEF Steps
  <2>3. w' \in Worker /\ w'.pc = "dispatch"
    BY <1>4, <2>1, <2>2 DEF Retry, Worker
  <2> QED
    BY <1>1, <1>4, <2>3 DEF Retry, TypeOK, GovernanceSteps
<1>5. CASE Fallback
  <2>1. w \in Worker /\ w.fallbacks \in 0..Fallbacks /\ mem \in Task
    BY DEF TypeOK, Worker
  <2>2. /\ "dispatch" \in Steps /\ 0 \in 0..Retries
        /\ \A left \in 0..(w.fallbacks - 1) : left \in 0..Fallbacks
    BY <2>1 DEF Steps
  <2>3. w' \in Worker /\ w'.pc = "dispatch"
    BY <1>5, <2>1, <2>2 DEF Fallback, Worker
  <2>4. "CREATED" \in TaskStates /\ FALSE \in BOOLEAN /\ "NONE" \in Categories
    BY DEF TaskStates, Categories
  <2>5. disk' \in Task /\ mem' \in Task
    BY <1>5, <2>1, <2>4 DEF Fallback, Save, Task
  <2> QED
    BY <1>1, <1>5, <2>3, <2>5 DEF Fallback, TypeOK, GovernanceSteps
<1>6. CASE EndChain
  BY <1>1, <1>6, NewTypes DEF EndChain, TypeOK, Idle, GovernanceSteps
<1> QED
  BY <1>2, <1>3, <1>4, <1>5, <1>6

\* What an action that ends or goes on with the chain has left to show.
LEMMA StillTyped ==
  ASSUME TypeInv, UNCHANGED <<stop, cancel, copy, crashes, unknown, retried>>,
         killed' \in {killed, "no"}, file' \in 0..MaxRuns, runs' \in 0..MaxRuns,
         candidates' \in Seq(Submissions), Len(candidates') <= MaxCandidates,
         published' \subseteq 1..MaxCandidates,
         passed' \subseteq 0..MaxRuns, verified' \subseteq 0..MaxRuns,
         disk' \in Task, mem' \in Task, w' \in Worker,
         w'.pc \in GovernanceSteps => mem'.candidate_id # 0
  PROVE  TypeInv'
  BY DEF TypeInv, TypeOK, CandidateNamed

\* The same when the run counters and the vault are left alone.
LEMMA StillTypedQuietly ==
  ASSUME TypeInv, UNCHANGED <<stop, cancel, copy, crashes, unknown, retried, file, runs,
                              candidates, published>>,
         killed' \in {killed, "no"}, passed' \in {passed, passed \union {file}},
         verified' \in {verified, verified \union {file}},
         disk' \in Task, mem' \in Task, w' \in Worker,
         w'.pc \in GovernanceSteps => mem'.candidate_id # 0
  PROVE  TypeInv'
<1>1. /\ file \in 0..MaxRuns /\ runs \in 0..MaxRuns /\ candidates \in Seq(Submissions)
      /\ Len(candidates) <= MaxCandidates /\ published \subseteq 1..MaxCandidates
      /\ passed \subseteq 0..MaxRuns /\ verified \subseteq 0..MaxRuns
  BY DEF TypeInv, TypeOK
<1> QED
  BY <1>1, StillTyped

\* The author's actions.
LEMMA AuthorKeepsTypes ==
  ASSUME TypeInv, AuthorCompletes \/ AuthorFails \/ AuthorKilled
  PROVE  TypeInv'
<1> USE BoundsAssumption, ChoicesAssumption DEF operatorVars, vaultVars, history, judgements
<1>1. TypeOK /\ mem \in Task /\ w \in Worker /\ w.revision \in 1..MaxRevisions
  BY DEF TypeInv, TypeOK, Worker
<1>2. runs + 1 \in 0..MaxRuns /\ runs' = runs + 1 /\ file' \in 0..MaxRuns
  <2>1. runs \in 0..MaxRuns /\ file \in 0..MaxRuns
    BY <1>1 DEF TypeOK
  <2>2. runs < MaxRuns /\ runs' = runs + 1 /\ file' \in {file, runs + 1}
    BY DEF AuthorCompletes, AuthorFails, AuthorKilled, Partial
  <2> QED
    BY <2>1, <2>2
<1>3. SUFFICES disk' \in Task /\ mem' \in Task /\ w' \in Worker
               /\ w'.pc \notin GovernanceSteps
  <2>1. /\ candidates \in Seq(Submissions) /\ Len(candidates) <= MaxCandidates
        /\ published \subseteq 1..MaxCandidates
        /\ passed \subseteq 0..MaxRuns /\ verified \subseteq 0..MaxRuns
    BY <1>1 DEF TypeOK
  <2>2. UNCHANGED <<stop, cancel, copy, crashes, unknown, retried, candidates, published,
                    passed, verified>>
        /\ killed' \in {killed, "no"}
    BY DEF AuthorCompletes, AuthorFails, AuthorKilled
  <2> QED
    BY <1>2, <1>3, <2>1, <2>2, StillTyped
<1>4. CASE AuthorCompletes
  <2> DEFINE done == [mem EXCEPT !.run = runs + 1, !.status = "completed",
                                 !.author_content_revision = w.revision,
                                 !.content = runs + 1,
                                 !.staged = (@ \/ (Governed /\ file' = runs + 1)),
                                 !.session = (@ \/ w.revision = 1)]
  <2>1. /\ w.revision \in 0..MaxRevisions /\ (mem.session \/ w.revision = 1) \in BOOLEAN
        /\ (mem.staged \/ (Governed /\ file' = runs + 1)) \in BOOLEAN
    BY <1>1
  <2>2. done \in Task
    BY <1>1, <1>2, <2>1 DEF Task
  <2>3. "REVIEW_RUNNING" \in TaskStates /\ "review" \in Steps
    BY DEF TaskStates, Running, Steps
  <2>4. EnterReview(done)
    BY <1>4 DEF AuthorCompletes
  <2>5. [done EXCEPT !.state = "REVIEW_RUNNING", !.review_revision = w.revision] \in Task
    <3> HIDE DEF done
    <3> QED BY <2>1, <2>2, <2>3 DEF Task
  <2>6. disk' \in Task /\ mem' \in Task
    BY <2>4, <2>5 DEF EnterReview, Save
  <2>7. w' \in Worker /\ w'.pc = "review"
    BY <1>1, <2>3, <2>4 DEF EnterReview, Worker
  <2> QED
    BY <2>6, <2>7 DEF GovernanceSteps
<1>5. CASE AuthorFails
  <2>1. PICK c \in Faults : Raise([mem EXCEPT !.run = runs + 1, !.status = "failed",
                                    !.error = c, !.retryable = (c = "TRANSIENT_FAULT")], c)
    BY <1>5 DEF AuthorFails
  <2>2. c \in Categories /\ c \in Errors /\ (c = "TRANSIENT_FAULT") \in BOOLEAN
    BY DEF Errors
  <2>3. [mem EXCEPT !.run = runs + 1, !.status = "failed", !.error = c,
                    !.retryable = (c = "TRANSIENT_FAULT")] \in Task
    BY <1>1, <1>2, <2>2 DEF Task
  <2> QED
    BY <1>1, <2>1, <2>2, <2>3, Raised DEF GovernanceSteps
<1>6. CASE AuthorKilled
  <2>1. [mem EXCEPT !.run = runs + 1, !.status = "cancelled"] \in Task
    BY <1>1, <1>2 DEF Task
  <2>2. "RUN_CANCELLED" \in Errors
    BY DEF Errors
  <2> QED
    BY <1>1, <1>6, <2>1, <2>2, Raised DEF AuthorKilled, GovernanceSteps
<1> QED
  BY <1>4, <1>5, <1>6

\* One more revision, or the end.
LEMMA FixTypes ==
  ASSUME TypeOK, NEW t \in Task, FixOrGiveUp(t)
  PROVE  disk' \in Task /\ mem' \in Task /\ w' \in Worker /\ w'.pc \in {"fix", "returned"}
<1> USE BoundsAssumption
<1>1. w \in Worker /\ w.revision \in 1..MaxRevisions
  BY DEF TypeOK, Worker
<1>2. CASE w.revision >= MaxRevisions
  <2>1. [t EXCEPT !.state = "FAILED"] \in Task
    BY DEF Task, TaskStates, Terminal
  <2> QED
    BY <1>2, <2>1, Returned DEF FixOrGiveUp
<1>3. CASE w.revision < MaxRevisions
  <2>1. w.revision + 1 \in 1..MaxRevisions
    BY <1>1, <1>3
  <2>2. "NEEDS_FIX" \in TaskStates /\ "fix" \in Steps
    BY DEF TaskStates, Steps
  <2>3. ~(w.revision >= MaxRevisions)
    BY <1>1, <1>3
  <2> DEFINE next == [t EXCEPT !.state = "NEEDS_FIX", !.revisions_used = w.revision + 1]
  <2>4. next \in Task
    BY <2>1, <2>2 DEF Task
  <2>5. disk' \in Task /\ mem' \in Task
    BY <2>3, <2>4 DEF FixOrGiveUp, Save
  <2>6. w' \in Worker /\ w'.pc = "fix"
    BY <1>1, <2>1, <2>2, <2>3 DEF FixOrGiveUp, Worker
  <2> QED
    BY <2>5, <2>6
<1> QED
  BY <1>1, <1>2, <1>3

\* A decision taken.
LEMMA DecidedTypes ==
  ASSUME TypeOK, NEW t \in Task, NEW decision, Decided(t, decision)
  PROVE  /\ disk' \in Task /\ mem' \in Task /\ w' \in Worker
         /\ w'.pc \in {"accept", "fix", "returned"}
<1>1. CASE FixOrGiveUp(t)
  BY <1>1, FixTypes
<1>2. CASE Go("accept") /\ mem' = t /\ UNCHANGED disk
  BY <1>2, Gone DEF Steps, TypeOK
<1> QED
  BY <1>1, <1>2 DEF Decided

\* Review, acceptance and the start of a fix.
LEMMA ReviewKeepsTypes ==
  ASSUME TypeInv, \/ ReviewReused \/ ReviewCompletes \/ ReviewFails \/ ReviewKilled
                  \/ AcceptancePasses \/ AcceptanceFails \/ StartFix
  PROVE  TypeInv'
<1> USE BoundsAssumption, ChoicesAssumption
    DEF operatorVars, vaultVars, orderVars, history, judgements
<1>1. TypeOK /\ mem \in Task /\ w \in Worker
  BY DEF TypeInv, TypeOK
<1>2. SUFFICES disk' \in Task /\ mem' \in Task /\ w' \in Worker
               /\ w'.pc \notin GovernanceSteps
  <2>1. /\ UNCHANGED <<stop, cancel, copy, crashes, unknown, retried, file, runs,
                       candidates, published>>
        /\ killed' \in {killed, "no"} /\ passed' \in {passed, passed \union {file}}
        /\ verified' \in {verified, verified \union {file}}
    BY DEF ReviewReused, ReviewCompletes, ReviewFails, ReviewKilled, AcceptancePasses,
           AcceptanceFails, StartFix
  <2> QED
    BY <1>2, <2>1, StillTypedQuietly
<1>3. CASE ReviewReused
  BY <1>1, <1>3, DecidedTypes DEF ReviewReused, GovernanceSteps
<1>4. CASE ReviewCompletes
  <2>1. PICK decision \in {"PASS", "NEEDS_FIX"} :
          Decided([mem EXCEPT !.last_review = [decision |-> decision,
                     revision |-> w.revision, run |-> mem.run]], decision)
    BY <1>4 DEF ReviewCompletes
  <2>2. w.revision \in 0..MaxRevisions /\ mem.run \in 0..MaxRuns
    BY <1>1 DEF Worker, Task
  <2>3. [decision |-> decision, revision |-> w.revision, run |-> mem.run] \in Review
    BY <2>2 DEF Review
  <2>4. [mem EXCEPT !.last_review = [decision |-> decision,
           revision |-> w.revision, run |-> mem.run]] \in Task
    BY <1>1, <2>3 DEF Task
  <2> QED
    BY <1>1, <2>1, <2>4, DecidedTypes DEF GovernanceSteps
<1>5. CASE ReviewFails
  BY <1>1, <1>5, Raised DEF ReviewFails, Errors, Categories, GovernanceSteps
<1>6. CASE ReviewKilled
  BY <1>1, <1>6, Raised DEF ReviewKilled, Errors, GovernanceSteps
<1>7. CASE AcceptancePasses
  <2>1. /\ [mem EXCEPT !.state = "GOVERNANCE_PENDING"] \in Task
        /\ [mem EXCEPT !.state = "COMPLETED"] \in Task
    BY <1>1 DEF Task, TaskStates, Terminal
  <2>2. CASE Governed
    BY <1>1, <1>7, <2>1, <2>2, Gone DEF AcceptancePasses, Save, Steps, GovernanceSteps
  <2>3. CASE ~Governed
    BY <1>1, <1>7, <2>1, <2>3, Returned DEF AcceptancePasses, GovernanceSteps
  <2> QED
    BY <2>2, <2>3
<1>8. CASE AcceptanceFails
  BY <1>1, <1>8, FixTypes DEF AcceptanceFails, GovernanceSteps
<1>9. CASE StartFix
  <2>1. [mem EXCEPT !.state = "FIX_RUNNING"] \in Task
    BY <1>1 DEF Task, TaskStates, Running
  <2> QED
    BY <1>1, <1>9, <2>1, Gone DEF StartFix, Save, Steps, GovernanceSteps
<1> QED
  BY <1>3, <1>4, <1>5, <1>6, <1>7, <1>8, <1>9

\* The governance actions.
LEMMA GovernanceKeepsTypes ==
  ASSUME TypeInv, \/ TargetConflict \/ BridgeFails \/ CreateCandidate \/ ReuseCandidate
                  \/ FormalReview \/ FormalRefused \/ ApplyVerdict \/ CompletePublish
                  \/ Settle
  PROVE  TypeInv'
<1> USE BoundsAssumption, ChoicesAssumption
    DEF operatorVars, vaultVars, orderVars, history, judgements
<1>1. TypeOK /\ mem \in Task /\ w \in Worker /\ disk \in Task
  BY DEF TypeInv, TypeOK
<1>2. /\ UNCHANGED <<stop, cancel, copy, crashes, unknown, retried, file, runs,
                     published, passed, verified>>
      /\ killed' \in {killed, "no"}
  BY DEF TargetConflict, BridgeFails, CreateCandidate, ReuseCandidate, FormalReview,
         FormallyReviewed, FormalRefused, ApplyVerdict, CompletePublish, Settle
<1>3. ASSUME UNCHANGED candidates,
             disk' \in Task /\ mem' \in Task /\ w' \in Worker,
             w'.pc \in GovernanceSteps => mem'.candidate_id # 0
      PROVE  TypeInv'
  BY <1>2, <1>3, StillTypedQuietly
<1>4. \A c \in ByMessage \union Faults \union {"NONE", "KILLED", "TRANSIENT_FAULT"} :
        c \in Errors
  BY DEF ByMessage, Errors, Categories
<1>5. ASSUME NEW c \in ByMessage \union Faults \union {"NONE", "KILLED", "TRANSIENT_FAULT"},
             Raise(mem, c)
      PROVE  /\ disk' \in Task /\ mem' \in Task /\ w' \in Worker
             /\ w'.pc \notin GovernanceSteps
  BY <1>1, <1>4, <1>5, Raised DEF GovernanceSteps
<1>6. ASSUME NEW s \in TaskStates PROVE [mem EXCEPT !.state = s] \in Task
  BY <1>1 DEF Task
<1>7. {"FAILED", "WAITING_HUMAN", "PUBLISHING", "COMPLETED"} \subseteq TaskStates
  BY DEF TaskStates, Terminal
<1>8. CASE TargetConflict
  <2>1. [mem EXCEPT !.state = "FAILED"] \in Task
    BY <1>6, <1>7
  <2> QED
    BY <1>1, <1>3, <1>8, <2>1, Returned DEF TargetConflict, GovernanceSteps
<1>9. CASE BridgeFails
  BY <1>3, <1>5, <1>9 DEF BridgeFails
<1>10. CASE CreateCandidate
  <2>1. /\ candidates \in Seq(Submissions) /\ Len(candidates) < MaxCandidates
        /\ file \in 0..MaxRuns
    BY <1>1, <1>10 DEF TypeOK, CreateCandidate
  <2>5. Submitted(mem) \in Submissions
    <3>1. mem.staged \in BOOLEAN /\ mem.content \in 0..MaxRuns
      BY <1>1 DEF Task
    <3> QED
      BY <2>1, <3>1 DEF Submitted, Submissions
  <2>2. /\ candidates' \in Seq(Submissions) /\ Len(candidates') <= MaxCandidates
        /\ Len(candidates) + 1 \in 1..MaxCandidates
    BY <1>10, <2>1, <2>5 DEF CreateCandidate
  <2>3. /\ disk' \in Task /\ mem' \in Task /\ w' \in Worker
        /\ w'.pc \in GovernanceSteps => mem'.candidate_id # 0
    <3>1. CASE Raise(mem, "TRANSIENT_FAULT")
      BY <1>5, <3>1
    <3>2. CASE Save([mem EXCEPT !.candidate_id = Len(candidates) + 1]) /\ Go("formal")
      <4>1. ASSUME NEW n \in 1..MaxCandidates
            PROVE  /\ [mem EXCEPT !.candidate_id = n] \in Task
                   /\ [mem EXCEPT !.candidate_id = n].candidate_id # 0
        <5>1. n \in 0..MaxCandidates /\ n # 0
          OBVIOUS
        <5> QED
          BY <1>1, <5>1 DEF Task
      <4> QED
        BY <1>1, <2>2, <3>2, <4>1, Gone DEF Save, Steps
    <3> QED
      BY <1>10, <3>1, <3>2 DEF CreateCandidate
  <2>4. /\ published \subseteq 1..MaxCandidates /\ file \in 0..MaxRuns
        /\ passed \subseteq 0..MaxRuns /\ verified \subseteq 0..MaxRuns
        /\ runs \in 0..MaxRuns
    BY <1>1 DEF TypeOK
  <2> QED
    BY <1>2, <2>2, <2>3, <2>4, StillTyped
<1>11. CASE ReuseCandidate
  BY <1>1, <1>3, <1>11, Gone DEF ReuseCandidate, Steps
<1>12. CASE FormalReview
  <2>1. mem.candidate_id # 0
    BY <1>12 DEF FormalReview, FormallyReviewed, TypeInv, CandidateNamed, GovernanceSteps
  <2>2. UNCHANGED candidates
    BY <1>12 DEF FormalReview, FormallyReviewed
  <2>3. ASSUME NEW f \in {"approve", "reject", "other"}
        PROVE  /\ [mem EXCEPT !.formal = f] \in Task
               /\ [mem EXCEPT !.formal = f].candidate_id # 0
    BY <1>1, <2>1 DEF Task
  <2>4. CASE (Go("publish") \/ Go("refused")) /\ UNCHANGED <<disk, mem>>
    BY <1>1, <1>3, <2>1, <2>2, <2>4, Gone DEF Steps
  <2>5. CASE Save([mem EXCEPT !.formal = "approve"]) /\ Go("publish")
    BY <1>1, <1>3, <2>2, <2>3, <2>5, Gone DEF Steps, Save
  <2>6. ASSUME NEW f \in {"reject", "other"},
               Save([mem EXCEPT !.formal = f]), Go("refused")
        PROVE  TypeInv'
    BY <1>1, <1>3, <2>2, <2>3, <2>6, Gone DEF Steps, Save
  <2>7. CASE \E c \in ByMessage \union Faults \union {"NONE", "KILLED", "TRANSIENT_FAULT"} :
               Raise(mem, c)
    BY <1>3, <1>5, <2>2, <2>7
  <2> QED
    BY <1>12, <2>4, <2>5, <2>6, <2>7 DEF FormalReview, FormallyReviewed
<1>13. CASE ApplyVerdict
  <2>1. mem.candidate_id # 0 /\ UNCHANGED candidates
    BY <1>13 DEF ApplyVerdict, TypeInv, CandidateNamed, GovernanceSteps
  <2>2. ASSUME NEW s \in {"FAILED", "WAITING_HUMAN"}, Return([mem EXCEPT !.state = s])
        PROVE  TypeInv'
    BY <1>1, <1>3, <1>6, <1>7, <2>1, <2>2, Returned DEF GovernanceSteps
  <2>3. CASE Save([mem EXCEPT !.state = "PUBLISHING"]) /\ Go("complete")
    <3>1. [mem EXCEPT !.state = "PUBLISHING"] \in Task
      BY <1>6, <1>7
    <3>2. [mem EXCEPT !.state = "PUBLISHING"].candidate_id # 0
      BY <1>1, <2>1 DEF Task
    <3> QED
      BY <1>1, <1>3, <2>1, <2>3, <3>1, <3>2, Gone DEF Save, Steps
  <2> QED
    BY <1>13, <2>2, <2>3 DEF ApplyVerdict
<1>14. CASE CompletePublish
  <2>1. [mem EXCEPT !.state = "COMPLETED"] \in Task
    BY <1>6, <1>7
  <2> QED
    BY <1>1, <1>3, <1>14, <2>1, Returned DEF CompletePublish, GovernanceSteps
<1>15. CASE Settle
  <2>1. mem.candidate_id # 0 /\ UNCHANGED candidates
    BY <1>15 DEF Settle, TypeInv, CandidateNamed, GovernanceSteps
  <2>2. CASE Go("publish") /\ UNCHANGED <<disk, mem>>
    BY <1>1, <1>3, <2>1, <2>2, Gone DEF Steps
  <2>3. CASE Save([mem EXCEPT !.state = "PUBLISHING"]) /\ Go("complete")
    <3>1. [mem EXCEPT !.state = "PUBLISHING"] \in Task
      BY <1>6, <1>7
    <3>2. [mem EXCEPT !.state = "PUBLISHING"].candidate_id # 0
      BY <1>1, <2>1 DEF Task
    <3> QED
      BY <1>1, <1>3, <2>1, <2>3, <3>1, <3>2, Gone DEF Save, Steps
  <2>4. CASE Save([mem EXCEPT !.published_flag = FALSE]) /\ Go("publish")
    <3>1. /\ [mem EXCEPT !.published_flag = FALSE] \in Task
          /\ [mem EXCEPT !.published_flag = FALSE].candidate_id # 0
      BY <1>1, <2>1 DEF Task
    <3> QED
      BY <1>1, <1>3, <2>1, <2>4, <3>1, Gone DEF Save, Steps
  <2> QED
    BY <1>15, <2>2, <2>3, <2>4 DEF Settle
<1>16. CASE FormalRefused
  BY <1>3, <1>5, <1>16 DEF FormalRefused
<1> QED
  BY <1>8, <1>9, <1>10, <1>11, <1>12, <1>13, <1>14, <1>15, <1>16

\* The two outcomes of a publish call.
LEMMA PublishKeepsTypes ==
  ASSUME TypeInv, Publish \/ PublishUnanswered
  PROVE  TypeInv'
<1> USE DEF operatorVars, vaultVars, orderVars, history, judgements
<1>1. TypeOK /\ mem \in Task /\ w \in Worker
  BY DEF TypeInv, TypeOK
<1>2. mem.candidate_id # 0 /\ mem.candidate_id \in 1..MaxCandidates
  <2>1. mem.candidate_id # 0
    BY DEF Publish, PublishUnanswered, TypeInv, CandidateNamed, GovernanceSteps
  <2>2. mem.candidate_id \in 0..MaxCandidates
    BY <1>1 DEF Task
  <2> QED
    BY <2>1, <2>2
<1>3. /\ published \subseteq 1..MaxCandidates /\ file \in 0..MaxRuns
      /\ passed \subseteq 0..MaxRuns /\ verified \subseteq 0..MaxRuns
      /\ runs \in 0..MaxRuns /\ candidates \in Seq(Submissions)
      /\ Len(candidates) <= MaxCandidates
  BY <1>1 DEF TypeOK
<1>4. /\ UNCHANGED <<stop, cancel, copy, crashes, unknown, retried, file, runs, killed,
                     candidates, passed, verified>>
      /\ published' \subseteq 1..MaxCandidates
  BY <1>2, <1>3 DEF Publish, PublishUnanswered
<1>5. SUFFICES /\ disk' \in Task /\ mem' \in Task /\ w' \in Worker
               /\ w'.pc \in GovernanceSteps => mem'.candidate_id # 0
  BY <1>3, <1>4, <1>5, StillTyped
<1>6. CASE Publish
  <2>1. PICK v \in Verdicts :
          /\ Save(IF v = "rejected" THEN mem
                  ELSE [mem EXCEPT !.published_flag = (v = "published")])
          /\ w' = [w EXCEPT !.pc = "verdict", !.verdict = v]
    BY <1>6 DEF Publish
  <2>2. (v = "published") \in BOOLEAN /\ "verdict" \in Steps
    BY DEF Steps
  <2>3. /\ [mem EXCEPT !.published_flag = (v = "published")] \in Task
        /\ [mem EXCEPT !.published_flag = (v = "published")].candidate_id # 0
    BY <1>1, <1>2, <2>2 DEF Task
  <2>4. disk' \in Task /\ mem' \in Task /\ mem'.candidate_id # 0
    BY <1>1, <1>2, <2>1, <2>3 DEF Save
  <2>5. w' \in Worker
    BY <1>1, <2>1, <2>2 DEF Worker
  <2> QED
    BY <2>4, <2>5
<1>7. CASE PublishUnanswered
  BY <1>1, <1>7, Raised DEF PublishUnanswered, Errors, Categories, GovernanceSteps
<1> QED
  BY <1>6, <1>7

\* Recovery and the resume of a parked task start a chain from the record on
\* disk.
LEMMA RecoveryKeepsTypes ==
  ASSUME TypeInv, Recover \/ ResumeTask
  PROVE  TypeInv'
<1> USE BoundsAssumption DEF operatorVars, vaultVars, orderVars, history, judgements
<1>1. TypeOK /\ disk \in Task /\ w \in Worker
  BY DEF TypeInv, TypeOK
<1>2. ASSUME UNCHANGED <<killed, cancel, copy, file, vaultVars, orderVars, history>>,
             stop' \in {stop, "no"}, disk' \in Task, mem' \in Task, w' \in Worker,
             w'.pc \in GovernanceSteps => mem'.candidate_id # 0
      PROVE  TypeInv'
  BY <1>2 DEF TypeInv, TypeOK, CandidateNamed
<1>3. ASSUME NEW step \in Steps
      PROVE  Recovering(step) \in Worker /\ Recovering(step).pc = step
  <2>1. "recover" \in {"none", "run", "resume", "recover"}
    OBVIOUS
  <2> QED
    BY <2>1, NewTypes DEF Recovering, Worker
<1>4. disk.revisions_used \in 1..MaxRevisions /\ disk.review_revision \in 0..MaxRevisions
  BY <1>1 DEF Task
<1>5. CASE RecoverGovernance
  <2>1. CASE w' = Recovering("candidate")
    BY <1>1, <1>2, <1>3, <1>5, <2>1 DEF RecoverGovernance, Steps, GovernanceSteps
  <2>2. CASE disk.candidate_id # 0 /\ w' = Recovering("settle")
    BY <1>1, <1>2, <1>3, <1>5, <2>2 DEF RecoverGovernance, Steps
  <2> QED
    BY <1>5, <2>1, <2>2 DEF RecoverGovernance
<1>6. CASE RecoverFix
  <2>1. [disk EXCEPT !.state = "AUTHOR_RUNNING"] \in Task
    BY <1>1 DEF Task, TaskStates, Running
  <2>2. "author" \in Steps
    BY DEF Steps
  <2>3. w' \in Worker /\ w'.pc = "author"
    BY <1>3, <1>4, <1>6, <2>2 DEF RecoverFix, Worker
  <2> QED
    BY <1>2, <1>6, <2>1, <2>3 DEF RecoverFix, Save, GovernanceSteps
<1>7. CASE RecoverReview
  <2> DEFINE revision == IF disk.review_revision = 0 THEN disk.revisions_used
                                                    ELSE disk.review_revision
             reuse == /\ disk.state = "REVIEW_RUNNING" /\ ReviewPersisted(disk)
                      /\ disk.last_review.revision = revision
  <2>1. revision \in 1..MaxRevisions /\ revision \in 0..MaxRevisions /\ reuse \in BOOLEAN
    BY <1>4
  <2>2. "REVIEW_RUNNING" \in TaskStates /\ "review" \in Steps
    BY DEF TaskStates, Running, Steps
  <2>3. /\ Save([disk EXCEPT !.state = "REVIEW_RUNNING", !.review_revision = revision])
        /\ w' = [Recovering("review") EXCEPT !.frame = "loop", !.revision = revision,
                                             !.reuse = reuse]
    BY <1>7 DEF RecoverReview
  <2> HIDE DEF revision, reuse
  <2>4. [disk EXCEPT !.state = "REVIEW_RUNNING", !.review_revision = revision] \in Task
    BY <1>1, <2>1, <2>2 DEF Task
  <2>5. w' \in Worker /\ w'.pc = "review"
    <3>1. ASSUME NEW x \in Worker, NEW n \in 1..MaxRevisions, NEW b \in BOOLEAN
          PROVE  /\ [x EXCEPT !.frame = "loop", !.revision = n, !.reuse = b] \in Worker
                 /\ [x EXCEPT !.frame = "loop", !.revision = n, !.reuse = b].pc = x.pc
      BY DEF Worker
    <3> QED
      BY <1>3, <2>1, <2>2, <2>3, <3>1
  <2> QED
    BY <1>2, <1>7, <2>3, <2>4, <2>5 DEF RecoverReview, Save, GovernanceSteps
<1>8. CASE RecoverInterrupted
  <2>1. [disk EXCEPT !.status = "interrupted"] \in Task
    BY <1>1 DEF Task
  <2> QED
    BY <1>2, <1>8, <2>1 DEF RecoverInterrupted, TypeInv, TypeOK, CandidateNamed
<1>9. CASE ResumeTask
  <2>1. "settle" \in Steps /\ "resume" \in {"none", "run", "resume", "recover"}
    BY DEF Steps
  <2>2. w' \in Worker
    BY <1>9, <2>1, NewTypes DEF ResumeTask, Worker
  <2> QED
    BY <1>1, <1>2, <1>9, <2>2 DEF ResumeTask
<1> QED
  BY <1>5, <1>6, <1>7, <1>8, <1>9 DEF Recover

\* The operator's actions and a crash.
LEMMA OperatorKeepsTypes ==
  ASSUME TypeInv, Operator \/ Crash
  PROVE  TypeInv'
<1> USE BoundsAssumption DEF operatorVars, vaultVars, orderVars, history, judgements
<1>1. TypeOK /\ disk \in Task /\ copy \in Task
  BY DEF TypeInv, TypeOK
<1>2. \A t \in Task : [t EXCEPT !.state = "CANCELLED"] \in Task
  BY DEF Task, TaskStates, Terminal
<1>3. CASE Operator
  <2>1. UNCHANGED <<mem, w, file, vaultVars, orderVars, history>>
    BY <1>3 DEF Operator, CancelTask, Shutdown, CliCancel, CliReread, CliWrite
  <2>2. disk' \in Task
    BY <1>1, <1>2, <1>3 DEF Operator, CancelTask, Shutdown, CliCancel, CliReread, CliWrite,
                            CancelledOnDisk
  <2>3. copy' \in Task
    BY <1>1, <1>3, NewTypes DEF Operator, CancelTask, Shutdown, CliCancel, CliReread, CliWrite
  <2>4. killed' \in {killed, "cli", "cancel", "interrupt"}
    BY <1>3 DEF Operator, CancelTask, Shutdown, CliCancel, CliReread, CliWrite, Killed
  <2>5. /\ stop' \in {stop, "interrupt", "cancel"}
        /\ cancel' \in {cancel, "signalled", "read", "done"}
    BY <1>3 DEF Operator, CancelTask, Shutdown, CliCancel, CliReread, CliWrite
  <2> QED
    BY <2>1, <2>2, <2>3, <2>4, <2>5 DEF TypeInv, TypeOK, CandidateNamed
<1>4. CASE Crash
  <2>1. crashes \in 0..MaxCrashes /\ crashes < MaxCrashes
    BY <1>1, <1>4 DEF Crash, TypeOK
  <2>2. crashes' \in 0..MaxCrashes /\ unknown' \in BOOLEAN
    BY <1>1, <1>4, <2>1 DEF Crash, TypeOK
  <2>3. runs \in 0..MaxRuns /\ file \in 0..MaxRuns
    BY <1>1 DEF TypeOK
  <2>4. runs' \in 0..MaxRuns /\ file' \in 0..MaxRuns
    BY <1>4, <2>3 DEF Crash
  <2> QED
    BY <1>4, <2>2, <2>4, NewTypes DEF Crash, TypeInv, TypeOK, CandidateNamed, Idle, GovernanceSteps
<1> QED
  BY <1>3, <1>4

LEMMA StepsKeepTypes == TypeInv /\ [Next]_vars => TypeInv'
<1> SUFFICES ASSUME TypeInv, [Next]_vars PROVE TypeInv'
  OBVIOUS
<1>1. CASE UNCHANGED vars
  BY <1>1 DEF vars, operatorVars, vaultVars, orderVars, history, judgements, TypeInv, TypeOK,
              CandidateNamed
<1>2. CASE Dispatch
  BY <1>2, ScheduleKeepsTypes
<1>3. CASE Work
  BY <1>3, ScheduleKeepsTypes, AuthorKeepsTypes, ReviewKeepsTypes, GovernanceKeepsTypes,
     PublishKeepsTypes DEF Work
<1>4. CASE Recover \/ ResumeTask
  BY <1>4, RecoveryKeepsTypes
<1>5. CASE Operator \/ Crash
  BY <1>5, OperatorKeepsTypes
<1> QED
  BY <1>1, <1>2, <1>3, <1>4, <1>5 DEF Next

LEMMA TypesHold == Spec => []TypeInv
  BY InitTypes, StepsKeepTypes, PTL DEF Spec

\* The records on disk, in the driving process and in the operator's command
\* stay tasks: no handler, retry, recovery or cancellation leaves a state or a
\* counter outside its range.
THEOREM TypeCorrectness == Spec => []TypeOK
  BY TypesHold, PTL DEF TypeInv

-----------------------------------------------------------------------------
(***************************************************************************)
(* A formal reject is final.                                               *)
(***************************************************************************)

\* Nothing parked or being published without an approve in its own record.
Approved(t) == t.state \in {"WAITING_HUMAN", "PUBLISHING"} => t.formal = "approve"

\* The strengthening: the copy a chain works with knows of the reject on disk,
\* and the one the CLI's cancel has read knows of no other.
RejectInv ==
  /\ Approved(disk) /\ Approved(mem)
  /\ w.pc \in {"publish", "verdict", "settle", "complete"} => mem.formal = "approve"
  /\ w.pc \in {"candidate", "formal"} => mem.state = "GOVERNANCE_PENDING"
  /\ disk.formal = "reject" /\ w.pc \notin {"idle", "dispatch"} => mem.formal = "reject"
  /\ cancel = "read" /\ copy.formal = "reject" => disk.formal = "reject"

\* What every action but the CLI's write keeps.
RejectKept == disk.formal = "reject" => published' = published /\ disk'.formal = "reject"

LEMMA InitRejects == Init => RejectInv
  BY DEF Init, RejectInv, Approved, NewTask, Idle

\* A record written over the file by the chain that drives the task.
LEMMA SavedKeepsRejects ==
  ASSUME RejectInv, UNCHANGED <<cancel, copy, published>>, w.pc \notin {"idle", "dispatch"},
         disk' = mem', mem'.formal = mem.formal, Approved(mem'),
         w'.pc \in {"publish", "verdict", "settle", "complete"} => mem'.formal = "approve",
         w'.pc \in {"candidate", "formal"} => mem'.state = "GOVERNANCE_PENDING"
  PROVE  RejectInv' /\ RejectKept
  BY DEF RejectInv, RejectKept, Approved

\* An exception: whatever handler it reaches, the verdict in the file stays.
LEMMA RaisedKeepsRejects ==
  ASSUME TypeOK, RejectInv, UNCHANGED <<cancel, copy, published>>,
         w.pc \notin {"idle", "dispatch"},
         NEW t \in Task, t.formal = mem.formal, t.state = mem.state,
         NEW e \in Errors, Raise(t, e)
  PROVE  RejectInv' /\ RejectKept
<1>1. disk \in Task /\ w \in Worker
  BY DEF TypeOK
<1>2. ASSUME NEW r \in Task, Return(r), r.formal = mem.formal, Approved(r)
      PROVE  RejectInv' /\ RejectKept
  <2>1. w'.pc = "returned" /\ disk' = r /\ mem' = r
    BY <1>1, <1>2 DEF Return, Save, Go, Worker
  <2> QED
    BY <1>2, <2>1, SavedKeepsRejects
<1>3. ASSUME Return(disk), disk.state = "CANCELLED"
      PROVE  RejectInv' /\ RejectKept
  <2>1. w'.pc = "returned" /\ disk' = disk /\ mem' = disk
    BY <1>1, <1>3 DEF Return, Save, Go, Worker
  <2> QED
    BY <2>1 DEF RejectInv, RejectKept, Approved
<1>4. \A c : Failed(t, c).formal = mem.formal /\ Approved(Failed(t, c))
  BY DEF Failed, Task, Approved
<1>5. \A c \in Errors \ {"RUN_CANCELLED"} : Failed(t, c) \in Task
  BY FailedTypes
<1>6. CASE LoopCatches(t, e)
  <2>1. Classified(e) \in Errors \ {"RUN_CANCELLED"}
    BY DEF Classified, Errors, Categories
  <2> QED
    BY <1>2, <1>3, <1>4, <1>5, <1>6, <2>1 DEF LoopCatches
<1>7. CASE ExecuteCatches(t, e)
  <2> DEFINE cancelled == [t EXCEPT !.state = "CANCELLED", !.retryable = FALSE]
  <2>1. cancelled \in Task /\ cancelled.formal = mem.formal /\ Approved(cancelled)
    BY DEF Task, TaskStates, Terminal, Approved
  <2>2. Approved(t)
    BY DEF RejectInv, Approved
  <2>3. CASE Interrupted(e)
    BY <1>2, <1>7, <2>2, <2>3 DEF ExecuteCatches
  <2>4. CASE ~Interrupted(e) /\ e = "RUN_CANCELLED"
    BY <1>2, <1>7, <2>1, <2>4 DEF ExecuteCatches
  <2>5. CASE ~Interrupted(e) /\ e # "RUN_CANCELLED" /\ disk.state = "CANCELLED"
    BY <1>3, <1>7, <2>5 DEF ExecuteCatches
  <2>6. CASE ~Interrupted(e) /\ e # "RUN_CANCELLED" /\ disk.state # "CANCELLED"
    BY <1>2, <1>4, <1>5, <1>7, <2>6 DEF ExecuteCatches
  <2> QED
    BY <2>3, <2>4, <2>5, <2>6
<1>8. CASE CallerCatches
  <2>1. w'.pc = "idle" /\ mem' = NewTask /\ disk'.formal = disk.formal
        /\ disk'.state \in {disk.state, "FAILED"}
    BY <1>1, <1>8 DEF CallerCatches, Idle, Task
  <2> QED
    BY <2>1 DEF RejectInv, RejectKept, Approved, NewTask
<1> QED
  BY <1>6, <1>7, <1>8 DEF Raise

LEMMA ScheduleKeepsRejects ==
  ASSUME TypeOK, RejectInv, Dispatch \/ Execute \/ Retry \/ Fallback \/ EndChain
  PROVE  RejectInv' /\ RejectKept
<1> USE DEF operatorVars, vaultVars, orderVars, history, judgements
<1>1. disk \in Task /\ mem \in Task /\ w \in Worker
  BY DEF TypeOK
<1>2. UNCHANGED <<cancel, copy, published>>
  BY DEF Dispatch, Execute, Retry, Fallback, EndChain
<1>3. CASE Dispatch
  BY <1>2, <1>3 DEF Dispatch, Idle, RejectInv, RejectKept, Approved
<1>4. CASE Execute
  <2>1. \/ w'.pc = "returned" /\ disk' = mem' /\ mem' = disk
        \/ w'.pc = "returned" /\ disk' = mem' /\ mem' = Failed(disk, "ENVIRONMENT_FAULT")
        \/ /\ w'.pc = "author" /\ disk' = mem'
           /\ mem' = [disk EXCEPT !.state = "AUTHOR_RUNNING"]
    BY <1>1, <1>4 DEF Execute, Return, Save, Go, Worker
  <2>2. disk' = mem' /\ mem'.formal = disk.formal /\ Approved(mem')
    BY <1>1, <2>1 DEF Failed, Task, Approved, RejectInv
  <2> QED
    BY <1>2, <2>1, <2>2 DEF RejectInv, RejectKept, Approved
<1>5. CASE Retry
  <2>1. w'.pc = "dispatch"
    BY <1>1, <1>5 DEF Retry, Worker
  <2> QED
    BY <1>2, <1>5, <2>1 DEF Retry, RejectInv, RejectKept, Approved
<1>6. CASE Fallback
  <2>1. w'.pc = "dispatch"
    BY <1>1, <1>6 DEF Fallback, Worker
  <2>2. disk' = mem' /\ mem'.formal = mem.formal /\ mem'.state = "CREATED"
    BY <1>1, <1>6 DEF Fallback, Save, Task
  <2>3. w.pc = "returned"
    BY <1>6 DEF Fallback
  <2> QED
    BY <1>2, <2>1, <2>2, <2>3, SavedKeepsRejects DEF Approved
<1>7. CASE EndChain
  <2>1. w'.pc = "idle" /\ mem' = NewTask /\ disk' \in {disk, mem} /\ w.pc = "returned"
    BY <1>7 DEF EndChain, Idle
  <2> QED
    BY <1>2, <2>1 DEF RejectInv, RejectKept, Approved, NewTask
<1> QED
  BY <1>3, <1>4, <1>5, <1>6, <1>7

LEMMA AuthorKeepsRejects ==
  ASSUME TypeOK, TypeOK', RejectInv, AuthorCompletes \/ AuthorFails \/ AuthorKilled
  PROVE  RejectInv' /\ RejectKept
<1> USE BoundsAssumption, ChoicesAssumption DEF operatorVars, vaultVars, history, judgements
<1>1. mem \in Task /\ w \in Worker /\ runs + 1 \in 0..MaxRuns
  <2>1. runs' \in 0..MaxRuns /\ runs' = runs + 1
    BY DEF TypeOK, AuthorCompletes, AuthorFails, AuthorKilled
  <2> QED
    BY <2>1 DEF TypeOK
<1>2. UNCHANGED <<cancel, copy, published>> /\ w.pc = "author"
  BY DEF AuthorCompletes, AuthorFails, AuthorKilled
<1>3. CASE AuthorCompletes
  <2> DEFINE done == [mem EXCEPT !.run = runs + 1, !.status = "completed",
                                 !.author_content_revision = w.revision,
                                 !.content = runs + 1,
                                 !.staged = (@ \/ (Governed /\ file' = runs + 1)),
                                 !.session = (@ \/ w.revision = 1)]
  <2>1. /\ disk' = mem' /\ w'.pc = "review"
        /\ mem' = [done EXCEPT !.state = "REVIEW_RUNNING", !.review_revision = w.revision]
    BY <1>1, <1>3 DEF AuthorCompletes, EnterReview, Save, Worker
  <2>2. mem'.formal = mem.formal /\ mem'.state = "REVIEW_RUNNING"
    BY <1>1, <2>1 DEF Task
  <2> QED
    BY <1>2, <2>1, <2>2, SavedKeepsRejects DEF Approved
<1>4. CASE AuthorFails
  <2>1. PICK c \in Faults : Raise([mem EXCEPT !.run = runs + 1, !.status = "failed",
                                    !.error = c, !.retryable = (c = "TRANSIENT_FAULT")], c)
    BY <1>4 DEF AuthorFails
  <2> DEFINE t == [mem EXCEPT !.run = runs + 1, !.status = "failed",
                              !.error = c, !.retryable = (c = "TRANSIENT_FAULT")]
  <2>2. c \in Categories /\ c \in Errors /\ (c = "TRANSIENT_FAULT") \in BOOLEAN
    BY DEF Errors
  <2>3. t \in Task /\ t.formal = mem.formal /\ t.state = mem.state
    BY <1>1, <2>2 DEF Task
  <2> QED
    BY <1>2, <2>1, <2>2, <2>3, RaisedKeepsRejects
<1>5. CASE AuthorKilled
  <2> DEFINE t == [mem EXCEPT !.run = runs + 1, !.status = "cancelled"]
  <2>1. t \in Task /\ t.formal = mem.formal /\ t.state = mem.state
    BY <1>1 DEF Task
  <2>2. Raise(t, "RUN_CANCELLED") /\ "RUN_CANCELLED" \in Errors
    BY <1>5 DEF AuthorKilled, Errors
  <2> QED
    BY <1>2, <2>1, <2>2, RaisedKeepsRejects
<1> QED
  BY <1>3, <1>4, <1>5

\* One more revision or the end, for a record with the verdict of the copy.
LEMMA FixKeepsRejects ==
  ASSUME TypeOK, RejectInv, UNCHANGED <<cancel, copy, published>>,
         w.pc \notin {"idle", "dispatch"},
         NEW t \in Task, t.formal = mem.formal, FixOrGiveUp(t)
  PROVE  RejectInv' /\ RejectKept
<1>1. w \in Worker
  BY DEF TypeOK
<1>2. /\ disk' = mem' /\ w'.pc \in {"fix", "returned"}
      /\ \/ mem' = [t EXCEPT !.state = "FAILED"]
         \/ mem' = [t EXCEPT !.state = "NEEDS_FIX", !.revisions_used = w.revision + 1]
  BY <1>1 DEF FixOrGiveUp, Return, Save, Go, Worker
<1>3. mem'.formal = mem.formal /\ mem'.state \in {"FAILED", "NEEDS_FIX"}
  BY <1>2 DEF Task
<1> QED
  BY <1>2, <1>3, SavedKeepsRejects DEF Approved

LEMMA DecidedKeepsRejects ==
  ASSUME TypeOK, RejectInv, UNCHANGED <<cancel, copy, published>>,
         w.pc \notin {"idle", "dispatch"},
         NEW t \in Task, t.formal = mem.formal, t.state = mem.state,
         NEW decision, Decided(t, decision)
  PROVE  RejectInv' /\ RejectKept
<1>1. CASE FixOrGiveUp(t)
  BY <1>1, FixKeepsRejects
<1>2. CASE Go("accept") /\ mem' = t /\ UNCHANGED disk
  <2>1. w'.pc = "accept"
    BY <1>2 DEF Go, TypeOK, Worker
  <2> QED
    BY <1>2, <2>1 DEF RejectInv, RejectKept, Approved
<1> QED
  BY <1>1, <1>2 DEF Decided

LEMMA ReviewKeepsRejects ==
  ASSUME TypeOK, RejectInv, \/ ReviewReused \/ ReviewCompletes \/ ReviewFails
                            \/ ReviewKilled \/ AcceptancePasses \/ AcceptanceFails \/ StartFix
  PROVE  RejectInv' /\ RejectKept
<1> USE ChoicesAssumption DEF operatorVars, vaultVars, orderVars, history, judgements
<1>1. mem \in Task /\ w \in Worker /\ w.revision \in 0..MaxRevisions /\ mem.run \in 0..MaxRuns
  <2>1. mem \in Task /\ w \in Worker
    BY DEF TypeOK
  <2> QED
    BY <2>1, BoundsAssumption DEF Worker, Task
<1>2. UNCHANGED <<cancel, copy, published>> /\ w.pc \in {"review", "accept", "fix"}
  BY DEF ReviewReused, ReviewCompletes, ReviewFails, ReviewKilled, AcceptancePasses,
         AcceptanceFails, StartFix
<1>3. CASE ReviewReused
  BY <1>1, <1>2, <1>3, DecidedKeepsRejects DEF ReviewReused
<1>4. CASE ReviewCompletes
  <2>1. PICK decision \in {"PASS", "NEEDS_FIX"} :
          Decided([mem EXCEPT !.last_review = [decision |-> decision,
                     revision |-> w.revision, run |-> mem.run]], decision)
    BY <1>4 DEF ReviewCompletes
  <2> DEFINE review == [decision |-> decision, revision |-> w.revision, run |-> mem.run]
             t == [mem EXCEPT !.last_review = review]
  <2>2. review \in Review
    BY <1>1 DEF Review
  <2> HIDE DEF review
  <2>3. t \in Task /\ t.formal = mem.formal /\ t.state = mem.state
    BY <1>1, <2>2 DEF Task
  <2>4. Decided(t, decision)
    BY <2>1 DEF review
  <2> QED
    BY <1>2, <2>3, <2>4, DecidedKeepsRejects
<1>5. CASE ReviewFails
  <2>1. PICK c \in Faults \union {"NONE"} : Raise(mem, c)
    BY <1>5 DEF ReviewFails
  <2>2. c \in Errors
    BY DEF Errors, Categories
  <2> QED
    BY <1>1, <1>2, <2>1, <2>2, RaisedKeepsRejects
<1>6. CASE ReviewKilled
  <2>1. Raise(mem, "RUN_CANCELLED") /\ "RUN_CANCELLED" \in Errors
    BY <1>6 DEF ReviewKilled, Errors
  <2> QED
    BY <1>1, <1>2, <2>1, RaisedKeepsRejects
<1>7. CASE AcceptancePasses
  <2>1. /\ disk' = mem'
        /\ \/ w'.pc = "candidate" /\ mem' = [mem EXCEPT !.state = "GOVERNANCE_PENDING"]
           \/ w'.pc = "returned" /\ mem' = [mem EXCEPT !.state = "COMPLETED"]
    BY <1>1, <1>7 DEF AcceptancePasses, Return, Save, Go, Worker
  <2>2. /\ mem'.formal = mem.formal
        /\ \/ w'.pc = "candidate" /\ mem'.state = "GOVERNANCE_PENDING"
           \/ w'.pc = "returned" /\ mem'.state = "COMPLETED"
    BY <1>1, <2>1 DEF Task
  <2> QED
    BY <1>2, <2>1, <2>2, SavedKeepsRejects DEF Approved
<1>8. CASE AcceptanceFails
  BY <1>1, <1>2, <1>8, FixKeepsRejects DEF AcceptanceFails
<1>9. CASE StartFix
  <2>1. disk' = mem' /\ w'.pc = "author" /\ mem' = [mem EXCEPT !.state = "FIX_RUNNING"]
    BY <1>1, <1>9 DEF StartFix, Save, Go, Worker
  <2>2. mem'.formal = mem.formal /\ mem'.state = "FIX_RUNNING"
    BY <1>1, <2>1 DEF Task
  <2> QED
    BY <1>2, <2>1, <2>2, SavedKeepsRejects DEF Approved
<1> QED
  BY <1>3, <1>4, <1>5, <1>6, <1>7, <1>8, <1>9

\* The formal review's own step is the only one that sets the verdict, and it
\* sets none over another.
LEMMA GovernanceKeepsRejects ==
  ASSUME TypeOK, RejectInv,
         \/ TargetConflict \/ BridgeFails \/ CreateCandidate \/ ReuseCandidate
         \/ FormalReview \/ FormalRefused \/ ApplyVerdict \/ CompletePublish \/ Settle
  PROVE  RejectInv' /\ RejectKept
<1> USE ChoicesAssumption DEF operatorVars, vaultVars, orderVars, history, judgements
<1>1. mem \in Task /\ w \in Worker
  BY DEF TypeOK
<1>2. /\ UNCHANGED <<cancel, copy, published>>
      /\ w.pc \in {"candidate", "formal", "refused", "publish", "verdict", "settle", "complete"}
  BY DEF TargetConflict, BridgeFails, CreateCandidate, ReuseCandidate, FormalReview,
         FormallyReviewed, FormalRefused, ApplyVerdict, CompletePublish, Settle
<1>3. ASSUME NEW c \in ByMessage \union Faults \union {"NONE", "KILLED", "TRANSIENT_FAULT"},
             Raise(mem, c)
      PROVE  RejectInv' /\ RejectKept
  <2>1. c \in Errors
    BY DEF ByMessage, Errors, Categories
  <2> QED
    BY <1>1, <1>2, <1>3, <2>1, RaisedKeepsRejects
<1>4. ASSUME NEW s \in {"FAILED", "WAITING_HUMAN", "COMPLETED"},
             Return([mem EXCEPT !.state = s]),
             s = "WAITING_HUMAN" => mem.formal = "approve"
      PROVE  RejectInv' /\ RejectKept
  <2>1. disk' = mem' /\ w'.pc = "returned" /\ mem' = [mem EXCEPT !.state = s]
    BY <1>1, <1>4 DEF Return, Save, Go, Worker
  <2>2. mem'.formal = mem.formal /\ mem'.state = s
    BY <1>1, <2>1 DEF Task
  <2> QED
    BY <1>2, <1>4, <2>1, <2>2, SavedKeepsRejects DEF Approved
<1>5. ASSUME mem.formal = "approve", Save([mem EXCEPT !.state = "PUBLISHING"]), Go("complete")
      PROVE  RejectInv' /\ RejectKept
  <2>1. /\ disk' = mem' /\ w'.pc = "complete" /\ mem'.formal = mem.formal
    BY <1>1, <1>5 DEF Save, Go, Worker, Task
  <2> QED
    BY <1>2, <1>5, <2>1, SavedKeepsRejects DEF Approved
<1>6. CASE TargetConflict
  BY <1>4, <1>6 DEF TargetConflict
<1>7. CASE BridgeFails
  BY <1>3, <1>7 DEF BridgeFails
<1>8. CASE CreateCandidate
  <2>1. CASE Raise(mem, "TRANSIENT_FAULT")
    BY <1>3, <2>1
  <2>2. CASE Save([mem EXCEPT !.candidate_id = Len(candidates) + 1]) /\ Go("formal")
    <3>1. /\ disk' = mem' /\ w'.pc = "formal"
          /\ mem' = [mem EXCEPT !.candidate_id = Len(candidates) + 1]
      BY <1>1, <2>2 DEF Save, Go, Worker
    <3>2. mem'.formal = mem.formal /\ mem'.state = mem.state
      BY <1>1, <3>1 DEF Task
    <3>3. mem.state = "GOVERNANCE_PENDING"
      BY <1>8 DEF CreateCandidate, RejectInv
    <3> QED
      BY <1>2, <3>1, <3>2, <3>3, SavedKeepsRejects DEF Approved
  <2> QED
    BY <1>8, <2>1, <2>2 DEF CreateCandidate
<1>9. CASE ReuseCandidate
  <2>1. w'.pc = "formal" /\ w.pc = "candidate" /\ UNCHANGED <<disk, mem>>
    BY <1>1, <1>9 DEF ReuseCandidate, Go, Worker
  <2> QED
    BY <1>2, <2>1 DEF RejectInv, RejectKept, Approved
<1>10. CASE FormalReview
  <2>1. mem.state = "GOVERNANCE_PENDING" /\ w.pc = "formal"
    BY <1>10 DEF FormalReview, FormallyReviewed, RejectInv
  <2>2. CASE mem.formal = "approve" /\ Go("publish") /\ UNCHANGED <<disk, mem>>
    <3>1. w'.pc = "publish"
      BY <1>1, <2>2 DEF Go, Worker
    <3> QED
      BY <1>2, <2>1, <2>2, <3>1 DEF RejectInv, RejectKept, Approved
  <2>3. CASE /\ mem.formal \in {"none", "other"}
             /\ Save([mem EXCEPT !.formal = "approve"]) /\ Go("publish")
    <3>1. disk' = mem' /\ w'.pc = "publish" /\ mem'.formal = "approve"
      BY <1>1, <2>3 DEF Save, Go, Worker, Task
    <3> QED
      BY <1>2, <2>1, <2>3, <3>1 DEF RejectInv, RejectKept, Approved
  <2>4. ASSUME mem.formal \in {"none", "other"}, NEW f \in {"reject", "other"},
               Save([mem EXCEPT !.formal = f]), Go("refused")
        PROVE  RejectInv' /\ RejectKept
    <3>1. disk' = mem' /\ mem'.formal = f /\ mem'.state = mem.state /\ w'.pc = "refused"
      BY <1>1, <2>4 DEF Save, Go, Worker, Task
    <3> QED
      BY <1>2, <2>1, <2>4, <3>1 DEF RejectInv, RejectKept, Approved
  <2>6. CASE Go("refused") /\ UNCHANGED <<disk, mem>>
    <3>1. w'.pc = "refused"
      BY <1>1, <2>6 DEF Go, Worker
    <3> QED
      BY <1>2, <2>1, <2>6, <3>1 DEF RejectInv, RejectKept, Approved
  <2>5. CASE \E c \in ByMessage \union Faults \union {"NONE", "KILLED", "TRANSIENT_FAULT"} :
               Raise(mem, c)
    BY <1>3, <2>5
  <2> QED
    BY <1>10, <2>2, <2>3, <2>4, <2>5, <2>6 DEF FormalReview, FormallyReviewed
<1>11. CASE ApplyVerdict
  <2>1. mem.formal = "approve"
    BY <1>11 DEF ApplyVerdict, RejectInv
  <2> QED
    BY <1>4, <1>5, <1>11, <2>1 DEF ApplyVerdict
<1>12. CASE CompletePublish
  BY <1>4, <1>12 DEF CompletePublish
<1>13. CASE Settle
  <2>1. mem.formal = "approve"
    BY <1>13 DEF Settle, RejectInv
  <2>2. CASE Go("publish") /\ UNCHANGED <<disk, mem>>
    <3>1. w'.pc = "publish"
      BY <1>1, <2>2 DEF Go, Worker
    <3> QED
      BY <1>2, <2>1, <2>2, <3>1 DEF RejectInv, RejectKept, Approved
  <2>3. CASE Save([mem EXCEPT !.state = "PUBLISHING"]) /\ Go("complete")
    BY <1>5, <2>1, <2>3
  <2>4. CASE Save([mem EXCEPT !.published_flag = FALSE]) /\ Go("publish")
    <3>1. disk' = mem' /\ w'.pc = "publish" /\ mem'.formal = mem.formal
      BY <1>1, <2>4 DEF Save, Go, Worker, Task
    <3> QED
      BY <1>2, <2>1, <3>1, SavedKeepsRejects DEF Approved
  <2> QED
    BY <1>13, <2>2, <2>3, <2>4 DEF Settle
<1>14. CASE FormalRefused
  BY <1>3, <1>14 DEF FormalRefused
<1> QED
  BY <1>6, <1>7, <1>8, <1>9, <1>10, <1>11, <1>12, <1>13, <1>14

\* The vault is asked to publish only with an approve in the copy, and then
\* there is no reject in the file.
LEMMA PublishKeepsRejects ==
  ASSUME TypeOK, TypeOK', RejectInv, Publish \/ PublishUnanswered
  PROVE  RejectInv' /\ RejectKept
<1> USE DEF operatorVars, vaultVars, orderVars, history, judgements
<1>1. mem \in Task /\ w \in Worker /\ w.pc = "publish" /\ mem.formal = "approve"
  BY DEF TypeOK, Publish, PublishUnanswered, RejectInv
<1>2. disk.formal # "reject" /\ UNCHANGED <<cancel, copy>>
  BY <1>1 DEF RejectInv, Publish, PublishUnanswered
<1>3. CASE Publish
  <2>1. PICK v \in Verdicts :
          /\ Save(IF v = "rejected" THEN mem
                  ELSE [mem EXCEPT !.published_flag = (v = "published")])
          /\ w' = [w EXCEPT !.pc = "verdict", !.verdict = v]
    BY <1>3 DEF Publish
  <2>2. disk' = mem' /\ mem'.formal = "approve" /\ w'.pc = "verdict"
    BY <1>1, <2>1 DEF Save, Task, Worker
  <2> QED
    BY <1>2, <2>2 DEF RejectInv, RejectKept, Approved
<1>4. CASE PublishUnanswered
  <2>1. Raise(mem, "TRANSIENT_FAULT") /\ "TRANSIENT_FAULT" \in Errors
    BY <1>4 DEF PublishUnanswered, Errors, Categories
  <2>2. w'.pc \in {"idle", "returned"}
    BY <1>1, <2>1, Raised
  <2>3. Approved(disk') /\ Approved(mem') /\ (disk'.formal = "reject" => FALSE)
    <3>1. disk \in Task
      BY DEF TypeOK
    <3>2. \A c : Failed(mem, c).formal = "approve"
      BY <1>1 DEF Failed, Task
    <3>3. [mem EXCEPT !.state = "CANCELLED", !.retryable = FALSE].formal = "approve"
      BY <1>1 DEF Task
    <3>4. CASE LoopCatches(mem, "TRANSIENT_FAULT") \/ ExecuteCatches(mem, "TRANSIENT_FAULT")
      <4>1. disk' = mem' /\ (mem' = disk \/ mem'.formal = "approve")
        BY <1>1, <3>2, <3>3, <3>4 DEF LoopCatches, ExecuteCatches, Return, Save
      <4> QED
        BY <1>2, <4>1 DEF RejectInv, Approved
    <3>5. CASE CallerCatches
      <4>1. /\ mem' = NewTask /\ disk'.formal = disk.formal
            /\ disk'.state \in {disk.state, "FAILED"}
        BY <3>1, <3>5 DEF CallerCatches, Task
      <4> QED
        BY <1>2, <4>1 DEF RejectInv, Approved, NewTask
    <3> QED
      BY <2>1, <3>4, <3>5 DEF Raise
  <2> QED
    BY <1>2, <2>2, <2>3 DEF RejectInv, RejectKept
<1> QED
  BY <1>3, <1>4

LEMMA RecoveryKeepsRejects ==
  ASSUME TypeOK, RejectInv, Recover \/ ResumeTask
  PROVE  RejectInv' /\ RejectKept
<1> USE DEF operatorVars, vaultVars, orderVars, history, judgements
<1>1. disk \in Task
  BY DEF TypeOK
<1>2. UNCHANGED <<cancel, copy, published>> /\ w.pc = "idle"
  BY DEF Recover, RecoverGovernance, RecoverFix, RecoverReview, RecoverInterrupted, ResumeTask
<1>3. \A step \in Steps : Recovering(step).pc = step /\ Recovering(step) \in Worker
  <2>1. "recover" \in {"none", "run", "resume", "recover"}
    OBVIOUS
  <2> QED
    BY <2>1, NewTypes DEF Recovering, Worker
<1>4. CASE RecoverGovernance
  <2>1. /\ UNCHANGED disk /\ mem' = disk
        /\ \/ w'.pc = "candidate" /\ disk.state = "GOVERNANCE_PENDING"
           \/ w'.pc = "settle" /\ disk.state \in {"PUBLISHING", "WAITING_HUMAN"}
    BY <1>3, <1>4 DEF RecoverGovernance, Steps
  <2> QED
    BY <1>2, <2>1 DEF RejectInv, RejectKept, Approved
<1>5. CASE RecoverFix
  <2>1. "author" \in Steps
    BY DEF Steps
  <2>2. w'.pc = "author" /\ disk' = mem' /\ mem' = [disk EXCEPT !.state = "AUTHOR_RUNNING"]
    BY <1>3, <1>5, <2>1 DEF RecoverFix, Save, Worker
  <2>3. mem'.formal = disk.formal /\ mem'.state = "AUTHOR_RUNNING"
    BY <1>1, <2>2 DEF Task
  <2> QED
    BY <1>2, <2>2, <2>3 DEF RejectInv, RejectKept, Approved
<1>6. CASE RecoverReview
  <2> DEFINE revision == IF disk.review_revision = 0 THEN disk.revisions_used
                                                    ELSE disk.review_revision
             reuse == /\ disk.state = "REVIEW_RUNNING" /\ ReviewPersisted(disk)
                      /\ disk.last_review.revision = revision
  <2>1. "review" \in Steps
    BY DEF Steps
  <2>2. /\ Save([disk EXCEPT !.state = "REVIEW_RUNNING", !.review_revision = revision])
        /\ w' = [Recovering("review") EXCEPT !.frame = "loop", !.revision = revision,
                                             !.reuse = reuse]
    BY <1>6 DEF RecoverReview
  <2> HIDE DEF revision, reuse
  <2>3. w'.pc = "review" /\ disk' = mem'
    BY <1>3, <2>1, <2>2 DEF Save, Worker
  <2>4. mem'.formal = disk.formal /\ mem'.state = "REVIEW_RUNNING"
    BY <1>1, <2>2 DEF Save, Task
  <2> QED
    BY <1>2, <2>3, <2>4 DEF RejectInv, RejectKept, Approved
<1>7. CASE RecoverInterrupted
  <2>1. /\ UNCHANGED <<mem, w>> /\ disk'.formal = disk.formal /\ disk'.state = disk.state
    BY <1>1, <1>7 DEF RecoverInterrupted, Task
  <2> QED
    BY <1>2, <2>1 DEF RejectInv, RejectKept, Approved
<1>8. CASE ResumeTask
  <2>1. UNCHANGED disk /\ mem' = disk /\ w'.pc = "settle" /\ disk.state = "WAITING_HUMAN"
    BY <1>8 DEF ResumeTask, Idle
  <2> QED
    BY <1>2, <2>1 DEF RejectInv, RejectKept, Approved
<1> QED
  BY <1>4, <1>5, <1>6, <1>7, <1>8 DEF Recover

\* The operator's commands but the CLI's write, and a crash.
LEMMA OperatorKeepsRejects ==
  ASSUME TypeOK, RejectInv, CancelTask \/ Shutdown \/ CliCancel \/ CliReread \/ Crash
  PROVE  RejectInv' /\ RejectKept
<1> USE DEF operatorVars, vaultVars, orderVars, history, judgements
<1>1. disk \in Task
  BY DEF TypeOK
<1>2. /\ disk'.formal = disk.formal /\ disk'.state \in {disk.state, "CANCELLED"}
      /\ UNCHANGED published
  BY <1>1 DEF CancelTask, Shutdown, CliCancel, CliReread, Crash, CancelledOnDisk, Task
<1>3. CASE CliReread
  BY <1>2, <1>3 DEF CliReread, RejectInv, RejectKept, Approved
<1>4. CASE CancelTask \/ Shutdown \/ CliCancel
  <2>1. UNCHANGED <<mem, w, copy>> /\ (cancel' = "read" => cancel = "read")
    BY <1>4 DEF CancelTask, Shutdown, CliCancel
  <2> QED
    BY <1>2, <2>1 DEF RejectInv, RejectKept, Approved
<1>5. CASE Crash
  BY <1>2, <1>5 DEF Crash, Idle, NewTask, RejectInv, RejectKept, Approved
<1> QED
  BY <1>3, <1>4, <1>5

\* The CLI's write loses at most a verdict of a task it cancels.
LEMMA CliWriteKeepsRejects ==
  ASSUME TypeOK, RejectInv, CliWrite
  PROVE  RejectInv' /\ disk'.state = "CANCELLED" /\ UNCHANGED published
<1> USE DEF operatorVars, vaultVars, orderVars, history, judgements
<1>1. disk'.state = "CANCELLED" /\ disk'.formal = copy.formal
  BY DEF CliWrite, TypeOK, Task
<1>2. disk'.formal = "reject" => disk.formal = "reject"
  BY <1>1 DEF CliWrite, RejectInv
<1> QED
  BY <1>1, <1>2 DEF CliWrite, RejectInv, Approved

LEMMA StepsKeepRejects ==
  ASSUME TypeOK, TypeOK', RejectInv, Next
  PROVE  /\ RejectInv'
         /\ RejectKept \/ (disk'.state = "CANCELLED" /\ UNCHANGED published)
<1>1. CASE Dispatch
  BY <1>1, ScheduleKeepsRejects
<1>2. CASE Work
  BY <1>2, ScheduleKeepsRejects, AuthorKeepsRejects, ReviewKeepsRejects,
     GovernanceKeepsRejects, PublishKeepsRejects DEF Work
<1>3. CASE Recover \/ ResumeTask
  BY <1>3, RecoveryKeepsRejects
<1>4. CASE Operator \/ Crash
  BY <1>4, OperatorKeepsRejects, CliWriteKeepsRejects DEF Operator
<1> QED
  BY <1>1, <1>2, <1>3, <1>4 DEF Next

LEMMA RejectsHold == Spec => []RejectInv
<1>1. TypeInv /\ TypeInv' /\ RejectInv /\ [Next]_vars => RejectInv'
  <2>1. TypeInv /\ TypeInv' /\ RejectInv /\ Next => RejectInv'
    BY StepsKeepRejects DEF TypeInv
  <2>2. RejectInv /\ UNCHANGED vars => RejectInv'
    BY DEF vars, operatorVars, RejectInv, Approved
  <2> QED
    BY <2>1, <2>2
<1> QED
  BY <1>1, InitRejects, TypesHold, PTL DEF Spec

\* Nothing but the two outcomes of a publish call changes what is published.
LEMMA OthersPublishNothing ==
  ASSUME [Next]_vars, published' # published
  PROVE  Publish \/ PublishUnanswered
<1> USE DEF vars, operatorVars, vaultVars, orderVars, history, judgements
<1>1. ~UNCHANGED vars
  OBVIOUS
<1>2. ~(Dispatch \/ Execute \/ Retry \/ Fallback \/ EndChain)
  BY DEF Dispatch, Execute, Retry, Fallback, EndChain
<1>3. ~(AuthorCompletes \/ AuthorFails \/ AuthorKilled)
  BY DEF AuthorCompletes, AuthorFails, AuthorKilled
<1>4. ~(\/ ReviewReused \/ ReviewCompletes \/ ReviewFails \/ ReviewKilled
        \/ AcceptancePasses \/ AcceptanceFails \/ StartFix)
  BY DEF ReviewReused, ReviewCompletes, ReviewFails, ReviewKilled, AcceptancePasses,
         AcceptanceFails, StartFix
<1>5. ~(\/ TargetConflict \/ BridgeFails \/ CreateCandidate \/ ReuseCandidate
        \/ FormalReview \/ FormalRefused \/ ApplyVerdict \/ CompletePublish \/ Settle)
  BY DEF TargetConflict, BridgeFails, CreateCandidate, ReuseCandidate, FormalReview,
         FormallyReviewed, FormalRefused, ApplyVerdict, CompletePublish, Settle
<1>6. ~(Recover \/ ResumeTask \/ Operator \/ Crash)
  BY DEF Recover, RecoverGovernance, RecoverFix, RecoverReview, RecoverInterrupted,
         ResumeTask, Operator, CancelTask, Shutdown, CliCancel, CliReread, CliWrite, Crash
<1> QED
  BY <1>1, <1>2, <1>3, <1>4, <1>5, <1>6 DEF Next, Work

\* The vault is asked to publish with an approve in the copy only.
LEMMA ApprovedArePublished ==
  ASSUME RejectInv, [Next]_vars, published' # published
  PROVE  mem.formal = "approve"
  BY OthersPublishNothing DEF RejectInv, Publish, PublishUnanswered

\* A formal reject that reaches the file stays in it, and the vault publishes
\* nothing more: whatever is retried, recovered, resumed or crashes.  Only the
\* CLI's cancel, which writes back a record it read earlier, can lose it, and
\* it leaves the task cancelled.  And whatever the reviewer's words are, the
\* vault publishes with an approval in the record only.
THEOREM RejectsAreFinal == Spec => RejectIsFinal
<1>1. TypeInv /\ TypeInv' /\ RejectInv /\ [Next]_vars =>
        [/\ disk.formal = "reject" =>
              /\ published' = published
              /\ disk'.formal = "reject" \/ disk'.state = "CANCELLED"
         /\ published' # published => mem.formal = "approve"]_vars
  BY StepsKeepRejects, ApprovedArePublished DEF TypeInv, RejectKept
<1> QED
  BY <1>1, TypesHold, RejectsHold, PTL DEF Spec, RejectIsFinal

-----------------------------------------------------------------------------
(***************************************************************************)
(* The run budget.  The invariant counts the runs of a dispatched chain    *)
(* against its place in the retry budget (Spent) and in the attempt        *)
(* (Allowed), and says of every other chain that its record is at rest, so *)
(* that recovery and resume can only settle with the vault: without that,  *)
(* a recovered review or fix would make runs nobody counts.                *)
(***************************************************************************)

\* The runs an executor may be asked for, and those that the attempts before
\* the current one may have made.
PerExecutor == MaxRevisions * (Retries + 1)
Spent == PerExecutor * (Fallbacks - w.fallbacks) + MaxRevisions * w.attempt

\* Multiples are naturals, and grow with their factor.
LEMMA Multiples ==
  /\ \A k, a \in Nat : k * a \in Nat /\ k * (a + 1) = k * a + k
  /\ \A k, a, b \in Nat : a <= b => k * a <= k * b
<1>1. \A k, a \in Nat : k * a \in Nat /\ k * (a + 1) = k * a + k
  OBVIOUS
<1>2. ASSUME NEW k \in Nat, NEW a \in Nat, NEW b \in Nat, a <= b PROVE k * a <= k * b
  <2>1. b - a \in Nat /\ b = a + (b - a)
    BY <1>2
  <2>2. k * (b - a) \in Nat
    BY <1>1, <2>1
  <2>3. k * b = k * a + k * (b - a)
    BY <2>1
  <2> QED
    BY <1>1, <2>2, <2>3
<1> QED
  BY <1>1, <1>2

\* The attempts before this one leave room for it, whatever executor it is on.
LEMMA SpentLemma ==
  ASSUME TypeOK
  PROVE  /\ Spent \in Nat /\ PerExecutor \in Nat
         /\ Spent + MaxRevisions <= PerExecutor * (Fallbacks - w.fallbacks) + PerExecutor
         /\ Spent + MaxRevisions <= PerExecutor * (Fallbacks + 1)
<1>1. /\ MaxRevisions \in Nat /\ Retries \in Nat /\ Fallbacks \in Nat
      /\ w.attempt \in Nat /\ w.attempt + 1 <= Retries + 1
      /\ Fallbacks - w.fallbacks \in Nat /\ (Fallbacks - w.fallbacks) + 1 <= Fallbacks + 1
  <2>1. w.attempt \in 0..Retries /\ w.fallbacks \in 0..Fallbacks
    BY DEF TypeOK, Worker
  <2> QED
    BY <2>1, BoundsAssumption
<1> DEFINE used == Fallbacks - w.fallbacks
<1>2. PerExecutor \in Nat
  BY <1>1, Multiples DEF PerExecutor
<1>3. PerExecutor * used \in Nat /\ MaxRevisions * w.attempt \in Nat
  BY <1>1, <1>2, Multiples
<1>4. MaxRevisions * w.attempt + MaxRevisions <= PerExecutor
  <2>1. MaxRevisions * (w.attempt + 1) <= MaxRevisions * (Retries + 1)
    BY <1>1, Multiples
  <2>2. MaxRevisions * (w.attempt + 1) = MaxRevisions * w.attempt + MaxRevisions
    BY <1>1, Multiples
  <2> QED
    BY <2>1, <2>2 DEF PerExecutor
<1>5. PerExecutor * used + PerExecutor <= PerExecutor * (Fallbacks + 1)
  <2>1. PerExecutor * (used + 1) <= PerExecutor * (Fallbacks + 1)
    BY <1>1, <1>2, Multiples
  <2>2. PerExecutor * (used + 1) = PerExecutor * used + PerExecutor
    BY <1>1, <1>2, Multiples
  <2> QED
    BY <2>1, <2>2
<1>6. Spent = PerExecutor * used + MaxRevisions * w.attempt
  BY DEF Spent
<1> DEFINE a == PerExecutor * used
           b == MaxRevisions * w.attempt
           c == PerExecutor * (Fallbacks + 1)
<1>7. c \in Nat
  BY <1>1, <1>2, Multiples
<1> HIDE DEF a, b, c
<1>8. a \in Nat /\ b \in Nat /\ Spent = a + b /\ b + MaxRevisions <= PerExecutor
      /\ a + PerExecutor <= c
  BY <1>3, <1>4, <1>5, <1>6 DEF a, b, c
<1>9. Spent \in Nat /\ Spent + MaxRevisions <= a + PerExecutor /\ Spent + MaxRevisions <= c
  BY <1>1, <1>2, <1>7, <1>8
<1> QED
  BY <1>2, <1>9 DEF a, c

\* A retry moves the runs of its attempt to those before, and so does a fallback.
LEMMA SpentGrows ==
  ASSUME TypeOK, TypeOK'
  PROVE  /\ w'.attempt = w.attempt /\ w'.fallbacks = w.fallbacks => Spent' = Spent
         /\ w'.attempt = w.attempt + 1 /\ w'.fallbacks = w.fallbacks
              => Spent' = Spent + MaxRevisions
         /\ w'.fallbacks < w.fallbacks => Spent + MaxRevisions <= Spent'
<1>1. /\ MaxRevisions \in Nat /\ Retries \in Nat /\ Fallbacks \in Nat
      /\ w.attempt \in Nat /\ w'.attempt \in Nat /\ w.fallbacks \in Nat /\ w'.fallbacks \in Nat
      /\ Fallbacks - w.fallbacks \in Nat /\ Fallbacks - w'.fallbacks \in Nat
  <2>1. w.attempt \in 0..Retries /\ w.fallbacks \in 0..Fallbacks
    BY DEF TypeOK, Worker
  <2>2. w'.attempt \in 0..Retries /\ w'.fallbacks \in 0..Fallbacks
    BY DEF TypeOK, Worker
  <2> QED
    BY <2>1, <2>2, BoundsAssumption
<1>2. PerExecutor \in Nat /\ Spent \in Nat
  BY SpentLemma
<1>3. ASSUME w'.attempt = w.attempt + 1, w'.fallbacks = w.fallbacks
      PROVE  Spent' = Spent + MaxRevisions
  <2> DEFINE a == PerExecutor * (Fallbacks - w.fallbacks)
             b == MaxRevisions * w.attempt
  <2>1. MaxRevisions * (w.attempt + 1) = b + MaxRevisions
    BY <1>1, Multiples
  <2>2. a \in Nat /\ b \in Nat
    BY <1>1, <1>2, Multiples
  <2>3. Spent = a + b
    BY DEF Spent
  <2>4. Spent' = a + (b + MaxRevisions)
    BY <1>3, <2>1 DEF Spent, PerExecutor
  <2> HIDE DEF a, b
  <2> QED
    BY <1>1, <2>2, <2>3, <2>4
<1>4. ASSUME w'.fallbacks < w.fallbacks PROVE Spent + MaxRevisions <= Spent'
  <2> DEFINE a == PerExecutor * (Fallbacks - w.fallbacks)
             c == PerExecutor * (Fallbacks - w'.fallbacks)
             b == MaxRevisions * w'.attempt
  <2>1. /\ (Fallbacks - w.fallbacks) + 1 <= Fallbacks - w'.fallbacks
        /\ (Fallbacks - w.fallbacks) + 1 \in Nat
    BY <1>1, <1>4
  <2>2. PerExecutor * ((Fallbacks - w.fallbacks) + 1) <= c
    BY <1>1, <1>2, <2>1, Multiples
  <2>3. PerExecutor * ((Fallbacks - w.fallbacks) + 1) = a + PerExecutor
    BY <1>1, <1>2, Multiples
  <2>4. a \in Nat /\ b \in Nat /\ c \in Nat
    BY <1>1, <1>2, Multiples
  <2>5. Spent' = c + b
    BY DEF Spent, PerExecutor
  <2>6. Spent + MaxRevisions <= a + PerExecutor
    BY SpentLemma
  <2>7. a + PerExecutor <= c
    BY <2>2, <2>3
  <2> HIDE DEF a, b, c
  <2> QED
    BY <1>1, <1>2, <2>4, <2>5, <2>6, <2>7
<1>5. w'.attempt = w.attempt /\ w'.fallbacks = w.fallbacks => Spent' = Spent
  BY DEF Spent, PerExecutor
<1> QED
  BY <1>3, <1>4, <1>5

\* A record at rest: no recovery starts another author run from it.
Over(t) ==
  \/ t.state \in Terminal \union {"WAITING_HUMAN", "PUBLISHING"}
  \/ t.state = "AUTHOR_RUNNING" /\ t.status # "completed"

LoopSteps == {"review", "accept", "fix", "candidate", "formal", "refused", "publish",
              "verdict", "complete"}
SettleSteps == {"settle", "publish", "verdict", "complete", "returned"}

\* The runs the current attempt may have made when the chain is at this step.
Allowed ==
  CASE w.pc = "dispatch" -> 0
    [] w.pc \in {"author", "fix"} -> w.revision - 1
    [] w.pc \in {"review", "accept"} -> w.revision
    [] OTHER -> MaxRevisions

\* The chain of a dispatched task.
RunStep ==
  /\ w.pc \in {"dispatch", "author", "returned"} \union LoopSteps
  /\ w.pc \in LoopSteps => w.frame = "loop"
  /\ w.pc = "author" => w.frame = "loop" \/ (w.frame = "execute" /\ mem.state = "AUTHOR_RUNNING")
  /\ w.pc = "returned" => Over(disk) /\ Over(mem)
  /\ runs <= Spent + Allowed

\* Nobody drives the task: it has not been dispatched, or is at rest.
RestStep ==
  /\ w.pc = "idle"
  /\ Over(disk) \/ (disk.state = "CREATED" /\ runs = 0)

\* A recovered or resumed chain only settles.
SettleStep == w.pc \in SettleSteps /\ Over(disk) /\ Over(mem)

RunCore ==
  /\ RunBudget
  /\ w.job = "run" => RunStep
  /\ w.job = "none" => RestStep
  /\ w.job \in {"resume", "recover"} => SettleStep

RunInv == crashes = 0 => RunCore

\* No step allows more runs than the budget has revisions.
LEMMA AllowedLemma ==
  ASSUME TypeOK
  PROVE  Allowed \in Nat /\ Allowed <= MaxRevisions
<1>1. /\ MaxRevisions \in Nat \ {0} /\ w.revision \in Nat /\ w.revision >= 1
      /\ w.revision <= MaxRevisions
  <2>1. w.revision \in 1..MaxRevisions
    BY DEF TypeOK, Worker
  <2> QED
    BY <2>1, BoundsAssumption
<1> QED
  BY <1>1 DEF Allowed

\* SpentLemma, as a fact of every state.
LEMMA SpentIsNat == TypeOK => Spent \in Nat
  BY SpentLemma

\* A chain that has made no more runs than its steps allow is within the budget.
LEMMA WithinBudget == TypeOK /\ runs <= Spent + Allowed => RunBudget
<1> SUFFICES ASSUME TypeOK, runs <= Spent + Allowed PROVE RunBudget
  OBVIOUS
<1>1. MaxRevisions \in Nat /\ Spent \in Nat /\ Allowed \in Nat /\ Allowed <= MaxRevisions
      /\ runs \in Nat
  BY SpentLemma, AllowedLemma, BoundsAssumption DEF TypeOK
<1>2. Spent + MaxRevisions <= PerExecutor * (Fallbacks + 1)
  BY SpentLemma
<1> DEFINE all == PerExecutor * (Fallbacks + 1)
<1>3. all \in Nat
  BY SpentLemma, Multiples, BoundsAssumption
<1>4. all = MaxRevisions * (Retries + 1) * (Fallbacks + 1)
  BY DEF PerExecutor
<1> HIDE DEF all
<1>5. runs <= all
  BY <1>1, <1>2, <1>3 DEF all
<1> QED
  BY <1>4, <1>5 DEF RunBudget

\* A new task has made no run.
LEMMA RunInvInit == Init => RunInv
<1> SUFFICES ASSUME Init PROVE RunInv
  OBVIOUS
<1>1. w.job = "none" /\ w.pc = "idle" /\ disk.state = "CREATED" /\ runs = 0
  BY DEF Init, Idle, NewTask
<1>2. MaxRevisions * (Retries + 1) * (Fallbacks + 1) \in Nat
  BY Multiples, BoundsAssumption
<1>3. RunBudget
  BY <1>1, <1>2 DEF RunBudget
<1> QED
  BY <1>1, <1>3 DEF RunInv, RunCore, RestStep

\* The next state of a dispatched chain is as it should be.
LEMMA RunStepSuffices ==
  ASSUME TypeInv', w'.job = "run", RunStep'
  PROVE  RunInv'
<1>1. TypeOK'
  BY DEF TypeInv
<1>2. RunBudget'
  BY <1>1, WithinBudget, PTL DEF RunStep
<1> QED
  BY <1>2 DEF RunInv, RunCore

\* What reaches a handler leaves the chain returned with a record at rest, or ends it.
LEMMA RaisedEnds ==
  ASSUME TypeOK, NEW t \in Task, NEW e, Raise(t, e), w.frame = "execute" => Over(t)
  PROVE  \/ w' = [w EXCEPT !.pc = "returned"] /\ Over(disk') /\ Over(mem')
         \/ /\ w.frame = "continue" /\ w' = Idle
            /\ Over(disk) => Over(disk')
<1>1. \A r : Return(r) => w' = [w EXCEPT !.pc = "returned"] /\ disk' = r /\ mem' = r
  BY DEF Return, Save, Go
<1>2. \A c : Over(Failed(t, c))
  BY DEF Over, Failed, Terminal, Task
<1>3. disk.state = "CANCELLED" => Over(disk)
  BY DEF Over, Terminal
<1>4. CASE LoopCatches(t, e)
  BY <1>1, <1>2, <1>3, <1>4 DEF LoopCatches
<1>5. CASE ExecuteCatches(t, e)
  <2>1. Over([t EXCEPT !.state = "CANCELLED", !.retryable = FALSE])
    BY DEF Over, Terminal, Task
  <2>2. CASE Interrupted(e)
    BY <1>1, <1>5, <2>2 DEF ExecuteCatches
  <2>3. CASE ~Interrupted(e) /\ e = "RUN_CANCELLED"
    BY <1>1, <1>5, <2>1, <2>3 DEF ExecuteCatches
  <2>4. CASE ~Interrupted(e) /\ e # "RUN_CANCELLED" /\ disk.state = "CANCELLED"
    BY <1>1, <1>3, <1>5, <2>4 DEF ExecuteCatches
  <2>5. CASE ~Interrupted(e) /\ e # "RUN_CANCELLED" /\ disk.state # "CANCELLED"
    BY <1>1, <1>2, <1>5, <2>5 DEF ExecuteCatches
  <2> QED
    BY <2>2, <2>3, <2>4, <2>5
<1>6. CASE CallerCatches
  <2>1. w.frame = "continue" /\ w' = Idle
    BY <1>6 DEF CallerCatches
  <2>2. disk' = disk \/ disk' = [disk EXCEPT !.state = "FAILED"]
    BY <1>6 DEF CallerCatches
  <2>3. Over([disk EXCEPT !.state = "FAILED"])
    BY DEF Over, Terminal, Task, TypeOK
  <2> QED
    BY <2>1, <2>2, <2>3
<1> QED
  BY <1>4, <1>5, <1>6 DEF Raise

\* A chain that returns with a record at rest, or ends, keeps the invariant.
LEMMA EndedKeepsRuns ==
  ASSUME TypeInv, TypeInv', RunInv, crashes' = crashes,
         runs' = runs \/ (w.job = "run" /\ w.pc = "author" /\ runs' = runs + 1),
         w.job # "none",
         w.job = "run" => w.pc \in {"author"} \union LoopSteps,
         \/ w' = [w EXCEPT !.pc = "returned"] /\ Over(disk') /\ Over(mem')
         \/ w.frame = "continue" /\ w' = Idle /\ (Over(disk) => Over(disk'))
  PROVE  RunInv'
<1> SUFFICES ASSUME crashes = 0 PROVE RunInv'
  BY DEF RunInv
<1>1. RunCore /\ TypeOK /\ TypeOK' /\ w \in Worker /\ w' \in Worker
  BY DEF RunInv, TypeInv, TypeOK
<1>2. w.job \in {"run", "resume", "recover"}
  BY <1>1 DEF Worker
<1>3. CASE w.job = "run"
  <2>1. RunStep
    BY <1>1, <1>3 DEF RunCore
  <2>2. w.frame # "continue"
    BY <1>3, <2>1 DEF RunStep
  <2>3. w' = [w EXCEPT !.pc = "returned"] /\ Over(disk') /\ Over(mem')
    BY <2>2
  <2>4. /\ w'.job = "run" /\ w'.pc = "returned" /\ w'.attempt = w.attempt
        /\ w'.fallbacks = w.fallbacks
    BY <1>1, <1>3, <2>3 DEF Worker
  <2>5. Spent' = Spent /\ Allowed' = MaxRevisions
    BY <1>1, <2>4, SpentGrows DEF Allowed
  <2>6. runs' <= Spent + MaxRevisions
    <3>1. /\ Spent \in Nat /\ MaxRevisions \in Nat /\ runs \in Nat /\ Allowed \in Nat
          /\ Allowed <= MaxRevisions /\ runs <= Spent + Allowed
      BY <1>1, <2>1, SpentLemma, AllowedLemma, BoundsAssumption DEF TypeOK, RunStep
    <3>2. w.revision \in Nat /\ w.revision <= MaxRevisions
      BY <1>1, BoundsAssumption DEF Worker
    <3>3. w.pc = "author" => Allowed = w.revision - 1
      BY DEF Allowed
    <3> QED
      BY <3>1, <3>2, <3>3
  <2>7. RunStep'
    BY <2>3, <2>4, <2>5, <2>6 DEF RunStep, LoopSteps
  <2> QED
    BY <2>4, <2>7, RunStepSuffices
<1>4. CASE w.job \in {"resume", "recover"}
  <2>1. SettleStep /\ RunBudget /\ runs' = runs
    BY <1>1, <1>4 DEF RunCore
  <2>2. RunBudget'
    BY <2>1 DEF RunBudget
  <2>3. CASE w' = [w EXCEPT !.pc = "returned"] /\ Over(disk') /\ Over(mem')
    <3>1. w'.job = w.job /\ w'.pc = "returned"
      BY <1>1, <2>3 DEF Worker
    <3> QED
      BY <1>4, <2>2, <2>3, <3>1 DEF RunInv, RunCore, SettleStep, SettleSteps
  <2>4. CASE w' = Idle /\ (Over(disk) => Over(disk'))
    BY <2>1, <2>2, <2>4 DEF RunInv, RunCore, SettleStep, RestStep, Idle
  <2> QED
    BY <2>3, <2>4
<1> QED
  BY <1>2, <1>3, <1>4

\* The same for an action that ends in a handler, with the record it threw.
LEMMA RaisedKeepsRuns ==
  ASSUME TypeInv, TypeInv', RunInv, crashes' = crashes,
         runs' = runs \/ (w.pc = "author" /\ runs' = runs + 1),
         w.pc \in {"author", "settle"} \union LoopSteps,
         NEW t \in Task, NEW e, Raise(t, e),
         \/ w.pc # "author" /\ t = mem
         \/ w.pc = "author" /\ t.state = mem.state /\ t.status # "completed"
  PROVE  RunInv'
<1> SUFFICES ASSUME crashes = 0 PROVE RunInv'
  BY DEF RunInv
<1>1. RunCore /\ TypeOK /\ w.job \in {"none", "run", "resume", "recover"}
  BY DEF RunInv, TypeInv, TypeOK, Worker
<1>2. w.job # "none"
  BY <1>1 DEF RunCore, RestStep, LoopSteps
<1>3. CASE w.job = "run"
  <2>1. RunStep
    BY <1>1, <1>3 DEF RunCore
  <2>2. w.pc \in {"author"} \union LoopSteps
    BY <2>1 DEF RunStep
  <2>3. w.frame = "execute" => Over(t)
    BY <2>1, <2>2 DEF RunStep, Over
  <2> QED
    BY <1>1, <1>3, <2>2, <2>3, RaisedEnds, EndedKeepsRuns
<1>4. CASE w.job \in {"resume", "recover"}
  <2>1. SettleStep
    BY <1>1, <1>4 DEF RunCore
  <2>2. w.pc # "author" /\ Over(t)
    BY <2>1 DEF SettleStep, SettleSteps
  <2> QED
    BY <1>1, <1>2, <1>4, <2>2, RaisedEnds, EndedKeepsRuns
<1> QED
  BY <1>1, <1>2, <1>3, <1>4

\* The scheduler's actions.
LEMMA ScheduleKeepsRuns ==
  ASSUME TypeInv, TypeInv', RunInv, Dispatch \/ Execute \/ Retry \/ Fallback \/ EndChain
  PROVE  RunInv'
<1> SUFFICES ASSUME crashes = 0 PROVE RunInv'
  BY DEF RunInv, Dispatch, Execute, Retry, Fallback, EndChain, orderVars
<1>1. /\ RunCore /\ TypeOK /\ TypeOK' /\ w \in Worker /\ w' \in Worker /\ disk \in Task
      /\ mem \in Task
  BY DEF RunInv, TypeInv, TypeOK
<1>2. runs' = runs /\ crashes' = crashes
  BY DEF Dispatch, Execute, Retry, Fallback, EndChain, orderVars
<1>3. /\ MaxRevisions \in Nat /\ Spent \in Nat /\ Spent' \in Nat /\ runs \in Nat
      /\ Allowed \in Nat /\ Allowed <= MaxRevisions
  <2>1. Spent' \in Nat
    <3>1. TypeOK'
      BY <1>1
    <3>2. (Spent \in Nat)'
      BY <3>1, SpentIsNat, PTL
    <3> QED
      BY <3>2
  <2>2. MaxRevisions \in Nat /\ runs \in Nat
    BY <1>1, BoundsAssumption DEF TypeOK
  <2>3. Spent \in Nat /\ Allowed \in Nat /\ Allowed <= MaxRevisions
    BY <1>1, SpentLemma, AllowedLemma
  <2> QED
    BY <2>1, <2>2, <2>3
<1>4. CASE Dispatch
  <2>1. /\ w'.job = "run" /\ w'.pc = "dispatch" /\ w'.attempt = 0 /\ w'.fallbacks = Fallbacks
    BY <1>4 DEF Dispatch, Idle
  <2>2. w.job = "none"
    BY <1>1, <1>4 DEF Dispatch, RunCore, RunStep, SettleStep, SettleSteps, LoopSteps, Worker
  <2>3. runs = 0
    BY <1>1, <1>4, <2>2 DEF Dispatch, RunCore, RestStep, Over, Terminal
  <2>4. runs' <= Spent' + Allowed'
    BY <1>2, <1>3, <2>1, <2>3 DEF Allowed
  <2> QED
    BY <2>1, <2>4, RunStepSuffices DEF RunStep, LoopSteps
<1>5. CASE Execute
  <2>1. w.job = "run" /\ RunStep
    BY <1>1, <1>5 DEF Execute, RunCore, RestStep, SettleStep, SettleSteps, Worker
  <2>2. Allowed = 0
    BY <1>5 DEF Execute, Allowed
  <2>3. CASE Return(disk) /\ disk.state = "CANCELLED"
    <3>1. /\ w'.pc = "returned" /\ w'.job = "run" /\ w'.attempt = w.attempt
          /\ w'.fallbacks = w.fallbacks /\ Over(disk') /\ Over(mem')
      BY <1>1, <2>1, <2>3 DEF Return, Save, Go, Worker, Over, Terminal
    <3>2. runs' <= Spent' + Allowed'
      BY <1>1, <1>2, <1>3, <2>1, <2>2, <3>1, SpentGrows DEF RunStep, Allowed
    <3> QED
      BY <3>1, <3>2, RunStepSuffices DEF RunStep, LoopSteps
  <2>4. CASE Return(Failed(disk, "ENVIRONMENT_FAULT"))
    <3>1. /\ w'.pc = "returned" /\ w'.job = "run" /\ w'.attempt = w.attempt
          /\ w'.fallbacks = w.fallbacks /\ Over(disk') /\ Over(mem')
      BY <1>1, <2>1, <2>4 DEF Return, Save, Go, Worker, Over, Terminal, Failed, Task
    <3>2. runs' <= Spent' + Allowed'
      BY <1>1, <1>2, <1>3, <2>1, <2>2, <3>1, SpentGrows DEF RunStep, Allowed
    <3> QED
      BY <3>1, <3>2, RunStepSuffices DEF RunStep, LoopSteps
  <2>5. CASE /\ Save([disk EXCEPT !.state = "AUTHOR_RUNNING"])
             /\ w' = [w EXCEPT !.pc = "author", !.frame = "execute", !.revision = 1,
                               !.reuse = FALSE]
    <3>1. /\ w'.pc = "author" /\ w'.job = "run" /\ w'.attempt = w.attempt
          /\ w'.fallbacks = w.fallbacks /\ w'.frame = "execute" /\ w'.revision = 1
          /\ mem'.state = "AUTHOR_RUNNING"
      BY <1>1, <2>1, <2>5 DEF Save, Worker, Task
    <3>2. runs' <= Spent' + Allowed'
      BY <1>1, <1>2, <1>3, <2>1, <2>2, <3>1, SpentGrows DEF RunStep, Allowed
    <3> QED
      BY <3>1, <3>2, RunStepSuffices DEF RunStep, LoopSteps
  <2> QED
    BY <1>5, <2>3, <2>4, <2>5 DEF Execute
<1>6. CASE Retry
  <2>1. /\ w'.pc = "dispatch" /\ w'.job = "run" /\ w'.attempt = w.attempt + 1
        /\ w'.fallbacks = w.fallbacks
    BY <1>1, <1>6 DEF Retry, Worker
  <2>2. RunStep
    BY <1>1, <1>6 DEF Retry, RunCore
  <2>3. runs' <= Spent' + Allowed'
    BY <1>1, <1>2, <1>3, <2>1, <2>2, SpentGrows DEF RunStep, Allowed
  <2> QED
    BY <2>1, <2>3, RunStepSuffices DEF RunStep, LoopSteps
<1>7. CASE Fallback
  <2>1. PICK left \in 0..(w.fallbacks - 1) :
          w' = [w EXCEPT !.pc = "dispatch", !.attempt = 0, !.fallbacks = left]
    BY <1>7 DEF Fallback
  <2>2. w'.pc = "dispatch" /\ w'.job = "run" /\ w'.fallbacks < w.fallbacks
    <3>1. w.fallbacks \in Nat
      BY <1>1, BoundsAssumption DEF Worker
    <3>2. w.job = "run"
      BY <1>7 DEF Fallback
    <3>3. w'.pc = "dispatch" /\ w'.job = "run" /\ w'.fallbacks = left
      BY <1>1, <2>1, <3>2 DEF Worker
    <3> QED
      BY <3>1, <3>3
  <2>3. RunStep
    BY <1>1, <1>7 DEF Fallback, RunCore
  <2>4. runs' <= Spent' + Allowed'
    BY <1>1, <1>2, <1>3, <2>2, <2>3, SpentGrows DEF RunStep, Allowed
  <2> QED
    BY <2>2, <2>4, RunStepSuffices DEF RunStep, LoopSteps
<1>8. CASE EndChain
  <2>1. w'.job = "none" /\ w'.pc = "idle"
    BY <1>8 DEF EndChain, Idle
  <2>2. Over(disk) /\ Over(mem)
    BY <1>1, <1>8 DEF EndChain, RunCore, RunStep, RestStep, SettleStep, Worker
  <2>3. Over(disk') /\ RunBudget'
    BY <1>1, <1>2, <1>8, <2>2 DEF EndChain, RunCore, RunBudget
  <2> QED
    BY <2>1, <2>3 DEF RunInv, RunCore, RestStep
<1> QED
  BY <1>4, <1>5, <1>6, <1>7, <1>8

\* The author's actions.
LEMMA AuthorKeepsRuns ==
  ASSUME TypeInv, TypeInv', RunInv, AuthorCompletes \/ AuthorFails \/ AuthorKilled
  PROVE  RunInv'
<1>1. /\ w.pc = "author" /\ runs' = runs + 1 /\ crashes' = crashes
      /\ TypeOK /\ TypeOK' /\ mem \in Task /\ w \in Worker
  BY DEF AuthorCompletes, AuthorFails, AuthorKilled, TypeInv, TypeOK
<1>2. runs + 1 \in 0..MaxRuns
  BY <1>1 DEF TypeOK
<1>3. CASE AuthorCompletes
  <2> SUFFICES ASSUME crashes = 0 PROVE RunInv'
    BY <1>1 DEF RunInv
  <2>1. w.job = "run" /\ RunStep
    BY <1>1 DEF RunInv, RunCore, RestStep, SettleStep, SettleSteps, Worker
  <2>2. /\ w'.pc = "review" /\ w'.frame = "loop" /\ w'.job = "run"
        /\ w'.attempt = w.attempt /\ w'.fallbacks = w.fallbacks /\ w'.revision = w.revision
    BY <1>1, <1>3, <2>1 DEF AuthorCompletes, EnterReview, Worker
  <2>3. runs' <= Spent' + Allowed'
    <3>1. w.revision \in Nat /\ runs \in Nat
      BY <1>1, BoundsAssumption DEF Worker, TypeOK
    <3>2. Spent \in Nat /\ Spent' = Spent
      BY <1>1, <2>2, SpentLemma, SpentGrows
    <3>3. Allowed = w.revision - 1 /\ Allowed' = w.revision
      BY <1>1, <2>2 DEF Allowed
    <3> QED
      BY <1>1, <2>1, <3>1, <3>2, <3>3 DEF RunStep
  <2> QED
    BY <2>2, <2>3, RunStepSuffices DEF RunStep, LoopSteps
<1>4. CASE AuthorFails
  <2>1. PICK c \in Faults : Raise([mem EXCEPT !.run = runs + 1, !.status = "failed",
                                    !.error = c, !.retryable = (c = "TRANSIENT_FAULT")], c)
    BY <1>4 DEF AuthorFails
  <2> DEFINE t == [mem EXCEPT !.run = runs + 1, !.status = "failed",
                              !.error = c, !.retryable = (c = "TRANSIENT_FAULT")]
  <2>2. c \in Categories
    BY ChoicesAssumption
  <2>3. t \in Task /\ t.state = mem.state /\ t.status # "completed"
    BY <1>1, <1>2, <2>2 DEF Task
  <2> HIDE DEF t
  <2> QED
    BY <1>1, <2>1, <2>3, RaisedKeepsRuns DEF t
<1>5. CASE AuthorKilled
  <2> DEFINE t == [mem EXCEPT !.run = runs + 1, !.status = "cancelled"]
  <2>1. t \in Task /\ t.state = mem.state /\ t.status # "completed"
    BY <1>1, <1>2 DEF Task
  <2>2. Raise(t, "RUN_CANCELLED")
    BY <1>5 DEF AuthorKilled
  <2> HIDE DEF t
  <2> QED
    BY <1>1, <2>1, <2>2, RaisedKeepsRuns
<1> QED
  BY <1>3, <1>4, <1>5

\* One more revision, or the end: only the chain of a dispatched task gets here.
LEMMA FixKeepsRuns ==
  ASSUME TypeInv, TypeInv', RunInv, UNCHANGED <<runs, crashes>>, w.pc \in {"review", "accept"},
         NEW t \in Task, FixOrGiveUp(t)
  PROVE  RunInv'
<1> SUFFICES ASSUME crashes = 0 PROVE RunInv'
  BY DEF RunInv
<1>1. TypeOK /\ TypeOK' /\ w \in Worker /\ RunCore
  BY DEF RunInv, TypeInv, TypeOK
<1>2. w.job = "run" /\ RunStep
  BY <1>1 DEF RunCore, RestStep, SettleStep, SettleSteps, Worker
<1>3. CASE w.revision >= MaxRevisions
  <2>1. Return([t EXCEPT !.state = "FAILED"])
    BY <1>3 DEF FixOrGiveUp
  <2>2. w' = [w EXCEPT !.pc = "returned"] /\ Over(disk') /\ Over(mem')
    BY <2>1 DEF Return, Save, Go, Over, Terminal, Task
  <2> QED
    BY <1>2, <2>2, EndedKeepsRuns DEF LoopSteps
<1>4. CASE ~(w.revision >= MaxRevisions)
  <2>1. w' = [w EXCEPT !.pc = "fix", !.revision = w.revision + 1]
    BY <1>4 DEF FixOrGiveUp
  <2>2. /\ w'.pc = "fix" /\ w'.frame = w.frame /\ w'.job = "run"
        /\ w'.attempt = w.attempt /\ w'.fallbacks = w.fallbacks
        /\ w'.revision = w.revision + 1
    BY <1>1, <1>2, <2>1 DEF Worker
  <2>3. runs' <= Spent' + Allowed'
    <3>1. w.revision \in Nat /\ runs \in Nat
      BY <1>1, BoundsAssumption DEF Worker, TypeOK
    <3>2. Spent \in Nat /\ Spent' = Spent
      BY <1>1, <2>2, SpentLemma, SpentGrows
    <3>3. Allowed = w.revision /\ Allowed' = w.revision
      BY <2>2, <3>1 DEF Allowed
    <3> QED
      BY <1>2, <3>1, <3>2, <3>3 DEF RunStep
  <2>4. w.frame = "loop"
    BY <1>2 DEF RunStep, LoopSteps
  <2> QED
    BY <2>2, <2>3, <2>4, RunStepSuffices DEF RunStep, LoopSteps
<1> QED
  BY <1>3, <1>4

\* The chain goes on, by a step that makes no run and allows no fewer.
LEMMA GoneOnKeepsRuns ==
  ASSUME TypeInv, TypeInv', RunInv, UNCHANGED <<runs, crashes>>, w.pc # "idle",
         NEW step \in {"author"} \union (LoopSteps \ {"review"}), Go(step),
         w.job # "run" => /\ step \in {"publish", "verdict", "complete"}
                          /\ Over(disk) => Over(disk')
                          /\ Over(mem) => Over(mem'),
         w.job = "run" => /\ w.pc \in LoopSteps
                          /\ step \in {"author", "fix"} => w.pc = "fix"
                          /\ step = "accept" => w.pc = "review"
  PROVE  RunInv'
<1> SUFFICES ASSUME crashes = 0 PROVE RunInv'
  BY DEF RunInv
<1>1. TypeOK /\ TypeOK' /\ w \in Worker /\ w' \in Worker /\ RunCore
  BY DEF RunInv, TypeInv, TypeOK
<1>2. /\ w'.pc = step /\ w'.frame = w.frame /\ w'.job = w.job /\ w'.attempt = w.attempt
      /\ w'.fallbacks = w.fallbacks /\ w'.revision = w.revision
  BY <1>1 DEF Go, Worker
<1>3. CASE w.job = "run"
  <2>1. RunStep /\ w.frame = "loop"
    BY <1>1, <1>3 DEF RunCore, RunStep
  <2>2. runs' <= Spent' + Allowed'
    <3>1. w.revision \in Nat /\ runs \in Nat /\ MaxRevisions \in Nat
          /\ w.revision <= MaxRevisions
      BY <1>1, BoundsAssumption DEF Worker, TypeOK
    <3>2. Spent \in Nat /\ Spent' = Spent
      BY <1>1, <1>2, SpentLemma, SpentGrows
    <3>3. Allowed <= Allowed' /\ Allowed \in Nat /\ Allowed' \in Nat
      BY <1>1, <1>2, <1>3, <3>1, AllowedLemma DEF Allowed, LoopSteps
    <3>4. runs <= Spent + Allowed
      BY <2>1 DEF RunStep
    <3>5. runs <= Spent + Allowed'
      <4>1. \A a, b, c, s \in Nat : a <= s + b /\ b <= c => a <= s + c
        OBVIOUS
      <4> QED
        BY <3>1, <3>2, <3>3, <3>4, <4>1
    <3> QED
      BY <3>2, <3>5
  <2> QED
    BY <1>2, <1>3, <2>1, <2>2, RunStepSuffices DEF RunStep, LoopSteps
<1>4. CASE w.job # "run"
  <2>1. w.job \in {"resume", "recover"} /\ SettleStep /\ RunBudget
    BY <1>1, <1>4 DEF RunCore, RestStep, Worker
  <2>2. RunBudget' /\ SettleStep'
    BY <1>2, <1>4, <2>1 DEF RunBudget, SettleStep, SettleSteps
  <2> QED
    BY <1>2, <2>1, <2>2 DEF RunInv, RunCore
<1> QED
  BY <1>3, <1>4

\* Review, acceptance and the start of a fix.
LEMMA ReviewKeepsRuns ==
  ASSUME TypeInv, TypeInv', RunInv,
         \/ ReviewReused \/ ReviewCompletes \/ ReviewFails \/ ReviewKilled
         \/ AcceptancePasses \/ AcceptanceFails \/ StartFix
  PROVE  RunInv'
<1> SUFFICES ASSUME crashes = 0 PROVE RunInv'
  BY DEF RunInv, ReviewReused, ReviewCompletes, ReviewFails, ReviewKilled, AcceptancePasses,
         AcceptanceFails, StartFix, orderVars
<1>1. /\ UNCHANGED <<runs, crashes>> /\ w.pc \in {"review", "accept", "fix"}
      /\ mem \in Task /\ w \in Worker /\ RunCore
  BY DEF ReviewReused, ReviewCompletes, ReviewFails, ReviewKilled, AcceptancePasses,
         AcceptanceFails, StartFix, orderVars, RunInv, TypeInv, TypeOK
<1>2. w.job = "run" /\ RunStep
  BY <1>1 DEF RunCore, RestStep, SettleStep, SettleSteps, Worker
<1>3. ASSUME w.pc = "review", NEW t \in Task, NEW decision, Decided(t, decision)
      PROVE  RunInv'
  <2>1. CASE FixOrGiveUp(t)
    BY <1>1, <1>3, <2>1, FixKeepsRuns
  <2>2. CASE Go("accept")
    BY <1>1, <1>2, <1>3, <2>2, GoneOnKeepsRuns DEF LoopSteps
  <2> QED
    BY <1>3, <2>1, <2>2 DEF Decided
<1>4. CASE ReviewReused
  BY <1>1, <1>3, <1>4 DEF ReviewReused
<1>5. CASE ReviewCompletes
  <2>1. PICK decision \in {"PASS", "NEEDS_FIX"} :
          Decided([mem EXCEPT !.last_review = [decision |-> decision,
                     revision |-> w.revision, run |-> mem.run]], decision)
    BY <1>5 DEF ReviewCompletes
  <2>2. w.revision \in 0..MaxRevisions /\ mem.run \in 0..MaxRuns
    BY <1>1, BoundsAssumption DEF Worker, Task
  <2>3. [decision |-> decision, revision |-> w.revision, run |-> mem.run] \in Review
    BY <2>2 DEF Review
  <2>4. [mem EXCEPT !.last_review = [decision |-> decision,
           revision |-> w.revision, run |-> mem.run]] \in Task
    BY <1>1, <2>3 DEF Task
  <2> QED
    BY <1>3, <1>5, <2>1, <2>4 DEF ReviewCompletes
<1>6. CASE ReviewFails
  BY <1>1, <1>6, RaisedKeepsRuns DEF ReviewFails, LoopSteps
<1>7. CASE ReviewKilled
  BY <1>1, <1>7, RaisedKeepsRuns DEF ReviewKilled, LoopSteps
<1>8. CASE AcceptancePasses
  <2>1. CASE Governed
    BY <1>1, <1>2, <1>8, <2>1, GoneOnKeepsRuns DEF AcceptancePasses, LoopSteps
  <2>2. CASE ~Governed
    <3>1. Return([mem EXCEPT !.state = "COMPLETED"])
      BY <1>8, <2>2 DEF AcceptancePasses
    <3>2. w' = [w EXCEPT !.pc = "returned"] /\ Over(disk') /\ Over(mem')
      BY <1>1, <3>1 DEF Return, Save, Go, Over, Terminal, Task
    <3> QED
      BY <1>1, <1>2, <3>2, EndedKeepsRuns DEF LoopSteps
  <2> QED
    BY <2>1, <2>2
<1>9. CASE AcceptanceFails
  BY <1>1, <1>9, FixKeepsRuns DEF AcceptanceFails
<1>10. CASE StartFix
  BY <1>1, <1>2, <1>10, GoneOnKeepsRuns DEF StartFix, LoopSteps
<1> QED
  BY <1>4, <1>5, <1>6, <1>7, <1>8, <1>9, <1>10

\* The governance actions: those a settling chain takes too keep its record at rest.
LEMMA GovernanceKeepsRuns ==
  ASSUME TypeInv, TypeInv', RunInv,
         \/ TargetConflict \/ BridgeFails \/ CreateCandidate \/ ReuseCandidate
         \/ FormalReview \/ FormalRefused \/ Publish \/ PublishUnanswered
         \/ ApplyVerdict \/ CompletePublish \/ Settle
  PROVE  RunInv'
<1> SUFFICES ASSUME crashes = 0 PROVE RunInv'
  BY DEF RunInv, TargetConflict, BridgeFails, CreateCandidate, ReuseCandidate, FormalReview,
         FormallyReviewed, FormalRefused, Publish, PublishUnanswered, ApplyVerdict,
         CompletePublish, Settle, orderVars
<1>1. /\ UNCHANGED <<runs, crashes>>
      /\ w.pc \in {"candidate", "formal", "refused", "publish", "verdict", "complete", "settle"}
      /\ mem \in Task /\ disk \in Task /\ w \in Worker /\ w' \in Worker /\ RunCore
      /\ TypeOK /\ TypeOK'
  BY DEF TargetConflict, BridgeFails, CreateCandidate, ReuseCandidate, FormalReview,
         FormallyReviewed, FormalRefused, Publish, PublishUnanswered, ApplyVerdict,
         CompletePublish, Settle, orderVars, RunInv, TypeInv, TypeOK
<1>2. /\ w.job = "run" => RunStep /\ w.pc # "settle"
      /\ w.job # "run" => SettleStep /\ w.job # "none"
      /\ w.pc \in {"candidate", "formal", "refused"} => w.job = "run"
  BY <1>1 DEF RunCore, RestStep, RunStep, SettleStep, SettleSteps, LoopSteps, Worker
<1>3. ASSUME NEW e, Raise(mem, e) PROVE RunInv'
  BY <1>1, <1>3, RaisedKeepsRuns DEF LoopSteps
<1>4. ASSUME NEW t \in Task, Over(t), Return(t) PROVE RunInv'
  <2>1. w' = [w EXCEPT !.pc = "returned"] /\ Over(disk') /\ Over(mem')
    BY <1>4 DEF Return, Save, Go
  <2> QED
    BY <1>1, <1>2, <2>1, EndedKeepsRuns DEF LoopSteps
<1>5. ASSUME NEW s \in {"FAILED", "WAITING_HUMAN", "PUBLISHING", "COMPLETED"}
      PROVE  [mem EXCEPT !.state = s] \in Task /\ Over([mem EXCEPT !.state = s])
  BY <1>1 DEF Task, TaskStates, Over, Terminal
<1>6. CASE TargetConflict
  BY <1>4, <1>5, <1>6 DEF TargetConflict
<1>7. CASE BridgeFails
  BY <1>3, <1>7 DEF BridgeFails
<1>8. CASE CreateCandidate
  BY <1>1, <1>2, <1>3, <1>8, GoneOnKeepsRuns DEF CreateCandidate, LoopSteps
<1>9. CASE ReuseCandidate
  BY <1>1, <1>2, <1>9, GoneOnKeepsRuns DEF ReuseCandidate, LoopSteps
<1>10. CASE FormalReview
  <2>1. w.pc = "formal" /\ w.job = "run"
    BY <1>2, <1>10 DEF FormalReview, FormallyReviewed
  <2>2. CASE Go("publish") \/ Go("refused")
    BY <1>1, <2>1, <2>2, GoneOnKeepsRuns DEF LoopSteps
  <2>3. CASE \E e : Raise(mem, e)
    BY <1>3, <2>3
  <2> QED
    BY <1>10, <2>2, <2>3 DEF FormalReview, FormallyReviewed
<1>11. CASE Publish
  <2>1. PICK v \in Verdicts :
          /\ Save(IF v = "rejected" THEN mem
                  ELSE [mem EXCEPT !.published_flag = (v = "published")])
          /\ w' = [w EXCEPT !.pc = "verdict", !.verdict = v]
    BY <1>11 DEF Publish
  <2>2. /\ w'.pc = "verdict" /\ w'.job = w.job /\ w'.frame = w.frame
        /\ w'.attempt = w.attempt /\ w'.fallbacks = w.fallbacks
    BY <1>1, <2>1 DEF Worker
  <2>3. disk' = mem' /\ mem'.state = mem.state /\ mem'.status = mem.status
    BY <1>1, <2>1 DEF Save, Task
  <2>4. CASE w.job = "run"
    <3>1. Spent' = Spent /\ Allowed' = Allowed
      <4>1. Allowed = MaxRevisions /\ Allowed' = MaxRevisions
        BY <1>11, <2>2 DEF Publish, Allowed
      <4> QED
        BY <1>1, <2>2, <4>1, SpentGrows
    <3>2. w.frame = "loop" /\ runs' <= Spent' + Allowed'
      BY <1>1, <1>2, <1>11, <2>4, <3>1 DEF RunStep, Publish, LoopSteps
    <3> QED
      BY <2>2, <2>4, <3>2, RunStepSuffices DEF RunStep, LoopSteps
  <2>5. CASE w.job # "run"
    <3>1. SettleStep'
      BY <1>2, <2>2, <2>3, <2>5 DEF SettleStep, SettleSteps, Over
    <3>2. RunBudget'
      BY <1>1 DEF RunCore, RunBudget
    <3> QED
      BY <1>1, <1>2, <2>2, <2>5, <3>1, <3>2 DEF RunInv, RunCore
  <2> QED
    BY <2>4, <2>5
<1>12. CASE PublishUnanswered
  BY <1>3, <1>12 DEF PublishUnanswered
<1>13. CASE ApplyVerdict
  <2>1. CASE w.verdict = "published"
    <3>1. Save([mem EXCEPT !.state = "PUBLISHING"]) /\ Go("complete") /\ w.pc = "verdict"
      BY <1>13, <2>1 DEF ApplyVerdict
    <3>2. Over(disk') /\ Over(mem')
      BY <1>5, <3>1 DEF Save
    <3> QED
      BY <1>1, <3>1, <3>2, GoneOnKeepsRuns DEF LoopSteps
  <2>2. CASE w.verdict # "published"
    <3>1. \/ Return([mem EXCEPT !.state = "WAITING_HUMAN"])
          \/ Return([mem EXCEPT !.state = "FAILED"])
      BY <1>13, <2>2 DEF ApplyVerdict
    <3> QED
      BY <1>4, <1>5, <3>1
  <2> QED
    BY <2>1, <2>2
<1>14. CASE CompletePublish
  BY <1>4, <1>5, <1>14 DEF CompletePublish
<1>15. CASE Settle
  <2>1. w.pc = "settle" /\ w.job # "run"
    BY <1>2, <1>15 DEF Settle
  <2>2. CASE Go("publish") /\ UNCHANGED <<disk, mem>>
    <3>1. Over(disk') = Over(disk) /\ Over(mem') = Over(mem)
      BY <2>2
    <3> QED
      BY <1>1, <2>1, <2>2, <3>1, GoneOnKeepsRuns DEF LoopSteps
  <2>3. CASE Save([mem EXCEPT !.state = "PUBLISHING"]) /\ Go("complete")
    <3>1. Over(disk') /\ Over(mem')
      BY <1>5, <2>3 DEF Save
    <3> QED
      BY <1>1, <2>1, <2>3, <3>1, GoneOnKeepsRuns DEF LoopSteps
  <2>4. CASE Save([mem EXCEPT !.published_flag = FALSE]) /\ Go("publish")
    <3>1. disk' = mem' /\ mem'.state = mem.state /\ mem'.status = mem.status
      BY <1>1, <2>4 DEF Save, Task
    <3>2. Over(disk') /\ Over(mem')
      BY <1>2, <2>1, <3>1 DEF SettleStep, Over
    <3> QED
      BY <1>1, <2>1, <2>4, <3>2, GoneOnKeepsRuns DEF LoopSteps
  <2> QED
    BY <1>15, <2>2, <2>3, <2>4 DEF Settle
<1>16. CASE FormalRefused
  BY <1>3, <1>16 DEF FormalRefused
<1> QED
  BY <1>6, <1>7, <1>8, <1>9, <1>10, <1>11, <1>12, <1>13, <1>14, <1>15, <1>16

\* Recovery and resume: from a task at rest, only the vault is asked.
LEMMA RecoveryKeepsRuns ==
  ASSUME TypeInv, TypeInv', RunInv, Recover \/ ResumeTask
  PROVE  RunInv'
<1> SUFFICES ASSUME crashes = 0 PROVE RunInv'
  BY DEF RunInv, Recover, RecoverGovernance, RecoverFix, RecoverReview, RecoverInterrupted,
         ResumeTask, orderVars
<1>1. /\ UNCHANGED <<runs, crashes>> /\ w.pc = "idle"
      /\ disk \in Task /\ w \in Worker /\ RunCore
  BY DEF Recover, RecoverGovernance, RecoverFix, RecoverReview, RecoverInterrupted,
         ResumeTask, orderVars, RunInv, TypeInv, TypeOK
<1>2. w.job = "none" /\ RestStep /\ RunBudget
  BY <1>1 DEF RunCore, RunStep, LoopSteps, SettleStep, SettleSteps, Worker
<1>3. RunBudget'
  BY <1>1, <1>2 DEF RunBudget
<1>4. ASSUME w'.pc = "settle", w'.job \in {"resume", "recover"}, disk' = disk, mem' = disk,
             disk.state \in {"WAITING_HUMAN", "PUBLISHING"}
      PROVE  RunInv'
  BY <1>3, <1>4 DEF RunInv, RunCore, SettleStep, SettleSteps, Over
<1>5. CASE RecoverGovernance
  <2>1. disk.state \in {"WAITING_HUMAN", "PUBLISHING"} /\ w' = Recovering("settle")
    BY <1>2, <1>5 DEF RecoverGovernance, RestStep, Over, Terminal
  <2> QED
    BY <1>4, <1>5, <2>1 DEF RecoverGovernance, Recovering, Idle
<1>6. ~RecoverFix /\ ~RecoverReview
  BY <1>2 DEF RecoverFix, RecoverReview, FixResumable, ReviewResumable, AuthorPersisted,
              RestStep, Over, Terminal
<1>7. CASE RecoverInterrupted
  <2>1. disk'.state = "AUTHOR_RUNNING" /\ disk'.status = "interrupted" /\ w' = w
    BY <1>1, <1>7 DEF RecoverInterrupted, Task
  <2> QED
    BY <1>2, <1>3, <2>1 DEF RunInv, RunCore, RestStep, Over
<1>8. CASE ResumeTask
  BY <1>4, <1>8 DEF ResumeTask, Idle
<1> QED
  BY <1>5, <1>6, <1>7, <1>8 DEF Recover

\* The operator writes the record only to cancel the task.
LEMMA OperatorKeepsRuns ==
  ASSUME TypeInv, TypeInv', RunInv, Operator
  PROVE  RunInv'
<1> SUFFICES ASSUME crashes = 0 PROVE RunInv'
  BY DEF RunInv, Operator, CancelTask, Shutdown, CliCancel, CliReread, CliWrite, orderVars
<1>1. /\ UNCHANGED <<runs, crashes, mem, w>> /\ disk \in Task /\ copy \in Task /\ RunCore
  BY DEF Operator, CancelTask, Shutdown, CliCancel, CliReread, CliWrite, orderVars, RunInv,
         TypeInv, TypeOK
<1>2. disk' = disk \/ Over(disk')
  <2>1. /\ Over([disk EXCEPT !.state = "CANCELLED"])
        /\ Over([copy EXCEPT !.state = "CANCELLED"])
    BY <1>1 DEF Over, Terminal, Task
  <2> QED
    BY <2>1 DEF Operator, CancelTask, Shutdown, CliCancel, CliReread, CliWrite,
                CancelledOnDisk
<1>3. Spent' = Spent /\ Allowed' = Allowed
  BY <1>1 DEF Spent, Allowed, PerExecutor
<1>4. RunBudget'
  BY <1>1 DEF RunCore, RunBudget
<1>5. (w.job = "run" => RunStep')
  BY <1>1, <1>2, <1>3 DEF RunCore, RunStep, Over
<1>6. (w.job = "none" => RestStep')
  BY <1>1, <1>2 DEF RunCore, RestStep, Over
<1>7. (w.job \in {"resume", "recover"} => SettleStep')
  BY <1>1, <1>2 DEF RunCore, SettleStep, Over
<1> QED
  BY <1>1, <1>4, <1>5, <1>6, <1>7 DEF RunInv, RunCore

\* Every step keeps the invariant; after a crash there is nothing to keep.
LEMMA StepsKeepRuns == TypeInv /\ TypeInv' /\ RunInv /\ [Next]_vars => RunInv'
<1> SUFFICES ASSUME TypeInv, TypeInv', RunInv, [Next]_vars PROVE RunInv'
  OBVIOUS
<1>1. CASE Dispatch \/ Execute \/ Retry \/ Fallback \/ EndChain
  BY <1>1, ScheduleKeepsRuns
<1>2. CASE AuthorCompletes \/ AuthorFails \/ AuthorKilled
  BY <1>2, AuthorKeepsRuns
<1>3. CASE \/ ReviewReused \/ ReviewCompletes \/ ReviewFails \/ ReviewKilled
           \/ AcceptancePasses \/ AcceptanceFails \/ StartFix
  BY <1>3, ReviewKeepsRuns
<1>4. CASE \/ TargetConflict \/ BridgeFails \/ CreateCandidate \/ ReuseCandidate
           \/ FormalReview \/ FormalRefused \/ Publish \/ PublishUnanswered
           \/ ApplyVerdict \/ CompletePublish \/ Settle
  BY <1>4, GovernanceKeepsRuns
<1>5. CASE Recover \/ ResumeTask
  BY <1>5, RecoveryKeepsRuns
<1>6. CASE Operator
  BY <1>6, OperatorKeepsRuns
<1>7. CASE Crash
  <2>1. crashes \in Nat /\ crashes' = crashes + 1
    BY <1>7, BoundsAssumption DEF Crash, TypeInv, TypeOK
  <2> QED
    BY <2>1 DEF RunInv
<1>8. CASE UNCHANGED vars
  <2>1. UNCHANGED <<disk, mem, w, runs, crashes>>
    BY <1>8 DEF vars, orderVars
  <2> QED
    BY <2>1 DEF RunInv, RunCore, RunBudget, RunStep, RestStep, SettleStep, Over, Spent,
                Allowed, PerExecutor
<1> QED
  BY <1>1, <1>2, <1>3, <1>4, <1>5, <1>6, <1>7, <1>8 DEF Next, Work

\* The invariant, at every state of every behaviour.
LEMMA RunsHold == Spec => []RunInv
<1>1. RunInv /\ TypeInv /\ TypeInv' /\ [Next]_vars => RunInv'
  BY StepsKeepRuns
<1> QED
  BY <1>1, RunInvInit, TypesHold, PTL DEF Spec

\* RunBudget, for every revision budget, retry budget and route: while the driving process
\* does not crash, the author runs a dispatched task costs stay within max_revisions for
\* each attempt on each executor, whatever is killed, cancelled, resumed or recovered.
THEOREM RunsAreBounded == Spec => []RunBudget
<1>1. RunInv => RunBudget
  BY DEF RunInv, RunCore, RunBudget
<1> QED
  BY <1>1, RunsHold, PTL
=============================================================================
