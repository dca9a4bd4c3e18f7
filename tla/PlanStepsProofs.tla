---------------------------- MODULE PlanStepsProofs ----------------------------
(***************************************************************************)
(* Proofs about PlanSteps, for every set of plans and files and any number *)
(* of attempts, submissions and crashes.  The first two follow where the   *)
(* driving process stands, whatever a batch contains; the others need to   *)
(* know what a batch is, and follow the content of the files.              *)
(***************************************************************************)
EXTENDS PlanSteps, FiniteSetTheorems, TLAPS

\* Where executors of the attempt may run (in a sequence, one), and where an error has been thrown.
Progress ==
  /\ live # {} => pc \in {"step", "parallel", "cleanup"}
  /\ pc = "step" => \A r, s \in live : r = s
  /\ killed \subseteq live /\ crashes \in Nat
  /\ pc = "catch" \/ (pc = "cleanup" /\ live # {}) => error # "none"

\* After a cancellation that has terminated a step, the record stays CANCELLED,
\* and the chain is on its way to the catch or through it.
Cancelling ==
  stopped /\ crashes = 0 =>
    /\ disk.state = "CANCELLED"
    /\ \/ pc \in {"idle", "dispatch", "returned"}
       \/ pc \in {"catch", "cleanup"} /\ error # "none"
       \/ pc \in {"step", "parallel"} /\ killed # {}

CancelInv == Progress /\ Cancelling

\* An error that is thrown is an error, the first one or an earlier one.
LEMMA Thrown ==
  /\ \A e : e # "none" /\ Throw(e) => error' # "none"
  /\ ThrowSome => error' # "none"
  BY DEF Throw, ThrowSome

\* The driving process' work, and the end of an executor, keep the invariant.
LEMMA WorkKeepsCancelInv ==
  ASSUME CancelInv, Work
  PROVE  CancelInv'
<1> USE DEF CancelInv, Progress, Cancelling, chainVars, runVars, gitVars, bounds, history,
        NonRevivable
<1>1. CASE Execute \/ Refuse
  BY <1>1 DEF Execute, Refuse
<1>2. CASE Retry \/ EndChain
  BY <1>2 DEF Retry, EndChain, MayRetry
<1>3. CASE NextBatch \/ StartSequence \/ EndSequence \/ StartMerge
  BY <1>3 DEF NextBatch, StartSequence, EndSequence, StartMerge
<1>4. CASE StartStep
  BY <1>4 DEF StartStep
<1>5. CASE StartParallel
  BY <1>5, Thrown DEF StartParallel
<1>6. CASE SessionFails
  BY <1>6, Thrown DEF SessionFails
<1>7. CASE EndMerge
  BY <1>7 DEF EndMerge
<1>8. CASE Cleanup
  BY <1>8 DEF Cleanup, Caught
<1>9. CASE Catch
  BY <1>9 DEF Catch, Caught
<1>10. CASE Accept
  BY <1>10, Thrown DEF Accept
<1>11. ASSUME NEW s \in StepNumbers, StepCompletes(s) PROVE CancelInv'
  BY <1>11 DEF StepCompletes
<1>12. ASSUME NEW s \in StepNumbers, ParallelCompletes(s) PROVE CancelInv'
  BY <1>12, Thrown DEF ParallelCompletes
<1>13. ASSUME NEW s \in StepNumbers, StepFails(s) PROVE CancelInv'
  BY <1>13, Thrown DEF StepFails
<1>14. ASSUME NEW s \in StepNumbers, MergeStep(s) PROVE CancelInv'
  BY <1>14, Thrown DEF MergeStep
<1> QED
  BY <1>1, <1>2, <1>3, <1>4, <1>5, <1>6, <1>7, <1>8, <1>9, <1>10, <1>11, <1>12, <1>13,
     <1>14 DEF Work

\* Submissions, cancellations, crashes and the executors' edits keep it too.
LEMMA StepKeepsCancelInv == CancelInv /\ [Next]_vars => CancelInv'
<1> SUFFICES ASSUME CancelInv, [Next]_vars PROVE CancelInv'
  OBVIOUS
<1> USE DEF CancelInv, Progress, Cancelling, chainVars, runVars, gitVars, bounds, history
<1>1. CASE Work
  BY <1>1, WorkKeepsCancelInv
<1>2. CASE Submit
  BY <1>2 DEF Submit
<1>3. CASE Cancel
  <2>1. /\ disk'.state = "CANCELLED" /\ killed' = live
        /\ UNCHANGED <<pc, live, error, crashes>>
        /\ disk.state # "CANCELLED" /\ (stopped' <=> stopped \/ live # {})
    <3>1. disk' = [disk EXCEPT !.state = "CANCELLED", !.retryable = FALSE]
      BY <1>3 DEF Cancel
    <3>2. disk.state # "CANCELLED" /\ (stopped' <=> stopped \/ live # {})
      BY <1>3, Zenon DEF Cancel, Terminal, NonRevivable
    <3> QED
      BY <1>3, <3>1, <3>2 DEF Cancel
  <2> QED
    BY <2>1
<1>4. CASE Crash
  <2>1. crashes' \in Nat \ {0}
    BY <1>4 DEF Crash
  <2> QED
    BY <1>4, <2>1 DEF Crash
<1>5. ASSUME NEW s \in StepNumbers, Edit(s) \/ OrphanEdits(s) \/ OrphanEnds(s) PROVE CancelInv'
  BY <1>5 DEF Edit, OrphanEdits, OrphanEnds
<1>6. CASE UNCHANGED vars
  BY <1>6 DEF vars
<1> QED
  BY <1>1, <1>2, <1>3, <1>4, <1>5, <1>6 DEF Next

\* A cancellation that has terminated a running step is what the record says
\* when the chain is over, whichever of the step's siblings failed first, and
\* however often the task is retried or submitted again.
THEOREM CancellationsHold == Spec => []CancelHolds
<1>1. Init => CancelInv
  BY DEF Init, CancelInv, Progress, Cancelling
<1>2. CancelInv => CancelHolds
  BY DEF CancelInv, Cancelling, CancelHolds
<1> QED
  BY <1>1, <1>2, StepKeepsCancelInv, PTL DEF Spec

-----------------------------------------------------------------------------
(***************************************************************************)
(* Worktrees.                                                              *)
(***************************************************************************)

\* However a chain ends, the worktrees of its batches are gone, unless the
\* process died: cleanupAll is in the finally of a batch.
HermeticCleanup == pc = "idle" /\ crashes = 0 => \A s \in StepNumbers : ~wt[s].on

InBatch == {"parallel", "merge", "cleanup"}

\* There are worktrees only while a parallel batch is under way.
WorktreesInBatch ==
  /\ crashes \in Nat
  /\ wt \in [StepNumbers -> [on : BOOLEAN, base : Content, now : Content, branch : Content]]
  /\ head \in Content
  /\ pc \notin InBatch /\ crashes = 0 => \A s \in StepNumbers : ~wt[s].on

\* Files get contents of the steps' making only.
LEMMA ContentLemma ==
  /\ NoTree \in [on : BOOLEAN, base : Content, now : Content, branch : Content] /\ ~NoTree.on
  /\ Clean \in Content
  /\ \A s \in StepNumbers, c \in Content, f \in Files :
       [c EXCEPT ![f] = @ \union {s}] \in Content
  BY DEF NoTree, Clean, Content

\* A merge joins two contents.
LEMMA MergeLemma ==
  ASSUME WorktreesInBatch, NEW s \in StepNumbers
  PROVE  Merged(s) \in Content
  BY DEF WorktreesInBatch, Content, Merged, Changed

\* Worktrees come with the start of a batch and go with its end.
LEMMA StepKeepsWorktrees == WorktreesInBatch /\ [Next]_vars => WorktreesInBatch'
<1> SUFFICES ASSUME WorktreesInBatch, [Next]_vars PROVE WorktreesInBatch'
  OBVIOUS
<1> USE DEF chainVars, runVars, gitVars, bounds, history
<1>1. ASSUME UNCHANGED <<crashes, wt, head>>, pc' \in InBatch \/ pc \notin InBatch
      PROVE  WorktreesInBatch'
  BY <1>1 DEF WorktreesInBatch
<1>2. CASE \/ Execute \/ Refuse \/ Retry \/ EndChain \/ NextBatch \/ StartSequence \/ StartStep
           \/ EndSequence \/ SessionFails \/ StartMerge \/ EndMerge \/ Catch \/ Accept
           \/ Submit \/ Cancel
  BY <1>1, <1>2
  DEF Execute, Refuse, Retry, EndChain, NextBatch, StartSequence, StartStep, EndSequence,
      SessionFails, StartMerge, EndMerge, Catch, Accept, Submit, Cancel, InBatch
<1>3. CASE StartParallel
  <2>1. /\ pc' \in InBatch /\ UNCHANGED <<crashes, head>>
        /\ wt' = Worktrees(Pending(batch))
    BY <1>3 DEF StartParallel, InBatch
  <2> QED
    BY <2>1 DEF WorktreesInBatch, Worktrees
<1>4. CASE Cleanup
  <2>1. wt' = [s \in StepNumbers |-> NoTree] /\ UNCHANGED <<crashes, head>>
    BY <1>4 DEF Cleanup
  <2> QED
    BY <2>1, ContentLemma DEF WorktreesInBatch
<1>5. ASSUME NEW s \in StepNumbers, NEW f \in Files,
             wt' = [wt EXCEPT ![s].now[f] = @ \union {s}], UNCHANGED <<pc, crashes, head>>
      PROVE  WorktreesInBatch'
  BY <1>5 DEF WorktreesInBatch, Content
<1>6. ASSUME NEW s \in StepNumbers, Edit(s) \/ OrphanEdits(s) \/ OrphanEnds(s)
      PROVE  WorktreesInBatch'
  <2>1. UNCHANGED <<pc, crashes, head>>
    BY <1>6 DEF Edit, OrphanEdits, OrphanEnds
  <2>2. UNCHANGED wt \/ \E f \in Files : wt' = [wt EXCEPT ![s].now[f] = @ \union {s}]
    BY <1>6 DEF Edit, OrphanEdits, OrphanEnds
  <2> QED
    BY <1>1, <1>5, <2>1, <2>2
<1>7. ASSUME NEW s \in StepNumbers, StepCompletes(s) \/ StepFails(s)
      PROVE  WorktreesInBatch'
  BY <1>1, <1>7 DEF StepCompletes, StepFails, InBatch
<1>8. ASSUME NEW s \in StepNumbers, ParallelCompletes(s)
      PROVE  WorktreesInBatch'
  <2>1. pc' \in InBatch /\ UNCHANGED <<crashes, head>>
    BY <1>8 DEF ParallelCompletes, InBatch
  <2>2. wt' = wt \/ wt' = [wt EXCEPT ![s].branch = wt[s].now]
    BY <1>8 DEF ParallelCompletes
  <2> QED
    BY <2>1, <2>2 DEF WorktreesInBatch
<1>9. ASSUME NEW s \in StepNumbers, MergeStep(s)
      PROVE  WorktreesInBatch'
  <2>1. pc' \in InBatch /\ UNCHANGED <<crashes, wt>> /\ (head' = head \/ head' = Merged(s))
    BY <1>9 DEF MergeStep, InBatch
  <2> QED
    BY <2>1, MergeLemma DEF WorktreesInBatch
<1>10. CASE Crash
  <2>1. UNCHANGED <<wt, head>> /\ crashes' \in Nat \ {0}
    BY <1>10 DEF Crash, WorktreesInBatch
  <2> QED
    BY <2>1 DEF WorktreesInBatch
<1>11. CASE UNCHANGED vars
  BY <1>11 DEF vars, WorktreesInBatch
<1> QED
  BY <1>2, <1>3, <1>4, <1>6, <1>7, <1>8, <1>9, <1>10, <1>11 DEF Next, Work

\* Conflicts, failed commits, failed launches and cancellations all leave a
\* batch through the finally that removes its worktrees: only a crash leaves
\* one behind.
THEOREM WorktreesAreRemoved == Spec => []HermeticCleanup
<1>1. Init => WorktreesInBatch
  BY ContentLemma DEF Init, WorktreesInBatch
<1>2. WorktreesInBatch => HermeticCleanup
  BY DEF WorktreesInBatch, HermeticCleanup, InBatch
<1> QED
  BY <1>1, <1>2, StepKeepsWorktrees, PTL DEF Spec

-----------------------------------------------------------------------------
(***************************************************************************)
(* What a batch is.                                                        *)
(***************************************************************************)

\* Any set of naturals that is not empty has a least element.
LEMMA LeastExists ==
  ASSUME NEW S \in SUBSET Nat, S # {}
  PROVE  \E x \in S : \A y \in S : x <= y
<1>1. PICK x \in S : \A y \in S : ~(<<y, x>> \in OpToRel(<, Nat))
  BY NatLessThanWellFounded, WFMin
<1>2. ASSUME NEW y \in S PROVE x <= y
  <2>1. x \in Nat /\ y \in Nat
    OBVIOUS
  <2>2. y < x => <<y, x>> \in OpToRel(<, Nat)
    BY <2>1 DEF OpToRel
  <2>3. ~(<<y, x>> \in OpToRel(<, Nat))
    BY <1>1
  <2>4. ~(y < x)
    BY <2>2, <2>3, Zenon
  <2> QED
    BY <2>1, <2>4
<1> QED
  BY <1>2

\* What holds of 0 and is passed on from n to n + 1 holds of all naturals.
LEMMA NaturalsAreGenerated ==
  ASSUME NEW S \in SUBSET Nat, 0 \in S, \A n \in S : n + 1 \in S
  PROVE  S = Nat
<1> SUFFICES ASSUME Nat \ S # {} PROVE FALSE
  OBVIOUS
<1>1. PICK x \in Nat \ S : \A y \in Nat \ S : x <= y
  BY LeastExists
<1>2. x - 1 \in Nat /\ (x - 1) + 1 = x /\ ~(x <= x - 1)
  <2>1. x \in Nat /\ x # 0
    BY <1>1
  <2> QED
    BY <2>1
<1>3. x - 1 \in S
  BY <1>1, <1>2
<1> QED
  BY <1>2, <1>3

\* The first m values of the iteration of Phi from d.
Iterates(D, d, Phi, m, r) ==
  r \in [0..m -> D] /\ r[0] = d /\ \A n \in 1..m : r[n] = Phi[r[n - 1]]

\* The iteration goes on for ever: a function defined by recursion on the
\* naturals exists.
LEMMA IterationExists ==
  ASSUME NEW D, NEW d \in D, NEW Phi \in [D -> D]
  PROVE  \E f \in [Nat -> D] : f[0] = d /\ \A n \in Nat \ {0} : f[n] = Phi[f[n - 1]]
<1> DEFINE It(m, r) == Iterates(D, d, Phi, m, r)
<1>1. \A m \in Nat : \E r : It(m, r)
  <2> DEFINE S == {m \in Nat : \E r : It(m, r)}
  <2>1. 0 \in S
    <3>1. It(0, [n \in 0..0 |-> d])
      BY DEF Iterates
    <3> QED
      BY <3>1
  <2>2. ASSUME NEW m \in S PROVE m + 1 \in S
    <3>1. PICK r : It(m, r)
      OBVIOUS
    <3> DEFINE q == [n \in 0..(m + 1) |-> IF n = m + 1 THEN Phi[r[m]] ELSE r[n]]
    <3>2. It(m + 1, q)
      BY <3>1 DEF Iterates
    <3> QED
      BY <3>2
  <2> QED
    BY <2>1, <2>2, NaturalsAreGenerated
<1>2. \A n \in Nat : \A j, k \in Nat : \A q, r :
        n <= j /\ n <= k /\ It(j, q) /\ It(k, r) => q[n] = r[n]
  <2> DEFINE S == {n \in Nat : \A j, k \in Nat : \A q, r :
                     n <= j /\ n <= k /\ It(j, q) /\ It(k, r) => q[n] = r[n]}
  <2>1. 0 \in S
    BY DEF Iterates
  <2>2. ASSUME NEW n \in S PROVE n + 1 \in S
    <3> SUFFICES ASSUME NEW j \in Nat, NEW k \in Nat, NEW q, NEW r,
                        n + 1 <= j, n + 1 <= k, It(j, q), It(k, r)
                 PROVE  q[n + 1] = r[n + 1]
      OBVIOUS
    <3>1. q[n] = r[n]
      OBVIOUS
    <3>2. n + 1 \in 1..j /\ n + 1 \in 1..k /\ (n + 1) - 1 = n
      OBVIOUS
    <3> QED
      BY <3>1, <3>2 DEF Iterates
  <2> QED
    BY <2>1, <2>2, NaturalsAreGenerated
<1> DEFINE row(n) == CHOOSE r : Iterates(D, d, Phi, n, r)
           f == [n \in Nat |-> row(n)[n]]
<1>3. ASSUME NEW n \in Nat PROVE Iterates(D, d, Phi, n, row(n))
  BY <1>1
<1>4. ASSUME NEW n \in Nat PROVE f[n] \in D /\ (n = 0 => f[n] = d)
  <2> HIDE DEF row
  <2>1. n \in 0..n
    OBVIOUS
  <2>2. row(n) \in [0..n -> D] /\ row(n)[0] = d
    BY <1>3 DEF Iterates
  <2> QED
    BY <2>1, <2>2
<1>5. ASSUME NEW n \in Nat \ {0} PROVE f[n] = Phi[f[n - 1]]
  <2> HIDE DEF row
  <2>1. n - 1 \in Nat /\ n - 1 <= n /\ n \in 1..n
    OBVIOUS
  <2>2. row(n)[n] = Phi[row(n)[n - 1]]
    BY <1>3, <2>1 DEF Iterates
  <2>3. row(n)[n - 1] = row(n - 1)[n - 1]
    BY <1>2, <1>3, <2>1
  <2> QED
    BY <2>1, <2>2, <2>3
<1>6. f \in [Nat -> D]
  <2> HIDE DEF row
  <2> QED
    BY <1>4
<1> HIDE DEF f
<1> QED
  BY <1>4, <1>5, <1>6

\* The steps of a plan are numbered from 1.
LEMMA PlanShape ==
  ASSUME NEW p \in Plans
  PROVE  /\ Len(p.steps) \in Nat /\ StepsOf(p) = 1..Len(p.steps)
         /\ StepsOf(p) \subseteq StepNumbers /\ StepsOf(p) \subseteq Nat
<1>1. p.steps \in Seq([depends_on : {Undefined} \union SUBSET Nat,
                       parallel_group : {Undefined} \union Nat, isolated : BOOLEAN])
  BY PlansAssumption
<1>2. Len(p.steps) \in Nat /\ DOMAIN p.steps = 1..Len(p.steps)
  BY <1>1
<1> QED
  BY <1>2 DEF StepsOf, StepNumbers

\* Ready is what its recursive definition says.
LEMMA ReadyRecursion ==
  ASSUME NEW p \in Plans
  PROVE  /\ Ready(p)[0] = {}
         /\ \A n \in Nat \ {0} :
              Ready(p)[n] = Ready(p)[n - 1]
                            \union {s \in StepsOf(p) : Needs(p, s) \subseteq Ready(p)[n - 1]}
<1> DEFINE More(before) == before \union {s \in StepsOf(p) : Needs(p, s) \subseteq before}
           Phi == [r \in SUBSET StepsOf(p) |-> More(r)]
           IsReady(f) == f = [n \in Nat |-> IF n = 0 THEN {} ELSE More(f[n - 1])]
<1>1. Phi \in [SUBSET StepsOf(p) -> SUBSET StepsOf(p)] /\ {} \in SUBSET StepsOf(p)
  OBVIOUS
<1>2. \E f : IsReady(f)
  <2>0. \E f \in [Nat -> SUBSET StepsOf(p)] :
          f[0] = {} /\ \A n \in Nat \ {0} : f[n] = Phi[f[n - 1]]
    <3> DEFINE D == SUBSET StepsOf(p)
    <3>1. Phi \in [D -> D] /\ {} \in D
      BY <1>1
    <3> HIDE DEF Phi, D
    <3>2. \E f \in [Nat -> D] : f[0] = {} /\ \A n \in Nat \ {0} : f[n] = Phi[f[n - 1]]
      BY <3>1, IterationExists
    <3> QED
      BY <3>2 DEF D
  <2>1. PICK f \in [Nat -> SUBSET StepsOf(p)] :
          f[0] = {} /\ \A n \in Nat \ {0} : f[n] = Phi[f[n - 1]]
    BY <2>0
  <2>2. ASSUME NEW n \in Nat PROVE f[n] = IF n = 0 THEN {} ELSE More(f[n - 1])
    <3>1. n # 0 => n - 1 \in Nat
      OBVIOUS
    <3>2. n # 0 => f[n - 1] \in SUBSET StepsOf(p)
      BY <2>1, <3>1
    <3> QED
      BY <2>1, <3>2
  <2> QED
    BY <2>1, <2>2
<1>3. IsReady(Ready(p))
  <2>1. Ready(p) = CHOOSE f : IsReady(f)
    BY DEF Ready
  <2> HIDE DEF IsReady
  <2> QED
    BY <1>2, <2>1
<1> QED
  BY <1>3

\* Ready batches hold steps of the plan, and grow.
LEMMA ReadyLemma ==
  ASSUME NEW p \in Plans
  PROVE  /\ \A n \in Nat : Ready(p)[n] \subseteq StepsOf(p)
         /\ \A m, n \in Nat : m <= n => Ready(p)[m] \subseteq Ready(p)[n]
<1> DEFINE S == {n \in Nat : /\ Ready(p)[n] \subseteq StepsOf(p)
                             /\ \A m \in Nat : m <= n => Ready(p)[m] \subseteq Ready(p)[n]}
<1>1. 0 \in S
  BY ReadyRecursion
<1>2. ASSUME NEW n \in S PROVE n + 1 \in S
  <2>1. n + 1 \in Nat \ {0} /\ (n + 1) - 1 = n
    OBVIOUS
  <2>2. Ready(p)[n + 1] = Ready(p)[n] \union {s \in StepsOf(p) : Needs(p, s) \subseteq Ready(p)[n]}
    BY <2>1, ReadyRecursion
  <2>3. \A m \in Nat : m <= n + 1 => m <= n \/ m = n + 1
    OBVIOUS
  <2> QED
    BY <2>1, <2>2, <2>3
<1>3. S = Nat
  <2> HIDE DEF S
  <2>1. S \in SUBSET Nat
    BY DEF S
  <2> QED
    BY <1>1, <1>2, <2>1, NaturalsAreGenerated
<1> QED
  BY <1>3

\* The batches before s.
Before(p, s) == {n \in 0..Len(p.steps) : s \notin Ready(p)[n]}

\* A step that becomes ready does so in a batch of the plan, after every step
\* that it depends on.
LEMMA BeforeLemma ==
  ASSUME NEW p \in Plans, NEW s \in Ready(p)[Len(p.steps)]
  PROVE  /\ IsFiniteSet(Before(p, s))
         /\ Cardinality(Before(p, s)) \in 1..Len(p.steps)
         /\ \A d \in Needs(p, s) :
              /\ d \in Ready(p)[Len(p.steps)]
              /\ Cardinality(Before(p, d)) < Cardinality(Before(p, s))
<1> DEFINE L == Len(p.steps)
           R == Ready(p)
<1>0. L \in Nat
  BY PlanShape
<1> HIDE DEF L
<1>1. PICK k \in {n \in 0..L : s \in R[n]} : \A n \in {n \in 0..L : s \in R[n]} : k <= n
  <2>1. {n \in 0..L : s \in R[n]} \in SUBSET Nat /\ L \in {n \in 0..L : s \in R[n]}
    BY <1>0 DEF L
  <2> QED
    BY <2>1, LeastExists
<1>2. k \in 1..L /\ k - 1 \in Nat /\ k - 1 \in 0..L /\ s \notin R[k - 1]
  <2>1. k # 0
    BY <1>1, ReadyRecursion
  <2>2. k \in 1..L /\ k - 1 \in 0..L /\ ~(k <= k - 1) /\ k - 1 \in Nat
    BY <1>0, <1>1, <2>1
  <2> QED
    BY <1>1, <2>2
<1>3. s \in R[k] /\ Needs(p, s) \subseteq R[k - 1]
  <2>1. R[k] = R[k - 1] \union {t \in StepsOf(p) : Needs(p, t) \subseteq R[k - 1]}
    BY <1>2, ReadyRecursion
  <2> QED
    BY <1>1, <1>2, <2>1
<1>4. IsFiniteSet(0..L) /\ Cardinality(0..L) = L + 1
  BY <1>0, FS_Interval
<1>5. /\ Before(p, s) \subseteq 0..L /\ L \in 0..L /\ L \notin Before(p, s)
      /\ k - 1 \in Before(p, s)
  BY <1>0, <1>2 DEF Before, L
<1>6. IsFiniteSet(Before(p, s)) /\ Cardinality(Before(p, s)) \in Nat
      /\ Cardinality(Before(p, s)) <= L + 1 /\ Cardinality(Before(p, s)) # L + 1
  BY <1>4, <1>5, FS_Subset, FS_CardinalityType
<1>7. Cardinality(Before(p, s)) # 0
  BY <1>5, <1>6, FS_EmptySet
<1>8. ASSUME NEW d \in Needs(p, s)
      PROVE  d \in R[L] /\ Cardinality(Before(p, d)) < Cardinality(Before(p, s))
  <2>1. d \in R[k - 1]
    BY <1>3
  <2>2. d \in R[L]
    BY <1>0, <1>2, <2>1, ReadyLemma
  <2>3. ASSUME NEW n \in Before(p, d) PROVE n \in Before(p, s) \ {k - 1}
    <3>1. n \in Nat /\ n \in 0..L /\ d \notin R[n]
      BY <1>0 DEF Before, L
    <3>2. ~(k - 1 <= n)
      BY <1>2, <2>1, <3>1, ReadyLemma
    <3>3. ~(k <= n)
      BY <1>2, <3>1, <3>2
    <3>4. s \notin R[n]
      BY <1>1, <3>1, <3>3
    <3> QED
      BY <1>2, <3>1, <3>2, <3>4 DEF Before, L
  <2>4. Before(p, d) \subseteq Before(p, s) /\ Before(p, d) # Before(p, s)
    BY <1>5, <2>3
  <2>5. /\ IsFiniteSet(Before(p, d)) /\ Cardinality(Before(p, d)) \in Nat
        /\ Cardinality(Before(p, d)) <= Cardinality(Before(p, s))
        /\ Cardinality(Before(p, d)) # Cardinality(Before(p, s))
    BY <1>6, <2>4, FS_Subset, FS_CardinalityType
  <2> QED
    BY <1>6, <2>2, <2>5
<1>9. Cardinality(Before(p, s)) \in 1..L
  BY <1>0, <1>6, <1>7
<1> QED
  BY <1>6, <1>8, <1>9 DEF L

\* Groups make no more batches than there are steps.
LEMMA GroupLemma ==
  ASSUME NEW p \in Plans, NEW s \in StepsOf(p)
  PROVE  Cardinality(GroupStarts(p, s)) \in 1..Len(p.steps)
<1>1. s \in Nat /\ s \in 1..Len(p.steps) /\ Len(p.steps) \in Nat
  BY PlanShape
<1>2. IsFiniteSet(1..s) /\ Cardinality(1..s) = s
  BY <1>1, FS_Interval
<1>3. GroupStarts(p, s) \subseteq 1..s /\ 1 \in GroupStarts(p, s)
  BY <1>1 DEF GroupStarts
<1>4. /\ IsFiniteSet(GroupStarts(p, s)) /\ Cardinality(GroupStarts(p, s)) \in Nat
      /\ Cardinality(GroupStarts(p, s)) <= s
  BY <1>2, <1>3, FS_Subset, FS_CardinalityType
<1>5. Cardinality(GroupStarts(p, s)) # 0
  BY <1>3, <1>4, FS_EmptySet
<1> QED
  BY <1>1, <1>4, <1>5

\* The batches are numbered up to the number of steps, and a step that has one
\* depends on steps of earlier batches only (buildPlanBatches).
LEMMA BatchLemma ==
  ASSUME NEW p \in Plans, NEW s \in StepsOf(p)
  PROVE  /\ Batch(p, s) \in 0..Len(p.steps)
         /\ Batch(p, s) # 0 =>
              \A d \in Needs(p, s) : d \in StepsOf(p) /\ Batch(p, d) \in 1..(Batch(p, s) - 1)
<1>0. Len(p.steps) \in Nat
  BY PlanShape
<1>1. CASE \E i \in StepsOf(p) : p.steps[i].depends_on # Undefined
  <2>1. \A t : Batch(p, t) = IF t \in Ready(p)[Len(p.steps)] THEN Cardinality(Before(p, t)) ELSE 0
    BY <1>1 DEF Batch, Before
  <2>2. CASE s \in Ready(p)[Len(p.steps)]
    <3>1. ASSUME NEW d \in Needs(p, s)
          PROVE  d \in StepsOf(p) /\ Batch(p, d) \in 1..(Batch(p, s) - 1)
      <4>1. d \in Ready(p)[Len(p.steps)] /\ d \in StepsOf(p)
        BY <1>0, <2>2, BeforeLemma, ReadyLemma
      <4>2. /\ Cardinality(Before(p, d)) \in 1..Len(p.steps)
            /\ Cardinality(Before(p, s)) \in 1..Len(p.steps)
            /\ Cardinality(Before(p, d)) < Cardinality(Before(p, s))
        BY <2>2, <4>1, BeforeLemma
      <4> QED
        BY <1>0, <2>1, <2>2, <4>1, <4>2
    <3>2. Batch(p, s) \in 1..Len(p.steps)
      BY <2>1, <2>2, BeforeLemma
    <3> QED
      BY <1>0, <3>1, <3>2
  <2>3. CASE s \notin Ready(p)[Len(p.steps)]
    BY <1>0, <2>1, <2>3
  <2> QED
    BY <2>2, <2>3
<1>2. CASE ~\E i \in StepsOf(p) : p.steps[i].depends_on # Undefined
  <2>1. Batch(p, s) = Cardinality(GroupStarts(p, s)) /\ Needs(p, s) = {}
    BY <1>2 DEF Batch, Needs
  <2> QED
    BY <1>0, <2>1, GroupLemma
<1> QED
  BY <1>1, <1>2

-----------------------------------------------------------------------------
(***************************************************************************)
(* What steps do to each variable.                                         *)
(***************************************************************************)

\* The records a task file may hold.
DiskRecords ==
  [state : {"CREATED", "AUTHOR_RUNNING", "STEP_RUNNING", "PARALLEL_RUNNING"} \union Terminal,
   done : SUBSET Steps, retryable : BOOLEAN]

\* A save writes the state it is given and the completed steps.
LEMMA SaveLemma ==
  ASSUME TypeOK,
         NEW state \in {"AUTHOR_RUNNING", "STEP_RUNNING", "PARALLEL_RUNNING", "COMPLETED"},
         Save(state)
  PROVE  /\ disk' \in DiskRecords
         /\ disk'.state = state /\ disk'.done = done
  BY DEF TypeOK, Save, DiskRecords, Terminal, NonRevivable

\* The catch leaves the record alone or saves the completed steps with a failure.
LEMMA CaughtLemma ==
  ASSUME TypeOK, Caught
  PROVE  /\ disk' \in DiskRecords
         /\ \/ disk' = disk
            \/ disk'.done = done /\ disk'.state \in {"CANCELLED", "FAILED"}
  BY DEF TypeOK, Caught, DiskRecords, Terminal, NonRevivable

\* The other writes of the record.
LEMMA OtherSaves ==
  ASSUME TypeOK
  PROVE  /\ Execute => \/ disk' = disk
                       \/ disk' \in DiskRecords /\ disk'.done = disk.done /\ disk'.state = "AUTHOR_RUNNING"
         /\ Refuse => disk' \in DiskRecords /\ disk'.done = disk.done /\ disk'.state = "FAILED"
         /\ Retry => \/ disk' = disk
                     \/ disk' \in DiskRecords /\ disk'.done = disk.done /\ disk'.state = "CREATED"
         /\ Cancel => disk' \in DiskRecords /\ disk'.done = disk.done /\ disk'.state = "CANCELLED"
         /\ \A s \in Steps : StepCompletes(s) =>
              disk' \in DiskRecords /\ disk'.done = done \union {s} /\ disk'.state = "STEP_RUNNING"
<1> USE DEF TypeOK, DiskRecords, Terminal, NonRevivable
<1>1. Execute => \/ disk' = disk
                 \/ disk' \in DiskRecords /\ disk'.done = disk.done /\ disk'.state = "AUTHOR_RUNNING"
  BY DEF Execute
<1>2. Refuse => disk' \in DiskRecords /\ disk'.done = disk.done /\ disk'.state = "FAILED"
  BY DEF Refuse
<1>3. Retry => \/ disk' = disk
               \/ disk' \in DiskRecords /\ disk'.done = disk.done /\ disk'.state = "CREATED"
  BY DEF Retry
<1>4. Cancel => disk' \in DiskRecords /\ disk'.done = disk.done /\ disk'.state = "CANCELLED"
  BY DEF Cancel
<1>5. ASSUME NEW s \in Steps, StepCompletes(s)
      PROVE  disk' \in DiskRecords /\ disk'.done = done \union {s} /\ disk'.state = "STEP_RUNNING"
  <2>1. /\ disk' = [disk EXCEPT !.state = "STEP_RUNNING", !.done = done']
        /\ done' = done \union {s} /\ done' \in SUBSET Steps
    BY <1>5 DEF StepCompletes
  <2> QED
    BY <2>1
<1> QED
  BY <1>1, <1>2, <1>3, <1>4, <1>5

\* The first of some steps is one of them.
LEMMA FirstLemma ==
  ASSUME TypeOK, NEW steps \in SUBSET Steps, steps # {}
  PROVE  First(steps) \in steps
<1>1. steps \in SUBSET Nat
  BY PlanShape DEF TypeOK, Steps
<1>2. \E s \in steps : \A t \in steps : s <= t
  BY <1>1, LeastExists
<1> QED
  BY <1>2 DEF First

\* Which actions write which variables, and how.
LEMMA Effects ==
  ASSUME [Next]_vars
  PROVE  /\ plan' = plan
         /\ \/ disk' = disk
            \/ Execute \/ Refuse \/ Retry \/ Cancel \/ StartStep \/ StartParallel \/ SessionFails
            \/ EndMerge \/ Cleanup \/ Catch \/ Accept
            \/ \E s \in StepNumbers : StepCompletes(s)
         /\ \/ batch' \in {1, batch}
            \/ NextBatch
         /\ \/ done' \in {done, disk.done, {}}
            \/ \E s \in live : done' = done \union {s}
         /\ \/ todo' \subseteq todo
            \/ todo' = Pending(batch)
         /\ \/ live' \subseteq live
            \/ StartStep
            \/ live' \subseteq Pending(batch)
         /\ \/ orphans' \subseteq orphans
            \/ \E place \in {"tree", "worktree"} : orphans' = orphans \union (live \X {place})
         /\ Retry \/ tries' \in {0, tries}
         /\ Submit \/ submissions' = submissions
         /\ Crash \/ crashes' = crashes
         /\ \/ edited' = edited
            \/ \E s \in StepNumbers : \E c : edited' = [edited EXCEPT ![s] = EditedIn(c, s)]
         /\ pc' \in {pc, "idle", "dispatch", "batch", "sequence", "step", "parallel", "merge",
                   "cleanup", "catch", "accept", "returned"}
         /\ error' \in {error, "none", "retryable", "fatal", "cancelled"}
         /\ dropped' \in {dropped, dropped \union (done \intersect todo)}
         /\ stopped' \in {stopped, stopped \/ live # {}}
<1> USE DEF Next, Work, vars, chainVars, runVars, gitVars, bounds, history, Save, MayRetry,
        Execute, Refuse, Retry, EndChain, NextBatch, StartSequence, StartStep, EndSequence,
        StartParallel, SessionFails, StartMerge, EndMerge, Cleanup, Catch, Accept, StepCompletes,
        ParallelCompletes, StepFails, MergeStep, Submit, Cancel, Crash, Edit, OrphanEdits,
        OrphanEnds
<1>1. plan' = plan
  OBVIOUS
<1>2. \/ disk' = disk
     \/ Execute \/ Refuse \/ Retry \/ Cancel \/ StartStep \/ StartParallel \/ SessionFails
     \/ EndMerge \/ Cleanup \/ Catch \/ Accept
     \/ \E s \in StepNumbers : StepCompletes(s)
  OBVIOUS
<1>3. \/ batch' \in {1, batch}
     \/ NextBatch
  OBVIOUS
<1>4. \/ done' \in {done, disk.done, {}}
     \/ \E s \in live : done' = done \union {s}
  OBVIOUS
<1>5. \/ todo' \subseteq todo
     \/ todo' = Pending(batch)
  OBVIOUS
<1>6. \/ live' \subseteq live
     \/ StartStep
     \/ live' \subseteq Pending(batch)
  OBVIOUS
<1>7. \/ orphans' \subseteq orphans
     \/ \E place \in {"tree", "worktree"} : orphans' = orphans \union (live \X {place})
  OBVIOUS
<1>8. Retry \/ tries' \in {0, tries}
  OBVIOUS
<1>9. Submit \/ submissions' = submissions
  OBVIOUS
<1>10. Crash \/ crashes' = crashes
  OBVIOUS
<1>11. \/ edited' = edited
     \/ \E s \in StepNumbers : \E c : edited' = [edited EXCEPT ![s] = EditedIn(c, s)]
  OBVIOUS
<1>12. pc' \in {pc, "idle", "dispatch", "batch", "sequence", "step", "parallel", "merge",
                "cleanup", "catch", "accept", "returned"}
  OBVIOUS
<1>13. error' \in {error, "none", "retryable", "fatal", "cancelled"}
  BY DEF Throw, ThrowSome
<1>14. dropped' \in {dropped, dropped \union (done \intersect todo)}
  OBVIOUS
<1>15. stopped' \in {stopped, stopped \/ live # {}}
  OBVIOUS
<1> QED
  BY <1>1, <1>2, <1>3, <1>4, <1>5, <1>6, <1>7, <1>8, <1>9, <1>10, <1>11, <1>12, <1>13, <1>14,
     <1>15

\* The same for the content of the files.
LEMMA ContentEffects ==
  ASSUME [Next]_vars
  PROVE  /\ \/ UNCHANGED <<head, tree>>
            \/ \E s \in StepNumbers, f \in Files : UNCHANGED head /\ tree' = [tree EXCEPT ![f] = @ \union {s}]
            \/ \E s \in StepNumbers : MergeStep(s)
         /\ \/ wt' = wt
            \/ wt' = Worktrees(Pending(batch)) \/ wt' = [s \in StepNumbers |-> NoTree]
            \/ \E s \in StepNumbers, f \in Files : wt' = [wt EXCEPT ![s].now[f] = @ \union {s}]
            \/ \E s \in StepNumbers : wt' = [wt EXCEPT ![s].branch = wt[s].now]
<1> USE DEF Next, Work, vars, chainVars, runVars, gitVars, bounds, history, Save, MayRetry,
        Execute, Refuse, Retry, EndChain, NextBatch, StartSequence, StartStep, EndSequence,
        StartParallel, SessionFails, StartMerge, EndMerge, Cleanup, Catch, Accept, StepCompletes,
        ParallelCompletes, StepFails, Submit, Cancel, Crash, Edit, OrphanEdits,
        OrphanEnds
<1>1. \/ UNCHANGED <<head, tree>>
      \/ \E s \in StepNumbers, f \in Files : UNCHANGED head /\ tree' = [tree EXCEPT ![f] = @ \union {s}]
      \/ \E s \in StepNumbers : MergeStep(s)
  OBVIOUS
<1>2. \/ wt' = wt
      \/ wt' = Worktrees(Pending(batch)) \/ wt' = [s \in StepNumbers |-> NoTree]
      \/ \E s \in StepNumbers, f \in Files : wt' = [wt EXCEPT ![s].now[f] = @ \union {s}]
      \/ \E s \in StepNumbers : wt' = [wt EXCEPT ![s].branch = wt[s].now]
  BY DEF MergeStep
<1> QED
  BY <1>1, <1>2

\* A merge leaves contents behind.
LEMMA MergedLemma ==
  ASSUME TypeOK, NEW s \in StepNumbers, MergeStep(s)
  PROVE  head' \in Content /\ tree' \in Content
<1>1. CASE UNCHANGED <<head, tree>>
  BY <1>1 DEF TypeOK
<1>2. CASE /\ head' = Merged(s)
           /\ tree' = [f \in Files |-> IF f \in Changed(s) THEN head'[f] ELSE tree[f]]
  <2>1. head \in Content /\ tree \in Content /\ wt[s].branch \in Content
    BY DEF TypeOK
  <2>2. Merged(s) \in Content
    BY <2>1 DEF Merged, Content
  <2> QED
    BY <1>2, <2>1, <2>2 DEF Content
<1> QED
  BY <1>1, <1>2 DEF MergeStep

\* Every step keeps the types; running steps are of the batch.
LEMMA StepKeepsTypes ==
  ASSUME TypeOK, CancelInv, live \subseteq todo, [Next]_vars
  PROVE  TypeOK'
<1>1. Steps' = Steps /\ Steps \subseteq StepNumbers /\ Len(plan.steps) \in Nat /\ plan' = plan
  BY Effects, PlanShape DEF TypeOK, Steps
<1>2. ASSUME NEW s \in Steps PROVE BatchOf(s) \in 0..Len(plan.steps)
  BY <1>2, BatchLemma DEF TypeOK, Steps, BatchOf
<1>3. Pending(batch) \in SUBSET Steps
  BY DEF Pending
<1>4. live \subseteq Steps
  BY DEF TypeOK
<1>5. disk' \in DiskRecords
  <2>1. disk \in DiskRecords
    BY DEF TypeOK, DiskRecords
  <2>2. CASE Execute \/ Refuse \/ Retry \/ Cancel
    BY <2>1, <2>2, OtherSaves
  <2>3. CASE StartStep \/ StartParallel \/ SessionFails \/ EndMerge
    BY <2>3, SaveLemma DEF StartStep, StartParallel, SessionFails, EndMerge
  <2>4. CASE Cleanup \/ Catch \/ Accept
    BY <2>1, <2>4, SaveLemma, CaughtLemma DEF Cleanup, Catch, Accept
  <2>5. CASE \E s \in StepNumbers : StepCompletes(s)
    BY <2>5, <1>4, OtherSaves DEF StepCompletes
  <2> QED
    BY <2>1, <2>2, <2>3, <2>4, <2>5, Effects
<1>6. batch' \in 1..(Len(plan.steps) + 1)
  <2>1. CASE NextBatch /\ ~LastBatch
    <3>1. PICK s \in Steps : ~(BatchOf(s) < batch)
      BY <2>1 DEF LastBatch
    <3>2. batch' = batch + 1
      BY <2>1 DEF NextBatch
    <3> QED
      BY <1>1, <1>2, <3>1, <3>2 DEF TypeOK
  <2>2. CASE ~(NextBatch /\ ~LastBatch)
    <3>1. batch' = batch \/ batch' = 1
      BY <2>2, Effects DEF NextBatch
    <3> QED
      BY <1>1, <3>1 DEF TypeOK
  <2> QED
    BY <2>1, <2>2
<1>7. done' \subseteq Steps
  BY <1>4, Effects DEF TypeOK
<1>8. todo' \subseteq Steps
  BY <1>3, Effects DEF TypeOK
<1>9. live' \subseteq Steps
  <2>1. CASE StartStep
    BY <2>1, FirstLemma DEF StartStep, TypeOK
  <2> QED
    BY <1>3, <1>4, <2>1, Effects
<1>10. orphans' \subseteq Steps \X {"tree", "worktree"}
  BY <1>4, Effects DEF TypeOK
<1>11. killed' \subseteq live'
  BY StepKeepsCancelInv DEF CancelInv, Progress
<1>12. head' \in Content /\ tree' \in Content
  <2>1. ASSUME NEW s \in StepNumbers, NEW f \in Files PROVE [tree EXCEPT ![f] = @ \union {s}] \in Content
    BY DEF TypeOK, Content
  <2>2. head \in Content /\ tree \in Content
    BY DEF TypeOK
  <2>3. CASE \E s \in StepNumbers : MergeStep(s)
    BY <2>3, MergedLemma
  <2> QED
    BY <2>1, <2>2, <2>3, ContentEffects
<1>13. wt' \in [StepNumbers -> [on : BOOLEAN, base : Content, now : Content, branch : Content]]
  <2>1. CASE wt' = wt
    BY <2>1 DEF TypeOK
  <2>2. CASE wt' = Worktrees(Pending(batch))
    BY <2>2 DEF TypeOK, Worktrees
  <2>3. CASE wt' = [s \in StepNumbers |-> NoTree]
    BY <2>3, ContentLemma
  <2>4. ASSUME NEW s \in StepNumbers, NEW f \in Files, wt' = [wt EXCEPT ![s].now[f] = @ \union {s}]
        PROVE  wt' \in [StepNumbers -> [on : BOOLEAN, base : Content, now : Content, branch : Content]]
    <3>1. wt \in [StepNumbers -> [on : BOOLEAN, base : Content, now : Content, branch : Content]]
      BY DEF TypeOK
    <3> QED
      BY <2>4, <3>1 DEF Content
  <2>5. CASE \E s \in StepNumbers : wt' = [wt EXCEPT ![s].branch = wt[s].now]
    BY <2>5 DEF TypeOK
  <2> QED
    BY <2>1, <2>2, <2>3, <2>4, <2>5, ContentEffects
<1>14. tries' \in 0..Retries /\ submissions' \in 0..Submissions /\ crashes' \in 0..MaxCrashes
  <2>1. Retry => tries < Retries /\ tries' = tries + 1
    BY DEF Retry, MayRetry
  <2>2. Submit => submissions < Submissions /\ submissions' = submissions + 1
    BY DEF Submit
  <2>3. Crash => crashes < MaxCrashes /\ crashes' = crashes + 1
    BY DEF Crash
  <2>4. tries' \in 0..Retries
    BY <2>1, Effects, LimitsAssumption DEF TypeOK
  <2>5. submissions' \in 0..Submissions
    BY <2>2, Effects, LimitsAssumption DEF TypeOK
  <2>6. crashes' \in 0..MaxCrashes
    BY <2>3, Effects, LimitsAssumption DEF TypeOK
  <2> QED
    BY <2>4, <2>5, <2>6
<1>15. edited' \in [StepNumbers -> SUBSET Files]
  BY Effects DEF TypeOK, EditedIn
<1>16. dropped' \subseteq Steps /\ stopped' \in BOOLEAN
  BY Effects DEF TypeOK
<1>17. /\ pc' \in {"idle", "dispatch", "batch", "sequence", "step", "parallel", "merge",
                   "cleanup", "catch", "accept", "returned"}
       /\ error' \in {"none", "retryable", "fatal", "cancelled"}
  BY Effects DEF TypeOK
<1> QED
  BY <1>1, <1>5, <1>6, <1>7, <1>8, <1>9, <1>10, <1>11, <1>12, <1>13, <1>14, <1>15, <1>16, <1>17
  DEF TypeOK, DiskRecords

-----------------------------------------------------------------------------
(***************************************************************************)
(* Batches: what has completed when the process is where.                  *)
(***************************************************************************)

Attempting == InBatch \union {"batch", "sequence", "step", "accept"}

\* During an attempt every step of an earlier batch has completed, the steps to
\* do are of the current batch, and those that run are among them.  What the
\* record has as completed is completed in memory too.
BatchesInv ==
  /\ pc \in Attempting \union {"catch"} => disk.done \subseteq done
  /\ pc \in Attempting => ~Unsatisfiable /\ \A s \in Steps : BatchOf(s) < batch => s \in done
  /\ pc \in InBatch \union {"sequence", "step"} => \A s \in todo : BatchOf(s) = batch
  /\ pc \in {"sequence", "step"} => todo \intersect done = {}
  /\ live \subseteq todo \ done
  /\ pc = "parallel" => todo \subseteq live \union done
  /\ pc = "merge" => todo \subseteq done
  /\ pc = "cleanup" /\ error = "none" => todo = {}
  /\ pc = "accept" => done = Steps
  /\ disk.state = "COMPLETED" => disk.done = Steps

\* Every step of the system keeps that.
LEMMA StepKeepsBatches ==
  ASSUME TypeOK, CancelInv, BatchesInv, [Next]_vars
  PROVE  BatchesInv'
<1>1. /\ plan' = plan /\ Steps' = Steps /\ (Unsatisfiable' <=> Unsatisfiable)
      /\ \A s : BatchOf(s)' = BatchOf(s)
  BY Effects DEF Steps, BatchOf, Unsatisfiable
<1>2. /\ done \subseteq Steps /\ todo \subseteq Steps /\ disk.done \subseteq Steps
      /\ Pending(batch) = {s \in Steps : BatchOf(s) = batch /\ s \notin done}
      /\ batch \in Nat /\ \A s \in Steps : BatchOf(s) \in Nat
  BY BatchLemma, PlanShape DEF TypeOK, Pending, BatchOf, Steps
<1>3. /\ live # {} => pc \in {"step", "parallel", "cleanup"}
      /\ pc = "step" => \A r, s \in live : r = s
  BY DEF CancelInv, Progress
<1> USE DEF BatchesInv, Attempting, InBatch, chainVars, runVars, gitVars, bounds, history
<1>4. CASE Execute
  <2>1. \/ disk' = disk
        \/ disk'.done = disk.done /\ disk'.state = "AUTHOR_RUNNING"
    BY <1>4, OtherSaves
  <2>2. CASE pc' = "returned"
    BY <1>1, <1>3, <1>4, <2>2 DEF Execute
  <2>3. CASE pc' = "catch"
    BY <1>1, <1>2, <1>3, <1>4, <2>1, <2>3 DEF Execute
  <2>4. CASE pc' = "batch"
    <3>1. \A s \in Steps : ~Unsatisfiable => ~(BatchOf(s) < 1)
      BY <1>2 DEF Unsatisfiable
    <3> QED
      BY <1>1, <1>2, <1>3, <1>4, <2>1, <2>4, <3>1 DEF Execute
  <2> QED
    BY <1>4, <2>2, <2>3, <2>4 DEF Execute
<1>5. CASE Refuse \/ Retry
  BY <1>1, <1>2, <1>3, <1>5, OtherSaves DEF Refuse, Retry
<1>6. CASE EndChain \/ Submit \/ Crash
  BY <1>1, <1>2, <1>3, <1>6 DEF EndChain, Submit, Crash
<1>7. CASE NextBatch
  <2>1. /\ \A s \in Steps : BatchOf(s) = batch => s \in done
        /\ pc = "batch" /\ live = {} /\ UNCHANGED <<disk, done, todo, live, error>>
    BY <1>2, <1>3, <1>7 DEF NextBatch
  <2>2. CASE LastBatch
    <3>1. pc' = "accept" /\ batch' = batch /\ done = Steps
      BY <1>2, <1>7, <2>2 DEF NextBatch, LastBatch
    <3> QED
      BY <1>1, <2>1, <3>1
  <2>3. CASE ~LastBatch
    <3>1. pc' = "batch" /\ batch' = batch + 1
      BY <1>7, <2>3 DEF NextBatch
    <3>2. \A s \in Steps : BatchOf(s) < batch + 1 => BatchOf(s) < batch \/ BatchOf(s) = batch
      BY <1>2
    <3> QED
      BY <1>1, <2>1, <3>1, <3>2
  <2> QED
    BY <2>2, <2>3
<1>8. CASE StartSequence \/ EndSequence \/ StartMerge
  BY <1>1, <1>2, <1>3, <1>8 DEF StartSequence, EndSequence, StartMerge
<1>9. CASE StartStep
  <2>1. disk'.state = "STEP_RUNNING" /\ disk'.done = done
    BY <1>9, SaveLemma DEF StartStep
  <2>2. First(todo) \in todo
    BY <1>2, <1>9, FirstLemma DEF StartStep
  <2> QED
    BY <1>1, <1>2, <1>3, <1>9, <2>1, <2>2 DEF StartStep
<1>10. CASE StartParallel
  <2>1. disk'.state = "PARALLEL_RUNNING" /\ disk'.done = done
    BY <1>10, SaveLemma DEF StartParallel
  <2>2. pc' = "cleanup" => error' # "none"
    BY <1>10, Thrown DEF StartParallel
  <2> QED
    BY <1>1, <1>2, <1>3, <1>10, <2>1, <2>2 DEF StartParallel
<1>11. CASE SessionFails
  <2>1. disk'.state = "PARALLEL_RUNNING" /\ disk'.done = done
    BY <1>11, SaveLemma DEF SessionFails
  <2> QED
    BY <1>1, <1>2, <1>3, <1>11, <2>1 DEF SessionFails
<1>12. CASE EndMerge
  <2>1. disk'.state = "PARALLEL_RUNNING" /\ disk'.done = done
    BY <1>12, SaveLemma DEF EndMerge
  <2> QED
    BY <1>1, <1>2, <1>3, <1>12, <2>1 DEF EndMerge
<1>13. CASE Cleanup
  <2>1. CASE error = "none"
    BY <1>1, <1>2, <1>13, <2>1 DEF Cleanup
  <2>2. CASE error # "none"
    BY <1>1, <1>2, <1>13, <2>2, CaughtLemma DEF Cleanup
  <2> QED
    BY <2>1, <2>2
<1>14. CASE Catch
  BY <1>1, <1>2, <1>3, <1>14, CaughtLemma DEF Catch
<1>15. CASE Accept
  <2>1. UNCHANGED disk \/ (disk'.done = done /\ pc' = "returned")
    BY <1>15, SaveLemma DEF Accept
  <2> QED
    BY <1>1, <1>2, <1>3, <1>15, <2>1 DEF Accept
<1>16. ASSUME NEW s \in StepNumbers, StepCompletes(s) PROVE BatchesInv'
  <2>1. /\ pc = "step" /\ s \in live /\ pc' = "sequence" /\ live' = {}
        /\ done' = done \union {s} /\ todo' = todo \ {s} /\ UNCHANGED <<batch, error>>
    BY <1>16 DEF StepCompletes
  <2>2. disk'.done = done \union {s} /\ disk'.state = "STEP_RUNNING"
    BY <1>2, <1>16, <2>1, OtherSaves
  <2> QED
    BY <1>1, <1>2, <2>1, <2>2
<1>17. ASSUME NEW s \in StepNumbers, ParallelCompletes(s) PROVE BatchesInv'
  <2>1. /\ pc \in {"parallel", "cleanup"} /\ s \in live /\ live' = live \ {s}
        /\ done' = done \union {s} /\ UNCHANGED <<disk, batch, todo>>
        /\ \/ UNCHANGED <<pc, error>>
           \/ pc' = "cleanup" /\ error' # "none"
    BY <1>17, Thrown DEF ParallelCompletes
  <2> QED
    BY <1>1, <1>2, <2>1
<1>18. ASSUME NEW s \in StepNumbers, StepFails(s) PROVE BatchesInv'
  <2>1. /\ s \in live /\ live' = live \ {s} /\ error' # "none" /\ UNCHANGED <<disk, done, batch, todo>>
        /\ pc' = IF pc = "step" THEN "catch" ELSE "cleanup"
    BY <1>18, Thrown DEF StepFails
  <2> QED
    BY <1>1, <1>2, <1>3, <2>1
<1>19. ASSUME NEW s \in StepNumbers, MergeStep(s) PROVE BatchesInv'
  <2>1. /\ pc = "merge" /\ live = {} /\ todo' \subseteq todo /\ UNCHANGED <<disk, done, batch, live>>
        /\ \/ UNCHANGED <<pc, error>>
           \/ pc' = "cleanup" /\ error' # "none"
    BY <1>3, <1>19, Thrown DEF MergeStep
  <2> QED
    BY <1>1, <1>2, <2>1
<1>20. CASE Cancel
  <2>1. disk'.done = disk.done /\ disk'.state = "CANCELLED"
    BY <1>20, OtherSaves
  <2> QED
    BY <1>1, <1>20, <2>1 DEF Cancel
<1>21. ASSUME NEW s \in StepNumbers, Edit(s) \/ OrphanEdits(s) \/ OrphanEnds(s) PROVE BatchesInv'
  BY <1>1, <1>21 DEF Edit, OrphanEdits, OrphanEnds
<1>22. CASE UNCHANGED vars
  BY <1>1, <1>22 DEF vars
<1> QED
  BY <1>4, <1>5, <1>6, <1>7, <1>8, <1>9, <1>10, <1>11, <1>12, <1>13, <1>14, <1>15, <1>16, <1>17,
     <1>18, <1>19, <1>20, <1>21, <1>22 DEF Next, Work

-----------------------------------------------------------------------------
(***************************************************************************)
(* Files: where the work of a completed step is.                           *)
(***************************************************************************)

\* What is committed is in the directory too, and a worktree starts from what is
\* committed.
FilesInv ==
  /\ \A f \in Files : head[f] \subseteq tree[f]
  /\ \A s \in StepNumbers, f \in Files :
       wt[s].base[f] \subseteq head[f] \intersect wt[s].now[f] \intersect wt[s].branch[f]

\* The work of a completed step is in the directory, unless its branch was
\* dropped or is still to be merged; a branch to be merged holds it.
WorkInv ==
  /\ pc \in {"parallel", "merge"} =>
       \A s \in done \intersect todo : \A f \in edited[s] : s \in wt[s].branch[f]
  /\ \A s \in done \ dropped : WorkOf(s) \/ (pc \in InBatch /\ s \in todo)
  /\ \A s \in disk.done \ dropped : WorkOf(s)

\* Edits and merges add to the directory and take nothing from it.
LEMMA StepKeepsFiles ==
  ASSUME TypeOK, FilesInv, [Next]_vars
  PROVE  FilesInv' /\ \A f \in Files : tree[f] \subseteq tree'[f]
<1>1. /\ head \in Content /\ tree \in Content
      /\ wt \in [StepNumbers -> [on : BOOLEAN, base : Content, now : Content, branch : Content]]
  BY DEF TypeOK
<1>2. \A f \in Files : head[f] \subseteq head'[f] /\ head'[f] \subseteq tree'[f] /\ tree[f] \subseteq tree'[f]
  <2>1. CASE UNCHANGED <<head, tree>>
    BY <2>1 DEF FilesInv
  <2>2. ASSUME NEW s \in StepNumbers, NEW f \in Files, UNCHANGED head, tree' = [tree EXCEPT ![f] = @ \union {s}]
        PROVE  \A g \in Files : head[g] \subseteq head'[g] /\ head'[g] \subseteq tree'[g] /\ tree[g] \subseteq tree'[g]
    BY <1>1, <2>2 DEF FilesInv, Content
  <2>3. ASSUME NEW s \in StepNumbers, MergeStep(s), ~UNCHANGED <<head, tree>>, NEW f \in Files
        PROVE  head[f] \subseteq head'[f] /\ head'[f] \subseteq tree'[f] /\ tree[f] \subseteq tree'[f]
    <3>1. /\ Dirty(s) = {} /\ head' = Merged(s)
          /\ tree' = [g \in Files |-> IF g \in Changed(s) THEN head'[g] ELSE tree[g]]
      BY <2>3 DEF MergeStep
    <3>2. head'[f] = IF f \in Changed(s) THEN head[f] \union wt[s].branch[f] ELSE head[f]
      BY <3>1 DEF Merged
    <3>3. f \in Changed(s) => tree[f] = head[f]
      BY <3>1 DEF Dirty
    <3> QED
      BY <3>1, <3>2, <3>3 DEF FilesInv
  <2> QED
    BY <2>1, <2>2, <2>3, ContentEffects
<1>3. \A s \in StepNumbers, f \in Files :
        wt'[s].base[f] \subseteq head'[f] \intersect wt'[s].now[f] \intersect wt'[s].branch[f]
  <2>1. CASE wt' = wt
    BY <1>2, <2>1 DEF FilesInv
  <2>2. CASE wt' = Worktrees(Pending(batch))
    BY <1>2, <2>2 DEF FilesInv, Worktrees
  <2>3. CASE wt' = [s \in StepNumbers |-> NoTree]
    BY <2>3 DEF NoTree, Clean
  <2>4. ASSUME NEW s \in StepNumbers, NEW f \in Files, wt' = [wt EXCEPT ![s].now[f] = @ \union {s}],
               NEW r \in StepNumbers, NEW g \in Files
        PROVE  wt'[r].base[g] \subseteq head'[g] \intersect wt'[r].now[g] \intersect wt'[r].branch[g]
    <3>1. wt'[r].base = wt[r].base /\ wt'[r].branch = wt[r].branch /\ wt[r].now[g] \subseteq wt'[r].now[g]
      BY <1>1, <2>4 DEF Content
    <3> QED
      BY <1>2, <3>1 DEF FilesInv
  <2>5. CASE \E s \in StepNumbers : wt' = [wt EXCEPT ![s].branch = wt[s].now]
    BY <1>1, <1>2, <2>5 DEF FilesInv
  <2> QED
    BY <2>1, <2>2, <2>3, <2>4, <2>5, ContentEffects
<1> QED
  BY <1>2, <1>3 DEF FilesInv

\* Work moves from a branch to the directory with its merge, and stays there.
LEMMA StepKeepsWork ==
  ASSUME TypeOK, CancelInv, BatchesInv, FilesInv, WorkInv, [Next]_vars
  PROVE  WorkInv'
<1>1. \A s \in StepNumbers : edited'[s] = edited[s] /\ WorkOf(s) => WorkOf(s)'
  BY StepKeepsFiles DEF WorkOf, TypeOK
<1>2. /\ done \subseteq StepNumbers /\ disk.done \subseteq StepNumbers /\ todo \subseteq StepNumbers
      /\ live \subseteq StepNumbers
  BY PlanShape DEF TypeOK, Steps
<1>3. live # {} => pc \in {"step", "parallel", "cleanup"}
  BY DEF CancelInv, Progress
\* Outside of a parallel batch the work of every completed step is in the directory, or dropped.
<1>4. /\ pc \notin InBatch \/ todo = {} => \A s \in done \ dropped : WorkOf(s)
      /\ \A s \in disk.done \ dropped : WorkOf(s)
  BY DEF WorkInv
<1> USE DEF InBatch, chainVars, runVars, gitVars, bounds, history
<1>5. ASSUME UNCHANGED <<edited, dropped>>, done' \in {done, disk.done, {}}, pc' \notin InBatch \/ todo' = {},
             pc \notin InBatch \/ todo = {},
             disk'.done \in {disk.done, done}
      PROVE  WorkInv'
  <2>1. \A s \in (done \union disk.done) \ dropped : WorkOf(s)'
    BY <1>1, <1>2, <1>4, <1>5
  <2>2. \A s \in (done' \union disk'.done) \ dropped' : WorkOf(s)'
    BY <1>5, <2>1
  <2> QED
    BY <1>5, <2>2 DEF WorkInv
<1>6. CASE Execute \/ Refuse \/ Retry
  <2>1. disk'.done = disk.done
    BY <1>6, OtherSaves
  <2> QED
    BY <1>5, <1>6, <2>1 DEF Execute, Refuse, Retry
<1>7. CASE EndChain \/ NextBatch \/ StartSequence \/ EndSequence \/ Submit
  BY <1>5, <1>7 DEF EndChain, NextBatch, StartSequence, EndSequence, Submit
<1>8. CASE StartStep \/ SessionFails \/ EndMerge
  <2>1. disk'.done = done
    BY <1>8, SaveLemma DEF StartStep, SessionFails, EndMerge
  <2> QED
    BY <1>5, <1>8, <2>1 DEF StartStep, SessionFails, EndMerge
<1>9. CASE Catch \/ Accept
  <2>1. disk'.done \in {disk.done, done}
    BY <1>9, SaveLemma, CaughtLemma DEF Catch, Accept
  <2> QED
    BY <1>5, <1>9, <2>1 DEF Catch, Accept
<1>10. CASE StartParallel
  <2>1. disk'.done = done /\ UNCHANGED <<edited, dropped, done>> /\ pc = "batch"
    BY <1>10, SaveLemma DEF StartParallel
  <2>2. \A s \in done \ dropped : WorkOf(s)'
    BY <1>1, <1>2, <1>4, <2>1
  <2>3. done \intersect todo' = {}
    BY <1>10 DEF StartParallel, Pending
  <2> QED
    BY <2>1, <2>2, <2>3 DEF WorkInv
<1>11. CASE StartMerge
  <2>1. UNCHANGED <<disk, done, todo, wt, tree, edited, dropped>> /\ pc = "parallel" /\ pc' = "merge"
    BY <1>11 DEF StartMerge
  <2> QED
    BY <2>1 DEF WorkInv, WorkOf
<1>12. CASE Cleanup
  <2>1. /\ UNCHANGED <<done, edited>> /\ dropped' = dropped \union (done \intersect todo)
        /\ pc' \in {"batch", "returned"} /\ disk'.done \in {disk.done, done}
    BY <1>12, CaughtLemma DEF Cleanup
  <2>2. \A s \in (done \union disk.done) \ dropped' : WorkOf(s)'
    BY <1>1, <1>2, <2>1 DEF WorkInv
  <2> QED
    BY <2>1, <2>2 DEF WorkInv
<1>13. ASSUME NEW s \in StepNumbers, StepCompletes(s) PROVE WorkInv'
  <2>1. /\ pc = "step" /\ pc' = "sequence" /\ done' = done \union {s}
        /\ UNCHANGED <<tree, dropped>> /\ edited' = [edited EXCEPT ![s] = EditedIn(tree, s)]
        /\ s \in live
    BY <1>13 DEF StepCompletes
  <2>2. disk'.done = done'
    BY <1>2, <1>13, <2>1, OtherSaves DEF TypeOK
  <2>3. WorkOf(s)'
    BY <2>1 DEF WorkOf, EditedIn, TypeOK
  <2>4. \A r \in done \ dropped : r # s => WorkOf(r)'
    <3>1. \A r \in StepNumbers : r # s => edited'[r] = edited[r]
      BY <2>1 DEF TypeOK
    <3> QED
      BY <1>1, <1>2, <1>4, <2>1, <3>1
  <2> QED
    BY <2>1, <2>2, <2>3, <2>4 DEF WorkInv
<1>14. ASSUME NEW s \in StepNumbers, ParallelCompletes(s) PROVE WorkInv'
  <2>1. /\ pc \in {"parallel", "cleanup"} /\ s \in live /\ done' = done \union {s}
        /\ UNCHANGED <<disk, todo, tree, dropped>>
        /\ edited' = [edited EXCEPT ![s] = EditedIn(wt[s].now, s)]
        /\ \/ wt' = [wt EXCEPT ![s].branch = wt[s].now] /\ UNCHANGED pc
           \/ pc' = "cleanup" /\ UNCHANGED wt
    BY <1>14 DEF ParallelCompletes
  <2>2. s \in todo /\ s \notin done /\ s \notin disk.done
    BY <2>1 DEF BatchesInv, Attempting
  <2>3. \A r \in done \union disk.done : r # s /\ edited'[r] = edited[r]
    BY <1>2, <2>1, <2>2 DEF TypeOK, BatchesInv, Attempting
  <2>4. ASSUME pc' \in {"parallel", "merge"}, NEW r \in done' \intersect todo', NEW f \in edited'[r]
        PROVE  r \in wt'[r].branch[f]
    <3>1. pc = "parallel" /\ wt' = [wt EXCEPT ![s].branch = wt[s].now]
      BY <2>1, <2>4
    <3>2. CASE r = s
      BY <2>1, <2>4, <3>1, <3>2 DEF TypeOK, EditedIn
    <3>3. CASE r # s
      <4>1. r \in done \intersect todo /\ f \in edited[r] /\ wt'[r] = wt[r]
        BY <2>1, <2>3, <2>4, <3>1, <3>3
      <4> QED
        BY <3>1, <4>1 DEF WorkInv
    <3> QED
      BY <3>2, <3>3
  <2>5. \A r \in done \ dropped : WorkOf(r)' \/ r \in todo
    BY <1>1, <1>2, <2>3 DEF WorkInv
  <2>6. \A r \in disk.done \ dropped : WorkOf(r)'
    BY <1>1, <1>2, <2>3 DEF WorkInv
  <2>7. pc' \in InBatch
    BY <2>1
  <2> QED
    BY <2>1, <2>2, <2>4, <2>5, <2>6, <2>7 DEF WorkInv
<1>15. ASSUME NEW s \in StepNumbers, StepFails(s) PROVE WorkInv'
  <2>1. /\ s \in live /\ UNCHANGED <<disk, done, todo, tree, dropped, edited>>
        /\ pc' = IF pc = "step" THEN "catch" ELSE "cleanup"
    BY <1>15 DEF StepFails
  <2> QED
    BY <1>3, <2>1 DEF WorkInv, WorkOf
<1>16. ASSUME NEW s \in StepNumbers, MergeStep(s) PROVE WorkInv'
  <2>1. /\ pc = "merge" /\ UNCHANGED <<disk, done, wt, dropped, edited>>
        /\ pc' \in {"merge", "cleanup"}
        /\ todo' = todo \/ todo' = todo \ {s}
    BY <1>16 DEF MergeStep
  <2>2. \A r \in StepNumbers : WorkOf(r) => WorkOf(r)'
    BY <1>1, <2>1
  <2>3. ASSUME s \in todo, s \in done, s \notin todo', NEW f \in edited[s]
        PROVE  s \in tree'[f]
    <3>1. /\ head' = Merged(s)
          /\ tree' = [g \in Files |-> IF g \in Changed(s) THEN head'[g] ELSE tree[g]]
      BY <1>16, <2>3 DEF MergeStep
    <3>2. f \in Files /\ s \in wt[s].branch[f]
      BY <2>1, <2>3 DEF WorkInv, TypeOK
    <3>3. CASE f \in Changed(s)
      BY <3>1, <3>2, <3>3 DEF Merged
    <3>4. CASE f \notin Changed(s)
      <4>1. s \in wt[s].base[f]
        BY <3>2, <3>4 DEF Changed
      <4> QED
        BY <3>1, <3>2, <3>4, <4>1 DEF FilesInv
    <3> QED
      BY <3>3, <3>4
  <2>4. s \in todo /\ s \in done /\ s \notin todo' => WorkOf(s)'
    BY <2>1, <2>3 DEF WorkOf
  <2>5. \A r \in done \ dropped : WorkOf(r)' \/ r \in todo'
    BY <1>2, <2>1, <2>2, <2>4 DEF WorkInv
  <2> QED
    BY <1>2, <2>1, <2>2, <2>5 DEF WorkInv
<1>17. CASE Cancel
  <2>1. disk'.done = disk.done
    BY <1>17, OtherSaves
  <2> QED
    BY <1>17, <2>1 DEF Cancel, WorkInv, WorkOf
<1>18. CASE Crash
  BY <1>4, <1>18 DEF Crash, WorkInv, WorkOf
<1>19. ASSUME NEW s \in StepNumbers, Edit(s) \/ OrphanEdits(s) \/ OrphanEnds(s) PROVE WorkInv'
  <2>1. /\ UNCHANGED <<pc, disk, done, todo, edited, dropped>>
        /\ \A r \in StepNumbers : wt'[r].branch = wt[r].branch
    BY <1>19 DEF Edit, OrphanEdits, OrphanEnds, TypeOK
  <2>2. \A r \in StepNumbers : WorkOf(r) => WorkOf(r)'
    BY <1>1, <2>1
  <2> QED
    BY <1>2, <2>1, <2>2 DEF WorkInv
<1>20. CASE UNCHANGED vars
  BY <1>20 DEF vars, WorkInv, WorkOf
<1> QED
  BY <1>6, <1>7, <1>8, <1>9, <1>10, <1>11, <1>12, <1>13, <1>14, <1>15, <1>16, <1>17, <1>18, <1>19,
     <1>20 DEF Next, Work

\* The inductive invariant.
PlanInv == TypeOK /\ CancelInv /\ BatchesInv /\ FilesInv /\ WorkInv

\* It holds in every reachable state.
LEMMA PlanInvHolds == Spec => []PlanInv
<1>1. Init => PlanInv
  <2> SUFFICES ASSUME Init PROVE PlanInv
    OBVIOUS
  <2> USE DEF Init
  <2>1. TypeOK
    <3>1. plan \in Plans /\ Len(plan.steps) \in Nat
      BY PlanShape
    <3>2. disk.state = "CREATED" /\ disk.done = {}
      OBVIOUS
    <3>3. 1 \in 1..(Len(plan.steps) + 1) /\ 0 \in 0..Retries /\ 0 \in 0..Submissions /\ 0 \in 0..MaxCrashes
      BY <3>1, LimitsAssumption
    <3> QED
      BY <3>1, <3>3, ContentLemma DEF TypeOK
  <2>2. CancelInv
    BY DEF CancelInv, Progress, Cancelling
  <2>3. BatchesInv
    BY DEF BatchesInv, Attempting, InBatch
  <2>4. FilesInv
    BY DEF FilesInv, NoTree, Clean
  <2>5. WorkInv
    BY DEF WorkInv
  <2> QED
    BY <2>1, <2>2, <2>3, <2>4, <2>5 DEF PlanInv
<1>2. PlanInv /\ [Next]_vars => PlanInv'
  <2> SUFFICES ASSUME PlanInv, [Next]_vars PROVE PlanInv'
    OBVIOUS
  <2>1. live \subseteq todo
    BY DEF PlanInv, BatchesInv
  <2> QED
    BY <2>1, StepKeepsTypes, StepKeepsCancelInv, StepKeepsBatches, StepKeepsFiles, StepKeepsWork
    DEF PlanInv
<1> QED
  BY <1>1, <1>2, PTL DEF Spec

\* Every variable keeps its type, whatever the plan and however its executors
\* and its attempts end: in particular there is never a batch behind the last.
THEOREM TypeCorrectness == Spec => []TypeOK
<1>1. PlanInv => TypeOK
  BY DEF PlanInv
<1> QED
  BY <1>1, PlanInvHolds, PTL

\* A task is COMPLETED only when every step of its plan has run, and the work of
\* each is in the task's directory unless its branch was deleted unmerged:
\* through any plan, conflicts, failed commits, retries and crashes
\* (executePlannedSteps).
THEOREM CompletedTasksHoldTheirWork == Spec => []CompletedHoldsItsWork
<1>1. PlanInv => CompletedHoldsItsWork
  BY DEF PlanInv, BatchesInv, WorkInv, CompletedHoldsItsWork
<1> QED
  BY <1>1, PlanInvHolds, PTL

\* A step runs only after every step it depends on, with the work of those in
\* the directory unless it was dropped, in the first attempt and in every later
\* one (buildPlanBatches).
THEOREM DependenciesComeFirst == Spec => []DependenciesAreMerged
<1>1. PlanInv => DependenciesAreMerged
  <2> SUFFICES ASSUME PlanInv, NEW s \in live, NEW d \in DependsOn(s)
               PROVE  d \in done /\ (d \in dropped \/ WorkOf(d))
    BY DEF DependenciesAreMerged
  <2>1. s \in Steps /\ s \in todo /\ BatchOf(s) = batch /\ pc \in Attempting /\ batch # 0
    BY PlanShape DEF PlanInv, CancelInv, Progress, BatchesInv, TypeOK, Attempting, InBatch
  <2>2. d \in Steps /\ BatchOf(d) \in 1..(batch - 1)
    BY <2>1, BatchLemma DEF PlanInv, TypeOK, Steps, BatchOf, DependsOn
  <2>3. BatchOf(d) < batch
    BY <2>2, PlanShape DEF PlanInv, TypeOK
  <2>4. d \in done
    BY <2>1, <2>2, <2>3 DEF PlanInv, BatchesInv
  <2>5. d \notin todo
    <3>1. BatchOf(d) # batch
      BY <2>2, <2>3, PlanShape DEF PlanInv, TypeOK
    <3> QED
      BY <2>1, <3>1, PlanShape DEF PlanInv, BatchesInv, CancelInv, Progress, InBatch
  <2> QED
    BY <2>4, <2>5 DEF PlanInv, WorkInv
<1> QED
  BY <1>1, PlanInvHolds, PTL
=============================================================================
