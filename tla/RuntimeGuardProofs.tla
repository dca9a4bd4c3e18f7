------------------------- MODULE RuntimeGuardProofs -------------------------
(***************************************************************************)
(* Proofs about RuntimeGuard, for every finite set of runs and every       *)
(* max_parallel.                                                           *)
(*                                                                         *)
(* The invariant falls in two halves that different steps disturb: the     *)
(* slots (who holds one, who waits for one) and the circuit.  Each way the *)
(* code moves a run between its states has a lemma about the slot half;    *)
(* the actions are then combinations of these moves and a circuit update.  *)
(***************************************************************************)
EXTENDS RuntimeGuard, FiniteSetTheorems, TLAPS

SlotInv ==
  /\ active \in Nat /\ active <= MaxParallel
  /\ queue \in Seq(Runs)
  /\ pc \in [Runs -> RunStates]
  /\ leaked \in SUBSET Runs
  /\ refusedAwake \in BOOLEAN
  /\ QueueIsWaiters
  /\ \A r \in leaked : pc[r] \in {"passed", "failed", "done"}
  /\ SlotAccounting
  /\ NoIdleSlotWhileWaiting

CircuitInv ==
  /\ circuit \in Circuit
  /\ latched \in BOOLEAN
  /\ fresh \in SUBSET Probes
  /\ circuit.evidence # NoEvidence => circuit.evidence \in fresh

\* The invariant is its half about slots and its half about the circuit.
LEMMA GuardInvSplits == GuardInv <=> SlotInv /\ CircuitInv
  BY DEF GuardInv, SlotInv, CircuitInv, TypeOK

\* The sets the accounting counts are finite.
LEMMA FiniteRuns ==
  ASSUME NEW S \in SUBSET Runs
  PROVE  IsFiniteSet(S) /\ Cardinality(S) \in Nat
  BY RunsAssumption, FS_Subset, FS_CardinalityType

\* The first element of a nonempty queue and the queue without it.
LEMMA QueueHead ==
  ASSUME NEW q \in Seq(Runs), q # <<>>
  PROVE  /\ Head(q) \in Runs /\ Head(q) = q[1]
         /\ Tail(q) \in Seq(Runs) /\ Len(Tail(q)) = Len(q) - 1
         /\ Len(q) \in Nat \ {0}
         /\ \A i \in 1..(Len(q) - 1) : Tail(q)[i] = q[i + 1]
  OBVIOUS

-----------------------------------------------------------------------------
\* acquireSlot's loop: the run reserves a free slot or joins the queue.
LEMMA TakeSlotOrWaitKeepsSlots ==
  ASSUME SlotInv, NEW r \in Runs, pc[r] \in {"idle", "woken"},
         TakeSlotOrWait(r), UNCHANGED <<leaked, refusedAwake>>
  PROVE  SlotInv'
<1> USE ParallelAssumption DEF SlotInv, RunStates
<1>1. CASE active >= MaxParallel
  <2>1. /\ queue' = Append(queue, r) /\ pc' = [pc EXCEPT ![r] = "waiting"]
        /\ UNCHANGED active
    BY <1>1 DEF TakeSlotOrWait
  <2>2. \A i \in 1..Len(queue) : queue[i] # r
    BY DEF QueueIsWaiters
  <2>3. QueueIsWaiters'
    BY <2>1, <2>2 DEF QueueIsWaiters
  <2>4. (SlotHolders \union leaked)' = SlotHolders \union leaked
    BY <2>1 DEF SlotHolders
  <2>5. SlotAccounting'
    BY <2>1, <2>4 DEF SlotAccounting
  <2>6. NoIdleSlotWhileWaiting'
    <3>1. Woken' \in SUBSET Runs
      BY DEF Woken
    <3>2. Cardinality(Woken') \in Nat
      BY <3>1, FiniteRuns
    <3> QED
      BY <1>1, <2>1, <3>2 DEF NoIdleSlotWhileWaiting
  <2> QED
    BY <2>1, <2>3, <2>5, <2>6
<1>2. CASE active < MaxParallel
  <2>1. /\ active' = active + 1 /\ pc' = [pc EXCEPT ![r] = "pacing"]
        /\ UNCHANGED queue
    BY <1>2 DEF TakeSlotOrWait
  <2>2. QueueIsWaiters'
    BY <2>1 DEF QueueIsWaiters
  <2>3. (SlotHolders \union leaked)' = (SlotHolders \union leaked) \union {r}
    BY <2>1 DEF SlotHolders
  <2>4. r \notin SlotHolders \union leaked
    BY DEF SlotHolders
  <2>5. IsFiniteSet(SlotHolders \union leaked)
    BY FiniteRuns DEF SlotHolders
  <2>6. SlotAccounting'
    BY <2>1, <2>3, <2>4, <2>5, FS_AddElement DEF SlotAccounting
  <2>7. NoIdleSlotWhileWaiting'
    <3>1. Woken \in SUBSET Runs /\ Woken' = Woken \ {r}
      BY <2>1 DEF Woken
    <3>2. Cardinality(Woken) \in Nat /\ Cardinality(Woken') \in Nat
      BY <3>1, FiniteRuns
    <3>3. Cardinality(Woken') >= Cardinality(Woken) - 1
      <4>1. IsFiniteSet(Woken)
        BY <3>1, FiniteRuns
      <4>2. Cardinality(Woken \ {r}) \in {Cardinality(Woken), Cardinality(Woken) - 1}
        BY <4>1, FS_RemoveElement
      <4> QED
        BY <3>1, <3>2, <4>2
    <3> QED
      BY <2>1, <3>2, <3>3 DEF NoIdleSlotWhileWaiting
  <2> QED
    BY <1>2, <2>1, <2>2, <2>6, <2>7
<1> QED
  BY <1>1, <1>2

\* A refusal: a run that arrives, or that wakes, leaves without a slot.
LEMMA RefuseKeepsSlots ==
  ASSUME SlotInv, NEW r \in Runs, Refuse(r), UNCHANGED leaked,
         \/ pc[r] = "idle" /\ UNCHANGED refusedAwake
         \/ pc[r] = "woken" /\ refusedAwake' = TRUE
  PROVE  SlotInv'
<1> USE DEF SlotInv, RunStates
<1>1. /\ UNCHANGED <<active, queue>>
      /\ \E s \in {"done", "passed", "failed"} : pc' = [pc EXCEPT ![r] = s]
  BY DEF Refuse, slotVars, Resolved
<1>2. QueueIsWaiters'
  BY <1>1 DEF QueueIsWaiters
<1>3. (SlotHolders \union leaked)' = SlotHolders \union leaked
  BY <1>1 DEF SlotHolders
<1>4. SlotAccounting'
  BY <1>1, <1>3 DEF SlotAccounting
<1>5. NoIdleSlotWhileWaiting'
  <2>1. CASE pc[r] = "idle" /\ UNCHANGED refusedAwake
    <3>1. Woken' = Woken
      BY <1>1, <2>1 DEF Woken
    <3> QED
      BY <1>1, <2>1, <3>1 DEF NoIdleSlotWhileWaiting
  <2>2. CASE refusedAwake' = TRUE
    BY <2>2 DEF NoIdleSlotWhileWaiting
  <2> QED
    BY <2>1, <2>2
<1> QED
  BY <1>1, <1>2, <1>4, <1>5

\* releaseSlot: the holder leaves and the head of the queue is woken.
LEMMA ReleaseSlotKeepsSlots ==
  ASSUME SlotInv, NEW r \in Runs, pc[r] \in {"pacing", "running"},
         NEW next \in {"done", "passed", "failed"},
         ReleaseSlot(r, next), UNCHANGED <<leaked, refusedAwake>>
  PROVE  SlotInv'
<1> USE ParallelAssumption DEF SlotInv, RunStates
<1> DEFINE Occupied == SlotHolders \union leaked
<1>1. Occupied \in SUBSET Runs /\ r \in Occupied /\ r \notin leaked
  BY DEF SlotHolders
<1>2. IsFiniteSet(Occupied) /\ Cardinality(Occupied) \in Nat
  BY <1>1, FiniteRuns
<1>3. active > 0
  <2>1. Cardinality(Occupied) # 0
    BY <1>1, <1>2, FS_EmptySet
  <2> QED
    BY <1>2, <2>1 DEF SlotAccounting
<1>4. active' = active - 1
  BY <1>3 DEF ReleaseSlot
<1>5. Cardinality(Occupied \ {r}) = Cardinality(Occupied) - 1
  BY <1>1, <1>2, FS_RemoveElement
<1>6. Woken \in SUBSET Runs /\ IsFiniteSet(Woken) /\ Cardinality(Woken) \in Nat
  BY FiniteRuns DEF Woken
<1>7. CASE queue = <<>>
  <2>1. pc' = [pc EXCEPT ![r] = next] /\ queue' = <<>>
    BY <1>7 DEF ReleaseSlot
  <2>2. Occupied' = Occupied \ {r}
    BY <1>1, <2>1 DEF SlotHolders
  <2>3. SlotAccounting'
    BY <1>2, <1>4, <1>5, <2>2 DEF SlotAccounting
  <2>4. QueueIsWaiters' /\ NoIdleSlotWhileWaiting'
    BY <2>1 DEF QueueIsWaiters, NoIdleSlotWhileWaiting
  <2> QED
    BY <1>1, <1>3, <1>4, <1>7, <2>1, <2>3, <2>4
<1>8. CASE queue # <<>>
  <2> DEFINE w == Head(queue)
  <2>1. /\ pc' = [pc EXCEPT ![r] = next, ![w] = "woken"]
        /\ queue' = Tail(queue)
    BY <1>8 DEF ReleaseSlot
  <2>2. w \in Runs /\ pc[w] = "waiting" /\ w = queue[1] /\ w # r
    BY <1>8, QueueHead DEF QueueIsWaiters
  <2>3. QueueIsWaiters'
    BY <1>8, <2>1, <2>2, QueueHead DEF QueueIsWaiters
  <2>4. Occupied' = Occupied \ {r}
    BY <1>1, <2>1, <2>2 DEF SlotHolders
  <2>5. SlotAccounting'
    BY <1>2, <1>4, <1>5, <2>4 DEF SlotAccounting
  <2>6. Woken' = Woken \union {w} /\ w \notin Woken
    BY <2>1, <2>2 DEF Woken
  <2>7. Cardinality(Woken') = Cardinality(Woken) + 1
    BY <1>6, <2>6, FS_AddElement
  <2>8. NoIdleSlotWhileWaiting'
    BY <1>4, <1>6, <1>8, <2>7 DEF NoIdleSlotWhileWaiting
  <2>9. /\ queue' \in Seq(Runs) /\ pc' \in [Runs -> RunStates]
        /\ \A q \in leaked' : pc'[q] \in {"passed", "failed", "done"}
    BY <1>1, <1>8, <2>1, <2>2, QueueHead
  <2> QED
    BY <1>3, <1>4, <2>3, <2>5, <2>8, <2>9
<1> QED
  BY <1>7, <1>8

\* A move that neither takes, gives back, loses nor waits for a slot: spawning
\* the child, and a probe's verdict.
LEMMA InnerMoveKeepsSlots ==
  ASSUME SlotInv, NEW r \in Runs, UNCHANGED <<active, queue, leaked, refusedAwake>>,
         \/ pc[r] = "pacing" /\ pc' = [pc EXCEPT ![r] = "running"]
         \/ pc[r] \in {"passed", "failed"} /\ pc' = [pc EXCEPT ![r] = "done"]
  PROVE  SlotInv'
<1> USE DEF SlotInv, RunStates
<1>1. QueueIsWaiters'
  BY DEF QueueIsWaiters
<1>2. (SlotHolders \union leaked)' = SlotHolders \union leaked
  BY DEF SlotHolders
<1>3. Woken' = Woken
  BY DEF Woken
<1>4. SlotAccounting' /\ NoIdleSlotWhileWaiting'
  BY <1>2, <1>3 DEF SlotAccounting, NoIdleSlotWhileWaiting
<1> QED
  BY <1>1, <1>4

\* A spawn that throws: the run is over and its slot stays counted.
LEMMA SpawnThrowsKeepsSlots ==
  ASSUME SlotInv, NEW r \in Runs, SpawnThrows(r)
  PROVE  SlotInv'
<1> USE DEF SlotInv, RunStates
<1>1. /\ UNCHANGED <<active, queue, refusedAwake>> /\ leaked' = leaked \union {r}
      /\ pc[r] = "pacing"
      /\ \E s \in {"done", "passed", "failed"} : pc' = [pc EXCEPT ![r] = s]
  BY DEF SpawnThrows, Resolved
<1>2. QueueIsWaiters'
  BY <1>1 DEF QueueIsWaiters
<1>3. (SlotHolders \union leaked)' = SlotHolders \union leaked
  BY <1>1 DEF SlotHolders
<1>4. Woken' = Woken
  BY <1>1 DEF Woken
<1>5. SlotAccounting' /\ NoIdleSlotWhileWaiting'
  BY <1>1, <1>3, <1>4 DEF SlotAccounting, NoIdleSlotWhileWaiting
<1> QED
  BY <1>1, <1>2, <1>5

\* Steps of the operator and of queries that leave the slots alone.
LEMMA UnchangedKeepsSlots ==
  ASSUME SlotInv, UNCHANGED <<active, queue, pc, leaked, refusedAwake>>
  PROVE  SlotInv'
  BY DEF SlotInv, QueueIsWaiters, SlotAccounting, SlotHolders, Woken,
         NoIdleSlotWhileWaiting

-----------------------------------------------------------------------------
\* A record with the evidence cleared is a circuit.
LEMMA ClearedIsCircuit ==
  ASSUME NEW s \in CircuitStates
  PROVE  /\ Cleared(s) \in Circuit
         /\ Cleared(s).state = s /\ Cleared(s).evidence = NoEvidence
  BY DEF Cleared, Circuit

\* Projecting a cooldown keeps the record's type and its evidence.
LEMMA ProjectedIsCircuit ==
  ASSUME NEW c \in Circuit, NEW elapsed \in BOOLEAN
  PROVE  Projected(c, elapsed) \in Circuit /\ Projected(c, elapsed).evidence = c.evidence
  BY DEF Projected, Circuit, CircuitStates

\* recordResult keeps the circuit half of the invariant.
LEMMA RecordResultKeepsCircuit ==
  ASSUME CircuitInv, NEW category \in Categories, RecordResult(category)
  PROVE  CircuitInv'
<1>1. SafetyAction(category) \in {"OPEN_MANUAL_RESET", "COOLDOWN", "NONE"}
  BY DEF SafetyAction
<1>2. CASE SafetyAction(category) = "OPEN_MANUAL_RESET"
  <2>1. circuit' = Cleared("OPEN_MANUAL_RESET")
    BY <1>2 DEF RecordResult, AfterResult, SafetyAction
  <2> QED
    BY <2>1, ClearedIsCircuit DEF RecordResult, CircuitInv, CircuitStates
<1>3. CASE SafetyAction(category) = "COOLDOWN"
  <2>1. circuit' = Cleared("OPEN_COOLDOWN")
    BY <1>3 DEF RecordResult, AfterResult, SafetyAction
  <2> QED
    BY <2>1, ClearedIsCircuit DEF RecordResult, CircuitInv, CircuitStates
<1>4. CASE SafetyAction(category) = "NONE"
  <2>1. fresh' = fresh /\ latched' \in BOOLEAN
    BY <1>4 DEF RecordResult, CircuitInv
  <2>2. circuit' = Cleared("CLOSED") \/ circuit' = circuit
    BY <1>4 DEF RecordResult, AfterResult
  <2> QED
    BY <2>1, <2>2, ClearedIsCircuit DEF CircuitInv, CircuitStates
<1> QED
  BY <1>1, <1>2, <1>3, <1>4

\* A projection keeps the circuit half of the invariant.
LEMMA ProjectionKeepsCircuit ==
  ASSUME CircuitInv, NEW elapsed \in BOOLEAN,
         circuit' = Projected(circuit, elapsed), UNCHANGED <<latched, fresh>>
  PROVE  CircuitInv'
  BY ProjectedIsCircuit DEF CircuitInv

-----------------------------------------------------------------------------
\* A process starts with no run, no waiter and the circuit its file holds.
LEMMA InitGuardInv == Init => GuardInv
<1> SUFFICES ASSUME Init PROVE SlotInv /\ CircuitInv
  BY GuardInvSplits
<1>1. PICK s \in CircuitStates : circuit = Cleared(s)
  BY DEF Init
<1>2. CircuitInv
  BY <1>1, ClearedIsCircuit DEF Init, CircuitInv
<1>3. SlotHolders \union leaked = {}
  BY DEF Init, SlotHolders
<1>4. SlotAccounting
  BY <1>3, FS_EmptySet DEF Init, SlotAccounting
<1>5. QueueIsWaiters /\ NoIdleSlotWhileWaiting
  BY DEF Init, QueueIsWaiters, NoIdleSlotWhileWaiting
<1>6. pc \in [Runs -> RunStates]
  BY DEF Init, RunStates
<1>7. active = 0 /\ queue = <<>> /\ leaked = {} /\ refusedAwake = FALSE
  BY DEF Init
<1>8. SlotInv
  <2>1. active \in Nat /\ active <= MaxParallel
    BY <1>7, ParallelAssumption
  <2>2. queue \in Seq(Runs)
    BY <1>7
  <2>3. leaked \in SUBSET Runs /\ refusedAwake \in BOOLEAN
    BY <1>7
  <2>4. \A r \in leaked : pc[r] \in {"passed", "failed", "done"}
    BY <1>7
  <2> QED
    BY <1>4, <1>5, <1>6, <2>1, <2>2, <2>3, <2>4 DEF SlotInv
<1> QED
  BY <1>2, <1>8

\* Every step of one run's execAsync call preserves the invariant.
LEMMA RunStepKeepsGuardInv ==
  ASSUME SlotInv, CircuitInv, NEW r \in Runs, RunStep(r)
  PROVE  SlotInv' /\ CircuitInv'
<1> USE DEF history
<1>1. CASE AcquireSlot(r)
  <2>1. PICK elapsed \in BOOLEAN : circuit' = Projected(circuit, elapsed)
    BY <1>1 DEF AcquireSlot
  <2>2. CircuitInv'
    BY <1>1, <2>1, ProjectionKeepsCircuit DEF AcquireSlot
  <2>3. SlotInv'
    BY <1>1, TakeSlotOrWaitKeepsSlots, RefuseKeepsSlots DEF AcquireSlot
  <2> QED
    BY <2>2, <2>3
<1>2. CASE ResumeAcquire(r)
  <2>1. PICK elapsed \in BOOLEAN : circuit' = Projected(circuit, elapsed)
    BY <1>2 DEF ResumeAcquire
  <2>2. CircuitInv'
    BY <1>2, <2>1, ProjectionKeepsCircuit DEF ResumeAcquire
  <2>3. SlotInv'
    BY <1>2, TakeSlotOrWaitKeepsSlots, RefuseKeepsSlots DEF ResumeAcquire
  <2> QED
    BY <2>2, <2>3
<1>3. CASE Spawn(r)
  BY <1>3, InnerMoveKeepsSlots DEF Spawn, CircuitInv
<1>4. CASE CwdMissing(r)
  <2>1. CircuitInv'
    BY <1>4, RecordResultKeepsCircuit DEF CwdMissing, Categories
  <2>2. SlotInv'
    BY <1>4, ReleaseSlotKeepsSlots DEF CwdMissing, Resolved
  <2> QED
    BY <2>1, <2>2
<1>5. CASE SpawnThrows(r)
  BY <1>5, SpawnThrowsKeepsSlots DEF SpawnThrows, CircuitInv
<1>6. CASE Cancelled(r)
  BY <1>6, ReleaseSlotKeepsSlots DEF Cancelled, Resolved, CircuitInv
<1>7. CASE Settle(r)
  <2>1. PICK category \in Outcomes, success \in BOOLEAN :
          RecordResult(category) /\ ReleaseSlot(r, Resolved(r, success))
    BY <1>7 DEF Settle
  <2>2. CircuitInv'
    BY <2>1, OutcomesAssumption, RecordResultKeepsCircuit
  <2>3. Resolved(r, success) \in {"done", "passed", "failed"}
    BY DEF Resolved
  <2>4. SlotInv'
    BY <1>7, <2>1, <2>3, ReleaseSlotKeepsSlots DEF Settle
  <2> QED
    BY <2>2, <2>4
<1> QED
  BY <1>1, <1>2, <1>3, <1>4, <1>5, <1>6, <1>7 DEF RunStep

\* Every call of the operator preserves the invariant.
LEMMA OperatorStepKeepsGuardInv ==
  ASSUME SlotInv, CircuitInv, OperatorStep
  PROVE  SlotInv' /\ CircuitInv'
<1>1. CASE ResetCircuit
  BY <1>1, UnchangedKeepsSlots, ClearedIsCircuit
  DEF ResetCircuit, CircuitInv, CircuitStates
<1>2. ASSUME NEW p \in Probes, StartProbe(p)
      PROVE  SlotInv' /\ CircuitInv'
  <2>1. CircuitInv'
    BY <1>2, ClearedIsCircuit DEF StartProbe, history, CircuitInv, CircuitStates
  <2>2. SlotInv'
    BY <1>2, RunsAssumption, TakeSlotOrWaitKeepsSlots DEF StartProbe, history
  <2> QED
    BY <2>1, <2>2
<1>3. ASSUME NEW p \in Probes, ProbePassed(p)
      PROVE  SlotInv' /\ CircuitInv'
  <2>1. CircuitInv'
    BY <1>3 DEF ProbePassed, CircuitInv, Circuit, CircuitStates
  <2>2. SlotInv'
    BY <1>3, RunsAssumption, InnerMoveKeepsSlots DEF ProbePassed
  <2> QED
    BY <2>1, <2>2
<1>4. ASSUME NEW p \in Probes, ProbeFailed(p)
      PROVE  SlotInv' /\ CircuitInv'
  <2>1. CircuitInv'
    BY <1>4, ClearedIsCircuit DEF ProbeFailed, CircuitInv, CircuitStates
  <2>2. SlotInv'
    BY <1>4, RunsAssumption, InnerMoveKeepsSlots DEF ProbeFailed
  <2> QED
    BY <2>1, <2>2
<1>5. ASSUME NEW e \in Probes, AdmitExecutor(e)
      PROVE  SlotInv' /\ CircuitInv'
  BY <1>5, UnchangedKeepsSlots, ClearedIsCircuit
  DEF AdmitExecutor, CircuitInv, CircuitStates
<1> QED
  BY <1>1, <1>2, <1>3, <1>4, <1>5 DEF OperatorStep

\* The invariant is inductive.
LEMMA StepKeepsGuardInv == GuardInv /\ [Next]_vars => GuardInv'
<1> SUFFICES ASSUME SlotInv, CircuitInv, [Next]_vars
             PROVE  SlotInv' /\ CircuitInv'
  BY DEF GuardInv, SlotInv, CircuitInv, TypeOK
<1>1. CASE QueryCircuit
  BY <1>1, UnchangedKeepsSlots, ProjectionKeepsCircuit DEF QueryCircuit, history
<1>2. ASSUME NEW r \in Runs, RunStep(r)
      PROVE  SlotInv' /\ CircuitInv'
  BY <1>2, RunStepKeepsGuardInv
<1>3. CASE OperatorStep
  BY <1>3, OperatorStepKeepsGuardInv
<1>4. CASE UNCHANGED vars
  BY <1>4, UnchangedKeepsSlots DEF vars, CircuitInv
<1> QED
  BY <1>1, <1>2, <1>3, <1>4 DEF Next

\* The guard's inductive invariant holds in every reachable state, for any
\* number of runs, probes and parallel slots.
THEOREM GuardInvariant == Spec => []GuardInv
  BY InitGuardInv, StepKeepsGuardInv, PTL DEF Spec

\* Types: of the circuit record (only a half-open circuit carries evidence),
\* of the counter, the queue and the runs.
THEOREM TypeCorrectness == Spec => []TypeOK
<1>1. GuardInv => TypeOK
  BY DEF GuardInv
<1> QED
  BY <1>1, GuardInvariant, PTL

\* acquireSlot and releaseSlot never let more than max_parallel runs of the
\* executor be launched or alive at once.
THEOREM SlotsNeverExceedMaxParallel == Spec => []SlotsBounded
<1>1. GuardInv => SlotsBounded
  <2> SUFFICES ASSUME GuardInv PROVE SlotsBounded
    OBVIOUS
  <2> DEFINE Occupied == SlotHolders \union leaked
  <2>1. Occupied \in SUBSET Runs /\ SlotHolders \in SUBSET Occupied
    BY DEF GuardInv, TypeOK, SlotHolders
  <2>2. SlotHolders \in SUBSET Runs
    BY DEF SlotHolders
  <2>3. IsFiniteSet(Occupied) /\ Cardinality(Occupied) \in Nat
        /\ Cardinality(SlotHolders) \in Nat
    BY <2>1, <2>2, FiniteRuns
  <2>4. Cardinality(SlotHolders) <= Cardinality(Occupied)
    BY <2>1, <2>3, FS_Subset
  <2> QED
    BY <2>3, <2>4, ParallelAssumption DEF GuardInv, SlotAccounting, SlotsBounded
<1> QED
  BY <1>1, GuardInvariant, PTL

\* As long as no woken waiter has been refused, releaseSlot's wake-up of one
\* waiter per slot is enough: no slot idles in front of a waiting run.
THEOREM WakeUpsSuffice == Spec => []NoIdleSlotWhileWaiting
<1>1. GuardInv => NoIdleSlotWhileWaiting
  BY DEF GuardInv
<1> QED
  BY <1>1, GuardInvariant, PTL

\* The re-check after a wake-up makes every reservation one that the circuit
\* permits when it is made.
THEOREM ReservationsArePermitted == Spec => SlotsTakenUnderPermit
<1>1. GuardInv /\ [Next]_vars =>
        [\A r \in Runs : r \in SlotHolders' \ SlotHolders => MayExecute(circuit', r)]_vars
  <2> SUFFICES ASSUME GuardInv, Next, NEW r \in Runs, r \in SlotHolders' \ SlotHolders
               PROVE  MayExecute(circuit', r)
    OBVIOUS
  <2>0. pc \in [Runs -> RunStates] /\ QueueIsWaiters /\ queue \in Seq(Runs)
    BY DEF GuardInv, TypeOK
  <2>1. r \notin SlotHolders /\ pc'[r] \in {"pacing", "running"}
    BY DEF SlotHolders
  <2>2. pc[r] \notin {"pacing", "running"}
    BY <2>1 DEF SlotHolders
  <2>3. ~ UNCHANGED pc
    BY <2>1, <2>2
  <2>4. ASSUME NEW q \in Runs, RunStep(q)
        PROVE  MayExecute(circuit', r)
    <3>1. CASE AcquireSlot(q)
      BY <2>0, <2>1, <2>2, <3>1 DEF AcquireSlot, TakeSlotOrWait, Refuse, Resolved
    <3>2. CASE ResumeAcquire(q)
      BY <2>0, <2>1, <2>2, <3>2 DEF ResumeAcquire, TakeSlotOrWait, Refuse, Resolved
    <3>3. CASE Spawn(q)
      BY <2>0, <2>1, <2>2, <3>3 DEF Spawn
    <3>4. CASE SpawnThrows(q)
      BY <2>0, <2>1, <2>2, <3>4 DEF SpawnThrows, Resolved
    <3>5. ASSUME NEW next \in {"done", "passed", "failed"}, ReleaseSlot(q, next)
          PROVE  FALSE
      <4>1. CASE queue = <<>>
        BY <2>0, <2>1, <2>2, <3>5, <4>1 DEF ReleaseSlot
      <4>2. CASE queue # <<>>
        BY <2>0, <2>1, <2>2, <3>5, <4>2 DEF ReleaseSlot
      <4> QED
        BY <4>1, <4>2
    <3>6. \A b \in BOOLEAN : Resolved(q, b) \in {"done", "passed", "failed"}
      BY DEF Resolved
    <3>7. CASE CwdMissing(q)
      BY <3>5, <3>6, <3>7 DEF CwdMissing
    <3>8. CASE Cancelled(q)
      BY <3>5, <3>6, <3>8 DEF Cancelled
    <3>9. CASE Settle(q)
      <4>1. PICK success \in BOOLEAN : ReleaseSlot(q, Resolved(q, success))
        BY <3>9 DEF Settle
      <4> QED
        BY <3>5, <3>6, <4>1
    <3> QED
      BY <2>4, <3>1, <3>2, <3>3, <3>4, <3>7, <3>8, <3>9 DEF RunStep
  <2>5. CASE OperatorStep
    <3>1. CASE ResetCircuit
      BY <2>3, <3>1 DEF ResetCircuit
    <3>2. ASSUME NEW p \in Probes, StartProbe(p)
          PROVE  MayExecute(circuit', r)
      BY <2>0, <2>1, <2>2, <3>2, RunsAssumption, ClearedIsCircuit
      DEF StartProbe, TakeSlotOrWait, MayExecute, CircuitStates
    <3>3. ASSUME NEW p \in Probes, ProbePassed(p) \/ ProbeFailed(p) \/ AdmitExecutor(p)
          PROVE  FALSE
      BY <2>0, <2>1, <2>2, <3>3, RunsAssumption DEF ProbePassed, ProbeFailed, AdmitExecutor
    <3> QED
      BY <2>5, <3>1, <3>2, <3>3 DEF OperatorStep
  <2>6. CASE QueryCircuit
    BY <2>3, <2>6 DEF QueryCircuit
  <2> QED
    BY <2>4, <2>5, <2>6 DEF Next
<1> QED
  BY <1>1, GuardInvariant, PTL DEF Spec, SlotsTakenUnderPermit

\* A latched circuit is never half opened: recordProbeSuccess looks at the
\* state, and only an elapsed cooldown is projected to HALF_OPEN.
LEMMA LatchedIsNotHalfOpened ==
  ASSUME CircuitInv, [Next]_vars, circuit.state = "OPEN_MANUAL_RESET"
  PROVE  circuit'.state # "HALF_OPEN"
<1>1. \A elapsed \in BOOLEAN : Projected(circuit, elapsed) = circuit
  BY DEF Projected
<1>2. ASSUME NEW category \in Categories, RecordResult(category)
      PROVE  circuit'.state # "HALF_OPEN"
  BY <1>2, ClearedIsCircuit DEF RecordResult, AfterResult, SafetyAction, CircuitStates
<1>3. ASSUME NEW r \in Runs, RunStep(r)
      PROVE  circuit'.state # "HALF_OPEN"
  <2>1. CASE AcquireSlot(r) \/ ResumeAcquire(r)
    BY <1>1, <2>1 DEF AcquireSlot, ResumeAcquire
  <2>2. CASE Spawn(r) \/ SpawnThrows(r) \/ Cancelled(r)
    BY <2>2 DEF Spawn, SpawnThrows, Cancelled
  <2>3. CASE CwdMissing(r)
    BY <1>2, <2>3 DEF CwdMissing, Categories
  <2>4. CASE Settle(r)
    BY <1>2, <2>4, OutcomesAssumption DEF Settle
  <2> QED
    BY <1>3, <2>1, <2>2, <2>3, <2>4 DEF RunStep
<1>4. CASE OperatorStep
  <2>1. \A s \in {"CLOSED", "PROBING", "OPEN_MANUAL_RESET"} : Cleared(s).state = s
    BY ClearedIsCircuit DEF CircuitStates
  <2> QED
    BY <1>4, <2>1
    DEF OperatorStep, ResetCircuit, StartProbe, ProbePassed, ProbeFailed, AdmitExecutor
<1>5. CASE QueryCircuit
  BY <1>1, <1>5 DEF QueryCircuit
<1> QED
  BY <1>3, <1>4, <1>5 DEF Next, vars

\* admitExecutor closes a half-open circuit only with the evidence of a probe
\* that succeeded after the last failure, and recordProbeSuccess never half
\* opens a circuit that another run has latched.
THEOREM RecoveryIsGated == Spec => GatedRecovery
<1>1. GuardInv => \A e \in Probes : AdmitExecutor(e) => e \in fresh
  BY RunsAssumption, EvidenceAssumption DEF GuardInv, AdmitExecutor
<1>2. GuardInv /\ [Next]_vars =>
        (circuit.state = "OPEN_MANUAL_RESET" => circuit'.state # "HALF_OPEN")
  BY LatchedIsNotHalfOpened, GuardInvSplits
<1>3. GuardInv /\ [Next]_vars =>
        [/\ \A e \in Probes : AdmitExecutor(e) => e \in fresh
         /\ circuit.state = "OPEN_MANUAL_RESET" => circuit'.state # "HALF_OPEN"]_vars
  BY <1>1, <1>2
<1> QED
  BY <1>3, GuardInvariant, PTL DEF Spec, GatedRecovery

-----------------------------------------------------------------------------
(***************************************************************************)
(* The guard implements the pool of tickets.                               *)
(***************************************************************************)
Waiters == {r \in Runs : pc[r] \in {"waiting", "woken"}}

PoolStep == Pool!Next \/ UNCHANGED <<SlotHolders, Waiters, leaked>>

\* The counter the code compares with max_parallel says whether a ticket is free.
LEMMA CounterIsTickets ==
  ASSUME SlotInv
  PROVE  Pool!TicketFree <=> active < MaxParallel
<1>1. Cardinality(SlotHolders \union leaked) = active
  BY DEF SlotInv, SlotAccounting
<1> QED
  BY <1>1, Zenon DEF Pool!TicketFree, Pool!Cardinality, Cardinality

\* acquireSlot's loop takes a ticket or waits for one.
LEMMA TakeSlotOrWaitIsPoolStep ==
  ASSUME SlotInv, NEW r \in Runs, pc[r] \in {"idle", "woken"},
         TakeSlotOrWait(r), UNCHANGED leaked
  PROVE  PoolStep
<1> USE DEF SlotInv, RunStates
<1>1. CASE active >= MaxParallel
  <2>1. pc' = [pc EXCEPT ![r] = "waiting"]
    BY <1>1, ParallelAssumption DEF TakeSlotOrWait
  <2>2. SlotHolders' = SlotHolders /\ Waiters' = Waiters \union {r}
    BY <2>1 DEF SlotHolders, Waiters
  <2>3. ~Pool!TicketFree
    BY <1>1, CounterIsTickets, ParallelAssumption
  <2> QED
    BY <2>2, <2>3 DEF PoolStep, Pool!Next, Pool!Wait, Waiters
<1>2. CASE active < MaxParallel
  <2>1. pc' = [pc EXCEPT ![r] = "pacing"]
    BY <1>2, ParallelAssumption DEF TakeSlotOrWait
  <2>2. /\ SlotHolders' = SlotHolders \union {r} /\ Waiters' = Waiters \ {r}
        /\ r \notin SlotHolders \union leaked
    BY <2>1 DEF SlotHolders, Waiters
  <2>3. Pool!TicketFree
    BY <1>2, CounterIsTickets
  <2> QED
    BY <2>2, <2>3 DEF PoolStep, Pool!Next, Pool!Take, Waiters
<1> QED
  BY <1>1, <1>2, ParallelAssumption

\* A refusal turns a waiter away; of a run that just arrived the pool sees nothing.
LEMMA RefuseIsPoolStep ==
  ASSUME SlotInv, NEW r \in Runs, pc[r] \in {"idle", "woken"}, Refuse(r), UNCHANGED leaked
  PROVE  PoolStep
<1> USE DEF SlotInv, RunStates
<1>1. \E s \in {"done", "passed", "failed"} : pc' = [pc EXCEPT ![r] = s]
  BY DEF Refuse, Resolved
<1>2. SlotHolders' = SlotHolders /\ Waiters' = Waiters \ {r}
  BY <1>1 DEF SlotHolders, Waiters
<1> QED
  BY <1>2 DEF PoolStep, Pool!Next, Pool!TurnAway, Waiters

\* releaseSlot gives one ticket back; the waiter it wakes goes on waiting.
LEMMA ReleaseSlotIsPoolStep ==
  ASSUME SlotInv, NEW r \in Runs, pc[r] \in {"pacing", "running"},
         NEW next \in {"done", "passed", "failed"}, ReleaseSlot(r, next), UNCHANGED leaked
  PROVE  PoolStep
<1> USE DEF SlotInv, RunStates
<1>1. SlotHolders' = SlotHolders \ {r} /\ Waiters' = Waiters /\ r \in SlotHolders
  <2>1. CASE queue = <<>>
    BY <2>1 DEF ReleaseSlot, SlotHolders, Waiters
  <2>2. CASE queue # <<>>
    <3>1. /\ pc' = [pc EXCEPT ![r] = next, ![Head(queue)] = "woken"]
          /\ Head(queue) \in Runs /\ pc[Head(queue)] = "waiting"
      BY <2>2, QueueHead DEF ReleaseSlot, QueueIsWaiters
    <3> QED
      BY <3>1 DEF SlotHolders, Waiters
  <2> QED
    BY <2>1, <2>2
<1> QED
  BY <1>1 DEF PoolStep, Pool!Next, Pool!GiveBack, Waiters

\* Steps between states the pool does not tell apart.
LEMMA InnerMoveIsStutter ==
  ASSUME SlotInv, NEW r \in Runs, UNCHANGED leaked,
         \/ UNCHANGED pc
         \/ pc[r] = "pacing" /\ pc' = [pc EXCEPT ![r] = "running"]
         \/ pc[r] \in {"passed", "failed"} /\ pc' = [pc EXCEPT ![r] = "done"]
  PROVE  PoolStep
<1> USE DEF SlotInv, RunStates
<1>1. SlotHolders' = SlotHolders /\ Waiters' = Waiters
  BY DEF SlotHolders, Waiters
<1> QED
  BY <1>1 DEF PoolStep

\* A run whose spawn throws loses its ticket.
LEMMA SpawnThrowsIsPoolStep ==
  ASSUME SlotInv, NEW r \in Runs, SpawnThrows(r)
  PROVE  PoolStep
<1> USE DEF SlotInv, RunStates
<1>1. /\ pc[r] = "pacing" /\ leaked' = leaked \union {r}
      /\ \E s \in {"done", "passed", "failed"} : pc' = [pc EXCEPT ![r] = s]
  BY DEF SpawnThrows, Resolved
<1>2. SlotHolders' = SlotHolders \ {r} /\ Waiters' = Waiters /\ r \in SlotHolders
  BY <1>1 DEF SlotHolders, Waiters
<1> QED
  BY <1>1, <1>2 DEF PoolStep, Pool!Next, Pool!Lose, Waiters

\* Every step of the guard is a step of the pool or leaves it alone.
LEMMA NextIsPoolStep ==
  ASSUME SlotInv, Next
  PROVE  PoolStep
<1> USE DEF history
<1>1. ASSUME NEW r \in Runs, RunStep(r)
      PROVE  PoolStep
  <2>1. CASE AcquireSlot(r)
    BY <2>1, TakeSlotOrWaitIsPoolStep, RefuseIsPoolStep DEF AcquireSlot
  <2>2. CASE ResumeAcquire(r)
    BY <2>2, TakeSlotOrWaitIsPoolStep, RefuseIsPoolStep DEF ResumeAcquire
  <2>3. CASE Spawn(r)
    BY <2>3, InnerMoveIsStutter DEF Spawn
  <2>4. CASE SpawnThrows(r)
    BY <2>4, SpawnThrowsIsPoolStep
  <2>5. \A b \in BOOLEAN : Resolved(r, b) \in {"done", "passed", "failed"}
    BY DEF Resolved
  <2>6. CASE CwdMissing(r)
    BY <2>5, <2>6, ReleaseSlotIsPoolStep DEF CwdMissing
  <2>7. CASE Cancelled(r)
    BY <2>5, <2>7, ReleaseSlotIsPoolStep DEF Cancelled
  <2>8. CASE Settle(r)
    <3>1. PICK success \in BOOLEAN : ReleaseSlot(r, Resolved(r, success))
      BY <2>8 DEF Settle
    <3> QED
      BY <2>5, <2>8, <3>1, ReleaseSlotIsPoolStep DEF Settle
  <2> QED
    BY <1>1, <2>1, <2>2, <2>3, <2>4, <2>6, <2>7, <2>8 DEF RunStep
<1>2. CASE OperatorStep
  <2>1. CASE ResetCircuit
    BY <2>1 DEF ResetCircuit, PoolStep, SlotHolders, Waiters
  <2>2. ASSUME NEW p \in Probes, StartProbe(p)
        PROVE  PoolStep
    BY <2>2, RunsAssumption, TakeSlotOrWaitIsPoolStep DEF StartProbe
  <2>3. ASSUME NEW p \in Probes, ProbePassed(p) \/ ProbeFailed(p) \/ AdmitExecutor(p)
        PROVE  PoolStep
    BY <2>3, RunsAssumption, InnerMoveIsStutter DEF ProbePassed, ProbeFailed, AdmitExecutor
  <2> QED
    BY <1>2, <2>1, <2>2, <2>3 DEF OperatorStep
<1>3. CASE QueryCircuit
  BY <1>3 DEF QueryCircuit, PoolStep, SlotHolders, Waiters
<1> QED
  BY <1>1, <1>2, <1>3 DEF Next

\* The guard's counter, queue and re-checking waiters implement the pool of
\* tickets, for every number of runs and slots: no interleaving hands a ticket
\* out twice, takes one back twice or queues a run while a ticket is free.
THEOREM GuardImplementsPool == Spec => ImplementsPool
<1>1. Init => Pool!Init
  BY DEF Init, Pool!Init, SlotHolders
<1>2. GuardInv /\ [Next]_vars => [Pool!Next]_(Pool!vars)
  <2>1. ASSUME GuardInv, Next
        PROVE  Pool!Next \/ UNCHANGED Pool!vars
    BY <2>1, GuardInvSplits, NextIsPoolStep DEF PoolStep, Pool!vars, Waiters
  <2>2. ASSUME UNCHANGED vars
        PROVE  UNCHANGED Pool!vars
    BY <2>2 DEF vars, Pool!vars, SlotHolders
  <2> QED
    BY <2>1, <2>2
<1> QED
  BY <1>1, <1>2, GuardInvariant, PTL DEF Spec, ImplementsPool, Pool!Spec
=============================================================================
