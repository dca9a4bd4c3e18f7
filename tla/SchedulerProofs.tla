--------------------------- MODULE SchedulerProofs ---------------------------
(***************************************************************************)
(* Theorems about Scheduler, for any finite set of tasks, any number of    *)
(* slots and restarts, and every choice of interventions.                  *)
(***************************************************************************)
EXTENDS Scheduler, FiniteSetTheorems, TLAPS

\* A task in the publish-sensitive stage is the one that holds the target.
GateHolds == \A t \in Tasks : chain[t] = "gate" => holder = t

\* The inductive invariant.
SchedulerInv == TypeOK /\ LocksMatchChains /\ GateHolds /\ SlotsBounded

\* The steps by kind, each with the task it is about.
LEMMA StepKinds ==
  ASSUME TypeOK, [Next]_vars
  PROVE  \/ RunNext \/ PumpThrows \/ PumpEnds \/ Shutdown \/ Restart \/ UNCHANGED vars
         \/ PumpStarts /\ Head(queue) \in Tasks
         \/ \E t \in Tasks :
              \/ Enqueue(t) \/ RunTask(t) \/ ResumeTask(t) \/ CancelTask(t)
              \/ EnterGate(t) \/ RetryChain(t) \/ ChainEnds(t) \/ ReturnsEarly(t)
              \/ OtherLocks(t) \/ OtherReleases(t) \/ OtherCancels(t)
<1>1. PumpStarts => Head(queue) \in Tasks
  BY DEF TypeOK, PumpStarts, MayPump
<1> QED BY <1>1 DEF Next, Pump, ChainStep, Call, Other

\* The queue stays one when its head or one of its tasks is taken out.
LEMMA QueueTypes ==
  ASSUME TypeOK
  PROVE  /\ queue # <<>> => Tail(queue) \in Seq(Tasks)
         /\ \A t \in Tasks : Without(t) \in Seq(Tasks) /\ Append(queue, t) \in Seq(Tasks)
<1>1. queue \in Seq(Tasks)
  BY DEF TypeOK
<1>2. ASSUME NEW t \in Tasks PROVE Without(t) \in Seq(Tasks)
  <2>1. CASE InQueue(t)
    <3> DEFINE i == CHOOSE i \in 1..Len(queue) : queue[i] = t
    <3>1. i \in 1..Len(queue)
      BY <2>1 DEF InQueue
    <3> HIDE DEF i
    <3>2. /\ SubSeq(queue, 1, i - 1) \in Seq(Tasks)
          /\ SubSeq(queue, i + 1, Len(queue)) \in Seq(Tasks)
      BY <1>1, <3>1
    <3>3. Without(t) = SubSeq(queue, 1, i - 1) \o SubSeq(queue, i + 1, Len(queue))
      BY <2>1 DEF Without, i
    <3> QED BY <3>2, <3>3
  <2>2. CASE ~InQueue(t)
    BY <1>1, <2>2 DEF Without
  <2> QED BY <2>1, <2>2
<1> QED BY <1>1, <1>2

\* Nothing has been started at the beginning.
LEMMA InitInv == Init => SchedulerInv
<1> SUFFICES ASSUME Init PROVE SchedulerInv
  OBVIOUS
<1> USE TasksAssumption, ConcurrencyAssumption DEF Init
<1>1. TypeOK
  <2>1. state \in [Tasks -> States] /\ chain \in [Tasks -> Chains]
    BY DEF States, Chains
  <2>2. lock \in [Tasks -> {"free", "own", "other"}]
    BY DEF Init
  <2>4. queue \in Seq(Tasks)
    BY DEF Init
  <2>3. /\ waiting \in SUBSET Tasks /\ holder \in Governed \union {Nobody}
    BY DEF Init
  <2>5. pump \in {"off", "call", "chain"} /\ shutdown \in BOOLEAN /\ up \in BOOLEAN
    BY DEF Init
  <2>6. restarts \in 0..MaxRestarts
    BY DEF Init
  <2> QED BY <2>1, <2>2, <2>3, <2>4, <2>5, <2>6 DEF TypeOK
<1>2. LocksMatchChains
  BY DEF LocksMatchChains
<1>3. GateHolds
  BY DEF GateHolds
<1>4. SlotsBounded
  <2>1. Active = {}
    BY DEF Active
  <2> QED BY <2>1, FS_EmptySet DEF SlotsBounded
<1> QED BY <1>1, <1>2, <1>3, <1>4 DEF SchedulerInv

-----------------------------------------------------------------------------
\* Every step keeps the types.
LEMMA StepKeepsTypes == TypeOK /\ [Next]_vars => TypeOK'
<1> SUFFICES ASSUME TypeOK, [Next]_vars PROVE TypeOK'
  OBVIOUS
<1> USE DEF TypeOK, SetState, process
<1>1. CASE RunNext \/ PumpThrows \/ PumpEnds
  BY <1>1, QueueTypes DEF RunNext, PumpThrows, PumpEnds, MayPump
<1>2. CASE Shutdown
  BY <1>2 DEF Shutdown, Cancelled, States, Terminal
<1>3. CASE Restart
  <2>1. /\ restarts' \in 0..MaxRestarts /\ queue' \in Seq(Tasks)
        /\ chain' \in [Tasks -> Chains]
    BY <1>3, ConcurrencyAssumption DEF Restart, Chains
  <2>2. lock' \in [Tasks -> {"free", "own", "other"}]
    BY <1>3 DEF Restart
  <2>3. /\ waiting' \in SUBSET Tasks /\ holder' \in Governed \union {Nobody}
        /\ pump' \in {"off", "call", "chain"} /\ shutdown' \in BOOLEAN /\ up' \in BOOLEAN
        /\ state' \in [Tasks -> States]
    BY <1>3 DEF Restart
  <2> QED BY <2>1, <2>2, <2>3
<1>4. ASSUME NEW t \in Tasks, Start(t)
      PROVE  /\ state' \in [Tasks -> States] /\ chain' \in [Tasks -> Chains]
             /\ lock' \in [Tasks -> {"free", "own", "other"}]
  BY <1>4 DEF Start, StartChain, PreflightRejects, States, Terminal, Chains
<1>5. CASE PumpStarts /\ Head(queue) \in Tasks
  BY <1>4, <1>5, QueueTypes DEF PumpStarts, MayPump
<1>6. ASSUME NEW t \in Tasks, Enqueue(t) \/ RunTask(t) \/ ResumeTask(t) \/ CancelTask(t)
      PROVE  TypeOK'
  <2>1. CASE Enqueue(t)
    BY <2>1, QueueTypes DEF Enqueue, States
  <2>2. CASE RunTask(t)
    BY <2>2, <1>4 DEF RunTask
  <2>3. CASE ResumeTask(t)
    BY <2>3 DEF ResumeTask, Chains
  <2>4. CASE CancelTask(t)
    BY <2>4, QueueTypes DEF CancelTask, Cancelled, States, Terminal
  <2> QED BY <1>6, <2>1, <2>2, <2>3, <2>4
<1>7. ASSUME NEW t \in Tasks, NEW s \in States, Finally(t, s)
      PROVE  /\ chain' \in [Tasks -> Chains] /\ holder' \in Governed \union {Nobody}
             /\ lock' \in [Tasks -> {"free", "own", "other"}]
             /\ pump' \in {"off", "call", "chain"}
  BY <1>7 DEF Finally, ReleaseTarget, Chains
<1>8. ASSUME NEW t \in Tasks, EnterGate(t) \/ RetryChain(t) \/ ChainEnds(t) \/ ReturnsEarly(t)
      PROVE  TypeOK'
  <2>1. CASE EnterGate(t) \/ RetryChain(t)
    BY <2>1 DEF EnterGate, RetryChain, Chains, States
  <2>2. CASE ChainEnds(t)
    <3>1. PICK s \in Outcomes(t) :
            /\ SetState(t, s) /\ Finally(t, s)
            /\ waiting' = IF s = "WAITING_HUMAN" THEN waiting \union {t} ELSE waiting
      BY <2>2 DEF ChainEnds
    <3>2. s \in States
      BY DEF Outcomes, States, Terminal
    <3> QED BY <1>7, <2>2, <3>1, <3>2 DEF ChainEnds
  <2>3. CASE ReturnsEarly(t)
    BY <1>7, <2>3 DEF ReturnsEarly
  <2> QED BY <1>8, <2>1, <2>2, <2>3
<1>9. ASSUME NEW t \in Tasks, OtherLocks(t) \/ OtherReleases(t) \/ OtherCancels(t)
      PROVE  TypeOK'
  BY <1>9 DEF OtherLocks, OtherReleases, OtherCancels, States, Terminal
<1>10. CASE UNCHANGED vars
  BY <1>10 DEF vars
<1> QED BY <1>1, <1>2, <1>3, <1>5, <1>6, <1>8, <1>9, <1>10, StepKinds

-----------------------------------------------------------------------------
\* The chains that exist after a step are the ones before it and at most the
\* one of a task that was started in a free slot.
LEMMA StepKeepsSlots == TypeOK /\ SlotsBounded /\ [Next]_vars => SlotsBounded'
<1> SUFFICES ASSUME TypeOK, SlotsBounded, [Next]_vars PROVE SlotsBounded'
  OBVIOUS
<1> USE DEF TypeOK, SetState
<1>1. IsFiniteSet(Active) /\ Cardinality(Active) \in Nat
  BY TasksAssumption, FS_Subset, FS_CardinalityType DEF Active
<1>2. ASSUME Active' \subseteq Active PROVE SlotsBounded'
  BY <1>1, <1>2, FS_Subset, FS_CardinalityType, ConcurrencyAssumption DEF SlotsBounded
<1>3. ASSUME NEW t \in Tasks, Active' \subseteq Active \union {t},
             Cardinality(Active) < MaxConcurrent
      PROVE  SlotsBounded'
  <2>1. IsFiniteSet(Active \union {t})
        /\ Cardinality(Active \union {t}) \in {Cardinality(Active), Cardinality(Active) + 1}
    BY <1>1, FS_AddElement
  <2>2. Cardinality(Active') <= Cardinality(Active \union {t})
    BY <1>3, <2>1, FS_Subset
  <2> QED BY <1>1, <1>3, <2>1, <2>2, FS_Subset, FS_CardinalityType, ConcurrencyAssumption
          DEF SlotsBounded
<1>4. CASE RunNext \/ PumpThrows \/ PumpEnds \/ Shutdown \/ UNCHANGED vars
  BY <1>2, <1>4 DEF RunNext, PumpThrows, PumpEnds, Shutdown, vars, Active
<1>5. CASE Restart
  BY <1>2, <1>5 DEF Restart, Active
<1>6. ASSUME NEW t \in Tasks, Start(t) PROVE Active' \subseteq Active \union {t}
  BY <1>6 DEF Start, StartChain, PreflightRejects, Active
<1>7. CASE PumpStarts /\ Head(queue) \in Tasks
  BY <1>3, <1>6, <1>7 DEF PumpStarts, MayPump
<1>8. ASSUME NEW t \in Tasks, RunTask(t) \/ ResumeTask(t) PROVE SlotsBounded'
  <2>1. CASE RunTask(t)
    BY <1>3, <1>6, <2>1 DEF RunTask
  <2>2. CASE ResumeTask(t)
    BY <1>3, <2>2 DEF ResumeTask, Active
  <2> QED BY <1>8, <2>1, <2>2
<1>9. ASSUME NEW t \in Tasks,
             \/ Enqueue(t) \/ CancelTask(t) \/ EnterGate(t) \/ RetryChain(t)
             \/ ChainEnds(t) \/ ReturnsEarly(t)
             \/ OtherLocks(t) \/ OtherReleases(t) \/ OtherCancels(t)
      PROVE  SlotsBounded'
  <2>1. Active' \subseteq Active
    BY <1>9 DEF Enqueue, CancelTask, EnterGate, RetryChain, ChainEnds, ReturnsEarly,
       Finally, OtherLocks, OtherReleases, OtherCancels, Active
  <2> QED BY <1>2, <2>1
<1> QED BY <1>4, <1>5, <1>7, <1>8, <1>9, StepKinds

\* Starting takes the lock with the chain, ending gives it back with it.
LEMMA StepKeepsLocks == TypeOK /\ LocksMatchChains /\ [Next]_vars => LocksMatchChains'
<1> SUFFICES ASSUME TypeOK, LocksMatchChains, [Next]_vars PROVE LocksMatchChains'
  OBVIOUS
<1> USE DEF TypeOK, LocksMatchChains, SetState
<1>1. CASE RunNext \/ PumpThrows \/ PumpEnds \/ Shutdown \/ UNCHANGED vars
  BY <1>1 DEF RunNext, PumpThrows, PumpEnds, Shutdown, vars
<1>2. CASE Restart
  BY <1>2 DEF Restart
<1>3. ASSUME NEW t \in Tasks, Start(t), ~CannotStart(t) PROVE LocksMatchChains'
  BY <1>3 DEF Start, StartChain, PreflightRejects, CannotStart
<1>4. CASE PumpStarts /\ Head(queue) \in Tasks
  BY <1>3, <1>4 DEF PumpStarts
<1>5. ASSUME NEW t \in Tasks, Enqueue(t) \/ RunTask(t) \/ ResumeTask(t) \/ CancelTask(t)
      PROVE  LocksMatchChains'
  BY <1>3, <1>5 DEF Enqueue, RunTask, ResumeTask, CancelTask
<1>6. ASSUME NEW t \in Tasks, EnterGate(t) \/ RetryChain(t) \/ ChainEnds(t) \/ ReturnsEarly(t)
      PROVE  LocksMatchChains'
  BY <1>6 DEF EnterGate, RetryChain, ChainEnds, ReturnsEarly, Finally
<1>7. ASSUME NEW t \in Tasks, OtherLocks(t) \/ OtherReleases(t) \/ OtherCancels(t)
      PROVE  LocksMatchChains'
  BY <1>7 DEF OtherLocks, OtherReleases, OtherCancels
<1> QED BY <1>1, <1>2, <1>4, <1>5, <1>6, <1>7, StepKinds

\* The target is taken by the task that enters the gate, and given back by the
\* end of its holder's chain only.
LEMMA StepKeepsGate == TypeOK /\ GateHolds /\ [Next]_vars => GateHolds'
<1> SUFFICES ASSUME TypeOK, GateHolds, [Next]_vars PROVE GateHolds'
  OBVIOUS
<1> USE TasksAssumption DEF TypeOK, GateHolds, SetState
<1>1. CASE RunNext \/ PumpThrows \/ PumpEnds \/ Shutdown \/ UNCHANGED vars
  BY <1>1 DEF RunNext, PumpThrows, PumpEnds, Shutdown, vars
<1>2. CASE Restart
  BY <1>2 DEF Restart
<1>3. ASSUME NEW t \in Tasks, Start(t), UNCHANGED holder PROVE GateHolds'
  BY <1>3 DEF Start, StartChain, PreflightRejects
<1>4. CASE PumpStarts /\ Head(queue) \in Tasks
  BY <1>3, <1>4 DEF PumpStarts
<1>5. ASSUME NEW t \in Tasks, Enqueue(t) \/ RunTask(t) \/ ResumeTask(t) \/ CancelTask(t)
      PROVE  GateHolds'
  BY <1>3, <1>5 DEF Enqueue, RunTask, ResumeTask, CancelTask
<1>6. ASSUME NEW t \in Tasks, EnterGate(t) \/ RetryChain(t) PROVE GateHolds'
  BY <1>6 DEF EnterGate, RetryChain
<1>7. ASSUME NEW t \in Tasks, ChainEnds(t) \/ ReturnsEarly(t) PROVE GateHolds'
  BY <1>7 DEF ChainEnds, ReturnsEarly, Finally, ReleaseTarget
<1>8. ASSUME NEW t \in Tasks, OtherLocks(t) \/ OtherReleases(t) \/ OtherCancels(t)
      PROVE  GateHolds'
  BY <1>8 DEF OtherLocks, OtherReleases, OtherCancels
<1> QED BY <1>1, <1>2, <1>4, <1>5, <1>6, <1>7, <1>8, StepKinds

\* A lease leaves its task only when the task's own chain ends in a terminal
\* state, or with the process.
LEMMA StepKeepsLease ==
  ASSUME TypeOK, [Next]_vars, NEW t \in Governed, holder = t, holder' # t
  PROVE  state'[t] \in Terminal \/ restarts' # restarts
<1> USE TasksAssumption DEF TypeOK, SetState
<1>1. CASE Restart
  BY <1>1, ConcurrencyAssumption DEF Restart
<1>2. ASSUME NEW u \in Tasks, EnterGate(u) PROVE FALSE
  BY <1>2 DEF EnterGate
<1>3. ASSUME NEW u \in Tasks, ChainEnds(u) \/ ReturnsEarly(u)
      PROVE  state'[t] \in Terminal
  BY <1>3 DEF ChainEnds, ReturnsEarly, Finally, ReleaseTarget
<1>4. ASSUME UNCHANGED holder PROVE FALSE
  BY <1>4
<1>5. CASE RunNext \/ PumpThrows \/ PumpEnds \/ PumpStarts \/ Shutdown \/ UNCHANGED vars
  BY <1>4, <1>5 DEF RunNext, PumpThrows, PumpEnds, PumpStarts, Shutdown, vars
<1>6. ASSUME NEW u \in Tasks,
             \/ Enqueue(u) \/ RunTask(u) \/ ResumeTask(u) \/ CancelTask(u) \/ RetryChain(u)
             \/ OtherLocks(u) \/ OtherReleases(u) \/ OtherCancels(u)
      PROVE  FALSE
  BY <1>4, <1>6 DEF Enqueue, RunTask, ResumeTask, CancelTask, RetryChain,
     OtherLocks, OtherReleases, OtherCancels
<1> QED BY <1>1, <1>2, <1>3, <1>5, <1>6, StepKinds

-----------------------------------------------------------------------------
\* The invariant of the scheduler.
THEOREM SchedulerInvariant == Spec => []SchedulerInv
<1>1. SchedulerInv /\ [Next]_vars => SchedulerInv'
  BY StepKeepsTypes, StepKeepsLocks, StepKeepsGate, StepKeepsSlots DEF SchedulerInv
<1> QED BY InitInv, <1>1, PTL DEF Spec

\* Every variable keeps its type.
THEOREM TypeCorrectness == Spec => []TypeOK
<1>1. SchedulerInv => TypeOK
  BY DEF SchedulerInv
<1> QED BY <1>1, SchedulerInvariant, PTL

\* Queue, runTask and resumeTask together never start more chains than there
\* are slots.
THEOREM SlotsAreBounded == Spec => []SlotsBounded
<1>1. SchedulerInv => SlotsBounded
  BY DEF SchedulerInv
<1> QED BY <1>1, SchedulerInvariant, PTL

\* The scheduler owns the locks of its chains' tasks, and no other.
THEOREM LocksAreOfChains == Spec => []LocksMatchChains
<1>1. SchedulerInv => LocksMatchChains
  BY DEF SchedulerInv
<1> QED BY <1>1, SchedulerInvariant, PTL

\* At most one task is in the publish-sensitive stage on its way from the author.
THEOREM TargetsAreExclusive == Spec => []TargetExclusive
<1>1. SchedulerInv => TargetExclusive
  BY DEF SchedulerInv, GateHolds, TargetExclusive
<1> QED BY <1>1, SchedulerInvariant, PTL

\* No other task's ending takes a lease away.
THEOREM LeasesEndWithTheirTasks == Spec => LeaseEndsWithTask
<1>1. TypeOK /\ [Next]_vars =>
        [\A t \in Governed : holder = t /\ holder' # t
           => state'[t] \in Terminal \/ restarts' # restarts]_vars
  BY StepKeepsLease
<1> QED BY <1>1, TypeCorrectness, PTL DEF Spec, LeaseEndsWithTask
=============================================================================
