---------------------------- MODULE RuntimeGuard ----------------------------
(***************************************************************************)
(* The runtime safety guard of ONE executor inside ONE process             *)
(* (lib/executor-runtime-guard.mjs), together with its two clients: the    *)
(* launch and close handlers of execAsync (lib/adapters.mjs), which take   *)
(* and give back concurrency slots, and the operator's gated recovery      *)
(* (lib/executor-ops.mjs), which probes and re-admits a broken executor.   *)
(*                                                                         *)
(* JavaScript runs to completion between two awaits, so an action is the   *)
(* code between two awaits of one call: entering acquireSlot, the          *)
(* continuation of a woken waiter, the end of the pacing sleep, the        *)
(* child's 'close' event, the operator's synchronous calls.                *)
(*                                                                         *)
(* A run is one execAsync call.  The evidence id minted for a probe is     *)
(* unique, so a probe's own name stands for it.                            *)
(***************************************************************************)
EXTENDS Naturals, Sequences, FiniteSets

CONSTANTS
  Runs,         \* execAsync calls
  Probes,       \* those of them made by executeRecoveryProbe
  MaxParallel,  \* policy.max_parallel
  Outcomes,     \* categories the error classifier returns in this instance
  NoEvidence    \* probe_evidence_id: null

Categories == {"SUCCESS", "TRANSIENT_FAULT", "RATE_LIMIT", "ACCOUNT_POLICY",
               "AUTH_FAILURE", "ENVIRONMENT_FAULT"}

ASSUME RunsAssumption == IsFiniteSet(Runs) /\ Probes \subseteq Runs
ASSUME ParallelAssumption == MaxParallel \in Nat \ {0}
ASSUME OutcomesAssumption == Outcomes \subseteq Categories
ASSUME EvidenceAssumption == NoEvidence \notin Runs

VARIABLES
  circuit,      \* the executor's entry of this.circuits
  active,       \* its entry of this.activeProcesses
  queue,        \* its entry of this.waitQueues
  pc,           \* where each run's execAsync call stands
  leaked,       \* history: runs settled without their slot being given back
  refusedAwake, \* history: a woken waiter has been refused by its re-check
  latched,      \* history: a fatal result has latched the circuit and no
                \*   operator has reset or admitted the executor since
  fresh         \* history: probes verified since the circuit last opened

vars == <<circuit, active, queue, pc, leaked, refusedAwake, latched, fresh>>
slotVars == <<active, queue>>
history == <<leaked, refusedAwake, latched, fresh>>

Production == Runs \ Probes

CircuitStates == {"CLOSED", "OPEN_MANUAL_RESET", "OPEN_COOLDOWN", "HALF_OPEN",
                  "PROBING"}
\* Only a half-open circuit carries the evidence of a probe.
Circuit == {c \in [state : CircuitStates, evidence : Probes \union {NoEvidence}] :
              c.evidence # NoEvidence => c.state = "HALF_OPEN"}

RunStates == {"idle", "waiting", "woken", "pacing", "running",
              "passed", "failed", "done"}

Cleared(s) == [state |-> s, evidence |-> NoEvidence]

(***************************************************************************)
(* The circuit breaker as pure operators on its record.                    *)
(***************************************************************************)

\* What a classified failure asks of the breaker.
SafetyAction(category) ==
  CASE category \in {"ACCOUNT_POLICY", "AUTH_FAILURE"} -> "OPEN_MANUAL_RESET"
    [] category = "RATE_LIMIT" -> "COOLDOWN"
    [] OTHER -> "NONE"

\* Every use of the circuit projects a cooldown first; whether its deadline
\* has passed is the clock's choice.
Projected(c, elapsed) ==
  IF c.state = "OPEN_COOLDOWN" /\ elapsed THEN [c EXCEPT !.state = "HALF_OPEN"]
                                          ELSE c

MayExecute(c, r) ==
  c.state = IF r \in Probes THEN "PROBING" ELSE "CLOSED"

\* A 429 that leaves the evidence of an earlier probe in the new record, as
\* copying the old record (...c) into it would.
AfterResultKeepingEvidence(c, category) ==
  CASE SafetyAction(category) = "OPEN_MANUAL_RESET" -> Cleared("OPEN_MANUAL_RESET")
    [] SafetyAction(category) = "COOLDOWN" -> [c EXCEPT !.state = "OPEN_COOLDOWN"]
    [] category = "SUCCESS" /\ c.state = "HALF_OPEN" -> Cleared("CLOSED")
    [] OTHER -> c

\* recordResult: the two safety actions overwrite whatever state the circuit
\* is in; a success closes a half-open circuit and changes no other.
AfterResult(c, category) ==
  CASE SafetyAction(category) = "OPEN_MANUAL_RESET" -> Cleared("OPEN_MANUAL_RESET")
    [] SafetyAction(category) = "COOLDOWN" -> Cleared("OPEN_COOLDOWN")
    [] category = "SUCCESS" /\ c.state = "HALF_OPEN" -> Cleared("CLOSED")
    [] OTHER -> c

RecordResult(category) ==
  /\ circuit' = AfterResult(circuit, category)
  /\ latched' = (latched \/ SafetyAction(category) = "OPEN_MANUAL_RESET")
  /\ fresh' = IF SafetyAction(category) = "NONE" THEN fresh ELSE {}

-----------------------------------------------------------------------------
(***************************************************************************)
(* Slots: acquireSlot, releaseSlot and the runs that hold them.            *)
(***************************************************************************)

SlotHolders == {r \in Runs : pc[r] \in {"pacing", "running"}}
Woken == {r \in Runs : pc[r] = "woken"}

Init ==
  /\ circuit \in {Cleared(s) : s \in CircuitStates}  \* as loaded from the file
  /\ active = 0
  /\ queue = <<>>
  /\ pc = [r \in Runs |-> "idle"]
  /\ leaked = {}
  /\ refusedAwake = FALSE
  /\ latched = (circuit.state = "OPEN_MANUAL_RESET")
  /\ fresh = {}

\* The while loop of acquireSlot and the reservation after it: wait behind
\* the others when every slot is taken, else reserve one before any sleep.
TakeSlotOrWait(r) ==
  \/ /\ active >= MaxParallel
     /\ queue' = Append(queue, r)
     /\ pc' = [pc EXCEPT ![r] = "waiting"]
     /\ UNCHANGED active
  \/ /\ active < MaxParallel
     /\ active' = active + 1
     /\ pc' = [pc EXCEPT ![r] = "pacing"]
     /\ UNCHANGED queue

\* Where a run goes when its execAsync call resolves: a probe still has its
\* verdict to give (executeRecoveryProbe), a production run is over.
Resolved(r, success) ==
  IF r \notin Probes THEN "done" ELSE IF success THEN "passed" ELSE "failed"

\* releaseSlot that gives the slot back and forgets the wait queue.
ReleaseSlotNoWake(r, next) ==
  /\ active' = IF active > 0 THEN active - 1 ELSE active
  /\ pc' = [pc EXCEPT ![r] = next]
  /\ UNCHANGED queue

\* releaseSlot: give the slot back, then wake the head of the wait queue.
ReleaseSlot(r, next) ==
  /\ active' = IF active > 0 THEN active - 1 ELSE active
  /\ IF queue = <<>>
     THEN /\ pc' = [pc EXCEPT ![r] = next]
          /\ UNCHANGED queue
     ELSE /\ pc' = [pc EXCEPT ![r] = next, ![Head(queue)] = "woken"]
          /\ queue' = Tail(queue)

\* The guard's refusal resolves the call as a non-retryable environment
\* fault; nothing was reserved, so nothing is released.
Refuse(r) ==
  /\ pc' = [pc EXCEPT ![r] = Resolved(r, FALSE)]
  /\ UNCHANGED slotVars

\* A production call enters execAsync and acquireSlot.
AcquireSlot(r) ==
  /\ r \in Production
  /\ pc[r] = "idle"
  /\ \E elapsed \in BOOLEAN : circuit' = Projected(circuit, elapsed)
  /\ IF MayExecute(circuit', r) THEN TakeSlotOrWait(r) ELSE Refuse(r)
  /\ UNCHANGED history

\* A woken waiter that takes the slot its wake-up announced, looking at
\* neither the circuit nor the number of active processes again.
ResumeAcquireUnchecked(r) ==
  /\ pc[r] = "woken"
  /\ active' = active + 1
  /\ pc' = [pc EXCEPT ![r] = "pacing"]
  /\ UNCHANGED <<circuit, queue, history>>

\* A woken waiter that re-checks the circuit but not the number of active
\* processes: an if where the code has a while.
ResumeAcquireIf(r) ==
  /\ pc[r] = "woken"
  /\ \E elapsed \in BOOLEAN : circuit' = Projected(circuit, elapsed)
  /\ IF MayExecute(circuit', r)
     THEN /\ active' = active + 1
          /\ pc' = [pc EXCEPT ![r] = "pacing"]
          /\ UNCHANGED <<queue, refusedAwake>>
     ELSE Refuse(r) /\ refusedAwake' = TRUE
  /\ UNCHANGED <<leaked, latched, fresh>>

\* A woken waiter re-checks the circuit, then the number of active processes.
\* Refused, it does NOT wake the waiter behind it.
ResumeAcquire(r) ==
  /\ pc[r] = "woken"
  /\ \E elapsed \in BOOLEAN : circuit' = Projected(circuit, elapsed)
  /\ IF MayExecute(circuit', r)
     THEN TakeSlotOrWait(r) /\ UNCHANGED refusedAwake
     ELSE Refuse(r) /\ refusedAwake' = TRUE
  /\ UNCHANGED <<leaked, latched, fresh>>

\* The pacing sleep ends and the child is spawned.  The circuit is not looked
\* at again.
Spawn(r) ==
  /\ pc[r] = "pacing"
  /\ pc' = [pc EXCEPT ![r] = "running"]
  /\ UNCHANGED <<circuit, active, queue, history>>

\* The working directory is gone: an environment fault is recorded and the
\* slot is given back.
CwdMissing(r) ==
  /\ pc[r] = "pacing"
  /\ "ENVIRONMENT_FAULT" \in Outcomes
  /\ RecordResult("ENVIRONMENT_FAULT")
  /\ ReleaseSlot(r, Resolved(r, FALSE))
  /\ UNCHANGED <<leaked, refusedAwake>>

\* spawn itself throws (an argument list too long for the system): failSafe
\* resolves the call, and nobody gives the slot back.
SpawnThrows(r) ==
  /\ pc[r] = "pacing"
  /\ "ENVIRONMENT_FAULT" \in Outcomes
  /\ pc' = [pc EXCEPT ![r] = Resolved(r, FALSE)]
  /\ leaked' = leaked \union {r}
  /\ UNCHANGED <<circuit, active, queue, refusedAwake, latched, fresh>>

\* The child of a cancelled run closes: no evidence for the breaker.
Cancelled(r) ==
  /\ pc[r] = "running"
  /\ ReleaseSlot(r, Resolved(r, FALSE))
  /\ UNCHANGED <<circuit, history>>

\* The child closes (or reports 'error'): the classified result is recorded,
\* then the slot is released.  A probe has succeeded if its adapter reports it
\* as completed too, which it need not do (a foreign session, an empty reply).
Settle(r) ==
  /\ pc[r] = "running"
  /\ \E category \in Outcomes, success \in BOOLEAN :
       /\ success => category = "SUCCESS"
       /\ RecordResult(category)
       /\ ReleaseSlot(r, Resolved(r, success))
  /\ UNCHANGED <<leaked, refusedAwake>>

-----------------------------------------------------------------------------
(***************************************************************************)
(* The operator: circuit queries, reset, probe and admission.              *)
(***************************************************************************)

\* canExecute from routing and preflight, projectCooldown from the status view.
QueryCircuit ==
  /\ circuit' = Projected(circuit, TRUE)
  /\ UNCHANGED <<active, queue, pc, history>>

ResetCircuit ==
  /\ circuit' = Cleared("CLOSED")
  /\ latched' = FALSE
  /\ UNCHANGED <<active, queue, pc, leaked, refusedAwake, fresh>>

\* executeRecoveryProbe up to its first await: startProbe refuses a healthy or
\* already probing executor, the adapter then enters acquireSlot as a probe.
StartProbe(p) ==
  /\ p \in Probes
  /\ pc[p] = "idle"
  /\ circuit.state \notin {"CLOSED", "PROBING"}
  /\ circuit' = Cleared("PROBING")
  /\ TakeSlotOrWait(p)
  /\ UNCHANGED history

\* A probe whose success is accepted whatever the circuit's state has become.
ProbePassedAnyState(p) ==
  /\ pc[p] = "passed"
  /\ pc' = [pc EXCEPT ![p] = "done"]
  /\ circuit' = [state |-> "HALF_OPEN", evidence |-> p]
  /\ fresh' = fresh \union {p}
  /\ UNCHANGED <<active, queue, leaked, refusedAwake, latched>>

\* recordProbeSuccess: only a circuit that is still PROBING is half opened,
\* any other state makes the call throw.
ProbePassed(p) ==
  /\ pc[p] = "passed"
  /\ pc' = [pc EXCEPT ![p] = "done"]
  /\ IF circuit.state = "PROBING"
     THEN /\ circuit' = [state |-> "HALF_OPEN", evidence |-> p]
          /\ fresh' = fresh \union {p}
     ELSE UNCHANGED <<circuit, fresh>>
  /\ UNCHANGED <<active, queue, leaked, refusedAwake, latched>>

\* recordProbeFailure: latch, whatever the state.
ProbeFailed(p) ==
  /\ pc[p] = "failed"
  /\ pc' = [pc EXCEPT ![p] = "done"]
  /\ circuit' = Cleared("OPEN_MANUAL_RESET")
  /\ latched' = TRUE
  /\ fresh' = {}
  /\ UNCHANGED <<active, queue, leaked, refusedAwake>>

\* admitExecutor with the evidence id the operator quotes.
AdmitExecutor(e) ==
  /\ circuit.state = "HALF_OPEN"
  /\ circuit.evidence = e
  /\ circuit' = Cleared("CLOSED")
  /\ latched' = FALSE
  /\ UNCHANGED <<active, queue, pc, leaked, refusedAwake, fresh>>

-----------------------------------------------------------------------------
RunStep(r) ==
  \/ AcquireSlot(r)
  \/ ResumeAcquire(r)
  \/ Spawn(r)
  \/ CwdMissing(r)
  \/ SpawnThrows(r)
  \/ Cancelled(r)
  \/ Settle(r)

OperatorStep ==
  \/ ResetCircuit
  \/ \E p \in Probes : StartProbe(p) \/ ProbePassed(p) \/ ProbeFailed(p)
                       \/ AdmitExecutor(p)

Next == QueryCircuit \/ OperatorStep \/ \E r \in Runs : RunStep(r)

Spec == Init /\ [][Next]_vars

\* A continuation that is due runs, a pacing timer fires, and a child process
\* exits (or is killed by its monitor); calls and cancellations need not come.
Fairness ==
  \A r \in Runs : WF_vars(ResumeAcquire(r)) /\ WF_vars(Spawn(r)) /\ WF_vars(Settle(r))

FairSpec == Spec /\ Fairness

-----------------------------------------------------------------------------
(***************************************************************************)
(* What should hold, and, last, what a document of the code says and an    *)
(* instance refutes.                                                       *)
(***************************************************************************)

\* Every variable keeps its type; evidence is found on a half-open circuit only.
TypeOK ==
  /\ circuit \in Circuit
  /\ active \in Nat
  /\ queue \in Seq(Runs)
  /\ pc \in [Runs -> RunStates]
  /\ leaked \in SUBSET Runs
  /\ refusedAwake \in BOOLEAN
  /\ latched \in BOOLEAN
  /\ fresh \in SUBSET Probes

\* The counter of active processes is exactly the runs that own a slot: the
\* ones pacing or running and the ones that lost track of theirs.
SlotAccounting == active = Cardinality(SlotHolders \union leaked)

\* The wait queue is the waiting runs, each of them once.
QueueIsWaiters ==
  /\ \A i \in 1..Len(queue) : pc[queue[i]] = "waiting"
  /\ \A i, j \in 1..Len(queue) : queue[i] = queue[j] => i = j

\* At most max_parallel processes of the executor are launched or alive at
\* any moment, however releases, wake-ups and new arrivals interleave.
SlotsBounded == Cardinality(SlotHolders) <= MaxParallel

\* While no woken waiter has been refused, a slot never idles in front of a
\* waiting run: every missing process has a woken waiter on its way.
NoIdleSlotWhileWaiting ==
  ~refusedAwake /\ queue # <<>> => active + Cardinality(Woken) >= MaxParallel

\* The inductive invariant: what every step preserves and the safety
\* properties follow from.
GuardInv ==
  /\ TypeOK
  /\ QueueIsWaiters
  /\ \A r \in leaked : pc[r] \in {"passed", "failed", "done"}
  /\ SlotAccounting
  /\ active <= MaxParallel
  /\ NoIdleSlotWhileWaiting
  /\ circuit.evidence # NoEvidence => circuit.evidence \in fresh

\* A slot is only ever reserved by a run the circuit admits at that moment, a
\* waiter that slept through a change of the circuit included.
SlotsTakenUnderPermit ==
  [][\A r \in Runs : r \in SlotHolders' \ SlotHolders => MayExecute(circuit', r)]_vars

\* Gated recovery: evidence older than a 403, a 429 or a failed probe never
\* re-admits the executor, and a probe's success never half-opens a circuit
\* that a fatal result of another run has latched while it was under way.
GatedRecovery ==
  [][/\ \A e \in Probes : AdmitExecutor(e) => e \in fresh
     /\ circuit.state = "OPEN_MANUAL_RESET" => circuit'.state # "HALF_OPEN"]_vars

\* A run that waits for a slot gets one or is refused, in the end, whatever
\* the circuit does meanwhile.  Two things can strand it: a woken waiter ahead
\* of it that is refused and wakes nobody, and a leaked slot.
EveryWaiterSettles ==
  \A r \in Runs : pc[r] \in {"waiting", "woken"}
                   ~> pc[r] \notin {"waiting", "woken"} \/ refusedAwake \/ leaked # {}

\* The runs in their execAsync calls as users of a pool of tickets: a woken
\* waiter still waits, and a run that leaked its slot lost its ticket.
Pool == INSTANCE SlotPool
  WITH Slots <- MaxParallel, owned <- SlotHolders, lost <- leaked,
       waiting <- {r \in Runs : pc[r] \in {"waiting", "woken"}}

\* acquireSlot and releaseSlot, with their counter, their queue and their
\* re-checking waiters, implement the pool: no interleaving of releases,
\* wake-ups, refusals and new arrivals hands a ticket to two runs, gives one
\* back twice or makes a run wait beside a free one when it asks.
ImplementsPool == Pool!Spec

\* A latched circuit never closes unless an operator resets or admits it.
NoAutoRecovery == latched => circuit.state # "CLOSED"
=============================================================================
