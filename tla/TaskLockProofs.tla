--------------------------- MODULE TaskLockProofs ---------------------------
(***************************************************************************)
(* Theorems about TaskLock, for any number of processes.                   *)
(***************************************************************************)
EXTENDS TaskLock, TLAPS

\* A missing file is nobody's.
LEMMA NoFileHasNoOwner == ASSUME file = NoFile, NEW p \in Procs PROVE ~Owned(p)
  BY ProcsAssumption DEF NoFile, Owned

\* Nobody drives the task at the start.
LEMMA InitLockInv == Init => TypeOK /\ ExclusiveUnlessTorn
<1>1. Init => TypeOK
  <2> SUFFICES ASSUME Init PROVE TypeOK
    OBVIOUS
  <2>1. file \in Lock
    BY DEF Init, Lock
  <2>2. pc \in [Procs -> Steps] /\ alive \in SUBSET Procs
    BY DEF Init, Steps
  <2>3. /\ attempt \in [Procs -> 0..(Attempts - 1)]
        /\ misses \in [Procs -> 0..(Misses - 1)]
    BY DEF Init, Attempts, Misses
  <2>4. torn \in BOOLEAN
    BY DEF Init
  <2> QED BY <2>1, <2>2, <2>3, <2>4 DEF TypeOK
<1>2. Init => ExclusiveUnlessTorn
  BY DEF Init, ExclusiveUnlessTorn, Driving
<1> QED BY <1>1, <1>2

\* Every step keeps the types.
LEMMA StepKeepsTypes == TypeOK /\ [Next]_vars => TypeOK'
<1> SUFFICES ASSUME TypeOK, [Next]_vars PROVE TypeOK'
  OBVIOUS
<1> USE DEF TypeOK, Steps, Attempts, Misses, Go
<1>1. CASE LeaseRunsOut
  BY <1>1 DEF LeaseRunsOut, Lock, NoFile
<1>2. ASSUME NEW p \in Procs, Acquire(p) PROVE TypeOK'
  <2>1. CASE TryCreate(p)
    BY <2>1 DEF TryCreate, Lock
  <2>2. CASE Write(p)
    BY <2>2 DEF Write, Owned, Lock, NoFile
  <2>3. CASE Inspect(p)
    BY <2>3 DEF Inspect
  <2>4. CASE Unlink(p)
    BY <2>4 DEF Unlink, Tears, Lock
  <2> QED BY <1>2, <2>1, <2>2, <2>3, <2>4 DEF Acquire
<1>3. ASSUME NEW p \in Procs, Renew(p) PROVE TypeOK'
  <2>1. CASE BeginRenewal(p)
    BY <2>1 DEF BeginRenewal, RenewalFails
  <2>2. CASE GuardRenewal(p)
    BY <2>2 DEF GuardRenewal, RenewalFails
  <2>3. CASE Rename(p)
    BY <2>3 DEF Rename, Tears, Lock
  <2> QED BY <1>3, <2>1, <2>2, <2>3 DEF Renew
<1>4. ASSUME NEW p \in Procs, Finish(p) \/ Release(p) \/ Die(p) PROVE TypeOK'
  BY <1>4 DEF Finish, Release, CheckOwner, Disown, Die, Tears, Lock
<1>5. CASE UNCHANGED vars
  BY <1>5 DEF vars
<1> QED BY <1>1, <1>2, <1>3, <1>4, <1>5 DEF Next, Step

\* Every step keeps the owners in place, or tears a lock.
LEMMA StepKeepsOwners ==
  TypeOK /\ ExclusiveUnlessTorn /\ [Next]_vars => ExclusiveUnlessTorn'
<1> SUFFICES ASSUME TypeOK, ExclusiveUnlessTorn, [Next]_vars, ~torn'
             PROVE  \A q \in alive' : /\ pc'[q] \in Driving => Owned(q)' /\ Readable'
                                      /\ pc'[q] = "write" => Owned(q)'
  BY DEF ExclusiveUnlessTorn
<1> USE DEF TypeOK, Go, Driving
<1>1. ~torn /\ alive' \subseteq alive /\ alive \subseteq Procs
  BY DEF Next, Step, Acquire, Renew, Release, TryCreate, Write, Inspect, Unlink, Tears,
         BeginRenewal, GuardRenewal, Rename, Finish, CheckOwner, Disown, Die,
         LeaseRunsOut, vars
<1>2. \A q \in alive : /\ pc[q] \in Driving => Owned(q) /\ Readable
                       /\ pc[q] = "write" => Owned(q)
  BY <1>1 DEF ExclusiveUnlessTorn
<1>3. CASE LeaseRunsOut
  BY <1>1, <1>2, <1>3 DEF LeaseRunsOut, Owned, Readable, Lock, NoFile
<1>4. ASSUME NEW p \in Procs, TryCreate(p) PROVE ExclusiveUnlessTorn'
  <2>1. CASE file = NoFile /\ file' = [owner |-> p, content |-> "empty"] /\ Go(p, "write")
    <3>1. \A q \in alive : pc[q] \notin Driving \union {"write"}
      BY <2>1, <1>1, <1>2, NoFileHasNoOwner
    <3> QED BY <1>1, <1>4, <2>1, <3>1 DEF TryCreate, Owned, ExclusiveUnlessTorn
  <2>2. CASE UNCHANGED file /\ Go(p, "inspect")
    BY <1>1, <1>2, <1>4, <2>2 DEF TryCreate, Owned, Readable, ExclusiveUnlessTorn
  <2> QED BY <1>4, <2>1, <2>2 DEF TryCreate
<1>5. ASSUME NEW p \in Procs, Write(p) PROVE ExclusiveUnlessTorn'
  <2>1. p \in alive /\ Owned(p) /\ file' = [file EXCEPT !.content = "valid"]
    BY <1>2, <1>5 DEF Write
  <2> QED BY <1>1, <1>2, <1>5, <2>1
          DEF Write, Owned, Readable, Lock, NoFile, ExclusiveUnlessTorn
<1>6. ASSUME NEW p \in Procs, Inspect(p) PROVE ExclusiveUnlessTorn'
  BY <1>1, <1>2, <1>6 DEF Inspect, Owned, Readable, ExclusiveUnlessTorn
\* A removal or a rename by p can only disturb owners it would tear.
<1>7. ASSUME NEW p \in Procs, Tears(p), NEW q \in alive, q # p,
             pc[q] \in Driving \union {"write"}
      PROVE  FALSE
  BY <1>1, <1>2, <1>7 DEF Tears, TakenFrom
<1>8. ASSUME NEW p \in Procs, Unlink(p) \/ Disown(p) PROVE ExclusiveUnlessTorn'
  BY <1>1, <1>7, <1>8 DEF Unlink, Disown, ExclusiveUnlessTorn
<1>9. ASSUME NEW p \in Procs, Rename(p) PROVE ExclusiveUnlessTorn'
  BY <1>1, <1>7, <1>9 DEF Rename, Owned, Readable, ExclusiveUnlessTorn
<1>10. ASSUME NEW p \in Procs, BeginRenewal(p) \/ GuardRenewal(p) PROVE ExclusiveUnlessTorn'
  BY <1>1, <1>2, <1>10
     DEF BeginRenewal, GuardRenewal, RenewalFails, Owned, Readable, ExclusiveUnlessTorn
<1>11. ASSUME NEW p \in Procs, Finish(p) \/ CheckOwner(p) \/ Die(p) PROVE ExclusiveUnlessTorn'
  BY <1>1, <1>2, <1>11 DEF Finish, CheckOwner, Die, Owned, Readable, ExclusiveUnlessTorn
<1>12. CASE UNCHANGED vars
  BY <1>2, <1>12 DEF vars, Owned, Readable
<1>13. ExclusiveUnlessTorn' => \A q \in alive' :
         /\ pc'[q] \in Driving => Owned(q)' /\ Readable'
         /\ pc'[q] = "write" => Owned(q)'
  BY DEF ExclusiveUnlessTorn
<1> QED BY <1>3, <1>4, <1>5, <1>6, <1>8, <1>9, <1>10, <1>11, <1>12, <1>13
        DEF Next, Step, Acquire, Renew, Release

\* Every variable of the lock keeps its type, for any set of processes.
THEOREM TypeCorrectness == Spec => []TypeOK
  BY InitLockInv, StepKeepsTypes, PTL DEF Spec

\* Two owners of one task have a torn lock behind them: while no living owner
\* has had its file taken away, at most the one the file names drives the task.
THEOREM OwnersAreExclusive == Spec => []ExclusiveUnlessTorn
  BY InitLockInv, StepKeepsTypes, StepKeepsOwners, PTL DEF Spec

\* A settled lock holds off every other process, whatever the others do, until
\* its owner ends, dies or overstays its lease.
THEOREM SettledLocksExclude == Spec => SettledLockExcludes
<1>1. ASSUME TypeOK, [Next]_vars, NEW p \in Procs, Settled(p)
      PROVE  /\ Settled(p)' \/ ~Drives(p)' \/ LeaseRunsOut
             /\ \A q \in Procs \ {p} : Drives(q)' => Drives(q)
  <2> USE DEF TypeOK, Go, Driving, Settled, Drives, Owned, Readable
  <2>1. CASE LeaseRunsOut
    BY <1>1, <2>1 DEF LeaseRunsOut
  <2>2. ASSUME NEW r \in Procs, Step(r), r # p
        PROVE  Settled(p)' /\ \A q \in Procs \ {p} : Drives(q)' => Drives(q)
    <3>1. file # NoFile /\ ~Stale
      BY <1>1 DEF NoFile, Stale
    <3>2. CASE Acquire(r)
      BY <1>1, <2>2, <3>1, <3>2 DEF Acquire, TryCreate, Write, Inspect, Unlink
    <3>3. CASE Renew(r)
      BY <1>1, <2>2, <3>3
         DEF Renew, BeginRenewal, GuardRenewal, Rename, RenewalFails
    <3>4. CASE Finish(r) \/ Release(r) \/ Die(r)
      BY <1>1, <2>2, <3>4 DEF Finish, Release, CheckOwner, Disown, Die
    <3> QED BY <2>2, <3>2, <3>3, <3>4 DEF Step
  <2>3. ASSUME Step(p)
        PROVE  /\ Settled(p)' \/ ~Drives(p)'
               /\ \A q \in Procs \ {p} : Drives(q)' => Drives(q)
    BY <1>1, <2>3 DEF Step, Acquire, TryCreate, Write, Inspect, Unlink, Renew,
       BeginRenewal, GuardRenewal, Rename, RenewalFails, Finish, Release, CheckOwner,
       Disown, Die
  <2>4. CASE UNCHANGED vars
    BY <1>1, <2>4 DEF vars
  <2> QED BY <1>1, <2>1, <2>2, <2>3, <2>4 DEF Next
<1>2. TypeOK /\ [Next]_vars =>
        [\A p \in Procs : Settled(p) =>
           /\ Settled(p)' \/ ~Drives(p)' \/ LeaseRunsOut
           /\ \A q \in Procs \ {p} : Drives(q)' => Drives(q)]_vars
  BY <1>1
<1> QED BY <1>2, TypeCorrectness, PTL DEF Spec, SettledLockExcludes

\* The lock's promise as the runs check it: both kinds of exclusion.
THEOREM LockGivesOneOwner == Spec => OneOwner
  BY OwnersAreExclusive, SettledLocksExclude, PTL DEF OneOwner
=============================================================================
