------------------------------ MODULE TaskLock ------------------------------
(***************************************************************************)
(* The lock of ONE task, locks/<task_id>.lock (lib/tasklock.mjs), and the  *)
(* processes that contend for it: schedulers, which renew their lease with *)
(* a heartbeat, and CLI commands (run, resume, recover), which do not.     *)
(*                                                                         *)
(* Each action is one file operation.  Node runs them synchronously, but   *)
(* the processes share nothing but the file system, so any operation of    *)
(* one may come between two operations of another.                         *)
(*                                                                         *)
(* A process that dies does not come back: its successor has another pid   *)
(* and another instance id, and is another process here.  A pid that is    *)
(* given again to a stranger is not modelled.                              *)
(***************************************************************************)
EXTENDS Naturals

CONSTANTS
  Procs,      \* the processes that may drive the task
  Schedulers, \* those of them that renew their lease
  Mortal,     \* those that may die in this instance
  Slow        \* those whose lease may run out while they live

ASSUME ProcsAssumption ==
  /\ Schedulers \subseteq Procs /\ Mortal \subseteq Procs /\ Slow \subseteq Procs
  /\ "nobody" \notin Procs

VARIABLES
  file,    \* the lock file
  pc,      \* where each process stands
  attempt, \* rounds of acquireTaskLock each process has used up
  misses,  \* renewFailures of each scheduler's heartbeat
  alive,   \* the processes whose pid exists
  torn     \* history: a living owner has had its lock taken from it

vars == <<file, pc, attempt, misses, alive, torn>>

NoFile == [owner |-> "nobody", content |-> "missing"]

\* A file that has been created is empty until its creator has written it,
\* and readLock takes an empty file for a corrupt one.
Lock == [owner : Procs, content : {"empty", "valid", "expired"}] \union {NoFile}

Steps == {"create", "write", "inspect", "unlink", "holding", "renew", "rename",
          "lost", "release", "disown"}

\* Processes that take themselves for the owner, from the return of
\* acquireTaskLock to the call of releaseTaskLock.
Driving == {"holding", "renew", "rename", "lost"}
Drives(p) == p \in alive /\ pc[p] \in Driving
Owned(p) == file.owner = p

Attempts == 3  \* of acquireTaskLock
Misses == 3    \* of the heartbeat, before the scheduler stops the task

Init ==
  /\ file = NoFile
  /\ pc = [p \in Procs |-> "create"]
  /\ attempt = [p \in Procs |-> 0]
  /\ misses = [p \in Procs |-> 0]
  /\ alive = Procs
  /\ torn = FALSE

\* isLockStale that trusts a file it cannot parse.
StaleUnlessUnreadable ==
  file.content \in {"missing", "expired"} \/ (file.content = "valid" /\ file.owner \notin alive)

\* isLockStale of what readLock returns.
Stale == file.content # "valid" \/ file.owner \notin alive

\* Owner p loses the file it has created: some other process q removes it or
\* renames another over it.
TakenFrom(p, q) ==
  p # q /\ p \in alive /\ Owned(p) /\ pc[p] \in Driving \union {"write"}
Tears(q) == torn' = (torn \/ \E p \in Procs : TakenFrom(p, q))

Go(p, step) == pc' = [pc EXCEPT ![p] = step]

-----------------------------------------------------------------------------
(* acquireTaskLock *)

\* A create that truncates an existing file: 'w' for 'wx'.
TryCreateOverwriting(p) ==
  /\ p \in alive /\ pc[p] = "create"
  /\ file' = [owner |-> p, content |-> "empty"]
  /\ Go(p, "write")
  /\ UNCHANGED <<attempt, misses, alive, torn>>

\* open with O_EXCL: the file is there, empty, or it was there before.
TryCreate(p) ==
  /\ p \in alive /\ pc[p] = "create"
  /\ \/ /\ file = NoFile
        /\ file' = [owner |-> p, content |-> "empty"] /\ Go(p, "write")
     \/ file # NoFile /\ UNCHANGED file /\ Go(p, "inspect")
  /\ UNCHANGED <<attempt, misses, alive, torn>>

\* The lock goes into the file p has opened, wherever that file is by now.
Write(p) ==
  /\ p \in alive /\ pc[p] = "write"
  /\ file' = IF Owned(p) THEN [file EXCEPT !.content = "valid"] ELSE file
  /\ Go(p, "holding")
  /\ attempt' = [attempt EXCEPT ![p] = 0]
  /\ misses' = [misses EXCEPT ![p] = 0]
  /\ UNCHANGED <<alive, torn>>

\* A stale lock is to be removed, a valid one makes the call throw.
Inspect(p) ==
  /\ p \in alive /\ pc[p] = "inspect"
  /\ \/ Stale /\ Go(p, "unlink") /\ UNCHANGED attempt
     \/ ~Stale /\ Go(p, "create") /\ attempt' = [attempt EXCEPT ![p] = 0]
  /\ UNCHANGED <<file, misses, alive, torn>>

\* Whatever file is there now is removed.  After three rounds the call throws;
\* the operator may try again.
Unlink(p) ==
  /\ p \in alive /\ pc[p] = "unlink"
  /\ file' = NoFile /\ Tears(p)
  /\ attempt' = [attempt EXCEPT ![p] = (@ + 1) % Attempts]
  /\ Go(p, "create")
  /\ UNCHANGED <<misses, alive>>

-----------------------------------------------------------------------------
(* renewTaskLock, called by the heartbeat of a scheduler *)

\* A count compared with the limit before it is raised.
RenewalFailsLate(p) ==
  IF misses[p] = Misses
    THEN Go(p, "lost") /\ misses' = [misses EXCEPT ![p] = 0]
    ELSE Go(p, "holding") /\ misses' = [misses EXCEPT ![p] = @ + 1]

\* A heartbeat that swallows the failure.
RenewalIgnored(p) == Go(p, "holding") /\ UNCHANGED misses

\* The heartbeat counts a failed renewal, and the third in a row makes the
\* scheduler cancel its own task.
RenewalFails(p) ==
  IF misses[p] + 1 = Misses
    THEN Go(p, "lost") /\ misses' = [misses EXCEPT ![p] = 0]
    ELSE Go(p, "holding") /\ misses' = [misses EXCEPT ![p] = @ + 1]

Readable == file.content \in {"valid", "expired"}

\* The lock is read and its owner compared: once before the temporary file is
\* written ...
BeginRenewal(p) ==
  /\ p \in alive /\ p \in Schedulers /\ pc[p] = "holding"
  /\ \/ Owned(p) /\ Readable /\ Go(p, "renew") /\ UNCHANGED misses
     \/ ~(Owned(p) /\ Readable) /\ RenewalFails(p)
  /\ UNCHANGED <<file, attempt, alive, torn>>

\* ... and once more before it is renamed.
GuardRenewal(p) ==
  /\ p \in alive /\ pc[p] = "renew"
  /\ \/ Owned(p) /\ Readable /\ Go(p, "rename") /\ UNCHANGED misses
     \/ ~(Owned(p) /\ Readable) /\ RenewalFails(p)
  /\ UNCHANGED <<file, attempt, alive, torn>>

Rename(p) ==
  /\ p \in alive /\ pc[p] = "rename"
  /\ file' = [owner |-> p, content |-> "valid"] /\ Tears(p)
  /\ Go(p, "holding")
  /\ misses' = [misses EXCEPT ![p] = 0]
  /\ UNCHANGED <<attempt, alive>>

-----------------------------------------------------------------------------
(* releaseTaskLock, and what happens to processes *)

\* The task's chain ends, by itself or because the scheduler stopped it.
Finish(p) ==
  /\ p \in alive /\ pc[p] \in {"holding", "lost"}
  /\ Go(p, "release")
  /\ UNCHANGED <<file, attempt, misses, alive, torn>>

\* A blind removal, whoever owns the lock.
ReleaseBlindly(p) ==
  /\ p \in alive /\ pc[p] = "release"
  /\ Go(p, "disown")
  /\ UNCHANGED <<file, attempt, misses, alive, torn>>

\* Only the owner's lock is removed; an unreadable file is left alone.
CheckOwner(p) ==
  /\ p \in alive /\ pc[p] = "release"
  /\ Go(p, IF Owned(p) /\ Readable THEN "disown" ELSE "create")
  /\ UNCHANGED <<file, attempt, misses, alive, torn>>

\* The file is removed without being looked at again.
Disown(p) ==
  /\ p \in alive /\ pc[p] = "disown"
  /\ file' = NoFile /\ Tears(p)
  /\ Go(p, "create")
  /\ UNCHANGED <<attempt, misses, alive>>

Die(p) ==
  /\ p \in Mortal \intersect alive
  /\ alive' = alive \ {p}
  /\ UNCHANGED <<file, pc, attempt, misses, torn>>

\* lease_expires_at passes: a CLI command outlives its fifteen minutes, or a
\* scheduler is suspended for as long.
LeaseRunsOut ==
  /\ file.owner \in Slow /\ file.content = "valid"
  /\ file' = [file EXCEPT !.content = "expired"]
  /\ UNCHANGED <<pc, attempt, misses, alive, torn>>

-----------------------------------------------------------------------------
Acquire(p) == TryCreate(p) \/ Write(p) \/ Inspect(p) \/ Unlink(p)
Renew(p) == BeginRenewal(p) \/ GuardRenewal(p) \/ Rename(p)
Release(p) == CheckOwner(p) \/ Disown(p)

Step(p) == Acquire(p) \/ Renew(p) \/ Finish(p) \/ Release(p) \/ Die(p)

Next == LeaseRunsOut \/ \E p \in Procs : Step(p)

Spec == Init /\ [][Next]_vars

\* A call that has begun goes on, an operator who is refused tries again, a
\* timer fires, and a chain whose runs have been terminated ends; a task that
\* is left alone need not end.
Stop(p) == pc[p] = "lost" /\ Finish(p)
FairSpec ==
  Spec /\ \A p \in Procs : /\ WF_vars(Acquire(p)) /\ WF_vars(Renew(p))
                          /\ WF_vars(Release(p)) /\ WF_vars(Stop(p))

-----------------------------------------------------------------------------
(***************************************************************************)
(* What should hold.                                                       *)
(***************************************************************************)

\* Every variable keeps its type.
TypeOK ==
  /\ file \in Lock
  /\ pc \in [Procs -> Steps]
  /\ attempt \in [Procs -> 0..(Attempts - 1)]
  /\ misses \in [Procs -> 0..(Misses - 1)]
  /\ alive \in SUBSET Procs
  /\ torn \in BOOLEAN

\* Until some living owner has its file removed or replaced by another
\* process, whoever drives the task, or is about to, is the owner the file
\* names: there is no other way to two owners, however deaths and takeovers
\* interleave.
ExclusiveUnlessTorn ==
  ~torn => \A p \in alive : /\ pc[p] \in Driving => Owned(p) /\ Readable
                            /\ pc[p] = "write" => Owned(p)

\* The owner is in place and nobody is about to act on an older look at the
\* file: no removal, no rename and no write is under way.
Settled(p) ==
  /\ Drives(p) /\ Owned(p) /\ file.content = "valid"
  /\ \A q \in alive \ {p} : pc[q] \notin {"write", "unlink", "rename", "disown"}

\* A settled lock excludes everybody else, and stays settled until its owner
\* ends, dies or lets its lease run out: whoever comes later is refused.
SettledLockExcludes ==
  [][\A p \in Procs : Settled(p) =>
       /\ Settled(p)' \/ ~Drives(p)' \/ LeaseRunsOut
       /\ \A q \in Procs \ {p} : Drives(q)' => Drives(q)]_vars

\* Exclusion, in the two forms above.
OneOwner == []ExclusiveUnlessTorn /\ SettledLockExcludes

\* No process that dies, whatever it leaves behind, an empty file included,
\* blocks the task for ever: if owners come to an end, the living go on getting
\* the lock.
LockRecovers ==
  (\A p \in Procs : WF_vars(Finish(p))) => []<>(\E p \in Procs : Drives(p))

\* A scheduler that drives a task whose lock it has lost notices: it stops
\* driving it, or has the lock back.
LossIsNoticed ==
  \A p \in Schedulers \ Mortal : Drives(p) /\ ~Owned(p) ~> ~Drives(p) \/ Owned(p)

-----------------------------------------------------------------------------
(***************************************************************************)
(* What the code's own comment says, and what it does not do.              *)
(***************************************************************************)

\* "One task has at most one active Control Plane owner at a time."
MutualExclusion == \A p, q \in Procs : Drives(p) /\ Drives(q) => p = q
=============================================================================
