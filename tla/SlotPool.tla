------------------------------ MODULE SlotPool ------------------------------
(***************************************************************************)
(* What the slot half of the runtime guard promises its callers, without   *)
(* counters, queues, wake-ups or circuits: a pool of Slots tickets.  A run *)
(* waits only while no ticket is free, takes a ticket only while one is,   *)
(* and a ticket comes back, once, from the run that holds it.  A ticket    *)
(* may be lost (the run is over and nobody gave it back); it is then gone  *)
(* for good, never handed out a second time.                               *)
(***************************************************************************)
EXTENDS Naturals, FiniteSets

CONSTANTS
  Runs,   \* who may ask for a ticket
  Slots   \* how many tickets there are

VARIABLES
  owned,    \* runs holding a ticket
  waiting,  \* runs waiting for one
  lost      \* runs that lost theirs

vars == <<owned, waiting, lost>>

TicketFree == Cardinality(owned \union lost) < Slots

Init == owned = {} /\ waiting = {} /\ lost = {}

\* A run that finds no ticket waits for one.
Wait(r) ==
  /\ ~TicketFree
  /\ waiting' = waiting \union {r}
  /\ UNCHANGED <<owned, lost>>

\* A run that holds no ticket takes a free one, having waited or not.
Take(r) ==
  /\ TicketFree
  /\ r \notin owned \union lost
  /\ owned' = owned \union {r}
  /\ waiting' = waiting \ {r}
  /\ UNCHANGED lost

\* A waiting run is turned away.
TurnAway(r) ==
  /\ r \in waiting
  /\ waiting' = waiting \ {r}
  /\ UNCHANGED <<owned, lost>>

GiveBack(r) ==
  /\ r \in owned
  /\ owned' = owned \ {r}
  /\ UNCHANGED <<waiting, lost>>

Lose(r) ==
  /\ r \in owned
  /\ owned' = owned \ {r}
  /\ lost' = lost \union {r}
  /\ UNCHANGED waiting

Next == \E r \in Runs : Wait(r) \/ Take(r) \/ TurnAway(r) \/ GiveBack(r) \/ Lose(r)

Spec == Init /\ [][Next]_vars
=============================================================================
