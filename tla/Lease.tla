------------------------------- MODULE Lease -------------------------------
(***************************************************************************)
(* What a Redis lock with a TTL promises (pkg/lock, and the leader lock of *)
(* pkg/singleflight): SETNX grants it when it is free, only its holder can *)
(* delete it, and its TTL may run out while the holder still works.  Such  *)
(* a node has lapsed; until then nobody else works.                        *)
(***************************************************************************)
CONSTANTS Node, None

VARIABLES
  holder,   \* the value of the lock entry, or None
  working,  \* the nodes that acquired it and have not stopped
  lapsed    \* those that lost it to the TTL while working, ever

leaseVars == <<holder, working, lapsed>>

LeaseInit == holder = None /\ working = {} /\ lapsed = {}

Acquire(n) ==
  /\ holder = None
  /\ n \notin working \cup lapsed
  /\ holder' = n
  /\ working' = working \cup {n}
  /\ UNCHANGED lapsed

Lapse ==
  /\ holder # None
  /\ holder' = None
  /\ lapsed' = lapsed \cup (working \cap {holder})
  /\ UNCHANGED working

\* The node releases the lock if it is still its own ...
Surrender(n) ==
  /\ n \in working
  /\ holder' = IF holder = n THEN None ELSE holder
  /\ working' = working \ {n}
  /\ UNCHANGED lapsed

\* ... or dies with it.
Abandon(n) ==
  /\ n \in working
  /\ working' = working \ {n}
  /\ UNCHANGED <<holder, lapsed>>

LeaseNext == Lapse \/ \E n \in Node : Acquire(n) \/ Surrender(n) \/ Abandon(n)

LeaseSpec == LeaseInit /\ [][LeaseNext]_leaseVars

\* A node at work that has not lapsed holds the lock: there is at most one.
OnlyHolderWorks == working \ lapsed \subseteq {holder}
=============================================================================
