---------------------------- MODULE ClusterLock ----------------------------
(***************************************************************************)
(* One cluster lock of src/src/runtime/cluster-lock.service.ts             *)
(* (ClusterLockService.runWithLock), for one lock name.                    *)
(*                                                                         *)
(* With PostgreSQL the lock is a session-level advisory lock of a pooled   *)
(* connection.  Where the database has no advisory locks, every process    *)
(* falls back to a lock of its own: LockMode is what all processes find.   *)
(* Acquisition and skip counters are left out.                             *)
(***************************************************************************)
EXTENDS Naturals, FiniteSets

CONSTANTS
    Processes,   \* API processes
    NoProcess,
    LockMode,    \* "advisory" or "local"
    MaxDrops     \* bound: database sessions lost while they hold the lock

ASSUME LockAssumption ==
    /\ IsFiniteSet(Processes)
    /\ NoProcess \notin Processes
    /\ LockMode \in {"advisory", "local"}
    /\ MaxDrops \in Nat

VARIABLES
    advisory,   \* the process whose session holds the advisory lock
    inside,     \* processes that run the callback of runWithLock
    drops       \* history: sessions lost

lockVars == <<advisory, inside, drops>>

LockTypeOK ==
    /\ advisory \in Processes \cup {NoProcess}
    /\ inside \subseteq Processes
    /\ drops \in Nat

LockInit ==
    /\ advisory = NoProcess
    /\ inside = {}
    /\ drops = 0

\* tryAcquireAdvisoryLock or tryAcquireLocalLock; without success
\* runWithLock returns at once, which changes nothing.
Acquire(p) ==
    /\ p \notin inside
    /\ LockMode = "advisory" => advisory = NoProcess
    /\ advisory' = IF LockMode = "advisory" THEN p ELSE advisory
    /\ inside' = inside \cup {p}
    /\ UNCHANGED drops

\* The "finally" of runWithLock, and what the database does for a process
\* that dies.  An unlock that fails is only logged.
Release(p) ==
    /\ inside' = inside \ {p}
    /\ advisory' = IF advisory = p THEN NoProcess ELSE advisory
    /\ UNCHANGED drops

\* The session that holds the lock ends; the callback does not notice, for
\* it uses other connections.
SessionDrops(p) ==
    /\ advisory = p
    /\ drops < MaxDrops
    /\ drops' = drops + 1
    /\ advisory' = NoProcess
    /\ UNCHANGED inside
=============================================================================
