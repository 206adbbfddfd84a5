----------------------------- MODULE LockHolds -----------------------------
(***************************************************************************)
(* The state of one a_util::concurrency::shared_mutex as its callers see   *)
(* it: a function from threads to the hold each has on the lock.  A writer *)
(* first CLAIMS the lock, which keeps newcomers out, and is EXCLUSIVE once *)
(* the last reader has left.  RWLock is the specification of a single such *)
(* lock; a module with many locks keeps one function per lock.             *)
(***************************************************************************)
EXTENDS Naturals, FiniteSets

CONSTANTS Threads,     \* the threads that use the lock
          MaxReaders   \* reader slots (max_readers, 2^31 - 1 in the code)

ASSUME FiniteThreadsAssumption == IsFiniteSet(Threads)
ASSUME MaxReadersAssumption == MaxReaders \in Nat \ {0}

-----------------------------------------------------------------------------
Holds == {"out", "shared", "claimed", "exclusive"}

FreeLock == [t \in Threads |-> "out"]

SharedHolders(lock) == {t \in Threads : lock[t] = "shared"}

Claimed(lock) == \E t \in Threads : lock[t] \in {"claimed", "exclusive"}

CanShare(lock) == ~Claimed(lock) /\ Cardinality(SharedHolders(lock)) < MaxReaders

CanClaim(lock) == ~Claimed(lock)

NoReaders(lock) == SharedHolders(lock) = {}

Hold(lock, t, h) == [lock EXCEPT ![t] = h]

=============================================================================
