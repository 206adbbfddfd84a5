---------------------------- MODULE SharedMutex ----------------------------
(***************************************************************************)
(* a_util::concurrency::shared_mutex (src/concurrency/shared_mutex.cpp):   *)
(* the C++11 fallback for a readers-writer lock.                           *)
(*                                                                         *)
(* Every operation runs under the internal mutex and gives it up only in   *)
(* the two condition-variable waits, so an action is the code from taking  *)
(* (or getting back) that mutex to the next wait or return.  The flag word *)
(* is kept as its two fields, the writer bit and the reader count.  A      *)
(* wakeup is the removal of a thread from a wait set: by a notify, or for  *)
(* no reason, as the standard allows; the woken thread then re-reads the   *)
(* condition of its loop in a step of its own.                             *)
(***************************************************************************)
EXTENDS LockHolds

VARIABLES writeBit,  \* flag & write_lock_active
          readers,   \* flag & max_readers
          cond1,     \* threads blocked in cond1.wait
          cond2,     \* threads blocked in cond2.wait
          place         \* where each thread is

mutexVars == <<writeBit, readers, cond1, cond2, place>>

Locations == {"idle", "lock1", "lock2", "rlock", "writer", "reader"}

MutexTypeOK ==
    /\ writeBit \in BOOLEAN
    /\ readers \in 0 .. MaxReaders
    /\ cond1 \subseteq Threads
    /\ cond2 \subseteq Threads
    /\ place \in [Threads -> Locations]

MutexInit ==
    /\ writeBit = FALSE
    /\ readers = 0
    /\ cond1 = {}
    /\ cond2 = {}
    /\ place = [t \in Threads |-> "idle"]

To(t, loc) == place' = [place EXCEPT ![t] = loc]

\* notify_one wakes one of the waiting threads, whichever, if there is any.
NotifyOne(cond, next) == IF cond = {} THEN next = cond
                         ELSE \E t \in cond : next = cond \ {t}

-----------------------------------------------------------------------------
(* lock() *)

\* The thread calls the operation, or its wait in that loop has returned.
AtLoop(t, loc, cond) == place[t] = loc /\ t \notin cond

LockWait(t) ==
    /\ place[t] = "idle" \/ AtLoop(t, "lock1", cond1)
    /\ writeBit
    /\ cond1' = cond1 \cup {t}
    /\ To(t, "lock1")
    /\ UNCHANGED <<writeBit, readers, cond2>>

\* Sets the writer bit and reads the second loop's condition without letting
\* go of the mutex.
LockClaim(t) ==
    /\ place[t] = "idle" \/ AtLoop(t, "lock1", cond1)
    /\ ~writeBit
    /\ writeBit' = TRUE
    /\ IF readers = 0
       THEN To(t, "writer") /\ UNCHANGED cond2
       ELSE To(t, "lock2") /\ cond2' = cond2 \cup {t}
    /\ UNCHANGED <<readers, cond1>>

\* Bug: an if in place of the second while.
LockDrain_NoRecheck(t) ==
    /\ AtLoop(t, "lock2", cond2)
    /\ To(t, "writer")
    /\ UNCHANGED <<writeBit, readers, cond1, cond2>>

LockDrain(t) ==
    /\ AtLoop(t, "lock2", cond2)
    /\ IF readers = 0
       THEN To(t, "writer") /\ UNCHANGED cond2
       ELSE cond2' = cond2 \cup {t} /\ UNCHANGED place
    /\ UNCHANGED <<writeBit, readers, cond1>>

\* Bug: the writer bit is tested, not the whole flag.
TryLock_IgnoresReaders(t) ==
    /\ place[t] = "idle"
    /\ ~writeBit
    /\ writeBit' = TRUE
    /\ To(t, "writer")
    /\ UNCHANGED <<readers, cond1, cond2>>

TryLock(t) ==
    /\ place[t] = "idle"
    /\ ~writeBit /\ readers = 0
    /\ writeBit' = TRUE
    /\ To(t, "writer")
    /\ UNCHANGED <<readers, cond1, cond2>>

\* flag = 0 clears the reader count with the writer bit.
Unlock(t) ==
    /\ place[t] = "writer"
    /\ writeBit' = FALSE
    /\ readers' = 0
    /\ cond1' = {}
    /\ To(t, "idle")
    /\ UNCHANGED cond2

-----------------------------------------------------------------------------
(* lock_shared() *)

\* Bug: the slots are not counted.
NoSlot_Unlimited == writeBit

NoSlot == writeBit \/ readers = MaxReaders

LockSharedWait(t) ==
    /\ place[t] = "idle" \/ AtLoop(t, "rlock", cond1)
    /\ NoSlot
    /\ cond1' = cond1 \cup {t}
    /\ To(t, "rlock")
    /\ UNCHANGED <<writeBit, readers, cond2>>

LockSharedTake(t) ==
    /\ place[t] = "idle" \/ AtLoop(t, "rlock", cond1)
    /\ ~NoSlot
    /\ readers' = readers + 1
    /\ To(t, "reader")
    /\ UNCHANGED <<writeBit, cond1, cond2>>

TryLockShared(t) ==
    /\ place[t] = "idle"
    /\ ~NoSlot
    /\ readers' = readers + 1
    /\ To(t, "reader")
    /\ UNCHANGED <<writeBit, cond1, cond2>>

\* Bug: the last reader wakes a writer only if no writer bit is set.
UnlockShared_WrongBranch(t) ==
    /\ place[t] = "reader"
    /\ readers > 0
    /\ readers' = readers - 1
    /\ IF writeBit THEN UNCHANGED cond2 ELSE NotifyOne(cond2, cond2')
    /\ To(t, "idle")
    /\ UNCHANGED <<writeBit, cond1>>

UnlockShared(t) ==
    /\ place[t] = "reader"
    /\ IF readers > 0
       THEN /\ readers' = readers - 1
            /\ IF writeBit /\ readers' = 0
               THEN NotifyOne(cond2, cond2')
               ELSE UNCHANGED cond2
            /\ IF ~writeBit /\ readers' = MaxReaders - 1
               THEN NotifyOne(cond1, cond1')
               ELSE UNCHANGED cond1
       ELSE UNCHANGED <<readers, cond1, cond2>>
    /\ To(t, "idle")
    /\ UNCHANGED writeBit

SpuriousWakeup(t) ==
    /\ t \in cond1 \cup cond2
    /\ cond1' = cond1 \ {t}
    /\ cond2' = cond2 \ {t}
    /\ UNCHANGED <<writeBit, readers, place>>

-----------------------------------------------------------------------------

Acquire(t) == LockWait(t) \/ LockClaim(t) \/ LockDrain(t) \/ TryLock(t)
                \/ LockSharedWait(t) \/ LockSharedTake(t) \/ TryLockShared(t)

Leave(t) == Unlock(t) \/ UnlockShared(t)

MutexNext == \E t \in Threads : Acquire(t) \/ Leave(t) \/ SpuriousWakeup(t)

\* A thread inside an operation runs on when its wait has returned, and a
\* holder eventually releases; a caller need not call.
Resume(t) == place[t] # "idle" /\ Acquire(t)

Safe == MutexInit /\ [][MutexNext]_mutexVars

MutexSpec ==
    Safe /\ \A t \in Threads : WF_mutexVars(Resume(t)) /\ WF_mutexVars(Leave(t))

-----------------------------------------------------------------------------
(* Properties *)

ReaderSet == {t \in Threads : place[t] = "reader"}

Writers == {t \in Threads : place[t] \in {"lock2", "writer"}}

\* No two threads are inside as writers, and none reads while one is: what
\* every user of objectsLock, Object::mutex and the mapping's targets relies on.
MutualExclusion ==
    \A t, u \in Threads :
        place[t] = "writer" /\ place[u] \in {"writer", "reader"} => t = u

\* The flag word tells the truth about the threads: the count is the number of
\* readers inside (so unlock's flag = 0 never discards a reader), and the
\* writer bit belongs to exactly one thread.
FlagMatchesThreads ==
    /\ readers = Cardinality(ReaderSet)
    /\ \A t, u \in Writers : t = u
    /\ writeBit <=> Writers # {}

\* A thread that holds the lock excludes those it should, and is counted, also
\* after a try that took it in one step.
HoldersAsCounted == MutualExclusion /\ FlagMatchesThreads

\* Nobody sleeps on a condition that has come true: a thread stays in cond1
\* only while the writer bit is set, unless it is a reader that found every
\* slot taken, which needs more threads than slots; a writer stays in cond2
\* only while readers remain.
WakeupsNotLost ==
    /\ \A t \in cond1 :
        writeBit \/ (place[t] = "rlock" /\ MaxReaders < Cardinality(Threads))
    /\ cond2 # {} => readers > 0

\* The mutex with its counter and condition variables implements the abstract
\* lock, including that a writer which has claimed the lock gets it.
HoldOf(loc) == CASE loc = "reader" -> "shared"
                 [] loc = "lock2"  -> "claimed"
                 [] loc = "writer" -> "exclusive"
                 [] OTHER          -> "out"

LockOf == [t \in Threads |-> HoldOf(place[t])]

Abstract == INSTANCE RWLock WITH mode <- LockOf

ImplementsRWLock == Abstract!Spec

ImplementsRWLockSafety == Abstract!Safe

=============================================================================
