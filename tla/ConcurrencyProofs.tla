------------------------- MODULE ConcurrencyProofs -------------------------
(***************************************************************************)
(* Safety of SharedMutex for any finite set of threads and any number of   *)
(* reader slots, and that it implements RWLock (safety part); then safety  *)
(* of Semaphore for any set of threads and any bound on its count; then    *)
(* Timer for any use and any number of threads: its types, the reference   *)
(* count among them, and that its callback runs in one thread at a time.   *)
(* For one owner and a callback that leaves the timer alone: stop() leaves *)
(* no callback behind and no operation meets what is not there.            *)
(***************************************************************************)
EXTENDS SharedMutex, Semaphore, Timer, FiniteSetTheorems, TLAPS

\* Threads in a wait set are inside the operation that waits there.
WaitersInLoops ==
    /\ \A t \in cond1 : place[t] \in {"lock1", "rlock"}
    /\ \A t \in cond2 : place[t] = "lock2"

\* A writer got in only after the readers had left, and kept them out.
WriterSeesNoReaders == \A t \in Threads : place[t] = "writer" => readers = 0

\* The inductive invariant.
MutexInv ==
    /\ MutexTypeOK
    /\ FlagMatchesThreads
    /\ WakeupsNotLost
    /\ WaitersInLoops
    /\ WriterSeesNoReaders

-----------------------------------------------------------------------------

\* The reader count follows the set of readers when one thread joins it.
LEMMA ReaderJoins ==
    ASSUME MutexInv, NEW t \in Threads, place[t] # "reader", To(t, "reader")
    PROVE  Cardinality(ReaderSet') = readers + 1
<1>1. ReaderSet' = ReaderSet \cup {t}
  BY DEF ReaderSet, To, MutexInv, MutexTypeOK
<1>2. IsFiniteSet(ReaderSet) /\ t \notin ReaderSet
  BY FiniteThreadsAssumption, FS_Subset DEF ReaderSet
<1> QED
  BY <1>1, <1>2, FS_AddElement, FS_CardinalityType DEF MutexInv, FlagMatchesThreads

\* ... when one leaves it ...
LEMMA ReaderLeaves ==
    ASSUME MutexInv, NEW t \in Threads, place[t] = "reader", To(t, "idle")
    PROVE  readers > 0 /\ Cardinality(ReaderSet') = readers - 1
<1>1. ReaderSet' = ReaderSet \ {t} /\ t \in ReaderSet
  BY DEF ReaderSet, To, MutexInv, MutexTypeOK
<1>2. IsFiniteSet(ReaderSet)
  BY FiniteThreadsAssumption, FS_Subset DEF ReaderSet
<1>3. Cardinality(ReaderSet') = Cardinality(ReaderSet) - 1
  BY <1>1, <1>2, FS_RemoveElement
<1>4. Cardinality(ReaderSet) \in Nat /\ Cardinality(ReaderSet) # 0
  BY <1>1, <1>2, FS_CardinalityType, FS_EmptySet
<1> QED
  BY <1>3, <1>4 DEF MutexInv, FlagMatchesThreads

\* ... and a thread that finds every slot taken is not among the readers.
LEMMA FullMeansMoreThreads ==
    ASSUME MutexInv, NEW t \in Threads, place[t] # "reader", readers = MaxReaders
    PROVE  MaxReaders < Cardinality(Threads)
<1>1. IsFiniteSet(Threads \ {t}) /\ Cardinality(Threads \ {t}) = Cardinality(Threads) - 1
  BY FiniteThreadsAssumption, FS_RemoveElement
<1>2. ReaderSet \subseteq Threads \ {t}
  BY DEF ReaderSet
<1>3. Cardinality(ReaderSet) <= Cardinality(Threads \ {t})
  BY <1>1, <1>2, FS_Subset
<1>4. Cardinality(Threads) \in Nat /\ MaxReaders \in Nat
  BY FiniteThreadsAssumption, MaxReadersAssumption, FS_CardinalityType
<1> QED
  BY <1>1, <1>3, <1>4 DEF MutexInv, FlagMatchesThreads

-----------------------------------------------------------------------------

LEMMA InitIInv == MutexInit => MutexInv
<1> SUFFICES ASSUME MutexInit PROVE MutexInv
  OBVIOUS
<1>1. ReaderSet = {} /\ Writers = {}
  BY DEF MutexInit, ReaderSet, Writers
<1>2. MutexTypeOK
  <2>1. 0 \in 0 .. MaxReaders
    BY MaxReadersAssumption
  <2>2. place \in [Threads -> Locations]
    BY DEF MutexInit, Locations
  <2> QED
    BY <2>1, <2>2 DEF MutexInit, MutexTypeOK
<1>3. WakeupsNotLost /\ WaitersInLoops /\ WriterSeesNoReaders
  BY DEF MutexInit, WakeupsNotLost, WaitersInLoops, WriterSeesNoReaders
<1>4. FlagMatchesThreads
  BY <1>1, FS_EmptySet DEF MutexInit, FlagMatchesThreads
<1> QED
  BY <1>2, <1>3, <1>4 DEF MutexInv

\* A step of a thread that neither becomes nor was a reader leaves ReaderSet.
LEMMA SameReaders ==
    ASSUME MutexInv, NEW t \in Threads, NEW loc, To(t, loc),
           place[t] # "reader", loc # "reader"
    PROVE  ReaderSet' = ReaderSet
BY DEF ReaderSet, To, MutexInv, MutexTypeOK

LEMMA AcquireIInv ==
    ASSUME MutexInv, NEW t \in Threads, Acquire(t)
    PROVE  MutexInv'
<1> USE MaxReadersAssumption
<1>1. CASE LockWait(t)
  <2>1. ReaderSet' = ReaderSet
    BY <1>1, SameReaders DEF LockWait, AtLoop
  <2> QED
    BY <1>1, <2>1 DEF LockWait, AtLoop, To, MutexInv, MutexTypeOK, Locations,
       FlagMatchesThreads, Writers, WakeupsNotLost, WaitersInLoops, WriterSeesNoReaders
<1>2. CASE LockClaim(t)
  <2>1. ReaderSet' = ReaderSet
    BY <1>2, SameReaders DEF LockClaim, AtLoop
  <2> QED
    BY <1>2, <2>1 DEF LockClaim, AtLoop, To, MutexInv, MutexTypeOK, Locations,
       FlagMatchesThreads, Writers, WakeupsNotLost, WaitersInLoops, WriterSeesNoReaders
<1>3. CASE LockDrain(t)
  <2>1. ReaderSet' = ReaderSet
    BY <1>3, SameReaders DEF LockDrain, AtLoop, ReaderSet
  <2> QED
    BY <1>3, <2>1 DEF LockDrain, AtLoop, To, MutexInv, MutexTypeOK, Locations,
       FlagMatchesThreads, Writers, WakeupsNotLost, WaitersInLoops, WriterSeesNoReaders
<1>4. CASE TryLock(t)
  <2>1. ReaderSet' = ReaderSet
    BY <1>4, SameReaders DEF TryLock
  <2> QED
    BY <1>4, <2>1 DEF TryLock, To, MutexInv, MutexTypeOK, Locations,
       FlagMatchesThreads, Writers, WakeupsNotLost, WaitersInLoops, WriterSeesNoReaders
<1>5. CASE LockSharedWait(t)
  <2>1. ReaderSet' = ReaderSet
    BY <1>5, SameReaders DEF LockSharedWait, AtLoop
  <2>2. readers = MaxReaders => MaxReaders < Cardinality(Threads)
    BY <1>5, FullMeansMoreThreads DEF LockSharedWait, AtLoop
  <2> QED
    BY <1>5, <2>1, <2>2 DEF LockSharedWait, AtLoop, NoSlot, To, MutexInv, MutexTypeOK, Locations,
       FlagMatchesThreads, Writers, WakeupsNotLost, WaitersInLoops, WriterSeesNoReaders
<1>6. CASE LockSharedTake(t) \/ TryLockShared(t)
  <2>1. Cardinality(ReaderSet') = readers + 1
    BY <1>6, ReaderJoins DEF LockSharedTake, TryLockShared, AtLoop
  <2> QED
    BY <1>6, <2>1 DEF LockSharedTake, TryLockShared, AtLoop, NoSlot, To, MutexInv, MutexTypeOK,
       Locations, FlagMatchesThreads, Writers, WakeupsNotLost, WaitersInLoops,
       WriterSeesNoReaders
<1> QED
  BY <1>1, <1>2, <1>3, <1>4, <1>5, <1>6 DEF Acquire

LEMMA LeaveIInv ==
    ASSUME MutexInv, NEW t \in Threads, Leave(t)
    PROVE  MutexInv'
<1> USE MaxReadersAssumption
<1>1. CASE Unlock(t)
  <2>1. ReaderSet' = ReaderSet
    BY <1>1, SameReaders DEF Unlock
  <2>2. readers = 0 /\ cond2 = {}
    BY <1>1 DEF Unlock, MutexInv, WriterSeesNoReaders, WaitersInLoops, FlagMatchesThreads,
       Writers, MutexTypeOK
  <2>3. Writers' = {}
    BY <1>1 DEF Unlock, To, MutexInv, MutexTypeOK, FlagMatchesThreads, Writers
  <2>4. MutexTypeOK' /\ WaitersInLoops'
    BY <1>1, <2>2 DEF Unlock, To, MutexInv, MutexTypeOK, Locations, WaitersInLoops
  <2>5. FlagMatchesThreads'
    BY <1>1, <2>1, <2>2, <2>3 DEF Unlock, MutexInv, FlagMatchesThreads
  <2>6. WakeupsNotLost' /\ WriterSeesNoReaders'
    BY <1>1, <2>2 DEF Unlock, WakeupsNotLost, WriterSeesNoReaders
  <2> QED
    BY <2>4, <2>5, <2>6 DEF MutexInv
<1>2. CASE UnlockShared(t)
  <2>1. readers > 0 /\ Cardinality(ReaderSet') = readers - 1
    BY <1>2, ReaderLeaves DEF UnlockShared
  <2>2. readers' = readers - 1 /\ To(t, "idle") /\ UNCHANGED writeBit
    BY <1>2, <2>1 DEF UnlockShared
  <2>3. cond1' \subseteq cond1 /\ cond2' \subseteq cond2
    BY <1>2, <2>1 DEF UnlockShared, NotifyOne
  <2>4. cond2' # {} => readers' > 0
    <3> SUFFICES ASSUME cond2' # {}, readers' = 0 PROVE FALSE
      BY <2>1, <2>2 DEF MutexInv, MutexTypeOK
    <3>1. cond2 # {} /\ \A u, v \in cond2 : u = v
      BY <2>3 DEF MutexInv, WaitersInLoops, FlagMatchesThreads, Writers, MutexTypeOK
    <3>2. writeBit
      BY <3>1 DEF MutexInv, WaitersInLoops, FlagMatchesThreads, Writers, MutexTypeOK
    <3>3. NotifyOne(cond2, cond2')
      BY <1>2, <2>1, <3>2 DEF UnlockShared
    <3> QED
      BY <3>1, <3>3 DEF NotifyOne
  <2>5. WakeupsNotLost'
    <3>1. \A u \in cond1' : u \in Threads /\ u # t
      BY <1>2, <2>3 DEF UnlockShared, MutexInv, WaitersInLoops, MutexTypeOK
    <3>2. \A u \in cond1' : place'[u] = place[u]
      BY <2>2, <3>1 DEF To, MutexInv, MutexTypeOK
    <3> QED
      BY <2>2, <2>3, <2>4, <3>2 DEF MutexInv, WakeupsNotLost
  <2>6. MutexTypeOK' /\ WaitersInLoops' /\ WriterSeesNoReaders'
    <3>1. MutexTypeOK'
      BY <2>1, <2>2, <2>3 DEF MutexInv, MutexTypeOK, To, Locations
    <3>2. WaitersInLoops'
      BY <1>2, <2>2, <2>3 DEF UnlockShared, MutexInv, MutexTypeOK, WaitersInLoops, To
    <3>3. WriterSeesNoReaders'
      BY <2>1, <2>2 DEF MutexInv, MutexTypeOK, WriterSeesNoReaders, To
    <3> QED
      BY <3>1, <3>2, <3>3
  <2>7. Writers' = Writers
    BY <1>2, <2>2 DEF UnlockShared, Writers, To, MutexInv, MutexTypeOK
  <2>8. FlagMatchesThreads'
    BY <2>1, <2>2, <2>7 DEF MutexInv, FlagMatchesThreads
  <2> QED
    BY <2>5, <2>6, <2>8 DEF MutexInv
<1> QED
  BY <1>1, <1>2 DEF Leave

LEMMA StepIInv == MutexInv /\ [MutexNext]_mutexVars => MutexInv'
<1> SUFFICES ASSUME MutexInv, [MutexNext]_mutexVars PROVE MutexInv'
  OBVIOUS
<1>1. ASSUME NEW t \in Threads, SpuriousWakeup(t) PROVE MutexInv'
  BY <1>1 DEF SpuriousWakeup, MutexInv, MutexTypeOK, FlagMatchesThreads, ReaderSet, Writers,
     WakeupsNotLost, WaitersInLoops, WriterSeesNoReaders
<1>2. CASE UNCHANGED mutexVars
  BY <1>2 DEF mutexVars, MutexInv, MutexTypeOK, FlagMatchesThreads, ReaderSet, Writers,
     WakeupsNotLost, WaitersInLoops, WriterSeesNoReaders
<1> QED
  BY <1>1, <1>2, AcquireIInv, LeaveIInv DEF MutexNext

THEOREM Invariance == MutexSpec => []MutexInv
<1> QED
  BY InitIInv, StepIInv, PTL DEF MutexSpec, Safe

-----------------------------------------------------------------------------

\* MutexTypeOK holds in every reachable state: the reader count never leaves the
\* range of its bits in the flag word.
THEOREM MutexTyping == MutexSpec => []MutexTypeOK
<1>1. MutexInv => MutexTypeOK
  BY DEF MutexInv
<1> QED
  BY <1>1, Invariance, PTL

\* No thread sleeps on a condition variable whose condition has come true.
THEOREM NoWakeupLost == MutexSpec => []WakeupsNotLost
<1>1. MutexInv => WakeupsNotLost
  BY DEF MutexInv
<1> QED
  BY <1>1, Invariance, PTL

\* A writer inside is alone.
LEMMA IInvExcludes == MutexInv => MutualExclusion
<1> SUFFICES ASSUME MutexInv, NEW t \in Threads, NEW u \in Threads,
                    place[t] = "writer", place[u] \in {"writer", "reader"}
             PROVE  t = u
  BY DEF MutualExclusion
<1>1. CASE place[u] = "writer"
  BY <1>1 DEF MutexInv, FlagMatchesThreads, Writers
<1>2. CASE place[u] = "reader"
  <2>1. ReaderSet # {} /\ IsFiniteSet(ReaderSet)
    BY <1>2, FiniteThreadsAssumption, FS_Subset DEF ReaderSet
  <2>2. readers # 0
    BY <2>1, FS_EmptySet DEF MutexInv, FlagMatchesThreads
  <2> QED
    BY <2>2 DEF MutexInv, WriterSeesNoReaders
<1> QED
  BY <1>1, <1>2

\* shared_mutex excludes and counts: a writer inside is alone and the flag word
\* agrees with the threads that hold the lock, for any number of threads.
THEOREM Holders == MutexSpec => []HoldersAsCounted
<1>1. MutexInv => HoldersAsCounted
  BY IInvExcludes DEF MutexInv, HoldersAsCounted
<1> QED
  BY <1>1, Invariance, PTL

-----------------------------------------------------------------------------
(* SharedMutex implements RWLock. *)

LEMMA HoldValues ==
    /\ HoldOf("reader") = "shared"
    /\ HoldOf("lock2") = "claimed"
    /\ HoldOf("writer") = "exclusive"
    /\ HoldOf("idle") = "out" /\ HoldOf("lock1") = "out" /\ HoldOf("rlock") = "out"
BY DEF HoldOf

LEMMA LockOfGoto ==
    ASSUME MutexTypeOK, NEW t \in Threads, NEW loc, To(t, loc)
    PROVE  /\ LockOf[t] = HoldOf(place[t])
           /\ LockOf' = [LockOf EXCEPT ![t] = HoldOf(loc)]
BY DEF LockOf, To, MutexTypeOK

\* What the flag word says of the abstract lock.
LEMMA LockOfFlag ==
    ASSUME MutexInv
    PROVE  /\ Abstract!SharedHolders(LockOf) = ReaderSet
           /\ Abstract!NoReaders(LockOf) <=> readers = 0
           /\ Abstract!Claimed(LockOf) <=> writeBit
<1>1. Abstract!SharedHolders(LockOf) = ReaderSet
  BY HoldValues DEF Abstract!SharedHolders, LockOf, ReaderSet, MutexInv, MutexTypeOK, Locations
<1>2. readers = 0 <=> ReaderSet = {}
  <2>1. IsFiniteSet(ReaderSet)
    BY FiniteThreadsAssumption, FS_Subset DEF ReaderSet
  <2> QED
    BY <2>1, FS_EmptySet DEF MutexInv, FlagMatchesThreads
<1>3. Abstract!Claimed(LockOf) <=> Writers # {}
  BY HoldValues DEF Abstract!Claimed, LockOf, Writers, MutexInv, MutexTypeOK, Locations
<1> QED
  BY <1>1, <1>2, <1>3 DEF Abstract!NoReaders, MutexInv, FlagMatchesThreads

LEMMA StepRefines ==
    ASSUME MutexInv, MutexNext PROVE [Abstract!Next]_LockOf
<1> USE LockOfFlag DEF MutexInv, Abstract!Next
<1>1. PICK t \in Threads : Acquire(t) \/ Leave(t) \/ SpuriousWakeup(t)
  BY DEF MutexNext
<1> USE HoldValues
<1>2. CASE LockWait(t) \/ LockSharedWait(t) \/ SpuriousWakeup(t)
  <2>1. CASE SpuriousWakeup(t)
    BY <2>1 DEF SpuriousWakeup, LockOf
  <2>2. ASSUME NEW loc \in {"lock1", "rlock"}, To(t, loc), place[t] \in {"idle", loc}
        PROVE  UNCHANGED LockOf
    <3>1. LockOf[t] = "out" /\ LockOf' = [LockOf EXCEPT ![t] = "out"]
      BY <2>2, LockOfGoto
    <3> QED
      BY <3>1 DEF LockOf
  <2> QED
    BY <1>2, <2>1, <2>2 DEF LockWait, LockSharedWait, AtLoop
<1>3. CASE LockClaim(t) \/ TryLock(t)
  <2>1. LockOf[t] = "out" /\ Abstract!CanClaim(LockOf)
    BY <1>3, LockOfGoto DEF LockClaim, TryLock, AtLoop, Abstract!CanClaim
  <2>2. LockOf' = [LockOf EXCEPT ![t] = IF readers = 0 THEN "exclusive" ELSE "claimed"]
    BY <1>3, LockOfGoto DEF LockClaim, TryLock
  <2>3. Abstract!Claim(t)
    BY <2>1, <2>2 DEF Abstract!Claim, Abstract!Hold
  <2> QED
    BY <2>3
<1>4. CASE LockDrain(t)
  <2>1. CASE readers = 0
    <3>1. LockOf[t] = "claimed" /\ LockOf' = [LockOf EXCEPT ![t] = "exclusive"]
      BY <1>4, <2>1, LockOfGoto DEF LockDrain, AtLoop
    <3>2. Abstract!Enter(t)
      BY <2>1, <3>1 DEF Abstract!Enter, Abstract!Hold
    <3> QED
      BY <3>2
  <2>2. CASE readers # 0
    BY <1>4, <2>2 DEF LockDrain, LockOf
  <2> QED
    BY <2>1, <2>2
<1>5. CASE LockSharedTake(t) \/ TryLockShared(t)
  <2>1. readers # MaxReaders /\ ~writeBit
    BY <1>5 DEF LockSharedTake, TryLockShared, NoSlot
  <2>2. Abstract!CanShare(LockOf)
    <3>1. readers < MaxReaders
      BY <2>1, MaxReadersAssumption DEF MutexTypeOK
    <3>2. Abstract!Cardinality(Abstract!SharedHolders(LockOf)) = readers
      BY DEF FlagMatchesThreads, Abstract!Cardinality, Cardinality
    <3>3. ~Abstract!Claimed(LockOf)
      BY <2>1
    <3> HIDE DEF MutexInv
    <3> QED
      BY <3>1, <3>2, <3>3 DEF Abstract!CanShare
  <2>3. LockOf[t] = "out" /\ LockOf' = [LockOf EXCEPT ![t] = "shared"]
    BY <1>5, LockOfGoto DEF LockSharedTake, TryLockShared, AtLoop
  <2>4. Abstract!Share(t)
    BY <2>2, <2>3 DEF Abstract!Share, Abstract!Hold
  <2> QED
    BY <2>4
<1>6. CASE Leave(t)
  <2>1. LockOf[t] \in {"shared", "exclusive"} /\ LockOf' = [LockOf EXCEPT ![t] = "out"]
    BY <1>6, LockOfGoto DEF Leave, Unlock, UnlockShared
  <2>2. Abstract!Release(t)
    BY <2>1 DEF Abstract!Release, Abstract!Hold
  <2> QED
    BY <2>2
<1> QED
  BY <1>1, <1>2, <1>3, <1>4, <1>5, <1>6 DEF Acquire

\* The counter, the writer bit and the two condition variables implement the
\* abstract lock: every step of shared_mutex is a step of RWLock or invisible.
THEOREM Refinement == Safe => ImplementsRWLockSafety
<1>1. MutexInit => Abstract!Init
  BY HoldValues DEF MutexInit, Abstract!Init, LockOf, Abstract!FreeLock
<1>2. MutexInv /\ [MutexNext]_mutexVars => [Abstract!Next]_LockOf
  <2>1. UNCHANGED mutexVars => UNCHANGED LockOf
    BY DEF mutexVars, LockOf
  <2> QED
    BY <2>1, StepRefines
<1>3. Safe => []MutexInv
  BY InitIInv, StepIInv, PTL DEF Safe
<1> QED
  BY <1>1, <1>2, <1>3, PTL DEF Safe, ImplementsRWLockSafety, Abstract!Safe, Abstract!vars

-----------------------------------------------------------------------------
(* The semaphore *)

\* The inductive invariant: the property carries itself, given the types.
SemIInv == SemTypeOK /\ NoSleeperWithTokens

LEMMA SemInitIInv == SemInit => SemIInv
BY CountsAssumption DEF SemInit, SemIInv, SemTypeOK, NoSleeperWithTokens

\* The ways a wait ends or goes on; a sleep begins with the count at zero only.
LEMMA SleepIInv ==
    ASSUME SemIInv, NEW t \in Users, NEW op \in {"wait", "wait_for"}, count = 0, Sleep(t, op)
    PROVE  SemIInv'
BY DEF SemIInv, SemTypeOK, NoSleeperWithTokens, Sleep

LEMMA TakeIInv ==
    ASSUME SemIInv, NEW t \in Users, count > 0, Take(t)
    PROVE  SemIInv'
BY CountsAssumption DEF SemIInv, SemTypeOK, NoSleeperWithTokens, Take

LEMMA SemNextIInv == SemIInv /\ [SemNext]_semVars => SemIInv'
<1> SUFFICES ASSUME SemIInv, [SemNext]_semVars PROVE SemIInv'
  OBVIOUS
<1> USE CountsAssumption
<1>1. count = 0 \/ count > 0
  BY DEF SemIInv, SemTypeOK
<1>2. ASSUME NEW t \in Users, Notify(t) PROVE SemIInv'
  BY <1>2 DEF Notify, SemIInv, SemTypeOK, NoSleeperWithTokens
<1>3. ASSUME NEW t \in Users, Wait(t) PROVE SemIInv'
  BY <1>1, <1>3, SleepIInv, TakeIInv DEF Wait
<1>4. ASSUME NEW t \in Users, TryWait(t) PROVE SemIInv'
  BY <1>4, TakeIInv DEF TryWait
<1>5. ASSUME NEW t \in Users, Reset(t) PROVE SemIInv'
  BY <1>5 DEF Reset, SemIInv, SemTypeOK, NoSleeperWithTokens
<1>6. ASSUME NEW t \in Users, WaitFor(t) PROVE SemIInv'
  <2>1. CASE GiveUp(t)
    BY <2>1 DEF GiveUp, SemIInv, SemTypeOK, NoSleeperWithTokens
  <2> QED
    BY <1>6, <2>1, SleepIInv, TakeIInv DEF WaitFor
<1>7. ASSUME NEW t \in Users, DeadlinePasses(t) \/ WakeForNothing(t) PROVE SemIInv'
  BY <1>7 DEF DeadlinePasses, WakeForNothing, SemIInv, SemTypeOK, NoSleeperWithTokens
<1>8. CASE UNCHANGED semVars
  BY <1>8 DEF semVars, SemIInv, SemTypeOK, NoSleeperWithTokens
<1> QED
  BY <1>2, <1>3, <1>4, <1>5, <1>6, <1>7, <1>8 DEF SemNext

LEMMA SemInvariance == SemSpec => []SemIInv
BY SemInitIInv, SemNextIInv, PTL DEF SemSpec

\* The count never drops below zero: two threads never take the same token.
THEOREM SemTyping == SemSpec => []SemTypeOK
<1>1. SemIInv => SemTypeOK
  BY DEF SemIInv
<1> QED
  BY <1>1, SemInvariance, PTL

\* No thread sleeps in wait() or wait_for() while there is a token to take.
THEOREM NoTokenUnseen == SemSpec => []NoSleeperWithTokens
<1>1. SemIInv => NoSleeperWithTokens
  BY DEF SemIInv
<1> QED
  BY <1>1, SemInvariance, PTL

-----------------------------------------------------------------------------
(* Timer *)

Places == OperationPcs \cup {"ready", "gone", "none", "loop", "lock", "read",
                             "blocked", "check", "callback", "period", "exited"}

At(loc) == {a \in Actors : pc[a] = loc}

\* A worker holds _mutex_callback from its read to the end of the turn, with the
\* operations it calls on the way.
Holding(w) ==
  pc[w] \in OperationPcs \cup {"read", "blocked", "check", "callback", "period"}

CallbackHolds == \A w \in Workers : callbackMutex = w <=> Holding(w)

\* Whoever joins holds _mutex_timer, and there is a thread to join.
JoinHolds ==
  /\ \A a \in Actors : pc[a] = "stop_join" => timerMutex = a
  /\ timerMutex # NoThread => pc[timerMutex] = "stop_join" /\ thread # NoThread

\* Only an operation that stops has something to go on with.
Conts ==
  /\ \A c \in Controllers : cont[c] # "exit"
  /\ \A w \in Workers : cont[w] # "destroy"
  /\ \A a \in Actors :
       pc[a] \notin {"stop_call", "stop_mutex", "stop_join", "stop_unref", "gone"}
         => cont[a] = "return"

\* The references: the Timer object's, the running thread's, those of starts and
\* stops on their way.
RefsCount ==
  refs = (IF alive THEN 1 ELSE 0) + (IF thread # NoThread THEN 1 ELSE 0)
           + Cardinality(At("start_mutex")) + Cardinality(At("stop_unref"))

\* A periodic timer with a callback that leaves it alone.
OneWorker ==
  Plain /\ use.periods = {"periodic"} =>
    \A w \in Workers : pc[w] \notin OperationPcs /\ (pc[w] # "none" => thread = w)

IInv == /\ TypeOK /\ pc \in [Actors -> Places]
        /\ CallbackHolds /\ JoinHolds /\ Conts /\ RefsCount /\ OneWorker

-----------------------------------------------------------------------------
LEMMA ActorsFinite ==
  /\ IsFiniteSet(Actors) /\ NoThread \notin Actors
  /\ Controllers \subseteq Actors /\ Workers \subseteq Actors
  /\ \A a \in Actors : a \in Controllers <=> a \notin Workers
  BY ThreadsAssumption, FS_Union DEF Actors

LEMMA AtFinite ==
  ASSUME NEW loc
  PROVE  /\ IsFiniteSet(At(loc)) /\ Cardinality(At(loc)) \in Nat
         /\ Cardinality(At(loc))' \in Nat
<1>1. At(loc) \subseteq Actors /\ At(loc)' \subseteq Actors
  BY DEF At
<1> QED
  BY <1>1, ActorsFinite, FS_Subset, FS_CardinalityType

LEMMA Moved ==
  ASSUME pc \in [Actors -> Places], NEW a \in Actors, NEW loc \in Places, Goto(a, loc)
  PROVE  /\ pc' \in [Actors -> Places] /\ pc'[a] = loc
         /\ \A u \in Actors \ {a} : pc'[u] = pc[u]
  BY DEF Goto

\* Those at a place when only a moves.
LEMMA AtMoved ==
  ASSUME NEW a \in Actors, NEW loc, \A u \in Actors \ {a} : pc'[u] = pc[u]
  PROVE  /\ (pc'[a] = loc <=> pc[a] = loc) => Cardinality(At(loc))' = Cardinality(At(loc))
         /\ pc'[a] = loc /\ pc[a] # loc => Cardinality(At(loc))' = Cardinality(At(loc)) + 1
         /\ pc'[a] # loc /\ pc[a] = loc => Cardinality(At(loc))' = Cardinality(At(loc)) - 1
<1>1. CASE pc'[a] = loc <=> pc[a] = loc
  <2>1. At(loc)' = At(loc)
    BY <1>1 DEF At
  <2> QED
    BY <1>1, <2>1
<1>2. CASE pc'[a] = loc /\ pc[a] # loc
  <2>1. At(loc)' = At(loc) \cup {a} /\ a \notin At(loc)
    BY <1>2 DEF At
  <2> QED
    BY <1>2, <2>1, AtFinite, FS_AddElement
<1>3. CASE pc'[a] # loc /\ pc[a] = loc
  <2>1. At(loc)' = At(loc) \ {a} /\ a \in At(loc)
    BY <1>3 DEF At
  <2> QED
    BY <1>3, <2>1, AtFinite, FS_RemoveElement
<1> QED
  BY <1>1, <1>2, <1>3

LEMMA InitHolds == Init => IInv
<1> SUFFICES ASSUME Init PROVE IInv
  OBVIOUS
<1> USE ActorsFinite
<1>1. TypeOK /\ pc \in [Actors -> Places]
  BY ThreadsAssumption DEF Init, TypeOK, OperationPcs, Places, Faults, Actors
<1>2. At("start_mutex") = {} /\ At("stop_unref") = {}
  BY DEF Init, At
<1>3. RefsCount
  BY <1>2, FS_EmptySet DEF Init, RefsCount
<1>4. CallbackHolds /\ JoinHolds /\ Conts /\ OneWorker
  BY ThreadsAssumption DEF Init, CallbackHolds, Holding, OperationPcs, JoinHolds, Conts, OneWorker
<1> QED
  BY <1>1, <1>3, <1>4 DEF IInv

-----------------------------------------------------------------------------
(* A step in which one actor moves.                                        *)

PlacesOf(a) == IF a \in Controllers THEN OperationPcs \cup {"ready", "gone"}
                                    ELSE Places \ {"ready", "gone"}

Periodic == Plain /\ use.periods = {"periodic"}

LEMMA PlacesMatch ==
  ASSUME IInv, NEW a \in Actors
  PROVE  pc[a] \in PlacesOf(a)
<1>1. CASE a \in Controllers
  BY <1>1 DEF IInv, TypeOK, PlacesOf
<1>2. CASE a \notin Controllers
  <2>1. a \in Workers
    BY <1>2 DEF Actors
  <2>2. pc[a] \in OperationPcs \cup
          {"none", "loop", "lock", "read", "blocked", "check", "callback", "period", "exited"}
    BY <2>1 DEF IInv, TypeOK
  <2> QED
    BY <1>2, <2>2 DEF PlacesOf, Places, OperationPcs
<1> QED
  BY <1>1, <1>2

LEMMA ActorMoves ==
  ASSUME IInv, NEW a \in Actors, NEW loc \in PlacesOf(a), Goto(a, loc), use' = use,
         running' \in BOOLEAN, stopFlag' \in BOOLEAN, fdOpen' \in BOOLEAN,
         thread' \in Workers \cup {NoThread}, period' \in use.periods,
         timerMutex' \in Actors \cup {NoThread}, callbackMutex' \in Workers \cup {NoThread},
         refs' \in Int, alive' \in BOOLEAN, fault' \in Faults, quiet' \in BOOLEAN,
         cont' \in [Actors -> {"return", "restart", "exit", "destroy"}],
         \A u \in Actors \ {a} : cont'[u] = cont[u],
         cont'[a] # (IF a \in Controllers THEN "exit" ELSE "destroy"),
         loc \notin {"stop_call", "stop_mutex", "stop_join", "stop_unref", "gone"}
           => cont'[a] = "return",
         \A v \in Workers \ {a} : callbackMutex' = v <=> callbackMutex = v,
         a \in Workers => (callbackMutex' = a <=> Holding(a)'),
         JoinHolds', RefsCount', thread' = thread \/ ~Periodic,
         Periodic /\ a \in Workers => loc \notin OperationPcs /\ pc[a] # "none"
  PROVE  IInv'
<1> USE ActorsFinite
<1>1. loc \in Places
  BY DEF PlacesOf, Places
<1>2. /\ pc' \in [Actors -> Places] /\ pc'[a] = loc
      /\ \A u \in Actors \ {a} : pc'[u] = pc[u]
  BY <1>1, Moved DEF IInv
<1>3. refs' \in Nat
  <2>1. Cardinality(At("start_mutex"))' \in Nat /\ Cardinality(At("stop_unref"))' \in Nat
    BY AtFinite
  <2>2. RefsCount'
    OBVIOUS
  <2> QED
    BY <2>1, <2>2 DEF RefsCount
<1>4. /\ \A c \in Controllers : pc'[c] \in OperationPcs \cup {"ready", "gone"}
      /\ \A w \in Workers : pc'[w] \in Places \ {"ready", "gone"}
  <2>1. \A u \in Actors : pc[u] \in PlacesOf(u)
    BY PlacesMatch
  <2>2. \A u \in Actors : pc'[u] \in PlacesOf(u)
    <3> SUFFICES ASSUME NEW u \in Actors PROVE pc'[u] \in PlacesOf(u)
      OBVIOUS
    <3>1. u # a => pc'[u] = pc[u]
      BY <1>2
    <3> QED
      BY <1>2, <2>1, <3>1, Zenon
  <2>3. \A c \in Controllers : pc'[c] \in OperationPcs \cup {"ready", "gone"}
    BY <2>2 DEF PlacesOf
  <2>4. \A w \in Workers : pc'[w] \in Places \ {"ready", "gone"}
    BY <2>2 DEF PlacesOf
  <2> QED
    BY <2>3, <2>4
<1>5. TypeOK'
  <2>1. \A w \in Workers : pc'[w] \in OperationPcs \cup
          {"none", "loop", "lock", "read", "blocked", "check", "callback", "period", "exited"}
    BY <1>4 DEF Places
  <2>2. use' \in Uses
    BY DEF IInv, TypeOK
  <2>3. period' \in use'.periods
    OBVIOUS
  <2> QED
    BY <1>3, <1>4, <2>1, <2>2, <2>3 DEF TypeOK
<1>6. CallbackHolds'
  <2>1. \A v \in Workers \ {a} : Holding(v)' <=> Holding(v)
    BY <1>2 DEF Holding
  <2>2. \A v \in Workers \ {a} : callbackMutex' = v <=> Holding(v)'
    BY <2>1 DEF IInv, CallbackHolds
  <2>3. \A v \in Workers : v = a => (callbackMutex' = v <=> Holding(v)')
    OBVIOUS
  <2> QED
    BY <2>2, <2>3, Zenon DEF CallbackHolds
<1>7. Conts'
  <2>1. \A u \in Actors \ {a} : cont'[u] = cont[u] /\ pc'[u] = pc[u]
    BY <1>2
  <2>2. Conts
    BY DEF IInv
  <2>3. \A c \in Controllers : cont'[c] # "exit"
    BY <2>1, <2>2 DEF Conts
  <2>4. \A v \in Workers : cont'[v] # "destroy"
    BY <2>1, <2>2 DEF Conts
  <2>5. \A u \in Actors :
          pc'[u] \notin {"stop_call", "stop_mutex", "stop_join", "stop_unref", "gone"}
            => cont'[u] = "return"
    BY <1>2, <2>1, <2>2 DEF Conts
  <2> QED
    BY <2>3, <2>4, <2>5 DEF Conts
<1>8. OneWorker'
  <2> SUFFICES ASSUME Periodic, NEW v \in Workers
               PROVE  pc'[v] \notin OperationPcs /\ (pc'[v] # "none" => thread' = v)
    BY DEF OneWorker, Periodic, Plain
  <2>1. pc[v] \notin OperationPcs /\ (pc[v] # "none" => thread = v)
    BY DEF IInv, OneWorker, Periodic
  <2> QED
    BY <1>2, <2>1
<1> QED
  BY <1>2, <1>5, <1>6, <1>7, <1>8 DEF IInv

LEMMA JoinsStay ==
  ASSUME IInv, NEW a \in Actors, NEW loc \in Places \ {"stop_join"}, Goto(a, loc),
         pc[a] # "stop_join", UNCHANGED <<thread, timerMutex>>
  PROVE  JoinHolds'
<1>1. /\ pc'[a] = loc /\ \A u \in Actors \ {a} : pc'[u] = pc[u]
  BY Moved DEF IInv
<1>2. timerMutex # a
  BY ActorsFinite DEF IInv, JoinHolds
<1>3. timerMutex \in Actors \cup {NoThread}
  BY DEF IInv, TypeOK
<1> QED
  BY <1>1, <1>2, <1>3 DEF IInv, JoinHolds

LEMMA RefsStay ==
  ASSUME IInv, NEW a \in Actors, NEW loc \in Places \ {"start_mutex", "stop_unref"}, Goto(a, loc),
         pc[a] \notin {"start_mutex", "stop_unref"}, UNCHANGED <<refs, alive, thread>>
  PROVE  RefsCount'
<1>1. /\ pc'[a] = loc /\ \A u \in Actors \ {a} : pc'[u] = pc[u]
  BY Moved DEF IInv
<1>2. /\ Cardinality(At("start_mutex"))' = Cardinality(At("start_mutex"))
      /\ Cardinality(At("stop_unref"))' = Cardinality(At("stop_unref"))
  BY <1>1, AtMoved
<1> QED
  BY <1>2 DEF IInv, RefsCount

-----------------------------------------------------------------------------
(* The worker's loop.                                                      *)

LEMMA WorkerMoves ==
  ASSUME IInv, NEW w \in Workers,
         NEW loc \in {"loop", "lock", "read", "blocked", "check", "callback", "period",
                      "exited", "none", "stop_call"},
         pc[w] \in {"loop", "lock", "read", "blocked", "check", "callback", "period"},
         Goto(w, loc), WorkerStays, use' = use,
         callbackMutex' \in Workers \cup {NoThread},
         \A v \in Workers \ {w} : callbackMutex' = v <=> callbackMutex = v,
         callbackMutex' = w <=> loc \notin {"loop", "lock", "exited", "none"},
         IF loc = "stop_call" THEN cont' = [cont EXCEPT ![w] = "exit"] /\ ~Periodic
                              ELSE cont' = cont
  PROVE  IInv'
<1> USE ActorsFinite
<1>1. UNCHANGED <<running, stopFlag, fdOpen, thread, period, timerMutex, refs, alive, fault, quiet>>
  BY DEF WorkerStays, timerVars, lifeVars
<1>2. loc \in PlacesOf(w) /\ loc \in Places
  BY DEF PlacesOf, Places, OperationPcs
<1>3. JoinHolds'
  BY <1>1, <1>2, JoinsStay
<1>4. RefsCount'
  BY <1>1, <1>2, RefsStay
<1>5. Holding(w)' <=> loc \notin {"loop", "lock", "exited", "none"}
  <2>1. pc'[w] = loc
    BY <1>2, Moved DEF IInv
  <2> QED
    BY <2>1 DEF Holding, OperationPcs
<1>6. /\ cont' \in [Actors -> {"return", "restart", "exit", "destroy"}]
      /\ \A u \in Actors \ {w} : cont'[u] = cont[u]
      /\ cont'[w] # "destroy" /\ (loc # "stop_call" => cont'[w] = "return")
  BY DEF IInv, TypeOK, Conts
<1>7. Periodic => loc \notin OperationPcs
  BY DEF OperationPcs
<1>8. /\ running' \in BOOLEAN /\ stopFlag' \in BOOLEAN /\ fdOpen' \in BOOLEAN
      /\ thread' \in Workers \cup {NoThread} /\ period' \in use.periods
      /\ timerMutex' \in Actors \cup {NoThread}
      /\ refs' \in Int /\ alive' \in BOOLEAN /\ fault' \in Faults /\ quiet' \in BOOLEAN
  BY <1>1 DEF IInv, TypeOK
<1> QED
  BY <1>1, <1>2, <1>3, <1>4, <1>5, <1>6, <1>7, <1>8, ActorMoves

LEMMA WorkerAt ==
  ASSUME IInv, NEW w \in Workers
  PROVE  /\ pc[w] \in {"read", "blocked", "check", "callback", "period"} => callbackMutex = w
         /\ pc[w] \in {"loop", "lock"} => callbackMutex # w
         /\ callbackMutex \in Workers \cup {NoThread} /\ NoThread \notin Workers
  BY ThreadsAssumption DEF IInv, TypeOK, CallbackHolds, Holding, OperationPcs

LEMMA ThreadFuncStep ==
  ASSUME IInv, NEW w \in Workers, ThreadFunc(w), use' = use
  PROVE  IInv'
<1>1. CASE Loop(w)
  <2>1. \E loc \in {"exited", "none", "lock"} : Goto(w, loc)
    BY <1>1 DEF Loop, Exited
  <2> QED
    BY <1>1, <2>1, WorkerMoves, WorkerAt DEF Loop
<1>2. CASE LockCallback(w)
  BY <1>2, WorkerMoves, WorkerAt DEF LockCallback
<1>3. CASE Read(w)
  BY <1>3, WorkerMoves, WorkerAt DEF Read
<1>4. CASE Expire(w)
  BY <1>4, WorkerMoves, WorkerAt DEF Expire
<1>5. CASE Check(w)
  <2>1. \E loc \in {"period", "callback"} : Goto(w, loc)
    BY <1>5 DEF Check
  <2> QED
    BY <1>5, <2>1, WorkerMoves, WorkerAt DEF Check
<1>6. CASE CallbackReturns(w)
  BY <1>6, WorkerMoves, WorkerAt DEF CallbackReturns
<1>7. CASE CheckPeriod(w)
  <2>1. CASE period = "one_shot"
    <3>1. ~Periodic
      BY <2>1 DEF IInv, TypeOK, Periodic
    <3> QED
      BY <1>7, <2>1, <3>1, WorkerMoves, WorkerAt DEF CheckPeriod
  <2>2. CASE period # "one_shot"
    BY <1>7, <2>2, WorkerMoves, WorkerAt DEF CheckPeriod
  <2> QED
    BY <2>1, <2>2
<1> QED
  BY <1>1, <1>2, <1>3, <1>4, <1>5, <1>6, <1>7 DEF ThreadFunc

-----------------------------------------------------------------------------
(* The operations.                                                         *)

\* Where the end of an operation leads.
LEMMA FinishLeads ==
  ASSUME IInv, NEW a \in Actors, NEW stopped \in BOOLEAN, Finish(a, stopped),
         pc[a] \in {"stop_call", "stop_unref", "start_call", "set_period"}
  PROVE  \E loc \in PlacesOf(a) \ {"start_mutex", "stop_unref", "stop_join", "stop_call", "stop_mutex"} :
           /\ Goto(a, loc) /\ quiet' \in BOOLEAN
           /\ cont' \in [Actors -> {"return", "restart", "exit", "destroy"}]
           /\ \A u \in Actors \ {a} : cont'[u] = cont[u]
           /\ cont'[a] # (IF a \in Controllers THEN "exit" ELSE "destroy")
           /\ loc # "gone" => cont'[a] = "return"
           /\ callbackMutex' \in Workers \cup {NoThread}
           /\ \A v \in Workers \ {a} : callbackMutex' = v <=> callbackMutex = v
           /\ a \in Workers => (callbackMutex' = a <=> loc \notin {"exited", "none"})
           /\ a \in Workers => loc \in {"callback", "start_call", "exited", "none"}
           /\ IF cont[a] = "destroy" THEN alive' = FALSE ELSE alive' = alive
<1> USE ActorsFinite
<1>1. /\ cont[a] \in {"return", "restart", "exit", "destroy"} /\ quiet' \in BOOLEAN
      /\ cont \in [Actors -> {"return", "restart", "exit", "destroy"}]
      /\ callbackMutex \in Workers \cup {NoThread}
      /\ a \in Controllers => cont[a] # "exit"
      /\ a \in Workers => cont[a] # "destroy" /\ callbackMutex = a
  BY DEF IInv, TypeOK, Finish, Conts, CallbackHolds, Holding, OperationPcs
<1>2. /\ a \in Controllers => {"ready", "start_call", "gone"} \subseteq PlacesOf(a)
      /\ a \in Workers => {"callback", "start_call", "exited", "none"} \subseteq PlacesOf(a)
  BY DEF PlacesOf, Places, OperationPcs
<1>3. CASE cont[a] = "return"
  <2>1. /\ Goto(a, IF a \in Controllers THEN "ready" ELSE "callback")
        /\ UNCHANGED <<cont, callbackMutex, alive>>
    BY <1>3 DEF Finish
  <2>2. CASE a \in Controllers
    BY <1>1, <1>2, <1>3, <2>1, <2>2
  <2>3. CASE a \in Workers
    BY <1>1, <1>2, <1>3, <2>1, <2>3
  <2> QED
    BY <2>2, <2>3
<1>4. CASE cont[a] = "restart"
  <2>1. /\ Goto(a, "start_call") /\ cont' = [cont EXCEPT ![a] = "return"]
        /\ UNCHANGED <<callbackMutex, alive>>
    BY <1>4 DEF Finish
  <2>2. "start_call" \in PlacesOf(a)
    BY <1>2
  <2> QED
    BY <1>1, <1>4, <2>1, <2>2
<1>5. CASE cont[a] = "exit"
  <2>1. /\ Goto(a, Exited(a)) /\ cont' = [cont EXCEPT ![a] = "return"]
        /\ callbackMutex' = NoThread /\ UNCHANGED alive
    BY <1>5 DEF Finish
  <2>2. Exited(a) \in {"exited", "none"} /\ a \in Workers
    BY <1>1, <1>5 DEF Exited
  <2>3. PICK loc \in {"exited", "none"} : loc = Exited(a)
    BY <2>2
  <2>4. Goto(a, loc) /\ loc \in PlacesOf(a)
    BY <1>2, <2>1, <2>2, <2>3
  <2> QED
    BY <1>1, <1>5, <2>1, <2>2, <2>4
<1>6. CASE cont[a] = "destroy"
  <2>1. /\ Goto(a, "gone") /\ alive' = FALSE /\ UNCHANGED <<cont, callbackMutex>>
    BY <1>6 DEF Finish
  <2> QED
    BY <1>1, <1>2, <1>6, <2>1
<1> QED
  BY <1>1, <1>3, <1>4, <1>5, <1>6

LEMMA FinishStep ==
  ASSUME IInv, NEW a \in Actors, NEW stopped \in BOOLEAN, Finish(a, stopped),
         pc[a] \in {"stop_call", "stop_unref", "start_call", "set_period"},
         UNCHANGED <<timerVars, timerMutex, fault, use>>,
         cont[a] = "destroy" => alive,
         refs' = refs - Dropped(a) - (IF pc[a] = "stop_unref" THEN 1 ELSE 0)
  PROVE  IInv'
<1> USE ActorsFinite
<1>1. PICK loc \in PlacesOf(a) \ {"start_mutex", "stop_unref", "stop_join", "stop_call", "stop_mutex"} :
           /\ Goto(a, loc) /\ quiet' \in BOOLEAN
           /\ cont' \in [Actors -> {"return", "restart", "exit", "destroy"}]
           /\ \A u \in Actors \ {a} : cont'[u] = cont[u]
           /\ cont'[a] # (IF a \in Controllers THEN "exit" ELSE "destroy")
           /\ loc # "gone" => cont'[a] = "return"
           /\ callbackMutex' \in Workers \cup {NoThread}
           /\ \A v \in Workers \ {a} : callbackMutex' = v <=> callbackMutex = v
           /\ a \in Workers => (callbackMutex' = a <=> loc \notin {"exited", "none"})
           /\ a \in Workers => loc \in {"callback", "start_call", "exited", "none"}
           /\ IF cont[a] = "destroy" THEN alive' = FALSE ELSE alive' = alive
  BY FinishLeads
<1>2. UNCHANGED <<running, stopFlag, fdOpen, thread, period, timerMutex, fault, use>>
  BY DEF timerVars
<1>3. loc \in Places
  BY <1>1 DEF PlacesOf, Places
<1>4. pc'[a] = loc /\ \A u \in Actors \ {a} : pc'[u] = pc[u]
  BY <1>1, <1>3, Moved DEF IInv
<1>5. JoinHolds'
  BY <1>1, <1>2, <1>3, JoinsStay
<1>6. RefsCount'
  <2>1. Cardinality(At("start_mutex"))' = Cardinality(At("start_mutex"))
    BY <1>1, <1>4, AtMoved
  <2>2. Cardinality(At("stop_unref"))'
          = Cardinality(At("stop_unref")) - (IF pc[a] = "stop_unref" THEN 1 ELSE 0)
    BY <1>1, <1>4, AtMoved, AtFinite
  <2>3. /\ alive \in BOOLEAN /\ RefsCount
        /\ Cardinality(At("stop_unref")) \in Nat /\ Cardinality(At("start_mutex")) \in Nat
    BY AtFinite DEF IInv, TypeOK
  <2>4. (IF alive' THEN 1 ELSE 0) = (IF alive THEN 1 ELSE 0) - Dropped(a)
    BY <1>1 DEF Dropped
  <2>5. Dropped(a) \in Nat
    BY DEF Dropped
  <2> QED
    BY <1>2, <2>1, <2>2, <2>3, <2>4, <2>5 DEF RefsCount
<1>7. a \in Workers => (callbackMutex' = a <=> Holding(a)')
  BY <1>1, <1>4 DEF Holding, OperationPcs
<1>8. ~(Periodic /\ a \in Workers)
  BY DEF IInv, OneWorker, Periodic, OperationPcs
<1>9. /\ running' \in BOOLEAN /\ stopFlag' \in BOOLEAN /\ fdOpen' \in BOOLEAN
      /\ thread' \in Workers \cup {NoThread} /\ period' \in use.periods
      /\ timerMutex' \in Actors \cup {NoThread}
      /\ refs' \in Int /\ alive' \in BOOLEAN /\ fault' \in Faults
  <2>1. alive \in BOOLEAN /\ refs \in Nat /\ Dropped(a) \in Nat
    BY DEF IInv, TypeOK, Dropped
  <2>2. refs' \in Int
    BY <2>1
  <2>3. alive' \in BOOLEAN
    BY <1>1, <2>1
  <2> QED
    BY <1>2, <2>2, <2>3 DEF IInv, TypeOK
<1> QED
  BY <1>1, <1>2, <1>5, <1>6, <1>7, <1>8, <1>9, ActorMoves

\* A step inside an operation, towards loc, with the thread as it is.
LEMMA OperationMoves ==
  ASSUME IInv, NEW a \in Actors, pc[a] \in OperationPcs \cup {"ready", "callback"},
         pc[a] \notin {"stop_join", "start_mutex", "stop_unref"},
         NEW loc \in {"set_period", "stop_call", "stop_mutex", "start_call", "start_mutex"},
         Goto(a, loc), UNCHANGED <<running, stopFlag, fdOpen, thread, lockVars, alive, fault, use>>,
         period' \in use.periods, quiet' \in BOOLEAN,
         refs' = refs + (IF loc = "start_mutex" THEN 1 ELSE 0),
         cont' \in [Actors -> {"return", "restart", "exit", "destroy"}],
         \A u \in Actors \ {a} : cont'[u] = cont[u],
         cont'[a] # (IF a \in Controllers THEN "exit" ELSE "destroy"),
         loc \notin {"stop_call", "stop_mutex"} => cont'[a] = "return",
         Periodic => a \in Controllers
  PROVE  IInv'
<1> USE ActorsFinite
<1>1. UNCHANGED <<timerMutex, callbackMutex>>
  BY DEF lockVars
<1>2. loc \in PlacesOf(a) /\ loc \in Places /\ loc \in OperationPcs
  BY DEF PlacesOf, Places, OperationPcs
<1>3. pc'[a] = loc /\ \A u \in Actors \ {a} : pc'[u] = pc[u]
  BY <1>2, Moved DEF IInv
<1>4. JoinHolds'
  BY <1>1, <1>2, JoinsStay
<1>5. RefsCount'
  <2>1. Cardinality(At("stop_unref"))' = Cardinality(At("stop_unref"))
    BY <1>3, AtMoved
  <2>2. Cardinality(At("start_mutex"))'
          = Cardinality(At("start_mutex")) + (IF loc = "start_mutex" THEN 1 ELSE 0)
    BY <1>3, AtMoved, AtFinite
  <2>3. Cardinality(At("stop_unref")) \in Nat /\ Cardinality(At("start_mutex")) \in Nat
    BY AtFinite
  <2> QED
    BY <2>1, <2>2, <2>3 DEF IInv, RefsCount
<1>6. a \in Workers => (callbackMutex' = a <=> Holding(a)')
  <2>2. a \in Workers => pc[a] # "ready"
    BY PlacesMatch DEF PlacesOf, OperationPcs
  <2>4. a \in Workers => Holding(a)
    BY <2>2 DEF Holding
  <2>1. a \in Workers => callbackMutex = a
    BY <2>4 DEF IInv, CallbackHolds
  <2>3. Holding(a)'
    BY <1>2, <1>3 DEF Holding
  <2> QED
    BY <1>1, <2>1, <2>3
<1>7. /\ running' \in BOOLEAN /\ stopFlag' \in BOOLEAN /\ fdOpen' \in BOOLEAN
      /\ thread' \in Workers \cup {NoThread}
      /\ timerMutex' \in Actors \cup {NoThread} /\ callbackMutex' \in Workers \cup {NoThread}
      /\ refs' \in Int /\ alive' \in BOOLEAN /\ fault' \in Faults
  BY <1>1 DEF IInv, TypeOK
<1>8. \A v \in Workers \ {a} : callbackMutex' = v <=> callbackMutex = v
  BY <1>1
<1>9. loc \notin {"stop_call", "stop_mutex", "stop_join", "stop_unref", "gone"} => cont'[a] = "return"
  OBVIOUS
<1> QED
  BY <1>2, <1>4, <1>5, <1>6, <1>7, <1>8, <1>9, ActorMoves

LEMMA DieStep ==
  ASSUME IInv, NEW f \in Faults, Die(f), use' = use
  PROVE  IInv'
<1>1. UNCHANGED <<running, stopFlag, fdOpen, thread, period, timerMutex, callbackMutex,
                  refs, alive, pc, cont, quiet>> /\ fault' \in Faults
  BY DEF Die, timerVars, lockVars, lifeVars
<1>2. TypeOK'
  BY <1>1 DEF IInv, TypeOK
<1>3. pc' \in [Actors -> Places] /\ CallbackHolds' /\ JoinHolds' /\ Conts'
  BY <1>1 DEF IInv, CallbackHolds, Holding, JoinHolds, Conts
<1>4. RefsCount'
  BY <1>1 DEF IInv, RefsCount, At
<1>5. OneWorker'
  BY <1>1 DEF IInv, OneWorker, Plain
<1> QED
  BY <1>2, <1>3, <1>4, <1>5 DEF IInv

LEMMA OnlyOwnerOperates ==
  ASSUME IInv, NEW a \in Actors, pc[a] \in OperationPcs, Periodic
  PROVE  a \in Controllers
  BY ActorsFinite DEF IInv, OneWorker, Periodic

LEMMA SetPeriodCheckStep ==
  ASSUME IInv, NEW a \in Actors, SetPeriodCheck(a), use' = use
  PROVE  IInv'
<1>1. pc[a] = "set_period" /\ pc[a] \in OperationPcs /\ UNCHANGED <<timerVars, timerMutex, refs, fault>>
  BY DEF SetPeriodCheck, OperationPcs
<1>2. cont[a] = "return" /\ cont \in [Actors -> {"return", "restart", "exit", "destroy"}]
      /\ refs \in Nat /\ quiet \in BOOLEAN /\ period \in use.periods
  BY <1>1 DEF IInv, TypeOK, Conts
<1>3. CASE running
  <2>1. /\ Goto(a, "stop_call") /\ cont' = [cont EXCEPT ![a] = "restart"]
        /\ UNCHANGED <<callbackMutex, alive, quiet>>
    BY <1>3 DEF SetPeriodCheck
  <2>2. UNCHANGED <<running, stopFlag, fdOpen, thread, period, lockVars, alive, fault, use>>
    BY <1>1, <2>1 DEF timerVars, lockVars
  <2>3. refs' = refs + (IF "stop_call" = "start_mutex" THEN 1 ELSE 0)
    BY <1>1, <1>2
  <2>4. Periodic => a \in Controllers
    BY <1>1, OnlyOwnerOperates
  <2> QED
    BY <1>1, <1>2, <2>1, <2>2, <2>3, <2>4, OperationMoves
<1>4. CASE ~running
  <2>1. Finish(a, FALSE)
    BY <1>4 DEF SetPeriodCheck
  <2>2. refs' = refs - Dropped(a) - (IF pc[a] = "stop_unref" THEN 1 ELSE 0)
    BY <1>1, <1>2 DEF Dropped
  <2> QED
    BY <1>1, <1>2, <2>1, <2>2, FinishStep
<1> QED
  BY <1>3, <1>4

LEMMA StopCallStep ==
  ASSUME IInv, NEW a \in Actors, StopCall(a), ~TouchesFreed(a), use' = use
  PROVE  IInv'
<1>1. pc[a] = "stop_call" /\ pc[a] \in OperationPcs /\ UNCHANGED <<timerVars, fault>> /\ alive
  BY DEF StopCall, OperationPcs, TouchesFreed
<1>2. /\ cont \in [Actors -> {"return", "restart", "exit", "destroy"}]
      /\ cont[a] # (IF a \in Controllers THEN "exit" ELSE "destroy")
      /\ refs \in Nat /\ quiet \in BOOLEAN /\ period \in use.periods
  BY <1>1, ActorsFinite DEF IInv, TypeOK, Conts
<1>3. CASE running
  <2>1. Goto(a, "stop_mutex") /\ UNCHANGED <<lockVars, lifeVars, cont, quiet>>
    BY <1>3 DEF StopCall
  <2>2. UNCHANGED <<running, stopFlag, fdOpen, thread, period, lockVars, alive, fault, use, cont, quiet>>
    BY <1>1, <2>1 DEF timerVars, lifeVars
  <2>3. refs' = refs + (IF "stop_mutex" = "start_mutex" THEN 1 ELSE 0)
    BY <1>2, <2>1 DEF lifeVars
  <2>4. Periodic => a \in Controllers
    BY <1>1, OnlyOwnerOperates
  <2> QED
    BY <1>1, <1>2, <2>1, <2>2, <2>3, <2>4, OperationMoves
<1>4. CASE ~running
  <2>1. Finish(a, FALSE) /\ UNCHANGED timerMutex
    BY <1>4 DEF StopCall
  <2>2. refs' = refs - Dropped(a) - (IF pc[a] = "stop_unref" THEN 1 ELSE 0)
    <3>1. refs' = refs - Dropped(a) /\ Dropped(a) \in Nat
      BY <1>4 DEF StopCall, Dropped
    <3> QED
      BY <1>1, <1>2, <3>1
  <2> QED
    BY <1>1, <2>1, <2>2, FinishStep
<1> QED
  BY <1>3, <1>4

LEMMA StartCallStep ==
  ASSUME IInv, NEW a \in Actors, StartCall(a), use' = use
  PROVE  IInv'
<1>1. pc[a] = "start_call" /\ pc[a] \in OperationPcs /\ UNCHANGED <<timerVars, fault>>
  BY DEF StartCall, OperationPcs
<1>2. /\ cont \in [Actors -> {"return", "restart", "exit", "destroy"}] /\ cont[a] = "return"
      /\ refs \in Nat /\ quiet \in BOOLEAN /\ period \in use.periods
  BY <1>1 DEF IInv, TypeOK, Conts
<1>3. CASE ~running
  <2>1. Goto(a, "start_mutex") /\ UNCHANGED <<lockVars, alive, cont, quiet>> /\ refs' = refs + 1
    BY <1>3 DEF StartCall
  <2>2. UNCHANGED <<running, stopFlag, fdOpen, thread, period, lockVars, alive, fault, use, cont, quiet>>
    BY <1>1, <2>1 DEF timerVars
  <2>3. refs' = refs + (IF "start_mutex" = "start_mutex" THEN 1 ELSE 0)
    BY <2>1
  <2>4. Periodic => a \in Controllers
    BY <1>1, OnlyOwnerOperates
  <2> QED
    BY <1>1, <1>2, <2>1, <2>2, <2>3, <2>4, OperationMoves
<1>4. CASE running
  <2>1. Finish(a, FALSE) /\ UNCHANGED <<timerMutex, refs>>
    BY <1>4 DEF StartCall
  <2>2. refs' = refs - Dropped(a) - (IF pc[a] = "stop_unref" THEN 1 ELSE 0)
    BY <1>1, <1>2, <2>1 DEF Dropped
  <2> QED
    BY <1>1, <1>2, <2>1, <2>2, FinishStep
<1> QED
  BY <1>3, <1>4

LEMMA StopUnrefStep ==
  ASSUME IInv, NEW a \in Actors, StopUnref(a), ~TouchesFreed(a), use' = use
  PROVE  IInv'
<1>1. pc[a] = "stop_unref" /\ alive
  BY DEF StopUnref, TouchesFreed
<1>2. Finish(a, TRUE) /\ UNCHANGED <<timerVars, timerMutex, fault>> /\ refs' = refs - 1 - Dropped(a)
  BY <1>1 DEF StopUnref
<1>3. refs' = refs - Dropped(a) - (IF pc[a] = "stop_unref" THEN 1 ELSE 0)
  BY <1>1, <1>2 DEF Dropped, IInv, TypeOK
<1> QED
  BY <1>1, <1>2, <1>3, FinishStep

LEMMA CallStep ==
  ASSUME IInv, NEW a \in Actors, NEW op, Call(a, op), use' = use,
         \/ pc[a] = "ready" /\ a \in Controllers
         \/ pc[a] = "callback" /\ a \in Workers /\ op # "destroy" /\ ~Periodic
  PROVE  IInv'
<1> USE ActorsFinite
<1>1. UNCHANGED <<running, stopFlag, fdOpen, thread, lockVars, alive, refs, fault, quiet>>
  BY DEF Call, lifeVars
<1>2. /\ pc[a] \in OperationPcs \cup {"ready", "callback"}
      /\ pc[a] \notin {"stop_join", "start_mutex", "stop_unref"}
      /\ cont \in [Actors -> {"return", "restart", "exit", "destroy"}] /\ cont[a] = "return"
      /\ refs \in Nat /\ quiet \in BOOLEAN /\ period \in use.periods
  BY DEF IInv, TypeOK, Conts
<1>3. \E loc \in {"start_call", "stop_call", "set_period"} :
        /\ Goto(a, loc) /\ period' \in use.periods
        /\ cont' = cont \/ (a \in Controllers /\ loc = "stop_call" /\ cont' = [cont EXCEPT ![a] = "destroy"])
  BY <1>2 DEF Call
<1>4. PICK loc \in {"start_call", "stop_call", "set_period"} :
        /\ Goto(a, loc) /\ period' \in use.periods
        /\ cont' = cont \/ (a \in Controllers /\ loc = "stop_call" /\ cont' = [cont EXCEPT ![a] = "destroy"])
  BY <1>3
<1>5. /\ cont' \in [Actors -> {"return", "restart", "exit", "destroy"}]
      /\ \A u \in Actors \ {a} : cont'[u] = cont[u]
      /\ cont'[a] # (IF a \in Controllers THEN "exit" ELSE "destroy")
      /\ loc \notin {"stop_call", "stop_mutex"} => cont'[a] = "return"
  BY <1>2, <1>4
<1>6. refs' = refs + (IF loc = "start_mutex" THEN 1 ELSE 0)
  BY <1>1, <1>2
<1> QED
  BY <1>1, <1>2, <1>4, <1>5, <1>6, OperationMoves

LEMMA StopTimerStep ==
  ASSUME IInv, NEW a \in Actors, StopTimer(a), use' = use
  PROVE  IInv'
<1> USE ActorsFinite
<1>1. pc[a] = "stop_mutex" /\ pc[a] \in OperationPcs /\ timerMutex = NoThread
  BY DEF StopTimer, OperationPcs
<1>2. CASE thread = NoThread
  <2>1. Die("null_thread") /\ "null_thread" \in Faults
    BY <1>2 DEF StopTimer, Faults
  <2> QED
    BY <2>1, DieStep
<1>3. CASE thread # NoThread
  <2>1. /\ stopFlag' = TRUE /\ fdOpen' = FALSE /\ running' = FALSE
        /\ UNCHANGED <<period, callbackMutex, lifeVars, cont, fault, quiet>>
        /\ IF thread = a THEN thread' = NoThread /\ Goto(a, "stop_unref") /\ UNCHANGED timerMutex
                         ELSE timerMutex' = a /\ Goto(a, "stop_join") /\ UNCHANGED thread
    BY <1>3 DEF StopTimer
  <2>2. UNCHANGED <<refs, alive>>
    BY <2>1 DEF lifeVars
  <2>3. /\ period' \in use.periods /\ callbackMutex' \in Workers \cup {NoThread}
        /\ refs' \in Int /\ alive' \in BOOLEAN /\ fault' \in Faults /\ quiet' \in BOOLEAN
        /\ cont' \in [Actors -> {"return", "restart", "exit", "destroy"}]
        /\ \A u \in Actors \ {a} : cont'[u] = cont[u]
        /\ cont'[a] # (IF a \in Controllers THEN "exit" ELSE "destroy")
        /\ \A v \in Workers \ {a} : callbackMutex' = v <=> callbackMutex = v
        /\ thread \in Workers \cup {NoThread} /\ refs \in Nat
    BY <1>1, <2>1, <2>2 DEF IInv, TypeOK, Conts
  <2>4. ~(Periodic /\ a \in Workers)
    BY <1>1, OnlyOwnerOperates
  <2>5. a \in Workers => callbackMutex' = a
    BY <1>1, <2>1 DEF IInv, CallbackHolds, Holding
  <2>6. \A u \in Actors : pc[u] # "stop_join"
    BY <1>1 DEF IInv, JoinHolds
  <2>7. Cardinality(At("stop_unref")) \in Nat /\ Cardinality(At("start_mutex")) \in Nat
    BY AtFinite
  <2>8. CASE thread = a
    <3>1. Goto(a, "stop_unref") /\ "stop_unref" \in Places /\ "stop_unref" \in PlacesOf(a)
          /\ thread' = NoThread /\ timerMutex' = NoThread
      BY <1>1, <2>1, <2>8 DEF PlacesOf, Places, OperationPcs
    <3>2. pc'[a] = "stop_unref" /\ \A u \in Actors \ {a} : pc'[u] = pc[u]
      BY <3>1, Moved DEF IInv
    <3>3. JoinHolds'
      BY <2>6, <3>1, <3>2 DEF JoinHolds
    <3>4. RefsCount'
      <4>1. Cardinality(At("stop_unref"))' = Cardinality(At("stop_unref")) + 1
            /\ Cardinality(At("start_mutex"))' = Cardinality(At("start_mutex"))
        BY <1>1, <3>2, AtMoved
      <4> QED
        BY <1>3, <2>2, <2>3, <2>7, <3>1, <4>1 DEF IInv, RefsCount
    <3>5. a \in Workers => (callbackMutex' = a <=> Holding(a)')
      BY <2>5, <3>2 DEF Holding, OperationPcs
    <3>6. ~Periodic
      BY <2>3, <2>4, <2>8
    <3> QED
      BY <2>1, <2>3, <3>1, <3>3, <3>4, <3>5, <3>6, ActorMoves
  <2>9. CASE thread # a
    <3>1. Goto(a, "stop_join") /\ "stop_join" \in Places /\ "stop_join" \in PlacesOf(a)
          /\ thread' = thread /\ timerMutex' = a
      BY <2>1, <2>9 DEF PlacesOf, Places, OperationPcs
    <3>2. pc'[a] = "stop_join" /\ \A u \in Actors \ {a} : pc'[u] = pc[u]
      BY <3>1, Moved DEF IInv
    <3>3. JoinHolds'
      BY <1>3, <2>6, <3>1, <3>2 DEF JoinHolds
    <3>4. RefsCount'
      <4>1. Cardinality(At("stop_unref"))' = Cardinality(At("stop_unref"))
            /\ Cardinality(At("start_mutex"))' = Cardinality(At("start_mutex"))
        BY <1>1, <3>2, AtMoved
      <4> QED
        BY <2>2, <3>1, <4>1 DEF IInv, RefsCount
    <3>5. a \in Workers => (callbackMutex' = a <=> Holding(a)')
      BY <2>5, <3>2 DEF Holding, OperationPcs
    <3> QED
      BY <2>1, <2>3, <2>4, <3>1, <3>3, <3>4, <3>5, ActorMoves
  <2> QED
    BY <2>8, <2>9
<1> QED
  BY <1>2, <1>3

LEMMA StopJoinStep ==
  ASSUME IInv, NEW a \in Actors, StopJoin(a), use' = use
  PROVE  IInv'
<1> USE ActorsFinite
<1>1. /\ pc[a] = "stop_join" /\ timerMutex = a /\ thread \in Workers /\ pc[thread] = "exited"
      /\ thread # a
  BY DEF IInv, TypeOK, JoinHolds, StopJoin
<1>2. PICK w \in Workers : w = thread
  BY <1>1
<1>3. /\ thread' = NoThread /\ stopFlag' = FALSE /\ timerMutex' = NoThread
      /\ pc' = [pc EXCEPT ![a] = "stop_unref", ![w] = "none"]
      /\ UNCHANGED <<running, fdOpen, period, callbackMutex, refs, alive, cont, fault, quiet>>
  BY <1>2 DEF StopJoin, lifeVars
<1>4. /\ pc' \in [Actors -> Places] /\ pc'[a] = "stop_unref" /\ pc'[w] = "none"
      /\ \A u \in Actors \ {a, w} : pc'[u] = pc[u]
  BY <1>1, <1>2, <1>3 DEF IInv, Places, OperationPcs
<1>5. TypeOK'
  <2>1. \A c \in Controllers : pc'[c] \in OperationPcs \cup {"ready", "gone"}
    BY <1>2, <1>4 DEF IInv, TypeOK, OperationPcs
  <2>2. \A v \in Workers : pc'[v] \in OperationPcs \cup
          {"none", "loop", "lock", "read", "blocked", "check", "callback", "period", "exited"}
    BY <1>4 DEF IInv, TypeOK, OperationPcs
  <2> QED
    BY <1>3, <2>1, <2>2 DEF IInv, TypeOK
<1>6. CallbackHolds'
  <2>1. \A v \in Workers : Holding(v)' <=> Holding(v)
    BY <1>1, <1>2, <1>4 DEF Holding, OperationPcs
  <2> QED
    BY <1>3, <2>1 DEF IInv, CallbackHolds
<1>7. JoinHolds'
  <2>1. \A u \in Actors \ {a} : pc[u] # "stop_join"
    BY <1>1 DEF IInv, JoinHolds
  <2>2. \A u \in Actors : pc'[u] # "stop_join"
    BY <1>2, <1>4, <2>1
  <2> QED
    BY <1>3, <2>2 DEF JoinHolds
<1>8. Conts'
  BY <1>1, <1>2, <1>3, <1>4 DEF IInv, Conts
<1>9. RefsCount'
  <2>1. At("start_mutex")' = At("start_mutex")
    BY <1>1, <1>2, <1>4 DEF At
  <2>2. At("stop_unref")' = At("stop_unref") \cup {a} /\ a \notin At("stop_unref")
    BY <1>1, <1>2, <1>4 DEF At
  <2>3. Cardinality(At("stop_unref"))' = Cardinality(At("stop_unref")) + 1
    BY <2>2, AtFinite, FS_AddElement
  <2>4. Cardinality(At("stop_unref")) \in Nat /\ Cardinality(At("start_mutex")) \in Nat
        /\ thread # NoThread
    BY <1>1, AtFinite
  <2> QED
    BY <1>3, <2>1, <2>3, <2>4 DEF IInv, RefsCount
<1>10. OneWorker'
  <2> SUFFICES ASSUME Periodic, NEW v \in Workers
               PROVE  pc'[v] \notin OperationPcs /\ pc'[v] = "none"
    BY DEF OneWorker, Periodic, Plain
  <2>1. pc[v] \notin OperationPcs /\ (pc[v] # "none" => thread = v) /\ a \notin Workers
    BY <1>1, OnlyOwnerOperates DEF IInv, OneWorker, Periodic, OperationPcs
  <2> QED
    BY <1>2, <1>4, <2>1 DEF OperationPcs
<1> QED
  BY <1>4, <1>5, <1>6, <1>7, <1>8, <1>9, <1>10 DEF IInv

LEMMA StartTimerStep ==
  ASSUME IInv, NEW a \in Actors, StartTimer(a), use' = use
  PROVE  IInv'
<1> USE ActorsFinite
<1>1. pc[a] = "start_mutex" /\ timerMutex = NoThread /\ (a \in Controllers \/ a \in Workers)
  BY DEF StartTimer, Actors
<1>2. CASE thread # NoThread
  <2>1. Die("terminate") /\ "terminate" \in Faults
    BY <1>2 DEF StartTimer, Faults
  <2> QED
    BY <2>1, DieStep
<1>3. CASE thread = NoThread
  <2> DEFINE back == IF a \in Controllers THEN "ready" ELSE "callback"
  <2>1. pc[a] = "start_mutex" /\ timerMutex = NoThread
    BY DEF StartTimer
  <2>2. PICK w \in Workers :
          /\ pc[w] = "none"
          /\ stopFlag' = FALSE /\ fdOpen' = TRUE /\ running' = TRUE
          /\ thread' = w /\ quiet' = FALSE /\ cont[a] = "return"
          /\ pc' = [pc EXCEPT ![w] = "loop", ![a] = back]
          /\ UNCHANGED <<period, lockVars, lifeVars, cont, fault>>
    BY <1>3 DEF StartTimer
  <2>3. UNCHANGED <<period, timerMutex, callbackMutex, refs, alive, cont, fault>>
    BY <2>2 DEF lockVars, lifeVars
  <2>4. /\ a \in Controllers => back = "ready"
        /\ a \in Workers => back = "callback"
        /\ back \in {"ready", "callback"} /\ w # a
    BY <2>1, <2>2
  <2> HIDE DEF back
  <2>5. /\ pc' \in [Actors -> Places] /\ pc'[a] = back /\ pc'[w] = "loop"
        /\ \A u \in Actors \ {a, w} : pc'[u] = pc[u]
    BY <2>2, <2>4 DEF IInv, Places
  <2>6. TypeOK'
    <3>1. \A c \in Controllers : pc'[c] \in OperationPcs \cup {"ready", "gone"}
      BY <2>4, <2>5 DEF IInv, TypeOK
    <3>2. \A v \in Workers : pc'[v] \in OperationPcs \cup
            {"none", "loop", "lock", "read", "blocked", "check", "callback", "period", "exited"}
      BY <2>4, <2>5 DEF IInv, TypeOK
    <3> QED
      BY <2>2, <2>3, <3>1, <3>2 DEF IInv, TypeOK
  <2>7. CallbackHolds'
    <3>1. \A v \in Workers : Holding(v)' <=> Holding(v)
      BY <2>1, <2>2, <2>4, <2>5 DEF Holding, OperationPcs
    <3> QED
      BY <2>3, <3>1 DEF IInv, CallbackHolds
  <2>8. JoinHolds'
    <3>1. \A u \in Actors : pc[u] # "stop_join"
      BY <2>1 DEF IInv, JoinHolds
    <3>2. \A u \in Actors : pc'[u] # "stop_join"
      BY <2>4, <2>5, <3>1
    <3> QED
      BY <2>1, <2>3, <3>2 DEF JoinHolds
  <2>9. Conts'
    BY <2>2, <2>3, <2>4, <2>5 DEF IInv, Conts
  <2>10. RefsCount'
    <3>1. At("stop_unref")' = At("stop_unref")
      BY <2>1, <2>2, <2>4, <2>5 DEF At
    <3>2. At("start_mutex")' = At("start_mutex") \ {a} /\ a \in At("start_mutex")
      BY <2>1, <2>2, <2>4, <2>5 DEF At
    <3>3. Cardinality(At("start_mutex"))' = Cardinality(At("start_mutex")) - 1
      BY <3>2, AtFinite, FS_RemoveElement
    <3>4. Cardinality(At("stop_unref")) \in Nat /\ Cardinality(At("start_mutex")) \in Nat
      BY AtFinite
    <3>5. thread' # NoThread
      BY <2>2
    <3> QED
      BY <1>3, <2>3, <3>1, <3>3, <3>4, <3>5 DEF IInv, RefsCount
  <2>11. OneWorker'
    <3> SUFFICES ASSUME Periodic, NEW v \in Workers
                 PROVE  pc'[v] \notin OperationPcs /\ (pc'[v] # "none" => thread' = v)
      BY DEF OneWorker, Periodic, Plain
    <3>1. pc[v] = "none" /\ a \notin Workers
      BY <1>3, <2>1, OnlyOwnerOperates DEF IInv, OneWorker, Periodic, OperationPcs
    <3> QED
      BY <2>2, <2>5, <3>1 DEF OperationPcs
  <2> QED
    BY <2>5, <2>6, <2>7, <2>8, <2>9, <2>10, <2>11 DEF IInv
<1> QED
  BY <1>2, <1>3

-----------------------------------------------------------------------------
LEMMA ActorStepHolds ==
  ASSUME IInv, NEW a \in Actors, ActorStep(a), use' = use
  PROVE  IInv'
<1>1. CASE Operation(a)
  BY <1>1, SetPeriodCheckStep, StopCallStep, StopTimerStep, StopJoinStep, StopUnrefStep,
     StartCallStep, StartTimerStep DEF Operation
<1>2. CASE UseAfterFree(a)
  <2>1. Die("use_after_free") /\ "use_after_free" \in Faults
    BY <1>2 DEF UseAfterFree, Faults
  <2> QED
    BY <2>1, DieStep
<1> QED
  BY <1>1, <1>2 DEF ActorStep

LEMMA StepHolds == IInv /\ [Next]_vars => IInv'
<1> SUFFICES ASSUME IInv, [Next]_vars PROVE IInv'
  OBVIOUS
<1> USE ActorsFinite
<1>1. ASSUME UNCHANGED vars PROVE IInv'
  <2>1. UNCHANGED <<use, running, stopFlag, fdOpen, thread, period, timerMutex, callbackMutex,
                    refs, alive, pc, cont, fault, quiet>>
    BY <1>1 DEF vars, timerVars, lockVars, lifeVars
  <2>2. TypeOK' /\ pc' \in [Actors -> Places] /\ CallbackHolds' /\ JoinHolds' /\ Conts'
    BY <2>1 DEF IInv, TypeOK, CallbackHolds, Holding, JoinHolds, Conts
  <2>3. RefsCount' /\ OneWorker'
    BY <2>1 DEF IInv, RefsCount, At, OneWorker, Plain
  <2> QED
    BY <2>2, <2>3 DEF IInv
<1>2. ASSUME Next PROVE IInv'
  <2>1. use' = use
    BY <1>2 DEF Next
  <2>2. CASE \E a \in Actors : ActorStep(a)
    BY <2>1, <2>2, ActorStepHolds
  <2>3. CASE \E w \in Workers : WorkerStep(w)
    BY <2>1, <2>3, ActorStepHolds, ThreadFuncStep DEF WorkerStep
  <2>4. CASE \E c \in Controllers : ControllerCalls(c)
    BY <2>1, <2>4, CallStep DEF ControllerCalls
  <2>5. CASE \E w \in Workers : CallbackCalls(w)
    <3>1. PICK w \in Workers, op \in use.callbackOps : pc[w] = "callback" /\ Call(w, op)
      BY <2>5 DEF CallbackCalls
    <3>2. op # "destroy" /\ ~Periodic
      BY OperationsAssumption DEF IInv, TypeOK, Periodic, Plain
    <3> QED
      BY <2>1, <3>1, <3>2, CallStep
  <2> QED
    BY <1>2, <2>2, <2>3, <2>4, <2>5 DEF Next
<1> QED
  BY <1>1, <1>2

LEMMA AlwaysHolds == Spec => []IInv
<1>1. Init => IInv
  BY InitHolds
<1>2. IInv /\ [Next]_vars => IInv'
  BY StepHolds
<1> QED
  BY <1>1, <1>2, PTL DEF Spec

\* Every variable keeps its type, for any use and any number of threads; that the
\* reference count never goes below zero is the part of it to be proved.
THEOREM Typing == Spec => []TypeOK
<1>1. IInv => TypeOK
  BY DEF IInv
<1> QED
  BY <1>1, AlwaysHolds, PTL

\* Two expirations never run the callback at once, whoever starts, stops and
\* re-periods the timer meanwhile, and a restarted periodic timer has one worker.
THEOREM Serialized == Spec => []CallbacksSerialized
<1>1. IInv => CallbacksSerialized
  <2> SUFFICES ASSUME IInv PROVE CallbacksSerialized
    OBVIOUS
  <2>1. \A w \in Workers : InCallback(w) => callbackMutex = w
    BY DEF InCallback, IInv, CallbackHolds, Holding
  <2>2. Plain /\ use.periods = {"periodic"} => \A w \in Live : thread = w
    BY DEF IInv, OneWorker, Live
  <2> QED
    BY <2>1, <2>2 DEF CallbacksSerialized
<1> QED
  BY <1>1, AlwaysHolds, PTL
-----------------------------------------------------------------------------
(* A timer with one owner, used plainly, stops cleanly.                    *)

OneOwner == \A c, d \in Controllers : c = d

\* A periodic timer that its owner starts, stops, re-periods and destroys.
OwnedPeriodic ==
  /\ fault = "none"
  /\ running <=> thread # NoThread /\ timerMutex = NoThread
  /\ quiet => thread = NoThread
  /\ ~alive => thread = NoThread /\ \A c \in Controllers : pc[c] = "gone"
  /\ \A c \in Controllers :
       /\ pc[c] = "stop_mutex" => running
       /\ pc[c] \in {"start_mutex", "stop_unref"} => thread = NoThread

\* A timer that may be a one-shot one is started only; its worker, as long as it
\* has not stopped it, is the one that _thread refers to.
OwnedOneShot ==
  /\ fault = "none" /\ alive /\ ~quiet /\ timerMutex = NoThread
  /\ running <=> thread # NoThread
  /\ thread # NoThread => ~stopFlag
  /\ \A c \in Controllers : /\ pc[c] \in {"ready", "start_call", "start_mutex"}
                            /\ pc[c] = "start_mutex" => thread = NoThread
  /\ \A w \in Workers :
       /\ pc[w] \in {"none", "stop_unref"} => thread # w
       /\ pc[w] \notin {"none", "stop_unref"} => thread = w
       /\ pc[w] \in OperationPcs => /\ pc[w] \in {"stop_call", "stop_mutex", "stop_unref"}
                                    /\ cont[w] = "exit"
       /\ pc[w] # "exited"

Owned == /\ Periodic => OwnedPeriodic
         /\ Plain /\ ~Periodic => OwnedOneShot

LEMMA PeriodicFacts ==
  ASSUME OneOwner, IInv, Periodic, OwnedPeriodic
  PROVE  /\ use.callbackOps = {}
         /\ \A w \in Workers : pc[w] \notin OperationPcs /\ (pc[w] # "none" => thread = w)
         /\ \A c \in Controllers : ~running /\ pc[c] # "stop_join" => thread = NoThread
         /\ \A a \in Actors : ~TouchesFreed(a)
<1> USE ActorsFinite
<1>1. use.callbackOps = {}
  BY DEF Periodic, Plain
<1>2. \A w \in Workers : pc[w] \notin OperationPcs /\ (pc[w] # "none" => thread = w)
  BY DEF IInv, OneWorker, Periodic
<1>3. ASSUME NEW c \in Controllers, ~running, pc[c] # "stop_join" PROVE thread = NoThread
  <2>1. ASSUME timerMutex # NoThread PROVE FALSE
    <3>1. pc[timerMutex] = "stop_join" /\ timerMutex \in Actors
      BY <2>1 DEF IInv, JoinHolds, TypeOK
    <3>2. timerMutex \in Controllers
      BY <1>2, <3>1 DEF Actors, OperationPcs
    <3> QED
      BY <1>3, <3>1, <3>2 DEF OneOwner
  <2> QED
    BY <1>3, <2>1 DEF OwnedPeriodic
<1>4. ASSUME NEW a \in Actors PROVE ~TouchesFreed(a)
  <2>1. alive => refs # 0
    BY AtFinite DEF IInv, RefsCount, TypeOK
  <2>2. CASE a \in Controllers
    BY <2>2 DEF OwnedPeriodic, TouchesFreed
  <2>3. CASE a \in Workers
    <3>1. ~alive => pc[a] = "none"
      BY <1>2, <2>3 DEF OwnedPeriodic
    <3> QED
      BY <1>2, <2>1, <2>3, <3>1 DEF TouchesFreed, OperationPcs
  <2> QED
    BY <2>2, <2>3 DEF Actors
<1> QED
  BY <1>1, <1>2, <1>3, <1>4

\* An operation of the owner comes to its end.
LEMMA OwnerFinishes ==
  ASSUME OneOwner, IInv, OwnedPeriodic, NEW c \in Controllers, NEW stopped \in BOOLEAN,
         Finish(c, stopped), alive, UNCHANGED <<timerVars, timerMutex, fault>>,
         thread = NoThread \/ (cont[c] = "return" /\ ~stopped)
  PROVE  OwnedPeriodic'
<1> USE ActorsFinite
<1>1. pc \in [Actors -> Places] /\ cont[c] # "exit"
  BY DEF IInv, Conts
<1>2. UNCHANGED <<running, thread, timerMutex, fault>> /\ (quiet' => quiet \/ stopped)
  BY DEF Finish, timerVars
<1>3. PICK loc \in {"ready", "start_call", "gone"} :
        /\ Goto(c, loc)
        /\ loc # "gone" => alive'
        /\ loc = "gone" => thread = NoThread
  BY <1>1 DEF Finish
<1>4. pc'[c] = loc /\ \A d \in Controllers : d = c
  BY <1>1, <1>3 DEF Goto, OneOwner
<1> QED
  BY <1>2, <1>3, <1>4 DEF OwnedPeriodic

\* The owner moves on without coming to an end.
LEMMA OwnerMoves ==
  ASSUME OneOwner, IInv, OwnedPeriodic, NEW c \in Controllers, NEW loc \in Places, Goto(c, loc),
         UNCHANGED <<running, thread, timerMutex, fault, quiet, alive>>, alive,
         loc = "stop_mutex" => running,
         loc \in {"start_mutex", "stop_unref"} => thread = NoThread
  PROVE  OwnedPeriodic'
<1>1. pc'[c] = loc /\ \A d \in Controllers : d = c
  BY ActorsFinite DEF IInv, Goto, OneOwner
<1> QED
  BY <1>1 DEF OwnedPeriodic

LEMMA OwnerOperates ==
  ASSUME OneOwner, IInv, Periodic, OwnedPeriodic, NEW c \in Controllers, Operation(c)
  PROVE  OwnedPeriodic'
<1> USE ActorsFinite, PeriodicFacts
<1>1. /\ pc \in [Actors -> Places] /\ Conts /\ JoinHolds
      /\ \A d \in Controllers : d = c
  BY DEF IInv, OneOwner
<1>2. CASE SetPeriodCheck(c)
  <2>1. pc[c] = "set_period" /\ alive /\ cont[c] = "return"
    BY <1>1, <1>2 DEF SetPeriodCheck, Operation, TouchesFreed, Conts
  <2>2. CASE running
    BY <1>2, <2>1, <2>2, OwnerMoves DEF SetPeriodCheck, timerVars, Places, OperationPcs
  <2>3. CASE ~running
    BY <1>2, <2>1, <2>3, OwnerFinishes DEF SetPeriodCheck
  <2> QED
    BY <2>2, <2>3
<1>3. CASE StopCall(c)
  <2>1. pc[c] = "stop_call" /\ alive
    BY <1>3 DEF StopCall, Operation, TouchesFreed
  <2>2. CASE running
    BY <1>3, <2>1, <2>2, OwnerMoves DEF StopCall, timerVars, lockVars, lifeVars, Places, OperationPcs
  <2>3. CASE ~running
    BY <1>3, <2>1, <2>3, OwnerFinishes DEF StopCall
  <2> QED
    BY <2>2, <2>3
<1>4. CASE StopTimer(c)
  <2>1. pc[c] = "stop_mutex" /\ timerMutex = NoThread /\ running
    BY <1>4 DEF StopTimer, OwnedPeriodic
  <2>2. thread # NoThread /\ thread # c
    BY <2>1 DEF OwnedPeriodic, IInv, TypeOK
  <2>3. /\ running' = FALSE /\ timerMutex' = c /\ Goto(c, "stop_join")
        /\ UNCHANGED <<thread, fault, quiet, alive>>
    BY <1>4, <2>2 DEF StopTimer, lifeVars
  <2>4. pc'[c] = "stop_join" /\ c # NoThread
    BY <1>1, <2>3 DEF Goto
  <2> QED
    BY <1>1, <2>1, <2>2, <2>3, <2>4 DEF OwnedPeriodic
<1>5. CASE StopJoin(c)
  <2>1. pc[c] = "stop_join" /\ timerMutex # NoThread /\ thread \in Workers
    BY <1>1, <1>5 DEF StopJoin, JoinHolds, IInv, TypeOK
  <2>2. ~running /\ alive
    BY <2>1 DEF OwnedPeriodic
  <2>3. /\ thread' = NoThread /\ timerMutex' = NoThread
        /\ pc'[c] = "stop_unref"
        /\ UNCHANGED <<running, fault, quiet, alive>>
    BY <1>1, <1>5, <2>1 DEF StopJoin, lifeVars
  <2> QED
    BY <1>1, <2>2, <2>3 DEF OwnedPeriodic
<1>6. CASE StopUnref(c)
  <2>1. pc[c] = "stop_unref" /\ alive /\ thread = NoThread
    BY <1>6 DEF StopUnref, Operation, TouchesFreed, OwnedPeriodic
  <2> QED
    BY <1>6, <2>1, OwnerFinishes DEF StopUnref
<1>7. CASE StartCall(c)
  <2>1. pc[c] = "start_call" /\ alive /\ cont[c] = "return"
    BY <1>1, <1>7 DEF StartCall, Operation, TouchesFreed, Conts
  <2>2. CASE running
    BY <1>7, <2>1, <2>2, OwnerFinishes DEF StartCall
  <2>3. CASE ~running
    BY <1>7, <2>1, <2>3, OwnerMoves DEF StartCall, timerVars, lockVars, Places, OperationPcs
  <2> QED
    BY <2>2, <2>3
<1>8. CASE StartTimer(c)
  <2>1. pc[c] = "start_mutex" /\ timerMutex = NoThread /\ thread = NoThread /\ alive
    BY <1>8 DEF StartTimer, OwnedPeriodic
  <2>2. PICK w \in Workers :
          /\ running' = TRUE /\ thread' = w /\ quiet' = FALSE
          /\ pc' = [pc EXCEPT ![w] = "loop",
                              ![c] = IF c \in Controllers THEN "ready" ELSE "callback"]
          /\ UNCHANGED <<lockVars, lifeVars, fault>>
    BY <1>8, <2>1 DEF StartTimer
  <2>3. pc'[c] = "ready" /\ w # NoThread
    BY <1>1, <2>2
  <2> QED
    BY <1>1, <2>1, <2>2, <2>3 DEF OwnedPeriodic, lockVars, lifeVars
<1> QED
  BY <1>2, <1>3, <1>4, <1>5, <1>6, <1>7, <1>8 DEF Operation

LEMMA PeriodicStep ==
  ASSUME OneOwner, IInv, Periodic, OwnedPeriodic, [Next]_vars
  PROVE  OwnedPeriodic'
<1> USE ActorsFinite, PeriodicFacts
<1>1. pc \in [Actors -> Places]
  BY DEF IInv
<1>2. ASSUME NEW w \in Workers, ThreadFunc(w) PROVE OwnedPeriodic'
  <2>1. UNCHANGED <<running, thread, timerMutex, alive, fault, quiet>>
    BY <1>2 DEF ThreadFunc, Loop, LockCallback, Read, Expire, Check, CallbackReturns,
       CheckPeriod, WorkerStays, timerVars, lifeVars
  <2>2. \E loc : Goto(w, loc)
    BY <1>2 DEF ThreadFunc, Loop, LockCallback, Read, Expire, Check, CallbackReturns, CheckPeriod
  <2>3. \A c \in Controllers : pc'[c] = pc[c]
    BY <1>1, <2>2 DEF Goto
  <2> QED
    BY <2>1, <2>3 DEF OwnedPeriodic
<1>3. ASSUME NEW a \in Actors, ActorStep(a) PROVE OwnedPeriodic'
  <2>1. Operation(a)
    BY <1>3 DEF ActorStep, UseAfterFree
  <2>2. pc[a] \in OperationPcs
    BY <2>1 DEF Operation, SetPeriodCheck, StopCall, StopTimer, StopJoin, StopUnref, StartCall,
       StartTimer, OperationPcs
  <2>3. a \in Controllers
    BY <2>2 DEF Actors
  <2> QED
    BY <2>1, <2>3, OwnerOperates
<1>4. ASSUME NEW c \in Controllers, ControllerCalls(c) PROVE OwnedPeriodic'
  <2>1. PICK op \in use.controllerOps : Call(c, op)
    BY <1>4 DEF ControllerCalls
  <2>2. PICK loc \in {"start_call", "stop_call", "set_period"} : Goto(c, loc)
    BY <2>1 DEF Call
  <2>3. UNCHANGED <<running, thread, timerMutex, fault, quiet, alive>> /\ alive
    BY <1>4, <2>1 DEF Call, ControllerCalls, lockVars, lifeVars
  <2> QED
    BY <2>2, <2>3, OwnerMoves DEF Places, OperationPcs
<1>5. CASE UNCHANGED vars
  BY <1>5 DEF vars, timerVars, lockVars, lifeVars, OwnedPeriodic
<1> QED
  BY <1>2, <1>3, <1>4, <1>5 DEF Next, WorkerStep, CallbackCalls

OneShot == Plain /\ ~Periodic

LEMMA OneShotFacts ==
  ASSUME IInv, OneShot, OwnedOneShot
  PROVE  /\ use.callbackOps = {} /\ use.controllerOps = {"start"}
         /\ \A a \in Actors : ~TouchesFreed(a)
<1>1. use.callbackOps = {} /\ use.controllerOps = {"start"}
  <2>1. "one_shot" \in use.periods
    <3>1. use.periods \subseteq {"periodic", "one_shot"} /\ period \in use.periods
      BY OperationsAssumption DEF IInv, TypeOK
    <3>2. use.periods # {"periodic"}
      BY DEF OneShot, Periodic
    <3> QED
      BY <3>1, <3>2
  <2> QED
    BY <2>1 DEF OneShot, Plain
<1>2. refs # 0
  BY AtFinite DEF IInv, RefsCount, TypeOK, OwnedOneShot
<1> QED
  BY <1>1, <1>2 DEF TouchesFreed, OwnedOneShot

\* The worker moves on through its loop or the stop() at its end.
LEMMA OneShotMoves ==
  ASSUME IInv, OwnedOneShot, NEW w \in Workers, NEW loc \in Places, Goto(w, loc),
         UNCHANGED <<running, stopFlag, thread, timerMutex, fault, quiet, alive>>,
         \A v \in Workers \ {w} : cont'[v] = cont[v],
         thread = w, loc \notin {"none", "exited", "stop_unref"},
         loc \in OperationPcs =>
           loc \in {"stop_call", "stop_mutex", "stop_unref"} /\ cont'[w] = "exit"
  PROVE  OwnedOneShot'
<1> USE ActorsFinite
<1>1. pc'[w] = loc /\ \A a \in Actors \ {w} : pc'[a] = pc[a]
  BY DEF IInv, Goto
<1>2. /\ \A c \in Controllers : pc'[c] = pc[c]
      /\ \A v \in Workers \ {w} : pc'[v] = pc[v]
  BY <1>1
<1> QED
  BY <1>1, <1>2 DEF OwnedOneShot

LEMMA OneShotLoops ==
  ASSUME IInv, OneShot, OwnedOneShot, NEW w \in Workers, ThreadFunc(w)
  PROVE  OwnedOneShot'
<1>1. pc[w] \in {"loop", "lock", "read", "blocked", "check", "callback", "period"}
  BY DEF ThreadFunc, Loop, LockCallback, Read, Expire, Check, CallbackReturns, CheckPeriod
<1>2. thread = w /\ ~stopFlag
  BY <1>1, ThreadsAssumption DEF OwnedOneShot
<1>3. UNCHANGED <<running, stopFlag, thread, timerMutex, alive, fault, quiet>>
  BY DEF ThreadFunc, Loop, LockCallback, Read, Expire, Check, CallbackReturns,
     CheckPeriod, WorkerStays, timerVars, lifeVars
<1>4. \A v \in Workers \ {w} : cont'[v] = cont[v]
  <2>1. cont \in [Actors -> {"return", "restart", "exit", "destroy"}] /\ w \in Actors
    BY ActorsFinite DEF IInv, TypeOK
  <2>2. cont' = cont \/ cont' = [cont EXCEPT ![w] = "exit"]
    BY DEF ThreadFunc, Loop, LockCallback, Read, Expire, Check, CallbackReturns, CheckPeriod
  <2> QED
    BY <2>1, <2>2, ActorsFinite
<1>5. PICK loc \in {"lock", "read", "blocked", "check", "callback", "period", "stop_call", "loop"} :
        Goto(w, loc) /\ (loc = "stop_call" => cont'[w] = "exit")
  <2>1. cont \in [Actors -> {"return", "restart", "exit", "destroy"}] /\ w \in Actors
    BY ActorsFinite DEF IInv, TypeOK
  <2> QED
    BY <1>2, <2>1 DEF ThreadFunc, Loop, LockCallback, Read, Expire, Check, CallbackReturns, CheckPeriod
<1> QED
  BY <1>2, <1>3, <1>4, <1>5, OneShotMoves DEF Places, OperationPcs

\* The worker stops its own timer and ends.
LEMMA OneShotStops ==
  ASSUME IInv, OneShot, OwnedOneShot, NEW w \in Workers, Operation(w)
  PROVE  OwnedOneShot'
<1> USE ActorsFinite
<1>1. pc[w] \in {"stop_call", "stop_mutex", "stop_unref"} /\ cont[w] = "exit"
  <2>1. pc[w] \in OperationPcs
    BY DEF Operation, SetPeriodCheck, StopCall, StopTimer, StopJoin, StopUnref, StartCall,
       StartTimer, OperationPcs
  <2> QED
    BY <2>1 DEF OwnedOneShot
<1>2. pc \in [Actors -> Places] /\ cont \in [Actors -> {"return", "restart", "exit", "destroy"}]
  BY DEF IInv, TypeOK
<1>3. CASE StopCall(w)
  <2>1. thread = w /\ running
    BY <1>3 DEF StopCall, OwnedOneShot
  <2>2. /\ Goto(w, "stop_mutex")
        /\ UNCHANGED <<running, stopFlag, thread, timerMutex, fault, quiet, alive, cont>>
    BY <1>3, <2>1 DEF StopCall, timerVars, lockVars, lifeVars
  <2> QED
    BY <1>1, <2>1, <2>2, OneShotMoves DEF Places, OperationPcs
<1>4. CASE StopTimer(w)
  <2>1. thread = w /\ w # NoThread
    BY <1>4, ThreadsAssumption DEF StopTimer, OwnedOneShot
  <2>2. /\ running' = FALSE /\ thread' = NoThread /\ Goto(w, "stop_unref")
        /\ UNCHANGED <<timerMutex, alive, cont, fault, quiet>>
    BY <1>4, <2>1 DEF StopTimer, lifeVars
  <2>3. pc'[w] = "stop_unref" /\ \A a \in Actors \ {w} : pc'[a] = pc[a]
    BY <1>2, <2>2 DEF Goto
  <2>4. /\ \A c \in Controllers : pc'[c] = pc[c]
        /\ \A v \in Workers \ {w} : pc'[v] = pc[v] /\ thread # v /\ thread' # v
    BY <2>1, <2>2, <2>3
  <2> QED
    BY <1>1, <2>2, <2>3, <2>4 DEF OwnedOneShot
<1>5. CASE StopUnref(w)
  <2>1. thread # w /\ alive
    BY <1>5 DEF StopUnref, OwnedOneShot
  <2>2. UNCHANGED <<running, stopFlag, thread, timerMutex, fault>> /\ Finish(w, TRUE)
    BY <1>5, <2>1 DEF StopUnref, timerVars
  <2>3. /\ Goto(w, "none") /\ UNCHANGED <<alive, quiet>>
        /\ cont' = [cont EXCEPT ![w] = "return"]
    <3>1. w \notin Controllers /\ quiet \in BOOLEAN
      BY DEF IInv, TypeOK
    <3>2. quiet' = quiet
      BY <2>2, <3>1 DEF Finish
    <3> QED
      BY <1>1, <2>1, <2>2, <3>2 DEF Finish, Exited
  <2>4. pc'[w] = "none" /\ \A a \in Actors \ {w} : pc'[a] = pc[a] /\ cont'[a] = cont[a]
    BY <1>2, <2>3 DEF Goto
  <2>5. /\ \A c \in Controllers : pc'[c] = pc[c]
        /\ \A v \in Workers \ {w} : pc'[v] = pc[v] /\ cont'[v] = cont[v]
    BY <2>4
  <2>6. "none" \notin OperationPcs
    BY DEF OperationPcs
  <2> QED
    BY <2>1, <2>2, <2>3, <2>4, <2>5, <2>6 DEF OwnedOneShot
<1> QED
  BY <1>1, <1>3, <1>4, <1>5 DEF Operation, SetPeriodCheck, StopJoin, StartCall, StartTimer

\* The owner starts the timer, or finds it running.
LEMMA OneShotStarts ==
  ASSUME OneOwner, IInv, OneShot, OwnedOneShot, NEW c \in Controllers, Operation(c)
  PROVE  OwnedOneShot'
<1> USE ActorsFinite
<1>1. /\ pc \in [Actors -> Places] /\ \A d \in Controllers : d = c
      /\ pc[c] \in {"start_call", "start_mutex"} /\ cont[c] = "return"
  <2>1. pc[c] \in {"start_call", "start_mutex"}
    BY DEF OwnedOneShot, Operation, SetPeriodCheck, StopCall, StopTimer, StopJoin, StopUnref,
       StartCall, StartTimer
  <2> QED
    BY <2>1 DEF IInv, Conts, OneOwner
<1>2. CASE StartCall(c)
  <2>1. UNCHANGED <<running, stopFlag, thread, timerMutex, fault>>
    BY <1>2 DEF StartCall, timerVars, lockVars
  <2>2. PICK loc \in {"ready", "start_mutex"} :
          /\ Goto(c, loc) /\ UNCHANGED <<cont, alive, quiet>>
          /\ loc = "start_mutex" => ~running
    <3>1. quiet \in BOOLEAN
      BY DEF IInv, TypeOK
    <3>2. CASE running
      <4>1. Finish(c, FALSE)
        BY <1>2, <3>2 DEF StartCall
      <4>2. quiet' = quiet
        BY <3>1, <4>1 DEF Finish
      <4> QED
        BY <1>1, <4>1, <4>2 DEF Finish
    <3>3. CASE ~running
      BY <1>2, <3>3 DEF StartCall
    <3> QED
      BY <3>2, <3>3
  <2>3. pc'[c] = loc /\ \A w \in Workers : pc'[w] = pc[w]
    BY <1>1, <2>2 DEF Goto
  <2> QED
    BY <1>1, <2>1, <2>2, <2>3 DEF OwnedOneShot
<1>3. CASE StartTimer(c)
  <2>1. thread = NoThread
    BY <1>3 DEF StartTimer, OwnedOneShot
  <2>2. PICK v \in Workers :
          /\ pc[v] = "none"
          /\ stopFlag' = FALSE /\ running' = TRUE /\ thread' = v /\ quiet' = FALSE
          /\ pc' = [pc EXCEPT ![v] = "loop",
                              ![c] = IF c \in Controllers THEN "ready" ELSE "callback"]
          /\ UNCHANGED <<lockVars, lifeVars, cont, fault>>
    BY <1>3, <2>1 DEF StartTimer
  <2>3. /\ pc'[c] = "ready" /\ pc'[v] = "loop" /\ v # NoThread
        /\ \A w \in Workers \ {v} : pc'[w] = pc[w]
    BY <1>1, <2>2
  <2>4. \A w \in Workers \ {v} : pc[w] \in {"none", "stop_unref"}
    BY <2>1 DEF OwnedOneShot
  <2>5. "loop" \notin OperationPcs
    BY DEF OperationPcs
  <2> QED
    BY <1>1, <2>2, <2>3, <2>4, <2>5 DEF OwnedOneShot, lockVars, lifeVars
<1> QED
  BY <1>1, <1>2, <1>3 DEF Operation, SetPeriodCheck, StopCall, StopTimer, StopJoin, StopUnref

LEMMA OneShotStep ==
  ASSUME OneOwner, IInv, OneShot, OwnedOneShot, [Next]_vars
  PROVE  OwnedOneShot'
<1> USE ActorsFinite, OneShotFacts
<1>1. ASSUME NEW a \in Actors, ActorStep(a) PROVE OwnedOneShot'
  <2>1. Operation(a)
    BY <1>1 DEF ActorStep, UseAfterFree
  <2> QED
    BY <2>1, OneShotStops, OneShotStarts DEF Actors
<1>2. ASSUME NEW c \in Controllers, ControllerCalls(c) PROVE OwnedOneShot'
  <2>1. Call(c, "start")
    BY <1>2 DEF ControllerCalls
  <2>2. /\ Goto(c, "start_call") /\ UNCHANGED cont
        /\ UNCHANGED <<running, stopFlag, thread, timerMutex, fault, quiet, alive>>
    BY <2>1 DEF Call, lockVars, lifeVars
  <2>3. /\ pc'[c] = "start_call" /\ \A d \in Controllers : d = c
        /\ \A w \in Workers : pc'[w] = pc[w]
    BY <2>2 DEF Goto, IInv, OneOwner
  <2> QED
    BY <2>2, <2>3 DEF OwnedOneShot
<1>3. CASE UNCHANGED vars
  BY <1>3 DEF vars, timerVars, lockVars, lifeVars, OwnedOneShot
<1> QED
  BY <1>1, <1>2, <1>3, OneShotLoops DEF Next, WorkerStep, CallbackCalls

LEMMA OwnedHolds ==
  ASSUME OneOwner
  PROVE  Spec => []Owned
<1>1. Init => Owned
  <2> SUFFICES ASSUME Init PROVE Owned
    OBVIOUS
  <2>1. \A w \in Workers : w \notin Controllers /\ w # NoThread
    BY ThreadsAssumption
  <2> QED
    BY <2>1 DEF Init, Owned, OwnedPeriodic, OwnedOneShot, Actors, OperationPcs
<1>2. IInv /\ Owned /\ [Next]_vars => Owned'
  <2> SUFFICES ASSUME IInv, Owned, [Next]_vars PROVE Owned'
    OBVIOUS
  <2>1. use' = use
    BY DEF Next, vars
  <2>2. (Plain <=> Plain') /\ (Periodic <=> Periodic')
    BY <2>1 DEF Plain, Periodic
  <2>3. CASE Periodic
    BY <2>2, <2>3, PeriodicStep DEF Owned
  <2>4. CASE OneShot
    BY <2>2, <2>4, OneShotStep DEF Owned, OneShot
  <2> QED
    BY <2>2, <2>3, <2>4 DEF Owned, OneShot
<1> QED
  BY <1>1, <1>2, AlwaysHolds, PTL DEF Spec

\* A timer of one owner whose callback leaves it alone: once stop() has returned
\* true no callback runs, and no operation of the owner, its destruction included,
\* or of the ending worker finds a thread or an object that is not there.
THEOREM StopsCleanlyHolds ==
  ASSUME OneOwner
  PROVE  Spec => []StopsCleanly
<1>1. IInv /\ Owned => StopsCleanly
  <2> SUFFICES ASSUME IInv, Owned, Plain
               PROVE  /\ quiet => \A w \in Workers : ~InCallback(w)
                      /\ fault = "none"
    BY DEF StopsCleanly
  <2>1. CASE Periodic
    <3>1. quiet => \A w \in Workers : pc[w] = "none"
      BY <2>1, ThreadsAssumption DEF Owned, OwnedPeriodic, IInv, OneWorker, Periodic
    <3> QED
      BY <2>1, <3>1 DEF Owned, OwnedPeriodic, InCallback, OperationPcs
  <2>2. CASE ~Periodic
    BY <2>2 DEF Owned, OwnedOneShot
  <2> QED
    BY <2>1, <2>2
<1> QED
  BY <1>1, AlwaysHolds, OwnedHolds, PTL
=============================================================================
