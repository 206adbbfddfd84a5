------------------------------ MODULE RpcProofs ------------------------------
(***************************************************************************)
(* Safety of RpcRegistry for any threads, any names and any use of the     *)
(* registry by methods, and that it implements RpcDirectory; then safety   *)
(* of HttpServer, which executes the calls, for any connections.           *)
(***************************************************************************)
EXTENDS RpcRegistry, HttpServer, FiniteSetTheorems, TLAPS

\* Where a thread is determines its hold on m_oObjectsLock, the name its
\* operation is about and the object it executes.
HoldsFollowPc ==
    \A t \in Threads :
        /\ objectsLock[t] = "shared" <=> pc[t] = "get_object"
        /\ objectsLock[t] = "claimed" <=> pc[t] \in {"register_drain", "unregister_drain"}
        /\ objectsLock[t] = "exclusive" <=> pc[t] = "unregister_object"

ArgsFollowPc ==
    \A t \in Threads :
        /\ pc[t] \notin {"idle", "calling"} => arg[t] \in Objects
        /\ pc[t] \in {"unregister", "unregister_drain", "unregister_object"}
             => arg[t] # target[t]

TargetsFollowPc ==
    \A t \in Threads :
        /\ pc[t] \in {"idle", "get", "get_object"} => target[t] = NoObject
        /\ pc[t] = "calling" => target[t] # NoObject

\* m_oObjectsLock has one writer, and its writer is alone once it is in.
OneWriter ==
    \A t, u \in Threads :
        /\ objectsLock[t] \in {"claimed", "exclusive"}
             /\ objectsLock[u] \in {"claimed", "exclusive"} => t = u
        /\ objectsLock[t] = "exclusive" => objectsLock[u] # "shared"

\* Calls are inside registered objects only, and hold their mutexes.
CallsHoldMutex ==
    \A t \in Threads :
        /\ target[t] \in registered \cup {NoObject}
        /\ \A o \in registered : objects[o][t] = "shared" <=> target[t] = o

\* The inductive invariant.
IInv ==
    /\ TypeOK
    /\ HoldsFollowPc /\ ArgsFollowPc /\ TargetsFollowPc
    /\ OneWriter
    /\ NoDanglingEntry
    /\ CallsHoldMutex

-----------------------------------------------------------------------------

LEMMA InitIInv == Init => IInv
BY ObjectsAssumption
   DEF Init, IInv, TypeOK, Locks, Holds, FreeLock, Locations, registered, HoldsFollowPc,
       ArgsFollowPc, TargetsFollowPc, OneWriter, NoDanglingEntry, CallsHoldMutex

\* An operation begins: nothing but the place and the argument of t changes.
LEMMA BeginIInv ==
    ASSUME IInv, UNCHANGED nested, NEW t \in Threads, NEW o \in Objects,
           Request(t, o) \/ AdminCalls(t, o) \/ MethodCalls(t, o)
    PROVE  IInv'
<1>1. PICK loc \in {"get", "register", "unregister"} :
          /\ Begin(t, loc, o)
          /\ pc[t] \in {"idle", "calling"} /\ (loc = "get" => pc[t] = "idle")
          /\ loc = "unregister" => o # target[t]
  BY ObjectsAssumption DEF Request, AdminCalls, MethodCalls, IInv, TargetsFollowPc
<1>2. UNCHANGED <<nested, objectsLock, objects, target, registered>>
  BY <1>1 DEF Begin, registered
<1>3. /\ pc' = [pc EXCEPT ![t] = loc] /\ arg' = [arg EXCEPT ![t] = o]
      /\ pc[t] \in {"idle", "calling"} /\ (loc = "get" => pc[t] = "idle")
      /\ loc = "unregister" => o # target[t]
  BY <1>1 DEF Begin, Goto
<1>4. TypeOK'
  BY <1>2, <1>3 DEF IInv, TypeOK, Locations
<1>5. HoldsFollowPc' /\ OneWriter' /\ CallsHoldMutex'
  BY <1>2, <1>3 DEF IInv, TypeOK, HoldsFollowPc, OneWriter, CallsHoldMutex
<1>6. ArgsFollowPc' /\ TargetsFollowPc' /\ NoDanglingEntry'
  BY <1>2, <1>3 DEF IInv, TypeOK, ArgsFollowPc, TargetsFollowPc, NoDanglingEntry
<1> QED
  BY <1>4, <1>5, <1>6 DEF IInv

\* A call: the registered object is looked up, its mutex shared, and released.
LEMMA CallIInv ==
    ASSUME IInv, UNCHANGED nested, NEW t \in Threads,
           Find(t) \/ LockObject(t) \/ EndCall(t)
    PROVE  IInv'
<1> USE ObjectsAssumption
<1>1. CASE Find(t)
  <2>1. UNCHANGED <<objects, target, registered>>
    BY <1>1 DEF Find, registered
  <2>2. CASE arg[t] \in registered
    <3>1. /\ pc[t] = "get" /\ pc' = [pc EXCEPT ![t] = "get_object"]
          /\ objectsLock' = [objectsLock EXCEPT ![t] = "shared"] /\ arg' = arg
          /\ \A u \in Threads : objectsLock[u] \notin {"claimed", "exclusive"}
      BY <1>1, <2>2 DEF Find, Goto, Hold, CanShare, Claimed
    <3>2. TypeOK'
      BY <2>1, <3>1 DEF IInv, TypeOK, Locks, Holds, Locations
    <3>3. HoldsFollowPc' /\ OneWriter'
      BY <3>1 DEF IInv, TypeOK, Locks, HoldsFollowPc, OneWriter
    <3>4. ArgsFollowPc' /\ TargetsFollowPc' /\ NoDanglingEntry' /\ CallsHoldMutex'
      BY <2>1, <2>2, <3>1 DEF IInv, TypeOK, ArgsFollowPc, TargetsFollowPc, NoDanglingEntry,
         CallsHoldMutex
    <3> QED
      BY <3>2, <3>3, <3>4 DEF IInv
  <2>3. CASE arg[t] \notin registered
    <3>1. /\ pc[t] = "get" /\ pc' = [pc EXCEPT ![t] = "idle"]
          /\ objectsLock' = objectsLock /\ arg' = [arg EXCEPT ![t] = NoObject]
      BY <1>1, <2>3 DEF Find, Return, Goto, IInv, TargetsFollowPc
    <3> QED
      BY <2>1, <3>1 DEF IInv, TypeOK, Locations, HoldsFollowPc, OneWriter, ArgsFollowPc,
         TargetsFollowPc, NoDanglingEntry, CallsHoldMutex
  <2> QED
    BY <2>2, <2>3
<1>2. CASE LockObject(t)
  <2> DEFINE o == arg[t]
  <2>1. o \in registered /\ o \in Objects /\ target[t] = NoObject /\ pc[t] = "get_object"
    BY <1>2 DEF LockObject, IInv, NoDanglingEntry, ArgsFollowPc, TargetsFollowPc
  <2>2. /\ objects' = [objects EXCEPT ![o] = [objects[o] EXCEPT ![t] = "shared"]]
        /\ objectsLock' = [objectsLock EXCEPT ![t] = "out"]
        /\ target' = [target EXCEPT ![t] = o]
        /\ arg' = [arg EXCEPT ![t] = NoObject]
        /\ pc' = [pc EXCEPT ![t] = "calling"]
    BY <1>2 DEF LockObject, Hold, Goto
  <2>3. registered' = registered
    BY <2>2 DEF registered
  <2>4. \A p \in registered : objects[p] \in [Threads -> Holds]
    BY DEF IInv, TypeOK, Locks
  <2>5. \A p \in registered :
           objects'[p] = IF p = o THEN [objects[p] EXCEPT ![t] = "shared"] ELSE objects[p]
    BY <2>2 DEF registered
  <2>6. TypeOK'
    BY <2>1, <2>2, <2>3, <2>4, <2>5 DEF IInv, TypeOK, Locks, Holds, Locations
  <2>7. HoldsFollowPc' /\ OneWriter'
    BY <2>1, <2>2 DEF IInv, TypeOK, Locks, HoldsFollowPc, OneWriter
  <2>8. ArgsFollowPc' /\ TargetsFollowPc' /\ NoDanglingEntry'
    BY <2>1, <2>2, <2>3 DEF IInv, TypeOK, ArgsFollowPc, TargetsFollowPc, NoDanglingEntry
  <2>9. CallsHoldMutex'
    <3>1. \A u \in Threads : target'[u] = IF u = t THEN o ELSE target[u]
      BY <2>2 DEF IInv, TypeOK
    <3>2. \A p \in registered, u \in Threads :
             objects'[p][u] = IF p = o /\ u = t THEN "shared" ELSE objects[p][u]
      BY <2>4, <2>5
    <3> QED
      BY <2>1, <2>3, <3>1, <3>2 DEF IInv, TypeOK, CallsHoldMutex
  <2> QED
    BY <2>6, <2>7, <2>8, <2>9 DEF IInv
<1>3. CASE EndCall(t)
  <2> DEFINE o == target[t]
  <2>1. pc[t] = "calling" /\ o \in registered
    BY <1>3 DEF EndCall, IInv, TargetsFollowPc, CallsHoldMutex
  <2>2. /\ objects' = [objects EXCEPT ![o] = [objects[o] EXCEPT ![t] = "out"]]
        /\ target' = [target EXCEPT ![t] = NoObject]
        /\ pc' = [pc EXCEPT ![t] = "idle"]
        /\ UNCHANGED <<objectsLock, arg>>
    BY <1>3 DEF EndCall, Hold, Goto
  <2>3. registered' = registered
    BY <2>2 DEF registered
  <2>4. \A p \in registered : objects[p] \in [Threads -> Holds]
    BY DEF IInv, TypeOK, Locks
  <2>5. \A p \in registered :
           objects'[p] = IF p = o THEN [objects[p] EXCEPT ![t] = "out"] ELSE objects[p]
    BY <2>2 DEF registered
  <2>6. TypeOK'
    BY <2>1, <2>2, <2>3, <2>4, <2>5 DEF IInv, TypeOK, Locks, Holds, Locations
  <2>7. HoldsFollowPc' /\ OneWriter'
    BY <2>1, <2>2 DEF IInv, TypeOK, Locks, HoldsFollowPc, OneWriter
  <2>8. ArgsFollowPc' /\ TargetsFollowPc' /\ NoDanglingEntry'
    BY <2>1, <2>2, <2>3 DEF IInv, TypeOK, ArgsFollowPc, TargetsFollowPc, NoDanglingEntry
  <2>9. registered \subseteq Objects
    BY DEF IInv, TypeOK
  <2>10. CallsHoldMutex'
    <3>1. \A u \in Threads : target'[u] = IF u = t THEN NoObject ELSE target[u]
      BY <2>2 DEF IInv, TypeOK
    <3>2. \A p \in registered, u \in Threads :
             objects'[p][u] = IF p = o /\ u = t THEN "out" ELSE objects[p][u]
      BY <2>4, <2>5
    <3> QED
      BY <2>1, <2>3, <2>9, <3>1, <3>2 DEF IInv, CallsHoldMutex
  <2> QED
    BY <2>6, <2>7, <2>8, <2>10 DEF IInv
<1> QED
  BY <1>1, <1>2, <1>3

\* Registering and unregistering: the writer's way through both mutexes.
LEMMA AdminIInv ==
    ASSUME IInv, UNCHANGED nested, NEW t \in Threads,
           ClaimObjectsLock(t) \/ Register(t) \/ UnregisterFind(t) \/ UnregisterErase(t)
    PROVE  IInv'
<1> USE ObjectsAssumption
<1>0. /\ registered \subseteq Objects
      /\ \A p \in registered : objects[p] \in [Threads -> Holds]
  BY DEF IInv, TypeOK, Locks
<1>1. CASE ClaimObjectsLock(t)
  <2>1. /\ pc[t] \in {"register", "unregister"}
        /\ pc' = [pc EXCEPT ![t] = IF pc[t] = "register" THEN "register_drain"
                                                       ELSE "unregister_drain"]
        /\ objectsLock' = [objectsLock EXCEPT ![t] = "claimed"]
        /\ \A u \in Threads : objectsLock[u] \notin {"claimed", "exclusive"}
        /\ UNCHANGED <<objects, arg, target, registered>>
    BY <1>1 DEF ClaimObjectsLock, Goto, Hold, CanClaim, Claimed, registered
  <2>2. TypeOK'
    BY <2>1 DEF IInv, TypeOK, Locks, Holds, Locations
  <2>3. HoldsFollowPc' /\ OneWriter'
    BY <2>1 DEF IInv, TypeOK, Locks, HoldsFollowPc, OneWriter
  <2>4. ArgsFollowPc' /\ TargetsFollowPc' /\ NoDanglingEntry' /\ CallsHoldMutex'
    BY <2>1 DEF IInv, TypeOK, ArgsFollowPc, TargetsFollowPc, NoDanglingEntry, CallsHoldMutex
  <2> QED
    BY <2>2, <2>3, <2>4 DEF IInv
<1>2. CASE Register(t)
  <2>1. /\ pc[t] = "register_drain" /\ arg[t] \in Objects
        /\ pc' = [pc EXCEPT ![t] = IF target[t] = NoObject THEN "idle" ELSE "calling"]
        /\ arg' = [arg EXCEPT ![t] = NoObject]
        /\ objectsLock' = [objectsLock EXCEPT ![t] = "out"]
        /\ \A u \in Threads : objectsLock[u] # "shared"
        /\ target' = target
    BY <1>2 DEF Register, Return, Goto, Hold, NoReaders, SharedHolders, IInv, ArgsFollowPc
  <2>2. /\ registered' = registered \cup {arg[t]}
        /\ \A p \in registered' :
              objects'[p] = IF p \in registered THEN objects[p] ELSE FreeLock
    BY <1>2 DEF Register, Extend, registered
  <2>3. FreeLock \in [Threads -> Holds] /\ \A u \in Threads : FreeLock[u] = "out"
    BY DEF FreeLock, Holds
  <2>4. TypeOK'
    BY <1>0, <2>1, <2>2, <2>3 DEF IInv, TypeOK, Locks, Holds, Locations
  <2>5. HoldsFollowPc' /\ OneWriter'
    BY <2>1 DEF IInv, TypeOK, Locks, HoldsFollowPc, OneWriter
  <2>6. ArgsFollowPc' /\ TargetsFollowPc' /\ NoDanglingEntry'
    BY <2>1, <2>2 DEF IInv, TypeOK, ArgsFollowPc, TargetsFollowPc, NoDanglingEntry
  <2>7. CallsHoldMutex'
    BY <1>0, <2>1, <2>2, <2>3 DEF IInv, CallsHoldMutex
  <2> QED
    BY <2>4, <2>5, <2>6, <2>7 DEF IInv
<1>3. CASE UnregisterFind(t) /\ arg[t] \in registered
  <2> DEFINE o == arg[t]
  <2>1. /\ pc[t] = "unregister_drain" /\ target[t] # o
        /\ pc' = [pc EXCEPT ![t] = "unregister_object"]
        /\ objectsLock' = [objectsLock EXCEPT ![t] = "exclusive"]
        /\ \A u \in Threads : objectsLock[u] # "shared"
        /\ UNCHANGED <<arg, target>>
    BY <1>3 DEF UnregisterFind, Goto, Hold, NoReaders, SharedHolders, IInv, ArgsFollowPc
  <2>2. objects' = [objects EXCEPT ![o] = [objects[o] EXCEPT ![t] = "claimed"]]
    BY <1>3 DEF UnregisterFind, Hold
  <2>3. registered' = registered
    BY <2>2 DEF registered
  <2>4. \A p \in registered :
           objects'[p] = IF p = o THEN [objects[p] EXCEPT ![t] = "claimed"] ELSE objects[p]
    BY <2>2 DEF registered
  <2>5. TypeOK'
    <3>1. ASSUME NEW p \in registered PROVE objects'[p] \in [Threads -> Holds]
      <4>1. [objects[p] EXCEPT ![t] = "claimed"] \in [Threads -> Holds]
        BY <1>0 DEF Holds
      <4> QED
        BY <1>0, <2>4, <4>1
    <3> QED
      BY <2>1, <2>3, <3>1 DEF IInv, TypeOK, Locks, Holds, Locations
  <2>6. HoldsFollowPc' /\ OneWriter'
    BY <2>1 DEF IInv, TypeOK, Locks, HoldsFollowPc, OneWriter
  <2>7. ArgsFollowPc' /\ TargetsFollowPc' /\ NoDanglingEntry'
    BY <1>3, <2>1, <2>3 DEF IInv, TypeOK, ArgsFollowPc, TargetsFollowPc, NoDanglingEntry
  <2>8. \A p \in registered, u \in Threads :
           objects'[p][u] = IF p = o /\ u = t THEN "claimed" ELSE objects[p][u]
    BY <1>0, <2>4
  <2>9. CallsHoldMutex'
    BY <2>1, <2>3, <2>8 DEF IInv, CallsHoldMutex
  <2> QED
    BY <2>5, <2>6, <2>7, <2>9 DEF IInv
<1>4. CASE UnregisterFind(t) /\ arg[t] \notin registered
  <2>1. /\ pc[t] = "unregister_drain"
        /\ pc' = [pc EXCEPT ![t] = IF target[t] = NoObject THEN "idle" ELSE "calling"]
        /\ arg' = [arg EXCEPT ![t] = NoObject]
        /\ objectsLock' = [objectsLock EXCEPT ![t] = "out"]
        /\ UNCHANGED <<objects, target, registered>>
    BY <1>4 DEF UnregisterFind, Return, Goto, Hold, registered
  <2>2. TypeOK'
    BY <2>1 DEF IInv, TypeOK, Locks, Holds, Locations
  <2>3. HoldsFollowPc' /\ OneWriter'
    BY <2>1 DEF IInv, TypeOK, Locks, HoldsFollowPc, OneWriter
  <2>4. ArgsFollowPc' /\ TargetsFollowPc' /\ NoDanglingEntry' /\ CallsHoldMutex'
    BY <2>1 DEF IInv, TypeOK, ArgsFollowPc, TargetsFollowPc, NoDanglingEntry, CallsHoldMutex
  <2> QED
    BY <2>2, <2>3, <2>4 DEF IInv
<1>5. CASE UnregisterErase(t)
  <2> DEFINE o == arg[t]
  <2>1. /\ pc[t] = "unregister_object" /\ o \in registered
        /\ pc' = [pc EXCEPT ![t] = IF target[t] = NoObject THEN "idle" ELSE "calling"]
        /\ arg' = [arg EXCEPT ![t] = NoObject]
        /\ objectsLock' = [objectsLock EXCEPT ![t] = "out"]
        /\ target' = target
    BY <1>5 DEF UnregisterErase, Return, Goto, Hold, IInv, NoDanglingEntry
  <2>2. \A u \in Threads : target[u] # o
    BY <1>5, <2>1 DEF UnregisterErase, NoReaders, SharedHolders, IInv, CallsHoldMutex
  <2>3. \A u \in Threads : u # t => pc[u] \notin {"get_object", "unregister_object"}
    BY <2>1 DEF IInv, HoldsFollowPc, OneWriter
  <2>4. registered' = registered \ {o} /\ \A p \in registered' : objects'[p] = objects[p]
    BY <1>5 DEF UnregisterErase, registered
  <2>5. TypeOK'
    BY <1>0, <2>1, <2>4 DEF IInv, TypeOK, Locks, Holds, Locations
  <2>6. HoldsFollowPc' /\ OneWriter'
    BY <2>1 DEF IInv, TypeOK, Locks, HoldsFollowPc, OneWriter
  <2>7. ArgsFollowPc' /\ TargetsFollowPc' /\ NoDanglingEntry'
    BY <2>1, <2>3, <2>4 DEF IInv, TypeOK, ArgsFollowPc, TargetsFollowPc, NoDanglingEntry
  <2>8. CallsHoldMutex'
    BY <2>1, <2>2, <2>4 DEF IInv, CallsHoldMutex
  <2> QED
    BY <2>5, <2>6, <2>7, <2>8 DEF IInv
<1> QED
  BY <1>1, <1>2, <1>3, <1>4, <1>5

LEMMA NextIInv == IInv /\ [Next]_vars => IInv'
<1> SUFFICES ASSUME IInv, [Next]_vars PROVE IInv'
  OBVIOUS
<1>1. CASE Next
  <2>1. PICK t \in Threads :
            \/ Step(t)
            \/ \E o \in Objects : Request(t, o) \/ AdminCalls(t, o) \/ MethodCalls(t, o)
    BY <1>1 DEF Next
  <2> QED
    BY <1>1, <2>1, BeginIInv, CallIInv, AdminIInv DEF Next, Step
<1>2. CASE UNCHANGED vars
  BY <1>2 DEF vars, IInv, TypeOK, registered, HoldsFollowPc, ArgsFollowPc, TargetsFollowPc,
     OneWriter, NoDanglingEntry, CallsHoldMutex
<1> QED
  BY <1>1, <1>2

LEMMA Invariance == Safe => []IInv
BY InitIInv, NextIInv, PTL DEF Safe

\* Every variable keeps its type, whatever the threads call and however it nests.
THEOREM Typing == Spec => []TypeOK
<1>1. IInv => TypeOK
  BY DEF IInv
<1> QED
  BY <1>1, Invariance, PTL DEF Spec

\* What a thread waits for inside an object it found by name stays in the map
\* of GetRPCObject() and UnregisterRPCObject().
THEOREM NoDanglingEntryHolds == Spec => []NoDanglingEntry
<1>1. IInv => NoDanglingEntry
  BY DEF IInv
<1> QED
  BY <1>1, Invariance, PTL DEF Spec

\* The mutex of a registered object is held by the threads inside its methods.
THEOREM ObjectLockMeansCallHolds == Spec => []ObjectLockMeansCall
<1>1. IInv => ObjectLockMeansCall
  BY DEF IInv, CallsHoldMutex, ObjectLockMeansCall, SharedHolders
<1> QED
  BY <1>1, Invariance, PTL DEF Spec

\* Whoever waits for a mutex waits for calls of an object that stays.
THEOREM MutexesMatchCallsHolds == Spec => []MutexesMatchCalls
<1>1. NoDanglingEntry /\ ObjectLockMeansCall => MutexesMatchCalls
  BY DEF MutexesMatchCalls
<1> QED
  BY <1>1, NoDanglingEntryHolds, ObjectLockMeansCallHolds, PTL

-----------------------------------------------------------------------------

LEMMA InitDirectory == Init => Directory!Init
BY DEF Init, registered, Directory!Init

\* What a user of the directory sees of the three steps that matter: the entry
\* added, the call entered and left, and the entry removed; the rest stutters.
LEMMA StepDirectory ==
    ASSUME IInv, [Next]_vars
    PROVE  [Directory!Next]_(Directory!vars)
<1> USE DEF Directory!vars, Directory!Next
<1>1. CASE UNCHANGED vars
  BY <1>1 DEF vars, registered
<1>2. ASSUME NEW t \in Threads, NEW o \in Objects,
             Request(t, o) \/ AdminCalls(t, o) \/ MethodCalls(t, o)
      PROVE  UNCHANGED <<registered, target>>
  BY <1>2 DEF Request, AdminCalls, MethodCalls, Begin, registered
<1>3. ASSUME NEW t \in Threads, Find(t) \/ ClaimObjectsLock(t) \/ UnregisterFind(t)
      PROVE  UNCHANGED <<registered, target>>
  BY <1>3 DEF Find, ClaimObjectsLock, UnregisterFind, registered
<1>4. ASSUME NEW t \in Threads, LockObject(t)
      PROVE  Directory!Begin(t, arg[t]) /\ arg[t] \in Objects
  BY <1>4 DEF LockObject, IInv, NoDanglingEntry, ArgsFollowPc, TargetsFollowPc, registered,
     Directory!Begin
<1>5. ASSUME NEW t \in Threads, EndCall(t)
      PROVE  Directory!End(t)
  BY <1>5 DEF EndCall, IInv, TargetsFollowPc, registered, Directory!End
<1>6. ASSUME NEW t \in Threads, Register(t)
      PROVE  \/ Directory!Register(arg[t]) /\ arg[t] \in Objects
             \/ UNCHANGED <<registered, target>>
  BY <1>6 DEF Register, Extend, IInv, ArgsFollowPc, registered, Directory!Register
<1>7. ASSUME NEW t \in Threads, UnregisterErase(t)
      PROVE  Directory!Unregister(arg[t]) /\ arg[t] \in Objects
  <2>1. arg[t] \in registered /\ arg[t] \in Objects
    BY <1>7 DEF UnregisterErase, IInv, NoDanglingEntry, ArgsFollowPc
  <2>2. \A u \in Threads : target[u] # arg[t]
    BY <1>7, <2>1 DEF UnregisterErase, NoReaders, SharedHolders, IInv, CallsHoldMutex
  <2> QED
    BY <1>7, <2>1, <2>2 DEF UnregisterErase, registered, Directory!Unregister
<1>8. CASE Next
  <2>1. PICK t \in Threads :
            \/ Step(t)
            \/ \E o \in Objects : Request(t, o) \/ AdminCalls(t, o) \/ MethodCalls(t, o)
    BY <1>8 DEF Next
  <2> QED
    BY <2>1, <1>2, <1>3, <1>4, <1>5, <1>6, <1>7 DEF Step
<1> QED
  BY <1>1, <1>8

\* The registry implements the atomic directory: no call enters an unregistered
\* object and none is inside an object when UnregisterRPCObject() removes it.
THEOREM ImplementsDirectoryHolds == Spec => ImplementsDirectory
<1>1. Init => Directory!Init
  BY InitDirectory
<1>2. IInv /\ [Next]_vars => [Directory!Next]_(Directory!vars)
  BY StepDirectory
<1> QED
  BY <1>1, <1>2, Invariance, PTL DEF Spec, Safe, ImplementsDirectory, Directory!Spec

-----------------------------------------------------------------------------
(* The server *)

Popping == {c \in Connections : request[c] = "pop"}

\* The accept thread holds a connection whose thread is not yet started.
HandingOver == acceptThread \in {"pushed", "counted"}

\* The queue holds a connection for each thread about to pop and for the one
\* that is about to be started.
QueueMatchesThreads ==
    Len(queue) = Cardinality(Popping) + (IF HandingOver THEN 1 ELSE 0)

\* A connection that is being handed over leaves room for its thread.
RoomForThread == HandingOver => Cardinality(Uncounted) < Cardinality(Connections)

\* The owner waits for the counter once the accept thread is over, and a server
\* that does not listen has nothing to wait for.
OwnerFollowsThreads ==
    /\ owner = "waiting" => acceptThread = "exited"
    /\ acceptThread = "none" => counter = 0

\* The inductive invariant.
HttpIInv ==
    /\ HttpTypeOK
    /\ CounterMatchesThreads
    /\ QueueMatchesThreads
    /\ RoomForThread
    /\ OwnerFollowsThreads

-----------------------------------------------------------------------------

LEMMA Finiteness ==
    /\ IsFiniteSet(Uncounted) /\ Cardinality(Uncounted) \in Nat
    /\ IsFiniteSet(Popping) /\ Cardinality(Popping) \in Nat
    /\ Cardinality(Connections) \in Nat
    /\ Cardinality(Uncounted) <= Cardinality(Connections)
    /\ Cardinality(Popping) <= Cardinality(Uncounted)
<1>1. Uncounted \subseteq Connections /\ Popping \subseteq Uncounted
  BY DEF Uncounted, Popping
<1>2. IsFiniteSet(Connections)
  BY ConnectionsAssumption
<1>3. IsFiniteSet(Uncounted) /\ Cardinality(Uncounted) <= Cardinality(Connections)
  BY <1>1, <1>2, FS_Subset
<1>4. IsFiniteSet(Popping) /\ Cardinality(Popping) <= Cardinality(Uncounted)
  BY <1>1, <1>3, FS_Subset
<1> QED
  BY <1>2, <1>3, <1>4, FS_CardinalityType

LEMMA HttpInitIInv == HttpInit => HttpIInv
<1> SUFFICES ASSUME HttpInit PROVE HttpIInv
  OBVIOUS
<1>1. Uncounted = {} /\ Popping = {}
  BY DEF HttpInit, Uncounted, Popping
<1>2. Cardinality(Uncounted) = 0 /\ Cardinality(Popping) = 0 /\ Cardinality(Connections) \in Nat
  BY <1>1, Finiteness, FS_EmptySet
<1>3. HttpTypeOK
  <2>1. queue \in Seq(Connections) /\ Len(queue) <= Cardinality(Connections)
    BY <1>2 DEF HttpInit
  <2>2. counter \in 0 .. Cardinality(Connections)
    BY <1>2 DEF HttpInit
  <2>3. request \in [Connections -> RequestPcs] /\ current \in [Connections -> Connections \cup {"none"}]
    BY DEF HttpInit, RequestPcs
  <2> QED
    BY <2>1, <2>2, <2>3 DEF HttpInit, HttpTypeOK
<1> QED
  BY <1>2, <1>3 DEF HttpInit, HttpIInv, CounterMatchesThreads, QueueMatchesThreads, HandingOver,
     RoomForThread, OwnerFollowsThreads

\* Steps of the owner: no request moves.
LEMMA OwnerIInv ==
    ASSUME HttpIInv, OwnerStep
    PROVE  HttpIInv'
<1>1. Uncounted' = Uncounted /\ Popping' = Popping /\ UNCHANGED workVars
  BY DEF OwnerStep, OwnerWaits, StartListening, StopListening, JoinAccept, WaitForDetachedThreads,
     DestroyDerived, DestroyBase, workVars, Uncounted, Popping
<1> USE <1>1 DEF HttpIInv, HttpTypeOK, CounterMatchesThreads, QueueMatchesThreads, HandingOver,
    RoomForThread, OwnerFollowsThreads, workVars, acceptVars
<1>2. CASE StartListening
  BY <1>2 DEF StartListening
<1>3. CASE StopListening
  BY <1>3 DEF StopListening
<1>4. CASE JoinAccept
  BY <1>4 DEF JoinAccept
<1>5. CASE WaitForDetachedThreads
  BY <1>5 DEF WaitForDetachedThreads
<1>6. CASE DestroyDerived
  BY <1>6 DEF DestroyDerived
<1>7. CASE DestroyBase
  BY <1>7 DEF DestroyBase
<1> QED
  BY <1>2, <1>3, <1>4, <1>5, <1>6, <1>7 DEF OwnerStep, OwnerWaits

\* Steps of the accept thread: a connection goes into the queue, its thread is
\* counted and started.
LEMMA AcceptIInv ==
    ASSUME HttpIInv, (\E c \in Connections : Accept(c)) \/ AcceptStep \/ AcceptFails
    PROVE  HttpIInv'
<1> USE DEF HttpIInv, HttpTypeOK, HandingOver, OwnerFollowsThreads, workVars
<1>1. ASSUME NEW c \in Connections, Accept(c) PROVE HttpIInv'
  <2>1. Uncounted' = Uncounted /\ Popping' = Popping
    BY <1>1 DEF Accept, Uncounted, Popping
  <2>2. Len(queue') = Len(queue) + 1 /\ queue' \in Seq(Connections)
    BY <1>1 DEF Accept
  <2>3. Cardinality(Uncounted) < Cardinality(Connections)
    <3>1. c \notin Uncounted
      BY <1>1 DEF Accept, Uncounted
    <3>2. Uncounted \subseteq Connections \ {c}
      BY <3>1 DEF Uncounted
    <3>3. /\ IsFiniteSet(Connections \ {c})
          /\ Cardinality(Connections \ {c}) = Cardinality(Connections) - 1
      BY ConnectionsAssumption, FS_RemoveElement
    <3>4. Cardinality(Uncounted) <= Cardinality(Connections \ {c})
      BY <3>2, <3>3, FS_Subset
    <3> QED
      BY <3>3, <3>4, Finiteness
  <2> QED
    BY <1>1, <2>1, <2>2, <2>3, Finiteness
       DEF Accept, CounterMatchesThreads, QueueMatchesThreads, RoomForThread
<1>2. CASE Count
  <2>1. Uncounted' = Uncounted /\ Popping' = Popping
    BY <1>2 DEF Count, Uncounted, Popping
  <2> QED
    BY <1>2, <2>1, Finiteness DEF Count, CounterMatchesThreads, QueueMatchesThreads, RoomForThread
<1>3. ASSUME NEW c \in Connections, Spawn(c) PROVE HttpIInv'
  <2>1. /\ Uncounted' = Uncounted \cup {c} /\ c \notin Uncounted
        /\ Popping' = Popping \cup {c} /\ c \notin Popping
    BY <1>3 DEF Spawn, Uncounted, Popping
  <2>2. /\ Cardinality(Uncounted') = Cardinality(Uncounted) + 1
        /\ Cardinality(Popping') = Cardinality(Popping) + 1
    BY <2>1, Finiteness, FS_AddElement
  <2> QED
    BY <1>3, <2>2, Finiteness
       DEF Spawn, CounterMatchesThreads, QueueMatchesThreads, RoomForThread, RequestPcs
<1>4. CASE AcceptLoopEnds \/ AcceptFails
  <2>1. Uncounted' = Uncounted /\ Popping' = Popping
    BY <1>4 DEF AcceptLoopEnds, AcceptFails, Uncounted, Popping
  <2> QED
    BY <1>4, <2>1
       DEF AcceptLoopEnds, AcceptFails, CounterMatchesThreads, QueueMatchesThreads, RoomForThread
<1> QED
  BY <1>1, <1>2, <1>3, <1>4 DEF AcceptStep

\* Steps of a request thread: it pops, serves its connection and counts itself down.
LEMMA RequestIInv ==
    ASSUME HttpIInv, NEW c \in Connections, RequestStep(c) \/ ReadRequest(c) \/ CloseConnection(c)
    PROVE  HttpIInv'
<1> USE DEF HttpIInv, HttpTypeOK, HandingOver, OwnerFollowsThreads, acceptVars, At, Move, RequestPcs
<1>1. CASE Pop(c)
  <2>1. Uncounted' = Uncounted /\ Popping' = Popping \ {c} /\ c \in Popping
    BY <1>1 DEF Pop, Uncounted, Popping
  <2>2. Cardinality(Popping') = Cardinality(Popping) - 1
    BY <2>1, Finiteness, FS_RemoveElement
  <2>3. /\ queue' \in Seq(Connections) /\ Len(queue') = Len(queue) - 1
        /\ Head(queue) \in Connections
    BY <1>1 DEF Pop
  <2> QED
    BY <1>1, <2>1, <2>2, <2>3, Finiteness
       DEF Pop, CounterMatchesThreads, QueueMatchesThreads, RoomForThread
<1>2. CASE HandleRequest(c) \/ ReadRequest(c) \/ CloseConnection(c) \/ NotifyAll(c)
  <2>1. Uncounted' = Uncounted /\ Popping' = Popping
    BY <1>2 DEF HandleRequest, ReadRequest, CloseConnection, NotifyAll, Uncounted, Popping
  <2> QED
    BY <1>2, <2>1 DEF HandleRequest, ReadRequest, CloseConnection, NotifyAll,
       CounterMatchesThreads, QueueMatchesThreads, RoomForThread
<1>3. CASE CountDown(c)
  <2>1. Uncounted' = Uncounted \ {c} /\ c \in Uncounted /\ Popping' = Popping
    BY <1>3 DEF CountDown, Uncounted, Popping
  <2>2. Cardinality(Uncounted') = Cardinality(Uncounted) - 1
    BY <2>1, Finiteness, FS_RemoveElement
  <2>3. Cardinality(Uncounted) # 0
    BY <2>1, Finiteness, FS_EmptySet
  <2> QED
    BY <1>3, <2>1, <2>2, <2>3, Finiteness
       DEF CountDown, CounterMatchesThreads, QueueMatchesThreads, RoomForThread
<1> QED
  BY <1>1, <1>2, <1>3 DEF RequestStep

LEMMA HttpNextIInv == HttpIInv /\ [HttpNext]_httpVars => HttpIInv'
<1> SUFFICES ASSUME HttpIInv, [HttpNext]_httpVars PROVE HttpIInv'
  OBVIOUS
<1>1. CASE UNCHANGED httpVars
  BY <1>1 DEF httpVars, HttpIInv, HttpTypeOK, CounterMatchesThreads, Uncounted, QueueMatchesThreads, Popping,
     HandingOver, RoomForThread, OwnerFollowsThreads
<1> QED
  BY <1>1, OwnerIInv, AcceptIInv, RequestIInv DEF HttpNext

LEMMA HttpInvariance == HttpSpec => []HttpIInv
BY HttpInitIInv, HttpNextIInv, PTL DEF HttpSpec

-----------------------------------------------------------------------------

\* _counter never misses a detached thread, however many run.
THEOREM Accounting == HttpSpec => []CounterMatchesThreads
<1>1. HttpIInv => CounterMatchesThreads
  BY DEF HttpIInv
<1> QED
  BY <1>1, HttpInvariance, PTL

\* Pop() never finds m_queueRequest empty.
THEOREM PopFindsConnection == HttpSpec => []QueueFeedsThreads
<1>1. HttpIInv => QueueFeedsThreads
  <2>1. Popping = {c \in Connections : request[c] = "pop"}
    BY DEF Popping
  <2> QED
    BY <2>1, Finiteness DEF HttpIInv, QueueMatchesThreads, QueueFeedsThreads
<1> QED
  BY <1>1, HttpInvariance, PTL

\* What the server counts is what its threads do.
THEOREM CountsHold == HttpSpec => []CountsMatchThreads
<1>1. CounterMatchesThreads /\ QueueFeedsThreads => CountsMatchThreads
  BY DEF CountsMatchThreads
<1> QED
  BY <1>1, Accounting, PopFindsConnection, PTL

\* When StopListening() has returned, no connection is queued or served.
THEOREM Draining == HttpSpec => []StopListeningDrains
<1>1. ASSUME HttpIInv, acceptThread = "none" PROVE Uncounted = {} /\ queue = <<>>
  <2>1. Cardinality(Uncounted) = 0 /\ Len(queue) = 0
    BY <1>1, Finiteness DEF HttpIInv, HttpTypeOK, CounterMatchesThreads, QueueMatchesThreads, HandingOver,
       OwnerFollowsThreads
  <2>2. Uncounted = {}
    BY <2>1, Finiteness, FS_EmptySet
  <2>3. queue = <<>>
    BY <1>1, <2>1 DEF HttpIInv, HttpTypeOK
  <2> QED
    BY <2>2, <2>3
<1>2. HttpIInv => StopListeningDrains
  BY <1>1 DEF StopListeningDrains
<1> QED
  BY <1>2, HttpInvariance, PTL

==============================================================================
