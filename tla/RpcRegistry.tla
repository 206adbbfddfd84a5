---------------------------- MODULE RpcRegistry ----------------------------
(***************************************************************************)
(* rpc::cRPCObjectsRegistry (src/pkg_rpc/rpc_object_registry.cpp) as the   *)
(* request threads of the HTTP server and the server's owner use it.       *)
(*                                                                         *)
(* m_oObjectsLock and the mutex of every registered object are             *)
(* a_util::concurrency::shared_mutex objects, kept here as lock functions  *)
(* of LockHolds.  A step runs from one blocking lock operation to the      *)
(* next; a release is part of the step before it, which no other thread    *)
(* can tell from a release a little later.                                 *)
(***************************************************************************)
EXTENDS LockHolds

CONSTANTS Objects,    \* RPC object names
          NoObject,   \* no object
          Admins,     \* threads that register and unregister objects
          NestedUses  \* the sets of registry operations methods may call

ASSUME ObjectsAssumption ==
    /\ NoObject \notin Objects
    /\ Admins \subseteq Threads
    /\ NestedUses \subseteq SUBSET {"register", "unregister"}

VARIABLES nested,       \* what methods call in this behaviour
          objectsLock,  \* m_oObjectsLock
          objects,      \* m_oRPCObjects: the mutex of each registered object
          pc,           \* where each thread is
          arg,          \* the name its registry operation is about
          target        \* the object whose method it executes

vars == <<nested, objectsLock, objects, pc, arg, target>>

registered == DOMAIN objects

Locks == [Threads -> Holds]

Locations == {"idle", "get", "get_object", "calling", "register",
              "register_drain", "unregister", "unregister_drain", "unregister_object"}

TypeOK ==
    /\ nested \in NestedUses
    /\ objectsLock \in Locks
    /\ registered \subseteq Objects
    /\ \A o \in registered : objects[o] \in Locks
    /\ pc \in [Threads -> Locations]
    /\ arg \in [Threads -> Objects \cup {NoObject}]
    /\ target \in [Threads -> Objects \cup {NoObject}]

Init ==
    /\ nested \in NestedUses
    /\ objectsLock = FreeLock
    /\ objects = [o \in {} |-> FreeLock]
    /\ pc = [t \in Threads |-> "idle"]
    /\ arg = [t \in Threads |-> NoObject]
    /\ target = [t \in Threads |-> NoObject]

-----------------------------------------------------------------------------

Goto(t, loc) == pc' = [pc EXCEPT ![t] = loc]

\* The operation is over: back to the method that called it, if any.
Return(t) ==
    /\ Goto(t, IF target[t] = NoObject THEN "idle" ELSE "calling")
    /\ arg' = [arg EXCEPT ![t] = NoObject]

Begin(t, loc, o) ==
    /\ Goto(t, loc)
    /\ arg' = [arg EXCEPT ![t] = o]
    /\ UNCHANGED <<objectsLock, objects, target>>

-----------------------------------------------------------------------------
(* GetRPCObject() and the locked object it returns *)

Request(t, o) == pc[t] = "idle" /\ t \notin Admins /\ Begin(t, "get", o)

\* Bug: the objects lock is released before the object's mutex is locked.
Find_ReleasesEarly(t) ==
    /\ pc[t] = "get"
    /\ CanShare(objectsLock)
    /\ IF arg[t] \in registered
       THEN Goto(t, "get_object") /\ UNCHANGED <<objectsLock, arg>>
       ELSE Return(t) /\ UNCHANGED objectsLock
    /\ UNCHANGED <<objects, target>>

Find(t) ==
    /\ pc[t] = "get"
    /\ CanShare(objectsLock)
    /\ IF arg[t] \in registered
       THEN /\ objectsLock' = Hold(objectsLock, t, "shared")
            /\ Goto(t, "get_object")
            /\ UNCHANGED arg
       ELSE Return(t) /\ UNCHANGED objectsLock
    /\ UNCHANGED <<objects, target>>

\* Bug: the object's mutex is not locked.
LockObject(t) ==
    /\ pc[t] = "get_object"
    /\ CanShare(objects[arg[t]])
    /\ objects' = [objects EXCEPT ![arg[t]] = Hold(@, t, "shared")]
    /\ objectsLock' = Hold(objectsLock, t, "out")
    /\ target' = [target EXCEPT ![t] = arg[t]]
    /\ arg' = [arg EXCEPT ![t] = NoObject]
    /\ Goto(t, "calling")

\* Bug: a request that ends keeps the object's mutex.
EndCall_KeepsLock(t) ==
    /\ pc[t] = "calling"
    /\ target' = [target EXCEPT ![t] = NoObject]
    /\ Goto(t, "idle")
    /\ UNCHANGED <<objectsLock, objects, arg>>

\* HandleCall() has returned and the locked object is destroyed.
EndCall(t) ==
    /\ pc[t] = "calling"
    /\ objects' = [objects EXCEPT ![target[t]] = Hold(@, t, "out")]
    /\ target' = [target EXCEPT ![t] = NoObject]
    /\ Goto(t, "idle")
    /\ UNCHANGED <<objectsLock, arg>>

-----------------------------------------------------------------------------
(* RegisterRPCObject(), UnregisterRPCObject() *)

AdminCalls(t, o) ==
    /\ pc[t] = "idle" /\ t \in Admins
    /\ Begin(t, "register", o) \/ Begin(t, "unregister", o)

\* A method may not unregister the object it belongs to: the code warns of it.
MethodCalls(t, o) ==
    /\ pc[t] = "calling"
    /\ \/ "register" \in nested /\ Begin(t, "register", o)
       \/ "unregister" \in nested /\ o # target[t] /\ Begin(t, "unregister", o)

ClaimObjectsLock(t) ==
    /\ pc[t] \in {"register", "unregister"}
    /\ CanClaim(objectsLock)
    /\ objectsLock' = Hold(objectsLock, t, "claimed")
    /\ Goto(t, IF pc[t] = "register" THEN "register_drain" ELSE "unregister_drain")
    /\ UNCHANGED <<objects, arg, target>>

Extend(o, lock) == [p \in registered \cup {o} |-> IF p = o THEN lock ELSE objects[p]]

\* Bug: the entry's pointer to a mutex stays null.
Register_NoMutex(t) ==
    /\ pc[t] = "register_drain"
    /\ NoReaders(objectsLock)
    /\ objects' = IF arg[t] \in registered THEN objects ELSE Extend(arg[t], <<>>)
    /\ objectsLock' = Hold(objectsLock, t, "out")
    /\ Return(t)
    /\ UNCHANGED target

Register(t) ==
    /\ pc[t] = "register_drain"
    /\ NoReaders(objectsLock)
    /\ objects' = IF arg[t] \in registered THEN objects ELSE Extend(arg[t], FreeLock)
    /\ objectsLock' = Hold(objectsLock, t, "out")
    /\ Return(t)
    /\ UNCHANGED target

\* m_oObjectsLock stays locked while the calls inside the object finish.
UnregisterFind(t) ==
    /\ pc[t] = "unregister_drain"
    /\ NoReaders(objectsLock)
    /\ IF arg[t] \in registered
       THEN /\ CanClaim(objects[arg[t]])
            /\ objectsLock' = Hold(objectsLock, t, "exclusive")
            /\ objects' = [objects EXCEPT ![arg[t]] = Hold(@, t, "claimed")]
            /\ Goto(t, "unregister_object")
            /\ UNCHANGED arg
       ELSE /\ objectsLock' = Hold(objectsLock, t, "out")
            /\ Return(t)
            /\ UNCHANGED objects
    /\ UNCHANGED target

\* Bug: the object is erased without a look at its mutex.
UnregisterErase_NoWait(t) ==
    /\ pc[t] = "unregister_object"
    /\ objects' = [o \in registered \ {arg[t]} |-> objects[o]]
    /\ objectsLock' = Hold(objectsLock, t, "out")
    /\ Return(t)
    /\ UNCHANGED target

UnregisterErase(t) ==
    /\ pc[t] = "unregister_object"
    /\ NoReaders(objects[arg[t]])
    /\ objects' = [o \in registered \ {arg[t]} |-> objects[o]]
    /\ objectsLock' = Hold(objectsLock, t, "out")
    /\ Return(t)
    /\ UNCHANGED target

-----------------------------------------------------------------------------

\* The steps inside the registry, and the return of a method.
Step(t) ==
    \/ Find(t) \/ LockObject(t) \/ EndCall(t)
    \/ ClaimObjectsLock(t) \/ Register(t) \/ UnregisterFind(t) \/ UnregisterErase(t)

Next ==
    /\ \E t \in Threads :
         \/ Step(t)
         \/ \E o \in Objects : Request(t, o) \/ AdminCalls(t, o) \/ MethodCalls(t, o)
    /\ UNCHANGED nested

Safe == Init /\ [][Next]_vars

\* Lock operations go on when they can and methods return; a method that calls
\* the registry again and again still returns in the end.
Spec == Safe /\ \A t \in Threads : /\ WF_vars(Step(t) /\ UNCHANGED nested)
                                   /\ SF_vars(EndCall(t) /\ UNCHANGED nested)

-----------------------------------------------------------------------------
(* Properties *)

\* Iterators and mutex pointers taken from the map stay valid while a thread
\* waits for an object's mutex: the object is not erased meanwhile.
NoDanglingEntry ==
    \A t \in Threads :
        pc[t] \in {"get_object", "unregister_object"} => arg[t] \in registered

\* A registered object's mutex is held by exactly the threads inside its
\* methods, so waiting for it means waiting for them.
ObjectLockMeansCall ==
    \A o \in registered : SharedHolders(objects[o]) = {t \in Threads : target[t] = o}

\* Both hold: whoever waits for a mutex waits for calls of an object that stays.
MutexesMatchCalls == NoDanglingEntry /\ ObjectLockMeansCall

\* To its users the registry is the atomic directory: no call enters an
\* unregistered object, and none is inside an object being unregistered.
Directory == INSTANCE RpcDirectory WITH calling <- target

ImplementsDirectory == Directory!Spec

\* A thread that unregisters an object waits for the calls inside it and then
\* comes back, when methods leave the registry alone.  A method that registers
\* another object waits for the lock that its own unregistration holds.
UnregisterReturns ==
    nested = {} =>
      \A t \in Threads :
        pc[t] \in {"unregister", "unregister_drain", "unregister_object"}
          ~> pc[t] \notin {"unregister", "unregister_drain", "unregister_object"}

=============================================================================
