---------------------------- MODULE RpcDirectory ----------------------------
(***************************************************************************)
(* What the RPC object registry promises: names are registered and         *)
(* unregistered one at a time, a call reaches a registered object only,    *)
(* and an object is unregistered only when no call is inside it.           *)
(***************************************************************************)
CONSTANTS Threads, Objects, NoObject

VARIABLES registered,  \* the registered objects
          calling      \* the object whose method each thread executes

vars == <<registered, calling>>

Init ==
    /\ registered = {}
    /\ calling = [t \in Threads |-> NoObject]

Register(o) ==
    /\ o \notin registered
    /\ registered' = registered \cup {o}
    /\ UNCHANGED calling

Unregister(o) ==
    /\ o \in registered
    /\ \A t \in Threads : calling[t] # o
    /\ registered' = registered \ {o}
    /\ UNCHANGED calling

Begin(t, o) ==
    /\ calling[t] = NoObject
    /\ o \in registered
    /\ calling' = [calling EXCEPT ![t] = o]
    /\ UNCHANGED registered

End(t) ==
    /\ calling[t] # NoObject
    /\ calling' = [calling EXCEPT ![t] = NoObject]
    /\ UNCHANGED registered

Next ==
    \/ \E o \in Objects : Register(o) \/ Unregister(o)
    \/ \E t \in Threads : End(t) \/ \E o \in Objects : Begin(t, o)

Spec == Init /\ [][Next]_vars

=============================================================================
