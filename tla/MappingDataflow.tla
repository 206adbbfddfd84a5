--------------------------- MODULE MappingDataflow ---------------------------
(***************************************************************************)
(* The mapping engine at run time, with the environment's threads inside   *)
(* it at once: one thread per source delivers samples                      *)
(* (Source::onSampleReceived), one ticks the periodic trigger              *)
(* (PeriodicTrigger::onTimer), readers call getCurrentData and a control   *)
(* thread starts, stops and resets.  Targets are mapped and stay so.       *)
(*                                                                         *)
(* Each target has a shared_mutex, here by its specification (LockHolds):  *)
(* sources SHARE it, as they write elements of their own, and whoever      *)
(* sends or reads the buffer takes it EXCLUSIVEly.  A target has two       *)
(* elements per source that writes it, so that a torn buffer shows.        *)
(* The environment does not call one source from two threads at once, and  *)
(* clients do not reset while a callback runs: nothing in the engine       *)
(* orders those.                                                           *)
(***************************************************************************)
EXTENDS LockHolds, FiniteSetsExt

CONSTANTS Targets,        \* numbers: std::set orders Target* by address
          Sources,
          Readers,        \* threads that call getCurrentData
          Timer,          \* the thread and the trigger of the timer
          Writes,         \* the targets each source has elements in
          Sends,          \* the targets of each trigger
          TimeTargets,    \* targets with a simulation_time element
          MaxCalls        \* calls of each thread, to bound the model

\* The triggers: a signal trigger goes by the name of its source.
Transmitters == DOMAIN Sends

ASSUME TargetsAssumption == Targets \subseteq Nat
ASSUME DataflowThreadsAssumption == Threads = Sources \cup Readers \cup {Timer}
ASSUME WritesAssumption == Writes \in [Sources -> SUBSET Targets]
ASSUME SendsAssumption == /\ DOMAIN Sends \subseteq Sources \cup {Timer}
                          /\ \A n \in DOMAIN Sends : Sends[n] \subseteq Targets
ASSUME TimeAssumption == TimeTargets \subseteq Targets
ASSUME MaxCallsAssumption == MaxCalls \in Nat \ {0}

VARIABLES
  pc,         \* where each thread is
  todo,       \* targets left in the loop a thread is in; the least is next
  part,       \* the element a source is writing
  calls,      \* calls each thread has made, for a source also its sample number
  copy,       \* what a thread has copied of the buffer so far
  lock,       \* _buffer_mutex of each target
  buf,        \* _buffer of each target: two elements per source
  counter,    \* _counter of each target, and the element that shows it
  time,       \* its simulation_time element
  on,         \* the running flag of each trigger
  running,    \* _running of the engine
  switching,  \* triggers start or stop has yet to tell
  written,    \* the last sample each source has written completely
  seen        \* the last buffer each thread sent or read

threadVars == <<pc, todo, part, calls, copy>>
dataVars == <<buf, counter, time>>
controlVars == <<on, running, switching>>
historyVars == <<written, seen>>
vars == <<threadVars, lock, dataVars, controlVars, historyVars>>

Places == {"idle", "lock", "write", "unlock", "fire", "claim", "enter",
           "update", "copy first", "copy second", "release"}

Values == [Sources -> 0..MaxCalls]
Copies == [counter : Nat, first : Values, second : Values]

TypeOK ==
  /\ pc \in [Threads -> Places]
  /\ todo \in [Threads -> SUBSET Targets]
  /\ part \in [Sources -> {1, 2}]
  /\ calls \in [Threads -> 0..MaxCalls]
  /\ copy \in [Threads -> Copies]
  /\ lock \in [Targets -> [Threads -> Holds]]
  /\ buf \in [Targets -> [{1, 2} -> Values]]
  /\ counter \in [Targets -> Nat] /\ time \in [Targets -> Nat]
  /\ on \in [Transmitters -> BOOLEAN] /\ running \in BOOLEAN
  /\ switching \subseteq Transmitters
  /\ written \in Values
  /\ \A th \in Threads : seen[th] = <<>> \/ seen[th] \in Targets \X Copies

Zero == [s \in Sources |-> 0]
NoCopy == [counter |-> 0, first |-> Zero, second |-> Zero]

Init ==
  /\ pc = [th \in Threads |-> "idle"]
  /\ todo = [th \in Threads |-> {}]
  /\ part = [s \in Sources |-> 1]
  /\ calls = [th \in Threads |-> 0]
  /\ copy = [th \in Threads |-> NoCopy]
  /\ lock = [t \in Targets |-> FreeLock]
  /\ buf = [t \in Targets |-> [e \in {1, 2} |-> Zero]]
  /\ counter = [t \in Targets |-> 0]
  /\ time = [t \in Targets |-> 0]
  /\ on = [n \in Transmitters |-> FALSE]
  /\ running = FALSE
  /\ switching = {}
  /\ written = Zero
  /\ seen = [th \in Threads |-> <<>>]

-----------------------------------------------------------------------------
(* Loops over a set of targets.                                            *)

Call(th) ==
  /\ pc[th] = "idle" /\ calls[th] < MaxCalls
  /\ calls' = [calls EXCEPT ![th] = @ + 1]

\* std::set<Target*> is iterated in ascending order; sources share targets in
\* that order, whatever the order of the assignments.
NextTarget_AsAssigned(th) == IF th = CHOOSE s \in Sources : TRUE THEN Max(todo[th])
                                                                 ELSE Min(todo[th])

NextTarget(th) == Min(todo[th])

GoTo(th, place, targets) ==
  /\ pc' = [pc EXCEPT ![th] = place]
  /\ todo' = [todo EXCEPT ![th] = targets]

\* The next target of the same loop or, after the last, the next loop.
Advance(th, place, after, targets) ==
  LET left == todo[th] \ {NextTarget(th)} IN
  IF left # {} THEN GoTo(th, place, left) ELSE GoTo(th, after, targets)

LockAs(th, t, h) == lock' = [lock EXCEPT ![t] = Hold(@, th, h)]

-----------------------------------------------------------------------------
(* Source::onSampleReceived.                                               *)

Receive(s) ==
  /\ Call(s)
  /\ GoTo(s, IF Writes[s] = {} THEN "fire" ELSE "lock", Writes[s])
  /\ UNCHANGED <<part, copy, lock, dataVars, controlVars, historyVars>>

\* aquireWriteLock is lock_shared.
ShareTarget_Barges(s) ==
  /\ pc[s] = "lock"
  /\ LockAs(s, NextTarget(s), "shared")
  /\ Advance(s, "lock", "write", Writes[s])
  /\ UNCHANGED <<part, calls, copy, dataVars, controlVars, historyVars>>

ShareTarget(s) ==
  /\ pc[s] = "lock"
  /\ CanShare(lock[NextTarget(s)])
  /\ LockAs(s, NextTarget(s), "shared")
  /\ Advance(s, "lock", "write", Writes[s])
  /\ UNCHANGED <<part, calls, copy, dataVars, controlVars, historyVars>>

\* Each assignment is written into all targets it has elements in.
WriteElement_NoRestart(s) ==
  /\ pc[s] = "write"
  /\ buf' = [buf EXCEPT ![NextTarget(s)][part[s]][s] = calls[s]]
  /\ IF todo[s] # {NextTarget(s)}
     THEN /\ GoTo(s, "write", todo[s] \ {NextTarget(s)})
          /\ UNCHANGED <<part, written>>
     ELSE /\ GoTo(s, IF part[s] = 1 THEN "write" ELSE "unlock", Writes[s])
          /\ part' = [part EXCEPT ![s] = @ + 1]
          /\ written' = IF part[s] = 1 THEN written ELSE [written EXCEPT ![s] = calls[s]]
  /\ UNCHANGED <<calls, copy, lock, counter, time, controlVars, seen>>

WriteElement(s) ==
  /\ pc[s] = "write"
  /\ buf' = [buf EXCEPT ![NextTarget(s)][part[s]][s] = calls[s]]
  /\ IF todo[s] # {NextTarget(s)}
     THEN /\ GoTo(s, "write", todo[s] \ {NextTarget(s)})
          /\ UNCHANGED <<part, written>>
     ELSE /\ GoTo(s, IF part[s] = 1 THEN "write" ELSE "unlock", Writes[s])
          /\ part' = [part EXCEPT ![s] = 3 - @]
          /\ written' = IF part[s] = 1 THEN written ELSE [written EXCEPT ![s] = calls[s]]
  /\ UNCHANGED <<calls, copy, lock, counter, time, controlVars, seen>>

UnlockTarget(s) ==
  /\ pc[s] = "unlock"
  /\ LockAs(s, NextTarget(s), "out")
  /\ Advance(s, "unlock", "fire", {})
  /\ UNCHANGED <<part, calls, copy, dataVars, controlVars, historyVars>>

\* A trigger looks at its running flag once, then sends each of its targets.
Transmit(th) ==
  /\ IF th \in Transmitters /\ on[th] /\ Sends[th] # {}
     THEN GoTo(th, "claim", Sends[th])
     ELSE GoTo(th, "idle", {})
  /\ UNCHANGED <<part, copy, lock, dataVars, controlVars, historyVars>>

FireSignal(s) == pc[s] = "fire" /\ Transmit(s) /\ UNCHANGED calls

OnTimer == Call(Timer) /\ Transmit(Timer)

-----------------------------------------------------------------------------
(* Sending and reading a target, under its lock taken exclusively          *)
(* (aquireReadLock is lock).                                               *)

\* getCurrentData sets the simulation_time elements before it takes the lock.
GetCurrentData(r, t) ==
  /\ Call(r)
  /\ GoTo(r, "claim", {t})
  /\ time' = [time EXCEPT ![t] = @ + (IF t \in TimeTargets THEN 1 ELSE 0)]
  /\ UNCHANGED <<part, copy, lock, buf, counter, controlVars, historyVars>>

AfterLock(th) == IF th \in Readers THEN "copy first" ELSE "update"

ClaimTarget_Shared(th) ==
  LET t == NextTarget(th) IN
  /\ pc[th] = "claim"
  /\ CanShare(lock[t])
  /\ LockAs(th, t, "shared")
  /\ GoTo(th, AfterLock(th), todo[th])
  /\ UNCHANGED <<part, calls, copy, dataVars, controlVars, historyVars>>

ClaimTarget(th) ==
  LET t == NextTarget(th) IN
  /\ pc[th] = "claim"
  /\ CanClaim(lock[t])
  /\ IF NoReaders(lock[t])
     THEN LockAs(th, t, "exclusive") /\ GoTo(th, AfterLock(th), todo[th])
     ELSE LockAs(th, t, "claimed") /\ GoTo(th, "enter", todo[th])
  /\ UNCHANGED <<part, calls, copy, dataVars, controlVars, historyVars>>

EnterTarget(th) ==
  LET t == NextTarget(th) IN
  /\ pc[th] = "enter"
  /\ NoReaders(lock[t])
  /\ LockAs(th, t, "exclusive")
  /\ GoTo(th, AfterLock(th), todo[th])
  /\ UNCHANGED <<part, calls, copy, dataVars, controlVars, historyVars>>

\* updateTriggerFunctionValues, then getBufferRef, which sets simulation_time.
UpdateFunctions_NoCount(th) ==
  LET t == NextTarget(th) IN
  /\ pc[th] = "update"
  /\ time' = [time EXCEPT ![t] = @ + (IF t \in TimeTargets THEN 1 ELSE 0)]
  /\ GoTo(th, "copy first", todo[th])
  /\ UNCHANGED <<part, calls, copy, lock, buf, counter, controlVars, historyVars>>

UpdateFunctions(th) ==
  LET t == NextTarget(th) IN
  /\ pc[th] = "update"
  /\ counter' = [counter EXCEPT ![t] = @ + 1]
  /\ time' = [time EXCEPT ![t] = @ + (IF t \in TimeTargets THEN 1 ELSE 0)]
  /\ GoTo(th, "copy first", todo[th])
  /\ UNCHANGED <<part, calls, copy, lock, buf, controlVars, historyVars>>

\* memory::copy of getCurrentBuffer, or sendTarget at work on the buffer itself.
CopyFirst(th) ==
  /\ pc[th] = "copy first"
  /\ copy' = [copy EXCEPT ![th].first = buf[NextTarget(th)][1],
                          ![th].counter = counter[NextTarget(th)]]
  /\ GoTo(th, "copy second", todo[th])
  /\ UNCHANGED <<part, calls, lock, dataVars, controlVars, historyVars>>

CopySecond(th) ==
  /\ pc[th] = "copy second"
  /\ seen' = [seen EXCEPT ![th] =
                <<NextTarget(th), [copy[th] EXCEPT !.second = buf[NextTarget(th)][2]]>>]
  /\ copy' = [copy EXCEPT ![th] = NoCopy]
  /\ GoTo(th, "release", todo[th])
  /\ UNCHANGED <<part, calls, lock, dataVars, controlVars, written>>

ReleaseTarget(th) ==
  /\ pc[th] = "release"
  /\ LockAs(th, NextTarget(th), "out")
  /\ Advance(th, "claim", "idle", {})
  /\ UNCHANGED <<part, calls, copy, dataVars, controlVars, historyVars>>

-----------------------------------------------------------------------------
(* The control thread.                                                     *)

\* start and stop set _running and then tell the triggers one by one.
Switch ==
  /\ switching = {}
  /\ running' = ~running
  /\ switching' = Transmitters
  /\ UNCHANGED <<threadVars, lock, dataVars, on, historyVars>>

SwitchTrigger(n) ==
  /\ n \in switching
  /\ on' = [on EXCEPT ![n] = running]
  /\ switching' = switching \ {n}
  /\ UNCHANGED <<threadVars, lock, dataVars, running, historyVars>>

Reset ==
  /\ ~running /\ switching = {}
  /\ \A th \in Threads : pc[th] = "idle"
  /\ buf' = [t \in Targets |-> [e \in {1, 2} |-> Zero]]
  /\ counter' = [t \in Targets |-> 0]
  /\ written' = Zero
  /\ UNCHANGED <<threadVars, lock, time, controlVars, seen>>

-----------------------------------------------------------------------------
\* The steps of a thread that has been called.
Run(th) ==
  \/ /\ th \in Sources
     /\ ShareTarget(th) \/ WriteElement(th) \/ UnlockTarget(th) \/ FireSignal(th)
  \/ ClaimTarget(th) \/ EnterTarget(th) \/ UpdateFunctions(th)
  \/ CopyFirst(th) \/ CopySecond(th) \/ ReleaseTarget(th)

Next ==
  \/ \E s \in Sources : Receive(s)
  \/ OnTimer
  \/ \E r \in Readers, t \in Targets : GetCurrentData(r, t)
  \/ \E th \in Threads : Run(th)
  \/ Switch
  \/ \E n \in Transmitters : SwitchTrigger(n)
  \/ Reset

Safe == Init /\ [][Next]_vars

\* A thread inside the engine goes on as long as it can; nothing obliges the
\* environment to call.  As calls are bounded, a lock that is wanted is free
\* for good in the end, so that weak fairness is enough to get it.
Spec == Safe /\ \A th \in Threads : WF_vars(Run(th))

-----------------------------------------------------------------------------
(* Properties.                                                             *)

\* While a thread holds a target exclusively, to send or to read its buffer, no
\* other thread changes the buffer under it (the point of the buffer lock).
BufferStable ==
  [][\A t \in Targets, th \in Threads :
       (lock[t][th] = "exclusive" /\ <<buf[t], counter[t], time[t]>>'
                                       # <<buf[t], counter[t], time[t]>>)
         => pc'[th] # pc[th]]_vars

\* Every buffer sent or read holds whole samples of each source, the same in all
\* targets a source writes, and its trigger counter counts the buffers sent.
Snapshot == INSTANCE TargetSnapshot WITH
  Viewers <- Threads,
  Samples <- 1..MaxCalls,
  value <- [t \in Targets |->
              [s \in Sources |-> IF t \in Writes[s] THEN written[s] ELSE 0]],
  count <- [t \in Targets |->
              counter[t] - Cardinality({th \in Threads \ Readers :
                             /\ pc[th] \in {"copy first", "copy second"}
                             /\ NextTarget(th) = t})]

ImplementsSnapshot == Snapshot!Spec

\* Every callback and every getCurrentData returns, so that the engine falls
\* silent when it is no longer called: the locks of several targets are shared in
\* one order, and no thread waits for another for ever, although a waiting
\* exclusive user keeps newcomers out.
CallsReturn == <>[](\A th \in Threads : pc[th] = "idle")
=============================================================================
