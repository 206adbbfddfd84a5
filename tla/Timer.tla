-------------------------------- MODULE Timer --------------------------------
(***************************************************************************)
(* a_util::system::Timer (src/system/timer.cpp, the timerfd build).        *)
(*                                                                         *)
(* A controller thread owns the Timer object and starts, stops, re-periods *)
(* and destroys it; the worker thread that start() spawns waits for the    *)
(* native timer, runs the callback and, for a one-shot timer, stops the    *)
(* timer itself.  The callback may call the Timer's operations too.        *)
(*                                                                         *)
(* Public operations test _is_running before they take _mutex_timer, so    *)
(* the test and the locked body are separate actions; so are the steps of  *)
(* the worker's loop, which reads _stop_flag and _native_timer without     *)
(* that mutex.  timerfd_create is taken to succeed.                        *)
(***************************************************************************)
EXTENDS Naturals, FiniteSets

CONSTANTS Controllers,    \* threads that own and control the timer
          Workers,        \* identities for the threads start() spawns
          NoThread,       \* no thread: a free mutex, an empty _thread
          Uses            \* the ways of using a Timer that are looked at

\* A use: the periods set, the operations its controllers call and those that
\* its callback calls.
Operations == {"start", "stop", "setPeriod", "destroy"}

ASSUME ThreadsAssumption ==
    /\ NoThread \notin Controllers \cup Workers
    /\ Controllers \cap Workers = {}
    /\ IsFiniteSet(Controllers) /\ IsFiniteSet(Workers)

ASSUME OperationsAssumption ==
    \A u \in Uses :
        /\ u.periods \subseteq {"periodic", "one_shot"}
        /\ u.controllerOps \subseteq Operations
        /\ u.callbackOps \subseteq Operations \ {"destroy"}

Actors == Controllers \cup Workers

VARIABLES use,            \* the use this behaviour makes of the Timer
          running,        \* _is_running
          stopFlag,       \* _stop_flag
          fdOpen,         \* _native_timer is a timer, not -1
          thread,         \* _thread: the worker it refers to
          period,         \* _timer_period_us, zero being one_shot
          timerMutex,     \* owner of _mutex_timer
          callbackMutex,  \* owner of _mutex_callback
          refs,           \* references on the Implementation
          alive,          \* the Timer object has not been destroyed
          pc,             \* where each actor is
          cont,           \* what an operation in progress returns to
          fault,          \* what the process has died of, if anything
          quiet           \* history: a controller's stop() has returned true
                          \* and the timer was not started since

timerVars == <<running, stopFlag, fdOpen, thread, period>>
lockVars == <<timerMutex, callbackMutex>>
lifeVars == <<refs, alive>>
vars == <<use, timerVars, lockVars, lifeVars, pc, cont, fault, quiet>>

OperationPcs == {"set_period", "stop_call", "stop_mutex", "stop_join", "stop_unref",
                 "start_call", "start_mutex"}

Faults == {"none", "null_thread", "terminate", "use_after_free"}

TypeOK ==
    /\ running \in BOOLEAN /\ stopFlag \in BOOLEAN /\ fdOpen \in BOOLEAN
    /\ thread \in Workers \cup {NoThread}
    /\ use \in Uses /\ period \in use.periods
    /\ timerMutex \in Actors \cup {NoThread}
    /\ callbackMutex \in Workers \cup {NoThread}
    /\ refs \in Nat /\ alive \in BOOLEAN
    /\ \A c \in Controllers : pc[c] \in OperationPcs \cup {"ready", "gone"}
    /\ \A w \in Workers : pc[w] \in OperationPcs \cup
         {"none", "loop", "lock", "read", "blocked", "check", "callback",
          "period", "exited"}
    /\ cont \in [Actors -> {"return", "restart", "exit", "destroy"}]
    /\ fault \in Faults
    /\ quiet \in BOOLEAN

Init ==
    /\ running = FALSE /\ stopFlag = FALSE /\ fdOpen = FALSE
    /\ thread = NoThread
    /\ use \in Uses
    /\ period \in use.periods
    /\ timerMutex = NoThread /\ callbackMutex = NoThread
    /\ refs = 1 /\ alive = TRUE
    /\ pc = [a \in Actors |-> IF a \in Controllers THEN "ready" ELSE "none"]
    /\ cont = [a \in Actors |-> "return"]
    /\ fault = "none"
    /\ quiet = FALSE

-----------------------------------------------------------------------------
(* Control flow *)

Goto(a, loc) == pc' = [pc EXCEPT ![a] = loc]

Die(f) ==
    /\ fault' = f
    /\ UNCHANGED <<timerVars, lockVars, lifeVars, pc, cont, quiet>>

\* A thread ends: one that _thread still refers to waits to be joined.
Exited(w) == IF thread = w THEN "exited" ELSE "none"

\* The operation of actor a is over; stopped says that a stop() returned true.
Finish(a, stopped) ==
    /\ quiet' = (quiet \/ (stopped /\ a \in Controllers))
    /\ \/ /\ cont[a] = "return"
          /\ Goto(a, IF a \in Controllers THEN "ready" ELSE "callback")
          /\ UNCHANGED <<cont, callbackMutex, alive>>
       \/ /\ cont[a] = "restart"
          /\ Goto(a, "start_call")
          /\ cont' = [cont EXCEPT ![a] = "return"]
          /\ UNCHANGED <<callbackMutex, alive>>
       \/ /\ cont[a] = "exit"
          /\ Goto(a, Exited(a))
          /\ cont' = [cont EXCEPT ![a] = "return"]
          /\ callbackMutex' = NoThread
          /\ UNCHANGED alive
       \/ /\ cont[a] = "destroy"
          /\ Goto(a, "gone")
          /\ alive' = FALSE
          /\ UNCHANGED <<cont, callbackMutex>>

\* References the end of the operation drops besides its own: ~Timer releases
\* the pointer to the Implementation.
Dropped(a) == IF cont[a] = "destroy" THEN 1 ELSE 0

-----------------------------------------------------------------------------
(* stop() *)

StopCall(a) ==
    /\ pc[a] = "stop_call"
    /\ IF running
       THEN /\ Goto(a, "stop_mutex")
            /\ UNCHANGED <<lockVars, lifeVars, cont, quiet>>
       ELSE /\ Finish(a, FALSE)
            /\ refs' = refs - Dropped(a)
            /\ UNCHANGED timerMutex
    /\ UNCHANGED <<timerVars, fault>>

\* stopTimer() up to the join; a worker stopping its own timer does not join.
StopTimer(a) ==
    /\ pc[a] = "stop_mutex"
    /\ timerMutex = NoThread
    /\ IF thread = NoThread
       THEN Die("null_thread")
       ELSE /\ stopFlag' = TRUE
            /\ fdOpen' = FALSE
            /\ running' = FALSE
            /\ IF thread = a
               THEN thread' = NoThread /\ Goto(a, "stop_unref") /\ UNCHANGED timerMutex
               ELSE timerMutex' = a /\ Goto(a, "stop_join") /\ UNCHANGED thread
            /\ UNCHANGED <<period, callbackMutex, lifeVars, cont, fault, quiet>>

\* Bug: the worker is detached instead of joined.
StopJoin_NoJoin(a) ==
    /\ pc[a] = "stop_join"
    /\ thread' = NoThread
    /\ pc' = [pc EXCEPT ![a] = "stop_unref",
                        ![thread] = IF @ = "exited" THEN "none" ELSE @]
    /\ stopFlag' = FALSE
    /\ timerMutex' = NoThread
    /\ UNCHANGED <<running, fdOpen, period, callbackMutex, lifeVars, cont, fault, quiet>>

StopJoin(a) ==
    /\ pc[a] = "stop_join"
    /\ pc[thread] = "exited"
    /\ thread' = NoThread
    /\ pc' = [pc EXCEPT ![a] = "stop_unref", ![thread] = "none"]
    /\ stopFlag' = FALSE
    /\ timerMutex' = NoThread
    /\ UNCHANGED <<running, fdOpen, period, callbackMutex, lifeVars, cont, fault, quiet>>

\* Bug: the reference of start() is dropped by ~Timer as well.
StopUnref_TwiceOnDestroy(a) ==
    /\ pc[a] = "stop_unref"
    /\ Finish(a, TRUE)
    /\ refs' = refs - 1 - 2 * Dropped(a)
    /\ UNCHANGED <<timerVars, timerMutex, fault>>

\* _impl.removeReference(): _impl is a member of the Timer.
StopUnref(a) ==
    /\ pc[a] = "stop_unref"
    /\ IF ~alive
       THEN Die("use_after_free")
       ELSE /\ Finish(a, TRUE)
            /\ refs' = refs - 1 - Dropped(a)
            /\ UNCHANGED <<timerVars, timerMutex, fault>>

-----------------------------------------------------------------------------
(* start() *)

\* Bug: a running timer is started once more.
StartCall_NoCheck(a) ==
    /\ pc[a] = "start_call"
    /\ Goto(a, "start_mutex") /\ refs' = refs + 1
    /\ UNCHANGED <<timerVars, lockVars, alive, cont, fault, quiet>>

StartCall(a) ==
    /\ pc[a] = "start_call"
    /\ IF running
       THEN Finish(a, FALSE) /\ UNCHANGED <<timerMutex, refs>>
       ELSE Goto(a, "start_mutex") /\ refs' = refs + 1
            /\ UNCHANGED <<lockVars, alive, cont, quiet>>
    /\ UNCHANGED <<timerVars, fault>>

\* Assigning _thread destroys the std::thread it held, which terminates the
\* process if that thread was not joined or detached.
StartTimer(a) ==
    /\ pc[a] = "start_mutex"
    /\ timerMutex = NoThread
    /\ IF thread # NoThread
       THEN Die("terminate")
       ELSE \E w \in Workers :
            /\ pc[w] = "none"
            /\ stopFlag' = FALSE /\ fdOpen' = TRUE /\ running' = TRUE
            /\ thread' = w
            /\ quiet' = FALSE
            /\ cont[a] = "return"
            /\ pc' = [pc EXCEPT ![w] = "loop",
                                ![a] = IF a \in Controllers THEN "ready" ELSE "callback"]
            /\ UNCHANGED <<period, lockVars, lifeVars, cont, fault>>

-----------------------------------------------------------------------------
(* Calls of the operations *)

\* setPeriod() has stored the period; a running timer is restarted.
SetPeriodCheck(a) ==
    /\ pc[a] = "set_period"
    /\ IF running
       THEN /\ Goto(a, "stop_call")
            /\ cont' = [cont EXCEPT ![a] = "restart"]
            /\ UNCHANGED <<callbackMutex, alive, quiet>>
       ELSE Finish(a, FALSE)
    /\ UNCHANGED <<timerVars, timerMutex, refs, fault>>

Call(a, op) ==
    /\ \/ /\ op = "start" /\ Goto(a, "start_call")
          /\ UNCHANGED <<period, cont>>
       \/ /\ op = "stop" /\ Goto(a, "stop_call")
          /\ UNCHANGED <<period, cont>>
       \/ /\ op = "setPeriod" /\ Goto(a, "set_period")
          /\ period' \in use.periods
          /\ UNCHANGED cont
       \/ /\ op = "destroy" /\ Goto(a, "stop_call")
          /\ cont' = [cont EXCEPT ![a] = "destroy"]
          /\ UNCHANGED period
    /\ UNCHANGED <<running, stopFlag, fdOpen, thread, lockVars, lifeVars, fault, quiet>>

ControllerCalls(c) ==
    /\ pc[c] = "ready" /\ alive
    /\ \E op \in use.controllerOps : Call(c, op)

CallbackCalls(w) ==
    /\ pc[w] = "callback"
    /\ \E op \in use.callbackOps : Call(w, op)

-----------------------------------------------------------------------------
(* ThreadFunc() *)

WorkerStays == UNCHANGED <<timerVars, timerMutex, lifeVars, fault, quiet>>

Loop(w) ==
    /\ pc[w] = "loop"
    /\ Goto(w, IF stopFlag THEN Exited(w) ELSE "lock")
    /\ WorkerStays /\ UNCHANGED <<callbackMutex, cont>>

\* Bug: the worker does not take _mutex_callback.
LockCallback_NoMutex(w) ==
    /\ pc[w] = "lock"
    /\ Goto(w, "read")
    /\ WorkerStays /\ UNCHANGED <<callbackMutex, cont>>

LockCallback(w) ==
    /\ pc[w] = "lock"
    /\ callbackMutex = NoThread
    /\ callbackMutex' = w
    /\ Goto(w, "read")
    /\ WorkerStays /\ UNCHANGED cont

\* Bug: the inner loop does not look at _stop_flag.
Read_IgnoresStop(w) ==
    /\ pc[w] = "read"
    /\ fdOpen /\ Goto(w, "blocked")
    /\ WorkerStays /\ UNCHANGED <<callbackMutex, cont>>

\* One turn of the inner loop; a read of -1 fails and the loop spins.
Read(w) ==
    /\ pc[w] = "read"
    /\ \/ stopFlag /\ Goto(w, "check")
       \/ ~stopFlag /\ fdOpen /\ Goto(w, "blocked")
    /\ WorkerStays /\ UNCHANGED <<callbackMutex, cont>>

\* The native timer expires; close() does not interrupt a read in progress.
Expire(w) ==
    /\ pc[w] = "blocked"
    /\ Goto(w, "check")
    /\ WorkerStays /\ UNCHANGED <<callbackMutex, cont>>

Check(w) ==
    /\ pc[w] = "check"
    /\ Goto(w, IF stopFlag THEN "period" ELSE "callback")
    /\ WorkerStays /\ UNCHANGED <<callbackMutex, cont>>

CallbackReturns(w) ==
    /\ pc[w] = "callback"
    /\ Goto(w, "period")
    /\ WorkerStays /\ UNCHANGED <<callbackMutex, cont>>

\* A one-shot timer stops itself and leaves the loop, still holding
\* _mutex_callback until ThreadFunc returns.
CheckPeriod(w) ==
    /\ pc[w] = "period"
    /\ IF period = "one_shot"
       THEN /\ Goto(w, "stop_call")
            /\ cont' = [cont EXCEPT ![w] = "exit"]
            /\ UNCHANGED callbackMutex
       ELSE /\ Goto(w, "loop")
            /\ callbackMutex' = NoThread
            /\ UNCHANGED cont
    /\ WorkerStays

-----------------------------------------------------------------------------

\* The next step of a would use an object that is gone: the Timer itself, or
\* its Implementation.
TouchesFreed(a) ==
    \/ ~alive /\ pc[a] \in {"set_period", "stop_call", "stop_unref", "start_call"}
    \/ refs = 0 /\ a \in Workers /\ pc[a] \notin {"none", "exited", "blocked"}

UseAfterFree(a) == TouchesFreed(a) /\ Die("use_after_free")

Operation(a) ==
    /\ ~TouchesFreed(a)
    /\ \/ SetPeriodCheck(a)
       \/ StopCall(a) \/ StopTimer(a) \/ StopJoin(a) \/ StopUnref(a)
       \/ StartCall(a) \/ StartTimer(a)

ThreadFunc(w) ==
    /\ ~TouchesFreed(w)
    /\ \/ Loop(w) \/ LockCallback(w) \/ Read(w) \/ Expire(w)
       \/ Check(w) \/ CallbackReturns(w) \/ CheckPeriod(w)

ActorStep(a) == fault = "none" /\ (Operation(a) \/ UseAfterFree(a))

WorkerStep(w) == fault = "none" /\ (ActorStep(w) \/ ThreadFunc(w))

Next ==
    /\ \/ \E a \in Actors : ActorStep(a)
       \/ \E w \in Workers : WorkerStep(w)
       \/ \E c \in Controllers : fault = "none" /\ ControllerCalls(c)
       \/ \E w \in Workers : fault = "none" /\ ~TouchesFreed(w) /\ CallbackCalls(w)
    /\ UNCHANGED use

\* Threads inside an operation or the worker's loop run on, the native timer
\* expires and callbacks return.  A callback may call operations again and
\* again, so its return is asked for strongly.
Fairness ==
    /\ \A a \in Actors : WF_vars(ActorStep(a) /\ UNCHANGED use)
    /\ \A w \in Workers : /\ WF_vars(WorkerStep(w) /\ UNCHANGED use)
                            /\ SF_vars(CallbackReturns(w) /\ UNCHANGED use)

Spec == Init /\ [][Next]_vars /\ Fairness

-----------------------------------------------------------------------------
(* Properties *)

InCallback(w) == pc[w] = "callback" \/ (pc[w] \in OperationPcs /\ cont[w] # "exit")

Live == {w \in Workers : pc[w] # "none"}

\* The plain uses of a Timer: the callback leaves it alone, and a one-shot
\* timer is started again, but left to end on its own.
Plain == /\ use.callbackOps = {}
         /\ "one_shot" \in use.periods => use.controllerOps = {"start"}

\* stop() blocks until the callback returns: once it has returned true, no
\* callback runs until the timer is started again (timer_decl.h:113).  And no
\* operation dereferences an empty _thread, drops a joinable one or uses a
\* destroyed object.
StopsCleanly ==
    Plain => /\ quiet => \A w \in Workers : ~InCallback(w)
             /\ fault = "none"

\* Two expirations never run the callback at the same time, in any use; and
\* restarting a periodic timer leaves no second worker behind: _thread is the
\* one there is.
CallbacksSerialized ==
    /\ \A v, w \in Workers : InCallback(v) /\ InCallback(w) => v = w
    /\ Plain /\ use.periods = {"periodic"} => \A w \in Live : thread = w

\* A thread that calls stop() gets out of it (timer_decl.h:113).
StopReturns ==
    \A a \in Actors : pc[a] \in {"stop_mutex", "stop_join"}
                        ~> pc[a] \notin {"stop_mutex", "stop_join"}

\* So it is with the timer driven by its owner, or by its callback alone; one
\* left running calls back again and again, and a one-shot timer ends.
TimerRunsItsCourse ==
    /\ Plain => StopReturns
    /\ Plain /\ <>[]running => []<>(\E w \in Workers : InCallback(w))
    /\ Plain /\ use.periods = {"one_shot"} => (running ~> ~running)

=============================================================================
