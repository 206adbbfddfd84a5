----------------------------- MODULE Semaphore -----------------------------
(***************************************************************************)
(* a_util::concurrency::semaphore (detail/semaphore_impl.h).  Every        *)
(* operation runs under the mutex up to the next wait of the condition     *)
(* variable.  Time is abstract: a timed wait may expire at any moment.     *)
(***************************************************************************)
EXTENDS Naturals, FiniteSets

CONSTANTS Users,        \* the threads that use the semaphore
          StartCount,   \* constructor argument
          MaxCount      \* bound: notify is not called beyond it

ASSUME CountsAssumption ==
    MaxCount \in Nat /\ StartCount \in 0 .. MaxCount

VARIABLES count,     \* _lock_count
          sleepers,  \* threads blocked on _cv
          expired,   \* timed waiters whose deadline has passed
          call       \* "idle", in wait(), or in wait_for()

semVars == <<count, sleepers, expired, call>>

SemTypeOK ==
    /\ count \in 0 .. MaxCount
    /\ sleepers \subseteq Users
    /\ expired \subseteq Users
    /\ call \in [Users -> {"idle", "wait", "wait_for"}]

SemInit ==
    /\ count = StartCount
    /\ sleepers = {}
    /\ expired = {}
    /\ call = [t \in Users |-> "idle"]

-----------------------------------------------------------------------------

\* Bug: only a semaphore that was empty wakes a waiter, and only one.
Notify_OneWhenEmpty(t) ==
    /\ call[t] = "idle"
    /\ count < MaxCount
    /\ count' = count + 1
    /\ \/ count = 0 /\ \E s \in sleepers : sleepers' = sleepers \ {s}
       \/ (count > 0 \/ sleepers = {}) /\ UNCHANGED sleepers
    /\ UNCHANGED <<expired, call>>

Notify(t) ==
    /\ call[t] = "idle"
    /\ count < MaxCount
    /\ count' = count + 1
    /\ sleepers' = {}
    /\ UNCHANGED <<expired, call>>

\* The thread calls op, or its wait inside op has returned.
Running(t, op) == call[t] = "idle" \/ (call[t] = op /\ t \notin sleepers)

Sleep(t, op) ==
    /\ sleepers' = sleepers \cup {t}
    /\ call' = [call EXCEPT ![t] = op]
    /\ UNCHANGED <<count, expired>>

Take(t) ==
    /\ count' = count - 1
    /\ call' = [call EXCEPT ![t] = "idle"]
    /\ expired' = expired \ {t}
    /\ UNCHANGED sleepers

\* Bug: an if in place of the while.
Wait_NoRecheck(t) ==
    \/ call[t] = "idle" /\ count = 0 /\ Sleep(t, "wait")
    \/ call[t] = "idle" /\ count > 0 /\ Take(t)
    \/ call[t] = "wait" /\ t \notin sleepers /\ Take(t)

Wait(t) ==
    /\ Running(t, "wait")
    /\ IF count = 0 THEN Sleep(t, "wait") ELSE Take(t)

TryWait(t) ==
    /\ call[t] = "idle"
    /\ count > 0
    /\ Take(t)

Reset(t) ==
    /\ call[t] = "idle"
    /\ count' = 0
    /\ UNCHANGED <<sleepers, expired, call>>

GiveUp(t) ==
    /\ call' = [call EXCEPT ![t] = "idle"]
    /\ expired' = expired \ {t}
    /\ UNCHANGED <<count, sleepers>>

\* Bug: a timeout is forgotten when the loop runs again.
WaitFor_ForgetsTimeout(t) ==
    /\ Running(t, "wait_for")
    /\ IF count = 0 THEN Sleep(t, "wait_for") ELSE Take(t)

\* wait_for(0): the deadline is past as the call begins.
ZeroTimeout(t) == IF call[t] = "idle" THEN {t} ELSE {}

\* With the deadline past, wait_time <= 0 or cv_status::timeout ends the loop,
\* but the count is read once more: a notify that came first wins.
WaitFor(t) ==
    /\ Running(t, "wait_for")
    /\ \/ count > 0 /\ Take(t)
       \/ count = 0 /\ t \notin expired /\ Sleep(t, "wait_for")
       \/ count = 0 /\ t \in ZeroTimeout(t) \cup expired /\ GiveUp(t)

\* The deadline passes; a sleeping thread is woken but has to get the mutex.
DeadlinePasses(t) ==
    /\ call[t] = "wait_for" /\ t \notin expired
    /\ sleepers' = sleepers \ {t}
    /\ expired' = expired \cup {t}
    /\ UNCHANGED <<count, call>>

WakeForNothing(t) ==
    /\ t \in sleepers
    /\ sleepers' = sleepers \ {t}
    /\ UNCHANGED <<count, expired, call>>

-----------------------------------------------------------------------------

GoOn(t) == call[t] # "idle" /\ (Wait(t) \/ WaitFor(t))

SemNext == \E t \in Users :
    \/ Notify(t) \/ Wait(t) \/ TryWait(t) \/ Reset(t)
    \/ WaitFor(t) \/ DeadlinePasses(t) \/ WakeForNothing(t)

\* An awake waiter gets the mutex and runs on, and deadlines pass.
SemSpec == /\ SemInit /\ [][SemNext]_semVars
           /\ \A t \in Users : WF_semVars(GoOn(t)) /\ WF_semVars(DeadlinePasses(t))

-----------------------------------------------------------------------------
(* Properties *)

\* No thread sleeps while there is a token: every notify reaches all sleepers.
NoSleeperWithTokens == sleepers # {} => count = 0

\* A thread in wait() returns once tokens stop running out; wait_for() always
\* returns, however often it is woken for nothing.
WaitsReturn ==
    \A t \in Users : /\ <>[](count > 0) => []<>(call[t] # "wait")
                     /\ call[t] = "wait_for" ~> call[t] = "idle"

=============================================================================
