------------------------------- MODULE RWLock -------------------------------
(***************************************************************************)
(* What a_util::concurrency::shared_mutex promises its callers.  The       *)
(* SharedMutex module is shown to implement this specification.            *)
(***************************************************************************)
EXTENDS LockHolds

VARIABLE mode   \* the hold of each thread

vars == mode

Init == mode = FreeLock

Share(t) ==
    /\ mode[t] = "out"
    /\ CanShare(mode)
    /\ mode' = Hold(mode, t, "shared")

Claim(t) ==
    /\ mode[t] = "out"
    /\ CanClaim(mode)
    /\ mode' = Hold(mode, t, IF NoReaders(mode) THEN "exclusive" ELSE "claimed")

Enter(t) ==
    /\ mode[t] = "claimed"
    /\ NoReaders(mode)
    /\ mode' = Hold(mode, t, "exclusive")

Release(t) ==
    /\ mode[t] \in {"shared", "exclusive"}
    /\ mode' = Hold(mode, t, "out")

Next == \E t \in Threads : Share(t) \/ Claim(t) \/ Enter(t) \/ Release(t)

\* Holders leave, and a writer that has claimed the lock enters it once the
\* readers are gone; nothing obliges a thread to ask for the lock.
Fairness == \A t \in Threads : WF_vars(Enter(t)) /\ WF_vars(Release(t))

Safe == Init /\ [][Next]_vars

Spec == Safe /\ Fairness

=============================================================================
