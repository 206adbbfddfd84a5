------------------------------- MODULE MCTimer -------------------------------
(***************************************************************************)
(* Uses of a Timer for the runs of Timer.                                  *)
(***************************************************************************)
EXTENDS Timer

Use(ps, controller, callback) ==
    [periods |-> ps, controllerOps |-> controller, callbackOps |-> callback]

\* A periodic timer driven by its owner, a one-shot timer started again after it
\* has ended, and every operation from the owner and from the callback.
AllUses ==
    {Use({"periodic"}, Operations, {}),
     Use({"one_shot"}, {"start"}, {}),
     Use({"periodic", "one_shot"}, Operations, Operations \ {"destroy"})}

\* A one-shot timer that its owner stops.
OneShotStopped == {Use({"one_shot"}, {"start", "stop"}, {})}
=============================================================================
