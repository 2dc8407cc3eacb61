------------------------------ MODULE MCLifecycle ------------------------------
(* Small sets for the runs of Lifecycle. *)
EXTENDS Lifecycle

\* Unknown; too short, which New refuses; the shortest that fits; ample.
MCGracePeriods ==
  {0, PreStopDelay + DrainTimeout, PreStopDelay + DrainTimeout + 1,
   PreStopDelay + DrainTimeout + Slack + 2}
================================================================================
