------------------------------- MODULE MCBreaker -------------------------------
(* Model values and small sets for the runs of Breaker.                      *)
EXTENDS Breaker, TLC

\* One success, one server fault, one client fault.
MCOutcomes == {NoError, PeerError("unavailable"), PeerError("not_found")}

\* Success and server fault only, for the larger instances.
MCTwoOutcomes == {NoError, PeerError("unavailable")}

CallerSymmetry == Permutations(Callers)
================================================================================
