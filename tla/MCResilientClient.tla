--------------------------- MODULE MCResilientClient ---------------------------
(* Small sets for the runs of ResilientClient. *)
EXTENDS ResilientClient, TLC

MCOutcomes == {NoError, PeerError("unavailable")}
MCDeadlines == {3, Unlimited}
MCFiniteDeadlines == {4}

CallerSymmetry == Permutations(Callers)
================================================================================
