----------------------------- MODULE MCServerChain -----------------------------
(* Values for the runs of ServerChain, and the symmetry of the requests. *)
EXTENDS ServerChain, TLC

\* Success, a bare context error, and an error with a code of its own.
MCUserErrors == {NoError, CtxDeadlineExceeded, PeerError("unavailable")}

RequestSymmetry == Permutations(Requests)
================================================================================
