------------------------------- MODULE Classify -------------------------------
(*****************************************************************************)
(* Error classification: the two predicates that the circuit breaker and the *)
(* retrier share (src/v1/resilience/classify.go).                            *)
(*                                                                           *)
(* A Go error is abstracted to what the two predicates can tell apart: the   *)
(* code connect.CodeOf finds in its chain ("unknown" for an error that is    *)
(* not a connect.Error) and the set of sentinels errors.Is finds in it.      *)
(*****************************************************************************)

\* The codes of connect-go; "unrecognised" stands for any number it does not
\* name, which a peer may still put on the wire.
Codes ==
  {"canceled", "unknown", "invalid_argument", "deadline_exceeded",
   "not_found", "already_exists", "permission_denied", "resource_exhausted",
   "failed_precondition", "aborted", "out_of_range", "unimplemented",
   "internal", "unavailable", "data_loss", "unauthenticated", "unrecognised"}

\* The last is a type that errors.As finds: deadline.ErrInsufficientBudget,
\* which neither predicate looks for.
Sentinels ==
  {"breaker_open", "ctx_canceled", "ctx_deadline", "insufficient_budget"}

\* The nil error.
NoError == [code |-> "ok", is |-> {}]

\* A connect.Error with this code that wraps none of the sentinels.
PeerError(code) == [code |-> code, is |-> {}]

\* A mutated form: the rejection is dressed up as an answer of the peer.
ErrBreakerUnavailable == PeerError("unavailable")

\* resilience.ErrBreakerOpen, as the breaker returns it: not a connect.Error.
ErrBreakerOpen == [code |-> "unknown", is |-> {"breaker_open"}]

\* context.Canceled and context.DeadlineExceeded, bare.
CtxCanceled == [code |-> "unknown", is |-> {"ctx_canceled"}]
CtxDeadlineExceeded == [code |-> "unknown", is |-> {"ctx_deadline"}]

Errors == [code : Codes, is : SUBSET Sentinels] \cup {NoError}

-------------------------------------------------------------------------------

\* A mutated form: a deadline that passed is the caller's fault.
ClientFaultsWithDeadline ==
  {"invalid_argument", "not_found", "already_exists", "permission_denied",
   "unauthenticated", "failed_precondition", "out_of_range", "aborted",
   "unimplemented", "canceled", "deadline_exceeded"}

\* What the switch of CountsAsFailure answers "no" to: the caller is wrong, or
\* the caller gave up. Every other code, named or not, is a server fault.
ClientFaults ==
  {"invalid_argument", "not_found", "already_exists", "permission_denied",
   "unauthenticated", "failed_precondition", "out_of_range", "aborted",
   "unimplemented", "canceled"}

\* The dependency did not answer because this side stopped waiting: a bare
\* context error, which connect.CodeOf reports as "unknown".
CallerGaveUp(err) ==
  /\ err.code = "unknown"
  /\ err.is \cap {"ctx_canceled", "ctx_deadline"} # {}

CountsAsFailure(err) ==
  /\ err # NoError
  /\ "breaker_open" \notin err.is
  /\ ~CallerGaveUp(err)
  /\ err.code \notin ClientFaults

\* A local deadline stops the loop; a peer's deadline_exceeded does not.
LocalDeadline(err) == err.code = "unknown" /\ "ctx_deadline" \in err.is

IsRetryable(err) ==
  /\ err # NoError
  /\ "breaker_open" \notin err.is
  /\ "ctx_canceled" \notin err.is
  /\ ~LocalDeadline(err)
  /\ err.code \in {"unavailable", "resource_exhausted", "deadline_exceeded"}

-------------------------------------------------------------------------------
(* Facts about the two predicates, over every error (BreakerProofs). *)

\* The table of server faults (1—Documentation/v1/resilience.md:24-34).
FaultTable ==
  {"unavailable", "deadline_exceeded", "resource_exhausted", "internal",
   "data_loss", "unknown", "unrecognised"}

\* An error that a peer sent is counted by the breaker exactly when its code is
\* in the documented table of server faults (classify.go:57-92).
CountsTheTable ==
  \A code \in Codes : CountsAsFailure(PeerError(code)) <=> code \in FaultTable

\* Retrier and breaker agree: whatever is retried is counted as well, so no
\* dependency is hammered with retries that its breaker cannot see
\* (classify.go:5-9, 97-99).
RetriedIsCounted ==
  \A err \in Errors : IsRetryable(err) => CountsAsFailure(err)

\* What this process produced itself is inert: a rejection by a breaker,
\* however wrapped, and the bare end of a context are neither counted, which
\* would be self-reinforcing, nor retried (classify.go:42-55, 105-123).
OwnErrorsInert ==
  \A err \in Errors :
    "breaker_open" \in err.is \/ CallerGaveUp(err)
      => ~CountsAsFailure(err) /\ ~IsRetryable(err)
===============================================================================
