------------------------------ MODULE ServerChain ------------------------------
(*****************************************************************************)
(* Inbound requests in the server's interceptor chain                        *)
(* (src/v1/interceptor/chain.go:68-113 and the interceptors it orders), with *)
(* the load shedder (src/v1/resilience/shed/shed.go) and the metrics'        *)
(* cardinality guard (src/v1/telemetry/cardinality.go).                      *)
(*                                                                           *)
(* The goroutine of a request is a stack of interceptors: it goes down layer *)
(* by layer to the handler and comes back up with a result, or unwinds with  *)
(* a panic.  What an interceptor does after next returns is skipped by a     *)
(* panic; what it defers is not.  Requests interleave layer by layer, and    *)
(* inside the shedder between its two atomic operations.                     *)
(*****************************************************************************)
EXTENDS Classify, Integers, Sequences, FiniteSets

CONSTANTS
  Requests,
  MaxInFlight,         \* shed.Config.MaxInFlight, where it is set
  UserErrors,          \* what the service's own code returns: its handlers,
                       \* its authenticator, its interceptors
  Threshold, HardCap   \* of the cardinality guard

ASSUME ChainAssumption ==
  /\ IsFiniteSet(Requests)
  /\ MaxInFlight \in Nat \ {0}
  /\ UserErrors \subseteq Errors
  /\ Threshold \in Nat \ {0} /\ HardCap \in Nat /\ Threshold <= HardCap

VARIABLES
  way,       \* per request: which way it moves through the chain
  at,        \* per request: the layer it is about to run, 0 outside
  answer,    \* per request: the error it goes up with
  inFlight,  \* Shedder.inFlight
  active,    \* the gauge rpc.server.active_requests
  series,    \* CardinalityGuard.series, of rpc.server.duration
  reported,  \* CardinalityGuard.reported
  stopped,   \* CardinalityGuard.stopped
  \* Auxiliary: no action reads these five.
  answeredBy,  \* per request: the layer that its answer comes from, or "none"
  panickedIn,  \* per request: the layer a panic began in; "abort"; or "none"
  measured,    \* per request: the code its duration was recorded under
  warnings,    \* how often onExceed was called
  seen         \* every series ever observed

vars == <<way, at, answer, inFlight, active, series, reported, stopped,
          answeredBy, panickedIn, measured, warnings, seen>>

guardVars == <<series, reported, stopped, warnings, seen>>

\* Mutated forms: recovery outside of what reports; shedding outside metrics;
\* authentication outside shedding.
ChainRecoveryOutside ==
  <<"guard", "recovery", "tracing", "logging", "metrics", "shed", "timeout",
    "auth", "validation", "extra">>
ChainShedOutside ==
  <<"guard", "tracing", "logging", "shed", "metrics", "timeout", "auth",
    "validation", "extra", "recovery">>
ChainAuthOutside ==
  <<"guard", "tracing", "logging", "metrics", "auth", "shed", "timeout",
    "validation", "extra", "recovery">>

\* ServerChain.Interceptors, with every optional layer configured.
Chain ==
  <<"guard", "tracing", "logging", "metrics", "shed", "timeout", "auth",
    "validation", "extra", "recovery">>

Handler == Len(Chain) + 1
Position(layer) == CHOOSE i \in DOMAIN Chain : Chain[i] = layer
In(r, layer) == at[r] \in DOMAIN Chain /\ Chain[at[r]] = layer

-------------------------------------------------------------------------------
(* Moving through the stack. *)

Descend(r) ==
  /\ at' = [at EXCEPT ![r] = @ + 1]
  /\ UNCHANGED <<way, answer, answeredBy, panickedIn>>

\* To the layer above, with the answer of this layer.
Answer(r, error, layer) ==
  /\ at' = [at EXCEPT ![r] = @ - 1]
  /\ way' = [way EXCEPT ![r] = IF at[r] = 1 THEN "over" ELSE "up"]
  /\ answer' = [answer EXCEPT ![r] = error]
  /\ answeredBy' = [answeredBy EXCEPT ![r] = layer]
  /\ UNCHANGED panickedIn

\* To the layer above, with what came from below.
Return(r) == Answer(r, answer[r], answeredBy[r])

\* A panic, or net/http's ErrAbortHandler, begins in this layer.
Throw(r, kind, layer) ==
  /\ at' = [at EXCEPT ![r] = @ - 1]
  /\ way' = [way EXCEPT ![r] = kind]
  /\ panickedIn' = [panickedIn EXCEPT ![r] = layer]
  /\ UNCHANGED <<answer, answeredBy>>

Arrive(r) ==
  /\ way[r] = "new"
  /\ way' = [way EXCEPT ![r] = "down"]
  /\ at' = [at EXCEPT ![r] = 1]
  /\ UNCHANGED <<answer, answeredBy, inFlight, active, panickedIn, measured,
                 guardVars>>

\* These only prepare the context on the way down.
PassDown(r) ==
  /\ way[r] = "down"
  /\ \E layer \in {"guard", "tracing", "logging", "timeout", "recovery"} :
       In(r, layer)
  /\ Descend(r)
  /\ UNCHANGED <<inFlight, active, measured, guardVars>>

\* And these only look at the result on the way up.
PassUp(r) ==
  /\ way[r] = "up"
  /\ \E layer \in {"guard", "tracing", "logging", "timeout", "auth",
                   "validation", "extra", "recovery"} : In(r, layer)
  /\ Return(r)
  /\ UNCHANGED <<inFlight, active, measured, guardVars>>

-------------------------------------------------------------------------------
(* The layers that decide. *)

\* Shedder.Admit: the increment, and the comparison of what it returned.  The
\* service passes no queuedFor, so the latency limit never rejects.
Admit(r) ==
  /\ way[r] = "down" /\ In(r, "shed")
  /\ inFlight' = inFlight + 1
  /\ IF inFlight' > MaxInFlight
     THEN way' = [way EXCEPT ![r] = "rejected"]
          /\ UNCHANGED <<at, answer, answeredBy, panickedIn>>
     ELSE Descend(r)
  /\ UNCHANGED <<active, measured, guardVars>>

\* A mutated form: the rejected request's increment stays.
RolledBackNot == inFlight

RolledBack == inFlight - 1

Rollback(r) ==
  /\ way[r] = "rejected"
  /\ inFlight' = RolledBack
  /\ Answer(r, PeerError("resource_exhausted"), "shed")
  /\ UNCHANGED <<active, measured, guardVars>>

\* A mutated form: an error without a code leaks out as it is.
AuthErrorBare(error) == error

\* An error keeps its code, unless it has none.
AuthError(error) ==
  IF error.code = "unknown" THEN [error EXCEPT !.code = "unauthenticated"]
                            ELSE error

\* The authenticator and the validator are the service's own code: they may
\* reject, and they may panic.  A public procedure is not authenticated, and
\* an authenticator that finds no principal has rejected the request.
Authenticate(r) ==
  /\ way[r] = "down" /\ In(r, "auth")
  /\ \/ Descend(r)
     \/ \E error \in UserErrors \ {NoError} :
          Answer(r, AuthError(error), "auth")
     \/ Answer(r, PeerError("unauthenticated"), "auth")
     \/ Throw(r, "panic", "auth")
  /\ UNCHANGED <<inFlight, active, measured, guardVars>>

Validate(r) ==
  /\ way[r] = "down" /\ In(r, "validation")
  /\ \/ Descend(r)
     \/ Answer(r, PeerError("invalid_argument"), "validation")
     \/ Throw(r, "panic", "validation")
  /\ UNCHANGED <<inFlight, active, measured, guardVars>>

\* So are Extra's interceptors: on the way down they may answer themselves, on
\* the way up put their own answer in the place of what came from below.
Extra(r) ==
  /\ In(r, "extra")
  /\ \/ way[r] = "down" /\ Descend(r)
     \/ /\ way[r] \in {"down", "up"}
        /\ \/ \E error \in UserErrors : Answer(r, error, "extra")
           \/ Throw(r, "panic", "extra")
  /\ UNCHANGED <<inFlight, active, measured, guardVars>>

Handle(r) ==
  /\ way[r] = "down" /\ at[r] = Handler
  /\ \/ \E error \in UserErrors : Answer(r, error, "handler")
     \/ Throw(r, "panic", "handler") \/ Throw(r, "abort", "abort")
  /\ UNCHANGED <<inFlight, active, measured, guardVars>>

-------------------------------------------------------------------------------
(* The layers that count. *)

MetricsDown(r) ==
  /\ way[r] = "down" /\ In(r, "metrics")
  /\ active' = active + 1
  /\ Descend(r)
  /\ UNCHANGED <<inFlight, measured, guardVars>>

\* A mutated form: it reports again and again.
ExceedsEveryTime(observed) == Cardinality(observed) >= Threshold

Exceeds(observed) == Cardinality(observed) >= Threshold /\ ~reported

\* A mutated form: the key set may reach the hard cap.
FullOffByOne(observed) == Cardinality(observed) > HardCap

Full(observed) == Cardinality(observed) >= HardCap

\* CardinalityGuard.Observe, under g.mu: one series per code here.
Observe(code) ==
  IF stopped
  THEN UNCHANGED <<series, reported, stopped, warnings>>
  ELSE LET observed == series \cup {code}
       IN  /\ reported' = (reported \/ Exceeds(observed))
           /\ warnings' = warnings + IF Exceeds(observed) THEN 1 ELSE 0
           /\ stopped' = Full(observed)
           /\ series' = IF stopped' THEN {} ELSE observed

\* codeOf: what connect.CodeOf finds, "ok" for nil.
CodeOf(error) == error.code

\* After next returns, and not in a defer.
MetricsUp(r) ==
  /\ way[r] = "up" /\ In(r, "metrics")
  /\ active' = active - 1
  /\ Observe(CodeOf(answer[r]))
  /\ seen' = seen \cup {CodeOf(answer[r])}
  /\ measured' = [measured EXCEPT ![r] = CodeOf(answer[r])]
  /\ Return(r)
  /\ UNCHANGED inFlight

\* The shedder's done, on the way up.
ReleaseUp(r) ==
  /\ way[r] = "up" /\ In(r, "shed")
  /\ inFlight' = inFlight - 1
  /\ Return(r)
  /\ UNCHANGED <<active, measured, guardVars>>

-------------------------------------------------------------------------------
(* Panics. *)

\* A mutated form: the sentinel is swallowed with everything else.
RecoveredAbortToo(r) == way[r] \in {"panic", "abort"}

\* http.ErrAbortHandler is thrown again.
Recovered(r) == way[r] = "panic"

\* The panic becomes an Internal error.
Recover(r, layer) ==
  /\ way[r] \in {"panic", "abort"} /\ In(r, layer)
  /\ Recovered(r)
  /\ Answer(r, PeerError("internal"), layer)
  /\ UNCHANGED <<inFlight, active, measured, guardVars>>

Recovery(r) == Recover(r, "recovery")
PanicGuard(r) == Recover(r, "guard")

\* Mutated form: done is called after next, and not deferred.
ReleasedNot(r) == inFlight

\* defer done()
Released(r) == IF In(r, "shed") THEN inFlight - 1 ELSE inFlight

\* Every other layer is unwound: only the shedder has a defer that matters.
\* Above the guard, net/http aborts the connection.
Unwind(r) ==
  /\ way[r] \in {"panic", "abort"}
  /\ (In(r, "guard") \/ In(r, "recovery")) => ~Recovered(r)
  /\ inFlight' = Released(r)
  /\ at' = [at EXCEPT ![r] = @ - 1]
  /\ way' = [way EXCEPT ![r] = IF at[r] = 1 THEN "cut" ELSE @]
  /\ UNCHANGED <<answer, answeredBy, active, panickedIn, measured, guardVars>>

\* external: the code that the caller is answered.  Above the chain connect
\* gives a bare context error the code that it stands for.
OnWire(error) ==
  IF ~CallerGaveUp(error) THEN error.code
  ELSE IF "ctx_canceled" \in error.is THEN "canceled" ELSE "deadline_exceeded"

-------------------------------------------------------------------------------

Init ==
  /\ way = [r \in Requests |-> "new"]
  /\ at = [r \in Requests |-> 0]
  /\ answer = [r \in Requests |-> NoError]
  /\ answeredBy = [r \in Requests |-> "none"]
  /\ inFlight = 0
  /\ active = 0
  /\ series = {} /\ reported = FALSE /\ stopped = FALSE
  /\ panickedIn = [r \in Requests |-> "none"]
  /\ measured = [r \in Requests |-> "none"]
  /\ warnings = 0
  /\ seen = {}

\* Every request has been dealt with.
AllOver == (\A r \in Requests : way[r] \in {"over", "cut"}) /\ UNCHANGED vars

Next ==
  \/ \E r \in Requests :
       \/ Arrive(r) \/ PassDown(r) \/ PassUp(r) \/ Admit(r) \/ Rollback(r)
       \/ Authenticate(r) \/ Validate(r) \/ Extra(r) \/ Handle(r)
       \/ MetricsDown(r) \/ MetricsUp(r) \/ ReleaseUp(r)
       \/ Recovery(r) \/ PanicGuard(r) \/ Unwind(r)
  \/ AllOver

Spec == Init /\ [][Next]_vars

-------------------------------------------------------------------------------
(* Properties. *)

AllCodes == Codes \cup {"ok"}

\* Type invariant.  The gauge has no upper bound but the requests ever taken:
\* a panic that unwinds through Metrics leaves it too high.
TypeOK ==
  /\ way \in [Requests -> {"new", "down", "up", "rejected", "panic", "abort",
                           "over", "cut"}]
  /\ at \in [Requests -> 0 .. Handler]
  /\ answer \in [Requests -> Errors]
  /\ answeredBy \in [Requests -> {"none", "handler"} \cup
                                 {Chain[i] : i \in DOMAIN Chain}]
  /\ inFlight \in 0 .. Cardinality(Requests)
  /\ active \in 0 .. Cardinality(Requests)
  /\ series \subseteq AllCodes /\ Cardinality(series) < HardCap
  /\ {reported, stopped} \subseteq BOOLEAN
  /\ panickedIn \in [Requests -> {"none", "handler", "abort"} \cup
                                 {Chain[i] : i \in DOMAIN Chain}]
  /\ measured \in [Requests -> AllCodes \cup {"none"}]
  /\ warnings \in Nat
  /\ seen \subseteq AllCodes

\* The requests whose stack has passed Admit and not yet run its done.
Admitted ==
  {r \in Requests :
     \/ way[r] = "down" /\ at[r] > Position("shed")
     \/ way[r] \in {"up", "panic", "abort"} /\ at[r] >= Position("shed")}

Rejecting == {r \in Requests : way[r] = "rejected"}

\* A flood stops at the shedder: no more than MaxInFlight requests are ever
\* authenticating, being validated or being handled, however their increments
\* interleave (chain.go:49-51, shed.go:69-73).
FloodStopsAtShed ==
  Cardinality({r \in Requests : way[r] = "down" /\ at[r] >= Position("auth")})
    <= MaxInFlight

\* The shedder's counter is the requests inside it and the increments about to
\* be rolled back: no panic, abort or rejection keeps a slot (loadshed.go:43,
\* shed.go:73-84).
SlotsReturned ==
  inFlight = Cardinality(Admitted) + Cardinality(Rejecting)

\* A request is shed only when MaxInFlight others are inside, or are on their
\* way out after a rejection of their own (shed.go:73).
ShedOnlyAtCap ==
  [][\A r \in Requests :
       way[r] = "down" /\ way'[r] = "rejected"
         => Cardinality(Admitted \cup Rejecting) >= MaxInFlight]_vars

\* Telemetry is truthful: an answer of the handler, of a user interceptor, of a
\* rejecting layer, and that to a panic of the handler, was measured under the
\* code that the caller is answered; all but a bare context error, which is
\* measured as "unknown" while connect answers canceled or deadline_exceeded
\* (chain.go:43-61, metrics.go:70-73, 85-90).
OutcomesMeasured ==
  \A r \in Requests :
    way[r] = "over" /\ panickedIn[r] \in {"none", "handler"} =>
      \/ measured[r] = OnWire(answer[r])
      \/ /\ measured[r] = "unknown" /\ CallerGaveUp(answer[r])
         /\ answeredBy[r] \in {"handler", "extra"}

\* A deliberate abort of the connection reaches net/http, and no other panic
\* does, wherever it began: its caller is answered "internal", unless a user
\* interceptor put its own answer there (recovery.go:43-49, 94-104).
OnlyAbortsEscape ==
  \A r \in Requests :
    /\ way[r] = "cut" => panickedIn[r] = "abort"
    /\ way[r] = "over" => panickedIn[r] # "abort"
    /\ way[r] = "over" /\ panickedIn[r] # "none" =>
         answer[r] = PeerError("internal") \/ answeredBy[r] = "extra"

\* What this server answers is put down to whom it should be by the breaker
\* and the retrier of a caller that uses the same framework, which see the code
\* on the wire: shedding is counted and retried, a panic is counted and not
\* retried, a malformed request is neither, and nor is one that was not
\* authenticated, unless the authenticator's error has a code that says that
\* authentication itself is down (loadshed.go:20-25, auth.go:69-77,
\* validate.go:38-40, classify.go:97-99).
BlameIsRight ==
  \A r \in Requests :
    LET received == PeerError(OnWire(answer[r]))
    IN  way[r] = "over" =>
          /\ answeredBy[r] = "shed" =>
               CountsAsFailure(received) /\ IsRetryable(received)
          /\ answeredBy[r] \in {"recovery", "guard"} =>
               CountsAsFailure(received) /\ ~IsRetryable(received)
          /\ answeredBy[r] = "validation" =>
               ~CountsAsFailure(received) /\ ~IsRetryable(received)
          /\ answeredBy[r] = "auth"
               /\ (CountsAsFailure(received) \/ IsRetryable(received)) =>
               answer[r] \in UserErrors /\ CodeOf(answer[r]) # "unknown"

\* The guard warns of a metric exactly once, at its Threshold-th series,
\* whether or not it has stopped tracking by then (cardinality.go:110-123).
WarnsOnce == warnings = IF Cardinality(seen) >= Threshold THEN 1 ELSE 0

\* "A user interceptor that panics is caught by Recovery" (chain.go:78-80): so
\* the request is measured, under the code that its caller is answered.
UserPanicsMeasured ==
  \A r \in Requests :
    way[r] = "over" /\ panickedIn[r] = "extra" =>
      measured[r] = OnWire(answer[r])
================================================================================
