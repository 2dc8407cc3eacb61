---------------------------- MODULE ResilientClient ----------------------------
(*****************************************************************************)
(* One outbound procedure of a service: the deadline budget, the retry loop, *)
(* the shared retry budget and the circuit breaker around the transport, in  *)
(* the nesting src/v1/interceptor/resilience.go fixes.  It composes Breaker  *)
(* (its actions are conjoined with the loop's) with Retrier.Do               *)
(* (src/v1/resilience/retry/retry.go:220-300), deadline.Derive               *)
(* (src/v1/resilience/deadline/deadline.go:64-83) and the budget's counters. *)
(*                                                                           *)
(* Budget.Allow is one step here; RetryBudget has its three.                 *)
(*****************************************************************************)
EXTENDS Breaker

CONSTANTS
  RetryEnabled,           \* Resilience.Retrier is not nil
  MaxAttempts,            \* cfg.MaxAttempts: attempts after the first
  Base, MaxBackoff,       \* cfg.Base, cfg.MaxBackoff
  BudgetNum, BudgetDen,   \* budget cfg.Ratio as a fraction
  Floor,                  \* budget MinPerSecond * Window.Seconds()
  Buffer, Minimum,        \* deadline.Budget
  Deadlines,              \* time a call may have: ticks, or Unlimited
  MayPanic,               \* may next() panic?
  MayCancel,              \* may the caller cancel its context?
  LastCall,               \* bound: no logical call begins after this time
  MaxCalls                \* bound: logical calls in a behaviour

Unlimited == 1000000      \* a context without a deadline

\* retry.Config.Validate
ValidRetry ==
  /\ MaxAttempts >= 0
  /\ MaxAttempts > 0 => Base > 0
  /\ MaxBackoff > 0 => MaxBackoff >= Base

\* A connect.Error of code DeadlineExceeded around ErrInsufficientBudget.
InsufficientBudget ==
  [code |-> "deadline_exceeded", is |-> {"insufficient_budget"}]

ASSUME ClientAssumption ==
  /\ {RetryEnabled, MayPanic, MayCancel} \subseteq BOOLEAN
  /\ {MaxAttempts, Base, MaxBackoff} \subseteq Int
  /\ ValidRetry
  /\ {BudgetNum, Floor, Buffer, Minimum, LastCall, MaxCalls} \subseteq Nat
  /\ BudgetDen \in Nat \ {0}
  /\ Deadlines \subseteq Nat
  \* Derive runs outside next(), and its type does not cross the wire.
  /\ InsufficientBudget \notin Outcomes

VARIABLES
  safe,        \* Policy.Retryable: the proto declares the procedure safe
  pc,          \* per caller: where its logical call is
  attempt,     \* Do's loop variable
  lastErr,     \* Do's lastErr
  deadline,    \* the deadline of the caller's context
  canceled,    \* has the caller canceled that context?
  attemptEnd,  \* the deadline of the context the attempt runs under
  wakeAt,      \* when the backoff timer fires
  requests,    \* the budget's counters
  retries,
  \* Auxiliary: no action reads these four, but for the bound on calls.
  calls,       \* logical calls begun
  sent,        \* per caller: requests its current call put on the wire
  charged,     \* per caller: retries its current call charged to the budget
  result       \* per caller: what its latest finished call returned

clientVars == <<safe, pc, attempt, lastErr, deadline, canceled, attemptEnd,
                wakeAt, requests, retries, calls, sent, charged, result>>

allVars == <<vars, clientVars>>

Min2(a, b) == IF a < b THEN a ELSE b

CtxDone(c) == canceled[c] \/ now >= deadline[c]

\* connect.NewError(CodeDeadlineExceeded, ...) around the context's error.
SleepError(c) ==
  [code |-> "deadline_exceeded",
   is |-> IF canceled[c] THEN {"ctx_canceled"} ELSE {"ctx_deadline"}]

\* What the transport makes of the end of an attempt's context.
AttemptTimedOut == [code |-> "deadline_exceeded", is |-> {"ctx_deadline"}]
AttemptCanceled == [code |-> "canceled", is |-> {"ctx_canceled"}]

Goto(c, label) == pc' = [pc EXCEPT ![c] = label]

\* Do, or the interceptor without it, returns err to the caller.
Return(c, err) ==
  /\ Goto(c, "idle")
  /\ result' = [result EXCEPT ![c] = err]
  /\ lastErr' = [lastErr EXCEPT ![c] = NoError]
  /\ attempt' = [attempt EXCEPT ![c] = 0]
  /\ deadline' = [deadline EXCEPT ![c] = Unlimited]
  /\ canceled' = [canceled EXCEPT ![c] = FALSE]
  /\ attemptEnd' = [attemptEnd EXCEPT ![c] = Unlimited]
  /\ wakeAt' = [wakeAt EXCEPT ![c] = 0]
  /\ sent' = [sent EXCEPT ![c] = 0]
  /\ charged' = [charged EXCEPT ![c] = 0]
  /\ UNCHANGED <<safe, requests, retries, calls>>

-------------------------------------------------------------------------------

\* A caller makes a logical call.  Without a Retrier it goes straight to the
\* breaker, under its own context; a procedure not declared safe goes to its
\* single Derive; any other is counted in the budget first, once.
Call(c) ==
  /\ pc[c] = "idle" /\ now <= LastCall
  /\ calls < MaxCalls /\ calls' = calls + 1
  /\ \E d \in Deadlines :
       deadline' = [deadline EXCEPT ![c] = IF d = Unlimited THEN d ELSE now + d]
  /\ attemptEnd' = [attemptEnd EXCEPT ![c] = deadline'[c]]
  /\ Goto(c, IF RetryEnabled THEN "derive" ELSE "admit")
  /\ requests' = IF RetryEnabled /\ safe THEN Add(requests, now) ELSE requests
  /\ result' = [result EXCEPT ![c] = NoError]
  /\ UNCHANGED <<vars, safe, attempt, lastErr, canceled, wakeAt, retries, sent,
                 charged>>

\* Mutated forms: the attempt runs under the caller's own deadline, or under a
\* context that is detached from it.
NarrowedNot(c) == deadline[c]
NarrowedDetached(c) == Unlimited

\* No deadline passes through; otherwise the attempt gets what is left less
\* the buffer.
Narrowed(c) ==
  IF deadline[c] = Unlimited THEN Unlimited ELSE deadline[c] - Buffer

EnoughLeft(c) == deadline[c] = Unlimited \/ Narrowed(c) - now >= Minimum

Derive(c) ==
  /\ pc[c] = "derive" /\ EnoughLeft(c)
  /\ attemptEnd' = [attemptEnd EXCEPT ![c] = Narrowed(c)]
  /\ Goto(c, "admit")
  /\ UNCHANGED <<vars, safe, calls, attempt, lastErr, deadline, canceled,
                 wakeAt, requests, retries, sent, charged, result>>

\* A mutated form: the budget's own error hides why the call was failing.
OutOfTimeAlways(c) == InsufficientBudget

\* Too little is left.  The earlier error, when there is one, says more.
OutOfTime(c) == IF lastErr[c] # NoError THEN lastErr[c] ELSE InsufficientBudget

DeriveRefused(c) ==
  /\ pc[c] = "derive" /\ ~EnoughLeft(c)
  /\ Return(c, OutOfTime(c))
  /\ UNCHANGED vars

\* The breaker admits the attempt and it goes to the transport.
Send(c) ==
  /\ pc[c] = "admit"
  /\ AllowClosed(c) \/ AllowFirstProbe(c) \/ AllowProbe(c)
  /\ Goto(c, "sending")
  /\ sent' = [sent EXCEPT ![c] = @ + 1]
  /\ UNCHANGED <<safe, calls, attempt, lastErr, deadline, canceled, attemptEnd,
                 wakeAt, requests, retries, charged, result>>

\* A mutated form: one attempt too many.
AttemptsLeftOffByOne(c) == attempt[c] <= MaxAttempts

AttemptsLeft(c) == attempt[c] < MaxAttempts

\* A mutated form: a procedure nobody declared safe is retried too.
GoesRoundUnsafe(c, err) == RetryEnabled /\ IsRetryable(err) /\ AttemptsLeft(c)

GoesRound(c, err) ==
  RetryEnabled /\ safe /\ IsRetryable(err) /\ AttemptsLeft(c)

\* What follows an attempt that came back with err.
AfterAttempt(c, err) ==
  IF GoesRound(c, err)
  THEN /\ Goto(c, "budget")
       /\ lastErr' = [lastErr EXCEPT ![c] = err]
       /\ attempt' = [attempt EXCEPT ![c] = @ + 1]
       /\ UNCHANGED <<safe, calls, deadline, canceled, attemptEnd, wakeAt,
                      requests, retries, sent, charged, result>>
  ELSE Return(c, err)

\* The breaker rejects the attempt: nothing was sent, nothing is reported.
Rejected(c) ==
  /\ pc[c] = "admit"
  /\ Reject(c)
  /\ AfterAttempt(c, ErrBreakerOpen)

\* The dependency answers.  It need not: nothing in this process makes it.
Answered(c) ==
  /\ pc[c] = "sending"
  /\ \E err \in Answers : Done(c, err) /\ AfterAttempt(c, err)

\* The context of the attempt ends first, and the transport returns its error
\* under the code connect gives it.
ContextEnds(c) ==
  /\ pc[c] = "sending"
  /\ \E err \in
       (IF canceled[c] THEN {AttemptCanceled} ELSE {})
       \cup (IF now >= attemptEnd[c] THEN {AttemptTimedOut} ELSE {}) :
         Done(c, err) /\ AfterAttempt(c, err)

\* Budget.Allow, then the backoff with full jitter: a wait of less than
\* Base * 2^(attempt-1), which MaxBackoff caps.
RetryAllowed(c) ==
  LET backoff == Min2(Base * 2^(attempt[c] - 1),
                      IF MaxBackoff > 0 THEN MaxBackoff ELSE Unlimited)
  IN  /\ pc[c] = "budget"
      /\ Sum(retries, now) * BudgetDen
           < Sum(requests, now) * BudgetNum + Floor * BudgetDen
      /\ retries' = Add(retries, now)
      /\ charged' = [charged EXCEPT ![c] = @ + 1]
      /\ \E wait \in 0 .. backoff - 1 :
           wakeAt' = [wakeAt EXCEPT ![c] = now + wait]
      /\ Goto(c, "sleeping")
      /\ UNCHANGED <<vars, safe, calls, attempt, lastErr, deadline, canceled,
                     attemptEnd, requests, sent, result>>

RetryRefused(c) ==
  /\ pc[c] = "budget"
  /\ Sum(retries, now) * BudgetDen
       >= Sum(requests, now) * BudgetNum + Floor * BudgetDen
  /\ Return(c, lastErr[c])
  /\ UNCHANGED vars

Wake(c) ==
  /\ pc[c] = "sleeping" /\ now >= wakeAt[c]
  /\ Goto(c, "derive")
  /\ UNCHANGED <<vars, safe, calls, attempt, lastErr, deadline, canceled,
                 attemptEnd, wakeAt, requests, retries, sent, charged, result>>

\* The context ends during the backoff.  When the timer has fired too, select
\* may take either branch.
SleepCut(c) ==
  /\ pc[c] = "sleeping" /\ CtxDone(c)
  /\ Return(c, SleepError(c))
  /\ UNCHANGED vars

\* A context keeps its first error: after its deadline, canceling it changes
\* nothing.
Cancel(c) ==
  /\ MayCancel /\ pc[c] # "idle" /\ ~canceled[c] /\ now < deadline[c]
  /\ canceled' = [canceled EXCEPT ![c] = TRUE]
  /\ UNCHANGED <<vars, safe, calls, pc, attempt, lastErr, deadline, attemptEnd,
                 wakeAt, requests, retries, sent, charged, result>>

\* next() panics: done is not deferred, so the breaker never hears of it
\* (resilience.go:74-75).  The panic unwinds Do and the caller.
Panic(c) ==
  /\ MayPanic /\ pc[c] = "sending"
  /\ Finish(c)
  /\ probes' = probes \ {c}
  /\ Return(c, PeerError("internal"))
  /\ UNCHANGED <<now, state, buckets, openedAt, halfOpen, consecutiveOK,
                 goodProbes>>

\* A transport honours the deadline of the context it is given.
ClientTick ==
  /\ \A c \in Callers : pc[c] = "sending" => now < attemptEnd[c]
  /\ Tick
  /\ UNCHANGED clientVars

ClientHorizon == now = MaxNow /\ UNCHANGED allVars

ClientInit ==
  /\ Init
  /\ safe \in BOOLEAN
  /\ pc = [c \in Callers |-> "idle"]
  /\ attempt = [c \in Callers |-> 0]
  /\ lastErr = [c \in Callers |-> NoError]
  /\ deadline = [c \in Callers |-> Unlimited]
  /\ canceled = [c \in Callers |-> FALSE]
  /\ attemptEnd = [c \in Callers |-> Unlimited]
  /\ wakeAt = [c \in Callers |-> 0]
  /\ requests = EmptyCounter
  /\ retries = EmptyCounter
  /\ calls = 0
  /\ sent = [c \in Callers |-> 0]
  /\ charged = [c \in Callers |-> 0]
  /\ result = [c \in Callers |-> NoError]

\* What the goroutine of a call does by itself, whatever the dependency does.
Proceed(c) ==
  \/ Derive(c) \/ DeriveRefused(c) \/ Send(c) \/ Rejected(c) \/ ContextEnds(c)
  \/ RetryAllowed(c) \/ RetryRefused(c) \/ Wake(c) \/ SleepCut(c)

ClientNext ==
  \/ \E c \in Callers :
       Call(c) \/ Proceed(c) \/ Answered(c) \/ Cancel(c) \/ Panic(c)
  \/ ClientTick
  \/ ClientHorizon

ClientSpec == ClientInit /\ [][ClientNext]_allVars

\* Goroutines run, timers fire, transports give up when their context does.
\* Nothing obliges the dependency to answer, or a caller to call or to cancel.
ClientFairSpec ==
  /\ ClientSpec
  /\ \A c \in Callers : WF_allVars(Proceed(c))
  /\ WF_allVars(ClientTick)

-------------------------------------------------------------------------------
(* Properties. *)

\* Type invariant.  attempt stays within what Do's loop allows.
ClientTypeOK ==
  /\ TypeOK
  /\ safe \in BOOLEAN
  /\ pc \in [Callers -> {"idle", "derive", "admit", "sending", "budget",
                         "sleeping"}]
  /\ attempt \in [Callers -> 0 .. MaxAttempts]
  /\ lastErr \in [Callers -> Errors] /\ result \in [Callers -> Errors]
  /\ deadline \in [Callers -> Nat] /\ attemptEnd \in [Callers -> Int]
  /\ canceled \in [Callers -> BOOLEAN]
  /\ wakeAt \in [Callers -> Nat]
  /\ requests \in Counter /\ retries \in Counter
  /\ calls \in 0 .. MaxCalls
  /\ sent \in [Callers -> Nat] /\ charged \in [Callers -> Nat]

\* One logical call puts at most MaxAttempts + 1 requests on the wire, and a
\* procedure that is not declared safe at most one, whatever comes back, and
\* whatever breaker, budget and deadline do in between (retry.go:220-271).
AttemptsBounded ==
  \A c \in Callers :
    sent[c] <= IF RetryEnabled /\ safe THEN MaxAttempts + 1 ELSE 1

\* Every retry charged to the shared budget was preceded by an attempt that
\* left the process: no retry is spent on a breaker that rejects
\* (classify.go:105-113).
RetriesFollowSends == \A c \in Callers : charged[c] <= sent[c]

\* No dependency is hammered with retries that its breaker cannot see: an error
\* that asks the budget for a retry was counted as a failure of the dependency
\* when it came back (classify.go:5-9, 97-99).
RetriesAreCounted ==
  \A c \in Callers : pc[c] = "budget" => CountsAsFailure(lastErr[c])

\* An attempt on the wire, the first or a later one, ends early enough to
\* leave this hop Buffer of its caller's deadline (deadline.go:58-83).
DeadlineKept ==
  \A c \in Callers :
    pc[c] = "sending" /\ deadline[c] # Unlimited
      => attemptEnd[c] <= deadline[c] - Buffer

\* What a step of a call that has sent something may return, if it returns.
Tells(c) ==
  pc[c] # "idle" /\ pc'[c] = "idle" /\ sent[c] > 0 =>
    \/ pc[c] = "sending" /\ result'[c] # InsufficientBudget
    \/ /\ result'[c] = lastErr[c]
       /\ lastErr[c] \notin {NoError, ErrBreakerOpen, InsufficientBudget}
    \/ pc[c] = "admit" /\ result'[c] = ErrBreakerOpen
    \/ pc[c] = "sleeping" /\ CtxDone(c) /\ result'[c] = SleepError(c)

\* Once a call has sent something, its own bookkeeping is never what it returns
\* for an answer.  Unless it returns the end of the attempt it has out, it
\* returns the error of the attempt it sent last, which "says why the call was
\* failing" (retry.go:243-246, 254-262), with two exceptions that the code
\* makes: the breaker rejects the next attempt (resilience.go:68-73), or the
\* caller's context ends in the backoff (retry.go:247-249), and then the error
\* is the rejection, or what ended the context first.
ReportsTheCause == [][\A c \in Callers : Tells(c)]_allVars

\* A call that has a deadline returns, even when the dependency never answers
\* again: through retries, budget, backoff and breaker, it is not left waiting.
EveryCallReturns ==
  \A c \in Callers :
    pc[c] # "idle" /\ deadline[c] # Unlimited ~> pc[c] = "idle"
================================================================================
