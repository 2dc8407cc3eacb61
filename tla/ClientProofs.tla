------------------------------ MODULE ClientProofs ------------------------------
(*****************************************************************************)
(* Proofs about ResilientClient, for every value of its constants.           *)
(*                                                                           *)
(* What the loop bounds asks nothing of the breaker or of the budget but     *)
(* which of the two lets an attempt pass: it holds whatever they decide.     *)
(* What the breaker promises, it keeps in the client that drives it, unless  *)
(* a call panics.                                                            *)
(*****************************************************************************)
EXTENDS ResilientClient, BreakerProofs

Labels == {"idle", "derive", "admit", "sending", "budget", "sleeping"}

\* How often a call has gone round is what it has sent and charged, as far as
\* its round has come.
InStep(c) ==
  /\ pc[c] = "idle" => attempt[c] = 0 /\ sent[c] = 0 /\ charged[c] = 0
  /\ pc[c] \in {"derive", "admit", "sleeping"} =>
       sent[c] = attempt[c] /\ charged[c] = attempt[c]
  /\ pc[c] = "sending" =>
       sent[c] = attempt[c] + 1 /\ charged[c] = attempt[c]
  /\ pc[c] = "budget" =>
       sent[c] = attempt[c] /\ charged[c] + 1 = attempt[c]

\* The loop's bound: MaxAttempts retries, and none where they are not allowed.
Bounded(c) ==
  /\ attempt[c] <= MaxAttempts
  /\ ~(RetryEnabled /\ safe) => attempt[c] = 0

\* From Derive on, the attempt's deadline is the narrowed one.
EndsInTime(c) ==
  RetryEnabled /\ pc[c] \in {"admit", "sending"} => attemptEnd[c] = Narrowed(c)

\* The inductive invariant.
LoopInv ==
  /\ now \in Nat
  /\ safe \in BOOLEAN
  /\ pc \in [Callers -> Labels]
  /\ attempt \in [Callers -> Nat]
  /\ sent \in [Callers -> Nat]
  /\ charged \in [Callers -> Nat]
  /\ deadline \in [Callers -> Int]
  /\ attemptEnd \in [Callers -> Int]
  /\ \A c \in Callers : InStep(c) /\ Bounded(c) /\ EndsInTime(c)

-------------------------------------------------------------------------------

\* What the loop retries, the breaker has counted; a rejection by the breaker
\* is not retried (classify.go:97-113).
LEMMA RetryableIsCounted ==
  \A err : IsRetryable(err) => CountsAsFailure(err)
  BY DEF IsRetryable, CountsAsFailure, CallerGaveUp, ClientFaults

LEMMA RejectionEndsTheLoop == ~IsRetryable(ErrBreakerOpen)
  BY DEF IsRetryable, ErrBreakerOpen

\* No step of the breaker moves the clock but its own.
LEMMA BreakerKeepsTime ==
  ASSUME NEW c,
         \/ AllowClosed(c) \/ AllowFirstProbe(c) \/ AllowProbe(c) \/ Reject(c)
         \/ UNCHANGED vars \/ \E err : Done(c, err)
  PROVE  now' = now
  BY DEF AllowClosed, AllowFirstProbe, AllowProbe, Reject, vars, Done

\* A call that returns leaves nothing behind.
LEMMA ReturnKeepsInv ==
  ASSUME LoopInv, NEW c \in Callers, NEW err, Return(c, err), now' = now
  PROVE  LoopInv'
  <1>1. /\ pc' = [pc EXCEPT ![c] = "idle"]
        /\ attempt' = [attempt EXCEPT ![c] = 0]
        /\ sent' = [sent EXCEPT ![c] = 0]
        /\ charged' = [charged EXCEPT ![c] = 0]
        /\ deadline' = [deadline EXCEPT ![c] = Unlimited]
        /\ attemptEnd' = [attemptEnd EXCEPT ![c] = Unlimited]
        /\ safe' = safe
    BY DEF Return, Goto
  <1>2. /\ now' \in Nat
        /\ safe' \in BOOLEAN
        /\ pc' \in [Callers -> Labels]
        /\ attempt' \in [Callers -> Nat]
        /\ sent' \in [Callers -> Nat]
        /\ charged' \in [Callers -> Nat]
        /\ deadline' \in [Callers -> Int]
        /\ attemptEnd' \in [Callers -> Int]
    BY <1>1 DEF LoopInv, Labels, Unlimited
  <1>3. ASSUME NEW d \in Callers
        PROVE  InStep(d)' /\ Bounded(d)' /\ EndsInTime(d)'
    <2>1. CASE d = c
      BY <1>1, <2>1, ClientAssumption
      DEF ValidRetry, LoopInv, InStep, Bounded, EndsInTime
    <2>2. CASE d # c
      BY <1>1, <2>2 DEF LoopInv, InStep, Bounded, EndsInTime, Narrowed
    <2>3. QED
      BY <2>1, <2>2
  <1>4. QED
    BY <1>2, <1>3 DEF LoopInv

\* What follows an attempt keeps the invariant: after one that was sent, the
\* loop may go round; after one that the breaker rejected, it may not.
LEMMA AfterAttemptKeepsInv ==
  ASSUME LoopInv, NEW c \in Callers, NEW err, AfterAttempt(c, err),
         now' = now, pc[c] = "sending" \/ ~IsRetryable(err)
  PROVE  LoopInv'
  <1>1. CASE ~GoesRound(c, err)
    BY <1>1, ReturnKeepsInv DEF AfterAttempt
  <1>2. CASE GoesRound(c, err)
    <2>1. /\ pc[c] = "sending" /\ RetryEnabled /\ safe
          /\ attempt[c] < MaxAttempts
      BY <1>2 DEF GoesRound, AttemptsLeft
    <2>2. /\ pc' = [pc EXCEPT ![c] = "budget"]
          /\ attempt' = [attempt EXCEPT ![c] = @ + 1]
          /\ UNCHANGED <<safe, deadline, attemptEnd, sent, charged>>
      BY <1>2 DEF AfterAttempt, Goto
    <2>3. /\ pc' \in [Callers -> Labels]
          /\ attempt' \in [Callers -> Nat]
      BY <2>2 DEF LoopInv, Labels
    <2>4. ASSUME NEW d \in Callers
          PROVE  InStep(d)' /\ Bounded(d)' /\ EndsInTime(d)'
      <3>1. CASE d = c
        BY <2>1, <2>2, <3>1, ClientAssumption
        DEF ValidRetry, LoopInv, InStep, Bounded, EndsInTime
      <3>2. CASE d # c
        BY <2>2, <3>2 DEF LoopInv, InStep, Bounded, EndsInTime, Narrowed
      <3>3. QED
        BY <3>1, <3>2
    <2>5. QED
      BY <2>2, <2>3, <2>4 DEF LoopInv
  <1>3. QED
    BY <1>1, <1>2

\* A step of one call that moves it to another label and leaves the other
\* calls' part of the invariant alone.
LEMMA MoveKeepsInv ==
  ASSUME LoopInv, NEW c \in Callers, NEW label \in Labels,
         now' \in Nat, safe' = safe, attempt' = attempt,
         pc' = [pc EXCEPT ![c] = label],
         sent' \in [Callers -> Nat], charged' \in [Callers -> Nat],
         deadline' \in [Callers -> Int], attemptEnd' \in [Callers -> Int],
         \A d \in Callers \ {c} :
           /\ sent'[d] = sent[d] /\ charged'[d] = charged[d]
           /\ deadline'[d] = deadline[d] /\ attemptEnd'[d] = attemptEnd[d],
         InStep(c)' /\ EndsInTime(c)'
  PROVE  LoopInv'
  <1>1. pc' \in [Callers -> Labels] /\ \A d \in Callers \ {c} : pc'[d] = pc[d]
    BY DEF LoopInv
  <1>2. ASSUME NEW d \in Callers
        PROVE  InStep(d)' /\ Bounded(d)' /\ EndsInTime(d)'
    <2>1. Bounded(d)'
      BY DEF LoopInv, Bounded
    <2>2. CASE d # c
      BY <1>1, <2>1, <2>2 DEF LoopInv, InStep, EndsInTime, Narrowed
    <2>3. CASE d = c
      BY <2>1, <2>3
    <2>4. QED
      BY <2>2, <2>3
  <1>3. QED
    BY <1>1, <1>2 DEF LoopInv

\* Every step of the calls, of the breaker and of the clock keeps the
\* invariant (retry.go:220-300, deadline.go:64-83, resilience.go:48-98).
LEMMA LoopInductive == LoopInv /\ [ClientNext]_allVars => LoopInv'
  <1> SUFFICES ASSUME LoopInv, [ClientNext]_allVars PROVE LoopInv'
    OBVIOUS
  <1> USE ClientAssumption DEF ValidRetry
  <1>1. ASSUME NEW c \in Callers, Call(c) PROVE LoopInv'
    <2> DEFINE label == IF RetryEnabled THEN "derive" ELSE "admit"
    <2>1. now' = now /\ pc[c] = "idle" /\ pc' = [pc EXCEPT ![c] = label]
      BY <1>1 DEF Call, Goto, vars
    <2>2. PICK e \in Int : deadline' = [deadline EXCEPT ![c] = e]
      <3>1. PICK d \in Deadlines :
              deadline' = [deadline EXCEPT ![c] =
                             IF d = Unlimited THEN d ELSE now + d]
        BY <1>1 DEF Call
      <3>2. d \in Nat /\ now \in Nat
        BY DEF LoopInv
      <3>3. d \in Int /\ now + d \in Int
        BY <3>2
      <3>4. QED
        BY <3>1, <3>3
    <2>3. attemptEnd' = [attemptEnd EXCEPT ![c] = e]
      BY <1>1, <2>2 DEF Call, LoopInv
    <2>4. UNCHANGED <<safe, attempt, sent, charged>>
      BY <1>1 DEF Call
    <2>5. InStep(c)' /\ EndsInTime(c)'
      BY <2>1, <2>4 DEF LoopInv, InStep, EndsInTime
    <2>6. label \in Labels
      BY DEF Labels
    <2> HIDE DEF label
    <2>7. QED
      BY <2>1, <2>2, <2>3, <2>4, <2>5, <2>6, MoveKeepsInv DEF LoopInv
  <1>2. ASSUME NEW c \in Callers, Derive(c) PROVE LoopInv'
    <2>1. /\ now' = now /\ pc[c] = "derive"
          /\ pc' = [pc EXCEPT ![c] = "admit"]
          /\ attemptEnd' = [attemptEnd EXCEPT ![c] = Narrowed(c)]
          /\ UNCHANGED <<safe, attempt, deadline, sent, charged>>
      BY <1>2 DEF Derive, Goto, vars
    <2>2. Narrowed(c) \in Int /\ Narrowed(c)' = Narrowed(c)
      BY <2>1 DEF Narrowed, LoopInv, Unlimited
    <2>3. InStep(c)' /\ EndsInTime(c)'
      BY <2>1, <2>2 DEF LoopInv, InStep, EndsInTime
    <2>4. QED
      BY <2>1, <2>2, <2>3, MoveKeepsInv DEF LoopInv, Labels
  <1>3. ASSUME NEW c \in Callers,
               DeriveRefused(c) \/ RetryRefused(c) \/ SleepCut(c)
        PROVE  LoopInv'
    <2>1. now' = now
      BY <1>3 DEF DeriveRefused, RetryRefused, SleepCut, vars
    <2>2. PICK err : Return(c, err)
      BY <1>3 DEF DeriveRefused, RetryRefused, SleepCut
    <2>3. QED
      BY <2>1, <2>2, ReturnKeepsInv
  <1>4. ASSUME NEW c \in Callers, Send(c) PROVE LoopInv'
    <2>1. now' = now
      BY <1>4, BreakerKeepsTime DEF Send
    <2>2. /\ pc[c] = "admit" /\ pc' = [pc EXCEPT ![c] = "sending"]
          /\ sent' = [sent EXCEPT ![c] = @ + 1]
          /\ UNCHANGED <<safe, attempt, deadline, attemptEnd, charged>>
      BY <1>4 DEF Send, Goto
    <2>3. InStep(c)' /\ EndsInTime(c)'
      BY <2>2 DEF LoopInv, InStep, EndsInTime, Narrowed
    <2>4. /\ sent' \in [Callers -> Nat]
          /\ \A d \in Callers \ {c} : sent'[d] = sent[d]
      BY <2>2 DEF LoopInv
    <2>5. QED
      BY <2>1, <2>2, <2>3, <2>4, MoveKeepsInv DEF LoopInv, Labels
  <1>5. ASSUME NEW c \in Callers, Rejected(c) PROVE LoopInv'
    <2>1. now' = now
      BY <1>5, BreakerKeepsTime DEF Rejected
    <2>2. QED
      BY <1>5, <2>1, RejectionEndsTheLoop, AfterAttemptKeepsInv DEF Rejected
  <1>6. ASSUME NEW c \in Callers, Answered(c) \/ ContextEnds(c) PROVE LoopInv'
    <2>1. PICK err : Done(c, err) /\ AfterAttempt(c, err)
      BY <1>6 DEF Answered, ContextEnds
    <2>2. now' = now
      BY <2>1, BreakerKeepsTime
    <2>3. pc[c] = "sending"
      BY <1>6 DEF Answered, ContextEnds
    <2>4. QED
      BY <2>1, <2>2, <2>3, AfterAttemptKeepsInv
  <1>7. ASSUME NEW c \in Callers, RetryAllowed(c) PROVE LoopInv'
    <2>1. /\ now' = now /\ pc[c] = "budget"
          /\ pc' = [pc EXCEPT ![c] = "sleeping"]
          /\ charged' = [charged EXCEPT ![c] = @ + 1]
          /\ UNCHANGED <<safe, attempt, deadline, attemptEnd, sent>>
      BY <1>7 DEF RetryAllowed, Goto, vars
    <2>2. InStep(c)' /\ EndsInTime(c)'
      BY <2>1 DEF LoopInv, InStep, EndsInTime
    <2>3. /\ charged' \in [Callers -> Nat]
          /\ \A d \in Callers \ {c} : charged'[d] = charged[d]
      BY <2>1 DEF LoopInv
    <2>4. QED
      BY <2>1, <2>2, <2>3, MoveKeepsInv DEF LoopInv, Labels
  <1>8. ASSUME NEW c \in Callers, Wake(c) PROVE LoopInv'
    <2>1. /\ now' = now /\ pc[c] = "sleeping"
          /\ pc' = [pc EXCEPT ![c] = "derive"]
          /\ UNCHANGED <<safe, attempt, deadline, attemptEnd, sent, charged>>
      BY <1>8 DEF Wake, Goto, vars
    <2>2. InStep(c)' /\ EndsInTime(c)'
      BY <2>1 DEF LoopInv, InStep, EndsInTime
    <2>3. QED
      BY <2>1, <2>2, MoveKeepsInv DEF LoopInv, Labels
  <1>9. ASSUME NEW c \in Callers, Panic(c) PROVE LoopInv'
    BY <1>9, ReturnKeepsInv DEF Panic
  <1>10. CASE (\E c \in Callers : Cancel(c)) \/ ClientTick \/ ClientHorizon
              \/ UNCHANGED allVars
    <2>1. /\ UNCHANGED <<safe, pc, attempt, sent, charged, deadline,
                        attemptEnd>>
          /\ now' \in Nat
      BY <1>10
      DEF Cancel, ClientTick, Tick, ClientHorizon, allVars, vars, clientVars,
          LoopInv
    <2>2. QED
      BY <2>1 DEF LoopInv, InStep, Bounded, EndsInTime, Narrowed
  <1>11. QED
    BY <1>1, <1>2, <1>3, <1>4, <1>5, <1>6, <1>7, <1>8, <1>9, <1>10
    DEF ClientNext, Proceed

LEMMA LoopInvHolds == ClientSpec => []LoopInv
  <1>1. ClientInit => LoopInv
    BY ClientAssumption
    DEF ValidRetry, ClientInit, Init, LoopInv, Labels, InStep, Bounded,
        EndsInTime, Unlimited
  <1>2. QED
    BY <1>1, LoopInductive, PTL DEF ClientSpec

-------------------------------------------------------------------------------

\* One logical call sends at most MaxAttempts + 1 requests, and at most one for
\* a procedure that is not declared safe, for any number of callers and
\* whatever breaker, budget, deadlines and dependency do (retry.go:220-271).
THEOREM CallsAreBounded == ClientSpec => []AttemptsBounded
  <1>1. LoopInv => AttemptsBounded
    <2> SUFFICES ASSUME LoopInv, NEW c \in Callers
                 PROVE  sent[c] <= IF RetryEnabled /\ safe
                                   THEN MaxAttempts + 1 ELSE 1
      BY DEF AttemptsBounded
    <2>1. sent[c] \in Nat /\ attempt[c] \in Nat /\ sent[c] <= attempt[c] + 1
      BY DEF LoopInv, InStep, Labels
    <2>2. QED
      BY <2>1, ClientAssumption DEF ValidRetry, LoopInv, Bounded
  <1>2. QED
    BY <1>1, LoopInvHolds, PTL

\* No retry is charged to the shared budget that no sent attempt preceded
\* (classify.go:105-113).
THEOREM NoRetryForNothing == ClientSpec => []RetriesFollowSends
  <1>1. LoopInv => RetriesFollowSends
    BY DEF LoopInv, InStep, Labels, RetriesFollowSends
  <1>2. QED
    BY <1>1, LoopInvHolds, PTL

\* Where the retrier is configured, every attempt on the wire leaves this hop
\* Buffer of its caller's deadline (deadline.go:58-83).  Without it nothing
\* narrows the deadline, and the property fails (interceptor/resilience.go:79).
THEOREM HopKeepsItsBuffer ==
  ASSUME RetryEnabled
  PROVE  ClientSpec => []DeadlineKept
  <1>1. LoopInv => DeadlineKept
    BY ClientAssumption DEF LoopInv, EndsInTime, Narrowed, DeadlineKept
  <1>2. QED
    BY <1>1, LoopInvHolds, PTL

-------------------------------------------------------------------------------

\* The errors that callers carry, without the types that nothing here needs.
CauseInv ==
  /\ DOMAIN pc = Callers /\ DOMAIN lastErr = Callers
  /\ RetriesAreCounted

\* Steps to any other label than "budget" keep it, and going round does since
\* only what is retryable goes round.
LEMMA CauseInductive == CauseInv /\ [ClientNext]_allVars => CauseInv'
  <1> SUFFICES ASSUME CauseInv, [ClientNext]_allVars PROVE CauseInv'
    OBVIOUS
  <1>1. ASSUME NEW c \in Callers, NEW label, label # "budget", Goto(c, label),
               \/ lastErr' = lastErr
               \/ lastErr' = [lastErr EXCEPT ![c] = NoError]
        PROVE  CauseInv'
    BY <1>1 DEF CauseInv, RetriesAreCounted, Goto
  <1>2. ASSUME NEW c \in Callers, NEW err, Return(c, err) PROVE CauseInv'
    BY <1>1, <1>2 DEF Return
  <1>3. ASSUME NEW c \in Callers, NEW err, AfterAttempt(c, err)
        PROVE  CauseInv'
    <2>1. CASE ~GoesRound(c, err)
      BY <1>2, <1>3, <2>1 DEF AfterAttempt
    <2>2. CASE GoesRound(c, err)
      <3>1. CountsAsFailure(err)
        BY <2>2, RetryableIsCounted DEF GoesRound
      <3>2. /\ pc' = [pc EXCEPT ![c] = "budget"]
            /\ lastErr' = [lastErr EXCEPT ![c] = err]
        BY <1>3, <2>2 DEF AfterAttempt, Goto
      <3>3. QED
        BY <3>1, <3>2 DEF CauseInv, RetriesAreCounted
    <2>3. QED
      BY <2>1, <2>2
  <1>4. ASSUME NEW c \in Callers, Call(c) \/ Derive(c) \/ Wake(c)
        PROVE  CauseInv'
    <2>1. CASE Call(c)
      BY <1>1, <2>1 DEF Call
    <2>2. CASE Derive(c)
      BY <1>1, <2>2 DEF Derive
    <2>3. CASE Wake(c)
      BY <1>1, <2>3 DEF Wake
    <2>4. QED
      BY <1>4, <2>1, <2>2, <2>3
  <1>5. ASSUME NEW c \in Callers, Send(c) \/ RetryAllowed(c)
        PROVE  CauseInv'
    BY <1>1, <1>5 DEF Send, RetryAllowed
  <1>6. ASSUME NEW c \in Callers,
               \/ DeriveRefused(c) \/ RetryRefused(c) \/ SleepCut(c)
               \/ Panic(c)
        PROVE  CauseInv'
    BY <1>2, <1>6 DEF DeriveRefused, RetryRefused, SleepCut, Panic
  <1>7. ASSUME NEW c \in Callers,
               Rejected(c) \/ Answered(c) \/ ContextEnds(c)
        PROVE  CauseInv'
    BY <1>3, <1>7 DEF Rejected, Answered, ContextEnds
  <1>8. CASE UNCHANGED <<pc, lastErr>>
    BY <1>8 DEF CauseInv, RetriesAreCounted
  <1>9. QED
    BY <1>4, <1>5, <1>6, <1>7, <1>8
    DEF ClientNext, Proceed, Cancel, ClientTick, ClientHorizon, allVars,
        clientVars

\* An attempt that asks the budget for a retry was counted by the breaker, for
\* every error a dependency can come back with (classify.go:5-9, 97-99).
THEOREM NoHiddenRetries == ClientSpec => []RetriesAreCounted
  <1>1. ClientInit => CauseInv
    BY DEF ClientInit, CauseInv, RetriesAreCounted
  <1>2. CauseInv => RetriesAreCounted
    BY DEF CauseInv
  <1>3. QED
    BY <1>1, <1>2, CauseInductive, PTL DEF ClientSpec

-------------------------------------------------------------------------------
(* Types. *)

\* What the loop's invariant leaves out of ClientTypeOK.
RestInv ==
  /\ TypeOK
  /\ lastErr \in [Callers -> Errors] /\ result \in [Callers -> Errors]
  /\ deadline \in [Callers -> Nat]
  /\ canceled \in [Callers -> BOOLEAN]
  /\ wakeAt \in [Callers -> Nat]
  /\ requests \in Counter /\ retries \in Counter
  /\ calls \in 0 .. MaxCalls

\* Every error that the client makes up is one.
LEMMA OwnErrors ==
  /\ {ErrBreakerOpen, AttemptTimedOut, AttemptCanceled, InsufficientBudget,
      NoError, PeerError("internal")} \subseteq Errors
  /\ \A c : SleepError(c) \in Errors
  <1>1. /\ {"unknown", "deadline_exceeded", "canceled", "internal"} \subseteq Codes
        /\ {{"breaker_open"}, {"ctx_deadline"}, {"ctx_canceled"},
            {"insufficient_budget"}, {}} \subseteq SUBSET Sentinels
    BY DEF Codes, Sentinels
  <1>2. \A code \in Codes, is \in SUBSET Sentinels :
          [code |-> code, is |-> is] \in Errors
    BY DEF Errors
  <1>3. NoError \in Errors
    BY DEF Errors
  <1>4. QED
    BY <1>1, <1>2, <1>3
    DEF ErrBreakerOpen, AttemptTimedOut, AttemptCanceled, InsufficientBudget,
        PeerError, SleepError

\* The part that is the breaker's, in each of the ways a call drives it.
LEMMA DrivenTypes ==
  ASSUME TypeOK, NEW c \in Callers,
         Allow(c) \/ (\E err : Done(c, err)) \/ UNCHANGED vars
  PROVE  TypeOK'
  <1>1. CASE UNCHANGED vars
    BY <1>1 DEF vars, TypeOK
  <1>2. QED
    BY <1>1, AllowKeepsTypes, DoneKeepsTypes

LEMMA PanicKeepsTypes ==
  ASSUME TypeOK, NEW c \in Callers, Panic(c)
  PROVE  TypeOK'
  BY DEF Panic, Finish, TypeOK

LEMMA ReturnKeepsRest ==
  ASSUME RestInv, TypeOK', NEW c \in Callers, NEW err \in Errors, Return(c, err)
  PROVE  RestInv'
  BY OwnErrors DEF Return, RestInv, Unlimited

LEMMA AfterAttemptKeepsRest ==
  ASSUME RestInv, TypeOK', NEW c \in Callers, NEW err \in Errors,
         AfterAttempt(c, err)
  PROVE  RestInv'
  <1>1. CASE GoesRound(c, err)
    BY <1>1 DEF AfterAttempt, RestInv
  <1>2. CASE ~GoesRound(c, err)
    BY <1>2, ReturnKeepsRest DEF AfterAttempt
  <1>3. QED
    BY <1>1, <1>2

LEMMA RestInductive == RestInv /\ [ClientNext]_allVars => RestInv'
  <1> SUFFICES ASSUME RestInv, [ClientNext]_allVars PROVE RestInv'
    OBVIOUS
  <1> USE ClientAssumption
  <1>t. TypeOK /\ now \in Nat
    BY DEF RestInv, TypeOK
  <1>1. ASSUME NEW c \in Callers, Call(c) PROVE RestInv'
    <2>1. TypeOK'
      BY <1>1, <1>t, DrivenTypes DEF Call
    <2>2. PICK d \in Deadlines :
            deadline' = [deadline EXCEPT ![c] =
                           IF d = Unlimited THEN d ELSE now + d]
      BY <1>1 DEF Call
    <2>3. deadline' \in [Callers -> Nat]
      <3>1. d \in Nat
        BY ClientAssumption
      <3>2. now + d \in Nat
        BY <1>t, <3>1
      <3>3. (IF d = Unlimited THEN d ELSE now + d) \in Nat
        BY <3>1, <3>2
      <3>4. QED
        BY <2>2, <3>3 DEF RestInv
    <2>4. requests' \in Counter
      BY <1>1, <1>t, AddType DEF Call, RestInv
    <2>5. calls' \in 0 .. MaxCalls
      BY <1>1 DEF Call, RestInv
    <2>6. result' \in [Callers -> Errors]
      BY <1>1, OwnErrors DEF Call, RestInv
    <2>7. QED
      BY <1>1, <2>1, <2>3, <2>4, <2>5, <2>6 DEF Call, RestInv
  <1>2. ASSUME NEW c \in Callers, Derive(c) \/ Wake(c) \/ Cancel(c)
        PROVE  RestInv'
    <2>1. TypeOK'
      BY <1>2, <1>t, DrivenTypes DEF Derive, Wake, Cancel
    <2>2. /\ UNCHANGED <<lastErr, result, deadline, wakeAt, requests, retries,
                         calls>>
          /\ canceled' = canceled \/ canceled' = [canceled EXCEPT ![c] = TRUE]
      BY <1>2 DEF Derive, Wake, Cancel
    <2>3. QED
      BY <2>1, <2>2 DEF RestInv
  <1>3. ASSUME NEW c \in Callers,
               DeriveRefused(c) \/ RetryRefused(c) \/ SleepCut(c)
        PROVE  RestInv'
    <2>1. TypeOK'
      BY <1>3, <1>t, DrivenTypes DEF DeriveRefused, RetryRefused, SleepCut
    <2>2. OutOfTime(c) \in Errors /\ lastErr[c] \in Errors
          /\ SleepError(c) \in Errors
      BY OwnErrors DEF OutOfTime, RestInv
    <2>3. PICK err \in Errors : Return(c, err)
      BY <1>3, <2>2 DEF DeriveRefused, RetryRefused, SleepCut
    <2>4. QED
      BY <2>1, <2>3, ReturnKeepsRest
  <1>4. ASSUME NEW c \in Callers, Send(c) PROVE RestInv'
    <2>1. TypeOK'
      BY <1>4, <1>t, DrivenTypes DEF Send, Allow
    <2>2. QED
      BY <1>4, <2>1 DEF Send, RestInv
  <1>5. ASSUME NEW c \in Callers, Rejected(c) PROVE RestInv'
    <2>1. TypeOK'
      BY <1>5, <1>t, DrivenTypes DEF Rejected, Allow
    <2>2. QED
      BY <1>5, <2>1, OwnErrors, AfterAttemptKeepsRest DEF Rejected
  <1>6. ASSUME NEW c \in Callers, Answered(c) \/ ContextEnds(c)
        PROVE  RestInv'
    <2>1. PICK err \in Errors : Done(c, err) /\ AfterAttempt(c, err)
      BY <1>6, OwnErrors, BreakerAssumption
      DEF Answered, ContextEnds, Answers
    <2>2. TypeOK'
      BY <2>1, <1>t, DrivenTypes
    <2>3. QED
      BY <2>1, <2>2, AfterAttemptKeepsRest
  <1>7. ASSUME NEW c \in Callers, RetryAllowed(c) PROVE RestInv'
    <2>1. TypeOK'
      BY <1>7, <1>t, DrivenTypes DEF RetryAllowed
    <2>2. retries' \in Counter
      BY <1>7, <1>t, AddType DEF RetryAllowed, RestInv
    <2>3. PICK wait \in Nat : wakeAt' = [wakeAt EXCEPT ![c] = now + wait]
      <3>1. PICK top : \E wait \in 0 .. top :
              wakeAt' = [wakeAt EXCEPT ![c] = now + wait]
        BY ONLY <1>7, ZenonT(30) DEF RetryAllowed
      <3>2. PICK wait \in 0 .. top : wakeAt' = [wakeAt EXCEPT ![c] = now + wait]
        BY <3>1
      <3>3. wait \in Nat
        BY ONLY <3>2
      <3>4. QED
        BY <3>2, <3>3
    <2>4. wakeAt' \in [Callers -> Nat]
      BY <2>3, <1>t DEF RestInv
    <2>5. UNCHANGED <<lastErr, result, deadline, canceled, requests, calls>>
      BY <1>7 DEF RetryAllowed
    <2>6. QED
      BY <2>1, <2>2, <2>4, <2>5 DEF RestInv
  <1>8. ASSUME NEW c \in Callers, Panic(c) PROVE RestInv'
    BY <1>8, <1>t, PanicKeepsTypes, OwnErrors, ReturnKeepsRest DEF Panic
  <1>9. CASE ClientTick \/ UNCHANGED allVars
    <2>1. TypeOK'
      BY <1>9, <1>t, TypeInductive DEF ClientTick, allVars, AnyStep
    <2>2. QED
      BY <1>9, <2>1 DEF ClientTick, allVars, clientVars, RestInv
  <1>10. QED
    BY <1>1, <1>2, <1>3, <1>4, <1>5, <1>6, <1>7, <1>8, <1>9
    DEF ClientNext, Proceed, ClientHorizon

LEMMA RestInvHolds == ClientSpec => []RestInv
  <1>1. ClientInit => TypeOK
    BY BreakerAssumption, WindowAssumption, ClearedType
    DEF ClientInit, Init, ValidBreaker, TypeOK, States, ZeroTime, Bucket
  <1>2. ClientInit => RestInv
    BY <1>1, OwnErrors, EmptyCounterType, ClientAssumption
    DEF ClientInit, RestInv, Unlimited
  <1>3. QED
    BY <1>2, RestInductive, PTL DEF ClientSpec

\* The type invariant of the client, breaker included, holds in every reachable
\* state, for any number of callers and panics: among the rest, the loop
\* variable never passes MaxAttempts (retry.go:236-271).
THEOREM ClientTypeCorrect == ClientSpec => []ClientTypeOK
  <1>1. LoopInv /\ RestInv => ClientTypeOK
    <2> SUFFICES ASSUME LoopInv, RestInv PROVE ClientTypeOK
      OBVIOUS
    <2>1. attempt \in [Callers -> 0 .. MaxAttempts]
      BY ClientAssumption DEF LoopInv, Bounded
    <2>2. QED
      BY <2>1 DEF LoopInv, RestInv, ClientTypeOK, Labels
  <1>2. QED
    BY <1>1, LoopInvHolds, RestInvHolds, PTL

-------------------------------------------------------------------------------
(* Why a call failed. *)

\* Do's lastErr is never an error of the client's own making, and there is one
\* as soon as the loop has gone round: what DeriveRefused then finds.
KnowsCause(c) ==
  /\ lastErr[c] \notin {InsufficientBudget, ErrBreakerOpen}
  /\ attempt[c] > 0 => lastErr[c] # NoError

WhyInv == \A c \in Callers : KnowsCause(c)

\* The constants are constants.
LEMMA SameErrors ==
  InsufficientBudget' = InsufficientBudget /\ NoError' = NoError
    /\ ErrBreakerOpen' = ErrBreakerOpen
  BY DEF InsufficientBudget, NoError, ErrBreakerOpen

\* Only Derive makes that error.
LEMMA OnlyDerive ==
  /\ InsufficientBudget \notin {ErrBreakerOpen, AttemptTimedOut, AttemptCanceled,
                               NoError, PeerError("internal")}
  /\ InsufficientBudget \notin Outcomes
  /\ NoError # ErrBreakerOpen
  <1>1. /\ {"insufficient_budget"} # {"ctx_deadline"}
        /\ {"insufficient_budget"} # {"ctx_canceled"}
    OBVIOUS
  <1>2. InsufficientBudget.code = "deadline_exceeded"
        /\ InsufficientBudget.is = {"insufficient_budget"}
    BY DEF InsufficientBudget
  <1>3. /\ ErrBreakerOpen.code = "unknown" /\ NoError.code = "ok"
        /\ PeerError("internal").code = "internal"
        /\ AttemptCanceled.code = "canceled"
        /\ AttemptTimedOut.is = {"ctx_deadline"}
    BY DEF ErrBreakerOpen, NoError, PeerError, AttemptCanceled, AttemptTimedOut
  <1>4. InsufficientBudget \notin Outcomes
    BY ClientAssumption DEF InsufficientBudget
  <1>5. QED
    BY <1>1, <1>2, <1>3, <1>4

LEMMA ReturnKeepsWhy ==
  ASSUME LoopInv, RestInv, WhyInv, NEW c \in Callers, NEW err, Return(c, err),
         sent[c] > 0 =>
           \/ pc[c] = "sending" /\ err # InsufficientBudget
           \/ err = lastErr[c] /\ lastErr[c] # NoError
           \/ pc[c] = "admit" /\ err = ErrBreakerOpen
           \/ pc[c] = "sleeping" /\ CtxDone(c) /\ err = SleepError(c)
  PROVE  WhyInv' /\ \A d \in Callers : Tells(d)
  <1>1. /\ lastErr' = [lastErr EXCEPT ![c] = NoError]
        /\ attempt' = [attempt EXCEPT ![c] = 0]
        /\ result' = [result EXCEPT ![c] = err]
        /\ pc' = [pc EXCEPT ![c] = "idle"]
    BY DEF Return, Goto
  <1>2. /\ lastErr'[c] = NoError /\ attempt'[c] = 0 /\ result'[c] = err
        /\ \A d \in Callers \ {c} :
             /\ lastErr'[d] = lastErr[d] /\ attempt'[d] = attempt[d]
             /\ pc'[d] = pc[d]
    BY <1>1 DEF LoopInv, RestInv
  <1>3. NoError \notin {InsufficientBudget, ErrBreakerOpen}
    BY OnlyDerive
  <1>4. WhyInv'
    <2> SUFFICES ASSUME NEW d \in Callers PROVE KnowsCause(d)'
      BY DEF WhyInv
    <2>2. CASE d = c
      BY <1>2, <1>3, SameErrors, <2>2 DEF KnowsCause
    <2>3. CASE d # c
      BY <1>2, SameErrors, <2>3 DEF WhyInv, KnowsCause
    <2>4. QED
      BY <2>2, <2>3
  <1>5. ASSUME NEW d \in Callers PROVE Tells(d)
    <2>1. lastErr[c] \notin {InsufficientBudget, ErrBreakerOpen}
      BY DEF WhyInv, KnowsCause
    <2>2. CASE d = c
      BY <1>2, <2>1, <2>2 DEF Tells
    <2>3. CASE d # c
      BY <1>2, <2>3 DEF Tells
    <2>4. QED
      BY <2>2, <2>3
  <1>6. QED
    BY <1>4, <1>5

\* A step that returns nothing, and leaves errors and loop variables alone.
LEMMA MoveKeepsWhy ==
  ASSUME LoopInv, WhyInv, UNCHANGED <<lastErr, attempt>>, NEW c \in Callers,
         NEW label, label # "idle", Goto(c, label) \/ pc' = pc
  PROVE  WhyInv' /\ \A d \in Callers : Tells(d)
  <1>1. WhyInv'
    BY SameErrors DEF WhyInv, KnowsCause
  <1>2. \A d \in Callers : pc[d] # "idle" => pc'[d] # "idle"
    BY DEF LoopInv, Goto
  <1>3. QED
    BY <1>1, <1>2 DEF Tells

\* An attempt comes back from the wire, or is rejected.
LEMMA AfterAttemptKeepsWhy ==
  ASSUME LoopInv, RestInv, WhyInv, NEW c \in Callers, NEW err,
         AfterAttempt(c, err), err # InsufficientBudget,
         \/ pc[c] = "sending"
         \/ pc[c] = "admit" /\ err = ErrBreakerOpen
  PROVE  WhyInv' /\ \A d \in Callers : Tells(d)
  <1>1. CASE ~GoesRound(c, err)
    <2>1. Return(c, err)
      BY <1>1 DEF AfterAttempt
    <2>2. QED
      BY <2>1, ReturnKeepsWhy
  <1>2. CASE GoesRound(c, err)
    <2>1. err \notin {NoError, ErrBreakerOpen}
      BY <1>2, RejectionEndsTheLoop DEF GoesRound, IsRetryable
    <2>2. /\ pc' = [pc EXCEPT ![c] = "budget"]
          /\ lastErr' = [lastErr EXCEPT ![c] = err]
          /\ attempt' = [attempt EXCEPT ![c] = @ + 1]
      BY <1>2 DEF AfterAttempt, Goto
    <2>3. /\ lastErr'[c] = err /\ pc'[c] = "budget"
          /\ \A d \in Callers \ {c} :
               /\ lastErr'[d] = lastErr[d] /\ attempt'[d] = attempt[d]
               /\ pc'[d] = pc[d]
      BY <2>2 DEF LoopInv, RestInv
    <2>5. ASSUME NEW d \in Callers PROVE KnowsCause(d)' /\ Tells(d)
      <3>1. CASE d = c
        BY <2>1, <2>3, SameErrors, <3>1 DEF KnowsCause, Tells
      <3>2. CASE d # c
        BY <2>3, SameErrors, <3>2 DEF WhyInv, KnowsCause, Tells
      <3>3. QED
        BY <3>1, <3>2
    <2>6. QED
      BY <2>5 DEF WhyInv
  <1>3. QED
    BY <1>1, <1>2

LEMMA WhyInductive ==
  ASSUME LoopInv, RestInv, WhyInv, [ClientNext]_allVars
  PROVE  WhyInv' /\ \A d \in Callers : Tells(d)
  <1> DEFINE Goal == WhyInv' /\ \A d \in Callers : Tells(d)
  <1>1. ASSUME NEW c \in Callers,
               \/ Call(c) \/ Derive(c) \/ Wake(c) \/ Send(c) \/ RetryAllowed(c)
               \/ Cancel(c)
        PROVE  Goal
    <2>1. PICK label : /\ label # "idle" /\ (Goto(c, label) \/ pc' = pc)
                       /\ UNCHANGED <<lastErr, attempt>>
      <3>1. CASE Call(c)
        BY <3>1 DEF Call
      <3>2. CASE Derive(c)
        BY <3>2 DEF Derive
      <3>3. CASE Wake(c)
        BY <3>3 DEF Wake
      <3>4. CASE Send(c)
        BY <3>4 DEF Send
      <3>5. CASE RetryAllowed(c)
        BY <3>5 DEF RetryAllowed
      <3>6. CASE Cancel(c)
        BY <3>6 DEF Cancel
      <3>7. QED
        BY <1>1, <3>1, <3>2, <3>3, <3>4, <3>5, <3>6
    <2>2. QED
      BY <2>1, MoveKeepsWhy
  <1>2. ASSUME NEW c \in Callers, DeriveRefused(c) PROVE Goal
    <2>1. Return(c, OutOfTime(c)) /\ pc[c] = "derive"
      BY <1>2 DEF DeriveRefused
    <2>2. sent[c] > 0 => OutOfTime(c) = lastErr[c] /\ lastErr[c] # NoError
      <3>1. sent[c] = attempt[c]
        BY <2>1 DEF LoopInv, InStep
      <3>2. QED
        BY <3>1 DEF WhyInv, KnowsCause, OutOfTime
    <2>3. QED
      BY <2>1, <2>2, ReturnKeepsWhy
  <1>3. ASSUME NEW c \in Callers, RetryRefused(c) PROVE Goal
    <2>1. Return(c, lastErr[c]) /\ pc[c] = "budget"
      BY <1>3 DEF RetryRefused
    <2>2. sent[c] > 0 => lastErr[c] # NoError
      <3>1. sent[c] = attempt[c]
        BY <2>1 DEF LoopInv, InStep
      <3>2. QED
        BY <3>1 DEF WhyInv, KnowsCause
    <2>3. QED
      BY <2>1, <2>2, ReturnKeepsWhy
  <1>4. ASSUME NEW c \in Callers, SleepCut(c) PROVE Goal
    BY <1>4, ReturnKeepsWhy DEF SleepCut
  <1>5. ASSUME NEW c \in Callers, Panic(c) PROVE Goal
    <2>1. /\ Return(c, PeerError("internal")) /\ pc[c] = "sending"
          /\ PeerError("internal") # InsufficientBudget
      BY <1>5, OnlyDerive DEF Panic
    <2>2. QED
      BY <2>1, ReturnKeepsWhy
  <1>6. ASSUME NEW c \in Callers, Rejected(c) \/ Answered(c) \/ ContextEnds(c)
        PROVE  Goal
    <2>1. PICK err : /\ AfterAttempt(c, err) /\ err # InsufficientBudget
                     /\ \/ pc[c] = "sending"
                        \/ pc[c] = "admit" /\ err = ErrBreakerOpen
      <3>1. CASE Rejected(c)
        BY <3>1, OnlyDerive DEF Rejected
      <3>2. CASE Answered(c)
        BY <3>2, OnlyDerive DEF Answered, Answers
      <3>3. CASE ContextEnds(c)
        BY <3>3, OnlyDerive DEF ContextEnds
      <3>4. QED
        BY <1>6, <3>1, <3>2, <3>3
    <2>2. QED
      BY <2>1, AfterAttemptKeepsWhy
  <1>7. CASE UNCHANGED clientVars
    BY <1>7, SameErrors DEF clientVars, WhyInv, KnowsCause, Tells
  <1>8. QED
    BY <1>1, <1>2, <1>3, <1>4, <1>5, <1>6, <1>7
    DEF ClientNext, Proceed, ClientTick, ClientHorizon, allVars

\* Once a call has sent anything and is between attempts, the error it returns
\* is that of the attempt it sent last, and never that there was no time left
\* for another; only the breaker's rejection of the next attempt, and the end
\* of the context during a backoff, take its place (retry.go:243-262).
THEOREM CauseIsReported == ClientSpec => ReportsTheCause
  <1>1. ClientInit => WhyInv
    BY OnlyDerive DEF ClientInit, WhyInv, KnowsCause
  <1>2. LoopInv /\ RestInv /\ WhyInv /\ [ClientNext]_allVars => WhyInv'
    BY WhyInductive
  <1>3. LoopInv /\ RestInv /\ WhyInv /\ [ClientNext]_allVars
          => [\A c \in Callers : Tells(c)]_allVars
    BY WhyInductive
  <1>4. QED
    BY <1>1, <1>2, <1>3, LoopInvHolds, RestInvHolds, PTL
    DEF ClientSpec, ReportsTheCause

-------------------------------------------------------------------------------
(* The breaker inside the client.                                            *)

\* Without panics every step of the client is one of the breaker's own, or none:
\* what it reports, whoever ended the attempt, it reports as a caller does.
LEMMA ClientDrivesBreaker ==
  ASSUME ~MayPanic
  PROVE  ClientSpec => AnySpec
  <1>1. ASSUME NEW c \in Callers, ClientNext,
               Call(c) \/ Proceed(c) \/ Answered(c) \/ Cancel(c) \/ Panic(c)
        PROVE  [AnyStep]_vars
    <2>1. CASE UNCHANGED vars
      BY <2>1
    <2>2. CASE Send(c) \/ Rejected(c)
      BY <2>2 DEF Send, Rejected, Allow, AnyStep
    <2>3. CASE Answered(c) \/ ContextEnds(c)
      BY <2>3 DEF Answered, ContextEnds, AnyStep
    <2>4. QED
      BY <1>1, <2>1, <2>2, <2>3
      DEF Call, Proceed, Derive, DeriveRefused, RetryAllowed, RetryRefused,
          Wake, SleepCut, Cancel, Panic
  <1>2. ASSUME ClientTick \/ ClientHorizon \/ UNCHANGED allVars
        PROVE  [AnyStep]_vars
    BY <1>2 DEF ClientTick, ClientHorizon, allVars, AnyStep
  <1>3. [ClientNext]_allVars => [AnyStep]_vars
    BY <1>1, <1>2 DEF ClientNext
  <1>4. ClientInit => Init
    BY DEF ClientInit
  <1>5. QED
    BY <1>3, <1>4, PTL DEF ClientSpec, AnySpec

\* In a client whose calls do not panic, and for every error an attempt can end
\* with, its own context's included, no probe slot is lost (breaker.go:164-168,
\* resilience.go:64-79).  With panics one is: done is not deferred.
THEOREM ClientLosesNoSlot ==
  ASSUME ~MayPanic
  PROVE  ClientSpec => []NoSlotLeak
  BY ClientDrivesBreaker, AnySlotsNeverLeak, PTL

\* In such a client, when attempts end before an open period does, the probe
\* cap holds, and probes alone close and re-open the breaker, whatever retries,
\* budgets and deadlines do around it (breaker.go:58-64, 231-241).
THEOREM ClientProbesDecide ==
  ASSUME ~MayPanic, CallTimeout < OpenDuration
  PROVE  ClientSpec => []ProbeCap /\ ClosesOnProbes /\ ReopensOnProbe
  BY ClientDrivesBreaker, AnyProbesCapped, AnyClosesOnlyOnProbes,
     AnyReopensOnlyOnProbe, PTL

\* The composed client implements BreakerSpec too: the retry loop, the budget
\* and the deadlines around the breaker break none of its promises
\* (interceptor/resilience.go:48-98).
THEOREM ClientKeepsBreakersPromise ==
  ASSUME ~MayPanic, EpochShift = 0, WindowLen = NumBuckets * Width,
         CallTimeout < OpenDuration
  PROVE  ClientSpec => ImplementsBreakerSpec
  BY ClientDrivesBreaker, AnyKeepsPromise, PTL

-------------------------------------------------------------------------------
(* Why the breaker may count on CallTimeout: Tick lets no call in flight       *)
(* outlast it.  When no caller has more time than that, nothing has to be      *)
(* assumed: the contexts of the attempts see to it.                            *)

\* The deadlines of the callers, and of the attempts under them, come in time.
OnTime(c) ==
  /\ c \in InFlight => pc[c] = "sending"
  /\ pc[c] # "idle" => deadline[c] <= now + CallTimeout
  /\ pc[c] = "admit" => attemptEnd[c] <= now + CallTimeout
  /\ pc[c] = "sending" => attemptEnd[c] <= admittedAt[c] + CallTimeout

OnTimeInv == \A c \in Callers : OnTime(c)

\* The clock that ClientTick lets go on, Tick's own guard does not hold back.
DeadlinesBoundCalls ==
  (\A c \in Callers : pc[c] = "sending" => now < attemptEnd[c])
    => \A c \in InFlight : now - admittedAt[c] < CallTimeout

\* What the steps of one caller leave of the others.
LEMMA OthersOnTime ==
  ASSUME OnTimeInv, NEW c \in Callers, now' = now, OnTime(c)',
         \A d \in Callers \ {c} :
           /\ pc'[d] = pc[d] /\ deadline'[d] = deadline[d]
           /\ attemptEnd'[d] = attemptEnd[d] /\ admittedAt'[d] = admittedAt[d]
  PROVE  OnTimeInv'
  <1> SUFFICES ASSUME NEW d \in Callers, d # c PROVE OnTime(d)'
    BY DEF OnTimeInv
  <1>1. d \in InFlight' <=> d \in InFlight
    BY DEF InFlight
  <1>2. QED
    BY <1>1 DEF OnTimeInv, OnTime

\* A caller that is not waiting for an answer has nothing in flight.
LEMMA NotInFlight ==
  ASSUME OnTimeInv, NEW c \in Callers, pc[c] # "sending"
  PROVE  c \notin InFlight
  BY DEF OnTimeInv, OnTime

\* How a step of the breaker ends the call of c, if it had one.
LEMMA Ended ==
  ASSUME TypeOK, OnTimeInv, NEW c \in Callers,
         \/ (UNCHANGED vars \/ Reject(c)) /\ pc[c] # "sending"
         \/ \E err : Done(c, err)
         \/ Panic(c)
  PROVE  /\ now' = now /\ c \notin InFlight'
         /\ \A d \in Callers \ {c} : admittedAt'[d] = admittedAt[d]
  <1>1. CASE (UNCHANGED vars \/ Reject(c)) /\ pc[c] # "sending"
    BY <1>1, NotInFlight DEF Reject, vars, InFlight
  <1>2. CASE \E err : Done(c, err)
    BY <1>2, FinishTimes, FinishRemoves DEF Done
  <1>3. CASE Panic(c)
    BY <1>3, FinishTimes, FinishRemoves DEF Panic
  <1>4. QED
    BY <1>1, <1>2, <1>3

LEMMA ReturnOnTime ==
  ASSUME LoopInv, OnTimeInv, NEW c \in Callers, NEW err, Return(c, err),
         now' = now, c \notin InFlight',
         \A d \in Callers \ {c} : admittedAt'[d] = admittedAt[d]
  PROVE  OnTimeInv'
  <1>1. /\ pc' = [pc EXCEPT ![c] = "idle"]
        /\ deadline' = [deadline EXCEPT ![c] = Unlimited]
        /\ attemptEnd' = [attemptEnd EXCEPT ![c] = Unlimited]
    BY DEF Return, Goto
  <1>2. /\ pc'[c] = "idle"
        /\ \A d \in Callers \ {c} :
             /\ pc'[d] = pc[d] /\ deadline'[d] = deadline[d]
             /\ attemptEnd'[d] = attemptEnd[d]
    BY <1>1 DEF LoopInv
  <1>3. OnTime(c)'
    BY <1>2 DEF OnTime
  <1>4. QED
    BY <1>2, <1>3, OthersOnTime

LEMMA AfterAttemptOnTime ==
  ASSUME LoopInv, OnTimeInv, NEW c \in Callers, NEW err, AfterAttempt(c, err),
         pc[c] # "idle", now' = now, c \notin InFlight',
         \A d \in Callers \ {c} : admittedAt'[d] = admittedAt[d]
  PROVE  OnTimeInv'
  <1>1. CASE ~GoesRound(c, err)
    BY <1>1, ReturnOnTime DEF AfterAttempt
  <1>2. CASE GoesRound(c, err)
    <2>1. pc' = [pc EXCEPT ![c] = "budget"] /\ UNCHANGED <<deadline, attemptEnd>>
      BY <1>2 DEF AfterAttempt, Goto
    <2>2. pc'[c] = "budget" /\ \A d \in Callers \ {c} : pc'[d] = pc[d]
      BY <2>1 DEF LoopInv
    <2>3. OnTime(c)'
      BY <2>1, <2>2 DEF OnTimeInv, OnTime
    <2>4. QED
      BY <2>1, <2>2, <2>3, OthersOnTime
  <1>3. QED
    BY <1>1, <1>2

LEMMA OnTimeInductive ==
  ASSUME \A d \in Deadlines : d <= CallTimeout,
         LoopInv, TypeOK, OnTimeInv, [ClientNext]_allVars
  PROVE  OnTimeInv'
  <1>t. /\ now \in Nat /\ CallTimeout \in Nat /\ Buffer \in Nat
        /\ Deadlines \subseteq Nat
        /\ \A c \in Callers : deadline[c] \in Int /\ attemptEnd[c] \in Int
    BY ClientAssumption, BreakerAssumption DEF LoopInv
  <1>1. ASSUME NEW c \in Callers, Call(c) PROVE OnTimeInv'
    <2>1. PICK d \in Deadlines :
            deadline' = [deadline EXCEPT ![c] =
                           IF d = Unlimited THEN d ELSE now + d]
      BY <1>1 DEF Call
    <2>2. deadline'[c] <= now + CallTimeout
      <3>1. d \in Nat /\ d <= CallTimeout
        BY <1>t
      <3>2. QED
        BY <2>1, <3>1, <1>t DEF LoopInv
    <2>3. PICK label \in {"derive", "admit"} : pc' = [pc EXCEPT ![c] = label]
      BY <1>1 DEF Call, Goto
    <2>4. /\ attemptEnd' = [attemptEnd EXCEPT ![c] = deadline'[c]]
          /\ now' = now /\ admittedAt' = admittedAt /\ c \notin InFlight'
      BY <1>1, NotInFlight DEF Call, vars, InFlight
    <2>5. /\ pc'[c] = label /\ attemptEnd'[c] = deadline'[c]
          /\ \A e \in Callers \ {c} :
               /\ pc'[e] = pc[e] /\ deadline'[e] = deadline[e]
               /\ attemptEnd'[e] = attemptEnd[e]
      BY <2>1, <2>3, <2>4 DEF LoopInv
    <2>6. OnTime(c)'
      BY <2>2, <2>4, <2>5 DEF OnTime
    <2>7. QED
      BY <2>4, <2>5, <2>6, OthersOnTime
  <1>2. ASSUME NEW c \in Callers, Derive(c) PROVE OnTimeInv'
    <2>1. /\ pc[c] = "derive" /\ pc' = [pc EXCEPT ![c] = "admit"]
          /\ attemptEnd' = [attemptEnd EXCEPT ![c] = Narrowed(c)]
          /\ deadline' = deadline /\ now' = now /\ admittedAt' = admittedAt
      BY <1>2 DEF Derive, Goto, vars
    <2>2. Narrowed(c) \in Int /\ Narrowed(c) <= deadline[c]
      BY <1>t DEF Narrowed, Unlimited
    <2>3. /\ pc'[c] = "admit" /\ attemptEnd'[c] = Narrowed(c)
          /\ \A e \in Callers \ {c} :
               pc'[e] = pc[e] /\ attemptEnd'[e] = attemptEnd[e]
      BY <2>1 DEF LoopInv
    <2>4. c \notin InFlight'
      BY <2>1, NotInFlight DEF InFlight
    <2>5. deadline[c] <= now + CallTimeout
      BY <2>1 DEF OnTimeInv, OnTime
    <2>6. OnTime(c)'
      BY <2>1, <2>2, <2>3, <2>4, <2>5, <1>t DEF OnTime
    <2>7. QED
      BY <2>1, <2>3, <2>6, OthersOnTime
  <1>3. ASSUME NEW c \in Callers,
               \/ DeriveRefused(c) \/ RetryRefused(c) \/ SleepCut(c)
               \/ Panic(c)
        PROVE  OnTimeInv'
    <2>1. PICK err : Return(c, err)
      BY <1>3 DEF DeriveRefused, RetryRefused, SleepCut, Panic
    <2>2. /\ now' = now /\ c \notin InFlight'
          /\ \A d \in Callers \ {c} : admittedAt'[d] = admittedAt[d]
      BY <1>3, Ended DEF DeriveRefused, RetryRefused, SleepCut
    <2>3. QED
      BY <2>1, <2>2, ReturnOnTime
  <1>4. ASSUME NEW c \in Callers, Send(c) PROVE OnTimeInv'
    <2>1. /\ pc[c] = "admit" /\ pc' = [pc EXCEPT ![c] = "sending"]
          /\ UNCHANGED <<deadline, attemptEnd>>
          /\ Begin(c) /\ now' = now
      BY <1>4 DEF Send, Goto, AllowClosed, AllowFirstProbe, AllowProbe
    <2>2. /\ pc'[c] = "sending" /\ admittedAt'[c] = now
          /\ \A e \in Callers \ {c} :
               pc'[e] = pc[e] /\ admittedAt'[e] = admittedAt[e]
      BY <2>1, BeginTimes DEF LoopInv
    <2>3. OnTime(c)'
      BY <2>1, <2>2 DEF OnTimeInv, OnTime
    <2>4. QED
      BY <2>1, <2>2, <2>3, OthersOnTime
  <1>5. ASSUME NEW c \in Callers, Rejected(c) \/ Answered(c) \/ ContextEnds(c)
        PROVE  OnTimeInv'
    <2>1. PICK err : AfterAttempt(c, err)
      BY <1>5 DEF Rejected, Answered, ContextEnds
    <2>2. pc[c] # "idle"
      BY <1>5 DEF Rejected, Answered, ContextEnds
    <2>3. /\ now' = now /\ c \notin InFlight'
          /\ \A d \in Callers \ {c} : admittedAt'[d] = admittedAt[d]
      BY <1>5, Ended DEF Rejected, Answered, ContextEnds
    <2>4. QED
      BY <2>1, <2>2, <2>3, AfterAttemptOnTime
  <1>6. ASSUME NEW c \in Callers, RetryAllowed(c) \/ Wake(c) PROVE OnTimeInv'
    <2>1. PICK label \in {"sleeping", "derive"} :
            pc[c] \in Labels \ {"idle", "sending"}
              /\ pc' = [pc EXCEPT ![c] = label]
      BY <1>6 DEF RetryAllowed, Wake, Goto, Labels
    <2>2. /\ UNCHANGED <<deadline, attemptEnd, admittedAt, now>>
      BY <1>6 DEF RetryAllowed, Wake, vars
    <2>3. c \notin InFlight'
      BY <2>1, <2>2, NotInFlight DEF InFlight
    <2>4. pc'[c] = label /\ \A e \in Callers \ {c} : pc'[e] = pc[e]
      BY <2>1 DEF LoopInv
    <2>5. OnTime(c)'
      BY <2>1, <2>2, <2>3, <2>4 DEF OnTimeInv, OnTime
    <2>6. QED
      BY <2>2, <2>4, <2>5, OthersOnTime
  <1>7. CASE (\E c \in Callers : Cancel(c)) \/ ClientTick \/ ClientHorizon
             \/ UNCHANGED allVars
    <2>1. /\ UNCHANGED <<pc, deadline, attemptEnd, admittedAt>>
          /\ now' \in Nat /\ now' >= now
      BY <1>7, <1>t
      DEF Cancel, ClientTick, Tick, ClientHorizon, allVars, vars, clientVars
    <2>2. QED
      BY <2>1, <1>t DEF OnTimeInv, OnTime, InFlight
  <1>8. QED
    BY <1>1, <1>2, <1>3, <1>4, <1>5, <1>6, <1>7 DEF ClientNext, Proceed

\* When no caller is given more time than CallTimeout, the deadline that every
\* attempt inherits ends it within CallTimeout of its admission, retries and
\* backoff before it included: what Breaker's clock takes for granted of its
\* callers, the client sees to (deadline.go:58-83, resilience.go:48-98).
THEOREM DeadlinesEndCalls ==
  ASSUME \A d \in Deadlines : d <= CallTimeout
  PROVE  ClientSpec => []DeadlinesBoundCalls
  <1>1. ClientInit => OnTimeInv
    BY DEF ClientInit, Init, OnTimeInv, OnTime, InFlight
  <1>2. LoopInv /\ RestInv /\ OnTimeInv /\ [ClientNext]_allVars => OnTimeInv'
    BY OnTimeInductive DEF RestInv
  <1>3. LoopInv /\ RestInv /\ OnTimeInv => DeadlinesBoundCalls
    <2> SUFFICES ASSUME LoopInv, RestInv, OnTimeInv, NEW c \in InFlight,
                        \A d \in Callers : pc[d] = "sending" => now < attemptEnd[d]
                 PROVE  now - admittedAt[c] < CallTimeout
      BY DEF DeadlinesBoundCalls
    <2>1. c \in Callers /\ admittedAt[c] \in Nat /\ now \in Nat
      BY DEF RestInv, TypeOK, InFlight
    <2>2. now < attemptEnd[c] /\ attemptEnd[c] <= admittedAt[c] + CallTimeout
      BY <2>1 DEF OnTimeInv, OnTime
    <2>3. attemptEnd[c] \in Int /\ CallTimeout \in Nat
      BY <2>1, BreakerAssumption DEF LoopInv
    <2>4. QED
      BY <2>1, <2>2, <2>3
  <1>4. QED
    BY <1>1, <1>2, <1>3, LoopInvHolds, RestInvHolds, PTL DEF ClientSpec

-------------------------------------------------------------------------------
(* How long a call can take. *)

\* How many more steps a call can take: up to five on each turn of the loop, from
\* the budget's decision to the attempt on the wire.
Place ==
  [budget |-> 5, sleeping |-> 4, derive |-> 3, admit |-> 2, sending |-> 1,
   idle |-> 0]

StepsLeft(c) ==
  IF pc[c] = "idle" THEN 0 ELSE 5 * (MaxAttempts - attempt[c]) + Place[pc[c]]

LEMMA StepsLeftType ==
  ASSUME LoopInv, NEW c \in Callers
  PROVE  /\ StepsLeft(c) \in Nat
         /\ pc[c] # "idle" => StepsLeft(c) > 0
  <1>1. MaxAttempts - attempt[c] \in Nat /\ pc[c] \in Labels
    BY ClientAssumption DEF LoopInv, Bounded
  <1>2. Place[pc[c]] \in Nat /\ (pc[c] # "idle" => Place[pc[c]] > 0)
    BY <1>1 DEF Labels, Place
  <1>3. QED
    BY <1>1, <1>2 DEF StepsLeft

\* What one caller's step does to its own count, and to the others'.
Advances(c) ==
  /\ StepsLeft(c)' < StepsLeft(c)
  /\ \A d \in Callers \ {c} : pc'[d] = pc[d]

LEMMA ReturnAdvances ==
  ASSUME LoopInv, NEW c \in Callers, NEW err, Return(c, err), pc[c] # "idle"
  PROVE  Advances(c)
  <1>1. pc'[c] = "idle" /\ \A d \in Callers \ {c} : pc'[d] = pc[d]
    BY DEF Return, Goto, LoopInv
  <1>2. StepsLeft(c)' = 0
    BY <1>1 DEF StepsLeft
  <1>3. QED
    BY <1>1, <1>2, StepsLeftType DEF Advances

LEMMA GotoAdvances ==
  ASSUME LoopInv, NEW c \in Callers, NEW label \in Labels \ {"idle"},
         Goto(c, label), attempt' = attempt, pc[c] # "idle",
         Place[label] < Place[pc[c]]
  PROVE  Advances(c)
  <1>1. pc'[c] = label /\ \A d \in Callers \ {c} : pc'[d] = pc[d]
    BY DEF Goto, LoopInv
  <1>2. /\ MaxAttempts - attempt[c] \in Nat /\ pc[c] \in Labels
        /\ Place' = Place
    BY ClientAssumption DEF LoopInv, Bounded, Place
  <1>3. Place[pc[c]] \in Nat /\ Place[label] \in Nat
    BY <1>2 DEF Labels, Place
  <1>4. StepsLeft(c)' = 5 * (MaxAttempts - attempt[c]) + Place[label]
    BY <1>1, <1>2 DEF StepsLeft
  <1>5. QED
    BY <1>1, <1>2, <1>3, <1>4 DEF StepsLeft, Advances

LEMMA AfterAttemptAdvances ==
  ASSUME LoopInv, NEW c \in Callers, NEW err, AfterAttempt(c, err),
         pc[c] \in {"admit", "sending"}
  PROVE  Advances(c)
  <1>1. CASE ~GoesRound(c, err)
    BY <1>1, ReturnAdvances DEF AfterAttempt
  <1>2. CASE GoesRound(c, err)
    <2>1. /\ pc' = [pc EXCEPT ![c] = "budget"]
          /\ attempt' = [attempt EXCEPT ![c] = @ + 1]
      BY <1>2 DEF AfterAttempt, Goto
    <2>2. /\ pc'[c] = "budget" /\ attempt'[c] = attempt[c] + 1
          /\ \A d \in Callers \ {c} : pc'[d] = pc[d]
          /\ attempt[c] \in Nat /\ MaxAttempts \in Int
      BY <2>1, ClientAssumption DEF LoopInv
    <2>3. Place["budget"] = 5 /\ Place[pc[c]] \in {1, 2} /\ Place' = Place
      BY DEF Place
    <2>4. QED
      BY <2>2, <2>3 DEF StepsLeft, Advances
  <1>3. QED
    BY <1>1, <1>2

\* Each step of a call is one step nearer to its end: a call goes round no more
\* than MaxAttempts times, whatever comes back, and takes no more than
\* 5 * (MaxAttempts + 1) steps; what is left to EveryCallReturns is that none of
\* them waits for ever (retry.go:236-300).
THEOREM CallsWindDown ==
  ClientSpec => [][\A c \in Callers : pc[c] # "idle" /\ pc'[c] # pc[c]
                     => StepsLeft(c)' < StepsLeft(c)]_allVars
  <1> DEFINE Step == \A c \in Callers : pc[c] # "idle" /\ pc'[c] # pc[c]
                       => StepsLeft(c)' < StepsLeft(c)
  <1>1. ASSUME LoopInv, [ClientNext]_allVars PROVE Step
    <2>1. ASSUME NEW c \in Callers,
                 DeriveRefused(c) \/ RetryRefused(c) \/ SleepCut(c) \/ Panic(c)
          PROVE  Advances(c)
      BY <1>1, <2>1, ReturnAdvances
      DEF DeriveRefused, RetryRefused, SleepCut, Panic
    <2>2. ASSUME NEW c \in Callers,
                 Rejected(c) \/ Answered(c) \/ ContextEnds(c)
          PROVE  Advances(c)
      BY <1>1, <2>2, AfterAttemptAdvances DEF Rejected, Answered, ContextEnds
    <2>3. ASSUME NEW c \in Callers,
                 Derive(c) \/ Send(c) \/ RetryAllowed(c) \/ Wake(c)
          PROVE  Advances(c)
      <3>1. PICK label \in Labels \ {"idle"} :
              /\ Goto(c, label) /\ attempt' = attempt /\ pc[c] # "idle"
              /\ Place[label] < Place[pc[c]]
        <4>1. CASE Derive(c)
          BY <4>1 DEF Derive, Labels, Place
        <4>2. CASE Send(c)
          BY <4>2 DEF Send, Labels, Place
        <4>3. CASE RetryAllowed(c)
          <5>1. pc[c] = "budget" /\ Goto(c, "sleeping") /\ attempt' = attempt
            BY <4>3 DEF RetryAllowed
          <5>2. QED
            BY <5>1 DEF Labels, Place
        <4>4. CASE Wake(c)
          BY <4>4 DEF Wake, Labels, Place
        <4>5. QED
          BY <2>3, <4>1, <4>2, <4>3, <4>4
      <3>2. QED
        BY <1>1, <3>1, GotoAdvances
    <2>4. ASSUME NEW c \in Callers, Advances(c) PROVE Step
      BY <2>4 DEF Advances
    <2>5. ASSUME NEW c \in Callers, Call(c) PROVE Step
      BY <1>1, <2>5 DEF Call, Goto, LoopInv
    <2>6. CASE pc' = pc
      BY <2>6
    <2>7. QED
      BY <1>1, <2>1, <2>2, <2>3, <2>4, <2>5, <2>6
      DEF ClientNext, Proceed, Cancel, ClientTick, ClientHorizon, allVars,
          clientVars
  <1>2. LoopInv /\ [ClientNext]_allVars => [Step]_allVars
    BY <1>1
  <1>3. QED
    BY <1>2, LoopInvHolds, PTL DEF ClientSpec
================================================================================
