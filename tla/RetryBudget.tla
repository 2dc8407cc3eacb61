------------------------------ MODULE RetryBudget ------------------------------
(*****************************************************************************)
(* The retry budget that every client of a service shares                    *)
(* (src/v1/resilience/budget/budget.go) and the two SlidingCounters it is    *)
(* made of (src/v1/resilience/classify.go:156-237).                          *)
(*                                                                           *)
(* Each counter has a mutex of its own and reads the clock itself, so Allow, *)
(* which holds b.mu throughout, is three steps: sum the requests, sum the    *)
(* retries, decide and charge.  RecordRequest does not take b.mu: it and the *)
(* clock may step in between.                                                *)
(*****************************************************************************)
EXTENDS SlidingWindow, FiniteSets

CONSTANTS
  Callers,             \* goroutines inside Retrier.Do
  RatioNum, RatioDen,  \* cfg.Ratio as a fraction
  Floor,               \* cfg.MinPerSecond * cfg.Window.Seconds()
  None,                \* b.mu is free
  MaxNow,              \* bound: the clock stops here
  MaxRequests,         \* bound: logical calls in a behaviour
  MaxRetries           \* bound: retries asked for by one logical call

\* Config.Validate, but for the window, which SlidingWindow assumes positive.
ValidBudget ==
  /\ 0 <= RatioNum /\ RatioNum <= RatioDen
  /\ Floor >= 0

ASSUME BudgetAssumption ==
  /\ RatioNum \in Int /\ RatioDen \in Nat \ {0} /\ Floor \in Int
  /\ ValidBudget
  /\ None \notin Callers
  /\ MaxNow \in Nat /\ MaxRequests \in Nat /\ MaxRetries \in Nat

VARIABLES
  now,
  requests,    \* b.requests: its ring
  retries,     \* b.retries: its ring
  exhausted,   \* b.exhausted
  mu,          \* who holds b.mu
  pc,          \* per caller: where it is in Do and Allow
  total, used, \* per caller: the two sums Allow has read
  \* Auxiliary: no action reads these three.
  asked,       \* per caller: retries asked for by its current call
  requestLog,  \* per tick: requests recorded at that time
  retryLog     \* per tick: retries charged at that time

vars == <<now, requests, retries, exhausted, mu, pc, total, used, asked,
          requestLog, retryLog>>

Times == 0 .. MaxNow

-------------------------------------------------------------------------------
(* Budget. *)

Init ==
  /\ now = 0
  /\ requests = EmptyCounter
  /\ retries = EmptyCounter
  /\ exhausted = 0
  /\ mu = None
  /\ pc = [c \in Callers |-> "idle"]
  /\ total = [c \in Callers |-> 0]
  /\ used = [c \in Callers |-> 0]
  /\ asked = [c \in Callers |-> 0]
  /\ requestLog = [t \in Times |-> 0]
  /\ retryLog = [t \in Times |-> 0]

\* Do counts a logical call once, whatever number of attempts it makes.
RecordRequest(c) ==
  /\ pc[c] = "idle"
  /\ SumFunction(requestLog) < MaxRequests
  /\ requests' = Add(requests, now)
  /\ requestLog' = [requestLog EXCEPT ![now] = @ + 1]
  /\ pc' = [pc EXCEPT ![c] = "calling"]
  /\ asked' = [asked EXCEPT ![c] = 0]
  /\ UNCHANGED <<now, retries, exhausted, mu, total, used, retryLog>>

\* A mutated form: Allow without the mutex.
MuNotTaken == TRUE

MuFree == mu = None

\* The attempt failed with a retryable error, and the loop goes round: Allow
\* takes b.mu and sums the requests.
SumRequests(c) ==
  /\ pc[c] = "calling" /\ asked[c] < MaxRetries
  /\ MuFree
  /\ mu' = c
  /\ total' = [total EXCEPT ![c] = Sum(requests, now)]
  /\ asked' = [asked EXCEPT ![c] = @ + 1]
  /\ pc' = [pc EXCEPT ![c] = "summing"]
  /\ UNCHANGED <<now, requests, retries, exhausted, used, requestLog, retryLog>>

SumRetries(c) ==
  /\ pc[c] = "summing"
  /\ used' = [used EXCEPT ![c] = Sum(retries, now)]
  /\ pc' = [pc EXCEPT ![c] = "deciding"]
  /\ UNCHANGED <<now, requests, retries, exhausted, mu, total, asked,
                 requestLog, retryLog>>

\* Allow's locals are gone when it returns.
Return(c) ==
  /\ total' = [total EXCEPT ![c] = 0]
  /\ used' = [used EXCEPT ![c] = 0]

\* A mutated form: the early return forgets the mutex.
UnlockNot == UNCHANGED mu

\* defer b.mu.Unlock()
Unlock == mu' = None

\* used < total*Ratio + MinPerSecond*Window.Seconds()
Fits(c) == used[c] * RatioDen < total[c] * RatioNum + Floor * RatioDen

Charge(c) ==
  /\ pc[c] = "deciding" /\ Fits(c)
  /\ retries' = Add(retries, now)
  /\ retryLog' = [retryLog EXCEPT ![now] = @ + 1]
  /\ Unlock
  /\ pc' = [pc EXCEPT ![c] = "calling"]
  /\ Return(c)
  /\ UNCHANGED <<now, requests, exhausted, asked, requestLog>>

\* The budget refuses, and Do returns the last error.
Refuse(c) ==
  /\ pc[c] = "deciding" /\ ~Fits(c)
  /\ exhausted' = exhausted + 1
  /\ Unlock
  /\ pc' = [pc EXCEPT ![c] = "idle"]
  /\ Return(c)
  /\ UNCHANGED <<now, requests, retries, asked, requestLog, retryLog>>

\* The call is over without a further retry: answered, or out of attempts.
Finish(c) ==
  /\ pc[c] = "calling"
  /\ pc' = [pc EXCEPT ![c] = "idle"]
  /\ UNCHANGED <<now, requests, retries, exhausted, mu, total, used, asked,
                 requestLog, retryLog>>

Tick ==
  /\ now < MaxNow
  /\ now' = now + 1
  /\ UNCHANGED <<requests, retries, exhausted, mu, pc, total, used, asked,
                 requestLog, retryLog>>

\* The bounds of the model, where it ends and the system does not.
Horizon ==
  /\ now = MaxNow /\ SumFunction(requestLog) = MaxRequests
  /\ UNCHANGED vars

Next ==
  \/ \E c \in Callers :
       \/ RecordRequest(c) \/ SumRequests(c) \/ SumRetries(c)
       \/ Charge(c) \/ Refuse(c) \/ Finish(c)
  \/ Tick
  \/ Horizon

Spec == Init /\ [][Next]_vars

-------------------------------------------------------------------------------
(* Properties. *)

\* Type invariant; b.mu is held by the caller inside Allow and by no other.
TypeOK ==
  /\ now \in Times
  /\ requests \in Counter /\ retries \in Counter
  /\ exhausted \in Nat
  /\ mu \in Callers \cup {None}
  /\ \A c \in Callers : pc[c] \in {"summing", "deciding"} <=> mu = c
  /\ pc \in [Callers -> {"idle", "calling", "summing", "deciding"}]
  /\ total \in [Callers -> Nat] /\ used \in [Callers -> Nat]
  /\ asked \in [Callers -> 0 .. MaxRetries]
  /\ requestLog \in [Times -> Nat] /\ retryLog \in [Times -> Nat]

\* What really happened in the last n ticks, from the log.
Happened(log, n) ==
  SumFunctionOnSet(log, {t \in Times : now - n < t /\ t <= now})

\* A counter's Sum is the number of events of the last Window, give or take
\* what fell in the oldest bucket: "bucketing costs a little precision at the
\* window edge" and nowhere else (classify.go:158-161).  The ring spans
\* NumBuckets * Width ticks, which is the Window but for the remainder of its
\* division into buckets.
WindowPrecise ==
  \A p \in {<<requests, requestLog>>, <<retries, retryLog>>} :
    /\ Sum(p[1], now) <= Happened(p[2], WindowLen)
    /\ Sum(p[1], now) >= Happened(p[2], NumBuckets * Width - Width + 1)

\* Two callers never both spend the last of the budget: when a retry is
\* charged, the retries still in the window, the new one excluded, are fewer
\* than the caller was allowed by the requests it saw (budget.go:103-117).
NeverOverspent ==
  [][\A c \in Callers :
       pc[c] = "deciding" /\ pc'[c] = "calling" =>
         Sum(retries, now) * RatioDen
           < total[c] * RatioNum + Floor * RatioDen]_vars
================================================================================
