-------------------------------- MODULE Breaker --------------------------------
(*****************************************************************************)
(* The circuit breaker of one (target, procedure) pair, and the goroutines   *)
(* that call through it (src/v1/resilience/breaker/breaker.go).              *)
(*                                                                           *)
(* Allow and the done callback it returns each run under b.mu, so each is    *)
(* one action; what interleaves is the calls themselves.  A call admitted in *)
(* one state of the breaker may report its result in any later one: done     *)
(* looks at the state it finds, not at the state that admitted the call.     *)
(*****************************************************************************)
EXTENDS Classify, SlidingWindow, FiniteSets

CONSTANTS
  Callers,            \* goroutines calling through this breaker
  Outcomes,           \* what next() may return to them: errors and NoError
  MinimumRequests,
  RatioNum, RatioDen, \* cfg.FailureRatio as a fraction
  OpenDuration,
  HalfOpenMaxCalls,
  HalfOpenSuccesses,
  CallTimeout,        \* no call outlasts this: its context's deadline
  HealthyFrom,        \* from this time on the dependency does not fail
  MaxNow,             \* bound: the clock stops here
  MaxPerBucket        \* bound: arrivals per bucket

\* Config.Validate, but for the window, which SlidingWindow assumes positive.
ValidBreaker ==
  /\ MinimumRequests >= 1
  /\ 0 < RatioNum /\ RatioNum <= RatioDen
  /\ OpenDuration > 0
  /\ HalfOpenMaxCalls >= 1
  /\ HalfOpenSuccesses >= 1

ASSUME BreakerAssumption ==
  /\ Outcomes \subseteq Errors
  /\ IsFiniteSet(Callers)
  /\ MinimumRequests \in Int
  /\ RatioNum \in Int /\ RatioDen \in Nat \ {0}
  /\ OpenDuration \in Int
  /\ HalfOpenMaxCalls \in Int
  /\ HalfOpenSuccesses \in Int
  /\ ValidBreaker
  /\ CallTimeout \in Nat \ {0}
  /\ HealthyFrom \in Nat
  /\ MaxNow \in Nat
  /\ MaxPerBucket \in Nat

VARIABLES
  now,            \* clock.Now()
  state,          \* b.state
  buckets,        \* b.buckets
  openedAt,       \* b.openedAt
  halfOpen,       \* b.halfOpen
  consecutiveOK,  \* b.consecutiveOK
  admittedAt,     \* per caller: when Allow admitted its call, NoCall if idle
  \* Auxiliary: no action reads these two.
  probes,         \* calls admitted by the current (latest) half-open period
  goodProbes      \* how many of that period's calls have succeeded

vars == <<now, state, buckets, openedAt, halfOpen, consecutiveOK, admittedAt,
          probes, goodProbes>>

States == {"closed", "open", "half_open"}
NoCall == -1

InFlight == {c \in Callers : admittedAt[c] # NoCall}

-------------------------------------------------------------------------------
(* The window. *)

EmptyBucket(start) == [start |-> start, total |-> 0, failures |-> 0]

\* A mutated form: an expired bucket keeps its counts.
CurrentBucketStale(ring, t) == [ring[SlotOf(t)] EXCEPT !.start = StartOf(t)]

\* currentBucket: the bucket of time t, emptied first if it has expired.
CurrentBucket(ring, t) ==
  IF Expired(ring, t) THEN EmptyBucket(StartOf(t)) ELSE ring[SlotOf(t)]

\* record, lines 221-225: count one result at time now.
Counted(err) ==
  LET cur == CurrentBucket(buckets, now)
      inc == IF CountsAsFailure(err) THEN 1 ELSE 0
  IN  [buckets EXCEPT ![SlotOf(now)] =
         [start |-> cur.start, total |-> cur.total + 1,
          failures |-> cur.failures + inc]]

Total(ring, t) == WindowSum(ring, t, "total")
Failures(ring, t) == WindowSum(ring, t, "failures")

\* The volume gate and the ratio.
ShouldTrip(ring, t) ==
  /\ Total(ring, t) >= MinimumRequests
  /\ Failures(ring, t) * RatioDen >= Total(ring, t) * RatioNum

\* reset: every bucket back to its zero value.
Cleared == [i \in Slots |-> EmptyBucket(ZeroTime)]

-------------------------------------------------------------------------------
(* Allow. *)

\* Bound on the arrivals, so that counts stay finite.
ArrivalBound ==
  CurrentBucket(buckets, now).total + Cardinality(InFlight) < MaxPerBucket

Begin(c) == admittedAt' = [admittedAt EXCEPT ![c] = now]

AllowClosed(c) ==
  /\ admittedAt[c] = NoCall
  /\ ArrivalBound
  /\ state = "closed"
  /\ Begin(c)
  /\ UNCHANGED <<now, state, buckets, openedAt, halfOpen, consecutiveOK,
                 probes, goodProbes>>

\* A mutated form: half a period is enough.
OpenElapsedEarly == 2 * (now - openedAt) >= OpenDuration

OpenElapsed == now - openedAt >= OpenDuration

\* Open, and due: transition to half-open (which zeroes both counters), fall
\* through and take the first probe slot.
AllowFirstProbe(c) ==
  /\ admittedAt[c] = NoCall
  /\ ArrivalBound
  /\ state = "open" /\ OpenElapsed
  /\ Begin(c)
  /\ state' = "half_open"
  /\ halfOpen' = 1
  /\ consecutiveOK' = 0
  /\ probes' = {c}
  /\ goodProbes' = 0
  /\ UNCHANGED <<now, buckets, openedAt>>

\* A mutated form: off by one.
ProbeSlotFreeOffByOne == halfOpen <= HalfOpenMaxCalls

ProbeSlotFree == halfOpen < HalfOpenMaxCalls

AllowProbe(c) ==
  /\ admittedAt[c] = NoCall
  /\ ArrivalBound
  /\ state = "half_open" /\ ProbeSlotFree
  /\ Begin(c)
  /\ halfOpen' = halfOpen + 1
  /\ probes' = probes \cup {c}
  /\ UNCHANGED <<now, state, buckets, openedAt, consecutiveOK, goodProbes>>

\* ErrBreakerOpen: Allow changes nothing.
Reject(c) ==
  /\ admittedAt[c] = NoCall
  /\ \/ state = "open" /\ ~OpenElapsed
     \/ state = "half_open" /\ ~ProbeSlotFree
  /\ UNCHANGED vars

Allow(c) == AllowClosed(c) \/ AllowFirstProbe(c) \/ AllowProbe(c) \/ Reject(c)

-------------------------------------------------------------------------------
(* The done callback: record, under b.mu.  sync.Once makes a second call of  *)
(* it a no-op, so a call reports once: it leaves InFlight here.              *)

Finish(c) == admittedAt' = [admittedAt EXCEPT ![c] = NoCall]

\* What the dependency may answer now.
Answers == IF now < HealthyFrom
           THEN Outcomes
           ELSE {err \in Outcomes : ~CountsAsFailure(err)}

Trip ==
  /\ state' = "open"
  /\ openedAt' = now
  /\ halfOpen' = 0
  /\ consecutiveOK' = 0
  /\ probes' = {}

\* Open: the result is counted, and nothing else.
DoneOpen(c, err) ==
  /\ state = "open"
  /\ UNCHANGED <<state, openedAt, halfOpen, consecutiveOK, probes, goodProbes>>

DoneClosed(c, err) ==
  /\ state = "closed"
  /\ IF ShouldTrip(buckets', now)
     THEN Trip /\ UNCHANGED goodProbes
     ELSE UNCHANGED <<state, openedAt, halfOpen, consecutiveOK, probes,
                      goodProbes>>

\* One failed result re-opens, whoever reports it.
DoneHalfOpenFailed(c, err) ==
  /\ state = "half_open" /\ CountsAsFailure(err)
  /\ Trip
  /\ UNCHANGED goodProbes

\* A mutated form: the probe's slot is not given back.
SlotsAfterProbeLeaked == halfOpen

SlotsAfterProbe == halfOpen - 1

\* A mutated form: one success too few.
EnoughSuccessesOffByOne == consecutiveOK + 1 > HalfOpenSuccesses - 2

EnoughSuccesses == consecutiveOK + 1 >= HalfOpenSuccesses

CountProbe(c) ==
  goodProbes' = IF c \in probes THEN goodProbes + 1 ELSE goodProbes

DoneHalfOpenOK(c, err) ==
  /\ state = "half_open" /\ ~CountsAsFailure(err) /\ ~EnoughSuccesses
  /\ halfOpen' = SlotsAfterProbe
  /\ consecutiveOK' = consecutiveOK + 1
  /\ probes' = probes \ {c}
  /\ CountProbe(c)
  /\ UNCHANGED <<state, openedAt>>

\* The last success needed: transition to closed, then reset, which discards
\* the bucket this very result was counted in.
DoneHalfOpenClose(c, err) ==
  /\ state = "half_open" /\ ~CountsAsFailure(err) /\ EnoughSuccesses
  /\ state' = "closed"
  /\ halfOpen' = 0
  /\ consecutiveOK' = 0
  /\ probes' = {}
  /\ CountProbe(c)
  /\ UNCHANGED openedAt

Closes(err) ==
  state = "half_open" /\ ~CountsAsFailure(err) /\ EnoughSuccesses

Done(c, err) ==
  /\ c \in InFlight
  /\ Finish(c)
  /\ buckets' = IF Closes(err) THEN Cleared ELSE Counted(err)
  /\ \/ DoneOpen(c, err)
     \/ DoneClosed(c, err)
     \/ DoneHalfOpenFailed(c, err)
     \/ DoneHalfOpenOK(c, err)
     \/ DoneHalfOpenClose(c, err)
  /\ UNCHANGED now

-------------------------------------------------------------------------------

\* Time passes, but never past the deadline of a call still in flight.
Tick ==
  /\ now < MaxNow
  /\ \A c \in InFlight : now - admittedAt[c] < CallTimeout
  /\ now' = now + 1
  /\ UNCHANGED <<state, buckets, openedAt, halfOpen, consecutiveOK, admittedAt,
                 probes, goodProbes>>

\* The bound of the clock is where the model ends, not the system.
Horizon == now = MaxNow /\ UNCHANGED vars

\* New: closed, every bucket and counter zero, openedAt the zero time.
Init ==
  /\ now = 0
  /\ state = "closed"
  /\ buckets = Cleared
  /\ openedAt = ZeroTime
  /\ halfOpen = 0
  /\ consecutiveOK = 0
  /\ admittedAt = [c \in Callers |-> NoCall]
  /\ probes = {}
  /\ goodProbes = 0

Next ==
  \/ \E c \in Callers : Allow(c)
  \/ \E c \in Callers : \E err \in Answers : Done(c, err)
  \/ Tick
  \/ Horizon

Spec == Init /\ [][Next]_vars

\* Every caller that is admitted finishes (its context's deadline sees to it),
\* callers keep calling, and time passes.
Fairness ==
  /\ \A c \in Callers : WF_vars(Allow(c))
  /\ \A c \in Callers : WF_vars(\E err \in Answers : Done(c, err))
  /\ WF_vars(Tick)

FairSpec == Spec /\ Fairness

-------------------------------------------------------------------------------
(* Properties. *)

\* Type invariant.  The bounds on the two counters are the code's own: Allow
\* never takes a slot beyond HalfOpenMaxCalls, and the success that would
\* bring consecutiveOK to HalfOpenSuccesses closes the breaker instead.  The
\* probe counter has no lower bound: a call admitted before the half-open
\* period also gives back a slot (line 229).
TypeOK ==
  /\ now \in Nat
  /\ state \in States
  /\ buckets \in [Slots -> [start : Int, total : Nat, failures : Nat]]
  /\ openedAt \in Int
  /\ halfOpen \in Int /\ halfOpen <= HalfOpenMaxCalls
  /\ consecutiveOK \in 0 .. HalfOpenSuccesses - 1
  /\ admittedAt \in [Callers -> Nat \cup {NoCall}]
  /\ probes \subseteq Callers
  /\ goodProbes \in Nat

\* While half-open, at most HalfOpenMaxCalls of the calls admitted by this
\* half-open period are in flight at once (breaker.go:58-61).
ProbeCap == state = "half_open" => Cardinality(probes) <= HalfOpenMaxCalls

\* A slot is never lost: a half-open breaker with no probe of its own in flight
\* admits the next call, however late the calls from before it report.  Losing
\* one would wedge it half-open for ever (breaker.go:164-168).
NoSlotLeak == state = "half_open" /\ probes = {} => ProbeSlotFree

\* The breaker closes only on HalfOpenSuccesses successes of calls that this
\* half-open period admitted (breaker.go:62-64): a result that was already
\* under way before the dependency was given its rest is no evidence.
ClosesOnProbes ==
  [][state = "half_open" /\ state' = "closed"
       => goodProbes' >= HalfOpenSuccesses]_vars

\* A half-open breaker is re-opened only by a probe of its own that failed,
\* never by the late answer of a call from before (breaker.go:231-233).
ReopensOnProbe ==
  [][state = "half_open" /\ state' = "open"
       => \E c \in probes : admittedAt'[c] = NoCall]_vars

\* The breaker does not stay open or half-open for ever: once the dependency
\* has recovered for good and callers keep calling, it closes for good.
Recovers == <>[](state = "closed")

-------------------------------------------------------------------------------
(* The refinement mapping under which Breaker implements BreakerSpec. *)

\* The log that a ring stands for at time t: what each bucket inside the window
\* holds, under the start it carries.
RecentOf(ring, t, s) ==
  LET held == {i \in Slots : ring[i].start = s /\ InWindow(s, t)}
  IN  [total |-> SumFunction([i \in held |-> ring[i].total]),
       failures |-> SumFunction([i \in held |-> ring[i].failures])]

Promise == INSTANCE BreakerSpec
  WITH recent <- [s \in 0 .. MaxNow |-> RecentOf(buckets, now, s)],
       calling <- InFlight,
       Precision <- Width

\* The breaker keeps the promises of BreakerSpec: its ring of buckets is a
\* faithful window and its counters a faithful probe cap (breaker.go:169-309).
ImplementsBreakerSpec == Promise!Spec
================================================================================
