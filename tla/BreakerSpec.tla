------------------------------ MODULE BreakerSpec ------------------------------
(*****************************************************************************)
(* What the circuit breaker promises its callers, without its ring of        *)
(* buckets and without its probe counters:                                   *)
(*   - closed, it knows how many results of the last WindowLen ticks were    *)
(*     failures, to the precision of one bucket, and trips on exactly that;  *)
(*   - open, it admits nothing for OpenDuration ticks;                       *)
(*   - half-open, at most HalfOpenMaxCalls probes are in flight; a failed    *)
(*     probe re-opens it, HalfOpenSuccesses successful ones close it, and a  *)
(*     call that is not a probe decides nothing.                             *)
(* Breaker implements this module (Breaker!ImplementsBreakerSpec).           *)
(*****************************************************************************)
EXTENDS Integers, FiniteSets, Functions

CONSTANTS Callers, WindowLen, Precision, MinimumRequests, RatioNum,
          RatioDen, OpenDuration, HalfOpenMaxCalls, HalfOpenSuccesses, MaxNow

VARIABLES
  now,
  state,
  recent,     \* per bucket start: the results recorded in that bucket's time
  openedAt,   \* when it tripped last
  calling,    \* callers with a call in flight
  probes,     \* those of them that were admitted as probes
  goodProbes  \* successful probes of this half-open period

vars == <<now, state, recent, openedAt, calling, probes, goodProbes>>

NoCall == -1
Nothing == [total |-> 0, failures |-> 0]

\* The results of the last WindowLen ticks, as they stand at time t.
StillRecent(log, t) ==
  [s \in 0 .. MaxNow |-> IF s > t - WindowLen THEN log[s] ELSE Nothing]

WithResult(failed) ==
  [recent EXCEPT ![now - (now % Precision)] =
     [total |-> @.total + 1,
      failures |-> @.failures + IF failed THEN 1 ELSE 0]]

TooManyFailures(log) ==
  LET total == SumFunction([s \in DOMAIN log |-> log[s].total])
      failures == SumFunction([s \in DOMAIN log |-> log[s].failures])
  IN  /\ total >= MinimumRequests
      /\ failures * RatioDen >= total * RatioNum

Init ==
  /\ now = 0
  /\ state = "closed"
  /\ recent = [s \in 0 .. MaxNow |-> Nothing]
  /\ openedAt = -WindowLen
  /\ calling = {}
  /\ probes = {}
  /\ goodProbes = 0

Admit(c) ==
  /\ c \notin calling
  /\ calling' = calling \cup {c}
  /\ \/ state = "closed" /\ UNCHANGED <<state, probes, goodProbes>>
     \/ /\ state = "open" /\ now - openedAt >= OpenDuration
        /\ state' = "half_open" /\ probes' = {c} /\ goodProbes' = 0
     \/ /\ state = "half_open" /\ Cardinality(probes) < HalfOpenMaxCalls
        /\ probes' = probes \cup {c} /\ UNCHANGED <<state, goodProbes>>
  /\ UNCHANGED <<now, recent, openedAt>>

TripNow ==
  /\ state' = "open" /\ openedAt' = now /\ probes' = {}

\* A call reports only whether its dependency failed.

\* A result that leaves the state of the breaker as it is.
Counts(c, failed) ==
  /\ recent' = WithResult(failed)
  /\ \/ state = "open" /\ UNCHANGED <<probes, goodProbes>>
     \/ /\ state = "closed" /\ ~TooManyFailures(recent')
        /\ UNCHANGED <<probes, goodProbes>>
     \/ /\ state = "half_open"
        /\ c \in probes =>
             ~failed /\ goodProbes + 1 < HalfOpenSuccesses
        /\ probes' = probes \ {c}
        /\ goodProbes' = IF c \in probes THEN goodProbes + 1 ELSE goodProbes
  /\ UNCHANGED <<state, openedAt>>

Trips(c, failed) ==
  /\ recent' = WithResult(failed)
  /\ \/ state = "closed" /\ TooManyFailures(recent')
     \/ state = "half_open" /\ c \in probes /\ failed
  /\ TripNow
  /\ UNCHANGED goodProbes

Recovered(c, failed) ==
  /\ state = "half_open" /\ c \in probes /\ ~failed
  /\ goodProbes + 1 = HalfOpenSuccesses
  /\ state' = "closed"
  /\ recent' = [s \in 0 .. MaxNow |-> Nothing]
  /\ probes' = {} /\ goodProbes' = goodProbes + 1
  /\ UNCHANGED openedAt

Report(c, failed) ==
  /\ c \in calling
  /\ calling' = calling \ {c}
  /\ Counts(c, failed) \/ Trips(c, failed) \/ Recovered(c, failed)
  /\ UNCHANGED now

Tick ==
  /\ now < MaxNow
  /\ now' = now + 1
  /\ recent' = StillRecent(recent, now')
  /\ UNCHANGED <<state, openedAt, calling, probes, goodProbes>>

Next ==
  \/ \E c \in Callers : Admit(c)
  \/ \E c \in Callers : \E failed \in BOOLEAN : Report(c, failed)
  \/ Tick

Spec == Init /\ [][Next]_vars
================================================================================
