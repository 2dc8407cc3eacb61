----------------------------- MODULE SlidingWindow -----------------------------
(*****************************************************************************)
(* The ring of time buckets that Breaker (src/v1/resilience/breaker) and     *)
(* SlidingCounter (src/v1/resilience/classify.go) each keep: which slot a    *)
(* time falls in, the start it must carry, when its content has expired.     *)
(*                                                                           *)
(* Time is an integer number of ticks since the Unix epoch.  The slot index  *)
(* is computed from time.UnixNano, the bucket's start with time.Truncate,    *)
(* and these two count from different zeros: Truncate rounds from January 1  *)
(* of the year 1.  EpochShift is the distance between the zeros modulo       *)
(* Width; it is 0 for every width that divides a day, and the default        *)
(* (10s in 10 buckets) is one of them.                                       *)
(*****************************************************************************)
EXTENDS Integers, Functions

CONSTANTS
  NumBuckets,   \* cfg.Buckets (New raises anything below 1 to 1)
  WindowLen,    \* cfg.Window
  EpochShift    \* offset of the Unix epoch from Truncate's zero, modulo Width

\* window / time.Duration(n): integer division.
Width == WindowLen \div NumBuckets

ASSUME WindowAssumption ==
  /\ NumBuckets \in Nat \ {0}
  /\ WindowLen \in Nat \ {0}
  /\ Width > 0
  /\ EpochShift \in 0 .. Width - 1

Slots == 0 .. NumBuckets - 1

\* int(now.UnixNano()/int64(width)) % len(buckets)
SlotOf(t) == (t \div Width) % NumBuckets

\* now.Truncate(width)
StartOf(t) == t - ((t + EpochShift) % Width)

\* The zero time.Time of an unused bucket: it lies before every window.
ZeroTime == -WindowLen

\* A mutated form: a window one tick longer.
InWindowClosed(start, t) == start >= t - WindowLen

\* start.After(now.Add(-window)): the window is open on the left.
InWindow(start, t) == start > t - WindowLen

\* Is the slot of time t still holding an earlier turn of the ring?
Expired(ring, t) == ring[SlotOf(t)].start # StartOf(t)

\* The sum of one field over the buckets that are inside the window at t.
WindowSum(ring, t, field) ==
  SumFunction([i \in Slots |->
                 IF InWindow(ring[i].start, t) THEN ring[i][field] ELSE 0])

-------------------------------------------------------------------------------
(* SlidingCounter: a ring of single values (classify.go:156-237). *)

Counter == [Slots -> [start : Int, value : Nat]]

EmptyCounter == [i \in Slots |-> [start |-> ZeroTime, value |-> 0]]

\* A mutated form: the slot is reused without being recycled.
AddStale(ring, t) ==
  [ring EXCEPT ![SlotOf(t)] = [start |-> StartOf(t), value |-> @.value + 1]]

\* Add(1) at time t: bucketLocked recycles an expired bucket, then counts.
Add(ring, t) ==
  [ring EXCEPT ![SlotOf(t)] =
     [start |-> StartOf(t),
      value |-> IF Expired(ring, t) THEN 1 ELSE @.value + 1]]

\* Sum at time t.
Sum(ring, t) == WindowSum(ring, t, "value")
================================================================================
