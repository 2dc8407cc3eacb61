----------------------------- MODULE BreakerProofs -----------------------------
(*****************************************************************************)
(* Proofs about Breaker, for every value of its constants: the two           *)
(* predicates of Classify it is built on, its types, its probe slots, and    *)
(* that it implements BreakerSpec.                                           *)
(*****************************************************************************)
EXTENDS Breaker, SlidingWindowProofs

-------------------------------------------------------------------------------
(* The classification of errors. *)

\* An error that a peer sent is counted by the breaker exactly when its code is
\* in the documented table of server faults (classify.go:57-92).
THEOREM BreakerCountsTheTable == CountsTheTable
BY DEF CountsTheTable, CountsAsFailure, PeerError, NoError, CallerGaveUp,
       ClientFaults, FaultTable, Codes

\* Whatever is retried is counted as well (classify.go:97-99).
THEOREM RetriedErrorsAreCounted == RetriedIsCounted
BY DEF RetriedIsCounted, IsRetryable, CountsAsFailure, CallerGaveUp,
       ClientFaults

\* A breaker's rejection, however wrapped, and the bare end of a context are
\* neither counted nor retried (classify.go:42-55, 105-123).
THEOREM OwnErrorsAreInert == OwnErrorsInert
BY DEF OwnErrorsInert, CountsAsFailure, IsRetryable, CallerGaveUp,
       LocalDeadline

-------------------------------------------------------------------------------
(* The breaker, whoever drives it: its steps as Next has them, but for what    *)
(* its callers report, which may be anything.  Spec drives it so, and so does  *)
(* the client of ClientProofs; what follows from AnySpec holds of both.        *)

AnyStep ==
  \/ \E c \in Callers : Allow(c) \/ \E err : Done(c, err)
  \/ Tick

AnySpec == Init /\ [][AnyStep]_vars

LEMMA SpecIsAny == Spec => AnySpec
  <1>1. [Next]_vars => [AnyStep]_vars
    BY DEF Next, AnyStep, Horizon
  <1>2. QED
    BY <1>1, PTL DEF Spec, AnySpec

-------------------------------------------------------------------------------
(* Types. *)

Bucket == [start : Int, total : Nat, failures : Nat]

\* Counting a result leaves a well-formed ring (breaker.go:221-225).
LEMMA CountedType ==
  ASSUME TypeOK, NEW err
  PROVE  Counted(err) \in [Slots -> Bucket]
  <1> DEFINE cur == CurrentBucket(buckets, now)
             inc == IF CountsAsFailure(err) THEN 1 ELSE 0
             new == [start |-> cur.start, total |-> cur.total + 1,
                    failures |-> cur.failures + inc]
  <1>1. SlotOf(now) \in Slots /\ StartOf(now) \in Int
    BY SlotAndStart DEF TypeOK
  <1>2. cur \in Bucket
    BY <1>1 DEF CurrentBucket, EmptyBucket, TypeOK, Bucket
  <1>3. inc \in Nat
    OBVIOUS
  <1>4. new \in Bucket
    <2> HIDE DEF cur, inc
    <2> QED BY <1>2, <1>3 DEF Bucket
  <1>5. Counted(err) = [buckets EXCEPT ![SlotOf(now)] = new]
    BY DEF Counted
  <1> HIDE DEF new
  <1>6. QED
    BY <1>1, <1>4, <1>5 DEF TypeOK, Bucket

\* An emptied ring is well formed (breaker.go:279-285).
LEMMA ClearedType == Cleared \in [Slots -> Bucket]
  BY WindowAssumption DEF Cleared, EmptyBucket, ZeroTime, Bucket

-------------------------------------------------------------------------------

\* Every step of the breaker and of its callers preserves the types and the
\* bounds that the code's guards keep (breaker.go:169-285).
LEMMA AllowKeepsTypes ==
  ASSUME TypeOK, NEW c \in Callers, Allow(c)
  PROVE  TypeOK'
  <1> USE BreakerAssumption DEF ValidBreaker
  <1>1. CASE AllowClosed(c)
    BY <1>1 DEF AllowClosed, Begin, TypeOK
  <1>2. CASE AllowFirstProbe(c)
    BY <1>2 DEF AllowFirstProbe, Begin, TypeOK, States
  <1>3. CASE AllowProbe(c)
    BY <1>3 DEF AllowProbe, ProbeSlotFree, Begin, TypeOK
  <1>4. CASE Reject(c)
    BY <1>4 DEF Reject, vars, TypeOK
  <1>5. QED
    BY <1>1, <1>2, <1>3, <1>4 DEF Allow

LEMMA DoneKeepsTypes ==
  ASSUME TypeOK, NEW c \in Callers, NEW err, Done(c, err)
  PROVE  TypeOK'
  <1> USE BreakerAssumption DEF ValidBreaker
  <1>1. buckets' \in [Slots -> [start : Int, total : Nat, failures : Nat]]
    BY CountedType, ClearedType DEF Done, Bucket
  <1>2. now' \in Nat /\ admittedAt' \in [Callers -> Nat \cup {NoCall}]
    BY DEF Done, Finish, TypeOK
  <1>3. CASE DoneOpen(c, err)
    BY <1>1, <1>2, <1>3 DEF DoneOpen, TypeOK
  <1>4. CASE DoneClosed(c, err)
    <2>1. CASE Trip /\ UNCHANGED goodProbes
      BY <1>1, <1>2, <2>1 DEF Trip, TypeOK, States
    <2>2. CASE UNCHANGED <<state, openedAt, halfOpen, consecutiveOK, probes,
                           goodProbes>>
      BY <1>1, <1>2, <2>2 DEF TypeOK
    <2>3. QED
      BY <1>4, <2>1, <2>2 DEF DoneClosed
  <1>5. CASE DoneHalfOpenFailed(c, err)
    BY <1>1, <1>2, <1>5 DEF DoneHalfOpenFailed, Trip, TypeOK, States
  <1>6. CASE DoneHalfOpenOK(c, err)
    BY <1>1, <1>2, <1>6
    DEF DoneHalfOpenOK, SlotsAfterProbe, EnoughSuccesses, CountProbe, TypeOK
  <1>7. CASE DoneHalfOpenClose(c, err)
    BY <1>1, <1>2, <1>7 DEF DoneHalfOpenClose, CountProbe, TypeOK, States
  <1>8. QED
    BY <1>3, <1>4, <1>5, <1>6, <1>7 DEF Done

LEMMA TypeInductive == TypeOK /\ [AnyStep]_vars => TypeOK'
  <1> SUFFICES ASSUME TypeOK, [AnyStep]_vars PROVE TypeOK'
    OBVIOUS
  <1>1. ASSUME NEW c \in Callers, Allow(c) PROVE TypeOK'
    BY <1>1, AllowKeepsTypes
  <1>2. ASSUME NEW c \in Callers, NEW err, Done(c, err) PROVE TypeOK'
    BY <1>2, DoneKeepsTypes
  <1>3. CASE Tick
    BY <1>3 DEF Tick, TypeOK
  <1>4. CASE UNCHANGED vars
    BY <1>4 DEF vars, TypeOK
  <1>5. QED
    BY <1>1, <1>2, <1>3, <1>4 DEF AnyStep

\* Whoever drives the breaker: for TypeCorrect.
LEMMA AnyTypeCorrect == AnySpec => []TypeOK
  <1>1. Init => TypeOK
    BY BreakerAssumption, WindowAssumption, ClearedType
    DEF Init, ValidBreaker, TypeOK, States, ZeroTime, Bucket
  <1>2. QED
    BY <1>1, TypeInductive, PTL DEF AnySpec

\* The type invariant of the breaker holds in every reachable state: among the
\* rest, Allow never takes a probe slot beyond HalfOpenMaxCalls and the success
\* count never reaches HalfOpenSuccesses without closing.
THEOREM TypeCorrect == Spec => []TypeOK
  BY SpecIsAny, AnyTypeCorrect, PTL

-------------------------------------------------------------------------------
(* No probe slot is lost.                                                    *)

\* Only calls in flight count as probes, and the counter never exceeds them.
\* It may fall below: that is what a late call does when it reports.
SlotInv ==
  /\ probes \subseteq InFlight
  /\ state # "half_open" => probes = {}
  /\ state = "half_open" => halfOpen <= Cardinality(probes)

LEMMA ProbesFinite ==
  ASSUME TypeOK
  PROVE  IsFiniteSet(probes) /\ Cardinality(probes) \in Nat
  BY BreakerAssumption, FS_Subset, FS_CardinalityType DEF TypeOK

\* What beginning and finishing a call do to the set of calls in flight.
LEMMA BeginAdds ==
  ASSUME TypeOK, NEW c \in Callers, admittedAt[c] = NoCall, Begin(c)
  PROVE  c \notin InFlight /\ InFlight' = InFlight \cup {c}
  BY DEF TypeOK, Begin, InFlight, NoCall

LEMMA FinishRemoves ==
  ASSUME TypeOK, NEW c \in Callers, Finish(c)
  PROVE  InFlight' = InFlight \ {c}
  BY DEF TypeOK, Finish, InFlight, NoCall

LEMMA AllowKeepsSlots ==
  ASSUME TypeOK, SlotInv, NEW c \in Callers, Allow(c)
  PROVE  SlotInv'
  <1>f. IsFiniteSet(probes) /\ Cardinality(probes) \in Nat
    BY ProbesFinite
  <1>1. CASE AllowClosed(c)
    <2>1. InFlight' = InFlight \cup {c} /\ UNCHANGED <<state, halfOpen, probes>>
      BY <1>1, BeginAdds DEF AllowClosed
    <2>2. QED
      BY <2>1 DEF SlotInv
  <1>2. CASE AllowFirstProbe(c)
    <2>1. /\ InFlight' = InFlight \cup {c} /\ probes' = {c} /\ halfOpen' = 1
          /\ state' = "half_open"
      BY <1>2, BeginAdds DEF AllowFirstProbe
    <2>2. Cardinality({c}) = 1
      BY FS_Singleton
    <2>3. QED
      BY <2>1, <2>2 DEF SlotInv
  <1>3. CASE AllowProbe(c)
    <2>1. /\ c \notin InFlight /\ InFlight' = InFlight \cup {c}
          /\ probes' = probes \cup {c} /\ halfOpen' = halfOpen + 1
          /\ state = "half_open" /\ state' = "half_open"
      BY <1>3, BeginAdds DEF AllowProbe
    <2>2. Cardinality(probes') = Cardinality(probes) + 1
      BY <2>1, <1>f, FS_AddElement DEF SlotInv
    <2>3. QED
      BY <2>1, <2>2, <1>f DEF SlotInv, TypeOK
  <1>4. CASE Reject(c)
    BY <1>4 DEF Reject, vars, SlotInv, InFlight
  <1>5. QED
    BY <1>1, <1>2, <1>3, <1>4 DEF Allow

LEMMA DoneKeepsSlots ==
  ASSUME TypeOK, SlotInv, NEW c \in Callers, NEW err, Done(c, err)
  PROVE  SlotInv'
  <1>f. c \in InFlight /\ InFlight' = InFlight \ {c}
    BY FinishRemoves DEF Done
  <1>g. IsFiniteSet(probes) /\ Cardinality(probes) \in Nat
    BY ProbesFinite
  <1>1. CASE DoneHalfOpenOK(c, err)
    <2>1. /\ state = "half_open" /\ state' = "half_open"
          /\ halfOpen' = halfOpen - 1
          /\ probes' = probes \ {c}
      BY <1>1 DEF DoneHalfOpenOK, SlotsAfterProbe
    <2>2. /\ IsFiniteSet(probes \ {c})
          /\ Cardinality(probes \ {c}) \in Nat
          /\ Cardinality(probes \ {c}) >= Cardinality(probes) - 1
      <3>1. /\ IsFiniteSet(probes \ {c})
            /\ Cardinality(probes \ {c}) =
                 IF c \in probes THEN Cardinality(probes) - 1
                 ELSE Cardinality(probes)
        BY ONLY <1>g, FS_RemoveElement
      <3>2. Cardinality(probes \ {c}) \in Nat
        BY ONLY <3>1, FS_CardinalityType
      <3>3. QED
        BY <3>1, <3>2, <1>g
    <2>4. halfOpen' <= Cardinality(probes')
      BY <2>1, <2>2, <1>g DEF SlotInv, TypeOK
    <2>5. QED
      BY <2>1, <2>4, <1>f DEF SlotInv
  <1>2. CASE DoneHalfOpenClose(c, err)
    BY <1>2, <1>f DEF DoneHalfOpenClose, SlotInv
  <1>3. CASE Trip
    BY <1>3, <1>f DEF Trip, SlotInv
  <1>4. CASE UNCHANGED <<state, halfOpen, probes>> /\ state # "half_open"
    BY <1>f, <1>4 DEF SlotInv
  <1>5. QED
    BY <1>1, <1>2, <1>3, <1>4
    DEF Done, DoneOpen, DoneClosed, DoneHalfOpenFailed

LEMMA SlotInductive == TypeOK /\ SlotInv /\ [AnyStep]_vars => SlotInv'
  <1> SUFFICES ASSUME TypeOK, SlotInv, [AnyStep]_vars PROVE SlotInv'
    OBVIOUS
  <1>1. ASSUME NEW c \in Callers, Allow(c) PROVE SlotInv'
    BY <1>1, AllowKeepsSlots
  <1>2. ASSUME NEW c \in Callers, NEW err, Done(c, err) PROVE SlotInv'
    BY <1>2, DoneKeepsSlots
  <1>3. CASE Tick \/ UNCHANGED vars
    BY <1>3 DEF Tick, vars, SlotInv, InFlight
  <1>4. QED
    BY <1>1, <1>2, <1>3 DEF AnyStep

\* Half-open with nothing of its own in flight, it has a slot to give.
LEMMA SlotsSuffice == TypeOK /\ SlotInv => NoSlotLeak
  BY BreakerAssumption, FS_EmptySet
  DEF ValidBreaker, SlotInv, NoSlotLeak, ProbeSlotFree, TypeOK

\* Whoever drives the breaker: for SlotsNeverLeak.
LEMMA AnySlotsNeverLeak == AnySpec => []NoSlotLeak
  <1>1. Init => SlotInv
    BY DEF Init, SlotInv
  <1>2. QED
    BY <1>1, SlotsSuffice, AnyTypeCorrect, SlotInductive, PTL DEF AnySpec

\* However late the calls from before a half-open period report, the breaker
\* never loses a probe slot: half-open with no probe in flight, it admits.
THEOREM SlotsNeverLeak == Spec => []NoSlotLeak
  BY SpecIsAny, AnySlotsNeverLeak, PTL

-------------------------------------------------------------------------------
(* With deadlines shorter than the open period, no call from before a        *)
(* half-open period survives into it: the promises about probes are kept.    *)

\* Calls are no older than CallTimeout; those in flight while the breaker is
\* open were admitted before it tripped; those in flight while it is half-open
\* are exactly its probes, and both counters count exactly them.
ProbeInv ==
  /\ openedAt <= now
  /\ \A c \in InFlight :
       /\ admittedAt[c] <= now
       /\ now - admittedAt[c] <= CallTimeout
       /\ state = "open" => admittedAt[c] <= openedAt
  /\ state = "half_open" =>
       /\ probes = InFlight
       /\ halfOpen = Cardinality(probes)
       /\ goodProbes = consecutiveOK

\* What beginning and finishing a call do to the times of admission.
LEMMA BeginTimes ==
  ASSUME TypeOK, NEW c \in Callers, Begin(c)
  PROVE  /\ admittedAt'[c] = now
         /\ \A d \in Callers \ {c} : admittedAt'[d] = admittedAt[d]
  BY DEF TypeOK, Begin

LEMMA FinishTimes ==
  ASSUME TypeOK, NEW c \in Callers, Finish(c)
  PROVE  \A d \in Callers \ {c} : admittedAt'[d] = admittedAt[d]
  BY DEF TypeOK, Finish

LEMMA ProbeInductive ==
  ASSUME CallTimeout < OpenDuration, TypeOK, SlotInv, ProbeInv, [AnyStep]_vars
  PROVE  ProbeInv'
  <1> USE BreakerAssumption DEF ValidBreaker
  <1>f. IsFiniteSet(probes) /\ Cardinality(probes) \in Nat
    BY ProbesFinite
  <1>t. /\ now \in Nat /\ openedAt \in Int /\ halfOpen \in Int
        /\ consecutiveOK \in Nat /\ goodProbes \in Nat
        /\ InFlight \subseteq Callers
        /\ \A c \in InFlight : admittedAt[c] \in Nat
    BY DEF TypeOK, InFlight
  <1>1. ASSUME NEW c \in Callers, Allow(c) PROVE ProbeInv'
    <2>1. CASE AllowClosed(c)
      <3>1. /\ InFlight' = InFlight \cup {c} /\ state' = "closed"
            /\ UNCHANGED <<now, openedAt>>
        BY <2>1, BeginAdds DEF AllowClosed
      <3>2. /\ admittedAt'[c] = now
            /\ \A d \in Callers \ {c} : admittedAt'[d] = admittedAt[d]
        BY <2>1, BeginTimes DEF AllowClosed
      <3>3. QED
        BY <3>1, <3>2, <1>t DEF ProbeInv
    <2>2. CASE AllowFirstProbe(c)
      \* The heart of it: the open period outlasted every call.
      <3>1. InFlight = {}
        <4> SUFFICES ASSUME NEW d \in InFlight PROVE FALSE
          OBVIOUS
        <4>1. /\ admittedAt[d] <= openedAt /\ now - admittedAt[d] <= CallTimeout
              /\ now - openedAt >= OpenDuration
          BY <2>2 DEF AllowFirstProbe, OpenElapsed, ProbeInv
        <4>2. QED
          BY <4>1, <1>t
      <3>2. /\ InFlight' = {c} /\ state' = "half_open" /\ probes' = {c}
            /\ halfOpen' = 1 /\ consecutiveOK' = 0 /\ goodProbes' = 0
            /\ UNCHANGED <<now, openedAt>> /\ admittedAt'[c] = now
        BY <2>2, <3>1, BeginAdds, BeginTimes DEF AllowFirstProbe
      <3>3. Cardinality(probes') = 1
        BY <3>2, FS_Singleton
      <3>4. \A d \in InFlight' : d = c
        BY <3>2
      <3>5. openedAt <= now
        BY DEF ProbeInv
      <3>6. QED
        BY <3>2, <3>3, <3>4, <3>5, <1>t DEF ProbeInv
    <2>3. CASE AllowProbe(c)
      <3>1. /\ c \notin InFlight /\ InFlight' = InFlight \cup {c}
            /\ state = "half_open" /\ state' = "half_open"
            /\ probes' = probes \cup {c} /\ halfOpen' = halfOpen + 1
            /\ UNCHANGED <<now, openedAt, consecutiveOK, goodProbes>>
        BY <2>3, BeginAdds DEF AllowProbe
      <3>2. /\ admittedAt'[c] = now
            /\ \A d \in Callers \ {c} : admittedAt'[d] = admittedAt[d]
        BY <2>3, BeginTimes DEF AllowProbe
      <3>3. Cardinality(probes') = Cardinality(probes) + 1
        BY <3>1, <1>f, FS_AddElement DEF SlotInv
      <3>4. QED
        BY <3>1, <3>2, <3>3, <1>t, <1>f DEF ProbeInv
    <2>4. CASE Reject(c)
      BY <2>4 DEF Reject, vars, ProbeInv, InFlight
    <2>5. QED
      BY <1>1, <2>1, <2>2, <2>3, <2>4 DEF Allow
  <1>2. ASSUME NEW c \in Callers, NEW err, Done(c, err) PROVE ProbeInv'
    <2>f. /\ c \in InFlight /\ InFlight' = InFlight \ {c} /\ UNCHANGED now
          /\ \A d \in Callers \ {c} : admittedAt'[d] = admittedAt[d]
      BY <1>2, FinishRemoves, FinishTimes DEF Done
    <2>1. CASE DoneHalfOpenOK(c, err)
      <3>1. /\ state = "half_open" /\ state' = "half_open"
            /\ halfOpen' = halfOpen - 1 /\ consecutiveOK' = consecutiveOK + 1
            /\ probes' = probes \ {c} /\ UNCHANGED openedAt
            /\ goodProbes' = IF c \in probes THEN goodProbes + 1 ELSE goodProbes
        BY <2>1 DEF DoneHalfOpenOK, SlotsAfterProbe, CountProbe
      <3>2. c \in probes /\ probes' = InFlight'
        BY <3>1, <2>f DEF ProbeInv
      <3>3. Cardinality(probes') = Cardinality(probes) - 1
        BY <3>1, <3>2, <1>f, FS_RemoveElement
      <3>4. QED
        BY <3>1, <3>2, <3>3, <2>f, <1>t DEF ProbeInv
    <2>2. CASE DoneHalfOpenClose(c, err)
      BY <2>2, <2>f, <1>t DEF DoneHalfOpenClose, ProbeInv
    <2>3. CASE Trip
      BY <2>3, <2>f, <1>t DEF Trip, ProbeInv
    <2>4. CASE state # "half_open" /\ UNCHANGED <<state, openedAt>>
      BY <2>4, <2>f, <1>t DEF ProbeInv
    <2>5. QED
      BY <1>2, <2>1, <2>2, <2>3, <2>4
      DEF Done, DoneOpen, DoneClosed, DoneHalfOpenFailed
  <1>3. CASE Tick
    <2>1. /\ InFlight' = InFlight /\ now' = now + 1
          /\ UNCHANGED <<state, openedAt, halfOpen, consecutiveOK, admittedAt,
                         probes, goodProbes>>
          /\ \A c \in InFlight : now - admittedAt[c] < CallTimeout
      BY <1>3 DEF Tick, InFlight
    <2>2. QED
      BY <2>1, <1>t DEF ProbeInv
  <1>4. CASE UNCHANGED vars
    BY <1>4 DEF vars, ProbeInv, InFlight
  <1>5. QED
    BY <1>1, <1>2, <1>3, <1>4 DEF AnyStep

LEMMA ProbeInvHolds ==
  ASSUME CallTimeout < OpenDuration
  PROVE  AnySpec => [](TypeOK /\ SlotInv /\ ProbeInv)
  <1>1. Init => SlotInv
    BY DEF Init, SlotInv
  <1>2. Init => ProbeInv
    <2> SUFFICES ASSUME Init PROVE ProbeInv
      OBVIOUS
    <2>1. InFlight = {}
      BY DEF Init, InFlight
    <2>2. QED
      BY <2>1, WindowAssumption DEF Init, ProbeInv, ZeroTime
  <1>3. TypeOK /\ SlotInv /\ ProbeInv /\ [AnyStep]_vars => ProbeInv'
    BY ProbeInductive
  <1>4. QED
    BY <1>1, <1>2, <1>3, AnyTypeCorrect, SlotInductive, PTL DEF AnySpec

\* Whoever drives the breaker: for ProbesCapped.
LEMMA AnyProbesCapped ==
  ASSUME CallTimeout < OpenDuration
  PROVE  AnySpec => []ProbeCap
  <1>1. TypeOK /\ ProbeInv => ProbeCap
    BY DEF TypeOK, ProbeInv, ProbeCap
  <1>2. QED
    BY <1>1, ProbeInvHolds, PTL

\* When every call has a deadline shorter than the open period, at most
\* HalfOpenMaxCalls probes of a half-open period are ever in flight at once.
THEOREM ProbesCapped ==
  ASSUME CallTimeout < OpenDuration
  PROVE  Spec => []ProbeCap
  BY SpecIsAny, AnyProbesCapped, PTL

\* Only DoneHalfOpenClose leads from half-open to closed, and only a trip to open.
LEMMA LeavesHalfOpen ==
  ASSUME state = "half_open", state' # "half_open", [AnyStep]_vars
  PROVE  \E c \in Callers : \E err :
           /\ Done(c, err)
           /\ \/ DoneHalfOpenClose(c, err) /\ state' = "closed"
              \/ DoneHalfOpenFailed(c, err) /\ state' = "open"
  <1>1. \A c \in Callers : ~Allow(c)
    BY DEF Allow, AllowClosed, AllowFirstProbe, AllowProbe, Reject, vars
  <1>2. ~Tick /\ ~UNCHANGED vars
    BY DEF Tick, vars
  <1>3. PICK c \in Callers : \E err : Done(c, err)
    BY <1>1, <1>2 DEF AnyStep
  <1>4. PICK err : Done(c, err)
    BY <1>3
  <1>5. DoneHalfOpenClose(c, err) \/ DoneHalfOpenFailed(c, err)
    BY <1>4 DEF Done, DoneOpen, DoneClosed, DoneHalfOpenOK
  <1>6. QED
    BY <1>4, <1>5 DEF DoneHalfOpenClose, DoneHalfOpenFailed, Trip

\* Whoever drives the breaker: for ClosesOnlyOnProbes.
LEMMA AnyClosesOnlyOnProbes ==
  ASSUME CallTimeout < OpenDuration
  PROVE  AnySpec => ClosesOnProbes
  <1> DEFINE Step == state = "half_open" /\ state' = "closed"
                       => goodProbes' >= HalfOpenSuccesses
  <1>1. ASSUME TypeOK, ProbeInv, [AnyStep]_vars PROVE Step
    <2> SUFFICES ASSUME state = "half_open", state' = "closed"
                 PROVE  goodProbes' >= HalfOpenSuccesses
      OBVIOUS
    <2>1. PICK c \in Callers :
            \E err : Done(c, err) /\ DoneHalfOpenClose(c, err)
      BY <1>1, LeavesHalfOpen
    <2>2. c \in probes /\ goodProbes = consecutiveOK
      BY <1>1, <2>1 DEF Done, ProbeInv
    <2>3. goodProbes' = goodProbes + 1 /\ consecutiveOK + 1 >= HalfOpenSuccesses
      BY <2>1, <2>2 DEF DoneHalfOpenClose, EnoughSuccesses, CountProbe
    <2>4. QED
      BY <2>2, <2>3
  <1>2. TypeOK /\ ProbeInv /\ [AnyStep]_vars => [Step]_vars
    BY <1>1
  <1>3. QED
    BY <1>2, ProbeInvHolds, PTL DEF AnySpec, ClosesOnProbes

\* Under the same deadlines, the breaker closes only on HalfOpenSuccesses
\* successes of its own half-open period's probes.
THEOREM ClosesOnlyOnProbes ==
  ASSUME CallTimeout < OpenDuration
  PROVE  Spec => ClosesOnProbes
  BY SpecIsAny, AnyClosesOnlyOnProbes, PTL

\* Whoever drives the breaker: for ReopensOnlyOnProbe.
LEMMA AnyReopensOnlyOnProbe ==
  ASSUME CallTimeout < OpenDuration
  PROVE  AnySpec => ReopensOnProbe
  <1> DEFINE Step == state = "half_open" /\ state' = "open"
                       => \E c \in probes : admittedAt'[c] = NoCall
  <1>1. ASSUME TypeOK, ProbeInv, [AnyStep]_vars PROVE Step
    <2> SUFFICES ASSUME state = "half_open", state' = "open"
                 PROVE  \E c \in probes : admittedAt'[c] = NoCall
      OBVIOUS
    <2>1. PICK c \in Callers : \E err : Done(c, err)
      BY <1>1, LeavesHalfOpen
    <2>2. c \in probes
      BY <1>1, <2>1 DEF Done, ProbeInv
    <2>3. admittedAt'[c] = NoCall
      BY <1>1, <2>1 DEF Done, Finish, TypeOK
    <2>4. QED
      BY <2>2, <2>3
  <1>2. TypeOK /\ ProbeInv /\ [AnyStep]_vars => [Step]_vars
    BY <1>1
  <1>3. QED
    BY <1>2, ProbeInvHolds, PTL DEF AnySpec, ReopensOnProbe

\* Under the same deadlines, only the failure of one of its own probes re-opens
\* a half-open breaker.
THEOREM ReopensOnlyOnProbe ==
  ASSUME CallTimeout < OpenDuration
  PROVE  Spec => ReopensOnProbe
  BY SpecIsAny, AnyReopensOnlyOnProbe, PTL

-------------------------------------------------------------------------------
(* The ring is a faithful window: Breaker implements BreakerSpec.            *)

\* The clock stays within its bound, and every bucket is unused or belongs to a
\* time that has passed.
Begun(ring, t) ==
  \A i \in Slots :
    \/ ring[i].start = ZeroTime
    \/ \E s \in 0 .. t : SlotOf(s) = i /\ StartOf(s) = ring[i].start

BucketInv == now <= MaxNow /\ Begun(buckets, now)

LEMMA BucketInductive == TypeOK /\ BucketInv /\ [AnyStep]_vars => BucketInv'
  <1> SUFFICES ASSUME TypeOK, BucketInv, [AnyStep]_vars PROVE BucketInv'
    OBVIOUS
  <1> USE BreakerAssumption DEF TypeOK, BucketInv, Begun
  <1>1. ASSUME NEW c \in Callers, NEW err, Done(c, err) PROVE BucketInv'
    <2>1. now' = now
      BY <1>1 DEF Done
    <2>2. CASE buckets' = Cleared
      BY <2>1, <2>2 DEF Cleared, EmptyBucket
    <2>3. CASE buckets' = Counted(err)
      <3>1. SlotOf(now) \in Slots
        BY SlotAndStart
      <3>2. /\ buckets'[SlotOf(now)].start = StartOf(now)
            /\ \A i \in Slots \ {SlotOf(now)} : buckets'[i] = buckets[i]
        BY <2>3, <3>1 DEF Counted, CurrentBucket, Expired, EmptyBucket
      <3>3. now \in 0 .. now'
        BY <2>1
      <3> QED BY <2>1, <3>2, <3>3
    <2>4. QED
      BY <1>1, <2>2, <2>3 DEF Done
  <1>2. CASE Tick
    BY <1>2 DEF Tick
  <1>3. CASE UNCHANGED <<now, buckets>>
    BY <1>3
  <1>4. QED
    BY <1>1, <1>2, <1>3
    DEF AnyStep, Allow, AllowClosed, AllowFirstProbe, AllowProbe, Reject, vars

\* A bucket inside the window starts at one of the clock's times.
LEMMA HeldStarts ==
  ASSUME EpochShift = 0, NEW ring, NEW t \in Nat, t <= MaxNow, Begun(ring, t),
         NEW i \in Slots, InWindow(ring[i].start, t)
  PROVE  ring[i].start \in 0 .. MaxNow
  <1>1. PICK s \in 0 .. t : StartOf(s) = ring[i].start
    BY ZeroTimeIsEarlier DEF Begun
  <1>2. StartOf(s) \in 0 .. s
    BY StartInPast
  <1>3. QED
    BY <1>1, <1>2, BreakerAssumption

\* A slot whose bucket has expired holds nothing that is still in the window:
\* recycling it (breaker.go:287-302) loses no recent result.
LEMMA ExpiredIsOld ==
  ASSUME EpochShift = 0, WindowLen = NumBuckets * Width, TypeOK, BucketInv,
         Expired(buckets, now)
  PROVE  ~InWindow(buckets[SlotOf(now)].start, now)
  <1> DEFINE s == buckets[SlotOf(now)].start
  <1>0. now \in Int /\ SlotOf(now) \in Slots /\ s # StartOf(now)
        /\ StartOf(now) \in Int /\ StartOf(now) <= now
    BY SlotAndStart DEF TypeOK, Expired
  <1>1. CASE s = ZeroTime
    BY <1>1, ZeroTimeIsEarlier DEF TypeOK
  <1>2. CASE \E t \in 0 .. now : SlotOf(t) = SlotOf(now) /\ StartOf(t) = s
    <2>1. PICK t \in 0 .. now : SlotOf(t) = SlotOf(now) /\ StartOf(t) = s
      BY <1>2
    <2>2. t \in Int /\ StartOf(t) \in Int /\ StartOf(t) <= StartOf(now)
      BY <1>0, StartMonotone, SlotAndStart
    <2>3. StartOf(t) + NumBuckets * Width <= StartOf(now)
      BY <1>0, <2>1, <2>2, WholeTurn
    <2>4. s + WindowLen <= now
      BY <1>0, <2>1, <2>2, <2>3, WindowAssumption
    <2> QED BY <1>0, <2>1, <2>2, <2>4, WindowAssumption DEF InWindow
  <1>3. QED
    BY <1>0, <1>1, <1>2 DEF BucketInv, Begun

\* What the slots hold of the bucket that starts at s: RecentOf, as a sum over
\* the whole ring.
HoldsOf(ring, t, s, field) ==
  [i \in Slots |->
     IF ring[i].start = s /\ InWindow(s, t) THEN ring[i][field] ELSE 0]

\* What each slot contributes to WindowSum.
InSum(ring, t, field) ==
  [i \in Slots |-> IF InWindow(ring[i].start, t) THEN ring[i][field] ELSE 0]

HeldAt(ring, t, s) == {i \in Slots : ring[i].start = s /\ InWindow(s, t)}

LEMMA HeldSum ==
  ASSUME NEW ring \in [Slots -> Bucket], NEW t, NEW s,
         NEW field \in {"total", "failures"}, NEW h,
         h = [i \in HeldAt(ring, t, s) |-> ring[i][field]]
  PROVE  /\ SumFunction(h) \in Nat
         /\ SumFunction(h) = SumFunctionOnSet(HoldsOf(ring, t, s, field), Slots)
         /\ SumFunction(h)
              = SumFunctionOnSet(InSum(ring, t, field), HeldAt(ring, t, s))
  <1> DEFINE held == HeldAt(ring, t, s)
             H == HoldsOf(ring, t, s, field)
             W == InSum(ring, t, field)
  <1>1. held \subseteq Slots /\ IsFiniteSet(held)
    BY RingFinite, FS_Subset DEF HeldAt
  <1>2. \A i \in Slots : ring[i][field] \in Nat
    BY DEF Bucket
  <1>3. /\ \A i \in held : h[i] \in Nat /\ h[i] = H[i] /\ h[i] = W[i]
        /\ \A i \in Slots : H[i] \in Int
        /\ \A i \in Slots \ held : H[i] = 0
    BY <1>2 DEF HeldAt, HoldsOf, InSum
  <1>4. SumFunction(h) = SumFunctionOnSet(h, held)
    BY DEF SumFunction
  <1> HIDE DEF held, H, W
  <1>5. SumFunctionOnSet(h, held) \in Nat
    BY <1>1, <1>3, SumNat
  <1>6. SumFunctionOnSet(h, held) = SumFunctionOnSet(H, held)
    <2>1. \A i \in held : h[i] \in Int /\ h[i] = H[i]
      BY <1>3
    <2> QED BY <1>1, <2>1, SumEqual
  <1>7. SumFunctionOnSet(h, held) = SumFunctionOnSet(W, held)
    <2>1. \A i \in held : h[i] \in Int /\ h[i] = W[i]
      BY <1>3
    <2> QED BY <1>1, <2>1, SumEqual
  <1>8. SumFunctionOnSet(H, Slots) = SumFunctionOnSet(H, held)
    BY <1>1, <1>3, RingFinite, SumSupport
  <1>9. QED
    BY <1>4, <1>5, <1>6, <1>7, <1>8 DEF held, H, W

LEMMA RecentIs ==
  ASSUME NEW ring \in [Slots -> Bucket], NEW t, NEW s
  PROVE  /\ RecentOf(ring, t, s).total
              = SumFunctionOnSet(HoldsOf(ring, t, s, "total"), Slots)
         /\ RecentOf(ring, t, s).failures
              = SumFunctionOnSet(HoldsOf(ring, t, s, "failures"), Slots)
         /\ RecentOf(ring, t, s) \in [total : Nat, failures : Nat]
  <1> DEFINE held == HeldAt(ring, t, s)
  <1>1. RecentOf(ring, t, s) =
          [total |-> SumFunction([i \in held |-> ring[i]["total"]]),
           failures |-> SumFunction([i \in held |-> ring[i]["failures"]])]
    BY DEF RecentOf, HeldAt
  <1> HIDE DEF held
  <1>2. /\ SumFunction([i \in held |-> ring[i]["total"]])
             = SumFunctionOnSet(HoldsOf(ring, t, s, "total"), Slots)
        /\ SumFunction([i \in held |-> ring[i]["total"]]) \in Nat
    BY HeldSum DEF held
  <1>3. /\ SumFunction([i \in held |-> ring[i]["failures"]])
             = SumFunctionOnSet(HoldsOf(ring, t, s, "failures"), Slots)
        /\ SumFunction([i \in held |-> ring[i]["failures"]]) \in Nat
    BY HeldSum DEF held
  <1>4. QED
    BY <1>1, <1>2, <1>3

\* A bucket that is not in the window, or not in the ring, says Nothing.
LEMMA NothingHeld ==
  ASSUME NEW ring \in [Slots -> Bucket], NEW t, NEW s, HeldAt(ring, t, s) = {}
  PROVE  RecentOf(ring, t, s) = Promise!Nothing
  <1>1. \A i \in Slots : /\ HoldsOf(ring, t, s, "total")[i] = 0
                         /\ HoldsOf(ring, t, s, "failures")[i] = 0
    BY DEF HeldAt, HoldsOf
  <1>2. /\ SumFunctionOnSet(HoldsOf(ring, t, s, "total"), Slots) = 0
        /\ SumFunctionOnSet(HoldsOf(ring, t, s, "failures"), Slots) = 0
    BY <1>1, RingFinite, SumZero
  <1>3. QED
    BY <1>2, RecentIs DEF Promise!Nothing

\* Counting a result adds it to what is recent under the current start, and
\* takes nothing away (breaker.go:218-225, 287-302).
LEMMA CountedRecent ==
  ASSUME EpochShift = 0, WindowLen = NumBuckets * Width, TypeOK, BucketInv,
         NEW err, NEW s \in Int
  PROVE  RecentOf(Counted(err), now, s) =
           IF s = StartOf(now)
           THEN [total |-> RecentOf(buckets, now, s).total + 1,
                 failures |-> RecentOf(buckets, now, s).failures
                                + IF CountsAsFailure(err) THEN 1 ELSE 0]
           ELSE RecentOf(buckets, now, s)
  <1> DEFINE j == SlotOf(now)
             ring == Counted(err)
             old == buckets[j].start
             cur == CurrentBucket(buckets, now)
             k(field) == IF field = "total" THEN 1
                         ELSE IF CountsAsFailure(err) THEN 1 ELSE 0
  <1>1. /\ now \in Int /\ j \in Slots /\ StartOf(now) \in Int
        /\ now - Width < StartOf(now)
        /\ buckets \in [Slots -> Bucket]
    BY SlotAndStart DEF TypeOK, Bucket
  <1>2. ring \in [Slots -> Bucket]
    BY CountedType
  <1>3. /\ ring[j].start = StartOf(now)
        /\ \A i \in Slots \ {j} : ring[i] = buckets[i]
        /\ \A field \in {"total", "failures"} :
             ring[j][field] = (IF old = StartOf(now) THEN buckets[j][field] ELSE 0)
                                + k(field)
    <2>1. Counted(err) = [buckets EXCEPT ![j] =
            [start |-> cur.start, total |-> cur.total + k("total"),
             failures |-> cur.failures + k("failures")]]
      BY DEF Counted
    <2>2. cur = IF old # StartOf(now)
                THEN [start |-> StartOf(now), total |-> 0, failures |-> 0]
                ELSE buckets[j]
      BY DEF CurrentBucket, Expired, EmptyBucket
    <2> HIDE DEF cur, k, ring
    <2>3. QED
      BY <1>1, <2>1, <2>2 DEF ring
  <1>4. InWindow(StartOf(now), now)
    <2>1. Width <= WindowLen
      <3>1. WindowLen \in Nat /\ NumBuckets \in Nat \ {0} /\ Width \in Nat
        BY WindowAssumption, WidthType
      <3>2. PICK m \in Nat : NumBuckets = m + 1
        <4>1. NumBuckets - 1 \in Nat
          BY <3>1
        <4> QED BY <3>1, <4>1
      <3>3. NumBuckets * Width = m * Width + Width /\ m * Width \in Nat
        BY <3>1, <3>2
      <3> QED BY <3>1, <3>3
    <2> QED BY <1>1, <2>1, WidthType, WindowAssumption DEF InWindow
  <1>5. old # StartOf(now) => ~InWindow(old, now)
    BY ExpiredIsOld DEF Expired
  <1>6. ASSUME NEW field \in {"total", "failures"}
        PROVE  SumFunctionOnSet(HoldsOf(ring, now, s, field), Slots)
                 = SumFunctionOnSet(HoldsOf(buckets, now, s, field), Slots)
                     + IF s = StartOf(now) THEN k(field) ELSE 0
    <2> DEFINE H == HoldsOf(buckets, now, s, field)
               G == HoldsOf(ring, now, s, field)
               d == IF s = StartOf(now) THEN k(field) ELSE 0
    <2>1. \A i \in Slots : ring[i][field] \in Int /\ buckets[i][field] \in Int
      BY <1>1, <1>2 DEF Bucket
    <2>2. \A i \in Slots : H[i] \in Int /\ G[i] \in Int
      BY <2>1 DEF HoldsOf
    <2>3. \A i \in Slots \ {j} : G[i] = H[i]
      BY <1>3 DEF HoldsOf
    <2>4. d \in Int
      OBVIOUS
    <2>5. G[j] = H[j] + d
      <3>1. /\ G[j] = IF StartOf(now) = s /\ InWindow(s, now)
                      THEN ring[j][field] ELSE 0
            /\ H[j] = IF old = s /\ InWindow(s, now)
                      THEN buckets[j][field] ELSE 0
        BY <1>1, <1>3 DEF HoldsOf
      <3>2. ring[j][field] = (IF old = StartOf(now) THEN buckets[j][field] ELSE 0)
                               + k(field)
        BY <1>3
      <3>3. k(field) \in Int
        OBVIOUS
      <3> HIDE DEF G, H, k, ring
      <3>4. CASE s = StartOf(now)
        BY <1>1, <1>4, <2>1, <3>1, <3>2, <3>3, <3>4
      <3>5. CASE s # StartOf(now)
        BY <1>5, <3>1, <3>5
      <3> QED BY <3>4, <3>5
    <2> HIDE DEF G, H, d, j
    <2>6. SumFunctionOnSet(G, Slots) = SumFunctionOnSet(H, Slots) + d
      BY <1>1, <2>2, <2>3, <2>4, <2>5, RingFinite, SumBump
    <2> QED BY <2>6 DEF G, H, d
  <1> HIDE DEF ring
  <1>7. /\ RecentOf(ring, now, s).total
             = RecentOf(buckets, now, s).total
                 + IF s = StartOf(now) THEN k("total") ELSE 0
        /\ RecentOf(ring, now, s).failures
             = RecentOf(buckets, now, s).failures
                 + IF s = StartOf(now) THEN k("failures") ELSE 0
    <2> HIDE DEF k
    <2> QED BY <1>1, <1>2, <1>6, RecentIs
  <1>8. /\ RecentOf(ring, now, s) \in [total : Nat, failures : Nat]
        /\ RecentOf(buckets, now, s) \in [total : Nat, failures : Nat]
    BY <1>1, <1>2, RecentIs
  <1>9. RecentOf(ring, now, s) =
           IF s = StartOf(now)
           THEN [total |-> RecentOf(buckets, now, s).total + 1,
                 failures |-> RecentOf(buckets, now, s).failures
                                + IF CountsAsFailure(err) THEN 1 ELSE 0]
           ELSE RecentOf(buckets, now, s)
    BY <1>7, <1>8
  <1>10. QED
    BY <1>9 DEF ring

\* BreakerSpec takes its sums from the same module.
LEMMA PromiseSums == \A f : Promise!SumFunction(f) = SumFunction(f)
  BY DEF Promise!SumFunction, Promise!SumFunctionOnSet,
         Promise!FoldFunctionOnSet, Promise!MapThenFoldSet,
         SumFunction, SumFunctionOnSet, FoldFunctionOnSet, MapThenFoldSet

\* Summing slot by slot, as the code does, and start by start, as BreakerSpec
\* does, comes to the same.
LEMMA WindowSumByStart ==
  ASSUME NEW ring \in [Slots -> Bucket], NEW t,
         \A i \in Slots : InWindow(ring[i].start, t) => ring[i].start \in 0 .. MaxNow,
         NEW field \in {"total", "failures"},
         NEW g, g = [s \in 0 .. MaxNow |-> RecentOf(ring, t, s)[field]]
  PROVE  SumFunction(g) = WindowSum(ring, t, field)
  <1> DEFINE W == InSum(ring, t, field)
             Starts == 0 .. MaxNow
             C == [s \in Starts |-> HeldAt(ring, t, s)]
             U == UNION {C[s] : s \in Starts}
  <1>1. IsFiniteSet(Starts)
    BY FS_Interval, BreakerAssumption
  <1>2. \A i \in Slots : W[i] \in Int
    BY DEF InSum, Bucket
  <1>3. \A s \in Starts : C[s] \subseteq Slots
    BY DEF HeldAt
  <1>4. \A s, u \in Starts : s # u => C[s] \cap C[u] = {}
    BY DEF HeldAt
  <1>5. \A s \in Starts : g[s] = SumFunctionOnSet(W, C[s])
    <2> SUFFICES ASSUME NEW s \in Starts
                 PROVE  RecentOf(ring, t, s)[field]
                          = SumFunctionOnSet(W, HeldAt(ring, t, s))
      OBVIOUS
    <2>1. RecentOf(ring, t, s)[field]
            = SumFunction([i \in HeldAt(ring, t, s) |-> ring[i][field]])
      <3>1. CASE field = "total"
        BY <3>1 DEF RecentOf, HeldAt
      <3>2. CASE field = "failures"
        BY <3>2 DEF RecentOf, HeldAt
      <3> QED BY <3>1, <3>2
    <2> QED BY <2>1, HeldSum
  <1>6. U \subseteq Slots /\ \A i \in Slots \ U : W[i] = 0
    <2>1. U \subseteq Slots
      BY <1>3
    <2>2. ASSUME NEW i \in Slots, InWindow(ring[i].start, t) PROVE i \in U
      <3>1. ring[i].start \in Starts /\ i \in C[ring[i].start]
        BY <2>2 DEF HeldAt
      <3> QED BY <3>1
    <2>3. ASSUME NEW i \in Slots \ U PROVE W[i] = 0
      BY <2>2, <2>3 DEF InSum
    <2> HIDE DEF U
    <2> QED BY <2>1, <2>3
  <1>7. SumFunction(g) = SumFunctionOnSet(g, Starts)
    BY DEF SumFunction
  <1> HIDE DEF W, C, Starts
  <1>8. SumFunctionOnSet(g, Starts) = SumFunctionOnSet(W, U)
    <2>1. U = UNION {C[s] : s \in Starts}
      OBVIOUS
    <2> HIDE DEF U
    <2> QED BY ONLY <1>1, <1>2, <1>3, <1>4, <1>5, <2>1, RingFinite, SumFamily
  <1>9. SumFunctionOnSet(W, Slots) = SumFunctionOnSet(W, U)
    <2> HIDE DEF U
    <2> QED BY <1>2, <1>6, RingFinite, SumSupport
  <1>10. WindowSum(ring, t, field) = SumFunctionOnSet(W, Slots)
    BY DEF WindowSum, SumFunction, W, InSum
  <1>11. QED
    BY <1>7, <1>8, <1>9, <1>10

LEMMA SameVerdict ==
  ASSUME NEW ring \in [Slots -> Bucket], NEW t,
         \A i \in Slots : InWindow(ring[i].start, t) => ring[i].start \in 0 .. MaxNow
  PROVE  Promise!TooManyFailures([s \in 0 .. MaxNow |-> RecentOf(ring, t, s)])
           <=> ShouldTrip(ring, t)
  <1> DEFINE log == [s \in 0 .. MaxNow |-> RecentOf(ring, t, s)]
             T == [s \in 0 .. MaxNow |-> RecentOf(ring, t, s)["total"]]
             F == [s \in 0 .. MaxNow |-> RecentOf(ring, t, s)["failures"]]
  <1>1. /\ [s \in DOMAIN log |-> log[s].total] = T
        /\ [s \in DOMAIN log |-> log[s].failures] = F
    OBVIOUS
  <1>2. SumFunction(T) = WindowSum(ring, t, "total")
    BY WindowSumByStart
  <1>3. SumFunction(F) = WindowSum(ring, t, "failures")
    BY WindowSumByStart
  <1>4. /\ Promise!SumFunction(T) = WindowSum(ring, t, "total")
        /\ Promise!SumFunction(F) = WindowSum(ring, t, "failures")
    BY <1>2, <1>3, PromiseSums
  <1>5. Promise!TooManyFailures(log)
          <=> /\ Promise!SumFunction([s \in DOMAIN log |-> log[s].total])
                   >= MinimumRequests
              /\ Promise!SumFunction([s \in DOMAIN log |-> log[s].failures])
                   * RatioDen
                   >= Promise!SumFunction([s \in DOMAIN log |-> log[s].total])
                        * RatioNum
    BY DEF Promise!TooManyFailures
  <1> HIDE DEF log, T, F
  <1>6. Promise!TooManyFailures(log)
          <=> /\ WindowSum(ring, t, "total") >= MinimumRequests
              /\ WindowSum(ring, t, "failures") * RatioDen
                   >= WindowSum(ring, t, "total") * RatioNum
    BY <1>1, <1>4, <1>5
  <1>7. QED
    BY <1>6 DEF ShouldTrip, Total, Failures, log

\* The ring's log, as BreakerSpec sees it.
LogOf(ring, t) == [s \in 0 .. MaxNow |-> RecentOf(ring, t, s)]

LEMMA PromiseCardinality == \A S : Promise!Cardinality(S) = Cardinality(S)
  BY DEF Promise!Cardinality, Cardinality

LEMMA CountedIsWithResult ==
  ASSUME EpochShift = 0, WindowLen = NumBuckets * Width, TypeOK, BucketInv,
         NEW err, NEW failed \in BOOLEAN, failed <=> CountsAsFailure(err)
  PROVE  LogOf(Counted(err), now) = Promise!WithResult(failed)
  <1> DEFINE s0 == now - (now % Width)
             log == LogOf(buckets, now)
             one == IF CountsAsFailure(err) THEN 1 ELSE 0
  <1>1. s0 = StartOf(now) /\ s0 \in 0 .. MaxNow
    <2>1. s0 = StartOf(now)
      BY DEF StartOf, TypeOK
    <2>2. StartOf(now) \in 0 .. now
      BY StartInPast DEF TypeOK
    <2> QED BY <2>1, <2>2, BreakerAssumption DEF TypeOK, BucketInv
  <1>2. Promise!WithResult(failed) =
          [log EXCEPT ![s0] = [total |-> log[s0].total + 1,
                               failures |-> log[s0].failures + one]]
    BY <1>1 DEF Promise!WithResult, LogOf
  <1>3. \A s \in 0 .. MaxNow :
          LogOf(Counted(err), now)[s]
            = IF s = s0 THEN [total |-> log[s].total + 1,
                              failures |-> log[s].failures + one]
                        ELSE log[s]
    BY <1>1, CountedRecent DEF LogOf
  <1>4. QED
    <2> HIDE DEF s0, one
    <2> QED BY <1>1, <1>2, <1>3 DEF LogOf

LEMMA ClearedIsNothing ==
  ASSUME NEW t \in Nat
  PROVE  LogOf(Cleared, t) = [s \in 0 .. MaxNow |-> Promise!Nothing]
  <1> SUFFICES ASSUME NEW s \in 0 .. MaxNow
               PROVE  RecentOf(Cleared, t, s) = Promise!Nothing
    BY DEF LogOf
  <1>1. HeldAt(Cleared, t, s) = {}
    BY ZeroTimeIsEarlier DEF HeldAt, Cleared, EmptyBucket
  <1>2. QED
    BY <1>1, ClearedType, NothingHeld

\* What the clock takes from the log is what has left the window.
LEMMA TickIsStillRecent ==
  ASSUME TypeOK
  PROVE  LogOf(buckets, now + 1) = Promise!StillRecent(LogOf(buckets, now), now + 1)
  <1> SUFFICES ASSUME NEW s \in 0 .. MaxNow
               PROVE  RecentOf(buckets, now + 1, s)
                        = IF s > (now + 1) - WindowLen
                          THEN RecentOf(buckets, now, s) ELSE Promise!Nothing
    BY DEF LogOf, Promise!StillRecent
  <1>1. buckets \in [Slots -> Bucket] /\ now \in Int /\ s \in Int
    BY BreakerAssumption DEF TypeOK, Bucket
  <1>2. CASE s > (now + 1) - WindowLen
    <2>1. InWindow(s, now + 1) /\ InWindow(s, now)
      BY <1>1, <1>2, WindowAssumption DEF InWindow
    <2> QED BY <1>2, <2>1 DEF RecentOf
  <1>3. CASE ~(s > (now + 1) - WindowLen)
    <2>1. HeldAt(buckets, now + 1, s) = {}
      BY <1>3 DEF HeldAt, InWindow
    <2> QED BY <1>1, <1>3, <2>1, NothingHeld
  <1>4. QED
    BY <1>2, <1>3

\* Admission: each way of Allow is BreakerSpec's, and a rejection is a stutter.
LEMMA AllowRefines ==
  ASSUME CallTimeout < OpenDuration, TypeOK, ProbeInv, NEW c \in Callers, Allow(c)
  PROVE  [Promise!Next]_(Promise!vars)
  <1>1. ASSUME Promise!Admit(c) PROVE [Promise!Next]_(Promise!vars)
    BY <1>1 DEF Promise!Next
  <1>2. CASE AllowClosed(c)
    <2>1. c \notin InFlight /\ InFlight' = InFlight \cup {c}
      BY <1>2, BeginAdds DEF AllowClosed
    <2>2. Promise!Admit(c)
      BY <1>2, <2>1 DEF AllowClosed, Promise!Admit
    <2> QED BY <1>1, <2>2
  <1>3. CASE AllowFirstProbe(c)
    <2>1. c \notin InFlight /\ InFlight' = InFlight \cup {c}
      BY <1>3, BeginAdds DEF AllowFirstProbe
    <2>2. Promise!Admit(c)
      BY <1>3, <2>1 DEF AllowFirstProbe, OpenElapsed, Promise!Admit
    <2> QED BY <1>1, <2>2
  <1>4. CASE AllowProbe(c)
    <2>1. c \notin InFlight /\ InFlight' = InFlight \cup {c}
      BY <1>4, BeginAdds DEF AllowProbe
    <2>2. Promise!Cardinality(probes) < HalfOpenMaxCalls
      BY <1>4, PromiseCardinality DEF AllowProbe, ProbeSlotFree, ProbeInv
    <2>3. Promise!Admit(c)
      BY <1>4, <2>1, <2>2 DEF AllowProbe, Promise!Admit
    <2> QED BY <1>1, <2>3
  <1>5. CASE Reject(c)
    BY <1>5 DEF Reject, vars, Promise!vars, InFlight
  <1>6. QED
    BY <1>2, <1>3, <1>4, <1>5 DEF Allow

\* Results: what they count and what they decide.
LEMMA DoneRefines ==
  ASSUME EpochShift = 0, WindowLen = NumBuckets * Width,
         CallTimeout < OpenDuration, TypeOK, SlotInv, ProbeInv, BucketInv,
         TypeOK', BucketInv',
         NEW c \in Callers, NEW err, Done(c, err),
         NEW failed \in BOOLEAN, failed <=> CountsAsFailure(err)
  PROVE  Promise!Report(c, failed)
  <1> DEFINE log == LogOf(buckets', now')
  <1>1. /\ c \in InFlight /\ InFlight' = InFlight \ {c} /\ now' = now
        /\ now \in Nat
    BY FinishRemoves DEF Done, TypeOK
  <1>2. SUFFICES \/ Promise!Counts(c, failed)
                 \/ Promise!Trips(c, failed)
                 \/ Promise!Recovered(c, failed)
    BY <1>1 DEF Promise!Report
  <1>3. [s \in 0 .. MaxNow |-> RecentOf(buckets, now, s)]' = log
    BY DEF LogOf
  <1>4. ~Closes(err) => buckets' = Counted(err) /\ log = Promise!WithResult(failed)
    BY <1>1, CountedIsWithResult DEF Done
  <1>5. Promise!TooManyFailures(log) <=> ShouldTrip(buckets', now')
    <2>1. buckets' \in [Slots -> Bucket]
      BY DEF TypeOK, Bucket
    <2>2. \A i \in Slots : InWindow(buckets'[i].start, now')
                             => buckets'[i].start \in 0 .. MaxNow
      BY HeldStarts DEF TypeOK, BucketInv
    <2> QED BY <2>1, <2>2, SameVerdict DEF LogOf
  <1>6. CASE DoneOpen(c, err)
    BY <1>3, <1>4, <1>6 DEF DoneOpen, Closes, Promise!Counts
  <1>7. CASE DoneClosed(c, err)
    <2>1. state = "closed" /\ ~Closes(err)
      BY <1>7 DEF DoneClosed, Closes
    <2>2. CASE ShouldTrip(buckets', now)
      BY <1>1, <1>3, <1>4, <1>5, <1>7, <2>1, <2>2
      DEF DoneClosed, Trip, Promise!Trips, Promise!TripNow
    <2>3. CASE ~ShouldTrip(buckets', now)
      BY <1>1, <1>3, <1>4, <1>5, <1>7, <2>1, <2>3
      DEF DoneClosed, Promise!Counts
    <2> QED BY <2>2, <2>3
  <1>8. CASE DoneHalfOpenFailed(c, err)
    <2>1. c \in probes /\ state = "half_open" /\ CountsAsFailure(err)
      BY <1>1, <1>8 DEF DoneHalfOpenFailed, ProbeInv
    <2>2. failed /\ ~Closes(err)
      BY <2>1 DEF Closes
    <2> QED BY <1>3, <1>4, <1>8, <2>1, <2>2
            DEF DoneHalfOpenFailed, Trip, Promise!Trips, Promise!TripNow
  <1>9. CASE DoneHalfOpenOK(c, err)
    <2>1. /\ c \in probes /\ state = "half_open" /\ ~CountsAsFailure(err)
          /\ ~(goodProbes + 1 >= HalfOpenSuccesses) /\ ~Closes(err)
      BY <1>1, <1>9 DEF DoneHalfOpenOK, EnoughSuccesses, ProbeInv, Closes
    <2>2. ~failed /\ goodProbes + 1 < HalfOpenSuccesses
      BY <2>1, BreakerAssumption DEF TypeOK
    <2> QED BY <1>3, <1>4, <1>9, <2>1, <2>2
            DEF DoneHalfOpenOK, CountProbe, Promise!Counts
  <1>10. CASE DoneHalfOpenClose(c, err)
    <2>1. /\ c \in probes /\ state = "half_open" /\ ~CountsAsFailure(err)
          /\ goodProbes + 1 >= HalfOpenSuccesses /\ Closes(err)
          /\ goodProbes = consecutiveOK
      BY <1>1, <1>10 DEF DoneHalfOpenClose, EnoughSuccesses, ProbeInv, Closes
    <2>2. ~failed /\ goodProbes + 1 = HalfOpenSuccesses
      BY <2>1, BreakerAssumption DEF TypeOK
    <2>3. log = [s \in 0 .. MaxNow |-> Promise!Nothing]
      BY <1>1, <2>1, ClearedIsNothing DEF Done
    <2> QED BY <1>3, <1>10, <2>1, <2>2, <2>3
            DEF DoneHalfOpenClose, CountProbe, Promise!Recovered
  <1>11. QED
    BY <1>6, <1>7, <1>8, <1>9, <1>10 DEF Done

\* Whoever drives the breaker: for BreakerKeepsItsPromise.
LEMMA AnyKeepsPromise ==
  ASSUME EpochShift = 0, WindowLen = NumBuckets * Width,
         CallTimeout < OpenDuration
  PROVE  AnySpec => ImplementsBreakerSpec
  <1> DEFINE Inv == TypeOK /\ SlotInv /\ ProbeInv /\ BucketInv
  <1>1. Init => Promise!Init
    <2> SUFFICES ASSUME Init PROVE Promise!Init
      OBVIOUS
    <2>1. LogOf(Cleared, 0) = [s \in 0 .. MaxNow |-> Promise!Nothing]
      BY ClearedIsNothing
    <2>2. InFlight = {}
      BY DEF Init, InFlight
    <2> QED BY <2>1, <2>2 DEF Init, LogOf, ZeroTime, Promise!Init
  <1>2. Init => BucketInv
    BY BreakerAssumption DEF Init, BucketInv, Begun, Cleared, EmptyBucket
  <1>3. Inv /\ Inv' /\ [AnyStep]_vars => [Promise!Next]_(Promise!vars)
    <2> SUFFICES ASSUME Inv, Inv', [AnyStep]_vars
                 PROVE  [Promise!Next]_(Promise!vars)
      OBVIOUS
    <2>1. ASSUME NEW c \in Callers, Allow(c)
          PROVE  [Promise!Next]_(Promise!vars)
      BY <2>1, AllowRefines
    <2>2. ASSUME NEW c \in Callers, NEW err, Done(c, err)
          PROVE  [Promise!Next]_(Promise!vars)
      <3>1. PICK failed \in BOOLEAN : failed <=> CountsAsFailure(err)
        OBVIOUS
      <3>2. Promise!Report(c, failed)
        BY <2>2, <3>1, DoneRefines
      <3> QED BY <3>2 DEF Promise!Next
    <2>3. CASE Tick
      <3>1. InFlight' = InFlight
        BY <2>3 DEF Tick, InFlight
      <3>2. [s \in 0 .. MaxNow |-> RecentOf(buckets, now, s)]'
              = LogOf(buckets, now + 1)
        BY <2>3 DEF Tick, LogOf
      <3>3. Promise!Tick
        BY <2>3, <3>1, <3>2, TickIsStillRecent DEF Tick, LogOf, Promise!Tick
      <3> QED BY <3>3 DEF Promise!Next
    <2>4. CASE UNCHANGED vars
      BY <2>4 DEF vars, Promise!vars, InFlight
    <2>5. QED
      BY <2>1, <2>2, <2>3, <2>4 DEF AnyStep
  <1>4. AnySpec => []Inv
    <2>1. AnySpec => []BucketInv
      BY <1>2, AnyTypeCorrect, BucketInductive, PTL DEF AnySpec
    <2> QED BY <2>1, ProbeInvHolds, PTL
  <1>5. QED
    BY <1>1, <1>3, <1>4, PTL DEF AnySpec, ImplementsBreakerSpec, Promise!Spec

\* For every window that its buckets divide and whose slots and starts count
\* from the same zero, and calls that do not outlast the open period, the
\* breaker keeps BreakerSpec's promises: it trips on exactly the results of the
\* last WindowLen ticks, admits nothing while it rests, and lets its own probes
\* alone decide what follows (breaker.go:169-309).
THEOREM BreakerKeepsItsPromise ==
  ASSUME EpochShift = 0, WindowLen = NumBuckets * Width,
         CallTimeout < OpenDuration
  PROVE  Spec => ImplementsBreakerSpec
  BY SpecIsAny, AnyKeepsPromise, PTL
================================================================================
