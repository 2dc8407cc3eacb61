--------------------------- MODULE RetryBudgetProofs ---------------------------
(*****************************************************************************)
(* Proofs about RetryBudget, for every value of its constants: what its two  *)
(* counters know of the past, and that the budget is never overspent.        *)
(*****************************************************************************)
EXTENDS RetryBudget, SlidingWindowProofs

LEMMA ClockType == Times \subseteq Nat /\ IsFiniteSet(Times) /\ 0 \in Times
BY BudgetAssumption, FS_Interval DEF Times

-------------------------------------------------------------------------------
(* What a counter's ring knows of the events counted in it. *)

\* The ticks whose events are in slot i of the ring.
TicksOf(ring, i) == {t \in Times : SlotOf(t) = i /\ StartOf(t) = ring[i].start}

\* At time t: each slot holds exactly the events of its own bucket; it is
\* unused or belongs to a bucket that has begun; and no event is in the future
\* or belongs to a bucket later than the one that holds its slot.
Tells(ring, log, t) ==
  /\ \A i \in Slots : ring[i].value = SumFunctionOnSet(log, TicksOf(ring, i))
  /\ \A i \in Slots :
       \/ ring[i].start = ZeroTime
       \/ \E s \in Times : s <= t /\ SlotOf(s) = i /\ StartOf(s) = ring[i].start
  /\ \A s \in Times :
       log[s] > 0 => s <= t /\ StartOf(s) <= ring[SlotOf(s)].start

Log == [Times -> Nat]

\* Both counters tell what happened.
RingInv == Tells(requests, requestLog, now) /\ Tells(retries, retryLog, now)

\* While a caller decides, the retries in the window are no more than it has
\* read: nobody else charges, and time only takes from the window.
UsedInv == \A c \in Callers : pc[c] = "deciding" => Sum(retries, now) <= used[c]

\* No bucket of the ring begins after the current one.
LEMMA StartsPast ==
  ASSUME NEW ring, NEW log, NEW t \in Times, Tells(ring, log, t), NEW i \in Slots
  PROVE  ring[i].start <= StartOf(t)
<1>1. CASE ring[i].start = ZeroTime
  BY <1>1, ZeroTimeIsEarlier, SlotAndStart, ClockType
<1>2. CASE \E s \in Times : s <= t /\ SlotOf(s) = i /\ StartOf(s) = ring[i].start
  BY <1>2, StartMonotone, ClockType
<1> QED BY <1>1, <1>2 DEF Tells

\* A ring never used, of a log that is empty.
LEMMA EmptyTells ==
  ASSUME NEW t \in Times
  PROVE  /\ EmptyCounter \in Counter
         /\ Tells(EmptyCounter, [s \in Times |-> 0], t)
<1> DEFINE log == [s \in Times |-> 0]
<1>1. EmptyCounter \in Counter
  BY ZeroTimeIsEarlier, ClockType DEF EmptyCounter, Counter
<1>2. \A i \in Slots : EmptyCounter[i].start = ZeroTime /\ EmptyCounter[i].value = 0
  BY DEF EmptyCounter
<1>3. \A i \in Slots : SumFunctionOnSet(log, TicksOf(EmptyCounter, i)) = 0
  <2> SUFFICES ASSUME NEW i \in Slots
               PROVE  SumFunctionOnSet(log, TicksOf(EmptyCounter, i)) = 0
    OBVIOUS
  <2>1. TicksOf(EmptyCounter, i) = {}
    <3> SUFFICES ASSUME NEW s \in TicksOf(EmptyCounter, i) PROVE FALSE
      OBVIOUS
    <3>1. s \in Nat /\ StartOf(s) = ZeroTime
      BY <1>2, ClockType DEF TicksOf
    <3>2. StartOf(s) \in Int
      BY <3>1, SlotAndStart
    <3> QED BY <3>1, <3>2, ZeroTimeIsEarlier
  <2> QED BY <2>1, SumEmpty
<1>4. \A s \in Times : ~(log[s] > 0)
  OBVIOUS
<1> HIDE DEF log
<1> QED BY <1>1, <1>2, <1>3, <1>4 DEF Tells, log

\* Add counts one event more, and forgets none of the bucket it counts in: an
\* expired bucket's slot is recycled, any other keeps what it has
\* (classify.go:186-209).
LEMMA AddTells ==
  ASSUME NEW ring \in Counter, NEW log \in Log, NEW t \in Times,
         Tells(ring, log, t)
  PROVE  /\ Add(ring, t) \in Counter
         /\ [log EXCEPT ![t] = @ + 1] \in Log
         /\ Tells(Add(ring, t), [log EXCEPT ![t] = @ + 1], t)
<1> DEFINE j == SlotOf(t)
           R == Add(ring, t)
           L == [log EXCEPT ![t] = @ + 1]
<1>t. t \in Int /\ j \in Slots /\ StartOf(t) \in Int
  BY SlotAndStart, ClockType
<1>1. /\ R \in Counter
      /\ \A i \in Slots \ {j} : R[i] = ring[i]
      /\ R[j].start = StartOf(t)
      /\ R[j].value = IF ring[j].start # StartOf(t) THEN 1 ELSE ring[j].value + 1
  BY <1>t DEF Add, Expired, Counter
<1>2. L \in Log /\ L[t] = log[t] + 1 /\ \A s \in Times \ {t} : L[s] = log[s]
  BY DEF Log
<1>3. \A i \in Slots : TicksOf(ring, i) \subseteq Times /\ IsFiniteSet(TicksOf(ring, i))
                       /\ TicksOf(R, i) \subseteq Times /\ IsFiniteSet(TicksOf(R, i))
  BY ClockType, FS_Subset DEF TicksOf
<1>4. ring[j].start <= StartOf(t) /\ ring[j].start \in Int
  BY <1>t, StartsPast DEF Counter
<1>5. ASSUME NEW i \in Slots
      PROVE  R[i].value = SumFunctionOnSet(L, TicksOf(R, i))
  <2> HIDE DEF R, L
  <2>0. ring[i].value = SumFunctionOnSet(log, TicksOf(ring, i))
    BY DEF Tells
  <2>1. CASE i # j
    <3>1. TicksOf(R, i) = TicksOf(ring, i) /\ t \notin TicksOf(R, i)
      BY <1>1, <2>1 DEF TicksOf
    <3>2. \A s \in TicksOf(R, i) : L[s] \in Int /\ L[s] = log[s]
      BY <1>2, <1>3, <3>1 DEF Log
    <3>3. SumFunctionOnSet(L, TicksOf(R, i)) = SumFunctionOnSet(log, TicksOf(R, i))
      BY <1>3, <3>2, SumEqual
    <3> QED BY <1>1, <2>0, <2>1, <3>1, <3>3
  <2>2. CASE i = j /\ ring[j].start = StartOf(t)
    <3>1. TicksOf(R, i) = TicksOf(ring, i) /\ t \in TicksOf(R, i)
      BY <1>1, <2>2 DEF TicksOf
    <3>2. \A s \in TicksOf(R, i) : L[s] \in Int /\ log[s] \in Int
      BY <1>2, <1>3 DEF Log
    <3>3. SumFunctionOnSet(L, TicksOf(R, i))
            = SumFunctionOnSet(log, TicksOf(R, i)) + 1
      <4>1. \A s \in TicksOf(R, i) \ {t} : L[s] = log[s]
        BY <1>2, <1>3
      <4> QED BY <1>2, <1>3, <3>1, <3>2, <4>1, SumBump
    <3> QED BY <1>1, <2>0, <2>2, <3>1, <3>3
  <2>3. CASE i = j /\ ring[j].start # StartOf(t)
    <3>1. \A s \in TicksOf(R, i) : log[s] = 0
      <4> SUFFICES ASSUME NEW s \in TicksOf(R, i), log[s] > 0 PROVE FALSE
        BY <1>3 DEF Log
      <4>1. s \in Times /\ SlotOf(s) = j /\ StartOf(s) = StartOf(t)
        BY <1>1, <2>3 DEF TicksOf
      <4>2. StartOf(s) <= ring[j].start
        BY <4>1 DEF Tells
      <4> QED BY <1>t, <1>4, <2>3, <4>1, <4>2
    <3>2. t \in TicksOf(R, i)
      BY <1>1, <2>3 DEF TicksOf
    <3>3. SumFunctionOnSet(L, TicksOf(R, i))
            = SumFunctionOnSet(log, TicksOf(R, i)) + 1
      <4>1. \A s \in TicksOf(R, i) \ {t} : L[s] = log[s]
        BY <1>2, <1>3
      <4>2. \A s \in TicksOf(R, i) : L[s] \in Int /\ log[s] \in Int
        BY <1>2, <1>3 DEF Log
      <4> QED BY <1>2, <1>3, <3>2, <4>1, <4>2, SumBump
    <3>4. SumFunctionOnSet(log, TicksOf(R, i)) = 0
      BY <1>3, <3>1, SumZero
    <3> QED BY <1>1, <2>3, <3>3, <3>4
  <2> QED BY <2>1, <2>2, <2>3
<1>6. ASSUME NEW i \in Slots
      PROVE  \/ R[i].start = ZeroTime
             \/ \E s \in Times : s <= t /\ SlotOf(s) = i /\ StartOf(s) = R[i].start
  <2> HIDE DEF R, L
  <2>1. CASE i = j
    BY <1>1, <1>t, <2>1
  <2>2. CASE i # j
    BY <1>1, <2>2 DEF Tells
  <2> QED BY <2>1, <2>2
<1>7. ASSUME NEW s \in Times, L[s] > 0
      PROVE  s <= t /\ StartOf(s) <= R[SlotOf(s)].start
  <2> HIDE DEF R, L
  <2>s. SlotOf(s) \in Slots /\ StartOf(s) \in Int /\ s \in Int
    BY SlotAndStart, ClockType
  <2>1. CASE s = t
    BY <1>1, <1>t, <2>1
  <2>2. CASE s # t
    <3>1. s <= t /\ StartOf(s) <= ring[SlotOf(s)].start
      BY <1>2, <1>7, <2>2 DEF Tells
    <3>2. CASE SlotOf(s) = j
      BY <1>1, <1>4, <1>t, <2>s, <3>1, <3>2
    <3>3. CASE SlotOf(s) # j
      BY <1>1, <2>s, <3>1, <3>3
    <3> QED BY <3>2, <3>3, <3>1
  <2> QED BY <2>1, <2>2
<1> HIDE DEF R, L
<1>8. Tells(R, L, t)
  BY <1>5, <1>6, <1>7 DEF Tells
<1> QED BY <1>1, <1>2, <1>8 DEF R, L

\* The clock takes nothing from what a ring tells.
LEMMA TickTells ==
  ASSUME NEW ring, NEW log, NEW t \in Int, Tells(ring, log, t)
  PROVE  Tells(ring, log, t + 1)
BY ClockType DEF Tells

-------------------------------------------------------------------------------
(* What its Sum says, from that. *)

\* The ticks whose events the buckets inside the window hold.
HeldTicks(ring, t) ==
  UNION {TicksOf(ring, i) : i \in {k \in Slots : InWindow(ring[k].start, t)}}

\* A counter's Sum counts the events of these ticks, each once.
LEMMA SumIsHeld ==
  ASSUME NEW ring \in Counter, NEW log \in Log, NEW t \in Times,
         Tells(ring, log, t)
  PROVE  Sum(ring, t) = SumFunctionOnSet(log, HeldTicks(ring, t))
<1> DEFINE C == [i \in Slots |->
                   IF InWindow(ring[i].start, t) THEN TicksOf(ring, i) ELSE {}]
           g == [i \in Slots |->
                   IF InWindow(ring[i].start, t) THEN ring[i].value ELSE 0]
<1>1. Sum(ring, t) = SumFunctionOnSet(g, Slots)
  BY DEF Sum, WindowSum, SumFunction
<1>2. \A i \in Slots : C[i] \subseteq Times
  BY DEF TicksOf
<1>3. \A i, j \in Slots : i # j => C[i] \cap C[j] = {}
  BY DEF TicksOf
<1>4. \A i \in Slots : g[i] = SumFunctionOnSet(log, C[i])
  BY SumEmpty DEF Tells
<1>5. UNION {C[i] : i \in Slots} = HeldTicks(ring, t)
  BY DEF HeldTicks
<1>6. \A s \in Times : log[s] \in Int
  BY DEF Log
<1>7. SumFunctionOnSet(g, Slots) = SumFunctionOnSet(log, HeldTicks(ring, t))
  <2>1. IsFiniteSet(Times)
    BY ClockType
  <2> HIDE DEF C, g
  <2> QED BY <1>2, <1>3, <1>4, <1>5, <1>6, <2>1, RingFinite, SumFamily
<1> QED BY <1>1, <1>5, <1>7

\* No event is counted that the window has left behind: this holds wherever
\* the slots and the starts count from.
LEMMA NeverOvercounts ==
  ASSUME NEW ring \in Counter, NEW log \in Log, now \in Times,
         Tells(ring, log, now)
  PROVE  Sum(ring, now) <= Happened(log, WindowLen)
<1> DEFINE Recent == {t \in Times : now - WindowLen < t /\ t <= now}
           Held == HeldTicks(ring, now)
<1>1. Held \subseteq Times /\ IsFiniteSet(Held) /\ IsFiniteSet(Recent)
  <2>1. Held \subseteq Times
    BY DEF HeldTicks, TicksOf
  <2> QED BY <2>1, ClockType, FS_Subset
<1>2. \A t \in Held \ (Held \cap Recent) : log[t] = 0
  <2> SUFFICES ASSUME NEW t \in Held, t \notin Recent, log[t] > 0
               PROVE  FALSE
    BY <1>1 DEF Log
  <2>1. PICK i \in Slots : InWindow(ring[i].start, now) /\ t \in TicksOf(ring, i)
    BY DEF HeldTicks
  <2>0. t \in Times
    <3> HIDE DEF Held
    <3> QED BY <1>1
  <2>a. t \in Int
    BY <2>0, ClockType
  <2>2. t \in Int /\ t \in Times /\ StartOf(t) <= t /\ StartOf(t) \in Int
    BY <2>0, <2>a, SlotAndStart
  <2>3. t <= now
    BY <2>2 DEF Tells
  <2>4. StartOf(t) > now - WindowLen
    BY <2>1 DEF TicksOf, InWindow
  <2>5. now \in Int
    BY ClockType
  <2> QED BY <2>2, <2>3, <2>4, <2>5, WindowAssumption
<1>3. \A t \in Times : log[t] \in Nat /\ log[t] \in Int
  BY DEF Log
<1> HIDE DEF Recent, Held
<1>4. SumFunctionOnSet(log, Held) = SumFunctionOnSet(log, Held \cap Recent)
  <2>1. \A t \in Held : log[t] \in Int
    BY <1>1, <1>3
  <2> QED BY <1>1, <1>2, <2>1, SumSupport
<1>5. SumFunctionOnSet(log, Held \cap Recent) <= SumFunctionOnSet(log, Recent)
  <2>1. \A t \in Recent : log[t] \in Nat
    BY <1>3 DEF Recent
  <2> QED BY <1>1, <2>1, SumSubset
<1>6. Sum(ring, now) = SumFunctionOnSet(log, Held)
  BY SumIsHeld DEF Held
<1>7. Happened(log, WindowLen) = SumFunctionOnSet(log, Recent)
  BY DEF Happened, Recent
<1> QED BY <1>4, <1>5, <1>6, <1>7

\* Every event is counted that is younger than the whole ring less one bucket.
LEMMA MissesTheOldestBucket ==
  ASSUME EpochShift = 0,
         NEW ring \in Counter, NEW log \in Log, now \in Times,
         Tells(ring, log, now)
  PROVE  Sum(ring, now) >= Happened(log, NumBuckets * Width - Width + 1)
<1> DEFINE Len == NumBuckets * Width - Width + 1
           Recent == {t \in Times : now - Len < t /\ t <= now}
           Held == HeldTicks(ring, now)
<1>0. NumBuckets * Width \in Int /\ Width \in Int /\ now \in Int
  BY WidthType, WindowAssumption, ClockType
<1>1. Held \subseteq Times /\ IsFiniteSet(Held) /\ IsFiniteSet(Recent)
  <2>1. Held \subseteq Times
    BY DEF HeldTicks, TicksOf
  <2> QED BY <2>1, ClockType, FS_Subset
<1>2. \A t \in Recent \ (Recent \cap Held) : log[t] = 0
  <2> SUFFICES ASSUME NEW t \in Recent, t \notin Held, log[t] > 0
               PROVE  FALSE
    BY DEF Log
  <2> DEFINE i == SlotOf(t)
  <2>1. /\ t \in Times /\ t \in Int /\ i \in Slots /\ StartOf(t) \in Int
        /\ t - Width < StartOf(t) /\ StartOf(t) <= t
    BY ClockType, SlotAndStart
  <2>2. StartOf(t) <= ring[i].start /\ ring[i].start \in Int
    BY <2>1 DEF Tells, Counter
  <2>3. now - Len < t
    OBVIOUS
  <2>4. CASE ring[i].start = StartOf(t)
    <3>1. InWindow(StartOf(t), now)
      BY <1>0, <2>1, <2>3, WidthType, WindowAssumption DEF InWindow
    <3>2. t \in TicksOf(ring, i)
      BY <2>1, <2>4 DEF TicksOf
    <3> QED BY <2>1, <2>4, <3>1, <3>2 DEF HeldTicks
  <2>5. CASE StartOf(t) < ring[i].start
    <3>1. ring[i].start # ZeroTime
      BY <2>1, <2>5, ZeroTimeIsEarlier, ClockType
    <3>2. PICK s \in Times : /\ s <= now /\ SlotOf(s) = i
                             /\ StartOf(s) = ring[i].start
      BY <2>1, <3>1 DEF Tells
    <3>3. s \in Int /\ StartOf(s) <= s /\ StartOf(s) \in Int
      BY ClockType, SlotAndStart
    <3>4. StartOf(t) + NumBuckets * Width <= StartOf(s)
      BY <2>1, <2>5, <3>2, <3>3, WholeTurn
    <3> QED BY <1>0, <2>1, <2>3, <3>2, <3>3, <3>4
  <2> QED BY <2>1, <2>2, <2>4, <2>5
<1>3. \A t \in Times : log[t] \in Nat /\ log[t] \in Int
  BY DEF Log
<1>7. Happened(log, Len) = SumFunctionOnSet(log, Recent)
  BY DEF Happened
<1> HIDE DEF Recent, Held
<1>4. SumFunctionOnSet(log, Recent) = SumFunctionOnSet(log, Recent \cap Held)
  <2>1. \A t \in Recent : log[t] \in Int
    BY <1>3 DEF Recent
  <2> QED BY <1>1, <1>2, <2>1, SumSupport
<1>5. SumFunctionOnSet(log, Recent \cap Held) <= SumFunctionOnSet(log, Held)
  <2>1. \A t \in Held : log[t] \in Nat
    BY <1>1, <1>3
  <2> QED BY <1>1, <2>1, SumSubset
<1>6. Sum(ring, now) = SumFunctionOnSet(log, Held)
  BY SumIsHeld DEF Held
<1>8. SumFunctionOnSet(log, Held) \in Int /\ SumFunctionOnSet(log, Recent) \in Int
  <2>1. \A t \in Recent : log[t] \in Int
    BY <1>3 DEF Recent
  <2>2. \A t \in Held : log[t] \in Int
    BY <1>1, <1>3
  <2> QED BY <1>1, <2>1, <2>2, SumType
<1> HIDE DEF Len
<1> QED BY <1>4, <1>5, <1>6, <1>7, <1>8 DEF Len

-------------------------------------------------------------------------------
(* The budget's invariants, step by step. *)

\* Every step of the callers and of the clock preserves the types, and b.mu is
\* held exactly by the caller that is inside Allow (budget.go:92-126).
LEMMA TypeInductive == TypeOK /\ RingInv /\ [Next]_vars => TypeOK'
<1> SUFFICES ASSUME TypeOK, RingInv, [Next]_vars PROVE TypeOK'
  OBVIOUS
<1> USE BudgetAssumption DEF TypeOK, Log
<1>1. ASSUME NEW c \in Callers, RecordRequest(c) PROVE TypeOK'
  <2>1. requests' \in Counter /\ requestLog' \in [Times -> Nat]
    BY <1>1, AddTells DEF RecordRequest, RingInv
  <2> QED BY <1>1, <2>1 DEF RecordRequest
<1>2. ASSUME NEW c \in Callers, SumRequests(c) PROVE TypeOK'
  <2>1. total' \in [Callers -> Nat]
    BY <1>2, SumNatural DEF SumRequests
  <2> QED BY <1>2, <2>1 DEF SumRequests, MuFree
<1>3. ASSUME NEW c \in Callers, SumRetries(c) PROVE TypeOK'
  <2>1. used' \in [Callers -> Nat]
    BY <1>3, SumNatural DEF SumRetries
  <2> QED BY <1>3, <2>1 DEF SumRetries
<1>4. ASSUME NEW c \in Callers, Charge(c) PROVE TypeOK'
  <2>1. retries' \in Counter /\ retryLog' \in [Times -> Nat]
    BY <1>4, AddTells DEF Charge, RingInv
  <2> QED BY <1>4, <2>1 DEF Charge, Unlock, Return
<1>5. ASSUME NEW c \in Callers, Refuse(c) PROVE TypeOK'
  BY <1>5 DEF Refuse, Unlock, Return
<1>6. ASSUME NEW c \in Callers, Finish(c) PROVE TypeOK'
  BY <1>6 DEF Finish
<1>7. CASE Tick
  <2>1. now + 1 \in Times
    BY <1>7 DEF Tick, Times
  <2> QED BY <1>7, <2>1 DEF Tick
<1>8. CASE UNCHANGED vars
  BY <1>8 DEF vars
<1> QED BY <1>1, <1>2, <1>3, <1>4, <1>5, <1>6, <1>7, <1>8 DEF Next, Horizon

\* The rings keep telling what happened.
LEMMA RingInductive == TypeOK /\ RingInv /\ [Next]_vars => RingInv'
<1> SUFFICES ASSUME TypeOK, RingInv, [Next]_vars PROVE RingInv'
  OBVIOUS
<1> USE DEF TypeOK, RingInv, Log
<1>1. ASSUME NEW c \in Callers, RecordRequest(c) PROVE RingInv'
  BY <1>1, AddTells DEF RecordRequest
<1>2. ASSUME NEW c \in Callers, Charge(c) PROVE RingInv'
  BY <1>2, AddTells DEF Charge
<1>3. CASE Tick
  BY <1>3, TickTells, ClockType DEF Tick
<1>4. CASE UNCHANGED <<now, requests, retries, requestLog, retryLog>>
  BY <1>4
<1> QED
  BY <1>1, <1>2, <1>3, <1>4
  DEF Next, SumRequests, SumRetries, Refuse, Finish, Horizon, vars

LEMMA UsedInductive == TypeOK /\ UsedInv /\ [Next]_vars => UsedInv'
<1> SUFFICES ASSUME TypeOK, UsedInv, [Next]_vars,
                    NEW d \in Callers, pc'[d] = "deciding"
             PROVE  Sum(retries', now') <= used'[d]
  BY DEF UsedInv
<1> USE DEF TypeOK
<1>t. /\ now \in Int
      /\ \A t \in Int : Sum(retries, t) \in Int
  BY SumNatural, ClockType
<1>1. ASSUME NEW c \in Callers, SumRetries(c)
      PROVE  Sum(retries', now') <= used'[d]
  BY <1>1, <1>t DEF SumRetries, UsedInv
<1>2. ASSUME NEW c \in Callers,
             RecordRequest(c) \/ SumRequests(c) \/ Finish(c)
      PROVE  Sum(retries', now') <= used'[d]
  BY <1>2 DEF RecordRequest, SumRequests, Finish, UsedInv
<1>3. ASSUME NEW c \in Callers, Charge(c) \/ Refuse(c) PROVE FALSE
  \* c holds b.mu, and so does d: they are the same caller, which returns.
  <2>1. mu = c /\ pc'[c] # "deciding" /\ \A e \in Callers \ {c} : pc'[e] = pc[e]
    BY <1>3 DEF Charge, Refuse
  <2>2. d # c /\ pc[d] = "deciding"
    BY <2>1
  <2>3. mu = d
    BY <2>2
  <2> QED BY <2>1, <2>2, <2>3
<1>4. CASE Tick
  <2>1. Sum(retries, now + 1) <= Sum(retries, now)
    BY <1>t, SumShrinks
  <2>2. Sum(retries, now) <= used[d] /\ used[d] \in Nat
    BY <1>4 DEF Tick, UsedInv
  <2>3. Sum(retries', now') = Sum(retries, now + 1) /\ used'[d] = used[d]
    BY <1>4 DEF Tick
  <2>4. Sum(retries, now + 1) \in Int /\ Sum(retries, now) \in Int
    BY <1>t
  <2> QED BY <2>1, <2>2, <2>3, <2>4
<1>5. CASE UNCHANGED vars
  BY <1>5 DEF vars, UsedInv
<1> QED BY <1>1, <1>2, <1>3, <1>4, <1>5 DEF Next, Horizon

LEMMA InitInv == Init => TypeOK /\ RingInv /\ UsedInv
<1> SUFFICES ASSUME Init PROVE TypeOK /\ RingInv /\ UsedInv
  OBVIOUS
<1>1. EmptyCounter \in Counter /\ RingInv
  BY EmptyTells, ClockType DEF Init, RingInv
<1>2. TypeOK
  BY <1>1, BudgetAssumption, ClockType DEF Init, TypeOK
<1>3. UsedInv
  BY DEF Init, UsedInv
<1> QED BY <1>1, <1>2, <1>3

LEMMA InvHolds == Spec => [](TypeOK /\ RingInv /\ UsedInv)
BY InitInv, TypeInductive, RingInductive, UsedInductive, PTL DEF Spec

\* In every reachable state the variables have their types and b.mu is held by
\* the caller inside Allow and by no other: two callers never decide at once.
THEOREM TypeCorrect == Spec => []TypeOK
BY InvHolds, PTL

\* For every window and number of buckets, a counter's Sum is what happened
\* within the window, to the precision of its oldest bucket
\* (classify.go:156-237).
THEOREM WindowIsPrecise ==
  ASSUME EpochShift = 0
  PROVE  Spec => []WindowPrecise
<1>1. TypeOK /\ RingInv => WindowPrecise
  <2> SUFFICES ASSUME TypeOK, RingInv PROVE WindowPrecise
    OBVIOUS
  <2>1. ASSUME NEW ring \in Counter, NEW log \in Log, Tells(ring, log, now)
        PROVE  /\ Sum(ring, now) <= Happened(log, WindowLen)
               /\ Sum(ring, now) >= Happened(log, NumBuckets * Width - Width + 1)
    BY <2>1, NeverOvercounts, MissesTheOldestBucket DEF TypeOK
  <2> QED BY <2>1 DEF WindowPrecise, TypeOK, RingInv, Log
<1> QED BY <1>1, InvHolds, PTL

\* Nothing older than the window is ever counted, and this wherever the slots
\* and the bucket starts count from: with a width that does not divide a day
\* a Sum can miss events of the window, and cannot invent one.
THEOREM WindowNeverOvercounts ==
  Spec => [](/\ Sum(requests, now) <= Happened(requestLog, WindowLen)
             /\ Sum(retries, now) <= Happened(retryLog, WindowLen))
<1>1. TypeOK /\ RingInv => /\ Sum(requests, now) <= Happened(requestLog, WindowLen)
                           /\ Sum(retries, now) <= Happened(retryLog, WindowLen)
  BY NeverOvercounts DEF TypeOK, RingInv, Log
<1> QED BY <1>1, InvHolds, PTL

\* What is charged was decided on a count that no step has added to since.
LEMMA ChargeFits ==
  ASSUME TypeOK, UsedInv, NEW c \in Callers, Charge(c)
  PROVE  /\ Sum(retries, now) \in Nat
         /\ Sum(retries, now) * RatioDen
              < total[c] * RatioNum + Floor * RatioDen
<1>1. used[c] * RatioDen < total[c] * RatioNum + Floor * RatioDen
  BY DEF Charge, Fits
<1>2. Sum(retries, now) <= used[c] /\ used[c] \in Nat /\ total[c] \in Nat
  BY DEF TypeOK, UsedInv, Charge
<1>3. Sum(retries, now) \in Nat
  BY SumNatural DEF TypeOK
<1>4. Sum(retries, now) * RatioDen <= used[c] * RatioDen
  <2>1. \A a, b, k \in Nat : a <= b => a * k <= b * k
    OBVIOUS
  <2> QED BY <1>2, <1>3, <2>1, BudgetAssumption
<1>5. /\ Sum(retries, now) * RatioDen \in Int /\ used[c] * RatioDen \in Int
      /\ total[c] * RatioNum + Floor * RatioDen \in Int
  BY <1>2, <1>3, BudgetAssumption
<1> QED BY <1>1, <1>3, <1>4, <1>5

\* However many callers ask at once and wherever the clock steps in between,
\* a retry is charged only while the retries in the window are fewer than the
\* requests that the caller saw allow (budget.go:103-117).
THEOREM BudgetNeverOverspent == Spec => NeverOverspent
<1> DEFINE Step == \A c \in Callers :
                     pc[c] = "deciding" /\ pc'[c] = "calling" =>
                       Sum(retries, now) * RatioDen
                         < total[c] * RatioNum + Floor * RatioDen
<1>1. ASSUME TypeOK, UsedInv, [Next]_vars PROVE Step
  <2> SUFFICES ASSUME NEW c \in Callers,
                      pc[c] = "deciding", pc'[c] = "calling"
               PROVE  Charge(c)
    BY <1>1, ChargeFits
  <2>1. ASSUME NEW d \in Callers,
               \/ RecordRequest(d) \/ SumRequests(d) \/ SumRetries(d)
               \/ Refuse(d) \/ Finish(d) \/ (Charge(d) /\ d # c)
        PROVE  FALSE
    BY <1>1, <2>1 DEF TypeOK, RecordRequest, SumRequests, SumRetries, Refuse,
                      Finish, Charge
  <2>2. ~Tick /\ ~UNCHANGED vars
    BY DEF Tick, vars
  <2> QED BY <1>1, <2>1, <2>2 DEF Next, Horizon
<1>2. TypeOK /\ UsedInv /\ [Next]_vars => [Step]_vars
  BY <1>1
<1> QED BY <1>2, InvHolds, PTL DEF Spec, NeverOverspent

-------------------------------------------------------------------------------
(* How far retries can amplify the traffic.  NeverOverspent speaks of the     *)
(* counters at one instant; this speaks of what was sent, over every stretch  *)
(* of time that the ring covers.                                              *)

Ticks(s, t) == {x \in Times : s <= x /\ x <= t}

Between(log, s, t) == SumFunctionOnSet(log, Ticks(s, t))

\* What the requests of the window that ends at u allow, in units of 1/RatioDen.
Allowed(u) ==
  Between(requestLog, u - WindowLen + 1, u) * RatioNum + Floor * RatioDen

\* A stretch that no bucket outlives.
Stretch(s, t) == s <= t /\ t <= now /\ t - s <= NumBuckets * Width - Width

\* All retries but the last were below what the requests of some window up to
\* then allowed.
RetriesFollowTraffic ==
  \A s, t \in Times :
    Stretch(s, t) =>
      \E u \in Times :
        u <= t /\ (Between(retryLog, s, t) - 1) * RatioDen < Allowed(u)

\* A caller inside Allow has read no more requests than some window held, which
\* need no longer be the current one: the clock does not wait for it.
TotalInv ==
  \A c \in Callers :
    pc[c] \in {"summing", "deciding"} =>
      \E u \in Times :
        u <= now /\ total[c] * RatioNum + Floor * RatioDen <= Allowed(u)

LEMMA TicksFinite == \A s, t : IsFiniteSet(Ticks(s, t)) /\ Ticks(s, t) \subseteq Times
BY ClockType, FS_Subset DEF Ticks

LEMMA BetweenType ==
  ASSUME NEW log \in Log, NEW s, NEW t
  PROVE  Between(log, s, t) \in Nat
<1>1. \A x \in Ticks(s, t) : log[x] \in Nat
  BY TicksFinite DEF Log
<1> QED BY <1>1, TicksFinite, SumNat DEF Between

\* Requests are only ever added.
LEMMA AllowedGrows ==
  ASSUME TypeOK, RingInv, [Next]_vars, NEW u \in Times
  PROVE  /\ Allowed(u) <= Allowed(u)'
         /\ Allowed(u) \in Nat /\ Allowed(u)' \in Nat
<1> DEFINE S == Ticks(u - WindowLen + 1, u)
<1>1. /\ requestLog \in Log /\ requestLog' \in Log
      /\ \A x \in Times : requestLog[x] <= requestLog'[x]
  <2>1. requestLog \in Log /\ requestLog' \in Log
    BY TypeInductive DEF TypeOK, Log
  <2>2. ASSUME NEW c \in Callers, RecordRequest(c)
        PROVE  \A x \in Times : requestLog[x] <= requestLog'[x]
    BY <2>1, <2>2 DEF RecordRequest, TypeOK, Log
  <2>3. CASE requestLog' = requestLog
    BY <2>1, <2>3 DEF Log
  <2> QED
    BY <2>1, <2>2, <2>3
    DEF Next, SumRequests, SumRetries, Charge, Refuse, Finish, Tick, Horizon, vars
<1>2. SumFunctionOnSet(requestLog, S) <= SumFunctionOnSet(requestLog', S)
  <2>1. \A x \in S : /\ requestLog[x] \in Int /\ requestLog'[x] \in Int
                     /\ requestLog[x] <= requestLog'[x]
    BY <1>1, TicksFinite DEF Log
  <2> QED BY <2>1, TicksFinite, SumMonotone
<1>3. /\ SumFunctionOnSet(requestLog, S) \in Nat
      /\ SumFunctionOnSet(requestLog', S) \in Nat
  BY <1>1, BetweenType DEF Between
<1> DEFINE a == SumFunctionOnSet(requestLog, S)
           b == SumFunctionOnSet(requestLog', S)
<1>4. /\ Allowed(u) = a * RatioNum + Floor * RatioDen
      /\ Allowed(u)' = b * RatioNum + Floor * RatioDen
  BY DEF Allowed, Between, Ticks, Times
<1>5. RatioNum \in Nat /\ Floor \in Nat /\ RatioDen \in Nat
  BY BudgetAssumption DEF ValidBudget
<1>6. \A x, y, k, n \in Nat : x <= y => x * k + n <= y * k + n
  OBVIOUS
<1>7. \A x, k, n \in Nat : x * k + n \in Nat
  OBVIOUS
<1>8. Floor * RatioDen \in Nat
  BY <1>5
<1> HIDE DEF a, b
<1> QED BY <1>2, <1>3, <1>4, <1>5, <1>6, <1>7, <1>8 DEF a, b

LEMMA TotalInductive ==
  TypeOK /\ RingInv /\ TotalInv /\ [Next]_vars => TotalInv'
<1> SUFFICES ASSUME TypeOK, RingInv, TotalInv, [Next]_vars,
                    NEW c \in Callers, pc'[c] \in {"summing", "deciding"}
             PROVE  \E u \in Times : /\ u <= now'
                                     /\ total'[c] * RatioNum + Floor * RatioDen
                                          <= Allowed(u)'
  BY DEF TotalInv, Times
<1>t. now \in Int /\ now \in Times /\ (now' = now \/ now' = now + 1)
  BY ClockType
  DEF TypeOK, Next, RecordRequest, SumRequests, SumRetries, Charge, Refuse,
      Finish, Tick, Horizon, vars
<1>1. CASE pc[c] \in {"summing", "deciding"} /\ total'[c] = total[c]
  <2>1. PICK u \in Times :
          u <= now /\ total[c] * RatioNum + Floor * RatioDen <= Allowed(u)
    BY <1>1 DEF TotalInv
  <2>2. /\ Allowed(u) <= Allowed(u)'
        /\ Allowed(u) \in Nat /\ Allowed(u)' \in Nat
    BY AllowedGrows
  <2>3. total[c] * RatioNum + Floor * RatioDen \in Int /\ u \in Int
    BY BudgetAssumption, ClockType DEF TypeOK
  <2> QED BY <1>1, <1>t, <2>1, <2>2, <2>3
<1>2. CASE SumRequests(c)
  <2>1. /\ total'[c] = Sum(requests, now) /\ now' = now
        /\ requestLog' = requestLog
    BY <1>2 DEF SumRequests, TypeOK
  <2>2. Sum(requests, now) <= Happened(requestLog, WindowLen)
    BY NeverOvercounts DEF TypeOK, RingInv, Log
  <2>3. Happened(requestLog, WindowLen)
          = Between(requestLog, now - WindowLen + 1, now)
    <3>1. {t \in Times : now - WindowLen < t /\ t <= now}
            = Ticks(now - WindowLen + 1, now)
      <4>1. \A x \in Times : now - WindowLen < x <=> now - WindowLen + 1 <= x
        BY <1>t, ClockType, WindowAssumption
      <4> QED BY <4>1 DEF Ticks
    <3> QED BY <3>1 DEF Happened, Between
  <2>4. /\ Sum(requests, now) \in Nat
        /\ Between(requestLog, now - WindowLen + 1, now) \in Nat
    BY SumNatural, BetweenType DEF TypeOK, Log
  <2>5. \A x, y, k, n \in Nat : x <= y => x * k + n <= y * k + n
    OBVIOUS
  <2>6. RatioNum \in Nat /\ Floor * RatioDen \in Nat
    BY BudgetAssumption DEF ValidBudget
  <2>7. Sum(requests, now) * RatioNum + Floor * RatioDen <= Allowed(now)
    BY <2>2, <2>3, <2>4, <2>5, <2>6 DEF Allowed
  <2>8. Allowed(now)' = Allowed(now)
    BY <2>1 DEF Allowed, Between, Ticks, Times
  <2> QED BY <1>t, <2>1, <2>7, <2>8
<1> QED
  BY <1>1, <1>2
  DEF TypeOK, Next, RecordRequest, SumRequests, SumRetries, Charge, Refuse,
      Finish, Return, Tick, Horizon, vars

\* The retries of a stretch that ends now are all in the ring.
LEMMA StretchIsCounted ==
  ASSUME EpochShift = 0, TypeOK, RingInv, NEW s \in Times, Stretch(s, now)
  PROVE  Between(retryLog, s, now) <= Sum(retries, now)
<1> DEFINE Len == NumBuckets * Width - Width + 1
           Recent == {t \in Times : now - Len < t /\ t <= now}
<1>1. Sum(retries, now) >= Happened(retryLog, Len)
  BY MissesTheOldestBucket DEF TypeOK, RingInv, Log
<1>2. now \in Int /\ s \in Int /\ NumBuckets * Width \in Int /\ Width \in Int
  BY ClockType, WidthType, WindowAssumption DEF TypeOK
<1>3. Ticks(s, now) \subseteq Recent
  <2>1. \A x \in Times : s <= x /\ x <= now => now - Len < x
    BY <1>2, ClockType DEF Stretch
  <2> QED BY <2>1 DEF Ticks
<1>4. IsFiniteSet(Recent) /\ \A x \in Recent : retryLog[x] \in Nat
  BY ClockType, FS_Subset DEF TypeOK
<1>5. Happened(retryLog, Len) = SumFunctionOnSet(retryLog, Recent)
  BY DEF Happened
<1> HIDE DEF Len, Recent
<1>6. Between(retryLog, s, now) <= Happened(retryLog, Len)
  BY <1>3, <1>4, <1>5, SumSubset DEF Between
<1>7. /\ Between(retryLog, s, now) \in Nat /\ Sum(retries, now) \in Nat
      /\ Happened(retryLog, Len) \in Nat
  BY <1>4, <1>5, BetweenType, SumNatural, SumNat DEF TypeOK, Log
<1> QED BY <1>1, <1>6, <1>7

\* A stretch in which nothing changes keeps its witness.
LEMMA StretchKept ==
  ASSUME TypeOK, RingInv, RetriesFollowTraffic, [Next]_vars,
         NEW s \in Times, NEW t \in Times, Stretch(s, t), NEW r \in Times, t <= r,
         Between(retryLog', s, r) = Between(retryLog, s, t)
  PROVE  \E u \in Times :
           u <= r /\ (Between(retryLog', s, r) - 1) * RatioDen < Allowed(u)'
<1>1. PICK u \in Times :
        u <= t /\ (Between(retryLog, s, t) - 1) * RatioDen < Allowed(u)
  BY DEF RetriesFollowTraffic
<1>2. /\ Allowed(u) <= Allowed(u)'
      /\ Allowed(u) \in Nat /\ Allowed(u)' \in Nat
  BY AllowedGrows
<1>3. (Between(retryLog, s, t) - 1) * RatioDen \in Int
  BY BetweenType, BudgetAssumption DEF TypeOK, Log
<1>4. u \in Int /\ t \in Int /\ r \in Int
  BY ClockType
<1> QED BY <1>1, <1>2, <1>3, <1>4

LEMMA TrafficInductive ==
  ASSUME EpochShift = 0
  PROVE  TypeOK /\ RingInv /\ UsedInv /\ TotalInv /\ RetriesFollowTraffic
           /\ [Next]_vars => RetriesFollowTraffic'
<1> SUFFICES ASSUME TypeOK, RingInv, UsedInv, TotalInv, RetriesFollowTraffic,
                    [Next]_vars, NEW s \in Times, NEW t \in Times, Stretch(s, t)'
             PROVE  \E u \in Times :
                      /\ u <= t
                      /\ (Between(retryLog', s, t) - 1) * RatioDen < Allowed(u)'
  BY DEF RetriesFollowTraffic, Between, Ticks, Times
<1>t. /\ now \in Times /\ now \in Int /\ s \in Int /\ t \in Int
      /\ s <= t /\ t <= now' /\ t - s <= NumBuckets * Width - Width
      /\ retryLog \in Log
  BY ClockType DEF TypeOK, Stretch, Width, Log
<1>1. CASE retryLog' = retryLog /\ t <= now
  <2>1. Stretch(s, t) /\ Between(retryLog', s, t) = Between(retryLog, s, t)
    BY <1>1, <1>t DEF Stretch
  <2> QED BY <1>t, <2>1, StretchKept
<1>2. ASSUME NEW c \in Callers, Charge(c)
      PROVE  \E u \in Times :
               /\ u <= t
               /\ (Between(retryLog', s, t) - 1) * RatioDen < Allowed(u)'
  <2>1. now' = now /\ retryLog' = [retryLog EXCEPT ![now] = @ + 1]
    BY <1>2 DEF Charge
  <2>2. Stretch(s, t)
    BY <1>t, <2>1 DEF Stretch
  <2>3. \A x \in Ticks(s, t) : retryLog[x] \in Int /\ retryLog'[x] \in Int
    <3>1. retryLog' \in Log
      BY <1>t, <2>1 DEF Log
    <3>2. \A x \in Times : retryLog[x] \in Int /\ retryLog'[x] \in Int
      BY <1>t, <3>1 DEF Log
    <3> QED BY <3>2, TicksFinite
  <2>4. \A x \in Times \ {now} : retryLog'[x] = retryLog[x]
    BY <1>t, <2>1 DEF Log
  <2>5. CASE t < now
    <3>1. \A x \in Ticks(s, t) : retryLog'[x] = retryLog[x]
      <4>1. \A x \in Ticks(s, t) : x \in Times \ {now}
        BY <1>t, <2>5, ClockType DEF Ticks
      <4> QED BY <2>4, <4>1
    <3>2. Between(retryLog', s, t) = Between(retryLog, s, t)
      BY <2>3, <3>1, TicksFinite, SumEqual DEF Between
    <3> QED BY <1>t, <2>2, <3>2, StretchKept
  <2>6. CASE t = now
    <3>1. Between(retryLog', s, now) = Between(retryLog, s, now) + 1
      <4>1. now \in Ticks(s, now) /\ retryLog'[now] = retryLog[now] + 1
        BY <1>t, <2>1, <2>6 DEF Ticks, Log
      <4>2. \A x \in Ticks(s, now) \ {now} : retryLog'[x] = retryLog[x]
        BY <2>4, TicksFinite
      <4> QED BY <2>3, <2>6, <4>1, <4>2, TicksFinite, SumBump DEF Between
    <3>2. Between(retryLog, s, now) <= Sum(retries, now)
      BY <2>2, <2>6, StretchIsCounted
    <3>3. /\ Sum(retries, now) \in Nat
          /\ Sum(retries, now) * RatioDen
               < total[c] * RatioNum + Floor * RatioDen
      BY <1>2, ChargeFits
    <3>4. PICK u \in Times :
            u <= now /\ total[c] * RatioNum + Floor * RatioDen <= Allowed(u)
      BY <1>2 DEF TotalInv, Charge
    <3>5. /\ Allowed(u) <= Allowed(u)'
          /\ Allowed(u) \in Nat /\ Allowed(u)' \in Nat
      BY AllowedGrows
    <3>6. total[c] * RatioNum + Floor * RatioDen \in Int
      BY BudgetAssumption DEF TypeOK
    <3>7. Between(retryLog, s, now) \in Nat
      BY <1>t, BetweenType
    <3>8. Between(retryLog, s, now) * RatioDen <= Sum(retries, now) * RatioDen
      <4>1. \A x, y, k \in Nat : x <= y => x * k <= y * k
        OBVIOUS
      <4> QED BY <3>2, <3>3, <3>7, <4>1, BudgetAssumption
    <3>9. /\ Between(retryLog, s, now) * RatioDen \in Int
          /\ Sum(retries, now) * RatioDen \in Int
      BY <3>3, <3>7, BudgetAssumption
    <3>10. Between(retryLog', s, t) - 1 = Between(retryLog, s, now)
      BY <2>6, <3>1, <3>7
    <3> QED
      BY <2>6, <3>3, <3>4, <3>5, <3>6, <3>8, <3>9, <3>10
  <2>7. t < now \/ t = now
    BY <1>t, <2>1
  <2> QED BY <2>5, <2>6, <2>7
<1>3. CASE Tick /\ t = now + 1
  <2>1. retryLog' = retryLog /\ retryLog[t] = 0
    <3>1. retryLog[t] > 0 => t <= now
      BY DEF RingInv, Tells
    <3> QED BY <1>3, <1>t, <3>1 DEF Tick, Log
  <2>2. CASE s = t
    <3>1. \A x \in Ticks(s, t) : retryLog'[x] = 0
      <4>1. \A x \in Times : s <= x /\ x <= t => x = t
        BY <1>t, <2>2, ClockType
      <4> QED BY <2>1, <4>1 DEF Ticks
    <3>2. Between(retryLog', s, t) = 0
      BY <3>1, TicksFinite, SumZero DEF Between
    <3>3. Allowed(t)' \in Nat
      BY AllowedGrows
    <3> QED BY <1>t, <3>2, <3>3, BudgetAssumption
  <2>3. CASE s # t
    <3>1. Stretch(s, now) /\ now <= t
      BY <1>3, <1>t, <2>3, WidthType, WindowAssumption DEF Stretch
    <3>2. Ticks(s, now) \subseteq Ticks(s, t)
      <4>1. \A x \in Times : x <= now => x <= t
        BY <1>3, <1>t, ClockType
      <4> QED BY <4>1 DEF Ticks
    <3>3. \A x \in Ticks(s, t) \ Ticks(s, now) : retryLog'[x] = 0
      <4>1. \A x \in Times : x <= t /\ ~(x <= now) => x = t
        BY <1>3, <1>t, ClockType
      <4> QED BY <2>1, <4>1 DEF Ticks
    <3>4. \A x \in Ticks(s, t) : retryLog'[x] \in Int
      <4>1. \A x \in Times : retryLog'[x] \in Int
        BY <1>t, <2>1 DEF Log
      <4> QED BY <4>1, TicksFinite
    <3>5. Between(retryLog', s, t) = Between(retryLog, s, now)
      BY <2>1, <3>2, <3>3, <3>4, TicksFinite, SumSupport DEF Between
    <3> QED BY <1>t, <3>1, <3>5, StretchKept
  <2> QED BY <2>2, <2>3
<1>4. \/ retryLog' = retryLog /\ now' = now
      \/ Tick /\ retryLog' = retryLog /\ now' = now + 1
      \/ \E c \in Callers : Charge(c)
  BY DEF Next, RecordRequest, SumRequests, SumRetries, Refuse, Finish, Tick,
         Horizon, vars
<1> QED BY <1>t, <1>1, <1>2, <1>3, <1>4

\* What the budget is for, to cap "retries as a fraction of total request
\* volume" (budget.go:1-8), told of the retries sent instead of the counters.
\* Over every stretch of time that the ring covers they exceed, by one at most,
\* what the requests of some window before its end allow: the ratio of them and
\* the floor.  That window need not be the one the retries fall in, since Allow
\* reads its two counters one after the other and the clock runs on.
THEOREM RetriesAreCapped ==
  ASSUME EpochShift = 0
  PROVE  Spec => []RetriesFollowTraffic
<1>1. Init => TotalInv /\ RetriesFollowTraffic
  <2> SUFFICES ASSUME Init PROVE TotalInv /\ RetriesFollowTraffic
    OBVIOUS
  <2>1. TotalInv
    BY DEF Init, TotalInv
  <2>2. RetriesFollowTraffic
    <3> SUFFICES ASSUME NEW s \in Times, NEW t \in Times
                 PROVE  (Between(retryLog, s, t) - 1) * RatioDen < Allowed(t)
      BY ClockType DEF RetriesFollowTraffic
    <3>1. Between(retryLog, s, t) = 0
      BY TicksFinite, SumZero DEF Init, Between
    <3>2. Allowed(t) \in Nat
      <4>1. Between(requestLog, t - WindowLen + 1, t) \in Nat
        BY BetweenType, InitInv DEF TypeOK, Log
      <4>2. RatioNum \in Nat /\ Floor * RatioDen \in Nat
        BY BudgetAssumption DEF ValidBudget
      <4>3. \A x, k, n \in Nat : x * k + n \in Nat
        OBVIOUS
      <4> QED BY <4>1, <4>2, <4>3 DEF Allowed
    <3> QED BY <3>1, <3>2, BudgetAssumption
  <2> QED BY <2>1, <2>2
<1>2. TypeOK /\ RingInv /\ TotalInv /\ [Next]_vars => TotalInv'
  BY TotalInductive
<1>3. TypeOK /\ RingInv /\ UsedInv /\ TotalInv /\ RetriesFollowTraffic
        /\ [Next]_vars => RetriesFollowTraffic'
  BY TrafficInductive
<1> QED BY <1>1, <1>2, <1>3, InvHolds, PTL DEF Spec
================================================================================
