--------------------------- MODULE ServerChainProofs ---------------------------
(*****************************************************************************)
(* Proofs about ServerChain, for any number of requests, any capacity of the *)
(* shedder, any answers of the handler and any limits of the cardinality     *)
(* guard that ChainAssumption admits.                                        *)
(*****************************************************************************)
EXTENDS ServerChain, FiniteSetTheorems, TLAPS

\* What a panic may have begun in, when it is not a deliberate abort.
PanicOrigins == {"handler", "auth", "validation", "extra"}

\* What authentication answers.
AuthAnswers ==
  {AuthError(error) : error \in UserErrors \ {NoError}} \cup
  {PeerError("unauthenticated")}

\* Which answer each layer gives.
Given(layer, c) ==
  \/ layer \in {"handler", "extra"} /\ c \in UserErrors
  \/ layer = "auth" /\ c \in AuthAnswers
  \/ layer = "validation" /\ c = PeerError("invalid_argument")
  \/ layer = "shed" /\ c = PeerError("resource_exhausted")
  \/ layer \in {"recovery", "guard"} /\ c = PeerError("internal")

\* The answer c of layer b on its way up, after a panic in p.
Coming(b, c, p) ==
  /\ Given(b, c) /\ b # "guard" /\ p \in {"none", "handler"}
  /\ b = "recovery" => p = "handler"
  /\ p = "handler" => b \in {"recovery", "extra"}

\* Nothing is answered yet.
Fresh(b, c) == b = "none" /\ c = NoError

\* One request: its way w, its position i, its answer c, the layer b that gave
\* it, where its panic began p, and the code m it was measured under.
RequestOK(w, i, c, b, p, m) ==
  /\ m \in AllCodes \cup {"none"}
  /\ \/ w = "new" /\ i = 0 /\ Fresh(b, c) /\ p = "none"
     \/ w = "down" /\ i \in 1 .. 11 /\ Fresh(b, c) /\ p = "none"
     \/ w = "rejected" /\ i = 5 /\ Fresh(b, c) /\ p = "none"
     \/ w = "up" /\ i \in 1 .. 10 /\ Coming(b, c, p) /\ (i < 4 => m = CodeOf(c))
     \/ /\ w = "panic" /\ i \in 1 .. 10 /\ (Fresh(b, c) \/ Given(b, c))
        /\ p \in PanicOrigins /\ (p = "handler" <=> i = 10)
     \/ w = "abort" /\ i \in 1 .. 10 /\ Fresh(b, c) /\ p = "abort"
     \/ /\ w = "over" /\ i = 0
        /\ \/ Coming(b, c, p) /\ m = CodeOf(c)
           \/ b = "guard" /\ Given(b, c) /\ p \in PanicOrigins \ {"handler"}
     \/ w = "cut" /\ i = 0 /\ Fresh(b, c) /\ p = "abort"

RequestInv(r) ==
  RequestOK(way[r], at[r], answer[r], answeredBy[r], panickedIn[r], measured[r])

\* The six that hold something per request.
PerRequest ==
  /\ way = [r \in Requests |-> way[r]] /\ at = [r \in Requests |-> at[r]]
  /\ answer = [r \in Requests |-> answer[r]]
  /\ answeredBy = [r \in Requests |-> answeredBy[r]]
  /\ panickedIn = [r \in Requests |-> panickedIn[r]]
  /\ measured = [r \in Requests |-> measured[r]]

\* Whom the gauge counts: who has passed Metrics on the way down and has not
\* yet passed it on the way up, or never will.
Gauged ==
  {r \in Requests :
     \/ way[r] = "down" /\ at[r] > 4
     \/ way[r] = "up" /\ at[r] >= 4
     \/ way[r] \in {"rejected", "panic", "abort"}
     \/ way[r] \in {"over", "cut"} /\ panickedIn[r] \notin {"none", "handler"}}

CountInv ==
  /\ inFlight = Cardinality(Admitted) + Cardinality(Rejecting)
  /\ Cardinality(Admitted) <= MaxInFlight
  /\ active = Cardinality(Gauged)

\* The cardinality guard: while it tracks, it has every series; once it has
\* stopped, there were as many as its hard cap.
GuardInv ==
  /\ {reported, stopped} \subseteq BOOLEAN
  /\ seen \subseteq AllCodes /\ IsFiniteSet(seen)
  /\ IF stopped THEN series = {} /\ Cardinality(seen) >= HardCap
                ELSE series = seen /\ Cardinality(seen) < HardCap
  /\ reported <=> Cardinality(seen) >= Threshold
  /\ warnings = IF reported THEN 1 ELSE 0

ChainInv ==
  PerRequest /\ (\A r \in Requests : RequestInv(r)) /\ CountInv /\ GuardInv

-------------------------------------------------------------------------------
(* The layers. *)

LEMMA TenLayers ==
  /\ Len(Chain) = 10 /\ DOMAIN Chain = 1 .. 10 /\ Handler = 11
  /\ Chain[1] = "guard" /\ Chain[2] = "tracing" /\ Chain[3] = "logging"
  /\ Chain[4] = "metrics" /\ Chain[5] = "shed" /\ Chain[6] = "timeout"
  /\ Chain[7] = "auth" /\ Chain[8] = "validation" /\ Chain[9] = "extra"
  /\ Chain[10] = "recovery"
  BY DEF Chain, Handler

LEMMA LayersDiffer ==
  ASSUME NEW i \in 1 .. 10
  PROVE  /\ Chain[i] = "guard" <=> i = 1
         /\ Chain[i] = "tracing" <=> i = 2
         /\ Chain[i] = "logging" <=> i = 3
         /\ Chain[i] = "metrics" <=> i = 4
         /\ Chain[i] = "shed" <=> i = 5
         /\ Chain[i] = "timeout" <=> i = 6
         /\ Chain[i] = "auth" <=> i = 7
         /\ Chain[i] = "validation" <=> i = 8
         /\ Chain[i] = "extra" <=> i = 9
         /\ Chain[i] = "recovery" <=> i = 10
  <1>1. \/ i = 1 \/ i = 2 \/ i = 3 \/ i = 4 \/ i = 5
        \/ i = 6 \/ i = 7 \/ i = 8 \/ i = 9 \/ i = 10
    OBVIOUS
  <1>2. QED
    BY <1>1, TenLayers

LEMMA Positions == Position("shed") = 5 /\ Position("auth") = 7
  <1>1. Position("shed") \in 1 .. 10 /\ Chain[Position("shed")] = "shed"
    BY TenLayers DEF Position
  <1>2. Position("auth") \in 1 .. 10 /\ Chain[Position("auth")] = "auth"
    BY TenLayers DEF Position
  <1>3. QED
    BY <1>1, <1>2, LayersDiffer

\* So a request's layer is known by its number.
LEMMA LayerNumbers ==
  ASSUME NEW r, at[r] \in 0 .. 11
  PROVE  /\ In(r, "guard") <=> at[r] = 1
         /\ In(r, "tracing") <=> at[r] = 2
         /\ In(r, "logging") <=> at[r] = 3
         /\ In(r, "metrics") <=> at[r] = 4
         /\ In(r, "shed") <=> at[r] = 5
         /\ In(r, "timeout") <=> at[r] = 6
         /\ In(r, "auth") <=> at[r] = 7
         /\ In(r, "validation") <=> at[r] = 8
         /\ In(r, "extra") <=> at[r] = 9
         /\ In(r, "recovery") <=> at[r] = 10
  <1>1. CASE at[r] \in 1 .. 10
    BY <1>1, TenLayers, LayersDiffer DEF In
  <1>2. CASE at[r] \notin 1 .. 10
    BY <1>2, TenLayers DEF In
  <1>3. QED
    BY <1>1, <1>2

-------------------------------------------------------------------------------
(* The answers. *)

LEMMA AnswersAre ==
  ASSUME NEW b, NEW c, Given(b, c) \/ Fresh(b, c)
  PROVE  c \in Errors /\ CodeOf(c) \in AllCodes
  <1>1. c \in Errors
    <2>1. CASE Fresh(b, c)
      BY <2>1 DEF Fresh, Errors
    <2>2. CASE c \in UserErrors
      BY <2>2, ChainAssumption
    <2>3. CASE c \in AuthAnswers
      <3>1. PeerError("unauthenticated") \in Errors
        BY DEF PeerError, Errors, Codes
      <3>2. ASSUME NEW error \in UserErrors \ {NoError}
            PROVE  AuthError(error) \in Errors
        <4>1. error \in [code : Codes, is : SUBSET Sentinels]
          BY ChainAssumption DEF Errors
        <4>2. [error EXCEPT !.code = "unauthenticated"]
                \in [code : Codes, is : SUBSET Sentinels]
          BY <4>1 DEF Codes
        <4>3. QED
          BY <4>1, <4>2 DEF AuthError, Errors
      <3>3. QED
        BY <2>3, <3>1, <3>2 DEF AuthAnswers
    <2>4. CASE c \in {PeerError("invalid_argument"), PeerError("internal"),
                     PeerError("resource_exhausted")}
      BY <2>4 DEF PeerError, Errors, Codes
    <2>5. QED
      BY <2>1, <2>2, <2>3, <2>4 DEF Given
  <1>2. QED
    BY <1>1 DEF Errors, NoError, AllCodes, CodeOf

\* An authenticator's error leaves with a code of its own, and is changed only
\* if it came without one.
LEMMA AuthRecodes ==
  ASSUME NEW c \in AuthAnswers, c.code # "unauthenticated"
  PROVE  c \in UserErrors
  <1>1. c # PeerError("unauthenticated")
    BY DEF PeerError
  <1>2. PICK error \in UserErrors \ {NoError} : c = AuthError(error)
    BY <1>1 DEF AuthAnswers
  <1>3. error \in [code : Codes, is : SUBSET Sentinels]
    BY ChainAssumption DEF Errors
  <1>4. error.code # "unknown"
    BY <1>2, <1>3 DEF AuthError
  <1>5. QED
    BY <1>2, <1>4 DEF AuthError

LEMMA AuthHasCode ==
  ASSUME NEW c \in AuthAnswers
  PROVE  c.code # "unknown"
  <1>1. CASE c = PeerError("unauthenticated")
    BY <1>1 DEF PeerError
  <1>2. ASSUME NEW error \in UserErrors \ {NoError}, c = AuthError(error)
        PROVE  c.code # "unknown"
    <2>1. error \in [code : Codes, is : SUBSET Sentinels]
      BY ChainAssumption DEF Errors
    <2>2. QED
      BY <1>2, <2>1 DEF AuthError
  <1>3. QED
    BY <1>1, <1>2 DEF AuthAnswers

-------------------------------------------------------------------------------
(* One step of one request. *)

Others(r) ==
  \A s \in Requests \ {r} :
    /\ way'[s] = way[s] /\ at'[s] = at[s] /\ answer'[s] = answer[s]
    /\ answeredBy'[s] = answeredBy[s]
    /\ panickedIn'[s] = panickedIn[s] /\ measured'[s] = measured[s]

StepOf(r) == PerRequest' /\ Others(r)

LEMMA DescendGives ==
  ASSUME NEW r \in Requests, PerRequest, Descend(r), measured' = measured
  PROVE  /\ StepOf(r)
         /\ way'[r] = way[r] /\ at'[r] = at[r] + 1 /\ answer'[r] = answer[r]
         /\ answeredBy'[r] = answeredBy[r]
         /\ panickedIn'[r] = panickedIn[r] /\ measured'[r] = measured[r]
  BY DEF PerRequest, Descend, StepOf, Others

LEMMA AnswerGives ==
  ASSUME NEW r \in Requests, NEW error, NEW layer, PerRequest,
         Answer(r, error, layer), measured' = measured
  PROVE  /\ StepOf(r)
         /\ way'[r] = (IF at[r] = 1 THEN "over" ELSE "up")
         /\ at'[r] = at[r] - 1 /\ answer'[r] = error /\ answeredBy'[r] = layer
         /\ panickedIn'[r] = panickedIn[r] /\ measured'[r] = measured[r]
  BY DEF PerRequest, Answer, StepOf, Others

LEMMA ReturnGives ==
  ASSUME NEW r \in Requests, PerRequest, Return(r), measured' = measured
  PROVE  /\ StepOf(r)
         /\ way'[r] = (IF at[r] = 1 THEN "over" ELSE "up")
         /\ at'[r] = at[r] - 1 /\ answer'[r] = answer[r]
         /\ answeredBy'[r] = answeredBy[r]
         /\ panickedIn'[r] = panickedIn[r] /\ measured'[r] = measured[r]
  BY AnswerGives DEF Return

LEMMA ThrowGives ==
  ASSUME NEW r \in Requests, NEW kind, NEW layer, PerRequest,
         Throw(r, kind, layer), measured' = measured
  PROVE  /\ StepOf(r)
         /\ way'[r] = kind /\ at'[r] = at[r] - 1 /\ answer'[r] = answer[r] /\ answeredBy'[r] = answeredBy[r]
         /\ panickedIn'[r] = layer /\ measured'[r] = measured[r]
  BY DEF PerRequest, Throw, StepOf, Others

-------------------------------------------------------------------------------
(* Counting. *)

Bit(b) == IF b THEN 1 ELSE 0

\* A set of requests of which only r's membership may change.
LEMMA OneMayMove ==
  ASSUME NEW S \in SUBSET Requests, NEW T \in SUBSET Requests,
         NEW r \in Requests,
         \A s \in Requests \ {r} : s \in S <=> s \in T
  PROVE  /\ Cardinality(S) \in Nat /\ Cardinality(T) \in Nat
         /\ Cardinality(T) = Cardinality(S) + Bit(r \in T) - Bit(r \in S)
  <1>1. IsFiniteSet(S) /\ IsFiniteSet(T)
    BY ChainAssumption, FS_Subset
  <1>2. Cardinality(S) \in Nat /\ Cardinality(T) \in Nat
    BY <1>1, FS_CardinalityType
  <1>3. CASE r \in S <=> r \in T
    <2>1. S = T
      BY <1>3
    <2>2. QED
      BY <1>2, <2>1 DEF Bit
  <1>4. CASE r \in T /\ r \notin S
    <2>1. T = S \cup {r}
      BY <1>4
    <2>2. Cardinality(T) = Cardinality(S) + 1
      BY <1>1, <1>4, <2>1, FS_AddElement
    <2>3. QED
      BY <1>2, <1>4, <2>2 DEF Bit
  <1>5. CASE r \in S /\ r \notin T
    <2>1. T = S \ {r}
      BY <1>5
    <2>2. Cardinality(T) = Cardinality(S) - 1
      BY <1>1, <1>5, <2>1, FS_RemoveElement
    <2>3. QED
      BY <1>2, <1>5, <2>2 DEF Bit
  <1>6. QED
    BY <1>3, <1>4, <1>5

LEMMA DisjointCounts ==
  /\ IsFiniteSet(Admitted) /\ IsFiniteSet(Rejecting)
  /\ Cardinality(Admitted) \in Nat /\ Cardinality(Rejecting) \in Nat
  /\ Cardinality(Admitted \cup Rejecting)
       = Cardinality(Admitted) + Cardinality(Rejecting)
  <1>1. IsFiniteSet(Admitted) /\ IsFiniteSet(Rejecting)
    BY ChainAssumption, FS_Subset DEF Admitted, Rejecting
  <1>2. Cardinality(Admitted) \in Nat /\ Cardinality(Rejecting) \in Nat
    BY <1>1, FS_CardinalityType
  <1>3. Cardinality(Admitted \cap Rejecting) = 0
    <2>1. Admitted \cap Rejecting = {}
      BY DEF Admitted, Rejecting
    <2>2. QED
      BY <2>1, FS_EmptySet
  <1>4. Cardinality(Admitted \cup Rejecting)
          = Cardinality(Admitted) + Cardinality(Rejecting)
            - Cardinality(Admitted \cap Rejecting)
    BY <1>1, FS_Union
  <1>5. QED
    BY <1>1, <1>2, <1>3, <1>4

\* The counters follow the request that moves; it is let in under the cap.
CountStep(r) ==
  /\ inFlight' = inFlight + Bit(r \in Admitted') + Bit(r \in Rejecting')
                          - Bit(r \in Admitted) - Bit(r \in Rejecting)
  /\ active' = active + Bit(r \in Gauged') - Bit(r \in Gauged)
  /\ r \in Admitted' /\ r \notin Admitted => inFlight < MaxInFlight

LEMMA CountsKept ==
  ASSUME NEW r \in Requests, CountInv, StepOf(r), CountStep(r)
  PROVE  CountInv'
  <1>1. /\ Cardinality(Admitted) \in Nat /\ Cardinality(Admitted') \in Nat
        /\ Cardinality(Admitted')
             = Cardinality(Admitted) + Bit(r \in Admitted') - Bit(r \in Admitted)
    <2>1. \A s \in Requests \ {r} : s \in Admitted <=> s \in Admitted'
      BY DEF StepOf, Others, Admitted
    <2>2. Admitted \in SUBSET Requests /\ Admitted' \in SUBSET Requests
      BY DEF Admitted
    <2>3. QED
      BY <2>1, <2>2, OneMayMove
  <1>2. /\ Cardinality(Rejecting) \in Nat /\ Cardinality(Rejecting') \in Nat
        /\ Cardinality(Rejecting')
             = Cardinality(Rejecting) + Bit(r \in Rejecting') - Bit(r \in Rejecting)
    <2>1. \A s \in Requests \ {r} : s \in Rejecting <=> s \in Rejecting'
      BY DEF StepOf, Others, Rejecting
    <2>2. Rejecting \in SUBSET Requests /\ Rejecting' \in SUBSET Requests
      BY DEF Rejecting
    <2>3. QED
      BY <2>1, <2>2, OneMayMove
  <1>3. /\ Cardinality(Gauged) \in Nat /\ Cardinality(Gauged') \in Nat
        /\ Cardinality(Gauged')
             = Cardinality(Gauged) + Bit(r \in Gauged') - Bit(r \in Gauged)
    <2>1. \A s \in Requests \ {r} : s \in Gauged <=> s \in Gauged'
      BY DEF StepOf, Others, Gauged
    <2>2. Gauged \in SUBSET Requests /\ Gauged' \in SUBSET Requests
      BY DEF Gauged
    <2>3. QED
      BY <2>1, <2>2, OneMayMove
  <1>4. Cardinality(Admitted') <= MaxInFlight
    <2>1. CASE r \in Admitted' /\ r \notin Admitted
      BY <1>1, <1>2, <2>1, ChainAssumption DEF CountInv, CountStep, Bit
    <2>2. CASE ~(r \in Admitted' /\ r \notin Admitted)
      BY <1>1, <2>2, ChainAssumption DEF CountInv, Bit
    <2>3. QED
      BY <2>1, <2>2
  <1>5. inFlight' = Cardinality(Admitted') + Cardinality(Rejecting')
    BY <1>1, <1>2 DEF CountInv, CountStep, Bit
  <1>6. active' = Cardinality(Gauged')
    BY <1>3 DEF CountInv, CountStep, Bit
  <1>7. QED
    BY <1>4, <1>5, <1>6 DEF CountInv

\* What a step of r has to show.
StepKeeps(r) ==
  StepOf(r) /\ RequestInv(r)' /\ CountStep(r) /\ GuardInv'

LEMMA EnoughToShow ==
  ASSUME ChainInv, NEW r \in Requests, StepKeeps(r)
  PROVE  ChainInv'
  <1>1. \A s \in Requests : RequestInv(s)'
    <2>1. SUFFICES ASSUME NEW s \in Requests \ {r}
                   PROVE  RequestInv(s)'
      BY DEF StepKeeps
    <2>2. RequestInv(s)
      BY DEF ChainInv
    <2>3. QED
      BY <2>2 DEF StepKeeps, StepOf, Others, RequestInv
  <1>2. CountInv'
    BY CountsKept DEF ChainInv, StepKeeps
  <1>3. QED
    BY <1>1, <1>2 DEF ChainInv, StepKeeps, StepOf

-------------------------------------------------------------------------------
(* The actions of a request. *)

LEMMA GuardStays ==
  ASSUME GuardInv, UNCHANGED guardVars
  PROVE  GuardInv'
  BY DEF GuardInv, guardVars

\* Who is counted, before a step and after it.
LEMMA Members ==
  ASSUME NEW r \in Requests
  PROVE  /\ r \in Admitted <=> \/ way[r] = "down" /\ at[r] > 5
                               \/ way[r] \in {"up", "panic", "abort"} /\ at[r] >= 5
         /\ r \in Admitted' <=> \/ way'[r] = "down" /\ at'[r] > 5
                                \/ /\ way'[r] \in {"up", "panic", "abort"}
                                   /\ at'[r] >= 5
         /\ r \in Rejecting <=> way[r] = "rejected"
         /\ r \in Rejecting' <=> way'[r] = "rejected"
         /\ r \in Gauged <=>
              \/ way[r] = "down" /\ at[r] > 4
              \/ way[r] = "up" /\ at[r] >= 4
              \/ way[r] \in {"rejected", "panic", "abort"}
              \/ way[r] \in {"over", "cut"} /\ panickedIn[r] \notin {"none", "handler"}
         /\ r \in Gauged' <=>
              \/ way'[r] = "down" /\ at'[r] > 4
              \/ way'[r] = "up" /\ at'[r] >= 4
              \/ way'[r] \in {"rejected", "panic", "abort"}
              \/ way'[r] \in {"over", "cut"} /\ panickedIn'[r] \notin {"none", "handler"}
  BY Positions DEF Admitted, Rejecting, Gauged

\* Each counter is a whole number.
LEMMA CountersAre == CountInv => inFlight \in Nat /\ active \in Nat
  <1>1. IsFiniteSet(Admitted) /\ IsFiniteSet(Rejecting) /\ IsFiniteSet(Gauged)
    BY ChainAssumption, FS_Subset DEF Admitted, Rejecting, Gauged
  <1>2. QED
    BY <1>1, FS_CardinalityType DEF CountInv

LEMMA ArriveKeeps ==
  ASSUME ChainInv, NEW r \in Requests, Arrive(r)
  PROVE  StepKeeps(r)
  <1> USE DEF ChainInv
  <1>1. RequestInv(r) /\ way[r] = "new"
    BY DEF Arrive
  <1>2. /\ StepOf(r) /\ way'[r] = "down" /\ at'[r] = 1
        /\ answer'[r] = answer[r]
        /\ answeredBy'[r] = answeredBy[r] /\ panickedIn'[r] = panickedIn[r]
        /\ measured'[r] = measured[r]
    BY DEF Arrive, PerRequest, StepOf, Others
  <1>3. RequestInv(r)'
    BY <1>1, <1>2 DEF RequestInv, RequestOK
  <1>4. CountStep(r)
    BY <1>1, <1>2, Members, CountersAre DEF Arrive, CountStep, Bit
  <1>5. QED
    BY <1>2, <1>3, <1>4, GuardStays DEF Arrive, StepKeeps

\* The counters and the cardinality guard are left alone.
CountsStay == UNCHANGED <<inFlight, active, measured, guardVars>>

LEMMA DescendKeeps ==
  ASSUME ChainInv, NEW r \in Requests, way[r] = "down",
         at[r] \in {1, 2, 3, 6, 7, 8, 9, 10}, Descend(r), CountsStay
  PROVE  StepKeeps(r)
  <1> USE DEF ChainInv
  <1>1. RequestInv(r)
    OBVIOUS
  <1>2. /\ StepOf(r) /\ way'[r] = way[r] /\ at'[r] = at[r] + 1
        /\ answer'[r] = answer[r]
        /\ answeredBy'[r] = answeredBy[r] /\ panickedIn'[r] = panickedIn[r]
        /\ measured'[r] = measured[r]
    BY DescendGives DEF CountsStay
  <1>3. RequestInv(r)'
    BY <1>1, <1>2 DEF RequestInv, RequestOK
  <1>4. CountStep(r)
    BY <1>1, <1>2, Members, CountersAre DEF CountsStay, CountStep, Bit
  <1>5. QED
    BY <1>2, <1>3, <1>4, GuardStays DEF CountsStay, StepKeeps

\* A layer below the shedder, or the handler, answers; Extra perhaps on the way
\* up, in the place of the handler or of Recovery.
LEMMA AnswerKeeps ==
  ASSUME ChainInv, NEW r \in Requests,
         NEW layer \in {"auth", "validation", "extra", "handler"},
         \/ way[r] = "down" /\ at[r] \in 7 .. 11
         \/ way[r] = "up" /\ at[r] = 9 /\ layer = "extra",
         NEW error, Given(layer, error), Answer(r, error, layer), CountsStay
  PROVE  StepKeeps(r)
  <1> USE DEF ChainInv
  <1>1. RequestInv(r)
    OBVIOUS
  <1>2. /\ StepOf(r) /\ way'[r] = "up" /\ at'[r] = at[r] - 1
        /\ answer'[r] = error /\ answeredBy'[r] = layer
        /\ panickedIn'[r] = panickedIn[r] /\ measured'[r] = measured[r]
    BY AnswerGives DEF CountsStay
  <1>3. Coming(layer, error, panickedIn[r])
    BY <1>1 DEF RequestInv, RequestOK, Coming
  <1>4. RequestInv(r)'
    BY <1>1, <1>2, <1>3 DEF RequestInv, RequestOK
  <1>5. CountStep(r)
    BY <1>1, <1>2, Members, CountersAre DEF CountsStay, CountStep, Bit
  <1>6. QED
    BY <1>2, <1>4, <1>5, GuardStays DEF CountsStay, StepKeeps

\* One of them panics, Extra perhaps on the way up.
LEMMA PanicKeeps ==
  ASSUME ChainInv, NEW r \in Requests, NEW layer \in PanicOrigins,
         \/ way[r] = "down" /\ at[r] = 7 /\ layer = "auth"
         \/ way[r] = "down" /\ at[r] = 8 /\ layer = "validation"
         \/ way[r] \in {"down", "up"} /\ at[r] = 9 /\ layer = "extra"
         \/ way[r] = "down" /\ at[r] = 11 /\ layer = "handler",
         Throw(r, "panic", layer), CountsStay
  PROVE  StepKeeps(r)
  <1> USE DEF ChainInv
  <1>1. RequestInv(r)
    OBVIOUS
  <1>2. /\ StepOf(r) /\ way'[r] = "panic" /\ at'[r] = at[r] - 1
        /\ answer'[r] = answer[r]
        /\ answeredBy'[r] = answeredBy[r] /\ panickedIn'[r] = layer
        /\ measured'[r] = measured[r]
    BY ThrowGives DEF CountsStay
  <1>3. Fresh(answeredBy[r], answer[r]) \/ Given(answeredBy[r], answer[r])
    BY <1>1 DEF RequestInv, RequestOK, Coming
  <1>4. RequestInv(r)'
    BY <1>1, <1>2, <1>3 DEF RequestInv, RequestOK
  <1>5. CountStep(r)
    BY <1>1, <1>2, Members, CountersAre DEF CountsStay, CountStep, Bit
  <1>6. QED
    BY <1>2, <1>4, <1>5, GuardStays DEF CountsStay, StepKeeps

LEMMA PassDownKeeps ==
  ASSUME ChainInv, NEW r \in Requests, PassDown(r)
  PROVE  StepKeeps(r)
  <1>1. RequestInv(r) /\ way[r] = "down"
    BY DEF PassDown, ChainInv
  <1>2. at[r] \in 0 .. 11
    BY <1>1 DEF RequestInv, RequestOK
  <1>3. at[r] \in {1, 2, 3, 6, 10}
    BY <1>2, LayerNumbers DEF PassDown
  <1>4. QED
    BY <1>1, <1>3, DescendKeeps DEF PassDown, CountsStay

LEMMA PassUpKeeps ==
  ASSUME ChainInv, NEW r \in Requests, PassUp(r)
  PROVE  StepKeeps(r)
  <1> USE DEF ChainInv
  <1>1. RequestInv(r) /\ way[r] = "up"
    BY DEF PassUp
  <1>2. at[r] \in 0 .. 11
    BY <1>1 DEF RequestInv, RequestOK
  <1>3. at[r] \in {1, 2, 3, 6, 7, 8, 9, 10}
    BY <1>2, LayerNumbers DEF PassUp
  <1>4. /\ StepOf(r) /\ way'[r] = (IF at[r] = 1 THEN "over" ELSE "up")
        /\ at'[r] = at[r] - 1 /\ answer'[r] = answer[r]
        /\ answeredBy'[r] = answeredBy[r] /\ panickedIn'[r] = panickedIn[r] /\ measured'[r] = measured[r]
    BY ReturnGives DEF PassUp
  <1>5. RequestInv(r)'
    BY <1>1, <1>3, <1>4 DEF RequestInv, RequestOK, PanicOrigins
  <1>6. CountStep(r)
    BY <1>1, <1>3, <1>4, Members, CountersAre
       DEF PassUp, CountStep, Bit, RequestInv, RequestOK, Coming
  <1>7. QED
    BY <1>4, <1>5, <1>6, GuardStays DEF PassUp, StepKeeps

LEMMA AdmitKeeps ==
  ASSUME ChainInv, NEW r \in Requests, Admit(r)
  PROVE  StepKeeps(r)
  <1> USE DEF ChainInv
  <1>1. RequestInv(r) /\ way[r] = "down" /\ measured' = measured
    BY DEF Admit
  <1>2. at[r] \in 0 .. 11
    BY <1>1 DEF RequestInv, RequestOK
  <1>3. at[r] = 5
    BY <1>2, LayerNumbers DEF Admit
  <1>4. inFlight \in Nat /\ active \in Nat /\ inFlight' = inFlight + 1 /\ active' = active
    BY CountersAre DEF Admit
  <1>5. CASE inFlight' > MaxInFlight
    <2>1. /\ way' = [way EXCEPT ![r] = "rejected"]
          /\ UNCHANGED <<at, answer, answeredBy, panickedIn>>
      BY <1>5 DEF Admit
    <2>2. /\ StepOf(r) /\ way'[r] = "rejected" /\ at'[r] = at[r]
          /\ answer'[r] = answer[r]
        /\ answeredBy'[r] = answeredBy[r] /\ panickedIn'[r] = panickedIn[r]
          /\ measured'[r] = measured[r]
      BY <1>1, <2>1 DEF PerRequest, StepOf, Others
    <2>3. RequestInv(r)'
      BY <1>1, <1>3, <2>2 DEF RequestInv, RequestOK
    <2>4. CountStep(r)
      BY <1>1, <1>3, <1>4, <2>2, Members DEF CountStep, Bit
    <2>5. QED
      BY <2>2, <2>3, <2>4, GuardStays DEF Admit, StepKeeps
  <1>6. CASE ~(inFlight' > MaxInFlight)
    <2>1. Descend(r)
      BY <1>6 DEF Admit
    <2>2. /\ StepOf(r) /\ way'[r] = way[r] /\ at'[r] = at[r] + 1
          /\ answer'[r] = answer[r]
        /\ answeredBy'[r] = answeredBy[r] /\ panickedIn'[r] = panickedIn[r]
          /\ measured'[r] = measured[r]
      BY <1>1, <2>1, DescendGives
    <2>3. RequestInv(r)'
      BY <1>1, <1>3, <2>2 DEF RequestInv, RequestOK
    <2>4. CountStep(r)
      BY <1>1, <1>3, <1>4, <1>6, <2>2, Members, ChainAssumption DEF CountStep, Bit
    <2>5. QED
      BY <2>2, <2>3, <2>4, GuardStays DEF Admit, StepKeeps
  <1>7. QED
    BY <1>5, <1>6

LEMMA RollbackKeeps ==
  ASSUME ChainInv, NEW r \in Requests, Rollback(r)
  PROVE  StepKeeps(r)
  <1> USE DEF ChainInv
  <1>1. RequestInv(r) /\ way[r] = "rejected" /\ measured' = measured
    BY DEF Rollback
  <1>2. at[r] = 5
    BY <1>1 DEF RequestInv, RequestOK
  <1>3. /\ StepOf(r) /\ way'[r] = "up" /\ at'[r] = 4
        /\ answer'[r] = PeerError("resource_exhausted")
        /\ answeredBy'[r] = "shed"
        /\ panickedIn'[r] = panickedIn[r] /\ measured'[r] = measured[r]
    BY <1>1, <1>2, AnswerGives DEF Rollback
  <1>4. RequestInv(r)'
    BY <1>1, <1>3 DEF RequestInv, RequestOK, Coming, Given
  <1>5. CountStep(r)
    BY <1>1, <1>2, <1>3, Members, CountersAre
       DEF Rollback, RolledBack, CountStep, Bit
  <1>6. QED
    BY <1>3, <1>4, <1>5, GuardStays DEF Rollback, StepKeeps

LEMMA AuthenticateKeeps ==
  ASSUME ChainInv, NEW r \in Requests, Authenticate(r)
  PROVE  StepKeeps(r)
  <1>1. RequestInv(r) /\ way[r] = "down" /\ CountsStay
    BY DEF Authenticate, ChainInv, CountsStay
  <1>2. at[r] \in 0 .. 11
    BY <1>1 DEF RequestInv, RequestOK
  <1>3. at[r] = 7
    BY <1>2, LayerNumbers DEF Authenticate
  <1>4. \/ Descend(r)
        \/ \E error \in AuthAnswers : Answer(r, error, "auth")
        \/ Throw(r, "panic", "auth")
    BY DEF Authenticate, AuthAnswers
  <1>5. CASE Descend(r)
    BY <1>1, <1>3, <1>5, DescendKeeps
  <1>6. CASE \E error \in AuthAnswers : Answer(r, error, "auth")
    BY <1>1, <1>3, <1>6, AnswerKeeps DEF Given
  <1>7. CASE Throw(r, "panic", "auth")
    BY <1>1, <1>3, <1>7, PanicKeeps DEF PanicOrigins
  <1>8. QED
    BY <1>4, <1>5, <1>6, <1>7

LEMMA ValidateKeeps ==
  ASSUME ChainInv, NEW r \in Requests, Validate(r)
  PROVE  StepKeeps(r)
  <1>1. RequestInv(r) /\ way[r] = "down" /\ CountsStay
    BY DEF Validate, ChainInv, CountsStay
  <1>2. at[r] \in 0 .. 11
    BY <1>1 DEF RequestInv, RequestOK
  <1>3. at[r] = 8
    BY <1>2, LayerNumbers DEF Validate
  <1>4. CASE Descend(r)
    BY <1>1, <1>3, <1>4, DescendKeeps
  <1>5. CASE Answer(r, PeerError("invalid_argument"), "validation")
    BY <1>1, <1>3, <1>5, AnswerKeeps DEF Given
  <1>6. CASE Throw(r, "panic", "validation")
    BY <1>1, <1>3, <1>6, PanicKeeps DEF PanicOrigins
  <1>7. QED
    BY <1>4, <1>5, <1>6 DEF Validate

LEMMA ExtraKeeps ==
  ASSUME ChainInv, NEW r \in Requests, Extra(r)
  PROVE  StepKeeps(r)
  <1>1. RequestInv(r) /\ CountsStay
    BY DEF Extra, ChainInv, CountsStay
  <1>2. at[r] \in 0 .. 11
    BY <1>1 DEF RequestInv, RequestOK
  <1>3. at[r] = 9
    BY <1>2, LayerNumbers DEF Extra
  <1>4. CASE way[r] = "down" /\ Descend(r)
    BY <1>1, <1>3, <1>4, DescendKeeps
  <1>5. CASE way[r] \in {"down", "up"} /\ Throw(r, "panic", "extra")
    BY <1>1, <1>3, <1>5, PanicKeeps DEF PanicOrigins
  <1>6. CASE /\ way[r] \in {"down", "up"}
             /\ \E error \in UserErrors : Answer(r, error, "extra")
    BY <1>1, <1>3, <1>6, AnswerKeeps DEF Given
  <1>7. QED
    BY <1>4, <1>5, <1>6 DEF Extra

LEMMA HandleKeeps ==
  ASSUME ChainInv, NEW r \in Requests, Handle(r)
  PROVE  StepKeeps(r)
  <1>1. RequestInv(r) /\ way[r] = "down" /\ at[r] = 11 /\ CountsStay
    BY TenLayers DEF Handle, ChainInv, CountsStay
  <1>2. CASE \E error \in UserErrors : Answer(r, error, "handler")
    BY <1>1, <1>2, AnswerKeeps DEF Given
  <1>3. CASE Throw(r, "panic", "handler")
    BY <1>1, <1>3, PanicKeeps DEF PanicOrigins
  <1>4. CASE Throw(r, "abort", "abort")
    <2>1. /\ StepOf(r) /\ way'[r] = "abort" /\ at'[r] = 10
          /\ answer'[r] = answer[r]
        /\ answeredBy'[r] = answeredBy[r] /\ panickedIn'[r] = "abort"
          /\ measured'[r] = measured[r]
      BY <1>1, <1>4, ThrowGives DEF CountsStay, ChainInv
    <2>2. RequestInv(r)'
      BY <1>1, <2>1 DEF RequestInv, RequestOK
    <2>3. CountStep(r)
      BY <1>1, <2>1, Members, CountersAre DEF ChainInv, CountsStay, CountStep, Bit
    <2>4. QED
      BY <1>1, <2>1, <2>2, <2>3, GuardStays DEF ChainInv, CountsStay, StepKeeps
  <1>5. QED
    BY <1>2, <1>3, <1>4 DEF Handle

LEMMA MetricsDownKeeps ==
  ASSUME ChainInv, NEW r \in Requests, MetricsDown(r)
  PROVE  StepKeeps(r)
  <1> USE DEF ChainInv
  <1>1. RequestInv(r) /\ way[r] = "down" /\ measured' = measured
    BY DEF MetricsDown
  <1>2. at[r] \in 0 .. 11
    BY <1>1 DEF RequestInv, RequestOK
  <1>3. at[r] = 4
    BY <1>2, LayerNumbers DEF MetricsDown
  <1>4. /\ StepOf(r) /\ way'[r] = way[r] /\ at'[r] = at[r] + 1
        /\ answer'[r] = answer[r]
        /\ answeredBy'[r] = answeredBy[r] /\ panickedIn'[r] = panickedIn[r]
        /\ measured'[r] = measured[r]
    BY <1>1, DescendGives DEF MetricsDown
  <1>5. RequestInv(r)'
    BY <1>1, <1>3, <1>4 DEF RequestInv, RequestOK
  <1>6. CountStep(r)
    BY <1>1, <1>3, <1>4, Members, CountersAre DEF MetricsDown, CountStep, Bit
  <1>7. QED
    BY <1>4, <1>5, <1>6, GuardStays DEF MetricsDown, StepKeeps

\* Observing a series keeps what the guard knows about those it has seen.
LEMMA ObserveKeeps ==
  ASSUME GuardInv, NEW code \in AllCodes, Observe(code),
         seen' = seen \cup {code}
  PROVE  GuardInv'
  <1>1. IsFiniteSet(seen') /\ seen' \subseteq AllCodes
    BY FS_AddElement DEF GuardInv
  <1>2. /\ Cardinality(seen) \in Nat /\ Cardinality(seen') \in Nat
        /\ Cardinality(seen) <= Cardinality(seen')
    BY <1>1, FS_CardinalityType, FS_AddElement DEF GuardInv
  <1>3. CASE stopped
    <2>1. UNCHANGED <<series, reported, stopped, warnings>>
      BY <1>3 DEF Observe
    <2>2. Cardinality(seen) >= HardCap /\ series = {}
      BY <1>3 DEF GuardInv
    <2>3. Cardinality(seen') >= HardCap /\ Cardinality(seen') >= Threshold
          /\ Cardinality(seen) >= Threshold
      BY <1>2, <2>2, ChainAssumption
    <2>4. QED
      BY <1>1, <1>3, <2>1, <2>2, <2>3 DEF GuardInv
  <1>4. CASE ~stopped
    <2>1. series = seen /\ Cardinality(seen) < HardCap
      BY <1>4 DEF GuardInv
    <2>2. /\ reported' = (reported \/ Exceeds(seen'))
          /\ warnings' = warnings + IF Exceeds(seen') THEN 1 ELSE 0
          /\ stopped' = Full(seen')
          /\ series' = IF stopped' THEN {} ELSE seen'
      BY <1>4, <2>1 DEF Observe
    <2>3. {reported', stopped'} \subseteq BOOLEAN
      BY <2>2 DEF Full, Exceeds
    <2>4. IF stopped' THEN series' = {} /\ Cardinality(seen') >= HardCap
                      ELSE series' = seen' /\ Cardinality(seen') < HardCap
      <3>1. stopped' <=> Cardinality(seen') >= HardCap
        BY <2>2, Zenon DEF Full
      <3>2. CASE stopped'
        BY <2>2, <3>1, <3>2
      <3>3. CASE ~stopped'
        BY <1>2, <2>2, <3>1, <3>3, ChainAssumption
      <3>4. QED
        BY <3>2, <3>3
    <2>a. Exceeds(seen') <=> Cardinality(seen') >= Threshold /\ ~reported
      BY DEF Exceeds
    <2>b. reported' <=> reported \/ Exceeds(seen')
      BY <2>2, Zenon
    <2>c. reported => Cardinality(seen') >= Threshold
      BY <1>2, ChainAssumption DEF GuardInv
    <2>5. reported' <=> Cardinality(seen') >= Threshold
      BY <2>a, <2>b, <2>c, Zenon
    <2>6. warnings' = IF reported' THEN 1 ELSE 0
      <3>1. CASE reported
        <4>1. reported' /\ ~Exceeds(seen') /\ warnings = 1
          BY <2>a, <2>b, <3>1 DEF GuardInv
        <4>2. QED
          BY <2>2, <4>1
      <3>2. CASE ~reported /\ Exceeds(seen')
        <4>1. reported' /\ warnings = 0
          BY <2>b, <3>2 DEF GuardInv
        <4>2. QED
          BY <2>2, <3>2, <4>1
      <3>3. CASE ~reported /\ ~Exceeds(seen')
        <4>1. ~reported' /\ warnings = 0
          BY <2>b, <3>3 DEF GuardInv
        <4>2. QED
          BY <2>2, <3>3, <4>1
      <3>4. QED
        BY <3>1, <3>2, <3>3
    <2>7. QED
      BY <1>1, <2>3, <2>4, <2>5, <2>6 DEF GuardInv
  <1>5. QED
    BY <1>3, <1>4

LEMMA MetricsUpKeeps ==
  ASSUME ChainInv, NEW r \in Requests, MetricsUp(r)
  PROVE  StepKeeps(r)
  <1> USE DEF ChainInv
  <1>1. RequestInv(r) /\ way[r] = "up"
    BY DEF MetricsUp
  <1>2. at[r] \in 0 .. 11
    BY <1>1 DEF RequestInv, RequestOK
  <1>3. at[r] = 4
    BY <1>2, LayerNumbers DEF MetricsUp
  <1>4. CodeOf(answer[r]) \in AllCodes
    BY <1>1, AnswersAre DEF RequestInv, RequestOK, Coming
  <1>5. /\ StepOf(r) /\ way'[r] = "up" /\ at'[r] = 3
        /\ answer'[r] = answer[r]
        /\ answeredBy'[r] = answeredBy[r] /\ panickedIn'[r] = panickedIn[r]
        /\ measured'[r] = CodeOf(answer[r])
    <2>1. /\ at' = [at EXCEPT ![r] = @ - 1]
          /\ way' = [way EXCEPT ![r] = IF at[r] = 1 THEN "over" ELSE "up"]
          /\ answer' = [answer EXCEPT ![r] = answer[r]]
          /\ answeredBy' = [answeredBy EXCEPT ![r] = answeredBy[r]]
          /\ panickedIn' = panickedIn
          /\ measured' = [measured EXCEPT ![r] = CodeOf(answer[r])]
      BY DEF MetricsUp, Return, Answer
    <2>2. PerRequest
      OBVIOUS
    <2>3. PerRequest'
      BY <2>1, <2>2 DEF PerRequest
    <2>4. Others(r)
      BY <2>1, <2>2 DEF PerRequest, Others
    <2>5. at'[r] = 3 /\ way'[r] = "up"
      BY <1>3, <2>1, <2>2 DEF PerRequest
    <2>6. /\ answer'[r] = answer[r]
        /\ answeredBy'[r] = answeredBy[r] /\ panickedIn'[r] = panickedIn[r]
          /\ measured'[r] = CodeOf(answer[r])
      BY <2>1, <2>2 DEF PerRequest
    <2>7. QED
      BY <2>3, <2>4, <2>5, <2>6 DEF StepOf
  <1>6. RequestInv(r)'
    BY <1>1, <1>3, <1>4, <1>5 DEF RequestInv, RequestOK
  <1>7. CountStep(r)
    BY <1>1, <1>3, <1>5, Members, CountersAre DEF MetricsUp, CountStep, Bit
  <1>8. GuardInv'
    BY <1>4, ObserveKeeps DEF MetricsUp
  <1>9. QED
    BY <1>5, <1>6, <1>7, <1>8 DEF StepKeeps

LEMMA ReleaseUpKeeps ==
  ASSUME ChainInv, NEW r \in Requests, ReleaseUp(r)
  PROVE  StepKeeps(r)
  <1> USE DEF ChainInv
  <1>1. RequestInv(r) /\ way[r] = "up" /\ measured' = measured
    BY DEF ReleaseUp
  <1>2. at[r] \in 0 .. 11
    BY <1>1 DEF RequestInv, RequestOK
  <1>3. at[r] = 5
    BY <1>2, LayerNumbers DEF ReleaseUp
  <1>4. /\ StepOf(r) /\ way'[r] = "up" /\ at'[r] = 4
        /\ answer'[r] = answer[r]
        /\ answeredBy'[r] = answeredBy[r] /\ panickedIn'[r] = panickedIn[r]
        /\ measured'[r] = measured[r]
    BY <1>1, <1>3, ReturnGives DEF ReleaseUp
  <1>5. RequestInv(r)'
    BY <1>1, <1>3, <1>4 DEF RequestInv, RequestOK
  <1>6. CountStep(r)
    BY <1>1, <1>3, <1>4, Members, CountersAre DEF ReleaseUp, CountStep, Bit
  <1>7. QED
    BY <1>4, <1>5, <1>6, GuardStays DEF ReleaseUp, StepKeeps

\* Recovery, above the handler, and the guard, above everything.
LEMMA RecoverKeeps ==
  ASSUME ChainInv, NEW r \in Requests, Recovery(r) \/ PanicGuard(r)
  PROVE  StepKeeps(r)
  <1> USE DEF ChainInv
  <1>1. RequestInv(r) /\ way[r] = "panic" /\ CountsStay
    BY DEF Recovery, PanicGuard, Recover, Recovered, CountsStay
  <1>2. at[r] \in 0 .. 11
    BY <1>1 DEF RequestInv, RequestOK
  <1>3. at[r] = 10 \/ at[r] = 1
    BY <1>2, LayerNumbers DEF Recovery, PanicGuard, Recover
  <1>a. PICK layer \in {"recovery", "guard"} :
           /\ Answer(r, PeerError("internal"), layer)
           /\ layer = "guard" <=> at[r] = 1
    BY <1>2, LayerNumbers DEF Recovery, PanicGuard, Recover
  <1>4. /\ StepOf(r) /\ way'[r] = (IF at[r] = 1 THEN "over" ELSE "up")
        /\ at'[r] = at[r] - 1 /\ answer'[r] = PeerError("internal")
        /\ answeredBy'[r] = layer
        /\ panickedIn'[r] = panickedIn[r] /\ measured'[r] = measured[r]
    BY <1>1, <1>a, AnswerGives DEF CountsStay
  <1>5. /\ panickedIn[r] \in PanicOrigins
        /\ panickedIn[r] = "handler" <=> at[r] = 10
    BY <1>1 DEF RequestInv, RequestOK
  <1>6. RequestInv(r)'
    BY <1>1, <1>3, <1>a, <1>4, <1>5 DEF RequestInv, RequestOK, Coming, Given
  <1>7. CountStep(r)
    BY <1>1, <1>3, <1>4, <1>5, Members, CountersAre
       DEF CountsStay, CountStep, Bit, PanicOrigins
  <1>8. QED
    BY <1>1, <1>4, <1>6, <1>7, GuardStays DEF CountsStay, StepKeeps

LEMMA UnwindKeeps ==
  ASSUME ChainInv, NEW r \in Requests, Unwind(r)
  PROVE  StepKeeps(r)
  <1> USE DEF ChainInv
  <1>1. /\ RequestInv(r) /\ way[r] \in {"panic", "abort"}
        /\ UNCHANGED <<active, panickedIn, measured, guardVars>>
    BY DEF Unwind
  <1>2. at[r] \in 1 .. 10
    BY <1>1 DEF RequestInv, RequestOK
  <1>3. way[r] = "panic" => at[r] # 1 /\ at[r] # 10
    BY <1>2, LayerNumbers DEF Unwind, Recovered
  <1>4. /\ StepOf(r) /\ at'[r] = at[r] - 1
        /\ panickedIn'[r] = panickedIn[r] /\ measured'[r] = measured[r]
        /\ way'[r] = (IF at[r] = 1 THEN "cut" ELSE way[r])
        /\ answer'[r] = answer[r] /\ answeredBy'[r] = answeredBy[r]
    BY <1>1 DEF Unwind, PerRequest, StepOf, Others
  <1>5. RequestInv(r)'
    BY <1>1, <1>2, <1>3, <1>4 DEF RequestInv, RequestOK
  <1>6. inFlight' = IF at[r] = 5 THEN inFlight - 1 ELSE inFlight
    BY <1>2, LayerNumbers DEF Unwind, Released
  <1>7. panickedIn[r] = "abort" \/ way[r] = "panic"
    BY <1>1 DEF RequestInv, RequestOK
  <1>8. CountStep(r)
    BY <1>1, <1>2, <1>3, <1>4, <1>6, <1>7, Members, CountersAre DEF CountStep, Bit
  <1>9. QED
    BY <1>1, <1>4, <1>5, <1>8, GuardStays DEF StepKeeps

-------------------------------------------------------------------------------
(* The invariant is inductive. *)

LEMMA InitHolds == Init => ChainInv
  <1> SUFFICES ASSUME Init PROVE ChainInv
    OBVIOUS
  <1>1. PerRequest
    BY DEF Init, PerRequest
  <1>2. \A r \in Requests : RequestInv(r)
    BY DEF Init, RequestInv, RequestOK, Fresh
  <1>3. CountInv
    <2>1. Admitted = {} /\ Rejecting = {} /\ Gauged = {}
      BY DEF Init, Admitted, Rejecting, Gauged
    <2>2. QED
      BY <2>1, FS_EmptySet, ChainAssumption DEF Init, CountInv
  <1>4. GuardInv
    <2>1. /\ Cardinality({}) = 0 /\ IsFiniteSet({})
          /\ HardCap > 0 /\ Threshold > 0
      BY FS_EmptySet, ChainAssumption
    <2>2. /\ seen = {} /\ series = {} /\ reported = FALSE /\ stopped = FALSE
          /\ warnings = 0
      BY DEF Init
    <2>3. ~(Cardinality(seen) >= Threshold)
      BY <2>1, <2>2, ChainAssumption
    <2>4. QED
      BY <2>1, <2>2, <2>3 DEF GuardInv
  <1>5. QED
    BY <1>1, <1>2, <1>3, <1>4 DEF ChainInv

LEMMA StuttersKeep == ChainInv /\ UNCHANGED vars => ChainInv'
  <1> SUFFICES ASSUME ChainInv, UNCHANGED vars PROVE ChainInv'
    OBVIOUS
  <1> USE DEF vars, ChainInv
  <1>1. PerRequest' /\ \A r \in Requests : RequestInv(r)'
    BY DEF PerRequest, RequestInv
  <1>2. CountInv'
    BY DEF CountInv, Admitted, Rejecting, Gauged
  <1>3. GuardInv'
    BY DEF GuardInv
  <1>4. QED
    BY <1>1, <1>2, <1>3

LEMMA NextKeeps == ChainInv /\ [Next]_vars => ChainInv'
  <1> SUFFICES ASSUME ChainInv, Next PROVE ChainInv'
    BY StuttersKeep
  <1>1. CASE AllOver
    BY <1>1, StuttersKeep DEF AllOver
  <1>2. ASSUME NEW r \in Requests,
               \/ Arrive(r) \/ PassDown(r) \/ PassUp(r) \/ Admit(r)
               \/ Rollback(r) \/ Authenticate(r) \/ Validate(r) \/ Extra(r)
               \/ Handle(r) \/ MetricsDown(r) \/ MetricsUp(r) \/ ReleaseUp(r)
               \/ Recovery(r) \/ PanicGuard(r) \/ Unwind(r)
        PROVE  ChainInv'
    <2>1. StepKeeps(r)
      BY <1>2, ArriveKeeps, PassDownKeeps, PassUpKeeps, AdmitKeeps,
         RollbackKeeps, AuthenticateKeeps, ValidateKeeps, ExtraKeeps,
         HandleKeeps, MetricsDownKeeps, MetricsUpKeeps, ReleaseUpKeeps,
         RecoverKeeps, UnwindKeeps
    <2>2. QED
      BY <2>1, EnoughToShow
  <1>3. QED
    BY <1>1, <1>2 DEF Next

LEMMA Always == Spec => []ChainInv
  BY InitHolds, NextKeeps, PTL DEF Spec

-------------------------------------------------------------------------------
(* The theorems. *)

\* The stack of every request, the counters and the cardinality guard are well
\* typed; the gauge and the shedder count no more requests than there are.
THEOREM TypeCorrect == Spec => []TypeOK
  <1>1. ChainInv => TypeOK
    <2> SUFFICES ASSUME ChainInv PROVE TypeOK
      OBVIOUS
    <2> USE DEF ChainInv
    <2>1. way \in [Requests -> {"new", "down", "up", "rejected", "panic",
                                "abort", "over", "cut"}]
      BY DEF PerRequest, RequestInv, RequestOK
    <2>2. at \in [Requests -> 0 .. Handler]
      BY TenLayers DEF PerRequest, RequestInv, RequestOK
    <2>3. answer \in [Requests -> Errors]
      BY AnswersAre DEF PerRequest, RequestInv, RequestOK, Coming
    <2>a. answeredBy \in [Requests -> {"none", "handler"} \cup
                                      {Chain[i] : i \in DOMAIN Chain}]
      <3>1. {"auth", "validation", "extra", "shed", "recovery", "guard"}
              \subseteq {Chain[i] : i \in DOMAIN Chain}
        BY TenLayers
      <3>2. \A r \in Requests :
              answeredBy[r] \in {"none", "handler", "auth", "validation",
                                 "extra", "shed", "recovery", "guard"}
        BY DEF RequestInv, RequestOK, Coming, Given, Fresh
      <3>3. QED
        BY <3>1, <3>2 DEF PerRequest
    <2>4. measured \in [Requests -> AllCodes \cup {"none"}]
      BY DEF PerRequest, RequestInv, RequestOK
    <2>5. panickedIn \in [Requests -> {"none", "handler", "abort"} \cup
                                      {Chain[i] : i \in DOMAIN Chain}]
      <3>1. {"auth", "validation", "extra"} \subseteq
              {Chain[i] : i \in DOMAIN Chain}
        BY TenLayers
      <3>2. \A r \in Requests :
              panickedIn[r] \in {"none", "handler", "abort", "auth",
                                 "validation", "extra"}
        BY DEF RequestInv, RequestOK, PanicOrigins, Coming
      <3>3. QED
        BY <3>1, <3>2 DEF PerRequest
    <2>6. inFlight \in 0 .. Cardinality(Requests)
      <3>1. Admitted \cup Rejecting \subseteq Requests
        BY DEF Admitted, Rejecting
      <3>2. Cardinality(Admitted \cup Rejecting) <= Cardinality(Requests)
        BY <3>1, ChainAssumption, FS_Subset
      <3>3. QED
        BY <3>2, DisjointCounts, ChainAssumption, FS_CardinalityType, CountersAre
           DEF CountInv
    <2>7. active \in 0 .. Cardinality(Requests)
      BY ChainAssumption, FS_Subset, FS_CardinalityType, CountersAre
         DEF CountInv, Gauged
    <2>8. /\ series \subseteq AllCodes /\ Cardinality(series) < HardCap
          /\ {reported, stopped} \subseteq BOOLEAN
          /\ warnings \in Nat /\ seen \subseteq AllCodes
      BY FS_EmptySet, ChainAssumption DEF GuardInv
    <2>9. QED
      BY <2>1, <2>2, <2>3, <2>a, <2>4, <2>5, <2>6, <2>7, <2>8 DEF TypeOK
  <1>2. QED
    BY <1>1, Always, PTL

\* However the increments of the shedder interleave, no more than MaxInFlight
\* requests are authenticating, being validated or being handled
\* (chain.go:49-51, shed.go:69-73).
THEOREM FloodStops == Spec => []FloodStopsAtShed
  <1>1. ChainInv => FloodStopsAtShed
    <2> SUFFICES ASSUME ChainInv PROVE FloodStopsAtShed
      OBVIOUS
    <2> DEFINE Inside ==
                 {r \in Requests : way[r] = "down" /\ at[r] >= Position("auth")}
    <2>1. Inside \subseteq Admitted
      BY Positions DEF Admitted, ChainInv, RequestInv, RequestOK
    <2>2. IsFiniteSet(Admitted)
      BY ChainAssumption, FS_Subset DEF Admitted
    <2>3. /\ Cardinality(Inside) <= Cardinality(Admitted)
          /\ Cardinality(Inside) \in Nat /\ Cardinality(Admitted) \in Nat
      BY <2>1, <2>2, FS_Subset, FS_CardinalityType
    <2>4. QED
      BY <2>3, ChainAssumption DEF FloodStopsAtShed, ChainInv, CountInv
  <1>2. QED
    BY <1>1, Always, PTL

\* No panic, abort or rejection keeps a slot of the shedder
\* (loadshed.go:43, shed.go:73-84).
THEOREM SlotsAreReturned == Spec => []SlotsReturned
  <1>1. ChainInv => SlotsReturned
    BY DEF ChainInv, CountInv, SlotsReturned
  <1>2. QED
    BY <1>1, Always, PTL

\* An answer of the handler, of a user interceptor, of a rejecting layer, and
\* that to a panic of the handler, was measured under the code on the wire; a
\* bare context error, which only the service's own code returns, as "unknown"
\* (chain.go:43-61, metrics.go:70-73, 85-90).
THEOREM OutcomesAreMeasured == Spec => []OutcomesMeasured
  <1>1. ChainInv => OutcomesMeasured
    <2> SUFFICES ASSUME ChainInv, NEW r \in Requests, way[r] = "over",
                        panickedIn[r] \in {"none", "handler"}
                 PROVE  \/ measured[r] = OnWire(answer[r])
                        \/ /\ measured[r] = "unknown" /\ CallerGaveUp(answer[r])
                           /\ answeredBy[r] \in {"handler", "extra"}
      BY DEF OutcomesMeasured
    <2>1. /\ Coming(answeredBy[r], answer[r], panickedIn[r])
          /\ measured[r] = CodeOf(answer[r])
      BY DEF ChainInv, RequestInv, RequestOK, PanicOrigins
    <2>2. CASE ~CallerGaveUp(answer[r])
      BY <2>1, <2>2 DEF OnWire, CodeOf
    <2>3. CASE CallerGaveUp(answer[r])
      <3>1. answer[r].code = "unknown"
        BY <2>3 DEF CallerGaveUp
      <3>2. answeredBy[r] # "auth"
        BY <2>1, <3>1, AuthHasCode DEF Coming, Given
      <3>3. answeredBy[r] \in {"handler", "extra"}
        BY <2>1, <3>1, <3>2 DEF Coming, Given, PeerError
      <3>4. QED
        BY <2>1, <2>3, <3>1, <3>3 DEF CodeOf
    <2>4. QED
      BY <2>2, <2>3
  <1>2. QED
    BY <1>1, Always, PTL

\* A deliberate abort reaches net/http; every other panic is answered, wherever
\* in the chain it began (recovery.go:43-49, 94-104).
THEOREM PanicsAreAnswered == Spec => []OnlyAbortsEscape
  <1>1. ChainInv => OnlyAbortsEscape
    <2> SUFFICES ASSUME ChainInv, NEW r \in Requests
                 PROVE  /\ way[r] = "cut" => panickedIn[r] = "abort"
                        /\ way[r] = "over" => panickedIn[r] # "abort"
                        /\ way[r] = "over" /\ panickedIn[r] # "none" =>
                             \/ answer[r] = PeerError("internal")
                             \/ answeredBy[r] = "extra"
      BY DEF OnlyAbortsEscape
    <2>1. RequestInv(r)
      BY DEF ChainInv
    <2>2. QED
      BY <2>1 DEF RequestInv, RequestOK, PanicOrigins, Coming, Given
  <1>2. QED
    BY <1>1, Always, PTL

\* The breaker and the retrier of a caller that uses the same framework put
\* every answer of this server down to whom they should
\* (loadshed.go:20-25, auth.go:69-77, validate.go:38-40, classify.go:97-99).
THEOREM BlameGoesRight == Spec => []BlameIsRight
  <1>1. ASSUME NEW code, code # "unknown"
        PROVE  OnWire(PeerError(code)) = code
    BY <1>1 DEF OnWire, CallerGaveUp, PeerError
  <1>2. /\ CountsAsFailure(PeerError("resource_exhausted"))
        /\ IsRetryable(PeerError("resource_exhausted"))
        /\ CountsAsFailure(PeerError("internal"))
        /\ ~IsRetryable(PeerError("internal"))
    BY DEF CountsAsFailure, IsRetryable, PeerError, NoError, CallerGaveUp,
       ClientFaults, LocalDeadline
  <1>3. \A code \in {"unauthenticated", "invalid_argument"} :
          ~CountsAsFailure(PeerError(code)) /\ ~IsRetryable(PeerError(code))
    BY DEF CountsAsFailure, IsRetryable, PeerError, ClientFaults
  <1>4. ChainInv => BlameIsRight
    <2> SUFFICES ASSUME ChainInv, NEW r \in Requests, way[r] = "over"
                 PROVE  LET received == PeerError(OnWire(answer[r]))
                        IN  /\ answeredBy[r] = "shed" =>
                                 CountsAsFailure(received) /\ IsRetryable(received)
                            /\ answeredBy[r] \in {"recovery", "guard"} =>
                                 CountsAsFailure(received) /\ ~IsRetryable(received)
                            /\ answeredBy[r] = "validation" =>
                                 ~CountsAsFailure(received) /\ ~IsRetryable(received)
                            /\ answeredBy[r] = "auth"
                                 /\ (CountsAsFailure(received)
                                       \/ IsRetryable(received)) =>
                                 /\ answer[r] \in UserErrors
                                 /\ CodeOf(answer[r]) # "unknown"
      BY DEF BlameIsRight
    <2> DEFINE received == PeerError(OnWire(answer[r]))
    <2>1. Given(answeredBy[r], answer[r])
      BY DEF ChainInv, RequestInv, RequestOK, Coming
    <2>2. /\ answeredBy[r] = "shed" => received = PeerError("resource_exhausted")
          /\ answeredBy[r] \in {"recovery", "guard"} =>
               received = PeerError("internal")
          /\ answeredBy[r] = "validation" =>
               received = PeerError("invalid_argument")
      BY <1>1, <2>1 DEF Given
    <2>3. ASSUME answeredBy[r] = "auth",
                 CountsAsFailure(received) \/ IsRetryable(received)
          PROVE  answer[r] \in UserErrors /\ CodeOf(answer[r]) # "unknown"
      <3>1. answer[r] \in AuthAnswers /\ answer[r].code # "unknown"
        BY <2>1, <2>3, AuthHasCode DEF Given
      <3>2. received = PeerError(answer[r].code)
        BY <3>1 DEF OnWire, CallerGaveUp
      <3>3. answer[r].code # "unauthenticated"
        BY <1>3, <2>3, <3>2
      <3>4. answer[r] \in UserErrors
        BY <3>1, <3>3, AuthRecodes
      <3>5. QED
        BY <3>1, <3>4 DEF CodeOf
    <2>4. QED
      BY <1>2, <1>3, <2>2, <2>3
  <1>5. QED
    BY <1>4, Always, PTL

\* The guard warns at its Threshold-th series and never again, also when it
\* stops tracking in the same observation (cardinality.go:110-123).
THEOREM WarnedOnce == Spec => []WarnsOnce
  <1>1. ChainInv => WarnsOnce
    BY DEF ChainInv, GuardInv, WarnsOnce
  <1>2. QED
    BY <1>1, Always, PTL

\* Nobody is shed while there is room: MaxInFlight others are inside or about
\* to take a rejected increment back (shed.go:73).
THEOREM ShedAtCap == Spec => ShedOnlyAtCap
  <1>1. ASSUME ChainInv, Next, NEW r \in Requests,
               way[r] = "down", way'[r] = "rejected"
        PROVE  Admit(r) /\ inFlight' > MaxInFlight
    <2> USE DEF ChainInv
    <2>1. PICK s \in Requests :
            \/ Arrive(s) \/ PassDown(s) \/ PassUp(s) \/ Admit(s) \/ Rollback(s)
            \/ Authenticate(s) \/ Validate(s) \/ Extra(s) \/ Handle(s)
            \/ MetricsDown(s) \/ MetricsUp(s) \/ ReleaseUp(s)
            \/ Recovery(s) \/ PanicGuard(s) \/ Unwind(s)
      BY <1>1 DEF Next, AllOver, vars
    <2>2. StepKeeps(s)
      BY <1>1, <2>1, ArriveKeeps, PassDownKeeps, PassUpKeeps, AdmitKeeps,
         RollbackKeeps, AuthenticateKeeps, ValidateKeeps, ExtraKeeps,
         HandleKeeps, MetricsDownKeeps, MetricsUpKeeps, ReleaseUpKeeps,
         RecoverKeeps, UnwindKeeps
    <2>3. s = r
      BY <1>1, <2>2 DEF StepKeeps, StepOf, Others
    <2>4. way = [q \in Requests |-> way[q]]
      BY <1>1 DEF PerRequest
    <2>5. way[s] = "down" /\ way'[s] = "rejected"
      BY <1>1, <2>3
    <2>6. ~Arrive(s) /\ ~PassUp(s) /\ ~Rollback(s) /\ ~MetricsUp(s)
          /\ ~ReleaseUp(s) /\ ~Recovery(s) /\ ~PanicGuard(s) /\ ~Unwind(s)
      BY <2>5 DEF Arrive, PassUp, Rollback, MetricsUp, ReleaseUp, Recovery,
         PanicGuard, Recover, Recovered, Unwind
    <2>7. ~Descend(s) /\ (\A error, layer : ~Answer(s, error, layer))
          /\ (\A layer : ~Throw(s, "panic", layer) /\ ~Throw(s, "abort", layer))
      BY <2>4, <2>5 DEF Descend, Answer, Throw
    <2>8. Admit(s)
      BY <2>1, <2>6, <2>7 DEF PassDown, Authenticate, Validate, Extra, Handle,
         MetricsDown
    <2>9. QED
      BY <2>3, <2>7, <2>8 DEF Admit
  <1>2. ASSUME ChainInv, Next, NEW r \in Requests,
               way[r] = "down", way'[r] = "rejected"
        PROVE  Cardinality(Admitted \cup Rejecting) >= MaxInFlight
    <2>1. inFlight' = inFlight + 1 /\ inFlight' > MaxInFlight
      BY <1>1, <1>2 DEF Admit
    <2>2. inFlight = Cardinality(Admitted) + Cardinality(Rejecting)
      BY <1>2 DEF ChainInv, CountInv
    <2>3. QED
      BY <2>1, <2>2, DisjointCounts, ChainAssumption
  <1>3. ChainInv /\ [Next]_vars =>
          [\A r \in Requests :
             way[r] = "down" /\ way'[r] = "rejected"
               => Cardinality(Admitted \cup Rejecting) >= MaxInFlight]_vars
    BY <1>2
  <1>4. QED
    BY <1>3, Always, PTL DEF Spec, ShedOnlyAtCap
================================================================================
