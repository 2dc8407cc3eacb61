---------------------------- MODULE AssemblyProofs ----------------------------
(*****************************************************************************)
(* Proofs about Clients, for every set of callers, clients and procedures,   *)
(* whatever the descriptors say and however the calls interleave; and about  *)
(* Assembly: what holds of Clients holds of the clients of any service that  *)
(* comes up, no refusal is shown twice, and what starts is usable.           *)
(*****************************************************************************)
EXTENDS Assembly, SequenceTheorems, WellFoundedInduction, TLAPS

\* What a call under way knows: its client exists, its permission to retry is
\* the proto's, and its breaker is the one its group keeps for it.
CallOK(u) ==
  /\ call[u] # None =>
       /\ chain[call[u].client] # None
       /\ call[u].mayRetry \/ call[u].again => Allowed(call[u].proc)
  /\ pc[u] \in {"get", "miss", "wait"} => GroupOf(u) # None
  /\ pc[u] \in {"allow", "allowed", "report", "reported"} => judge[u] # None
  /\ judge[u] # None =>
       /\ pc[u] \in {"allow", "allowed", "send", "report", "reported"}
       /\ GroupOf(u) # None /\ judge[u] = breakers[KeyOf(u)]

\* What the caches hold: the right answers, and one breaker per key.
CachesOK ==
  /\ \A k \in ClientIds, p \in Procedures :
       policies[k][p] # None => policies[k][p] = Allowed(p)
  /\ \A x, y \in Keys :
       breakers[x] = breakers[y] /\ breakers[x] # None => x = y

\* The inductive invariant.
ClientsInv == ClientsTypeOK /\ CachesOK /\ \A u \in Callers : CallOK(u)

-------------------------------------------------------------------------------

LEMMA ClientsInitially == ClientsInit => ClientsInv
  <1> SUFFICES ASSUME ClientsInit PROVE ClientsInv
    OBVIOUS
  <1>1. ClientsTypeOK
    <2>1. /\ chain \in [ClientIds -> Chains \cup {None}]
          /\ call \in [Callers -> Outbound \cup {None}]
      BY DEF ClientsInit
    <2>4. policies \in [ClientIds -> [Procedures -> BOOLEAN \cup {None}]]
      BY DEF ClientsInit
    <2>5. /\ breakers \in [Keys -> 1 .. made \cup {None}]
          /\ judge \in [Callers -> 1 .. made \cup {None}]
      BY DEF ClientsInit
    <2>6. left \in [Scrapers -> (SUBSET (1 .. made)) \cup {None}]
      BY DEF ClientsInit
    <2>2. made \in 0 .. MaxBreakers
      BY ClientsAssumption DEF ClientsInit
    <2>3. /\ pc = [u \in Callers |-> "idle"]
          /\ \A u \in Callers : call[u] = None
      BY DEF ClientsInit
    <2> QED
      BY <2>1, <2>2, <2>3, <2>4, <2>5, <2>6 DEF ClientsTypeOK
  <1>2. CachesOK
    BY DEF ClientsInit, CachesOK
  <1>3. \A u \in Callers : CallOK(u)
    BY DEF ClientsInit, CallOK
  <1> QED
    BY <1>1, <1>2, <1>3 DEF ClientsInv

\* The key of a caller that has a group is a key.
LEMMA KeyType ==
  ASSUME ClientsTypeOK, NEW u \in Callers, call[u] # None,
         chain[call[u].client] # None, GroupOf(u) # None
  PROVE  KeyOf(u) \in Keys
  <1>1. call[u] \in Outbound
    BY DEF ClientsTypeOK
  <1>2. call[u].client \in ClientIds /\ call[u].proc \in Procedures
    BY <1>1 DEF Outbound
  <1>3. chain[call[u].client] \in Chains
    BY <1>2 DEF ClientsTypeOK
  <1>4. GroupOf(u) \in Groups
    BY <1>3 DEF GroupOf, Chains
  <1> QED
    BY <1>2, <1>4 DEF KeyOf, Keys

\* A step of one caller keeps the invariant if what that call knows is right
\* afterwards, and the caches still are.
LEMMA OneCaller ==
  ASSUME ClientsInv, NEW u \in Callers,
         UNCHANGED <<chain, breakers>>, CachesOK', ClientsTypeOK', CallOK(u)',
         \A v \in Callers \ {u} :
           pc'[v] = pc[v] /\ call'[v] = call[v] /\ judge'[v] = judge[v]
  PROVE  ClientsInv'
  <1>1. ASSUME NEW v \in Callers \ {u} PROVE CallOK(v)'
    BY <1>1 DEF ClientsInv, CallOK, GroupOf, KeyOf
  <1> QED
    BY <1>1 DEF ClientsInv

LEMMA SameCaches ==
  ASSUME CachesOK, UNCHANGED caches
  PROVE  CachesOK'
  BY DEF CachesOK, caches

\* The caller goes on to another label, with the same call and breaker.
LEMMA GotoKeepsInv ==
  ASSUME ClientsInv, NEW u \in Callers, UNCHANGED <<caches, call, judge, left>>,
         NEW label \in {"store", "miss", "wait", "allowed", "send",
                        "report", "reported"},
         Goto(u, label), pc[u] # "idle",
         label = "store" => pc[u] = "lookup",
         label \in {"miss", "wait"} => pc[u] \in {"get", "miss"},
         label \in {"allowed", "report", "reported"} => judge[u] # None,
         label = "send" => pc[u] \in {"allow", "allowed"}
  PROVE  ClientsInv'
  <1>1. pc' = [pc EXCEPT ![u] = label]
    BY DEF Goto
  <1>2. UNCHANGED <<chain, policies, breakers, made, call, judge, left>>
    BY DEF caches
  <1>3. ClientsTypeOK'
    <2>1. pc' \in [Callers -> {"idle", "lookup", "store", "get", "miss", "wait",
                              "allow", "allowed", "send", "report", "reported"}]
      BY <1>1 DEF ClientsInv, ClientsTypeOK
    <2>2. \A v \in Callers : pc'[v] = "idle" <=> call'[v] = None
      BY <1>1, <1>2 DEF ClientsInv, ClientsTypeOK
    <2> QED
      BY <1>2, <2>1, <2>2 DEF ClientsInv, ClientsTypeOK
  <1>4. pc'[u] = label /\ \A v \in Callers \ {u} : pc'[v] = pc[v]
    BY <1>1 DEF ClientsInv, ClientsTypeOK
  <1>5. CallOK(u)'
    BY <1>2, <1>4 DEF ClientsInv, CallOK, GroupOf, KeyOf
  <1> QED
    BY <1>2, <1>3, <1>4, <1>5, SameCaches, OneCaller DEF ClientsInv

\* The call is over.
LEMMA OverKeepsInv ==
  ASSUME ClientsInv, NEW u \in Callers, Over(u), CachesOK',
         UNCHANGED <<chain, breakers, made, left>>,
         policies' \in [ClientIds -> [Procedures -> BOOLEAN \cup {None}]]
  PROVE  ClientsInv'
  <1>1. /\ pc' = [pc EXCEPT ![u] = "idle"]
        /\ call' = [call EXCEPT ![u] = None]
        /\ judge' = [judge EXCEPT ![u] = None]
    BY DEF Over, Goto
  <1>2. /\ pc'[u] = "idle" /\ call'[u] = None /\ judge'[u] = None
        /\ \A v \in Callers \ {u} :
             pc'[v] = pc[v] /\ call'[v] = call[v] /\ judge'[v] = judge[v]
    BY <1>1 DEF ClientsInv, ClientsTypeOK
  <1>3. ClientsTypeOK'
    <2>1. /\ pc' \in [Callers -> {"idle", "lookup", "store", "get", "miss", "wait",
                              "allow", "allowed", "send", "report", "reported"}]
          /\ call' \in [Callers -> Outbound \cup {None}]
          /\ judge' \in [Callers -> 1 .. made \cup {None}]
      BY <1>1 DEF ClientsInv, ClientsTypeOK
    <2>2. \A v \in Callers : pc'[v] = "idle" <=> call'[v] = None
      BY <1>2 DEF ClientsInv, ClientsTypeOK
    <2> QED
      BY <2>1, <2>2 DEF ClientsInv, ClientsTypeOK
  <1>4. CallOK(u)'
    BY <1>2 DEF CallOK
  <1> QED
    BY <1>2, <1>3, <1>4, OneCaller

\* An attempt begins, with what the call now knows.
LEMMA OnwardKeepsInv ==
  ASSUME ClientsInv, NEW u \in Callers, NEW c \in Outbound,
         Onward(u, c.client), call' = [call EXCEPT ![u] = c],
         judge' = [judge EXCEPT ![u] = None],
         chain[c.client] # None, c.mayRetry \/ c.again => Allowed(c.proc),
         CachesOK', UNCHANGED <<chain, breakers, made, left>>,
         policies' \in [ClientIds -> [Procedures -> BOOLEAN \cup {None}]]
  PROVE  ClientsInv'
  <1> DEFINE label == IF chain[c.client].group = None THEN "send" ELSE "get"
  <1>1. pc' = [pc EXCEPT ![u] = label]
    BY DEF Onward, Goto
  <1>2. /\ pc'[u] = label /\ call'[u] = c /\ judge'[u] = None
        /\ \A v \in Callers \ {u} :
             pc'[v] = pc[v] /\ call'[v] = call[v] /\ judge'[v] = judge[v]
    BY <1>1 DEF ClientsInv, ClientsTypeOK
  <1>3. c # None
    BY ClientsAssumption
  <1>4. ClientsTypeOK'
    <2>1. /\ pc' \in [Callers -> {"idle", "lookup", "store", "get", "miss", "wait",
                              "allow", "allowed", "send", "report", "reported"}]
          /\ call' \in [Callers -> Outbound \cup {None}]
          /\ judge' \in [Callers -> 1 .. made \cup {None}]
      BY <1>1 DEF ClientsInv, ClientsTypeOK
    <2>2. \A v \in Callers : pc'[v] = "idle" <=> call'[v] = None
      BY <1>2, <1>3 DEF ClientsInv, ClientsTypeOK
    <2> QED
      BY <2>1, <2>2 DEF ClientsInv, ClientsTypeOK
  <1>5. CallOK(u)'
    BY <1>2 DEF CallOK, GroupOf
  <1> QED
    BY <1>2, <1>4, <1>5, OneCaller

-------------------------------------------------------------------------------
(* The actions. *)

LEMMA KeepsPolicies ==
  ASSUME ClientsInv, UNCHANGED caches
  PROVE  /\ CachesOK' /\ UNCHANGED <<chain, policies, breakers, made>>
         /\ policies' \in [ClientIds -> [Procedures -> BOOLEAN \cup {None}]]
  BY SameCaches DEF ClientsInv, ClientsTypeOK, caches

\* What a call under way is.
LEMMA CallUnderWay ==
  ASSUME ClientsInv, NEW u \in Callers, pc[u] # "idle"
  PROVE  /\ call[u] \in Outbound /\ call[u] # None
         /\ call[u].client \in ClientIds /\ call[u].proc \in Procedures
         /\ chain[call[u].client] \in Chains
  <1>1. call[u] # None /\ call[u] \in Outbound
    BY DEF ClientsInv, ClientsTypeOK
  <1>2. call[u].client \in ClientIds /\ call[u].proc \in Procedures
    BY <1>1 DEF Outbound
  <1>3. chain[call[u].client] # None
    BY <1>1 DEF ClientsInv, CallOK
  <1> QED
    BY <1>1, <1>2, <1>3 DEF ClientsInv, ClientsTypeOK

\* The first attempt, with the policy's answer.
LEMMA AttemptKeepsInv ==
  ASSUME ClientsInv, NEW u \in Callers, pc[u] \in {"lookup", "store"},
         NEW allowed \in BOOLEAN, allowed => Allowed(call[u].proc),
         Attempt(u, allowed),
         CachesOK', UNCHANGED <<chain, breakers, made, left>>,
         policies' \in [ClientIds -> [Procedures -> BOOLEAN \cup {None}]]
  PROVE  ClientsInv'
  <1>1. CASE Over(u)
    BY <1>1, OverKeepsInv
  <1>2. CASE /\ Onward(u, call[u].client)
             /\ call' = [call EXCEPT ![u].mayRetry = allowed]
             /\ UNCHANGED judge
    <2> DEFINE c == [call[u] EXCEPT !.mayRetry = allowed]
    <2>1. call[u] \in Outbound /\ chain[call[u].client] # None
      BY CallUnderWay DEF ClientsInv, CallOK
    <2>2. /\ c \in Outbound /\ c.client = call[u].client
          /\ c.proc = call[u].proc /\ c.mayRetry = allowed
          /\ c.again = call[u].again
      BY <2>1 DEF Outbound
    <2>3. c.again => Allowed(c.proc)
      BY <2>2, CallUnderWay DEF ClientsInv, CallOK
    <2>4. judge[u] = None /\ judge' = [judge EXCEPT ![u] = None]
      <3>1. judge[u] = None
        BY DEF ClientsInv, CallOK
      <3> QED
        BY <3>1, <1>2 DEF ClientsInv, ClientsTypeOK
    <2>5. call' = [call EXCEPT ![u] = c]
      BY <1>2
    <2> QED
      BY <1>2, <2>1, <2>2, <2>3, <2>4, <2>5, OnwardKeepsInv
  <1> QED
    BY <1>1, <1>2 DEF Attempt

\* The next attempt, if the policy allows it.
LEMMA AgainKeepsInv ==
  ASSUME ClientsInv, NEW u \in Callers, pc[u] # "idle", Again(u),
         UNCHANGED <<caches, left>>
  PROVE  ClientsInv'
  <1> DEFINE c == [call[u] EXCEPT !.again = TRUE]
  <1>1. call[u] \in Outbound /\ chain[call[u].client] # None
    BY CallUnderWay DEF ClientsInv, CallOK
  <1>2. /\ c \in Outbound /\ c.client = call[u].client /\ c.proc = call[u].proc
    BY <1>1 DEF Outbound
  <1>3. Allowed(c.proc)
    BY <1>2, CallUnderWay DEF Again, ClientsInv, CallOK
  <1>4. call' = [call EXCEPT ![u] = c] /\ judge' = [judge EXCEPT ![u] = None]
    BY DEF Again
  <1>5. Onward(u, c.client)
    BY <1>2 DEF Again
  <1>6. /\ CachesOK' /\ UNCHANGED <<chain, breakers, made, left>>
        /\ policies' \in [ClientIds -> [Procedures -> BOOLEAN \cup {None}]]
    BY KeepsPolicies
  <1> HIDE DEF c
  <1> QED
    BY <1>1, <1>2, <1>3, <1>4, <1>5, <1>6, OnwardKeepsInv

LEMMA ProceedKeepsInv ==
  ASSUME ClientsInv, NEW u \in Callers, Proceed(u),
         pc[u] \in {"allow", "allowed", "report", "reported"},
         UNCHANGED <<caches, left>>
  PROVE  ClientsInv'
  <1>1. CASE Over(u)
    BY <1>1, KeepsPolicies, OverKeepsInv
  <1>2. CASE /\ pc[u] \in {"allow", "allowed"}
             /\ Goto(u, "send") /\ UNCHANGED <<call, judge>>
    BY <1>2, GotoKeepsInv
  <1>3. CASE Again(u)
    BY <1>3, AgainKeepsInv
  <1> QED
    BY <1>1, <1>2, <1>3 DEF Proceed

LEMMA CallKeepsInv ==
  ASSUME ClientsInv, NEW u \in Callers, Call(u)
  PROVE  ClientsInv'
  <1>1. PICK k \in ClientIds, p \in Procedures :
          /\ chain[k] # None
          /\ call' = [call EXCEPT ![u] = [client |-> k, proc |-> p,
                                          mayRetry |-> FALSE, again |-> FALSE]]
          /\ IF chain[k].retrier THEN Goto(u, "lookup") ELSE Onward(u, k)
    BY DEF Call
  <1> DEFINE c == [client |-> k, proc |-> p, mayRetry |-> FALSE, again |-> FALSE]
  <1>2. /\ c \in Outbound /\ c.client = k /\ ~(c.mayRetry \/ c.again)
    BY DEF Outbound
  <1>3. pc[u] = "idle" /\ judge[u] = None /\ judge' = [judge EXCEPT ![u] = None]
        /\ UNCHANGED <<caches, left, judge>>
    BY DEF Call, ClientsInv, CallOK, ClientsTypeOK
  <1>4. CASE Onward(u, k)
    BY <1>1, <1>2, <1>3, <1>4, KeepsPolicies, OnwardKeepsInv
  <1>5. CASE Goto(u, "lookup")
    <2>1. pc' = [pc EXCEPT ![u] = "lookup"]
      BY <1>5 DEF Goto
    <2>2. /\ pc'[u] = "lookup" /\ call'[u] = c /\ judge'[u] = None
          /\ \A v \in Callers \ {u} :
               pc'[v] = pc[v] /\ call'[v] = call[v] /\ judge'[v] = judge[v]
      BY <2>1, <1>1, <1>3 DEF ClientsInv, ClientsTypeOK
    <2>3. ClientsTypeOK'
      <3>1. /\ pc' \in [Callers -> {"idle", "lookup", "store", "get", "miss", "wait",
                                "allow", "allowed", "send", "report", "reported"}]
            /\ call' \in [Callers -> Outbound \cup {None}]
        BY <2>1, <1>1, <1>2 DEF ClientsInv, ClientsTypeOK
      <3>2. c # None
        BY <1>2, ClientsAssumption
      <3>3. \A v \in Callers : pc'[v] = "idle" <=> call'[v] = None
        BY <2>2, <3>2 DEF ClientsInv, ClientsTypeOK
      <3> QED
        BY <3>1, <3>3, <1>3 DEF ClientsInv, ClientsTypeOK, caches
    <2>4. CallOK(u)'
      BY <2>2, <1>1, <1>2, <1>3, KeepsPolicies DEF CallOK
    <2> QED
      BY <2>2, <2>3, <2>4, <1>3, KeepsPolicies, OneCaller
  <1> QED
    BY <1>1, <1>4, <1>5

LEMMA StoreKeepsInv ==
  ASSUME ClientsInv, NEW u \in Callers, Store(u)
  PROVE  ClientsInv'
  <1> DEFINE k == call[u].client
             p == call[u].proc
  <1>1. pc[u] = "store" /\ k \in ClientIds /\ p \in Procedures
    BY CallUnderWay DEF Store
  <1>2. /\ policies' = [policies EXCEPT ![k][p] = Allowed(p)]
        /\ Attempt(u, Allowed(p)) /\ UNCHANGED <<chain, breakers, made, left>>
    BY DEF Store
  <1>3. Allowed(p) \in BOOLEAN
    BY DEF Allowed
  <1>4. policies' \in [ClientIds -> [Procedures -> BOOLEAN \cup {None}]]
    BY <1>1, <1>2, <1>3 DEF ClientsInv, ClientsTypeOK
  <1>5. CachesOK'
    <2>1. ASSUME NEW l \in ClientIds, NEW q \in Procedures, policies'[l][q] # None
          PROVE  policies'[l][q] = Allowed(q)
      <3>1. CASE l = k /\ q = p
        BY <3>1, <1>1, <1>2 DEF ClientsInv, ClientsTypeOK
      <3>2. CASE ~(l = k /\ q = p)
        BY <3>2, <2>1, <1>1, <1>2 DEF ClientsInv, ClientsTypeOK, CachesOK
      <3> QED
        BY <3>1, <3>2
    <2> QED
      BY <2>1, <1>2 DEF ClientsInv, CachesOK, Allowed
  <1> HIDE DEF p
  <1> QED
    BY <1>1, <1>2, <1>3, <1>4, <1>5, AttemptKeepsInv DEF p

\* The group's answer, old or new, and nobody else's breaker changes.
LEMMA LookupKeepsInv ==
  ASSUME ClientsInv, NEW u \in Callers, pc[u] \in {"get", "miss", "wait"},
         NEW b \in 1 .. made',
         UNCHANGED <<chain, policies, call, left>>, Goto(u, "allow"),
         judge' = [judge EXCEPT ![u] = b],
         breakers' = [breakers EXCEPT ![KeyOf(u)] = b],
         \/ made' = made /\ breakers[KeyOf(u)] = b
         \/ made' = made + 1 /\ made' <= MaxBreakers /\ b = made'
              /\ breakers[KeyOf(u)] = None
  PROVE  ClientsInv'
  <1> DEFINE key == KeyOf(u)
  <1>1. /\ call[u] # None /\ GroupOf(u) # None /\ judge[u] = None
        /\ chain[call[u].client] # None
    BY CallUnderWay DEF ClientsInv, CallOK
  <1>2. key \in Keys
    BY <1>1, KeyType DEF ClientsInv
  <1>3. /\ made \in Nat /\ made' \in 0 .. MaxBreakers /\ made <= made'
        /\ MaxBreakers \in Nat /\ b # None /\ b \in Nat
    BY ClientsAssumption DEF ClientsInv, ClientsTypeOK
  <1>4. /\ \A x \in Keys : breakers'[x] = IF x = key THEN b ELSE breakers[x]
        /\ \A x \in Keys : breakers[x] # None => breakers[x] \in 1 .. made
        /\ breakers \in [Keys -> 1 .. made \cup {None}]
    BY <1>2 DEF ClientsInv, ClientsTypeOK
  <1>5. /\ pc'[u] = "allow" /\ judge'[u] = b
        /\ \A v \in Callers \ {u} : pc'[v] = pc[v] /\ judge'[v] = judge[v]
        /\ pc' = [pc EXCEPT ![u] = "allow"]
    BY DEF Goto, ClientsInv, ClientsTypeOK
  <1>6. ClientsTypeOK'
    <2>1. \A i : i \in 1 .. made => i \in 1 .. made'
      BY <1>3
    <2>2. breakers' \in [Keys -> 1 .. made' \cup {None}]
      BY <1>2, <1>4, <2>1
    <2>3. judge' \in [Callers -> 1 .. made' \cup {None}]
      BY <2>1 DEF ClientsInv, ClientsTypeOK
    <2>4. left' \in [Scrapers -> (SUBSET (1 .. made')) \cup {None}]
      BY <2>1 DEF ClientsInv, ClientsTypeOK
    <2>5. /\ pc' \in [Callers -> {"idle", "lookup", "store", "get", "miss", "wait",
                              "allow", "allowed", "send", "report", "reported"}]
          /\ \A v \in Callers : pc'[v] = "idle" <=> call'[v] = None
      BY <1>1, <1>5 DEF ClientsInv, ClientsTypeOK
    <2> QED
      BY <1>3, <2>2, <2>3, <2>4, <2>5 DEF ClientsInv, ClientsTypeOK
  <1>7. CachesOK'
    <2>1. ASSUME NEW x \in Keys, breakers[x] = b
          PROVE  x = key
      <3>1. CASE breakers[key] = b
        BY <3>1, <2>1, <1>2, <1>3 DEF ClientsInv, CachesOK
      <3>2. CASE b = made + 1
        BY <3>2, <2>1, <1>3, <1>4
      <3> QED
        BY <3>1, <3>2
    <2>2. ASSUME NEW x \in Keys, NEW y \in Keys,
                 breakers'[x] = breakers'[y], breakers'[x] # None
          PROVE  x = y
      BY <2>1, <2>2, <1>4 DEF ClientsInv, CachesOK
    <2>3. \A k \in ClientIds, p \in Procedures :
            policies'[k][p] # None => policies'[k][p] = Allowed(p)
      BY DEF ClientsInv, CachesOK
    <2> QED
      BY <2>2, <2>3 DEF CachesOK, Allowed
  <1>8. ASSUME NEW v \in Callers PROVE CallOK(v)'
    <2>1. KeyOf(v)' = KeyOf(v) /\ GroupOf(v)' = GroupOf(v)
      BY DEF KeyOf, GroupOf
    <2>2. CASE v = u
      <3>1. GroupOf(u)' # None /\ judge'[u] = breakers'[KeyOf(u)'] /\ judge'[u] # None
        <4>1. KeyOf(u)' = key /\ GroupOf(u)' # None
          BY <1>1 DEF KeyOf, GroupOf
        <4>2. breakers'[key] = b
          BY <1>2, <1>4
        <4> HIDE DEF key
        <4> QED
          BY <4>1, <4>2, <1>3, <1>5
      <3>2. /\ chain'[call'[u].client] # None
            /\ call'[u].mayRetry \/ call'[u].again => Allowed(call'[u].proc)
        BY <1>1 DEF ClientsInv, CallOK
      <3> QED
        BY <2>2, <3>1, <3>2, <1>5 DEF CallOK, Allowed
    <2>3. CASE v # u
      <3>1. judge[v] # None => KeyOf(v) \in Keys /\ breakers'[KeyOf(v)] = judge[v]
        <4> HAVE judge[v] # None
        <4>1. /\ pc[v] # "idle" /\ GroupOf(v) # None
              /\ judge[v] = breakers[KeyOf(v)]
          BY DEF ClientsInv, CallOK
        <4>2. KeyOf(v) \in Keys
          BY <4>1, CallUnderWay, KeyType DEF ClientsInv, CallOK
        <4>3. KeyOf(v) = key => judge[v] = b
          BY <4>1
        <4> QED
          BY <4>1, <4>2, <4>3, <1>4
      <3> QED
        BY <2>1, <2>3, <3>1, <1>5 DEF CallOK, ClientsInv, Allowed
    <2> QED
      BY <2>2, <2>3
  <1> QED
    BY <1>6, <1>7, <1>8 DEF ClientsInv

LEMMA FoundKeepsInv ==
  ASSUME ClientsInv, NEW u \in Callers, Found(u)
  PROVE  ClientsInv'
  <1> DEFINE key == KeyOf(u)
  <1>1. /\ pc[u] = "get" /\ breakers[key] # None
        /\ judge' = [judge EXCEPT ![u] = breakers[key]]
        /\ Goto(u, "allow")
        /\ UNCHANGED <<chain, policies, breakers, made, call, left>>
    BY DEF Found, caches
  <1>2. key \in Keys
    BY <1>1, CallUnderWay, KeyType DEF ClientsInv, CallOK
  <1>3. breakers[key] \in 1 .. made
    BY <1>1, <1>2 DEF ClientsInv, ClientsTypeOK
  <1>4. breakers' = [breakers EXCEPT ![key] = breakers[key]]
    BY <1>1, <1>2 DEF ClientsInv, ClientsTypeOK
  <1> QED
    BY <1>1, <1>3, <1>4, LookupKeepsInv

LEMMA CreateKeepsInv ==
  ASSUME ClientsInv, NEW u \in Callers, Create(u)
  PROVE  ClientsInv'
  <1> DEFINE key == KeyOf(u)
  <1>1. /\ pc[u] \in {"miss", "wait"} /\ Goto(u, "allow")
        /\ UNCHANGED <<chain, policies, call, left>>
    BY DEF Create
  <1>2. key \in Keys
    BY <1>1, CallUnderWay, KeyType DEF ClientsInv, CallOK
  <1>3. /\ made \in Nat /\ made + 1 \in 1 .. (made + 1)
        /\ breakers \in [Keys -> 1 .. made \cup {None}]
    BY DEF ClientsInv, ClientsTypeOK
  <1>4. CASE breakers[key] = None
    <2>1. /\ made < MaxBreakers /\ made' = made + 1
          /\ breakers' = [breakers EXCEPT ![key] = made + 1]
          /\ judge' = [judge EXCEPT ![u] = made + 1]
      BY <1>4 DEF Create, StillMissing
    <2>2. made' <= MaxBreakers
      BY <2>1, <1>3, ClientsAssumption
    <2> QED
      BY <1>1, <1>3, <1>4, <2>1, <2>2, LookupKeepsInv
  <1>5. CASE breakers[key] # None
    <2>1. /\ judge' = [judge EXCEPT ![u] = breakers[key]]
          /\ UNCHANGED <<breakers, made>>
      BY <1>5 DEF Create, StillMissing
    <2>2. breakers[key] \in 1 .. made
      BY <1>2, <1>3, <1>5
    <2>3. breakers' = [breakers EXCEPT ![key] = breakers[key]]
      BY <2>1, <1>2, <1>3
    <2> QED
      BY <1>1, <2>1, <2>2, <2>3, LookupKeepsInv
  <1> QED
    BY <1>4, <1>5

\* A snapshot touches nothing that a call knows.
LEMMA SnapshotKeepsInv ==
  ASSUME ClientsInv, NEW s \in Scrapers,
         BeginSnapshot(s) \/ ReadState(s) \/ EndSnapshot(s)
  PROVE  ClientsInv'
  <1>1. UNCHANGED <<chain, policies, breakers, made, pc, call, judge>>
    BY DEF BeginSnapshot, ReadState, EndSnapshot, caches
  <1>2. left' \in [Scrapers -> (SUBSET (1 .. made)) \cup {None}]
    <2>1. CASE BeginSnapshot(s)
      <3>1. InGroup(Service) \in SUBSET (1 .. made)
        BY DEF InGroup, ClientsInv, ClientsTypeOK
      <3> QED
        BY <2>1, <3>1 DEF BeginSnapshot, ClientsInv, ClientsTypeOK
    <2>2. CASE ReadState(s)
      BY <2>2 DEF ReadState, ClientsInv, ClientsTypeOK
    <2>3. CASE EndSnapshot(s)
      BY <2>3 DEF EndSnapshot, ClientsInv, ClientsTypeOK
    <2> QED
      BY <2>1, <2>2, <2>3
  <1>3. ClientsTypeOK'
    BY <1>1, <1>2 DEF ClientsInv, ClientsTypeOK
  <1>4. CachesOK'
    BY <1>1, SameCaches DEF ClientsInv, caches
  <1>5. \A u \in Callers : CallOK(u)'
    BY <1>1 DEF ClientsInv, CallOK, KeyOf, GroupOf
  <1> QED
    BY <1>3, <1>4, <1>5 DEF ClientsInv

\* A client that is assembled has no call yet.
LEMMA BuildKeepsInv ==
  ASSUME ClientsInv, NEW k \in ClientIds, NEW r \in BOOLEAN,
         NEW g \in {k, Service, None}, Build(k, r, g)
  PROVE  ClientsInv'
  <1>1. /\ chain[k] = None
        /\ chain' = [chain EXCEPT ![k] = [retrier |-> r, group |-> g]]
        /\ UNCHANGED <<policies, breakers, made, pc, call, judge, left>>
    BY DEF Build
  <1>2. g \in Groups \cup {None}
    BY DEF Groups
  <1>3. [retrier |-> r, group |-> g] \in Chains
    BY <1>2 DEF Chains
  <1>4. ClientsTypeOK'
    BY <1>1, <1>3 DEF ClientsInv, ClientsTypeOK
  <1>5. CachesOK'
    BY <1>1 DEF ClientsInv, CachesOK, Allowed
  <1>6. ASSUME NEW u \in Callers PROVE CallOK(u)'
    <2>1. call[u] # None =>
            call[u].client # k /\ call[u].client \in ClientIds
      BY <1>1, CallUnderWay DEF ClientsInv, CallOK, ClientsTypeOK
    <2>2. call[u] # None => chain'[call[u].client] = chain[call[u].client]
      BY <2>1, <1>1 DEF ClientsInv, ClientsTypeOK
    <2>3. call[u] # None => GroupOf(u)' = GroupOf(u) /\ KeyOf(u)' = KeyOf(u)
      BY <2>2, <1>1 DEF GroupOf, KeyOf
    <2>4. call[u] = None => pc[u] = "idle" /\ judge[u] = None
      BY DEF ClientsInv, CallOK, ClientsTypeOK
    <2>5. CASE call[u] = None
      BY <2>4, <2>5, <1>1 DEF CallOK
    <2>6. CASE call[u] # None
      BY <2>2, <2>3, <2>6, <1>1 DEF ClientsInv, CallOK, Allowed
    <2> QED
      BY <2>5, <2>6
  <1> QED
    BY <1>4, <1>5, <1>6 DEF ClientsInv

-------------------------------------------------------------------------------

LEMMA ClientsInductive == ClientsInv /\ [ClientsNext]_clientsVars => ClientsInv'
  <1> SUFFICES ASSUME ClientsInv, [ClientsNext]_clientsVars
               PROVE  ClientsInv'
    OBVIOUS
  <1>1. ASSUME NEW u \in Callers, Call(u) \/ CallerStep(u) \/ Answered(u)
        PROVE  ClientsInv'
    <2>1. CASE Call(u)
      BY <2>1, CallKeepsInv
    <2>2. CASE Cached(u)
      <3>1. /\ pc[u] = "lookup" /\ call[u].client \in ClientIds
            /\ call[u].proc \in Procedures
            /\ policies[call[u].client][call[u].proc] # None
        BY <2>2, CallUnderWay DEF Cached, Cache
      <3>2. policies[call[u].client][call[u].proc] = Allowed(call[u].proc)
        BY <3>1 DEF ClientsInv, CachesOK
      <3>3. /\ Attempt(u, policies[call[u].client][call[u].proc])
            /\ UNCHANGED <<caches, left>>
        BY <2>2 DEF Cached, Cache
      <3>4. policies[call[u].client][call[u].proc] \in BOOLEAN
        BY <3>1 DEF ClientsInv, ClientsTypeOK
      <3> QED
        BY <3>1, <3>2, <3>3, <3>4, KeepsPolicies, AttemptKeepsInv
    <2>3. CASE Resolve(u)
      BY <2>3, GotoKeepsInv DEF Resolve
    <2>4. CASE Store(u)
      BY <2>4, StoreKeepsInv
    <2>5. CASE Found(u)
      BY <2>5, FoundKeepsInv
    <2>6. CASE Missing(u)
      BY <2>6, GotoKeepsInv DEF Missing
    <2>7. CASE WaitForReaders(u)
      BY <2>7, GotoKeepsInv DEF WaitForReaders
    <2>8. CASE Create(u)
      BY <2>8, CreateKeepsInv
    <2>9. CASE Quiet(u)
      BY <2>9, ProceedKeepsInv DEF Quiet
    <2>10. CASE Notify(u)
      <3>1. judge[u] # None
        BY <2>10 DEF Notify, ClientsInv, CallOK
      <3> QED
        BY <2>10, <3>1, GotoKeepsInv DEF Notify
    <2>11. CASE Notified(u)
      BY <2>11, ProceedKeepsInv DEF Notified
    <2>12. CASE Answered(u)
      <3>1. pc[u] = "send" /\ UNCHANGED <<caches, left>>
        BY <2>12 DEF Answered
      <3>2. CASE Over(u)
        BY <3>1, <3>2, KeepsPolicies, OverKeepsInv
      <3>3. CASE judge[u] # None /\ Goto(u, "report") /\ UNCHANGED <<call, judge>>
        BY <3>1, <3>3, GotoKeepsInv
      <3>4. CASE Again(u)
        BY <3>1, <3>4, AgainKeepsInv
      <3> QED
        BY <2>12, <3>2, <3>3, <3>4 DEF Answered
    <2> QED
      BY <1>1, <2>1, <2>2, <2>3, <2>4, <2>5, <2>6, <2>7, <2>8, <2>9, <2>10,
         <2>11, <2>12 DEF CallerStep
  <1>2. ASSUME NEW s \in Scrapers, BeginSnapshot(s) \/ ScraperStep(s)
        PROVE  ClientsInv'
    BY <1>2, SnapshotKeepsInv DEF ScraperStep
  <1>3. ASSUME NEW k \in ClientIds, NEW r \in BOOLEAN,
               NEW g \in {k, Service, None}, Build(k, r, g)
        PROVE  ClientsInv'
    BY <1>3, BuildKeepsInv
  <1>4. CASE UNCHANGED clientsVars
    BY <1>4 DEF clientsVars, ClientsInv, ClientsTypeOK, CachesOK, CallOK,
                GroupOf, KeyOf, Allowed
  <1> QED
    BY <1>1, <1>2, <1>3, <1>4 DEF ClientsNext, CallsNext

LEMMA ClientsInvHolds == ClientsSpec => []ClientsInv
  BY ClientsInitially, ClientsInductive, PTL DEF ClientsSpec

\* The types of the shared caches and of the calls.
THEOREM ClientsTypeCorrect == ClientsSpec => []ClientsTypeOK
  <1>1. ClientsInv => ClientsTypeOK
    BY DEF ClientsInv
  <1> QED
    BY <1>1, ClientsInvHolds, PTL

\* However many callers race through Group.Get, two calls are judged by one
\* breaker exactly if their groups, peers and procedures are the same.
THEOREM BreakersAreShared == ClientsSpec => []OneBreakerEach
  <1>1. ClientsInv => OneBreakerEach
    <2> SUFFICES ASSUME ClientsInv, NEW u \in Callers, NEW v \in Callers,
                        judge[u] # None, judge[v] # None
                 PROVE  judge[u] = judge[v] <=> KeyOf(u) = KeyOf(v)
      BY DEF OneBreakerEach
    <2>1. ASSUME NEW w \in Callers, judge[w] # None
          PROVE  judge[w] = breakers[KeyOf(w)] /\ KeyOf(w) \in Keys
      <3>1. /\ pc[w] # "idle" /\ GroupOf(w) # None
            /\ judge[w] = breakers[KeyOf(w)]
        BY <2>1 DEF ClientsInv, CallOK
      <3> QED
        BY <3>1, CallUnderWay, KeyType DEF ClientsInv, CallOK
    <2> QED
      BY <2>1 DEF ClientsInv, CachesOK
  <1> QED
    BY <1>1, ClientsInvHolds, PTL

\* No call is sent again unless its descriptor, found, declares it safe.
THEOREM RetriesFailClosed == ClientsSpec => []FailsClosed
  <1>1. ClientsInv => FailsClosed
    BY DEF ClientsInv, CallOK, FailsClosed, Allowed
  <1> QED
    BY <1>1, ClientsInvHolds, PTL

-------------------------------------------------------------------------------
(* The group implements Memo. *)

Waits(u) == pc[u] \in {"get", "miss", "wait"}

LEMMA WaitsForKey ==
  ClientsInv => \A u \in Callers : Waits(u) => KeyOf(u) \in Keys /\ judge[u] = None
  <1> SUFFICES ASSUME ClientsInv, NEW u \in Callers, Waits(u)
               PROVE  KeyOf(u) \in Keys /\ judge[u] = None
    OBVIOUS
  <1>1. pc[u] # "idle" /\ GroupOf(u) # None /\ judge[u] = None
    BY DEF Waits, ClientsInv, CallOK
  <1> QED
    BY <1>1, CallUnderWay, KeyType DEF ClientsInv, CallOK

LEMMA WillWaitForKey ==
  ClientsInv' =>
    (\A u \in Callers : Waits(u) => KeyOf(u) \in Keys /\ judge[u] = None)'
  BY WaitsForKey, PTL

\* A step of one caller that leaves the group alone.
Moves(u) ==
  /\ \E label : pc' = [pc EXCEPT ![u] = label]
  /\ call' = call \/ \E c : call' = [call EXCEPT ![u] = c]
  /\ judge' = judge \/ judge' = [judge EXCEPT ![u] = None]
  /\ UNCHANGED <<chain, breakers>>

LEMMA MoveRefines ==
  ASSUME ClientsInv, ClientsInv', NEW u \in Callers, Moves(u),
         Waits(u) => Waits(u)' /\ call' = call
  PROVE  [Group!Next]_(Group!vars)
  <1> DEFINE wants == [v \in Callers |-> IF Waits(v) THEN KeyOf(v) ELSE None]
  <1>1. ASSUME NEW v \in Callers \ {u}
        PROVE  wants'[v] = wants[v] /\ judge'[v] = judge[v]
    <2>1. pc'[v] = pc[v] /\ call'[v] = call[v] /\ judge'[v] = judge[v]
      BY DEF Moves, ClientsInv, ClientsTypeOK
    <2> QED
      BY <2>1 DEF Moves, Waits, KeyOf, GroupOf
  <1>2. CASE Waits(u)
    <2>1. wants'[u] = wants[u]
      BY <1>2 DEF Moves, KeyOf, GroupOf
    <2>2. judge' = judge
      <3>1. judge[u] = None
        BY <1>2, WaitsForKey
      <3> QED
        BY <3>1 DEF Moves, ClientsInv, ClientsTypeOK
    <2>3. wants' = wants
      BY <1>1, <2>1
    <2> QED
      BY <2>2, <2>3 DEF Group!vars, Moves, Waits
  <1>3. CASE ~Waits(u) /\ ~Waits(u)'
    <2>1. wants' = wants
      BY <1>1, <1>3
    <2>2. CASE judge' = judge
      BY <2>1, <2>2 DEF Group!vars, Moves, Waits
    <2>3. CASE judge' = [judge EXCEPT ![u] = None]
      <3>1. Group!LetGo(u)
        BY <2>1, <2>3 DEF Group!LetGo, Moves, Waits
      <3> QED
        BY <3>1 DEF Group!Next
    <2> QED
      BY <2>2, <2>3 DEF Moves
  <1>4. CASE ~Waits(u) /\ Waits(u)'
    <2>1. KeyOf(u)' \in Keys /\ judge'[u] = None
      BY <1>4, WillWaitForKey
    <2>2. wants[u] = None /\ wants' = [wants EXCEPT ![u] = KeyOf(u)']
      BY <1>1, <1>4
    <2>3. judge' = [judge EXCEPT ![u] = None]
      BY <2>1 DEF Moves, ClientsInv, ClientsTypeOK
    <2>4. Group!Ask(u)
      BY <2>1, <2>2, <2>3 DEF Group!Ask, Moves, Waits
    <2> QED
      BY <2>4 DEF Group!Next
  <1> QED
    BY <1>2, <1>3, <1>4

LEMMA LookupRefines ==
  ASSUME ClientsInv, NEW u \in Callers, Waits(u), Goto(u, "allow"),
         UNCHANGED <<chain, call>>, NEW b \in 1 .. MaxBreakers,
         judge' = [judge EXCEPT ![u] = b],
         breakers' = [breakers EXCEPT ![KeyOf(u)] = b],
         breakers[KeyOf(u)] \in {None, b}
  PROVE  Group!Next
  <1> DEFINE wants == [v \in Callers |-> IF Waits(v) THEN KeyOf(v) ELSE None]
  <1>1. KeyOf(u) \in Keys /\ KeyOf(u) # None
    BY WaitsForKey, ClientsAssumption
  <1>2. wants[u] = KeyOf(u)
    OBVIOUS
  <1>3. wants' = [wants EXCEPT ![u] = None]
    <2>1. wants'[u] = None
      BY DEF Goto, Waits, ClientsInv, ClientsTypeOK
    <2>2. ASSUME NEW v \in Callers \ {u} PROVE wants'[v] = wants[v]
      <3>1. pc'[v] = pc[v] /\ KeyOf(v)' = KeyOf(v)
        BY DEF Goto, KeyOf, GroupOf, ClientsInv, ClientsTypeOK
      <3> QED
        BY <3>1 DEF Waits
    <2> QED
      BY <2>1, <2>2
  <1>4. Group!Answer(u)
    BY <1>1, <1>2, <1>3 DEF Group!Answer, Waits
  <1> QED
    BY <1>4 DEF Group!Next

LEMMA OverMoves ==
  ASSUME NEW u \in Callers, Over(u), UNCHANGED <<chain, breakers>>
  PROVE  Moves(u)
  BY DEF Over, Goto, Moves

LEMMA AgainMoves ==
  ASSUME NEW u \in Callers, Again(u), UNCHANGED <<chain, breakers>>
  PROVE  Moves(u)
  BY DEF Again, Onward, Goto, Moves

LEMMA AttemptMoves ==
  ASSUME NEW u \in Callers, NEW allowed, Attempt(u, allowed),
         UNCHANGED <<chain, breakers>>
  PROVE  Moves(u)
  <1>1. CASE Over(u)
    BY <1>1, OverMoves
  <1>2. CASE /\ Onward(u, call[u].client)
             /\ call' = [call EXCEPT ![u].mayRetry = allowed]
             /\ UNCHANGED judge
    BY <1>2 DEF Onward, Goto, Moves
  <1> QED
    BY <1>1, <1>2 DEF Attempt

LEMMA ProceedMoves ==
  ASSUME NEW u \in Callers, Proceed(u), UNCHANGED <<chain, breakers>>
  PROVE  Moves(u)
  <1>1. CASE Over(u)
    BY <1>1, OverMoves
  <1>2. CASE Goto(u, "send") /\ UNCHANGED <<call, judge>>
    BY <1>2 DEF Goto, Moves
  <1>3. CASE Again(u)
    BY <1>3, AgainMoves
  <1> QED
    BY <1>1, <1>2, <1>3 DEF Proceed

\* Every step of the clients is a step of the abstract lookup, or none.
LEMMA StepRefines ==
  ASSUME ClientsInv, ClientsInv', [ClientsNext]_clientsVars
  PROVE  [Group!Next]_(Group!vars)
  <1>1. ASSUME NEW u \in Callers, Call(u) \/ CallerStep(u) \/ Answered(u)
        PROVE  [Group!Next]_(Group!vars)
    <2>1. ASSUME Moves(u), ~Waits(u)
          PROVE  [Group!Next]_(Group!vars)
      BY <2>1, MoveRefines
    <2>2. CASE Call(u)
      <3>1. Moves(u)
        BY <2>2 DEF Call, Onward, Goto, Moves, caches
      <3> QED
        BY <2>1, <2>2, <3>1 DEF Call, Waits
    <2>3. CASE Cached(u)
      <3>1. Moves(u)
        BY <2>3, AttemptMoves DEF Cached, caches
      <3> QED
        BY <2>1, <2>3, <3>1 DEF Cached, Waits
    <2>4. CASE Resolve(u)
      <3>1. Moves(u)
        BY <2>4 DEF Resolve, Goto, Moves, caches
      <3> QED
        BY <2>1, <2>4, <3>1 DEF Resolve, Waits
    <2>5. CASE Store(u)
      <3>1. Moves(u)
        BY <2>5, AttemptMoves DEF Store
      <3> QED
        BY <2>1, <2>5, <3>1 DEF Store, Waits
    <2>6. CASE Found(u)
      <3>1. Waits(u) /\ KeyOf(u) \in Keys /\ breakers[KeyOf(u)] # None
        BY <2>6, WaitsForKey DEF Found, Waits
      <3>2. /\ breakers' = [breakers EXCEPT ![KeyOf(u)] = breakers[KeyOf(u)]]
            /\ breakers[KeyOf(u)] \in 1 .. MaxBreakers
        BY <2>6, <3>1, ClientsAssumption
          DEF Found, caches, ClientsInv, ClientsTypeOK
      <3> QED
        BY <2>6, <3>1, <3>2, LookupRefines DEF Found, caches
    <2>7. CASE Missing(u) \/ WaitForReaders(u)
      <3>1. Moves(u) /\ call' = call
        BY <2>7 DEF Missing, WaitForReaders, Goto, Moves, caches
      <3>2. Waits(u)'
        BY <2>7 DEF Missing, WaitForReaders, Goto, Waits, ClientsInv, ClientsTypeOK
      <3> QED
        BY <3>1, <3>2, MoveRefines
    <2>8. CASE Create(u)
      <3>1. /\ Waits(u) /\ KeyOf(u) \in Keys /\ Goto(u, "allow")
            /\ UNCHANGED <<chain, call>>
        BY <2>8, WaitsForKey DEF Create, Waits
      <3>2. CASE breakers[KeyOf(u)] = None
        <4>1. /\ made + 1 \in 1 .. MaxBreakers
              /\ breakers' = [breakers EXCEPT ![KeyOf(u)] = made + 1]
              /\ judge' = [judge EXCEPT ![u] = made + 1]
          BY <2>8, <3>2, ClientsAssumption
            DEF Create, StillMissing, ClientsInv, ClientsTypeOK
        <4> QED
          BY <3>1, <3>2, <4>1, LookupRefines
      <3>3. CASE breakers[KeyOf(u)] # None
        <4>1. /\ judge' = [judge EXCEPT ![u] = breakers[KeyOf(u)]]
              /\ breakers' = breakers
          BY <2>8, <3>3 DEF Create, StillMissing
        <4>2. /\ breakers' = [breakers EXCEPT ![KeyOf(u)] = breakers[KeyOf(u)]]
              /\ breakers[KeyOf(u)] \in 1 .. MaxBreakers
          BY <3>1, <3>3, <4>1, ClientsAssumption DEF ClientsInv, ClientsTypeOK
        <4> QED
          BY <3>1, <4>1, <4>2, LookupRefines
      <3> QED
        BY <3>2, <3>3
    <2>9. CASE Quiet(u) \/ Notified(u)
      <3>1. Moves(u) /\ ~Waits(u)
        BY <2>9, ProceedMoves DEF Quiet, Notified, Waits, caches
      <3> QED
        BY <2>1, <3>1
    <2>10. CASE Notify(u)
      <3>1. Moves(u) /\ ~Waits(u)
        BY <2>10 DEF Notify, Goto, Moves, Waits, caches
      <3> QED
        BY <2>1, <3>1
    <2>11. CASE Answered(u)
      <3>1. UNCHANGED <<chain, breakers>> /\ ~Waits(u)
        BY <2>11 DEF Answered, Waits, caches
      <3>2. CASE Over(u) \/ Again(u)
        BY <3>1, <3>2, <2>1, OverMoves, AgainMoves
      <3>3. CASE Goto(u, "report") /\ UNCHANGED <<call, judge>>
        <4>1. Moves(u)
          BY <3>1, <3>3 DEF Goto, Moves
        <4> QED
          BY <3>1, <4>1, <2>1
      <3> QED
        BY <2>11, <3>2, <3>3 DEF Answered
    <2> QED
      BY <1>1, <2>2, <2>3, <2>4, <2>5, <2>6, <2>7, <2>8, <2>9, <2>10, <2>11
        DEF CallerStep
  <1>2. ASSUME \/ UNCHANGED clientsVars
               \/ \E s \in Scrapers : BeginSnapshot(s) \/ ScraperStep(s)
        PROVE  [Group!Next]_(Group!vars)
    <2>1. UNCHANGED <<chain, breakers, pc, call, judge>>
      BY <1>2 DEF clientsVars, caches, BeginSnapshot, ScraperStep, ReadState,
                  EndSnapshot
    <2> QED
      BY <2>1 DEF Group!vars, KeyOf, GroupOf
  <1>3. ASSUME NEW k \in ClientIds, NEW r \in BOOLEAN,
               NEW g \in {k, Service, None}, Build(k, r, g)
        PROVE  [Group!Next]_(Group!vars)
    <2>1. /\ chain[k] = None
          /\ chain' = [chain EXCEPT ![k] = [retrier |-> r, group |-> g]]
          /\ UNCHANGED <<breakers, pc, call, judge>>
      BY <1>3 DEF Build
    <2>2. ASSUME NEW u \in Callers, Waits(u) PROVE KeyOf(u)' = KeyOf(u)
      <3>1. /\ call[u].client \in ClientIds
            /\ chain[call[u].client] # None
        BY <2>2, CallUnderWay DEF Waits, ClientsInv, CallOK
      <3>2. chain'[call[u].client] = chain[call[u].client]
        BY <2>1, <3>1 DEF ClientsInv, ClientsTypeOK
      <3> QED
        BY <2>1, <3>2 DEF KeyOf, GroupOf
    <2> QED
      BY <2>1, <2>2 DEF Group!vars, Waits
  <1> QED
    BY <1>1, <1>2, <1>3 DEF ClientsNext, CallsNext

\* The two locks of Group.Get look like one: every behaviour of the clients is
\* one of Memo, in which a lookup is a single step and an entry never changes.
THEOREM LookupsAreAtomic == ClientsSpec => GroupImplementsMemo
  <1>1. ClientsInit => Group!Init
    BY DEF ClientsInit, Group!Init
  <1>2. ClientsInv /\ ClientsInv' /\ [ClientsNext]_clientsVars
          => [Group!Next]_(Group!vars)
    BY StepRefines
  <1> QED
    BY <1>1, <1>2, ClientsInvHolds, PTL
      DEF ClientsSpec, GroupImplementsMemo, Group!Spec

-------------------------------------------------------------------------------
(* Assembly. *)

LEMMA StepIsClientsStep == [Next]_vars => [ClientsNext]_clientsVars
  <1> SUFFICES ASSUME [Next]_vars PROVE [ClientsNext]_clientsVars
    OBVIOUS
  <1>1. CASE StartingStep
    BY <1>1 DEF StartingStep, Load, Validate, ParseLevel, InitTelemetry,
                BuildResilience, BuildInterceptors, FixAndRestart
  <1>2. ASSUME NEW k \in ClientIds, NEW r \in BOOLEAN,
               NEW g \in {k, Service, None}, Build(k, r, g)
        PROVE  ClientsNext
    BY <1>2 DEF ClientsNext
  <1>3. ASSUME NEW k \in ClientIds, ClientChain(k)
        PROVE  [ClientsNext]_clientsVars
    <2>1. On("RETRY_ENABLED") \in BOOLEAN
      BY DEF On
    <2> QED
      BY <1>2, <1>3, <2>1 DEF ClientChain
  <1>4. ASSUME NEW k \in ClientIds, NewClient(k)
        PROVE  ClientsNext
    <2>1. PICK c \in OwnClients[k] :
            Build(k, ~c.disableRetry, IF c.disableBreaker THEN None ELSE k)
      BY <1>4 DEF NewClient
    <2>2. (~c.disableRetry) \in BOOLEAN
      OBVIOUS
    <2> QED
      BY <1>2, <2>1, <2>2
  <1>5. CASE Calls
    BY <1>5 DEF Calls, ClientsNext
  <1>6. CASE UNCHANGED vars
    BY <1>6 DEF vars
  <1> QED
    BY <1>1, <1>3, <1>4, <1>5, <1>6 DEF Next

\* The clients of a service behave as those of Clients.
THEOREM ServiceClients == Spec => ClientsSpec
  <1>1. Init => ClientsInit
    BY DEF Init
  <1> QED
    BY <1>1, StepIsClientsStep, PTL DEF Spec, ClientsSpec

\* However a service came up and whatever clients it assembles, their calls
\* share their breakers and are not retried unless that is safe.
THEOREM ServiceCallsAreSafe ==
  Spec => [](OneBreakerEach /\ FailsClosed) /\ GroupImplementsMemo
  BY ServiceClients, BreakersAreShared, RetriesFailClosed, LookupsAreAtomic, PTL

-------------------------------------------------------------------------------
(* The checks, and the first that fails. *)

\* A set of naturals that is not empty has a least element.
LEMMA MinIsLeast ==
  ASSUME NEW S \in SUBSET Nat, S # {}
  PROVE  Min(S) \in S /\ \A i \in S : Min(S) <= i
  <1> DEFINE R == {ss \in Nat \X Nat : ss[1] < ss[2]}
  <1>1. IsWellFoundedOn(R, Nat)
    BY NatLessThanWellFounded DEF OpToRel
  <1>2. \A i, m \in Nat : i < m => <<i, m>> \in R
    OBVIOUS
  <1> HIDE DEF R
  <1>3. PICK m \in S : \A i \in S : <<i, m>> \notin R
    BY <1>1, WFMin
  <1>4. ASSUME NEW i \in S PROVE m <= i
    <2>1. i \in Nat /\ m \in Nat
      OBVIOUS
    <2>2. ~(i < m)
      BY <1>2, <1>3, <2>1, Zenon
    <2> QED
      BY <2>1, <2>2
  <1>5. \E x \in S : \A i \in S : x <= i
    BY <1>4
  <1> QED
    BY <1>5 DEF Min

\* What a sequence of checks names is what one that fails names.
LEMMA FirstErrorIsOne ==
  ASSUME NEW checks, NEW n \in Nat, DOMAIN checks = 1 .. n,
         FirstError(checks) # {}
  PROVE  \E i \in DOMAIN checks :
           checks[i].fails /\ FirstError(checks) = checks[i].names
  <1> DEFINE failed == {i \in DOMAIN checks : checks[i].fails}
  <1>1. failed # {}
    BY DEF FirstError
  <1>2. Min(failed) \in failed
    <2>1. failed \in SUBSET Nat
      OBVIOUS
    <2> HIDE DEF failed
    <2> QED
      BY <1>1, <2>1, MinIsLeast
  <1>3. FirstError(checks) = checks[Min(failed)].names
    BY <1>1 DEF FirstError
  <1>4. Min(failed) \in DOMAIN checks /\ checks[Min(failed)].fails
    BY <1>2
  <1> HIDE DEF failed
  <1> QED
    BY <1>3, <1>4

\* Nothing is named only if nothing fails.
LEMMA NothingFails ==
  ASSUME NEW checks, \A i \in DOMAIN checks : checks[i].names # {},
         NEW n \in Nat, DOMAIN checks = 1 .. n, FirstError(checks) = {}
  PROVE  \A i \in 1 .. n : ~checks[i].fails
  <1> DEFINE failed == {i \in DOMAIN checks : checks[i].fails}
  <1>1. ASSUME failed # {} PROVE FALSE
    <2>1. Min(failed) \in failed
      <3>1. failed \in SUBSET Nat
        OBVIOUS
      <3> HIDE DEF failed
      <3> QED
        BY <1>1, <3>1, MinIsLeast
    <2>2. FirstError(checks) = checks[Min(failed)].names
      BY <1>1 DEF FirstError
    <2>3. Min(failed) \in DOMAIN checks
      BY <2>1
    <2> HIDE DEF failed
    <2> QED
      BY <2>2, <2>3
  <1> QED
    BY <1>1

LEMMA VariableNames ==
  /\ {"SERVICE_NAME", "ENVIRONMENT", "LOG_LEVEL", "MAIN_ADDR", "ADMIN_ADDR",
      "OTEL_TRACES_EXPORTER", "OTEL_EXPORTER_OTLP_ENDPOINT",
      "BREAKER_ENABLED", "LOADSHED_ENABLED", "RETRY_ENABLED"}
       \subseteq Variables
  /\ Numbers \subseteq Variables /\ Ratios \subseteq Variables
  BY DEF Variables, Default, Required, Optional, Numbers, Ratios

LEMMA FieldNames ==
  /\ DOMAIN HeldBy =
       {"PreStopDelay", "DrainTimeout", "grace_period", "ServiceName",
        "SampleRatio", "exporter", "MinimumRequests", "FailureRatio", "Ratio",
        "MaxQueueLatency", "MaxInFlight"}
  /\ HeldBy["PreStopDelay"] = "PRESTOP_DELAY"
  /\ HeldBy["DrainTimeout"] = "DRAIN_TIMEOUT"
  /\ HeldBy["grace_period"] = "TERMINATION_GRACE_PERIOD"
  /\ HeldBy["ServiceName"] = "SERVICE_NAME"
  /\ HeldBy["SampleRatio"] = "OTEL_TRACES_SAMPLER_ARG"
  /\ HeldBy["exporter"] = "OTEL_TRACES_EXPORTER"
  /\ HeldBy["MinimumRequests"] = "BREAKER_MIN_REQUESTS"
  /\ HeldBy["FailureRatio"] = "BREAKER_FAILURE_RATIO"
  /\ HeldBy["Ratio"] = "RETRY_BUDGET"
  /\ HeldBy["MaxQueueLatency"] = "LOADSHED_MAX_QUEUE_LATENCY"
  /\ HeldBy["MaxInFlight"] = "LOADSHED_MAX_INFLIGHT"
  BY DEF HeldBy

LEMMA FieldsAreHeld == \A w \in DOMAIN HeldBy : HeldBy[w] \in Variables
  BY FieldNames, VariableNames DEF Numbers, Ratios

\* Everything that some words mean has been put right.
Repaired(names) == \A v \in Meant(names) : start.env[v] = Repair[v]

LEMMA RepairedValues ==
  ASSUME NEW names, Repaired(names)
  PROVE  /\ \A v \in names \cap Variables : Value(v) = Repair[v]
         /\ \A w \in names \cap DOMAIN HeldBy :
              Value(HeldBy[w]) = Repair[HeldBy[w]]
  <1>1. ASSUME NEW v \in Variables, start.env[v] = Repair[v]
        PROVE  Value(v) = Repair[v]
    BY <1>1, RepairAssumption DEF Value, ValueOf
  <1>2. \A v \in names \cap Variables : v \in Meant(names)
    BY DEF Meant
  <1>3. \A w \in names \cap DOMAIN HeldBy : HeldBy[w] \in Meant(names)
    BY DEF Meant
  <1> QED
    BY <1>1, <1>2, <1>3, FieldsAreHeld DEF Repaired

\* A repair is of its variable's type.
LEMMA RepairsAreParsed ==
  /\ \A v \in Numbers : Repair[v] \in Int
  /\ \A v \in Ratios : Repair[v] \in Int \cup {NaN}
  /\ \A v \in Variables : ~BreaksRule(v, Repair[v])
  <1>1. \A v \in Variables : Repair[v] # Unset /\ ~Wrong(v, Repair[v])
    BY RepairAssumption
  <1>2. \A v \in Variables : Repair[v] # Junk /\ ~BreaksRule(v, Repair[v])
    BY <1>1 DEF Wrong, ValueOf
  <1> QED
    BY <1>1, <1>2, StartsAssumption, VariableNames DEF Parsed

\* A check names something, by words that mean a variable, and it does not
\* fail once everything it names has been put right.
Sound(check) ==
  /\ check.names # {} /\ check.names \subseteq Words
  /\ check.fails => ~Repaired(check.names)

\* So what a sequence of such checks names is not all put right yet.
LEMMA NamesSomethingNew ==
  ASSUME NEW checks, NEW n \in Nat, DOMAIN checks = 1 .. n,
         \A i \in DOMAIN checks : Sound(checks[i]),
         FirstError(checks) # {}
  PROVE  FirstError(checks) \subseteq Words /\ ~Repaired(FirstError(checks))
  <1>1. PICK i \in DOMAIN checks :
          checks[i].fails /\ FirstError(checks) = checks[i].names
    BY FirstErrorIsOne
  <1> QED
    BY <1>1 DEF Sound

LEMMA LevelChecksAre ==
  DOMAIN LevelChecks = 1 .. 1 /\ \A i \in DOMAIN LevelChecks : Sound(LevelChecks[i])
  <1>1. /\ DOMAIN LevelChecks = 1 .. 1
        /\ LevelChecks[1].names = {"LOG_LEVEL"}
        /\ LevelChecks[1].fails = (Value("LOG_LEVEL") \notin LogLevels)
    BY DEF LevelChecks
  <1>2. Sound(LevelChecks[1])
    <2>1. Repaired({"LOG_LEVEL"}) => Value("LOG_LEVEL") \in LogLevels
      BY RepairedValues, RepairAssumption, VariableNames
    <2> QED
      BY <1>1, <2>1, VariableNames DEF Sound, Words
  <1> QED
    BY <1>1, <1>2

LEMMA TelemetryChecksAre ==
  /\ DOMAIN TelemetryChecks = 1 .. 3
  /\ \A i \in DOMAIN TelemetryChecks : Sound(TelemetryChecks[i])
  <1> DEFINE ratio == "OTEL_TRACES_SAMPLER_ARG"
             exporter == "OTEL_TRACES_EXPORTER"
  <1>1. /\ DOMAIN TelemetryChecks = 1 .. 3
        /\ TelemetryChecks[1].names = {"ServiceName"}
        /\ TelemetryChecks[1].fails = (Value("SERVICE_NAME") = Empty)
        /\ TelemetryChecks[2].names = {"SampleRatio"}
        /\ TelemetryChecks[2].fails = Outside(Value(ratio), 0, 10)
        /\ TelemetryChecks[3].names = {"exporter"}
        /\ TelemetryChecks[3].fails = (Value(exporter) \notin Exporters)
    BY DEF TelemetryChecks
  <1>2. Sound(TelemetryChecks[1])
    <2>1. Repaired({"ServiceName"}) => Value("SERVICE_NAME") # Empty
      BY RepairedValues, RepairAssumption, FieldNames
    <2> QED
      BY <1>1, <2>1, FieldNames DEF Sound, Words
  <1>3. Sound(TelemetryChecks[2])
    <2>1. ~Outside(Repair[ratio], 0, 10)
      <3>1. /\ ratio \in DOMAIN AtLeast /\ AtLeast[ratio] = 0
            /\ ratio \in DOMAIN AtMost /\ AtMost[ratio] = 10
            /\ ratio \in Variables
        BY VariableNames DEF AtLeast, AtMost, Ratios
      <3>2. ~BreaksRule(ratio, Repair[ratio])
        BY <3>1, RepairsAreParsed
      <3> QED
        BY <3>1, <3>2 DEF BreaksRule, Outside
    <2>2. Repaired({"SampleRatio"}) => Value(ratio) = Repair[ratio]
      BY RepairedValues, FieldNames
    <2> QED
      BY <1>1, <2>1, <2>2, FieldNames DEF Sound, Words
  <1>4. Sound(TelemetryChecks[3])
    <2>1. Repair[exporter] \in Exporters
      <3>1. exporter \in DOMAIN OneOf /\ exporter \in Variables
        BY VariableNames DEF OneOf
      <3>2. Repair[exporter] \in OneOf[exporter]
        BY <3>1, RepairsAreParsed DEF BreaksRule
      <3> QED
        BY <3>2 DEF OneOf, Exporters
    <2>2. Repaired({"exporter"}) => Value(exporter) = Repair[exporter]
      BY RepairedValues, FieldNames
    <2> QED
      BY <1>1, <2>1, <2>2, FieldNames DEF Sound, Words
  <1>5. \A i \in DOMAIN TelemetryChecks : i \in {1, 2, 3}
    BY <1>1
  <1> QED
    BY <1>1, <1>2, <1>3, <1>4, <1>5

\* What buildResilience refuses, and what it has built when it does not.
LEMMA ResilienceChecksAre ==
  /\ DOMAIN Built = 1 .. 3 /\ DOMAIN ResilienceChecks = 1 .. 3
  /\ \A i \in 1 .. 3 :
       /\ ResilienceChecks[i].fails <=> On(Built[i].flag) /\ ~Built[i].fits
       /\ Sound(ResilienceChecks[i])
  <1> DEFINE minimum == "BREAKER_MIN_REQUESTS"
             ratio == "BREAKER_FAILURE_RATIO"
             latency == "LOADSHED_MAX_QUEUE_LATENCY"
             inFlight == "LOADSHED_MAX_INFLIGHT"
  <1>1. DOMAIN Built = 1 .. 3
    BY DEF Built
  <1>2. /\ DOMAIN ResilienceChecks = 1 .. 3
        /\ \A i \in 1 .. 3 :
             /\ ResilienceChecks[i].fails = (On(Built[i].flag) /\ ~Built[i].fits)
             /\ ResilienceChecks[i].names = Built[i].names
    BY <1>1 DEF ResilienceChecks
  <1>3. /\ Built[1].names = IF Value(minimum) < 1
                            THEN {"MinimumRequests"} ELSE {"FailureRatio"}
        /\ Built[1].fits = BreakerFits(Value(minimum), Value(ratio))
        /\ Built[2].names = {"Ratio"}
        /\ Built[2].fits = BudgetFits(Value("RETRY_BUDGET"))
        /\ Built[3].names = IF Value(latency) < 0
                            THEN {"MaxQueueLatency"} ELSE {"MaxInFlight"}
        /\ Built[3].fits = ShedderFits(Value(latency), Value(inFlight))
    BY DEF Built
  <1>4. /\ Repaired({"MinimumRequests"}) => Value(minimum) = Repair[minimum]
        /\ Repaired({"FailureRatio"}) => Value(ratio) = Repair[ratio]
        /\ Repaired({"Ratio"}) => Value("RETRY_BUDGET") = Repair["RETRY_BUDGET"]
        /\ Repaired({"MaxQueueLatency"}) => Value(latency) = Repair[latency]
        /\ Repaired({"MaxInFlight"}) => Value(inFlight) = Repair[inFlight]
    BY RepairedValues, FieldNames
  <1>5. Built[1].fits \/ ~Repaired(Built[1].names)
    <2>1. BreakerFits(Repair[minimum], Repair[ratio])
      BY RepairAssumption
    <2> QED
      BY <1>3, <1>4, <2>1 DEF BreakerFits
  <1>6. Built[2].fits \/ ~Repaired(Built[2].names)
    <2>1. /\ "RETRY_BUDGET" \in DOMAIN AtLeast /\ AtLeast["RETRY_BUDGET"] = 0
          /\ "RETRY_BUDGET" \in DOMAIN AtMost /\ AtMost["RETRY_BUDGET"] = 10
          /\ "RETRY_BUDGET" \in Variables
      BY VariableNames DEF AtLeast, AtMost, Ratios
    <2>2. ~BreaksRule("RETRY_BUDGET", Repair["RETRY_BUDGET"])
      BY <2>1, RepairsAreParsed
    <2>3. BudgetFits(Repair["RETRY_BUDGET"])
      BY <2>1, <2>2 DEF BreaksRule, BudgetFits, Outside
    <2> QED
      BY <1>3, <1>4, <2>3
  <1>7. Built[3].fits \/ ~Repaired(Built[3].names)
    <2>1. ShedderFits(Repair[latency], Repair[inFlight])
      BY RepairAssumption
    <2> QED
      BY <1>3, <1>4, <2>1 DEF ShedderFits
  <1>8. \A i \in 1 .. 3 : Built[i].names # {} /\ Built[i].names \subseteq Words
    <2>1. \A i \in 1 .. 3 : i \in {1, 2, 3}
      OBVIOUS
    <2> QED
      BY <1>3, <2>1, FieldNames DEF Words
  <1>9. \A i \in 1 .. 3 : Sound(ResilienceChecks[i])
    <2>1. \A i \in 1 .. 3 : i \in {1, 2, 3}
      OBVIOUS
    <2> QED
      BY <1>2, <1>5, <1>6, <1>7, <1>8, <2>1 DEF Sound
  <1> QED
    BY <1>1, <1>2, <1>9

\* What Timing.Validate and Config.Validate refuse.
GraceTooShort ==
  /\ Value("TERMINATION_GRACE_PERIOD") > 0
  /\ Value("PRESTOP_DELAY") + Value("DRAIN_TIMEOUT")
       >= Value("TERMINATION_GRACE_PERIOD")

LEMMA TimingChecksAre ==
  /\ TimingChecks = <<TimingChecks[1], TimingChecks[2], TimingChecks[3]>>
  /\ Sound(TimingChecks[1]) /\ Sound(TimingChecks[2]) /\ Sound(TimingChecks[3])
  /\ GraceTooShort => TimingChecks[3].fails
  <1> DEFINE delay == "PRESTOP_DELAY"
             drain == "DRAIN_TIMEOUT"
             grace == "TERMINATION_GRACE_PERIOD"
  <1>1. /\ TimingChecks = <<TimingChecks[1], TimingChecks[2], TimingChecks[3]>>
        /\ TimingChecks[1].names = {"PreStopDelay"}
        /\ TimingChecks[2].names = {"DrainTimeout"}
        /\ TimingChecks[3].names = {"PreStopDelay", "DrainTimeout",
                                    "grace_period"}
    BY DEF TimingChecks
  <1>2. /\ TimingChecks[1].fails = (Value(delay) < 0)
        /\ TimingChecks[2].fails = (Value(drain) <= 0)
        /\ TimingChecks[3].fails =
             (/\ Value(grace) > 0
              /\ Value(delay) + Value(drain) >= Value(grace))
    BY DEF TimingChecks
  <1>3. GraceTooShort => TimingChecks[3].fails
    BY <1>2 DEF GraceTooShort
  <1>4. /\ Repair[delay] \in Int /\ Repair[drain] \in Int /\ Repair[grace] \in Int
        /\ Repair[delay] >= 0 /\ Repair[drain] > 0
        /\ Repair[grace] > 0 => Repair[delay] + Repair[drain] < Repair[grace]
    BY RepairsAreParsed, RepairAssumption DEF Numbers
  <1>5. \A names :
          Repaired(names) =>
            /\ "PreStopDelay" \in names => Value(delay) = Repair[delay]
            /\ "DrainTimeout" \in names => Value(drain) = Repair[drain]
            /\ "grace_period" \in names => Value(grace) = Repair[grace]
    BY RepairedValues, FieldNames
  <1>6. Sound(TimingChecks[1])
    <2>1. Repaired({"PreStopDelay"}) => ~(Value(delay) < 0)
      BY <1>4, <1>5
    <2>2. {"PreStopDelay"} \subseteq Words
      BY FieldNames DEF Words
    <2>3. TimingChecks[1].fails => ~Repaired(TimingChecks[1].names)
      BY <1>1, <1>2, <2>1
    <2> QED
      BY <1>1, <2>2, <2>3 DEF Sound
  <1>7. Sound(TimingChecks[2])
    <2>1. Repaired({"DrainTimeout"}) => ~(Value(drain) <= 0)
      BY <1>4, <1>5
    <2>2. {"DrainTimeout"} \subseteq Words
      BY FieldNames DEF Words
    <2>3. TimingChecks[2].fails => ~Repaired(TimingChecks[2].names)
      BY <1>1, <1>2, <2>1
    <2> QED
      BY <1>1, <2>2, <2>3 DEF Sound
  <1>8. Sound(TimingChecks[3])
    BY <1>1, <1>2, <1>4, <1>5, FieldNames DEF Sound, Words
  <1> QED
    BY <1>1, <1>3, <1>6, <1>7, <1>8

\* Two checks, three and one are six.
LEMMA SixInARow ==
  ASSUME NEW t, NEW u, NEW v, NEW x, NEW y, NEW z, NEW s,
         s = <<x, y>> \o <<t, u, v>> \o <<z>>
  PROVE  /\ DOMAIN s = 1 .. 6
         /\ s[1] = x /\ s[2] = y /\ s[3] = t /\ s[4] = u /\ s[5] = v /\ s[6] = z
  <1> DEFINE S == {t, u, v, x, y, z}
             p == <<x, y>>
             q == <<t, u, v>>
             r == <<z>>
  <1>1. p \in Seq(S) /\ q \in Seq(S) /\ r \in Seq(S)
    OBVIOUS
  <1>2. Len(p) = 2 /\ Len(q) = 3 /\ Len(r) = 1
    OBVIOUS
  <1>3. p[1] = x /\ p[2] = y /\ q[1] = t /\ q[2] = u /\ q[3] = v /\ r[1] = z
    OBVIOUS
  <1>4. s = p \o q \o r
    OBVIOUS
  <1> HIDE DEF p, q, r, S
  <1>5. /\ p \o q \in Seq(S) /\ Len(p \o q) = 5
        /\ \A i \in 1 .. 5 : (p \o q)[i] = IF i <= 2 THEN p[i] ELSE q[i - 2]
    <2>1. /\ p \o q \in Seq(S) /\ Len(p \o q) = Len(p) + Len(q)
          /\ \A i \in 1 .. Len(p) + Len(q) :
               (p \o q)[i] = IF i <= Len(p) THEN p[i] ELSE q[i - Len(p)]
      BY ONLY <1>1, ConcatProperties, Zenon
    <2>2. Len(p) + Len(q) = 5
      BY <1>2
    <2> QED
      BY ONLY <1>2, <2>1, <2>2
  <1>6. /\ s \in Seq(S) /\ Len(s) = 6
        /\ \A i \in 1 .. 6 : s[i] = IF i <= 5 THEN (p \o q)[i] ELSE r[i - 5]
    <2> DEFINE pq == p \o q
    <2>1. pq \in Seq(S) /\ Len(pq) = 5 /\ s = pq \o r
      BY <1>5, <1>4
    <2> HIDE DEF pq
    <2>2. /\ pq \o r \in Seq(S) /\ Len(pq \o r) = Len(pq) + Len(r)
          /\ \A i \in 1 .. Len(pq) + Len(r) :
               (pq \o r)[i] = IF i <= Len(pq) THEN pq[i] ELSE r[i - Len(pq)]
      BY ONLY <1>1, <2>1, ConcatProperties, Zenon
    <2>3. Len(pq) + Len(r) = 6
      BY <1>2, <2>1
    <2>4. /\ s \in Seq(S) /\ Len(s) = 6
          /\ \A i \in 1 .. 6 : s[i] = IF i <= 5 THEN pq[i] ELSE r[i - 5]
      BY ONLY <1>2, <2>1, <2>2, <2>3
    <2> QED
      BY ONLY <2>4 DEF pq
  <1> QED
    BY <1>3, <1>5, <1>6

LEMMA ConfigChecksAre ==
  /\ DOMAIN ConfigChecks = 1 .. 6
  /\ \A i \in DOMAIN ConfigChecks : Sound(ConfigChecks[i])
  /\ GraceTooShort => ConfigChecks[5].fails
  <1> DEFINE a == [fails |-> /\ Value("MAIN_ADDR") = Value("ADMIN_ADDR")
                             /\ Value("MAIN_ADDR") \notin EphemeralAddrs,
                   names |-> {"MAIN_ADDR", "ADMIN_ADDR"}]
             b == [fails |-> /\ Value("OTEL_TRACES_EXPORTER") = "otlp"
                             /\ Value("OTEL_EXPORTER_OTLP_ENDPOINT") = Empty,
                   names |-> {"OTEL_TRACES_EXPORTER",
                              "OTEL_EXPORTER_OTLP_ENDPOINT"}]
  <1>1. ConfigChecks = <<a, b>> \o TimingChecks \o <<TooTight>>
    BY DEF ConfigChecks
  <1>2. ASSUME NEW names, Repaired(names), NEW v \in names \cap Variables
        PROVE  Value(v) = Repair[v]
    BY <1>2, RepairedValues
  <1>3. Sound(a)
    <2>1. /\ a.names = {"MAIN_ADDR", "ADMIN_ADDR"}
          /\ a.fails => Value("MAIN_ADDR") = Value("ADMIN_ADDR")
      OBVIOUS
    <2>2. Repaired({"MAIN_ADDR", "ADMIN_ADDR"}) =>
            Value("MAIN_ADDR") # Value("ADMIN_ADDR")
      <3>1. Repair["MAIN_ADDR"] # Repair["ADMIN_ADDR"]
        BY RepairAssumption
      <3> QED
        BY <1>2, <3>1, VariableNames
    <2>3. {"MAIN_ADDR", "ADMIN_ADDR"} \subseteq Words
      BY VariableNames DEF Words
    <2> HIDE DEF a
    <2>4. a.fails => ~Repaired(a.names)
      BY <2>1, <2>2
    <2> QED
      BY <2>1, <2>3, <2>4 DEF Sound
  <1>4. Sound(b)
    <2>1. /\ b.names = {"OTEL_TRACES_EXPORTER", "OTEL_EXPORTER_OTLP_ENDPOINT"}
          /\ b.fails => Value("OTEL_EXPORTER_OTLP_ENDPOINT") = Empty
      OBVIOUS
    <2> DEFINE names == {"OTEL_TRACES_EXPORTER", "OTEL_EXPORTER_OTLP_ENDPOINT"}
    <2>2. Repaired(names) => Value("OTEL_EXPORTER_OTLP_ENDPOINT") # Empty
      <3>1. Repair["OTEL_EXPORTER_OTLP_ENDPOINT"] # Empty
        BY RepairAssumption
      <3> QED
        BY <1>2, <3>1, VariableNames
    <2>3. names \subseteq Words
      BY VariableNames DEF Words
    <2> HIDE DEF b
    <2>4. b.fails => ~Repaired(b.names)
      BY <2>1, <2>2
    <2> QED
      BY <2>1, <2>3, <2>4 DEF Sound
  <1>5. Sound(TooTight)
    <2>1. /\ TooTight.names = {"DEADLINE_MINIMUM", "REQUEST_TIMEOUT"}
          /\ TooTight.fails =
               (Value("DEADLINE_MINIMUM") >= Value("REQUEST_TIMEOUT"))
      BY DEF TooTight
    <2>2. /\ {"DEADLINE_MINIMUM", "REQUEST_TIMEOUT"} \subseteq Numbers
          /\ Repair["DEADLINE_MINIMUM"] < Repair["REQUEST_TIMEOUT"]
      BY RepairAssumption DEF Numbers
    <2>3. Repair["DEADLINE_MINIMUM"] \in Int /\ Repair["REQUEST_TIMEOUT"] \in Int
      BY <2>2, RepairsAreParsed
    <2>4. Repaired({"DEADLINE_MINIMUM", "REQUEST_TIMEOUT"}) =>
            ~(Value("DEADLINE_MINIMUM") >= Value("REQUEST_TIMEOUT"))
      BY <1>2, <2>2, <2>3, VariableNames
    <2>5. {"DEADLINE_MINIMUM", "REQUEST_TIMEOUT"} \subseteq Words
      BY <2>2, VariableNames DEF Words
    <2>6. TooTight.fails => ~Repaired(TooTight.names)
      BY <2>1, <2>4
    <2> QED
      BY <2>1, <2>5, <2>6 DEF Sound
  <1> HIDE DEF a, b
  <1>6. ConfigChecks =
          <<a, b>> \o <<TimingChecks[1], TimingChecks[2], TimingChecks[3]>>
            \o <<TooTight>>
    BY <1>1, TimingChecksAre, Zenon
  <1>7. /\ DOMAIN ConfigChecks = 1 .. 6
        /\ ConfigChecks[1] = a /\ ConfigChecks[2] = b
        /\ ConfigChecks[3] = TimingChecks[1]
        /\ ConfigChecks[4] = TimingChecks[2]
        /\ ConfigChecks[5] = TimingChecks[3]
        /\ ConfigChecks[6] = TooTight
    BY ONLY <1>6, SixInARow
  <1>8. ASSUME NEW i \in DOMAIN ConfigChecks PROVE Sound(ConfigChecks[i])
    <2>1. i \in {1, 2, 3, 4, 5, 6}
      BY <1>7
    <2> QED
      BY <2>1, <1>3, <1>4, <1>5, <1>7, TimingChecksAre
  <1> QED
    BY <1>7, <1>8, TimingChecksAre

\* What a stage after Load refuses is not all put right yet.
LEMMA StagesName ==
  \A names \in {FirstError(ConfigChecks), FirstError(LevelChecks),
                FirstError(TelemetryChecks), FirstError(ResilienceChecks)} :
    names # {} => names \subseteq Words /\ ~Repaired(names)
  <1>1. 1 \in Nat /\ 3 \in Nat /\ 6 \in Nat
    OBVIOUS
  <1>2. FirstError(ConfigChecks) # {} =>
          /\ FirstError(ConfigChecks) \subseteq Words
          /\ ~Repaired(FirstError(ConfigChecks))
    BY ONLY <1>1, ConfigChecksAre, NamesSomethingNew
  <1>3. FirstError(LevelChecks) # {} =>
          /\ FirstError(LevelChecks) \subseteq Words
          /\ ~Repaired(FirstError(LevelChecks))
    BY ONLY <1>1, LevelChecksAre, NamesSomethingNew
  <1>4. FirstError(TelemetryChecks) # {} =>
          /\ FirstError(TelemetryChecks) \subseteq Words
          /\ ~Repaired(FirstError(TelemetryChecks))
    BY ONLY <1>1, TelemetryChecksAre, NamesSomethingNew
  <1>5. FirstError(ResilienceChecks) # {} =>
          /\ FirstError(ResilienceChecks) \subseteq Words
          /\ ~Repaired(FirstError(ResilienceChecks))
    <2>1. \A i \in DOMAIN ResilienceChecks : Sound(ResilienceChecks[i])
      BY ResilienceChecksAre
    <2>2. DOMAIN ResilienceChecks = 1 .. 3
      BY ResilienceChecksAre
    <2> QED
      BY ONLY <1>1, <2>1, <2>2, NamesSomethingNew
  <1> QED
    BY ONLY <1>2, <1>3, <1>4, <1>5, Zenon

-------------------------------------------------------------------------------
(* What starts is usable. *)

Stages == {"load", "validate", "level", "telemetry", "resilience",
           "interceptors", "built", "refused"}
Validated == {"level", "telemetry", "resilience", "interceptors", "built"}
Assembled == {"interceptors", "built"}

\* What the variables are, and what a refusal may name.
EnvInv ==
  /\ start.entry \in {"env", "explicit"}
  /\ DOMAIN start.env = Variables /\ Parsed(start.env)
  /\ stage \in Stages /\ named \subseteq Words

\* What has been checked on the way to a stage: the tags' rules, unless the
\* Config was written down in code, and the termination grace period.
CheckedInv ==
  /\ start.entry = "env" /\ stage \in Validated \cup {"validate"} =>
       \A v \in Variables : ~Wrong(v, start.env[v])
  /\ stage \in Validated => ~GraceTooShort

\* Which parts exist at a stage.
PartsInv ==
  /\ stage \notin Assembled \cup {"refused"} =>
       "breakers" \notin parts /\ "shedder" \notin parts
  /\ stage # "built" => "LoadShed" \notin parts
  /\ stage \in Assembled =>
       /\ "breakers" \in parts <=> On("BREAKER_ENABLED")
       /\ "shedder" \in parts <=> On("LOADSHED_ENABLED")
       /\ On("BREAKER_ENABLED") =>
            BreakerFits(Value("BREAKER_MIN_REQUESTS"),
                        Value("BREAKER_FAILURE_RATIO"))
  /\ stage = "built" => ("LoadShed" \in parts <=> "shedder" \in parts)

\* What only a running service has: a warning, and clients it could not build,
\* which it has not if the tags' rules were checked.
RunningInv ==
  /\ broken \subseteq ClientIds
  /\ stage # "built" \/ start.entry = "env" => broken = {}
  /\ stage # "built" => warned = None
  /\ warned # None => On("RETRY_ENABLED") /\ start.signs # {}

\* The inductive invariant.
StartInv == EnvInv /\ CheckedInv /\ PartsInv /\ RunningInv

\* A numeric field that breaks no rule holds a number, or a NaN.
LEMMA NumbersAreParsed ==
  ASSUME EnvInv, NEW v \in Numbers \cup Ratios, ~Wrong(v, start.env[v])
  PROVE  /\ v \in Numbers => Value(v) \in Int
         /\ v \in Ratios => Value(v) \in Int \cup {NaN}
         /\ ~BreaksRule(v, Value(v))
  <1>1. start.env[v] # Junk /\ ~BreaksRule(v, Value(v))
    BY DEF Wrong, Value, Numbers, Ratios, Required
  <1>2. CASE start.env[v] # Unset
    BY <1>1, <1>2 DEF EnvInv, Parsed, Value, ValueOf
  <1>3. CASE start.env[v] = Unset
    <2>1. v \in DOMAIN Default \/ v = "TERMINATION_GRACE_PERIOD"
      BY DEF Default, Numbers, Ratios
    <2>2. CASE v = "TERMINATION_GRACE_PERIOD"
      <3>1. v \notin DOMAIN Default /\ Optional[v] = 0 /\ v \notin Ratios
        BY <2>2 DEF Default, Optional, Ratios
      <3> QED
        BY <1>1, <1>3, <3>1 DEF Value, ValueOf
    <2>3. CASE v \in DOMAIN Default
      <3>1. Default[v] \in Int
        BY <2>3 DEF Default, Numbers, Ratios
      <3> QED
        BY <1>1, <1>3, <2>3, <3>1 DEF Value, ValueOf
    <2> QED
      BY <2>1, <2>2, <2>3
  <1> QED
    BY <1>2, <1>3

\* What the tags' rules and the checks amount to, for what has been started.
LEMMA StartedIsUsableFollows == StartInv => StartedIsUsable
  <1> SUFFICES ASSUME StartInv, stage = "built", start.entry = "env"
               PROVE  StartedIsUsable
    BY DEF StartedIsUsable
  <1>1. \A v \in Variables : ~Wrong(v, start.env[v])
    BY DEF StartInv, CheckedInv, Validated
  <1>2. \A v \in Numbers \cup Ratios :
          /\ v \in Numbers => Value(v) \in Int
          /\ v \in Ratios => Value(v) \in Int \cup {NaN}
          /\ ~BreaksRule(v, Value(v))
    BY <1>1, VariableNames, NumbersAreParsed DEF StartInv
  <1>3. "breakers" \in parts =>
          Value("BREAKER_FAILURE_RATIO") = NaN
            \/ Value("BREAKER_FAILURE_RATIO") \in 1 .. 10
    <2> DEFINE ratio == Value("BREAKER_FAILURE_RATIO")
    <2> SUFFICES ASSUME "breakers" \in parts, ratio # NaN
                 PROVE  ratio \in 1 .. 10
      OBVIOUS
    <2>1. ratio \in Int /\ ~BreaksRule("BREAKER_FAILURE_RATIO", ratio)
      BY <1>2 DEF Ratios
    <2>2. ratio # 0
      BY DEF StartInv, PartsInv, Assembled, BreakerFits
    <2>3. 0 # NaN /\ 10 # NaN
      BY StartsAssumption
    <2>4. /\ "BREAKER_FAILURE_RATIO" \in DOMAIN AtLeast
          /\ AtLeast["BREAKER_FAILURE_RATIO"] = 0
          /\ "BREAKER_FAILURE_RATIO" \in DOMAIN AtMost
          /\ AtMost["BREAKER_FAILURE_RATIO"] = 10
      BY DEF AtLeast, AtMost
    <2>5. ~Less(ratio, 0) /\ ~Less(10, ratio)
      BY <2>1, <2>4 DEF BreaksRule
    <2> HIDE DEF ratio
    <2> QED
      BY <2>1, <2>2, <2>3, <2>5 DEF Less
  <1>4. Value("TERMINATION_GRACE_PERIOD") > 0 =>
          Value("PRESTOP_DELAY") + Value("DRAIN_TIMEOUT")
            < Value("TERMINATION_GRACE_PERIOD")
    <2>1. /\ Value("TERMINATION_GRACE_PERIOD") \in Int
          /\ Value("PRESTOP_DELAY") \in Int /\ Value("DRAIN_TIMEOUT") \in Int
      BY <1>2 DEF Numbers
    <2>2. ~GraceTooShort
      BY DEF StartInv, CheckedInv, Validated
    <2> QED
      BY <2>1, <2>2 DEF GraceTooShort
  <1>5. /\ broken = {}
        /\ "breakers" \in parts <=> On("BREAKER_ENABLED")
        /\ "LoadShed" \in parts <=> On("LOADSHED_ENABLED")
        /\ warned # None => On("RETRY_ENABLED") /\ start.signs # {}
    BY DEF StartInv, PartsInv, RunningInv, Assembled
  <1> QED
    BY <1>3, <1>4, <1>5 DEF StartedIsUsable

LEMMA SameValues ==
  ASSUME start' = start
  PROVE  /\ \A v : Value(v)' = Value(v)
         /\ \A v : On(v)' <=> On(v)
         /\ \A v : Wrong(v, start.env[v])' <=> Wrong(v, start.env[v])
         /\ GraceTooShort' <=> GraceTooShort
  BY DEF Value, ValueOf, On, Wrong, BreaksRule, Less, GraceTooShort

\* A stage that refuses ends in "refused", with every part it has so far.
LEMMA RefusedKeepsInv ==
  ASSUME StartInv, start' = start, stage # "built", stage' = "refused",
         named' \subseteq Words, UNCHANGED <<warned, broken>>,
         "LoadShed" \in parts' => "LoadShed" \in parts
  PROVE  StartInv'
  <1>1. EnvInv'
    BY DEF StartInv, EnvInv, Parsed, Stages
  <1>2. CheckedInv'
    BY DEF CheckedInv, Validated
  <1>3. PartsInv'
    BY DEF StartInv, PartsInv, Assembled
  <1>4. RunningInv'
    BY SameValues DEF StartInv, RunningInv
  <1> QED
    BY <1>1, <1>2, <1>3, <1>4 DEF StartInv

\* A stage that passes its checks goes on to the next.
LEMMA PassedKeepsInv ==
  ASSUME StartInv, start' = start, stage # "built",
         stage' \in {"validate", "level", "telemetry", "resilience"},
         stage \notin Assembled \cup {"refused"}, named' = named,
         UNCHANGED <<warned, broken>>,
         parts' \subseteq parts \cup {"guard"},
         stage' = "validate" /\ start.entry = "env" =>
           \A v \in Variables : ~Wrong(v, start.env[v]),
         stage' # "validate" => stage \in Validated \cup {"validate"},
         stage' # "validate" => ~GraceTooShort
  PROVE  StartInv'
  <1>1. EnvInv'
    BY DEF StartInv, EnvInv, Parsed, Stages
  <1>2. CheckedInv'
    <2>1. ASSUME start.entry = "env"
          PROVE  \A v \in Variables : ~Wrong(v, start.env[v])
      BY <2>1 DEF StartInv, CheckedInv
    <2>2. stage' \in Validated => ~GraceTooShort
      BY DEF Validated
    <2> QED
      BY <2>1, <2>2, SameValues DEF CheckedInv
  <1>3. PartsInv'
    BY DEF StartInv, PartsInv, Assembled
  <1>4. RunningInv'
    BY SameValues DEF StartInv, RunningInv
  <1> QED
    BY <1>1, <1>2, <1>3, <1>4 DEF StartInv

\* buildResilience: all three parts fit, or it refuses.
LEMMA BuildResilienceKeepsInv ==
  ASSUME StartInv, BuildResilience
  PROVE  StartInv'
  <1> DEFINE names == FirstError(ResilienceChecks)
             built == {Built[i].part : i \in {i \in DOMAIN Built :
                         /\ On(Built[i].flag)
                         /\ \A j \in 1 .. i : ~ResilienceChecks[j].fails}}
  <1>1. /\ stage = "resilience" /\ start' = start
        /\ UNCHANGED <<warned, broken>>
        /\ Checked(names, "interceptors")
        /\ parts' = parts \cup built
    BY DEF BuildResilience
  <1>2. /\ DOMAIN Built = 1 .. 3
        /\ Built[1].part = "breakers" /\ Built[1].flag = "BREAKER_ENABLED"
        /\ Built[2].part = "budget"
        /\ Built[3].part = "shedder" /\ Built[3].flag = "LOADSHED_ENABLED"
    BY DEF Built
  <1>3. Built[1].fits <=> BreakerFits(Value("BREAKER_MIN_REQUESTS"),
                                      Value("BREAKER_FAILURE_RATIO"))
    BY DEF Built
  <1>4. \A x \in built : x \in {"breakers", "budget", "shedder"}
    <2>1. \A i \in DOMAIN Built : i \in {1, 2, 3}
      BY <1>2
    <2> QED
      BY <1>2, <2>1
  <1>5. CASE names # {}
    <2>1. names \subseteq Words
      BY <1>5, StagesName
    <2> HIDE DEF names, built
    <2>2. stage' = "refused" /\ named' = names
      BY <1>1, <1>5 DEF Checked, Refuse
    <2>3. "LoadShed" \in parts' => "LoadShed" \in parts
      BY <1>1, <1>4
    <2> QED
      BY <1>1, <2>1, <2>2, <2>3, RefusedKeepsInv
  <1>6. CASE names = {}
    <2>1. \A i \in 1 .. 3 : ~ResilienceChecks[i].fails
      <3>1. /\ DOMAIN ResilienceChecks = 1 .. 3
            /\ \A i \in DOMAIN ResilienceChecks :
                 ResilienceChecks[i].names # {}
        BY ResilienceChecksAre DEF Sound
      <3> QED
        BY ONLY <3>1, <1>6, NothingFails, 3 \in Nat
    <2>2. \A i \in 1 .. 3 : On(Built[i].flag) => Built[i].fits
      BY <2>1, ResilienceChecksAre
    <2>3. built = {Built[i].part : i \in {i \in 1 .. 3 : On(Built[i].flag)}}
      BY <1>2, <2>1
    <2>4. /\ "breakers" \in built <=> On("BREAKER_ENABLED")
          /\ "shedder" \in built <=> On("LOADSHED_ENABLED")
      <3>1. \A i \in 1 .. 3 : i \in {1, 2, 3}
        OBVIOUS
      <3> HIDE DEF built
      <3>2. "breakers" \in built <=> On("BREAKER_ENABLED")
        BY <1>2, <2>3, <3>1
      <3>3. "shedder" \in built <=> On("LOADSHED_ENABLED")
        BY <1>2, <2>3, <3>1
      <3> QED
        BY <3>2, <3>3
    <2>5. On("BREAKER_ENABLED") =>
            BreakerFits(Value("BREAKER_MIN_REQUESTS"),
                        Value("BREAKER_FAILURE_RATIO"))
      BY <1>2, <1>3, <2>2
    <2> HIDE DEF names, built
    <2>6. stage' = "interceptors" /\ named' = named
      BY <1>1, <1>6 DEF Checked
    <2>7. EnvInv'
      BY <1>1, <2>6 DEF StartInv, EnvInv, Parsed, Stages
    <2>8. CheckedInv'
      BY <1>1, <2>6, SameValues DEF StartInv, CheckedInv, Validated
    <2>9. PartsInv'
      <3>1. /\ "breakers" \in parts' <=> On("BREAKER_ENABLED")
            /\ "shedder" \in parts' <=> On("LOADSHED_ENABLED")
            /\ "LoadShed" \notin parts'
        BY <1>1, <1>4, <2>4 DEF StartInv, PartsInv, Assembled
      <3> QED
        BY <1>1, <2>5, <2>6, <3>1, SameValues
          DEF PartsInv, BreakerFits, Outside, Less, Assembled
    <2>10. RunningInv'
      BY <1>1, <2>6, SameValues DEF StartInv, RunningInv
    <2> QED
      BY <2>7, <2>8, <2>9, <2>10 DEF StartInv
  <1> QED
    BY <1>5, <1>6

\* Every step keeps it (config.go:32-100, service.go:75-280, 522-577).
LEMMA StartInductive == StartInv /\ [Next]_vars => StartInv'
  <1> SUFFICES ASSUME StartInv, [Next]_vars PROVE StartInv'
    OBVIOUS
  <1>1. CASE Load
    <2>1. /\ stage = "load" /\ start' = start /\ parts' = parts
          /\ UNCHANGED <<warned, broken>>
      BY <1>1 DEF Load
    <2>2. stage \notin Assembled \cup {"refused", "built"}
      BY <2>1 DEF Assembled
    <2>3. CASE start.entry = "env" /\ Problems # {}
      <3>1. stage' = "refused" /\ named' = Problems
        BY <1>1, <2>3 DEF Load, Checked, Refuse
      <3>2. Problems \subseteq Words
        BY DEF Problems, Words
      <3> QED
        BY <2>1, <3>1, <3>2, RefusedKeepsInv
    <2>4. CASE ~(start.entry = "env" /\ Problems # {})
      <3>1. stage' = "validate" /\ named' = named
        BY <1>1, <2>4 DEF Load, Checked
      <3>2. start.entry = "env" => \A v \in Variables : ~Wrong(v, start.env[v])
        BY <2>4 DEF Problems
      <3> QED
        BY <2>1, <2>2, <3>1, <3>2, PassedKeepsInv
    <2> QED
      BY <2>3, <2>4
  <1>2. CASE Validate
    <2> DEFINE names == FirstError(ConfigChecks)
    <2>1. /\ stage = "validate" /\ start' = start /\ parts' = parts
          /\ UNCHANGED <<warned, broken>>
          /\ Checked(names, "level")
      BY <1>2 DEF Validate
    <2>2. stage \notin Assembled \cup {"refused", "built"}
      BY <2>1 DEF Assembled
    <2>3. names # {} => names \subseteq Words
      BY StagesName
    <2>4. names = {} => ~GraceTooShort
      <3> SUFFICES ASSUME names = {} PROVE ~GraceTooShort
        OBVIOUS
      <3>1. /\ DOMAIN ConfigChecks = 1 .. 6
            /\ \A i \in DOMAIN ConfigChecks : ConfigChecks[i].names # {}
        BY ConfigChecksAre DEF Sound
      <3>2. \A i \in 1 .. 6 : ~ConfigChecks[i].fails
        BY ONLY <3>1, NothingFails, names = {}, 6 \in Nat
      <3> QED
        BY <3>2, ConfigChecksAre
    <2> HIDE DEF names
    <2>5. CASE names # {}
      <3>1. stage' = "refused" /\ named' = names
        BY <2>1, <2>5 DEF Checked, Refuse
      <3> QED
        BY <2>1, <2>3, <2>5, <3>1, RefusedKeepsInv
    <2>6. CASE names = {}
      <3>1. stage' = "level" /\ named' = named
        BY <2>1, <2>6 DEF Checked
      <3> QED
        BY <2>1, <2>2, <2>4, <2>6, <3>1, PassedKeepsInv
    <2> QED
      BY <2>5, <2>6
  <1>3. CASE ParseLevel
    <2> DEFINE names == FirstError(LevelChecks)
    <2>1. /\ stage = "level" /\ start' = start /\ parts' = parts
          /\ UNCHANGED <<warned, broken>>
          /\ Checked(names, "telemetry")
      BY <1>3 DEF ParseLevel
    <2>2. stage \in Validated /\ stage \notin Assembled \cup {"refused", "built"}
      BY <2>1 DEF Assembled, Validated
    <2>3. ~GraceTooShort
      BY <2>2 DEF StartInv, CheckedInv
    <2>4. names # {} => names \subseteq Words
      BY StagesName
    <2> HIDE DEF names
    <2>5. CASE names # {}
      <3>1. stage' = "refused" /\ named' = names
        BY <2>1, <2>5 DEF Checked, Refuse
      <3> QED
        BY <2>1, <2>4, <2>5, <3>1, RefusedKeepsInv
    <2>6. CASE names = {}
      <3>1. stage' = "telemetry" /\ named' = named
        BY <2>1, <2>6 DEF Checked
      <3> QED
        BY <2>1, <2>2, <2>3, <3>1, PassedKeepsInv
    <2> QED
      BY <2>5, <2>6
  <1>4. CASE InitTelemetry
    <2> DEFINE names == FirstError(TelemetryChecks)
    <2>1. /\ stage = "telemetry" /\ start' = start
          /\ UNCHANGED <<warned, broken>>
          /\ Checked(names, "resilience")
          /\ parts' = parts \/ parts' = parts \cup {"guard"}
      BY <1>4 DEF InitTelemetry
    <2>2. stage \in Validated /\ stage \notin Assembled \cup {"refused", "built"}
      BY <2>1 DEF Assembled, Validated
    <2>3. ~GraceTooShort
      BY <2>2 DEF StartInv, CheckedInv
    <2>4. names # {} => names \subseteq Words
      BY StagesName
    <2> HIDE DEF names
    <2>5. CASE names # {}
      <3>1. stage' = "refused" /\ named' = names
        BY <2>1, <2>5 DEF Checked, Refuse
      <3> QED
        BY <2>1, <2>4, <2>5, <3>1, RefusedKeepsInv
    <2>6. CASE names = {}
      <3>1. stage' = "resilience" /\ named' = named
        BY <2>1, <2>6 DEF Checked
      <3>2. parts' \subseteq parts \cup {"guard"}
        BY <2>1
      <3> QED
        BY <2>1, <2>2, <2>3, <3>1, <3>2, PassedKeepsInv
    <2> QED
      BY <2>5, <2>6
  <1>5. CASE BuildResilience
    BY <1>5, BuildResilienceKeepsInv
  <1>6. CASE BuildInterceptors
    <2>1. /\ stage = "interceptors" /\ stage' = "built" /\ start' = start
          /\ UNCHANGED <<named, broken>>
          /\ parts' = parts \cup {"metrics interceptor"} \cup
               (IF "shedder" \in parts THEN {"LoadShed"} ELSE {})
          /\ warned' = IF On("RETRY_ENABLED") THEN DetectMesh ELSE None
      BY <1>6 DEF BuildInterceptors
    <2>2. EnvInv'
      BY <2>1 DEF StartInv, EnvInv, Parsed, Stages
    <2>3. CheckedInv'
      BY <2>1, SameValues DEF StartInv, CheckedInv, Validated
    <2>4. PartsInv'
      <3>1. "LoadShed" \notin parts
        BY <2>1 DEF StartInv, PartsInv
      <3>2. /\ "breakers" \in parts' <=> "breakers" \in parts
            /\ "shedder" \in parts' <=> "shedder" \in parts
            /\ "LoadShed" \in parts' <=> "shedder" \in parts'
        BY <2>1, <3>1
      <3> QED
        BY <2>1, <3>2, SameValues
          DEF StartInv, PartsInv, Assembled, BreakerFits, Outside, Less
    <2>5. RunningInv'
      <3>1. DetectMesh # None => start.signs # {}
        BY DEF DetectMesh
      <3> QED
        BY <2>1, <3>1, SameValues DEF StartInv, RunningInv
    <2> QED
      BY <2>2, <2>3, <2>4, <2>5 DEF StartInv
  <1>7. CASE FixAndRestart
    <2>1. /\ stage = "refused" /\ stage' = "load" /\ start.entry = "env"
          /\ start'.env = [v \in Variables |->
                            IF v \in Meant(named) THEN Repair[v]
                            ELSE start.env[v]]
          /\ start'.entry = "env" /\ start'.signs = start.signs
          /\ named' = {} /\ parts' = {} /\ UNCHANGED <<warned, broken>>
      BY <1>7 DEF FixAndRestart
    <2>2. Parsed(start'.env)
      BY <2>1, VariableNames, StartsAssumption DEF StartInv, EnvInv, Parsed
    <2>3. EnvInv'
      BY <2>1, <2>2 DEF EnvInv, Stages, Parsed
    <2>4. CheckedInv' /\ PartsInv'
      BY <2>1 DEF CheckedInv, PartsInv, Validated, Assembled
    <2>5. RunningInv'
      BY <2>1 DEF StartInv, RunningInv
    <2> QED
      BY <2>3, <2>4, <2>5 DEF StartInv
  <1>8. ASSUME UNCHANGED <<start, stage, named, parts, warned>>,
               broken' \subseteq ClientIds,
               stage # "built" \/ start.entry = "env" => broken' = {}
        PROVE  StartInv'
    <2>1. EnvInv'
      BY <1>8 DEF StartInv, EnvInv, Parsed
    <2>2. CheckedInv' /\ RunningInv'
      BY <1>8, SameValues DEF StartInv, CheckedInv, RunningInv
    <2>3. PartsInv'
      BY <1>8, SameValues DEF StartInv, PartsInv, BreakerFits, Outside, Less
    <2> QED
      BY <2>1, <2>2, <2>3 DEF StartInv
  <1>9. ASSUME NEW k \in ClientIds, ClientChain(k) PROVE StartInv'
    <2>1. UNCHANGED <<start, stage, named, parts, warned>> /\ stage = "built"
      BY <1>9 DEF ClientChain
    <2>2. start.entry = "env" => RetryFits(Value("RETRY_MAX_ATTEMPTS"))
      <3> SUFFICES ASSUME start.entry = "env"
                   PROVE  RetryFits(Value("RETRY_MAX_ATTEMPTS"))
        OBVIOUS
      <3> DEFINE attempts == Value("RETRY_MAX_ATTEMPTS")
      <3>1. attempts \in Int /\ ~BreaksRule("RETRY_MAX_ATTEMPTS", attempts)
        <4>1. "RETRY_MAX_ATTEMPTS" \in Numbers
          BY DEF Numbers
        <4> QED
          BY <2>1, <4>1, VariableNames, NumbersAreParsed
            DEF StartInv, CheckedInv, Validated
      <3>2. /\ "RETRY_MAX_ATTEMPTS" \in DOMAIN AtLeast
            /\ AtLeast["RETRY_MAX_ATTEMPTS"] = 0
        BY DEF AtLeast
      <3>3. ~Less(attempts, 0)
        BY <3>1, <3>2 DEF BreaksRule
      <3> HIDE DEF attempts
      <3>4. attempts # NaN /\ 0 # NaN
        BY <3>1, StartsAssumption
      <3> QED
        BY <3>1, <3>3, <3>4 DEF RetryFits, Less, attempts
    <2>3. broken' = broken \/ broken' = broken \cup {k}
      BY <1>9 DEF ClientChain
    <2>4. start.entry = "env" => broken' = broken
      BY <1>9, <2>2 DEF ClientChain
    <2> QED
      BY <1>8, <2>1, <2>3, <2>4 DEF StartInv, RunningInv
  <1>10. ASSUME NEW k \in ClientIds, NewClient(k) PROVE StartInv'
    BY <1>8, <1>10 DEF NewClient, serviceVars, StartInv, RunningInv
  <1>11. CASE Calls \/ UNCHANGED vars
    BY <1>8, <1>11 DEF Calls, vars, serviceVars, StartInv, RunningInv
  <1> QED
    BY <1>1, <1>2, <1>3, <1>4, <1>5, <1>6, <1>7, <1>9, <1>10, <1>11
      DEF Next, StartingStep

LEMMA StartInvHolds == Spec => []StartInv
  <1>1. Init => StartInv
    <2> SUFFICES ASSUME Init PROVE StartInv
      OBVIOUS
    <2>1. EnvInv
      BY StartsAssumption DEF Init, EnvInv, Stages
    <2>2. CheckedInv /\ PartsInv /\ RunningInv
      BY DEF Init, CheckedInv, PartsInv, RunningInv, Validated, Assembled
    <2> QED
      BY <2>1, <2>2 DEF StartInv
  <1> QED
    BY <1>1, StartInductive, PTL DEF Spec

-------------------------------------------------------------------------------
(* No message is shown twice. *)

\* What is about to be put right.
Due == IF stage = "refused" THEN Meant(named) ELSE {}

\* What a message was about is put right, or about to be; of the one that
\* lists problems, no problem is left but those.
Settled(message) ==
  IF message = {}
  THEN \A v \in Variables : Wrong(v, start.env[v]) => v \in Due
  ELSE \A v \in Meant(message) : start.env[v] = Repair[v] \/ v \in Due

ToldInv ==
  /\ told \subseteq SUBSET Words
  /\ start.entry = "env" => \A message \in told : Settled(message)
  /\ start.entry # "env" /\ stage # "refused" => told = {}

\* A refusal, if something that it names has not been put right.
LEMMA RefusesAnew ==
  ASSUME ToldInv, stage # "refused", start' = start, NEW names, Refuse(names),
         names \subseteq Words,
         \/ /\ stage = "load" /\ names = Problems /\ Problems # {}
            /\ start.entry = "env"
         \/ stage # "load" /\ names # {} /\ ~Repaired(names)
  PROVE  ToldInv' /\ told' # told
  <1> DEFINE message == IF stage = "load" THEN {} ELSE names
  <1>1. /\ stage' = "refused" /\ named' = names
        /\ told' = told \cup {message}
    BY DEF Refuse
  <1>2. Due = {} /\ Due' = Meant(names)
    BY <1>1 DEF Due, Meant
  <1>3. ASSUME start.entry = "env" PROVE ~Settled(message)
    <2>1. CASE stage = "load"
      BY <1>2, <2>1 DEF Settled, Problems
    <2>2. CASE stage # "load"
      BY <1>2, <2>2 DEF Settled, Repaired
    <2> QED
      BY <2>1, <2>2
  <1>4. message \notin told
    BY <1>3 DEF ToldInv
  <1>5. ASSUME NEW m \in told', start.entry = "env" PROVE Settled(m)'
    <2>1. CASE m \in told
      <3>1. Settled(m)
        BY <1>5, <2>1 DEF ToldInv
      <3> QED
        BY <1>2, <3>1, SameValues DEF Settled
    <2>2. CASE m = message
      <3>1. CASE stage = "load"
        <4>1. \A v \in Variables : Wrong(v, start.env[v]) => v \in Meant(names)
          BY <3>1 DEF Problems, Meant
        <4> QED
          BY <1>2, <2>2, <3>1, <4>1, SameValues DEF Settled
      <3>2. CASE stage # "load"
        <4>1. names # {}
          BY <3>2
        <4> QED
          BY <1>2, <2>2, <3>2, <4>1 DEF Settled
      <3> QED
        BY <3>1, <3>2
    <2> QED
      BY <1>1, <2>1, <2>2
  <1>6. told' \subseteq SUBSET Words
    BY <1>1 DEF ToldInv
  <1> QED
    BY <1>1, <1>4, <1>5, <1>6 DEF ToldInv

\* What was put right stays right when something else is.
LEMMA FixingSettles ==
  ASSUME StartInv, ToldInv, FixAndRestart
  PROVE  ToldInv'
  <1>1. /\ stage = "refused" /\ start.entry = "env" /\ stage' = "load"
        /\ start'.entry = "env" /\ told' = told
        /\ start'.env = [v \in Variables |->
                          IF v \in Meant(named) THEN Repair[v]
                          ELSE start.env[v]]
    BY DEF FixAndRestart
  <1>2. Due = Meant(named) /\ Due' = {}
    BY <1>1 DEF Due
  <1>3. \A v \in Variables :
          start'.env[v] = IF v \in Due THEN Repair[v] ELSE start.env[v]
    BY <1>1, <1>2
  <1>4. ASSUME NEW m \in told PROVE Settled(m)'
    <2>1. Settled(m)
      BY <1>1 DEF ToldInv
    <2>2. CASE m = {}
      <3>1. ASSUME NEW v \in Variables PROVE ~Wrong(v, start'.env[v])
        <4>1. CASE v \in Due
          BY <1>3, <4>1, RepairAssumption
        <4>2. CASE v \notin Due
          BY <1>3, <2>1, <2>2, <4>2 DEF Settled
        <4> QED
          BY <4>1, <4>2
      <3>2. \A v \in Variables : ~Wrong(v, start.env[v])'
        BY <3>1 DEF Wrong, ValueOf, BreaksRule, Less
      <3> QED
        BY <2>2, <3>2 DEF Settled
    <2>3. CASE m # {}
      <3>1. Meant(m) \subseteq Variables
        BY FieldsAreHeld DEF Meant
      <3>2. \A v \in Meant(m) : start'.env[v] = Repair[v]
        BY <1>3, <2>1, <2>3, <3>1 DEF Settled
      <3> QED
        BY <2>3, <3>2 DEF Settled
    <2> QED
      BY <2>2, <2>3
  <1> QED
    BY <1>1, <1>4 DEF ToldInv

\* The step that NeverToldTwice forbids is none of these.
LEMMA ToldInductive ==
  ASSUME StartInv, ToldInv, [Next]_vars
  PROVE  /\ ToldInv'
         /\ stage # "refused" /\ stage' = "refused" => told' # told
  <1> DEFINE Goal == /\ ToldInv'
                     /\ stage # "refused" /\ stage' = "refused" => told' # told
  <1>1. ASSUME UNCHANGED <<start, told>>, stage # "refused", stage' # "refused"
        PROVE  Goal
    <2>1. Due = {} /\ Due' = {}
      BY <1>1 DEF Due
    <2>2. \A m \in told : Settled(m) => Settled(m)'
      BY <1>1, <2>1, SameValues DEF Settled
    <2> QED
      BY <1>1, <2>2 DEF ToldInv
  <1>2. ASSUME NEW names, NEW next, next # "refused", Checked(names, next),
               stage \notin {"load", "refused"}, start' = start,
               names # {} => names \subseteq Words /\ ~Repaired(names)
        PROVE  Goal
    <2>1. CASE names # {}
      BY <1>2, <2>1, RefusesAnew DEF Checked
    <2>2. CASE names = {}
      BY <1>1, <1>2, <2>2 DEF Checked
    <2> QED
      BY <2>1, <2>2
  <1>3. CASE Load
    <2>1. start' = start /\ stage = "load"
      BY <1>3 DEF Load
    <2>2. CASE start.entry = "env" /\ Problems # {}
      <3>1. Refuse(Problems) /\ Problems \subseteq Words
        BY <1>3, <2>2 DEF Load, Checked, Problems, Words
      <3> QED
        BY <2>1, <2>2, <3>1, RefusesAnew
    <2>3. CASE ~(start.entry = "env" /\ Problems # {})
      <3>1. stage' = "validate" /\ told' = told
        BY <1>3, <2>3 DEF Load, Checked
      <3> QED
        BY <1>1, <2>1, <3>1
    <2> QED
      BY <2>2, <2>3
  <1>4. CASE Validate
    BY <1>2, <1>4, StagesName DEF Validate
  <1>5. CASE ParseLevel
    BY <1>2, <1>5, StagesName DEF ParseLevel
  <1>6. CASE InitTelemetry
    BY <1>2, <1>6, StagesName DEF InitTelemetry
  <1>7. CASE BuildResilience
    BY <1>2, <1>7, StagesName DEF BuildResilience
  <1>8. CASE BuildInterceptors
    BY <1>1, <1>8 DEF BuildInterceptors
  <1>9. CASE FixAndRestart
    BY <1>9, FixingSettles DEF FixAndRestart
  <1>10. ASSUME NEW k \in ClientIds, ClientChain(k) \/ NewClient(k) PROVE Goal
    BY <1>1, <1>10 DEF ClientChain, NewClient, serviceVars
  <1>11. CASE Calls
    BY <1>1, <1>11 DEF Calls, serviceVars
  <1>12. CASE UNCHANGED vars
    <2>1. UNCHANGED <<start, stage, named, told>>
      BY <1>12 DEF vars, serviceVars
    <2>2. Due' = Due
      BY <2>1 DEF Due, Meant
    <2>3. \A m \in told : Settled(m) => Settled(m)'
      BY <2>1, <2>2, SameValues DEF Settled
    <2> QED
      BY <2>1, <2>3 DEF ToldInv
  <1> QED
    BY <1>3, <1>4, <1>5, <1>6, <1>7, <1>8, <1>9, <1>10, <1>11, <1>12
      DEF Next, StartingStep

LEMMA ToldInvHolds == Spec => []ToldInv
  <1>1. Init => ToldInv
    BY DEF Init, ToldInv
  <1>2. StartInv /\ ToldInv /\ [Next]_vars => ToldInv'
    BY ToldInductive
  <1> QED
    BY <1>1, <1>2, StartInvHolds, PTL DEF Spec

\* For every environment, however much of it is wrong: whoever puts right what
\* each refusal names is never shown the same message again, Load's list
\* included, so that there are at most as many restarts as messages.
THEOREM EveryRefusalIsNew == Spec => NeverToldTwice
  <1>1. StartInv /\ ToldInv /\ [Next]_vars
          => [stage # "refused" /\ stage' = "refused" => told' # told]_vars
    BY ToldInductive
  <1> QED
    BY <1>1, StartInvHolds, ToldInvHolds, PTL DEF Spec, NeverToldTwice

-------------------------------------------------------------------------------

\* The types of a service and of its clients; what a refusal names is always a
\* variable, or a field that holds one (service/config.go:88-90,
\* shutdown.go:131-142).
THEOREM TypeCorrect == Spec => []TypeOK
  <1>1. ClientsTypeOK /\ StartInv /\ ToldInv => TypeOK
    BY DEF StartInv, EnvInv, RunningInv, ToldInv, TypeOK, Stages
  <1> QED
    BY <1>1, ServiceClients, ClientsTypeCorrect, StartInvHolds,
       ToldInvHolds, PTL

\* A service that starts from its environment is one that works, whatever the
\* environment, the repairs and the clients are: nothing that Load and the
\* checks let through is refused later (service/config.go:23-26).
THEOREM WhatStartsIsUsable == Spec => []StartedIsUsable
  BY StartInvHolds, StartedIsUsableFollows, PTL
================================================================================
