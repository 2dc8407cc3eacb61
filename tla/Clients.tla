-------------------------------- MODULE Clients --------------------------------
(*****************************************************************************)
(* What the outbound clients of one process share, at the grain of its       *)
(* locks: the breaker group (src/v1/resilience/breaker/breaker.go:311-376),  *)
(* the retry policy each client caches (src/v1/resilience/retry/retry.go:    *)
(* 73-163) and, around both, the goroutines that call through them           *)
(* (src/v1/interceptor/resilience.go) or print them on the admin port.       *)
(*                                                                           *)
(* What a breaker decides is in Breaker, and when a call is retried in       *)
(* ResilientClient; here either may happen.                                  *)
(*****************************************************************************)
EXTENDS Integers

CONSTANTS
  Callers,      \* goroutines that make outbound calls
  Scrapers,     \* goroutines that serve GET /debug/breakers
  ClientIds,    \* the clients this process builds
  Target,       \* the peer each of them is configured for
  Procedures,
  Uses,         \* which client the program calls which procedure with
  Descriptor,   \* external: what the registry of protos says of a procedure
  Service,      \* the group that the service's own clients share
  MaxBreakers,  \* bound: breakers that may be made
  None

Groups == ClientIds \cup {Service}

\* breaker.Key, within one group.
Keys == Groups \X {Target[k] : k \in ClientIds} \X Procedures

\* external: google.protobuf.MethodOptions, or why there are none.
Levels == {"NO_SIDE_EFFECTS", "IDEMPOTENT", "UNKNOWN", "unset", "not found"}

\* A client, as far as it is one, and a call under way.
Chains == [retrier : BOOLEAN, group : Groups \cup {None}]
Outbound == [client : ClientIds, proc : Procedures,
             mayRetry : BOOLEAN, again : BOOLEAN]

ASSUME ClientsAssumption ==
  /\ DOMAIN Target = ClientIds
  /\ Uses \subseteq ClientIds \X Procedures
  /\ Descriptor \in [Procedures -> Levels]
  /\ Service \notin ClientIds
  /\ MaxBreakers \in Nat
  /\ None \notin Groups \cup Keys \cup BOOLEAN \cup Nat
  /\ None \notin Chains \cup Outbound

VARIABLES
  chain,     \* per client: has it a Retrier, and which Group; None: not built
  policies,  \* per client: Policy.cache
  breakers,  \* the Groups' maps; a breaker is a number
  made,      \* auxiliary: breakers made so far, which names the next one
  pc,        \* per caller: where its call is
  call,      \* per caller: the client and the procedure of its call, what the
             \*   Policy said of it and (auxiliary) whether it was sent again
  judge,     \* per caller: the breaker of the attempt in progress, or None
  left       \* per scraper in Snapshot: the breakers it has still to read

clientsVars == <<chain, policies, breakers, made, pc, call, judge, left>>

caches == <<chain, policies, breakers, made>>

Goto(u, label) == pc' = [pc EXCEPT ![u] = label]

GroupOf(u) == chain[call[u].client].group

\* The key of a caller's breaker.
KeyOf(u) == <<GroupOf(u), Target[call[u].client], call[u].proc>>

-------------------------------------------------------------------------------
(* The caller, and the cache of the policy. *)

\* An attempt begins: at the group, or straight at the transport when
\* Resilience.Breakers is nil.
Onward(u, k) == Goto(u, IF chain[k].group = None THEN "send" ELSE "get")

\* The call is over.
Over(u) ==
  /\ Goto(u, "idle")
  /\ call' = [call EXCEPT ![u] = None]
  /\ judge' = [judge EXCEPT ![u] = None]

\* The loop goes round.
Again(u) ==
  /\ call[u].mayRetry
  /\ Onward(u, call[u].client)
  /\ call' = [call EXCEPT ![u].again = TRUE]
  /\ judge' = [judge EXCEPT ![u] = None]

\* The first attempt, which the deadline budget may refuse.
Attempt(u, allowed) ==
  \/ /\ Onward(u, call[u].client)
     /\ call' = [call EXCEPT ![u].mayRetry = allowed]
     /\ UNCHANGED judge
  \/ Over(u)

\* The interceptor, and Do up to its lookup; without a Retrier it has none.
Call(u) ==
  /\ pc[u] = "idle"
  /\ \E k \in ClientIds, p \in Procedures :
       /\ <<k, p>> \in Uses /\ chain[k] # None
       /\ call' = [call EXCEPT ![u] = [client |-> k, proc |-> p,
                                       mayRetry |-> FALSE, again |-> FALSE]]
       /\ IF chain[k].retrier THEN Goto(u, "lookup") ELSE Onward(u, k)
  /\ UNCHANGED <<caches, judge, left>>

\* A mutated form: what cannot be found is taken to be safe.
AllowedUnlessDenied(p) == Descriptor[p] \notin {"UNKNOWN", "unset"}

\* err == nil && md != nil && idempotent(md)
Allowed(p) == Descriptor[p] \in {"NO_SIDE_EFFECTS", "IDEMPOTENT"}

Cache(u) == policies[call[u].client]

\* Retryable finds an answer in its cache, under its read lock.
Cached(u) ==
  /\ pc[u] = "lookup" /\ Cache(u)[call[u].proc] # None
  /\ Attempt(u, Cache(u)[call[u].proc])
  /\ UNCHANGED <<caches, left>>

\* It finds none, and resolves the descriptor outside any lock.
Resolve(u) ==
  /\ pc[u] = "lookup" /\ Cache(u)[call[u].proc] = None
  /\ Goto(u, "store")
  /\ UNCHANGED <<caches, call, judge, left>>

\* The write lock; whatever another caller has stored meanwhile is replaced.
Store(u) ==
  /\ pc[u] = "store"
  /\ LET allowed == Allowed(call[u].proc) IN
       /\ policies' =
            [policies EXCEPT ![call[u].client][call[u].proc] = allowed]
       /\ Attempt(u, allowed)
  /\ UNCHANGED <<chain, breakers, made, left>>

-------------------------------------------------------------------------------
(* Group.Get. *)

\* Who is inside g.mu for longer than a step.  Snapshot is called for the
\* service's group only (service.go:487-496).
Readers(g) == IF g = Service THEN {s \in Scrapers : left[s] # None} ELSE {}

\* sync.RWMutex: a writer that waits keeps new readers, and writers, out.
NoneWaits(g) == \A u \in Callers : pc[u] = "wait" => GroupOf(u) # g

Found(u) ==
  /\ pc[u] = "get" /\ NoneWaits(GroupOf(u))
  /\ breakers[KeyOf(u)] # None
  /\ judge' = [judge EXCEPT ![u] = breakers[KeyOf(u)]]
  /\ Goto(u, "allow")
  /\ UNCHANGED <<caches, call, left>>

\* Not there: RUnlock, and on to Lock.
Missing(u) ==
  /\ pc[u] = "get" /\ NoneWaits(GroupOf(u))
  /\ breakers[KeyOf(u)] = None
  /\ Goto(u, "miss")
  /\ UNCHANGED <<caches, call, judge, left>>

\* Lock, while somebody reads.
WaitForReaders(u) ==
  /\ pc[u] = "miss" /\ NoneWaits(GroupOf(u))
  /\ Readers(GroupOf(u)) # {}
  /\ Goto(u, "wait")
  /\ UNCHANGED <<caches, call, judge, left>>

\* A mutated form: the map is not read again under the write lock.
StillMissingUnchecked(u) == TRUE

StillMissing(u) == breakers[KeyOf(u)] = None

\* Under the write lock.
Create(u) ==
  /\ pc[u] = "wait" \/ (pc[u] = "miss" /\ NoneWaits(GroupOf(u)))
  /\ Readers(GroupOf(u)) = {}
  /\ IF StillMissing(u)
     THEN /\ made < MaxBreakers
          /\ made' = made + 1
          /\ breakers' = [breakers EXCEPT ![KeyOf(u)] = made + 1]
          /\ judge' = [judge EXCEPT ![u] = made + 1]
     ELSE /\ judge' = [judge EXCEPT ![u] = breakers[KeyOf(u)]]
          /\ UNCHANGED <<breakers, made>>
  /\ Goto(u, "allow")
  /\ UNCHANGED <<chain, policies, call, left>>

-------------------------------------------------------------------------------
(* Allow and done, which run under the breaker's own mutex. *)

\* Nobody is inside onChange with b.mu held.
Free(b) ==
  \A u \in Callers : pc[u] \in {"allowed", "reported"} => judge[u] # b

\* After Allow the call is sent, unless it was rejected; done ends the attempt.
Proceed(u) ==
  \/ Over(u)
  \/ /\ pc[u] \in {"allow", "allowed"}
     /\ Goto(u, "send") /\ UNCHANGED <<call, judge>>
  \/ pc[u] \in {"report", "reported"} /\ Again(u)

\* The breaker's state stays, or there is nobody to tell: in and out.
Quiet(u) ==
  /\ pc[u] \in {"allow", "report"} /\ Free(judge[u])
  /\ Proceed(u)
  /\ UNCHANGED <<caches, left>>

\* It changes, and onChange is called with b.mu held.
Notify(u) ==
  /\ pc[u] \in {"allow", "report"} /\ Free(judge[u])
  /\ Goto(u, IF pc[u] = "allow" THEN "allowed" ELSE "reported")
  /\ UNCHANGED <<caches, call, judge, left>>

\* A mutated form: the observer looks its breaker up in the group.
ObserverAsksGroup(u) == NoneWaits(GroupOf(u))

\* The service's observer writes a log line and returns (service.go:174-183);
\* client.Config asks the same of a user's (client.go:54-56).
ObserverReturns(u) == TRUE

Notified(u) ==
  /\ pc[u] \in {"allowed", "reported"} /\ ObserverReturns(u)
  /\ Proceed(u)
  /\ UNCHANGED <<caches, left>>

\* external: the transport returns, and the result goes to the breaker, if
\* there is one; or it panics, and nothing does.
Answered(u) ==
  /\ pc[u] = "send"
  /\ \/ Over(u)
     \/ judge[u] # None /\ Goto(u, "report") /\ UNCHANGED <<call, judge>>
     \/ judge[u] = None /\ Again(u)
  /\ UNCHANGED <<caches, left>>

-------------------------------------------------------------------------------
(* Group.Snapshot: b.mu of one breaker after another, inside g.mu. *)

InGroup(g) == {breakers[key] : key \in {key \in Keys : key[1] = g}} \ {None}

BeginSnapshot(s) ==
  /\ left[s] = None /\ NoneWaits(Service)
  /\ left' = [left EXCEPT ![s] = InGroup(Service)]
  /\ UNCHANGED <<caches, pc, call, judge>>

ReadState(s) ==
  /\ left[s] # None
  /\ \E b \in left[s] : Free(b) /\ left' = [left EXCEPT ![s] = @ \ {b}]
  /\ UNCHANGED <<caches, pc, call, judge>>

EndSnapshot(s) ==
  /\ left[s] = {}
  /\ left' = [left EXCEPT ![s] = None]
  /\ UNCHANGED <<caches, pc, call, judge>>

-------------------------------------------------------------------------------

\* A client is assembled, with a Policy of its own and with a group of its own
\* (client.New), the service's (clientChain) or none.
Build(k, retrier, group) ==
  /\ chain[k] = None
  /\ chain' = [chain EXCEPT ![k] = [retrier |-> retrier, group |-> group]]
  /\ UNCHANGED <<policies, breakers, made, pc, call, judge, left>>

ClientsInit ==
  /\ chain = [k \in ClientIds |-> None]
  /\ policies = [k \in ClientIds |-> [p \in Procedures |-> None]]
  /\ breakers = [key \in Keys |-> None]
  /\ made = 0
  /\ pc = [u \in Callers |-> "idle"]
  /\ call = [u \in Callers |-> None]
  /\ judge = [u \in Callers |-> None]
  /\ left = [s \in Scrapers |-> None]

\* What a goroutine does without waiting for anything but locks.
CallerStep(u) ==
  \/ Cached(u) \/ Resolve(u) \/ Store(u)
  \/ Found(u) \/ Missing(u) \/ WaitForReaders(u) \/ Create(u)
  \/ Quiet(u) \/ Notify(u) \/ Notified(u)
ScraperStep(s) == ReadState(s) \/ EndSnapshot(s)

CallsNext ==
  \/ \E u \in Callers : Call(u) \/ CallerStep(u) \/ Answered(u)
  \/ \E s \in Scrapers : BeginSnapshot(s) \/ ScraperStep(s)

ClientsNext ==
  \/ CallsNext
  \/ \E k \in ClientIds, r \in BOOLEAN :
       \E g \in {k, Service, None} : Build(k, r, g)

ClientsSpec == ClientsInit /\ [][ClientsNext]_clientsVars

\* A goroutine runs on, and one that keeps finding a mutex free gets it:
\* sync.Mutex hands over to the first waiter after 1 ms, and sync.RWMutex lets
\* the waiting readers in when a writer leaves.  Nothing is assumed of a call
\* being made, of the transport answering or of a client being built.
Scheduling ==
  /\ \A u \in Callers : SF_clientsVars(CallerStep(u))
  /\ \A s \in Scrapers : SF_clientsVars(ScraperStep(s))

FairClientsSpec == ClientsSpec /\ Scheduling

-------------------------------------------------------------------------------
(* Properties. *)

\* Type invariant.
ClientsTypeOK ==
  /\ chain \in [ClientIds -> Chains \cup {None}]
  /\ policies \in [ClientIds -> [Procedures -> BOOLEAN \cup {None}]]
  /\ breakers \in [Keys -> 1 .. made \cup {None}]
  /\ made \in 0 .. MaxBreakers
  /\ pc \in [Callers -> {"idle", "lookup", "store", "get", "miss", "wait",
                         "allow", "allowed", "send", "report", "reported"}]
  /\ call \in [Callers -> Outbound \cup {None}]
  /\ \A u \in Callers : pc[u] = "idle" <=> call[u] = None
  /\ judge \in [Callers -> 1 .. made \cup {None}]
  /\ left \in [Scrapers -> (SUBSET (1 .. made)) \cup {None}]

\* Two calls in flight are judged by the same breaker if and only if one group
\* keeps a breaker for the peer and procedure of both: callers that race to
\* create a breaker end up sharing one, and no two keys share
\* (breaker.go:342-360).
OneBreakerEach ==
  \A u, v \in Callers :
    judge[u] # None /\ judge[v] # None =>
      (judge[u] = judge[v] <=> KeyOf(u) = KeyOf(v))

\* No call is sent twice unless its proto declares that to be safe, whichever
\* of the callers that looked it up at the same time stored the answer, and
\* also when the descriptor is missing (retry.go:106-111).
FailsClosed ==
  \A u \in Callers :
    call[u] # None /\ call[u].again =>
      Descriptor[call[u].proc] \in {"NO_SIDE_EFFECTS", "IDEMPOTENT"}

\* The group's two-lock lookup is a Memo: lookups look atomic, and an entry
\* never changes.
Group ==
  INSTANCE Memo WITH
    Users <- Callers,
    Entries <- 1 .. MaxBreakers,
    table <- breakers,
    wants <- [u \in Callers |->
                IF pc[u] \in {"get", "miss", "wait"} THEN KeyOf(u) ELSE None],
    got <- judge

GroupImplementsMemo == Group!Spec

\* Whoever asks the group for a breaker gets one, and every snapshot ends,
\* although each of them waits for locks the others hold: readers for a
\* waiting writer, the writer for a snapshot, a snapshot for a breaker that is
\* telling its observer (breaker.go:258-262, 343-376).
LookupsEnd ==
  /\ \A u \in Callers : pc[u] = "get" ~> judge[u] # None
  /\ \A s \in Scrapers : left[s] # None ~> left[s] = None
================================================================================
