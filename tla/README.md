# A verification development of the Microservices API Framework

TLA+ models of the Go framework under `src/v1`, the TLC configurations that
check them on small instances, and TLAPS proofs of what holds for every
configuration. Paths below are relative to `src/v1` unless they begin with
`src/`.

    tlc -workers 2 -config Breaker.cfg MCBreaker.tla     # any pair of the table "Runs"
    tlapm BreakerProofs.tla

## 1. The system

A service built on the framework has an inbound side (two HTTP servers and a
chain of interceptors in front of its handlers), an outbound side (clients with
deadline budget, retries, retry budget and circuit breakers), and a lifecycle
that starts and drains all of it under a platform that sends SIGTERM, then
SIGKILL.

| Component | State it keeps | Operations | Talks to |
|---|---|---|---|
| Error classification (`resilience/classify.go`) | none | `CountsAsFailure`, `IsRetryable` | breaker and retrier ask it, and must not contradict each other |
| Sliding windows (`resilience/classify.go`, and again in `breaker.go`) | a ring of time buckets | `Add`, `Sum`, `Reset` | breaker, retry budget; the clock |
| Circuit breaker (`resilience/breaker/breaker.go`) | state, ring, `openedAt`, `halfOpen`, `consecutiveOK`, under one mutex | `Allow`, the `done` it returns (`record`), `State`, `Counts` | client interceptor; `onChange` observer, called under the mutex |
| Breaker group (same file) | breakers by target and procedure, under an RWMutex | `Get`, `Snapshot` | client interceptor; the admin port (`/debug/breakers`) |
| Retry budget (`resilience/budget/budget.go`) | two sliding counters with mutexes of their own, `exhausted`, a mutex | `RecordRequest`, `Allow`, `Stats` | every client of the service shares it |
| Retrier, deadline budget, client interceptor (`resilience/retry`, `resilience/deadline`, `interceptor/resilience.go`) | per call: attempt, last error, contexts; a cache of retryable procedures under an RWMutex | `Do`, `sleep`, `Derive`, `Policy.Retryable` | breaker, budget, transport, the caller's context, the registry of protos |
| Server chain (`interceptor/chain.go` and the interceptors) | the stack of each request; a gauge of active requests; the request's context | each interceptor before and after `next`; `Recovery`, `PanicGuard`, `Timeout` | shedder, authenticator, validator, handler, telemetry; through the context, the handler's outbound calls |
| Load shedder (`resilience/shed/shed.go`, `interceptor/loadshed.go`) | `inFlight` and statistics, atomics | `Admit`, `done` | server chain |
| Lifecycle (`service/service.go:315-472`, `lifecycle/`, `transport/transport.go`) | readiness flags, two servers, dependencies, a sequence of shutdown steps | `Run`, `Shutdown`, `Sequencer.Run`, `Timing.Validate` | signals, load balancer, requests in flight, telemetry |
| Configuration and service assembly (`internal/config`, `service/config.go`, `service/service.go:75-280`) | the `Config`, then the parts of the `Service` | `Load`, `Validate`, `New`, `NewWithConfig` and what they build | the environment, whoever reads the refusal |
| Client assembly (`client/client.go`, `service.go:256-313`) | a group, a budget and a policy per client, or the service's | `client.New`, `clientChain` | the service's group and budget |
| Mesh detection (`lifecycle/mesh.go`) | none | `DetectMesh` | the startup warning |
| Telemetry (`telemetry/`) | providers; the cardinality guard's series | set-up, `Observe`, flush | server chain, service assembly, lifecycle |
| Test harness, examples, generated code | | | |

What is hard in it, and what makes each part correct:

- **Breaker.** Calls interleave with each other and with trips. `record`
  (`breaker.go:214-250`) applies a result to the state it *finds*, not to the
  state that admitted the call. Correct means: trips on exactly what the window
  holds, rejects while open, never lets more probes through than configured,
  never loses a probe slot, closes on its probes' evidence and nobody else's,
  and closes in the end when the dependency is well.
- **Group and caches.** Two callers may find the same breaker missing and race
  to create it; an observer runs with a breaker's mutex held, and a scraper
  holds the group's lock while it takes the mutex of each breaker in turn; a
  waiting writer keeps new readers out. Correct means that a peer's procedure has
  one breaker per group, that nobody waits for ever, and that what a policy
  remembers is what the proto says.
- **Retry budget.** `Allow` reads two counters and charges a third time, under
  a mutex that `RecordRequest` and the clock do not take. Correct means that
  two callers never spend the same last retry, and that the counters say what
  happened.
- **Client.** Retries, backoff, two deadlines, a shared budget and a breaker
  decide together whether a request goes out once more. Correct means bounded
  attempts, at most one for what is not declared safe, a deadline kept for this
  hop, an error that names the cause as far as the loop decides, and an answer
  in the end.
- **Hops.** A deadline travels as the time that is left, and starts again from
  the moment the request arrives; requests are slow or lost; the caller retries
  while the first attempt is still being worked on. Correct means that nobody
  works for a caller who has given up, and that the outermost call returns.
- **Server chain.** Every layer may return early, and user code in it may
  panic. Correct means that what the caller is told is what was measured, that
  a flood stops before the expensive layers, and that nothing a request holds
  outlives it.
- **Assembly.** Any of two dozen variables may be wrong, alone or in
  combination, and five places check them one after the other, some of them
  again when a client is first built. Correct means that refusals name
  what must change until nothing is refused any more, none of them twice, and
  that what starts does not turn out unusable later.
- **Lifecycle.** Signals arrive at any moment, requests may never end, servers
  and closers fail, the platform kills. Correct means that the sequence refuses
  no routed request, nothing is closed under a request, a clean exit lost nothing, the
  drain is not cut short by SIGKILL, and the process does exit.

## 2. Modules

| Module | Models | Composes |
|---|---|---|
| `Classify` | both predicates, over every code and sentinel; the facts that breaker, retrier and server rely on | |
| `SlidingWindow` | slot, bucket start, expiry and window of the two rings; `Add` and `Sum` | |
| `Breaker` | one breaker and the goroutines calling through it; what of its state stands for that of `BreakerSpec` | `Classify`, `SlidingWindow`, `BreakerSpec` |
| `BreakerSpec` | what a breaker promises: a log of recent results in place of the ring, sets of calls in place of counters | |
| `MCBreaker` | outcomes and symmetry for TLC | `Breaker` |
| `RetryBudget`, `MCRetryBudget` | the shared budget at the grain of its locks | `SlidingWindow` |
| `ResilientClient`, `MCResilientClient` | one procedure's calls through deadline, retry, budget and breaker | `Breaker` (and through it `Classify`, `SlidingWindow`) |
| `Clients` | the clients of one process: breaker groups, policies' caches, observers and scrapers, at the grain of the locks | `Memo` |
| `Memo` | what a cache filled on demand promises: lookups are atomic, entries stay | |
| `Assembly`, `MCAssembly` | configuration, service and client assembly, refusals and restarts, and then the calls | `Clients` |
| `Hops`, `MCHops` | one call and all the requests it leads to, over any tree of services | |
| `ServerChain`, `MCServerChain` | requests in the server's chain, shedder, gauge, cardinality guard | `Classify`: what a caller makes of its answers |
| `Lifecycle`, `MCLifecycle` | one process from start to exit, with its platform | |
| `SlidingWindowProofs`, `RetryBudgetProofs`, `BreakerProofs` (with `Classify`'s), `ClientProofs` (of `ResilientClient`), `AssemblyProofs` (with `Clients`'s), `HopsProofs`, `ServerChainProofs`, `LifecycleProofs` | theorems | the module each is named for; `ClientProofs` builds on `BreakerProofs`, and that and `RetryBudgetProofs` on `SlidingWindowProofs` |

How state and actions correspond to the code:

- **Breaker.** The variables are `Breaker`'s fields. `Allow` and `done` each
  run under `b.mu` and are one action each, split by the branch they take:
  `AllowClosed`, `AllowFirstProbe` (the transition to half-open and the fall
  through), `AllowProbe`, `Reject`; `Done` counts and then does `DoneOpen`,
  `DoneClosed` (with the trip), `DoneHalfOpenFailed`, `DoneHalfOpenOK`,
  `DoneHalfOpenClose` (with `reset`, which discards the bucket just counted
  in). `sync.Once` is the caller leaving `InFlight`. `probes` and `goodProbes`
  are auxiliary: which calls this half-open period admitted, and how many of
  them have succeeded; no action reads them. `Tick` does not pass the
  deadline of a call (`CallTimeout`).
- **SlidingWindow.** Time is ticks since the Unix epoch. `EpochShift` is the
  distance between the zero of `time.Truncate` (year 1) and that epoch modulo
  the bucket width: 0 for the default width and for every width that divides a
  day. The zero `time.Time` of an unused bucket is a time before every window.
- **RetryBudget.** `RecordRequest` is one step; `Allow` is three (sum, sum,
  decide), with the mutex as a variable. Each step reads the clock itself, as
  the code does. Logs of what really happened are auxiliary.
- **ResilientClient.** A program counter per caller walks through `Do`.
  The breaker's actions are conjoined, so every attempt is an action of
  `Breaker` as well. Each attempt ends by `Answered` or `ContextEnds`;
  `Cancel` and `Panic` may come at any time they can; a context that its
  deadline has ended cannot be cancelled any more, and keeps the error it ended
  with. Whether the procedure is
  declared safe is chosen once, as the policy's cache does. `Budget.Allow` is a
  single step here.
- **Clients.** Per caller, `pc` says between which two locks it is: `lookup`
  and `store` (the policy's cache, read and then written), `get`, `miss`, `wait`
  (the group's: read, not found, waiting in `Lock` with new readers kept out),
  `allow`/`allowed` and `report`/`reported` (the breaker's mutex, free or held
  while `onChange` runs), `send` (no lock). A scraper's `left` is the set of
  breakers its `Snapshot` has still to read, and `None` outside it. Breakers
  are numbers in the order they are made; whether one admits or trips is free
  here, as is whether an error is retried.
- **Assembly.** `stage` is how far `New` or `NewWithConfig` has got: `load`,
  `validate`, `level`, `telemetry`, `resilience`, `interceptors`, `built`, or
  `refused` with what its message names in `named`. Each stage is one
  action and returns the *first* failing check of its list, but `Load` all its
  problems. `named` holds the words of the message: variables, and where a
  message names a Go field instead (`PreStopDelay`, `FailureRatio`), that field.
  `FixAndRestart` is an operator, and external; one who knows which variable a
  field holds (`HeldBy`, `Meant`). `told` is auxiliary: which messages have been
  shown. Durations are in units of 10 ms, ratios
  in tenths, and a number is a value, `Junk` (does not parse) or `NaN` (does).
  A built service then assembles clients (`ClientChain`, `NewClient`) and, in
  the start marked `busy`, makes calls and serves scrapes by the actions of
  `Clients`.
- **Hops.** A node is one request, and `Child[n][a]` the request that attempt
  `a` of the outbound call made while serving `n` sends. `dl` is the deadline
  of a node's context, `left` what the header of a request leaves it, `due` the
  timer that ends what the node is doing. `Derive` is `Narrowed` and
  `WorthStarting`, the `Timeout` interceptor `Capped`. `Lose` and `Broken` are
  the network's.
- **ServerChain.** A request is a position in `Chain` and a direction: down,
  up with an answer, or unwinding with a panic. What stands after `next` in an
  interceptor is an action on the way up; what is deferred happens on the way
  up and in `Unwind`. `Admit`'s increment and its rollback are two steps, as
  they are two atomic operations. All optional layers are configured. An answer
  is an error of `Classify`, with the code that `connect.CodeOf` finds in it and
  the sentinels it wraps; `UserErrors` are those that handlers, authenticator and
  user interceptors return. `Metrics` records `CodeOf`; the caller sees `OnWire`,
  which is connect's, above the chain, and gives a bare context error its code.
  `answeredBy` is auxiliary, as are `panickedIn` and `measured`.
- **Lifecycle.** The goroutine of `Run` is a program counter; `Steps` is the
  sequencer's list and `NextStep` its loop. A request is `none`, `running` or
  `finished`; a span ends when it does. SIGTERM, SIGKILL, the load balancer and
  the requests are external. The hooks' and closers' durations are the ticks
  that pass while the program counter waits. A server may stop serving from the
  moment it listens; its error then waits in its channel for the select, which
  may prefer `ctx.Done()` and never read it. `failedAt` is auxiliary. The clock
  does not pass something `Run` could do at once (`DueNow`), since the delays
  in question are seconds and a process that is starved that long promises
  nothing.

## 3. Runs

Passing runs finish with every property true; a violation run exhibits a
disagreement between the code and what its own documentation says (section 5).

| Run | Configuration | Shows |
|---|---|---|
| `breaker` | `Breaker.cfg` | When no call outlasts the open period: the probe cap, no leaked slot, closing and re-opening on probes only, and that the ring and counters implement `BreakerSpec`. |
| `breaker_recovery` | `BreakerRecovery.cfg` | With calls of any length: once the dependency answers well for good, the breaker ends up closed for good. |
| `breaker_late_calls` | `BreakerLateCalls.cfg` | With calls that may outlast the open period, `ClosesOnProbes` fails. |
| `retry_budget` | `RetryBudget.cfg` | No retry is spent twice; the counters are exact to one bucket. |
| `resilient_client` | `ResilientClient.cfg` | Attempts, budget, deadline, reported cause and termination of calls, and that the breaker has counted what is retried (`RetriesAreCounted`), with failures, hangs, cancellation and panics. |
| `client_panic` | `ResilientClientPanic.cfg` | With panics below the interceptor, `NoSlotLeak` fails. |
| `assembly` | `Assembly.cfg` | Refusals lead to a service that works and none is shown twice (`NeverToldTwice`, `FixingConverges`, `StartedIsUsable`); its clients' callers share one breaker per key, retry only what is declared safe, and never wait for ever (`OneBreakerEach`, `FailsClosed`, `LookupsEnd`); the group implements `Memo`. |
| `hops` | `Hops.cfg` | No service works for a caller who has given up; the outermost call returns even without a deadline. |
| `server_chain` | `ServerChain.cfg` | Cap, slots, measurements (but those of bare context errors), aborts, the guard's warning and whom a caller's breaker and retrier will blame (`BlameIsRight`), with answers, rejections and panics in every layer of user code. |
| `server_chain_user_panic` | `ServerChainExtra.cfg` | `UserPanicsMeasured` fails. |
| `lifecycle` | `Lifecycle.cfg` | Readiness, drain, closing, flush, SIGKILL and termination. |
| `lifecycle_h2c` | `LifecycleH2C.cfg` | `DrainWaitsForAll` fails for plaintext HTTP/2. |

Bounds, and why they are enough:

- *Clocks* (`MaxNow`). `Breaker.cfg` runs to time 8: a full window of 4
  ticks, a trip, the open period of 3 and a half-open period after it, so every
  slot is reused after a full turn of the ring and both half-open outcomes
  happen with old calls still in flight. `BreakerRecovery.cfg` heals at 3 and
  has five ticks for the last trip, open period and probes. `RetryBudget.cfg`
  runs for one and a half windows. `Lifecycle.cfg` has two ticks of events and
  then exactly the longest shutdown there is (2 + 2 + slack), so that SIGKILL
  falls before, in and after each step for some grace period. `Hops` has no
  bound on its clock: every timer is finite.
- *Callers and requests*. Three callers at the breaker are one more than its
  two probe slots; two at the budget are what a race for the last retry takes;
  two at the client, one of which can trip the breaker on the other; three
  requests at a shedder of one slot, so that two rejections overlap; two
  callers and one scraper at the group, which is a writer, a reader and a
  holder of a breaker's mutex at once.
- *Deployments* (`Starts`). Every deployment with at most two odd variables out
  of 24, each with its absence, its wrong values and valid ones that interact;
  every subset of the signs of a mesh; configurations written in code, which
  skip the tags' rules; and one start whose calls are explored. A check relates
  at most three variables, and at most two of them have to differ from their
  defaults for it to fail; more odd variables only give `Load` a longer list.
  `MaxBreakers` is 6, well above the two breakers that the clients can come to
  have.
- *Hops*. A tree of three hops, two attempts on the first and second;
  deadlines of the outermost caller `None`, 3 and 5, shorter and longer than
  what the services allow themselves (4 and 5); `Latency = Buffer = 1`, the
  most that `HopsAssumption` admits.
- *Arrivals* (`MaxPerBucket`, `MaxRequests`, `MaxRetries`, `MaxCalls`,
  `LastCall`) are guards, never constraints, so liveness is not affected by
  states that are cut off. The volume gate is 2 and the ratio one half, so that
  traffic below, at and above both fits within four arrivals a bucket.
- *Errors of user code* (`UserErrors`): none, a bare `context.DeadlineExceeded`,
  and one with a code. The chain tells errors apart by whether they are nil and
  whether they have a code, no further; the theorems have any set.
- At the bound of a clock the model has a stuttering step (`Horizon`), so
  deadlock is checked in every run but two. In `hops` the call is over in the end. In
  `assembly` every start but the busy one stops with the service built; that
  nobody in the busy one waits for ever is `LookupsEnd`.
- Symmetry is used in runs without liveness properties only.

## 4. Fairness

- `Breaker!FairSpec`: an admitted call returns (every call runs under a context
  with a deadline, and `done` follows `next`), callers keep calling, the clock
  runs. Without callers a breaker does stay open: the code evaluates the open
  timeout only in `Allow`.
- `ResilientClient!ClientFairSpec`: what a call's goroutine does by itself, and
  the clock. *Nothing* obliges the dependency to answer: what ends a hung
  attempt is its context.
- `Clients!Scheduling`: strong fairness of what a caller or a scraper does
  without waiting for anything but locks. A goroutine that keeps finding a
  mutex free gets it: `sync.Mutex` hands over to the first waiter after 1 ms,
  and `sync.RWMutex` lets the waiting readers in when a writer leaves. That
  observers return is the contract of `client.go:54-56`. Nothing obliges anybody
  to make a call, the transport to answer, or a client to be built.
- `Assembly!Spec`: the above, and weak fairness of `StartingStep`: `New` runs
  on, and somebody reads each refusal and starts the process again.
- `Hops!Fairness`: timers fire, goroutines run, and a request under way arrives
  or is lost. No answer is assumed, nor that anybody notices a loss; a handler
  that ignores its context is outside the property.
- `Lifecycle!FairSpec`: `Run`'s goroutine (its hooks and closers return, at the
  latest when their context ends), the load balancer taking the instance out,
  the platform killing what has outlived its grace period, the clock. No
  request is obliged to finish, no server to fail, no signal to come. A hook or
  closer that ignores its context does block the process until SIGKILL; that is
  outside the property.

## 5. Where the code and its documentation disagree

1. **A late answer closes the breaker** (`breaker_late_calls`). `record`
   decrements `halfOpen` and increments `consecutiveOK` for any call that
   reports half-open, also for one admitted while closed. With the defaults (calls up to
   30 s, open for 5 s) successes from before the trip count as "successful
   probes" (`breaker.go:62-63`), and the negative counter lets more than
   `HalfOpenMaxCalls` probes in. The theorems of section 6 say exactly when
   this cannot happen: `CallTimeout < OpenDuration`.
2. **A panic below the client interceptor keeps its probe slot**
   (`client_panic`): `done` is not deferred (`interceptor/resilience.go:74-75`).
3. **The drain does not wait for plaintext HTTP/2** (`lifecycle_h2c`): the h2c
   handler's connections are hijacked, and `http.Server.Shutdown` does not
   track them.
4. **A user interceptor's panic is not caught by `Recovery`**
   (`server_chain_user_panic`): `Recovery` is inside it. The panic unwinds past
   metrics and logging to the panic guard; nothing is measured, and
   `rpc.server.active_requests` stays one too high.

Two more need only one constant changed to be seen:

5. **`RETRY_ENABLED=false` turns the deadline budget off**, which
   `service-mesh.md` says to keep: with `RetryEnabled = FALSE` in
   `ResilientClient.cfg`, `DeadlineKept` fails.
6. **Bucket index and bucket start round from different zeros**: with
   `EpochShift = 1` in `RetryBudget.cfg`, `WindowPrecise` fails. The default
   width is unaffected. It errs on one side: events are missed, and none is
   counted twice (`WindowNeverOvercounts`).

And three that the models show by an exception that a property has to make:

7. **A bare context error is measured as "unknown"**: a handler that returns
   `ctx.Err()` is answered `deadline_exceeded` or `canceled`, since connect codes
   it above the chain, but `Metrics` asks `connect.CodeOf` before that
   (`metrics.go:85-90`). `chain.go:43-61` orders the layers so that telemetry sees
   what the caller is told. `OutcomesMeasured` fails without its second disjunct.
8. **Refusals do not name the variable, nor come all at once.** `lifecycle.md:24-25`
   says that "Validation errors name the variable, the value and the
   constraint". `Load`'s do; those of `Timing.Validate` (`shutdown.go:131`, 134,
   139-142), of breaker, retry budget and shedder (`service.go:186`, 195, 205) and of
   `telemetry.Init` name Go fields, which is why `TypeOK` of `Assembly` speaks of
   `Words` and not of `Variables`. And `lifecycle.md:31-33` says that "every problem
   is reported at once"; that is so within `Load`, but `Config.Validate` and
   everything after it return at their first error (`service/config.go:74-83`,
   86-125): with `ENVIRONMENT` and `OTEL_EXPORTER_OTLP_ENDPOINT` unset, the second is
   reported on the second start. What does hold is `NeverToldTwice`.
9. **A cut backoff, or a rejection, hides the cause.** `retry.go:243-246` and
   254-262 return the last attempt's error because it "says why the call was
   failing". When the context ends during the backoff (`retry.go:247-249`) or the
   breaker rejects the next attempt, the caller gets the context's error or
   `ErrBreakerOpen` alone. `ReportsTheCause` excepts both by name.

Noticed on reading:

- A main server that stops serving by itself stays routed until readiness,
  which `Run` then fails, has propagated: requests are refused that long
  (`NoRefusedTraffic` bounds it).
- When a server has failed and a signal has come, the select may take either
  (`service.go:364-377`); with the signal, the server's error is lost and `Run` may
  return nil.
- A `NaN` passes `gte`, `lte` and every `Validate`:
  `BREAKER_FAILURE_RATIO=NaN` starts a breaker that never trips,
  `RETRY_BUDGET=NaN` a budget that never allows. `StartedIsUsable` excepts the
  first by name.
- `REQUEST_TIMEOUT=60ms` with the default buffer and minimum starts a service
  none of whose handlers can make an outbound call: `service/config.go:119`
  compares without the buffer that `Derive` subtracts.
- The header that marks a retry "so the callee can decline to retry again"
  (`interceptor/resilience.go:55-60`) is read nowhere; retries of several
  hops multiply.
- A number of buckets that does not divide the window leaves a ring shorter than
  the window (`classify.go:184`, `breaker.go:158` drop the remainder): results
  are forgotten up to one bucket early, and a bucket may be recycled that the
  window still wants. `BreakerKeepsItsPromise` assumes that it divides.
- `OnMissing`, "called once per procedure" (`deadline.go:31`), is called on every
  `Derive` without a deadline.
- The service passes no queue latency to the shedder (`service/service.go:241`),
  so the latency limit never rejects, and with the default cap of 0 nothing is
  shed.
- A failure in startup returns without the telemetry flush
  (`service.go:332-338`), so what `service.go:120-121` wants traced is not exported.
- Interceptors are `UnaryInterceptorFunc`s, so streaming procedures run without
  any of them.

## 6. Proofs

Every theorem below holds for all values of the constants that satisfy the
named assumption of its module. Each module of proofs begins with its inductive
invariant.

**`SlidingWindowProofs`** has no theorems of its own. A breaker's window and a
budget's counter are sums over a ring, and the library defines a sum by
recursion over finite sets. `SubsetInduction` is induction over the subsets of a
finite set, with a *set* of good subsets in place of the operator that the
library's induction theorems want. From it come existence and uniqueness of the
recursive function (`SumsOnExists`, `SumsOnUnique`), then what sums do
(`SumBump`: one summand grows; `SumSupport`: zeros do not count; `SumFamily`:
sums of sums). Of the ring: times with one slot and different starts lie a whole
turn apart (`WholeTurn`, which needs `EpochShift = 0`).

**`RetryBudgetProofs`**, for any number of callers, any ratio, floor, window and
number of buckets (`BudgetAssumption`, `WindowAssumption`):

| Theorem | States | Assumes besides |
|---|---|---|
| `TypeCorrect` | `Spec => []TypeOK`, mutual exclusion in `Allow` included | |
| `WindowIsPrecise` | `Spec => []WindowPrecise` | `EpochShift = 0` |
| `WindowNeverOvercounts` | the upper half of it | |
| `BudgetNeverOverspent` | `Spec => NeverOverspent` | |
| `RetriesAreCapped` | `Spec => []RetriesFollowTraffic` | `EpochShift = 0` |

`RingInv` says what a ring tells of the log (`Tells`): each slot holds the events of
exactly one bucket's time, a bucket that has begun; and whatever happened is in
its slot, or the slot has gone on to a later bucket. With that, a `Sum` is
the sum of the log over the ticks it holds (`SumIsHeld`), and what it misses
is a whole turn old. `BudgetNeverOverspent` is where the mutex matters: while a
caller decides, the retries in the window are no more than it has read
(`UsedInv`), because nobody else charges and the clock only takes away.

`RetriesFollowTraffic` is the package's purpose (`budget.go:1-8`), said of what
was sent instead of the counters, and over stretches of time instead of an
instant: the retries of any stretch that the ring covers, all but the last
one, are below what ratio and floor allow for the requests of *some* window that
ended no later than the stretch. Not of the same window: `Allow` reads its two
counters one after the other, and a goroutine that is held up in between
spends what an earlier window allowed (`TotalInv`). No run has it as a property;
with the constants of `RetryBudget.cfg` TLC finds that it holds, and that it
fails without the allowance of one.

**`BreakerProofs`**, for any number of callers and any configuration that satisfies
`BreakerAssumption` (types, and `ValidBreaker`, which is `Config.Validate`) and
`WindowAssumption` (a bucket is at least one tick wide):

| Theorem | States | Assumes besides |
|---|---|---|
| `TypeCorrect` | `Spec => []TypeOK` | |
| `SlotsNeverLeak` | `Spec => []NoSlotLeak` | |
| `ProbesCapped` | `Spec => []ProbeCap` | `CallTimeout < OpenDuration` |
| `ClosesOnlyOnProbes` | `Spec => ClosesOnProbes` | `CallTimeout < OpenDuration` |
| `ReopensOnlyOnProbe` | `Spec => ReopensOnProbe` | `CallTimeout < OpenDuration` |
| `BreakerKeepsItsPromise` | `Spec => ImplementsBreakerSpec` | that, `EpochShift = 0` and `WindowLen = NumBuckets * Width` |

Each is first proved of `AnySpec`, in which callers may report any error at all,
so that it holds of whoever drives a breaker by its own actions; `Spec` is one
such driver, and the client is another.

`NoSlotLeak` is not inductive: it says nothing while probes are in flight. The
invariant behind it (`SlotInv`) relates the counter to the set it stands for:
half-open, `halfOpen` is at most the number of this period's probes in flight,
since each of these took a slot and every other report only gives one back.
This holds however late calls are, so `SlotsNeverLeak` needs no condition.

The three after it need the converse, that nobody *but* a probe is in flight when
the breaker is half-open. `ProbeInv` says so, and carries what makes it
inductive: while open, every call in flight was admitted no later than the trip,
so by the time the open period is over each of them has passed its deadline
and returned; then `halfOpen` *equals* the number of probes, and
`consecutiveOK` the good ones.

The refinement maps each action to one of `BreakerSpec`'s. The part about the ring
rests on `BucketInv` (every bucket used belongs to a time that has passed):
an expired bucket holds nothing the window still wants (`ExpiredIsOld`), so
recycling it forgets nothing, and the totals over ring and log agree, so both
trip on the same results. The part about the counters is `ProbeInv`.

The same module holds the two predicates of `Classify` to the documented table,
for every code: `BreakerCountsTheTable`, `RetriedErrorsAreCounted`,
`OwnErrorsAreInert`. They quantify over errors only, so no run has them as
properties; what they mean for a call is `RetriesAreCounted` and `BlameIsRight`.

**`ClientProofs`**, for any number of callers, any valid configuration of breaker
and retrier, any deadlines and dependency, and a budget that may refuse at any
time (`ClientAssumption`: types, and `ValidRetry`, which is `Config.Validate`):

| Theorem | States | Assumes besides |
|---|---|---|
| `ClientTypeCorrect` | `ClientSpec => []ClientTypeOK` | |
| `CallsAreBounded` | `ClientSpec => []AttemptsBounded` | |
| `NoRetryForNothing` | `ClientSpec => []RetriesFollowSends` | |
| `HopKeepsItsBuffer` | `ClientSpec => []DeadlineKept` | `RetryEnabled` |
| `NoHiddenRetries` | `ClientSpec => []RetriesAreCounted` | |
| `CauseIsReported` | `ClientSpec => ReportsTheCause` | |
| `CallsWindDown` | every step of a call brings it nearer to its end | |
| `DeadlinesEndCalls` | `ClientSpec => []DeadlinesBoundCalls` | no deadline above `CallTimeout` |
| `ClientLosesNoSlot` | `ClientSpec => []NoSlotLeak` | `~MayPanic` |
| `ClientProbesDecide` | `ProbeCap`, `ClosesOnProbes`, `ReopensOnProbe` | `~MayPanic`, `CallTimeout < OpenDuration` |
| `ClientKeepsBreakersPromise` | `ClientSpec => ImplementsBreakerSpec` | `~MayPanic`, and as `BreakerKeepsItsPromise` |

The bound on what is sent is not inductive, since `sent` is not what the loop
tests. `LoopInv` ties the loop's `attempt` to `sent` and to `charged` at each
label of the program counter (`InStep`): `attempt` is one behind `sent` while an
attempt is on the wire, one ahead of `charged` while the budget is asked, and
equal to both elsewhere. A rejection by the breaker would break it, by going
round with nothing sent; that it is never retryable is the lemma
`RejectionEndsTheLoop`. That the condition of `HopKeepsItsBuffer` is needed is
disagreement 5 above.

`CauseIsReported` takes `WhyInv`: once the loop has gone round there is an error to
report, and it is neither the budget's own nor the breaker's, so `DeriveRefused`,
`RetryRefused` and the loop's bound find the cause. The two ways in which it is
hidden are in the statement (disagreement 9).
`CallsWindDown` counts the steps a call has left (`StepsLeft`), at most
`5 * (MaxAttempts + 1)`, and shows that each takes at least one off: it is the
safety half of `EveryCallReturns`, whose other half is fairness.

The last three say that the composition keeps the breaker's properties: without
panics every step of the client is a step of `AnySpec` or a stutter
(`ClientDrivesBreaker`). That `~MayPanic` is needed is disagreement 2.
`DeadlinesEndCalls` discharges what `Breaker` takes for granted: its clock waits
for calls at `CallTimeout`, while a client's calls end with the deadlines of their
attempts. `OnTimeInv` shows that these come first.

**`AssemblyProofs`**, on the clients, for any callers, scrapers, clients and
procedures, whatever the descriptors say (`ClientsAssumption`):

| Theorem | States |
|---|---|
| `ClientsTypeCorrect` | `ClientsSpec => []ClientsTypeOK` |
| `BreakersAreShared` | `ClientsSpec => []OneBreakerEach` |
| `RetriesFailClosed` | `ClientsSpec => []FailsClosed` |
| `LookupsAreAtomic` | `ClientsSpec => GroupImplementsMemo` |

`OneBreakerEach` compares the breakers of two callers. `ClientsInv` compares each
of them with the cache instead: a caller's breaker is the one its group keeps
*now* for its key (`CallOK`), and no breaker is kept for two keys (`CachesOK`).
The step that matters is `Create`, which asks the map again under the write
lock. `LookupsAreAtomic` is a refinement: `MoveRefines` and `LookupRefines`
say what a step that changes only one caller's place is to `Memo`, and
`StepRefines` puts every action down to one of them or to a stutter.

And on assembly, under `StartsAssumption` and `RepairAssumption` (an
operator who sets variables gives each a value that breaks no rule, and gives
them values that go together):

| Theorem | States |
|---|---|
| `TypeCorrect` | `Spec => []TypeOK` |
| `ServiceClients` | `Spec => ClientsSpec`: the clients of a service are those of `Clients` |
| `ServiceCallsAreSafe` | hence `OneBreakerEach`, `FailsClosed` and `GroupImplementsMemo` in every service |
| `EveryRefusalIsNew` | `Spec => NeverToldTwice`, for any number of wrong variables |
| `WhatStartsIsUsable` | `Spec => []StartedIsUsable`, for every environment |

`ToldInv`: what a message named has the value an operator gave it, or waits for
the restart; and once `Load` has reported a list, whatever breaks a rule is on
it. No stage changes the environment, a repaired variable is only ever set to
its repair again, and among repaired variables no check fails (`Repaired`,
which rests on `RepairAssumption`); so whatever is refused names something that
was not repaired, and its message is new (`RefusesAnew`). It would not do to
compare the environment with what a check wants: a later repair may bring two
values together, which is why repairs have to go with each other. `StartInv`
follows one start through the stages: what the environment holds (`EnvInv`),
which checks each stage has behind it (`CheckedInv`), which parts it has built
from that (`PartsInv`), and that a service which runs has passed all of them
(`RunningInv`). The work is to show that the checks made are enough for what a
client of the service asks when it is first built, and for the shutdown.

**`HopsProofs`**, for every tree of requests, all deadlines, timeouts and
bounds (`HopsAssumption`: `Latency <= Buffer`; in the model, handlers return by the end
of their context):

| Theorem | States |
|---|---|
| `TypeCorrect` | `Spec => []TypeOK` |
| `NobodyWorksInVain` | `Spec => []NoWorkForTheDeparted` |

`HopsInv` follows a deadline over the wire: while a request is under way, the
latest time it may arrive plus what its header leaves it is no later than its
sender's deadline (`Within`), which is where the buffer pays for the latency;
when it arrives, its context's deadline is. `OnTime` says that nobody is still
at work after his own timer, and `SentOnce` that a request has one sender, whose
context it inherits.

**`LifecycleProofs`**, for any number of requests, hooks and dependencies and any
timing that `LifecycleAssumption` admits:

| Theorem | States |
|---|---|
| `TypeCorrect` | `Spec => []TypeOK` |
| `TrafficNotRefused` | `Spec => []NoRefusedTraffic` |
| `DependenciesOutliveRequests` | `Spec => []DepsOutliveRequests` |
| `CleanExitLosesNothing` | `Spec => []CleanExitIsComplete` |
| `DrainNotCutShort` | `Spec => []NotKilledMidDrain` |

`LifecycleInv` has four parts besides the types. `PhaseInv` says which step of
the sequence goes with which state of servers, routes and dependencies.
`DrainInv` says what a drain leaves behind: without an error of its own, no
tracked request runs once the main server is closed, and a clean exit has
exported their spans. `ClockInv` does the arithmetic of the timings: the wait
for the load balancer begins at the very instant of the shutdown, and
`Propagation < PreStopDelay` is over before it ends; the drain begins no later
than `shutdownAt + PreStopDelay` and ends within `DrainTimeout` of that, which
`Timing.Validate` puts before the grace period's end. `FailureInv` is about a
main server that stopped serving by itself, which is the second half of
`NoRefusedTraffic`: time does not pass between the failure and the end of
readiness, or readiness had ended before, so what is still routed fails for no
longer than `Propagation`.

**`ServerChainProofs`**, for any number of requests, any cap, any errors of the
service's own code and any limits of the cardinality guard (`ChainAssumption`):

| Theorem | States |
|---|---|
| `TypeCorrect` | `Spec => []TypeOK` |
| `FloodStops` | `Spec => []FloodStopsAtShed` |
| `SlotsAreReturned` | `Spec => []SlotsReturned` |
| `ShedAtCap` | `Spec => ShedOnlyAtCap` |
| `OutcomesAreMeasured` | `Spec => []OutcomesMeasured` |
| `PanicsAreAnswered` | `Spec => []OnlyAbortsEscape` |
| `BlameGoesRight` | `Spec => []BlameIsRight` |
| `WarnedOnce` | `Spec => []WarnsOnce` |

`ChainInv` has a part for each request on its own (`RequestInv`: which answers
and measurements go with which place and direction, and which layer a bare
context error can come from), a part for the counters, and one for the guard.
`CountInv` makes the shedder's atomic counter the number of requests that hold
a slot plus those about to roll one back, and the gauge the number of those
between the two halves of `Metrics`; since a step moves one request only,
`OneMayMove` counts the members of such a set after any step.

Only model-checked: liveness (`Recovers`, `EveryCallReturns`,
`ShutdownTerminates`, `LookupsEnd`, `FixingConverges`, `RootReturns`). Fairness and
`ENABLED` are out of the prover's reach. Every invariant and every action property
of a passing run, and both refinements, are theorems.

## 7. Not modelled

- The test harness, the examples and the generated code, which are not part of
  the framework's behaviour; `examples/twohops` is the shape of `Hops`.
- What configures a library and decides nothing: HTTP transports and the
  servers' timeouts, exporters, the logger's handler, `service/options.go`.
- What only reads: accessors, `Stats`, `Counts`, `State` outside `Snapshot`,
  `Health`'s local checks, liveness, and the other admin endpoints.
- `Reset` of the counters, which nothing calls; the shedder's statistics and
  its latency limit, which the service gives nothing to go by.
- What interceptors compute rather than decide: principals, public procedures,
  log lines, attributes.
- The floating-point comparison of ratios (exact fractions here), and overflow
  of the backoff's shift, which the service's limit of attempts excludes.
- Which errors are retried over several hops: in `Hops` any may be.

## 8. Plan

1. Done: every part of the framework that keeps state or decides has its
   module; theorems about the classification, the breaker, the client, the
   clients' caches, assembly, hops, the server chain and the lifecycle.
2. Model, if extended: the deadline that `Timeout` sets inside `ServerChain`,
   so that what a request holds is held no longer than its context; an abstract
   specification of the lifecycle (a process that serves, drains, and ends) and
   one of the shedder (a semaphore).
3. Proofs: the safety halves of the other liveness properties, in the manner of
   `CallsWindDown`: a measure that each step of a shutdown (`Lifecycle`), of a
   request and its retries (`Hops`) and of a call on its locks (`Clients`) takes
   down; that callers and scrapers never all wait for locks, by their order;
   and the abstract specifications of item 2.
