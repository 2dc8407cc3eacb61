------------------------------- MODULE Lifecycle -------------------------------
(*****************************************************************************)
(* The life of one service process: Service.Run and Service.Shutdown         *)
(* (src/v1/service/service.go:315-472), the Sequencer and the timings        *)
(* (src/v1/lifecycle/shutdown.go), readiness (src/v1/lifecycle/health.go)    *)
(* and the drain of an HTTP server (src/v1/transport/transport.go:164-175);  *)
(* around it the platform's SIGTERM and SIGKILL, a load balancer that        *)
(* follows /readyz with a delay, and requests in flight.                     *)
(*                                                                           *)
(* The goroutine of Run is one program counter; the clock does not move past *)
(* something that goroutine has to do, as a process that is not starved does *)
(* it at once.                                                               *)
(*****************************************************************************)
EXTENDS Integers, Sequences

CONSTANTS
  Requests,           \* the requests clients may send
  H2C,                \* those of them that travel over plaintext HTTP/2
  NumHooks,           \* startup hooks
  NumDeps,            \* dependencies, closed in reverse order
  PreStopDelay, DrainTimeout,  \* cfg.Timing()
  GracePeriods,       \* what GracePeriod may be; 0 is "unknown"
  Slack,              \* the 10s that Shutdown adds to Timing.Total
  AdminDrainTimeout,  \* 5s
  FlushTimeout,       \* 5s
  Propagation,        \* external: how late the load balancer follows readiness
  LastEvent,          \* bound: the last hook, signal or failure
  MaxNow              \* bound: the clock stops here

ASSUME LifecycleAssumption ==
  /\ H2C \subseteq Requests
  /\ {NumHooks, NumDeps, PreStopDelay, Slack, AdminDrainTimeout, FlushTimeout,
      Propagation, LastEvent, MaxNow} \subseteq Nat
  /\ DrainTimeout \in Nat \ {0}
  /\ GracePeriods \subseteq Nat
  /\ Propagation < PreStopDelay

VARIABLES
  now,
  grace,       \* cfg.GracePeriod
  pc,          \* where Run is
  hooksRun,
  ctxDone,     \* the context of NotifyContext is cancelled
  ready,       \* health.ready
  admin, main, \* the two servers
  step,        \* Sequencer.Run's position in steps
  stepStart,   \* when this step began
  runEnd,      \* the deadline of the whole sequence
  openDeps,    \* dependencies not closed yet: 1 .. openDeps
  shutdownAt,  \* auxiliary: when Shutdown was called
  errs,        \* names of the steps that returned an error
  reqs,        \* external: what became of each request
  routed,      \* external: is this instance in the load balancer's rotation?
  unreadySince,\* external: when readiness last failed
  failedAt,    \* auxiliary: when the main server stopped serving by itself
  sigAt,       \* external: when SIGTERM arrived
  ended,       \* spans that have ended: of requests, and of the startup
  exported     \* spans that have left the process

vars == <<now, grace, pc, hooksRun, ctxDone, ready, admin, main, step,
          stepStart, runEnd, openDeps, shutdownAt, errs, reqs, routed,
          unreadySince, failedAt, sigAt, ended, exported>>

process == <<grace, pc, hooksRun, ctxDone, ready, admin, main, step, stepStart,
             runEnd, openDeps, shutdownAt, errs>>
spans == <<ended, exported>>
outside == <<reqs, routed, unreadySince, failedAt, sigAt>>

Never == -1
Alive == pc \notin {"exited", "killed"}
Running == {r \in Requests : reqs[r] = "running"}

\* The requests http.Server knows of.  The h2c handler hijacks its connections,
\* and Shutdown neither closes nor waits for a hijacked connection.
Tracked == Requests \ H2C

-------------------------------------------------------------------------------
(* Timing. *)

\* A mutated form: a grace period that is used up to the last tick passes.
TimingFitsExactly(g) == g > 0 => PreStopDelay + DrainTimeout <= g

\* Timing.Validate: New refuses anything else.
TimingFits(g) == g > 0 => PreStopDelay + DrainTimeout < g

\* context.WithTimeout inside a context with a deadline of its own.
Within(timeout) ==
  IF stepStart + timeout < runEnd THEN stepStart + timeout ELSE runEnd

\* A mutated form: the drain waits for as long as the clients please.
DrainDeadlineNone == MaxNow + 1

DrainDeadline == Within(DrainTimeout)

-------------------------------------------------------------------------------
(* Startup: Run up to its select. *)

\* Run returns an error before it has got anywhere near Shutdown.
FailStartup == pc' = "exited" /\ errs' = {"startup"}

StartAdmin ==
  /\ pc = "start"
  /\ \/ /\ admin' = "up" /\ pc' = "hooks" /\ UNCHANGED errs
     \/ FailStartup /\ UNCHANGED admin
  /\ UNCHANGED <<now, grace, hooksRun, ctxDone, ready, main, step, stepStart,
                 runEnd, openDeps, shutdownAt, outside, spans>>

\* A hook takes its time, and ends a span.
RunHook ==
  /\ pc = "hooks" /\ hooksRun < NumHooks
  /\ \/ hooksRun' = hooksRun + 1 /\ UNCHANGED <<pc, errs>>
     \/ FailStartup /\ UNCHANGED hooksRun
  /\ ended' = ended \cup {"startup"}
  /\ UNCHANGED <<now, grace, ctxDone, ready, admin, main, step, stepStart,
                 runEnd, openDeps, shutdownAt, outside, exported>>

StartMain ==
  /\ pc = "hooks" /\ hooksRun = NumHooks
  /\ \/ main' = "up" /\ pc' = "serving" /\ UNCHANGED errs
     \/ FailStartup /\ UNCHANGED main
  /\ UNCHANGED <<now, grace, hooksRun, ctxDone, ready, admin, step, stepStart,
                 runEnd, openDeps, shutdownAt, outside, spans>>

\* Readiness flips even if the signal has arrived in the meantime.
SetReady ==
  /\ pc = "serving"
  /\ ready' = TRUE
  /\ pc' = "block"
  /\ UNCHANGED <<now, grace, hooksRun, ctxDone, admin, main, step, stepStart,
                 runEnd, openDeps, shutdownAt, errs, outside, spans>>

\* The select has a case that is ready: a signal, or the error that Serve left
\* in its channel, however early it did.
Woken == ctxDone \/ main = "failed" \/ admin = "failed"

\* Shutdown, and Sequencer.Run: the caller's context is detached from its
\* cancellation, and given a deadline of its own.  Of two cases that are ready
\* the select takes any: with ctx.Done() the error of Serve is never read.
BeginShutdown ==
  /\ pc = "block" /\ Woken
  /\ pc' = "shutdown"
  /\ step' = 1
  /\ stepStart' = now
  /\ shutdownAt' = now
  /\ runEnd' = now + PreStopDelay + DrainTimeout + Slack
  /\ \/ ctxDone /\ UNCHANGED errs
     \/ "failed" \in {main, admin} /\ errs' = {"serve"}
  /\ UNCHANGED <<now, grace, hooksRun, ctxDone, ready, admin, main, openDeps,
                 outside, spans>>

-------------------------------------------------------------------------------
(* Shutdown: the steps, in the order of the sequencer. *)

\* Mutated forms: telemetry first; dependencies before the drain.
StepsFlushFirst ==
  <<"fail readiness", "flush telemetry", "wait for endpoint removal",
    "drain main", "close dependencies", "drain admin">>
StepsDepsFirst ==
  <<"fail readiness", "wait for endpoint removal", "close dependencies",
    "drain main", "drain admin", "flush telemetry">>

Steps ==
  <<"fail readiness", "wait for endpoint removal", "drain main",
    "close dependencies", "drain admin", "flush telemetry">>

InStep(name) == pc = "shutdown" /\ Steps[step] = name

\* The step returns; all that can fail say ContinueOnError.
NextStep(failed) ==
  /\ stepStart' = now
  /\ errs' = IF failed THEN errs \cup {Steps[step]} ELSE errs
  /\ IF step < Len(Steps)
     THEN step' = step + 1 /\ UNCHANGED pc
     ELSE pc' = "exited" /\ UNCHANGED step
  /\ UNCHANGED <<now, grace, hooksRun, ctxDone, runEnd>>

FailReadiness ==
  /\ InStep("fail readiness")
  /\ ready' = FALSE
  /\ unreadySince' = now
  /\ NextStep(FALSE)
  /\ UNCHANGED <<admin, main, openDeps, shutdownAt, reqs, routed, failedAt,
                 sigAt, spans>>

\* A mutated form: the sequence runs under the context the signal cancelled.
DetachedNot == ctxDone

\* base.Done(): nothing but its own deadline ends the sequence's context.
BaseDone == now >= runEnd

PreStopOver == now >= stepStart + PreStopDelay \/ BaseDone

PreStop ==
  /\ InStep("wait for endpoint removal") /\ PreStopOver
  /\ NextStep(FALSE)
  /\ UNCHANGED <<ready, admin, main, openDeps, shutdownAt, outside, spans>>

\* http.Server.Shutdown closes the listener and waits.
BeginDrain ==
  /\ InStep("drain main") /\ main \in {"up", "failed"}
  /\ main' = "draining"
  /\ UNCHANGED <<now, grace, pc, hooksRun, ctxDone, ready, admin, step,
                 stepStart, runEnd, openDeps, shutdownAt, errs, outside,
                 spans>>

DrainDone ==
  /\ InStep("drain main") /\ main = "draining"
  /\ Running \cap Tracked = {}
  /\ main' = "closed"
  /\ NextStep(FALSE)
  /\ UNCHANGED <<ready, admin, openDeps, shutdownAt, outside, spans>>

\* The drain times out, and Close cuts the connections.  Their handlers are
\* goroutines of their own and run on.
DrainTimedOut ==
  /\ InStep("drain main") /\ main = "draining"
  /\ Running \cap Tracked # {} /\ now >= DrainDeadline
  /\ main' = "closed"
  /\ NextStep(TRUE)
  /\ UNCHANGED <<ready, admin, openDeps, shutdownAt, outside, spans>>

\* A mutated form: the loop goes one past the first dependency.
DepsLeftOffByOne == openDeps >= 0

DepsLeft == openDeps > 0

\* One dependency after the other, last one first; an error is kept, and the
\* next one is closed all the same.
CloseDependency ==
  /\ InStep("close dependencies") /\ DepsLeft
  /\ openDeps' = openDeps - 1
  /\ errs' \in {errs, errs \cup {Steps[step]}}
  /\ UNCHANGED <<now, grace, pc, hooksRun, ctxDone, ready, admin, main, step,
                 stepStart, runEnd, shutdownAt, outside, spans>>

DependenciesClosed ==
  /\ InStep("close dependencies") /\ ~DepsLeft
  /\ NextStep(FALSE)
  /\ UNCHANGED <<ready, admin, main, openDeps, shutdownAt, outside, spans>>

\* A scrape or a profile may hold the admin server up to its timeout.
DrainAdmin ==
  /\ InStep("drain admin")
  /\ admin' = "closed"
  /\ NextStep(now >= Within(AdminDrainTimeout))
  /\ UNCHANGED <<ready, main, openDeps, shutdownAt, outside, spans>>

\* The exporter may fail, and does when no time is left for it.
Flush ==
  /\ InStep("flush telemetry")
  /\ \/ /\ now < Within(FlushTimeout)
        /\ exported' = exported \cup ended
        /\ NextStep(FALSE)
     \/ NextStep(TRUE) /\ UNCHANGED exported
  /\ UNCHANGED <<ready, admin, main, openDeps, shutdownAt, outside, ended>>

-------------------------------------------------------------------------------
(* Around the process. *)

\* A server stops serving by itself.  Its goroutine leaves the error in a
\* buffered channel, which nobody reads before the select or after it.
ServerFails ==
  /\ Alive /\ now <= LastEvent
  /\ \/ /\ main = "up" /\ main' = "failed"
        /\ failedAt' = now
        /\ UNCHANGED admin
     \/ admin = "up" /\ admin' = "failed" /\ UNCHANGED <<main, failedAt>>
  /\ UNCHANGED <<now, grace, pc, hooksRun, ctxDone, ready, step, stepStart,
                 runEnd, openDeps, shutdownAt, errs, reqs, routed,
                 unreadySince, sigAt, spans>>

SigTerm ==
  /\ Alive /\ sigAt = Never /\ now <= LastEvent
  /\ sigAt' = now
  /\ ctxDone' = TRUE
  /\ UNCHANGED <<now, grace, pc, hooksRun, ready, admin, main, step, stepStart,
                 runEnd, openDeps, shutdownAt, errs, reqs, routed,
                 unreadySince, failedAt, spans>>

SigKill ==
  /\ Alive /\ sigAt # Never /\ grace > 0 /\ now >= sigAt + grace
  /\ pc' = "killed"
  /\ UNCHANGED <<now, grace, hooksRun, ctxDone, ready, admin, main, step,
                 stepStart, runEnd, openDeps, shutdownAt, errs, outside,
                 spans>>

\* The load balancer probes /readyz, on the admin server; a probe that finds
\* readiness attracts traffic, the signal notwithstanding.
Route ==
  /\ Alive /\ ~routed /\ ready /\ admin = "up"
  /\ routed' = TRUE
  /\ UNCHANGED <<now, process, reqs, unreadySince, failedAt, sigAt, spans>>

\* It may take a terminating instance out as well, whatever /readyz says.
Unroute ==
  /\ routed /\ (~ready \/ admin # "up" \/ sigAt # Never \/ ~Alive)
  /\ routed' = FALSE
  /\ UNCHANGED <<now, process, reqs, unreadySince, failedAt, sigAt, spans>>

Arrive(r) ==
  /\ Alive /\ routed /\ main = "up" /\ reqs[r] = "none"
  /\ reqs' = [reqs EXCEPT ![r] = "running"]
  /\ UNCHANGED <<now, process, routed, unreadySince, failedAt, sigAt, spans>>

\* Answered, or not: either way its span ends.
Finish(r) ==
  /\ Alive /\ reqs[r] = "running"
  /\ reqs' = [reqs EXCEPT ![r] = "finished"]
  /\ ended' = ended \cup {r}
  /\ UNCHANGED <<now, process, routed, unreadySince, failedAt, sigAt, exported>>

\* What must happen before time passes: the goroutine of Run does what it can
\* do without waiting, and every wait with a timeout ends on time.
DueNow ==
  \/ pc \in {"start", "serving"}
  \/ pc = "hooks" /\ (hooksRun = NumHooks \/ now >= LastEvent)
  \/ pc = "block" /\ Woken
  \/ InStep("fail readiness")
  \/ InStep("wait for endpoint removal") /\ PreStopOver
  \/ /\ InStep("drain main")
     /\ \/ main # "draining"
        \/ now >= DrainDeadline
        \/ Running \cap Tracked = {}
  \/ InStep("close dependencies") /\ (~DepsLeft \/ now >= runEnd)
  \/ InStep("drain admin") /\ now >= Within(AdminDrainTimeout)
  \/ InStep("flush telemetry") /\ now >= Within(FlushTimeout)
  \/ Alive /\ sigAt # Never /\ grace > 0 /\ now >= sigAt + grace
  \/ routed /\ ~ready /\ now >= unreadySince + Propagation

Tick ==
  /\ now < MaxNow /\ ~DueNow
  /\ now' = now + 1
  /\ UNCHANGED <<process, outside, spans>>

\* The bound of the clock is where the model ends.
Horizon == now = MaxNow /\ UNCHANGED vars

Init ==
  /\ now = 0
  /\ grace \in {g \in GracePeriods : TimingFits(g)}
  /\ pc = "start"
  /\ hooksRun = 0
  /\ ctxDone = FALSE
  /\ ready = FALSE
  /\ admin = "down" /\ main = "down"
  /\ step = 0 /\ stepStart = 0 /\ runEnd = 0 /\ shutdownAt = 0
  /\ openDeps = NumDeps
  /\ errs = {}
  /\ reqs = [r \in Requests |-> "none"]
  /\ routed = FALSE
  /\ unreadySince = 0
  /\ failedAt = Never
  /\ sigAt = Never
  /\ ended = {} /\ exported = {}

Startup == StartAdmin \/ RunHook \/ StartMain \/ SetReady

Shutdown ==
  \/ FailReadiness \/ PreStop \/ BeginDrain \/ DrainDone \/ DrainTimedOut
  \/ CloseDependency \/ DependenciesClosed \/ DrainAdmin \/ Flush

Platform ==
  \/ ServerFails \/ SigTerm \/ SigKill \/ Route \/ Unroute
  \/ \E r \in Requests : Arrive(r) \/ Finish(r)

Next == Startup \/ BeginShutdown \/ Shutdown \/ Platform \/ Tick \/ Horizon

Spec == Init /\ [][Next]_vars

\* The goroutine of Run is scheduled, hooks and closers return (a closer when
\* its context ends), the load balancer probes, the platform kills what has
\* outlived its grace period.  No request need ever finish.
FairSpec ==
  /\ Spec
  /\ WF_vars(Startup \/ BeginShutdown \/ Shutdown)
  /\ WF_vars(Unroute)
  /\ WF_vars(SigKill)
  /\ WF_vars(Tick)

-------------------------------------------------------------------------------
(* Properties. *)

\* Type invariant; a dependency is closed by Shutdown only.
TypeOK ==
  /\ now \in 0 .. MaxNow
  /\ grace \in GracePeriods
  /\ pc \in {"start", "hooks", "serving", "block", "shutdown", "exited",
             "killed"}
  /\ hooksRun \in 0 .. NumHooks
  /\ {ctxDone, ready, routed} \subseteq BOOLEAN
  /\ admin \in {"down", "up", "failed", "closed"}
  /\ main \in {"down", "up", "failed", "draining", "closed"}
  /\ step \in 0 .. Len(Steps)
  /\ {stepStart, runEnd, shutdownAt, unreadySince} \subseteq Nat
  /\ openDeps \in 0 .. NumDeps /\ (openDeps < NumDeps => step > 0)
  /\ errs \subseteq {"startup", "serve"} \cup {Steps[i] : i \in DOMAIN Steps}
  /\ reqs \in [Requests -> {"none", "running", "finished"}]
  /\ {sigAt, failedAt} \subseteq Nat \cup {Never}
  /\ exported \subseteq ended /\ ended \subseteq Requests \cup {"startup"}

\* The sequence itself refuses no traffic: while the load balancer still sends
\* requests here, the main server accepts them, because readiness flips after
\* the listener is up, also when SIGTERM came first, and the listener is closed
\* only when the end of readiness has had the time to propagate
\* (service.go:311-313, 356-358, 385-408).  A main server that stopped serving
\* by itself does refuse what is routed to it, but Run begins to fail readiness
\* at that moment, whatever it was doing, so no longer than Propagation.
NoRefusedTraffic ==
  Alive /\ routed =>
    \/ main = "up"
    \/ main = "failed" /\ now <= failedAt + Propagation

\* When the drain ended in time, no request that the server tracks is left
\* running when the first dependency is closed (service.go:425-427).
DepsOutliveRequests ==
  openDeps < NumDeps /\ "drain main" \notin errs => Running \cap Tracked = {}

\* A process that shuts down without an error loses nothing: every tracked
\* request it took was finished, and every span that had ended by then, of
\* requests and startup alike, was exported (shutdown.go:38-40).
CleanExitIsComplete ==
  pc = "exited" /\ errs = {} =>
    /\ Running \cap Tracked = {}
    /\ ended \cap (Tracked \cup {"startup"}) \subseteq exported

\* The grace period outlasts the drain: a process is never killed before the
\* drain is over, unless the signal came while it was still starting and the
\* shutdown began late (shutdown.go:117-128).
NotKilledMidDrain ==
  pc = "killed" /\ step > 0 /\ shutdownAt <= sigAt =>
    Steps[step] \notin {"wait for endpoint removal", "drain main"}

\* Every SIGTERM ends the process, with requests that never finish and an
\* exporter that never answers.
ShutdownTerminates == sigAt # Never ~> ~Alive

\* Nothing is running any more when the first dependency is closed, unless the
\* drain reported that it ran out of time: "in-flight requests finish" in step
\* 3, "nothing is producing new work now" in step 4
\* (1—Documentation/v1/lifecycle.md:83-84).
DrainWaitsForAll ==
  openDeps < NumDeps /\ "drain main" \notin errs => Running = {}
================================================================================
