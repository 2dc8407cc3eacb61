---------------------------- MODULE LifecycleProofs ----------------------------
(*****************************************************************************)
(* Proofs about Lifecycle, for any number of requests, hooks and             *)
(* dependencies and for all timings that LifecycleAssumption admits.         *)
(*****************************************************************************)
EXTENDS Lifecycle, TLAPS

\* Where Run is tells what its servers do, and what it has begun to close.
PhaseInv ==
  /\ pc \in {"start", "hooks", "serving", "block"} =>
       step = 0 /\ openDeps = NumDeps
  /\ pc \in {"start", "hooks"} => main = "down"
  /\ pc \in {"serving", "block"} => main \in {"up", "failed"}
  /\ pc \in {"start", "hooks", "serving"} => ~ready /\ ~routed
  /\ pc = "shutdown" =>
       /\ step \in 1 .. 6
       /\ step <= 2 => main \in {"up", "failed"}
       /\ step = 3 => main \in {"up", "failed", "draining"}
       /\ step > 3 => main = "closed"
       /\ step <= 3 => openDeps = NumDeps
       /\ step > 1 => ~ready
       /\ step > 2 => ~routed

\* What the drain leaves behind, for as long as the process lives.
DrainInv ==
  /\ openDeps < NumDeps => main = "closed"
  /\ main = "closed" => pc \in {"shutdown", "exited", "killed"}
  /\ main = "closed" /\ "drain main" \notin errs => Running \cap Tracked = {}
  /\ pc = "exited" /\ errs = {} =>
       /\ main = "closed"
       /\ ended \cap (Tracked \cup {"startup"}) \subseteq exported

\* How late each step can be.
ClockInv ==
  /\ TimingFits(grace)
  /\ pc = "shutdown" =>
       /\ runEnd = shutdownAt + PreStopDelay + DrainTimeout + Slack
       /\ step = 1 => now = stepStart /\ stepStart = shutdownAt
       /\ step = 2 => /\ stepStart = shutdownAt /\ unreadySince = shutdownAt
                      /\ shutdownAt <= now /\ now <= shutdownAt + PreStopDelay
                      /\ routed => now <= unreadySince + Propagation
       /\ step = 3 => /\ stepStart <= shutdownAt + PreStopDelay
                      /\ now <= stepStart + DrainTimeout
  /\ pc = "killed" /\ step > 0 /\ shutdownAt <= sigAt => step \notin {2, 3}

\* A main server that failed by itself: Run does not let time pass before it
\* fails readiness.
FailureInv ==
  main = "failed" =>
    /\ pc \in {"serving", "block"} \/ (pc = "shutdown" /\ step = 1) =>
         now = failedAt
    /\ pc = "shutdown" /\ step = 2 => unreadySince <= failedAt

\* The inductive invariant.
LifecycleInv == TypeOK /\ PhaseInv /\ DrainInv /\ ClockInv /\ FailureInv

-------------------------------------------------------------------------------
(* The list of steps. *)

LEMMA SixSteps == Len(Steps) = 6 /\ DOMAIN Steps = 1 .. 6
  BY DEF Steps

LEMMA StepsAre ==
  /\ Steps[1] = "fail readiness" /\ Steps[2] = "wait for endpoint removal"
  /\ Steps[3] = "drain main" /\ Steps[4] = "close dependencies"
  /\ Steps[5] = "drain admin" /\ Steps[6] = "flush telemetry"
  BY DEF Steps

\* So a step is known by its number.
LEMMA StepNumbers ==
  ASSUME step \in 1 .. 6
  PROVE  /\ InStep("fail readiness") <=> pc = "shutdown" /\ step = 1
         /\ InStep("wait for endpoint removal") <=> pc = "shutdown" /\ step = 2
         /\ InStep("drain main") <=> pc = "shutdown" /\ step = 3
         /\ InStep("close dependencies") <=> pc = "shutdown" /\ step = 4
         /\ InStep("drain admin") <=> pc = "shutdown" /\ step = 5
         /\ InStep("flush telemetry") <=> pc = "shutdown" /\ step = 6
         /\ Steps[step] = "drain main" => step = 3
  <1>1. step = 1 \/ step = 2 \/ step = 3 \/ step = 4 \/ step = 5 \/ step = 6
    OBVIOUS
  <1>2. QED
    BY <1>1, StepsAre DEF InStep

LEMMA InStepIsShutdown ==
  ASSUME NEW name, InStep(name)
  PROVE  pc = "shutdown"
  BY DEF InStep

LEMMA Constants ==
  /\ NumHooks \in Nat /\ NumDeps \in Nat /\ PreStopDelay \in Nat
  /\ DrainTimeout \in Nat /\ Slack \in Nat /\ Propagation \in Nat
  /\ MaxNow \in Nat /\ DrainTimeout > 0 /\ Propagation < PreStopDelay
  /\ GracePeriods \subseteq Nat
  /\ Never = -1
  BY LifecycleAssumption DEF Never

-------------------------------------------------------------------------------
(* Initial states, and one lemma per group of actions. *)

LEMMA InitHolds == Init => LifecycleInv
  <1>1. Init => TypeOK
    <2> SUFFICES ASSUME Init PROVE TypeOK
      OBVIOUS
    <2>1. grace \in GracePeriods
      BY DEF Init
    <2>2. /\ now \in 0 .. MaxNow /\ hooksRun \in 0 .. NumHooks
          /\ step \in 0 .. Len(Steps)
          /\ {stepStart, runEnd, shutdownAt, unreadySince} \subseteq Nat
          /\ openDeps \in 0 .. NumDeps /\ (openDeps < NumDeps => step > 0)
          /\ {sigAt, failedAt} \subseteq Nat \cup {Never}
      BY Constants, SixSteps DEF Init
    <2>3. /\ {ctxDone, ready, routed} \subseteq BOOLEAN
          /\ errs \subseteq {"startup", "serve"} \cup {Steps[i] : i \in DOMAIN Steps}
          /\ reqs \in [Requests -> {"none", "running", "finished"}]
          /\ exported \subseteq ended /\ ended \subseteq Requests \cup {"startup"}
      BY Zenon DEF Init
    <2>4. /\ pc \in {"start", "hooks", "serving", "block", "shutdown", "exited",
                    "killed"}
          /\ admin \in {"down", "up", "failed", "closed"}
          /\ main \in {"down", "up", "failed", "draining", "closed"}
      BY DEF Init
    <2>5. QED
      BY <2>1, <2>2, <2>3, <2>4, Zenon DEF TypeOK
  <1>2. Init => PhaseInv /\ DrainInv /\ ClockInv /\ FailureInv
    BY Constants DEF Init, PhaseInv, DrainInv, ClockInv, FailureInv, TimingFits
  <1>3. QED
    BY <1>1, <1>2 DEF LifecycleInv

LEMMA StartupKeeps == LifecycleInv /\ Startup => LifecycleInv'
  <1> SUFFICES ASSUME LifecycleInv, Startup
               PROVE  LifecycleInv'
    OBVIOUS
  <1> USE Constants DEF LifecycleInv, outside, spans
  <1>1. CASE StartAdmin
    <2>1. TypeOK'
      BY <1>1 DEF StartAdmin, FailStartup, TypeOK
    <2>2. PhaseInv' /\ ClockInv' /\ FailureInv'
      BY <1>1 DEF StartAdmin, FailStartup, TypeOK, PhaseInv, ClockInv,
         FailureInv, TimingFits
    <2>3. DrainInv'
      BY <1>1 DEF StartAdmin, FailStartup, PhaseInv, DrainInv, Running
    <2>4. QED
      BY <2>1, <2>2, <2>3
  <1>2. CASE RunHook
    <2>1. TypeOK'
      <3>1. hooksRun' \in 0 .. NumHooks
        BY <1>2 DEF RunHook, FailStartup, TypeOK
      <3>2. pc' \in {"hooks", "exited"} /\ errs' \in {errs, {"startup"}}
        BY <1>2 DEF RunHook, FailStartup
      <3>3. exported' \subseteq ended' /\ ended' \subseteq Requests \cup {"startup"}
        BY <1>2 DEF RunHook, TypeOK
      <3>4. QED
        BY <1>2, <3>1, <3>2, <3>3 DEF RunHook, TypeOK
    <2>2. PhaseInv' /\ ClockInv' /\ FailureInv'
      BY <1>2 DEF RunHook, FailStartup, TypeOK, PhaseInv, ClockInv,
         FailureInv, TimingFits
    <2>3. DrainInv'
      BY <1>2 DEF RunHook, FailStartup, PhaseInv, DrainInv, Running
    <2>4. QED
      BY <2>1, <2>2, <2>3
  <1>3. CASE StartMain
    <2>1. TypeOK'
      BY <1>3 DEF StartMain, FailStartup, TypeOK
    <2>2. PhaseInv' /\ ClockInv' /\ FailureInv'
      BY <1>3 DEF StartMain, FailStartup, TypeOK, PhaseInv, ClockInv,
         FailureInv, TimingFits
    <2>3. DrainInv'
      BY <1>3 DEF StartMain, FailStartup, PhaseInv, DrainInv, Running
    <2>4. QED
      BY <2>1, <2>2, <2>3
  <1>4. CASE SetReady
    <2>1. TypeOK'
      BY <1>4 DEF SetReady, TypeOK
    <2>2. PhaseInv' /\ ClockInv' /\ FailureInv'
      BY <1>4 DEF SetReady, TypeOK, PhaseInv, ClockInv,
         FailureInv, TimingFits
    <2>3. DrainInv'
      BY <1>4 DEF SetReady, PhaseInv, DrainInv, Running
    <2>4. QED
      BY <2>1, <2>2, <2>3
  <1>5. QED
    BY <1>1, <1>2, <1>3, <1>4 DEF Startup

LEMMA BeginShutdownKeeps == LifecycleInv /\ BeginShutdown => LifecycleInv'
  <1> SUFFICES ASSUME LifecycleInv, BeginShutdown
               PROVE  LifecycleInv'
    OBVIOUS
  <1> USE Constants DEF LifecycleInv, outside, spans
  <1>1. TypeOK'
    <2>1. errs' \subseteq {"startup", "serve"} \cup {Steps[i] : i \in DOMAIN Steps}
      BY DEF BeginShutdown, TypeOK
    <2>2. /\ step' \in 0 .. Len(Steps) /\ step' > 0
          /\ {stepStart', runEnd', shutdownAt'} \subseteq Nat
      BY SixSteps DEF BeginShutdown, TypeOK
    <2>3. /\ pc' = "shutdown"
          /\ <<now, grace, hooksRun, ctxDone, ready, admin, main, openDeps,
               reqs, routed, unreadySince, failedAt, sigAt, ended, exported>>'
             = <<now, grace, hooksRun, ctxDone, ready, admin, main, openDeps,
                 reqs, routed, unreadySince, failedAt, sigAt, ended, exported>>
      BY DEF BeginShutdown
    <2>4. QED
      BY <2>1, <2>2, <2>3 DEF TypeOK
  <1>2. PhaseInv' /\ ClockInv' /\ FailureInv'
    BY DEF BeginShutdown, TypeOK, PhaseInv, ClockInv,
         FailureInv, TimingFits
  <1>3. DrainInv'
    BY DEF BeginShutdown, PhaseInv, DrainInv, Running
  <1>4. QED
    BY <1>1, <1>2, <1>3

\* What every step of the sequencer does when it returns, failed or not.
Advances ==
  /\ now' = now /\ grace' = grace /\ hooksRun' = hooksRun
  /\ ctxDone' = ctxDone /\ runEnd' = runEnd /\ stepStart' = now
  /\ step < 6 => step' = step + 1 /\ pc' = pc
  /\ step = 6 => step' = step /\ pc' = "exited"
  /\ errs' = errs \/ errs' = errs \cup {Steps[step]}

LEMMA NextStepAdvances ==
  ASSUME NEW failed, NextStep(failed)
  PROVE  Advances
  BY SixSteps DEF NextStep, Advances

LEMMA NextStepErrs ==
  /\ NextStep(FALSE) => errs' = errs
  /\ NextStep(TRUE) => errs' = errs \cup {Steps[step]}
  BY DEF NextStep

\* The types after it, when it leaves the rest well typed.
LEMMA NextStepTypes ==
  ASSUME TypeOK, pc = "shutdown", step \in 1 .. 6, Advances,
         ready' \in BOOLEAN,
         admin' \in {"down", "up", "failed", "closed"},
         main' \in {"down", "up", "failed", "draining", "closed"},
         shutdownAt' = shutdownAt, unreadySince' \in Nat, openDeps' = openDeps,
         reqs' = reqs, routed' = routed, failedAt' = failedAt, sigAt' = sigAt,
         ended' = ended,
         exported' \subseteq ended
  PROVE  TypeOK'
  <1>1. step' \in 0 .. Len(Steps) /\ pc' \in {"shutdown", "exited"} /\ step' > 0
    <2>1. CASE step < 6
      BY <2>1, SixSteps DEF Advances
    <2>2. CASE step = 6
      BY <2>2, SixSteps DEF Advances
    <2>3. QED
      BY <2>1, <2>2
  <1>2. /\ now' = now /\ grace' = grace /\ hooksRun' = hooksRun
        /\ ctxDone' = ctxDone /\ runEnd' = runEnd /\ stepStart' = now
    BY DEF Advances
  <1>3. errs' \subseteq {"startup", "serve"} \cup {Steps[i] : i \in DOMAIN Steps}
    <2>1. Steps[step] \in {Steps[i] : i \in DOMAIN Steps}
      BY SixSteps
    <2>2. QED
      BY <2>1 DEF Advances, TypeOK
  <1>4. now \in Nat
    BY Constants DEF TypeOK
  <1>5. QED
    BY <1>1, <1>2, <1>3, <1>4 DEF TypeOK

\* What the proofs about one action need of the types.
Basics ==
  /\ now \in Nat /\ grace \in Nat /\ stepStart \in Nat /\ runEnd \in Nat
  /\ shutdownAt \in Nat /\ unreadySince \in Nat
  /\ sigAt \in Int /\ failedAt \in Int
  /\ step \in Nat /\ openDeps \in 0 .. NumDeps
  /\ ready \in BOOLEAN /\ exported \subseteq ended
  /\ admin \in {"down", "up", "failed", "closed"}
  /\ main \in {"down", "up", "failed", "draining", "closed"}

LEMMA TypesGive == TypeOK => Basics
  <1> SUFFICES ASSUME TypeOK PROVE Basics
    OBVIOUS
  <1> USE Constants DEF TypeOK
  <1>1. now \in Nat /\ grace \in Nat /\ sigAt \in Int /\ failedAt \in Int
    OBVIOUS
  <1>2. stepStart \in Nat /\ runEnd \in Nat /\ shutdownAt \in Nat /\ unreadySince \in Nat
    OBVIOUS
  <1>3. step \in Nat
    BY SixSteps
  <1>4. openDeps \in 0 .. NumDeps /\ exported \subseteq ended
    OBVIOUS
  <1>5. ready \in BOOLEAN
    OBVIOUS
  <1>6. QED
    BY <1>1, <1>2, <1>3, <1>4, <1>5 DEF Basics

LEMMA ShutdownKeeps == LifecycleInv /\ Shutdown => LifecycleInv'
  <1> SUFFICES ASSUME TypeOK, PhaseInv, DrainInv, ClockInv, FailureInv,
                      Shutdown
               PROVE  LifecycleInv'
    BY DEF LifecycleInv
  <1> USE Constants DEF outside, spans
  <1> Basics
    BY TypesGive
  <1>1. pc = "shutdown" /\ step \in 1 .. 6
    BY InStepIsShutdown DEF Shutdown, FailReadiness, PreStop, BeginDrain,
       DrainDone, DrainTimedOut, CloseDependency, DependenciesClosed,
       DrainAdmin, Flush, PhaseInv
  <1>2. CASE FailReadiness
    <2>1. step = 1 /\ NextStep(FALSE)
      BY <1>1, <1>2, StepNumbers DEF FailReadiness
    <2>2. Advances /\ errs' = errs
      BY <2>1, NextStepAdvances, NextStepErrs
    <2>3. /\ now' = now /\ grace' = grace /\ runEnd' = runEnd
          /\ stepStart' = now /\ step' = 2 /\ pc' = pc
      BY <2>1, <2>2 DEF Advances
    <2>4. /\ ready' = FALSE /\ admin' = admin /\ main' = main
          /\ openDeps' = openDeps /\ shutdownAt' = shutdownAt
          /\ unreadySince' = now /\ reqs' = reqs /\ routed' = routed
          /\ failedAt' = failedAt /\ sigAt' = sigAt /\ ended' = ended /\ exported' = exported
      BY <1>2 DEF FailReadiness
    <2>5. TypeOK'
      BY <1>1, <2>2, <2>4, NextStepTypes DEF Basics
    <2>6. PhaseInv'
      BY <1>1, <2>1, <2>3, <2>4 DEF PhaseInv
    <2>7. ClockInv'
      BY <1>1, <2>1, <2>3, <2>4 DEF Basics, ClockInv, TimingFits
    <2>8. DrainInv'
      BY <1>1, <2>2, <2>3, <2>4 DEF DrainInv, Running
    <2>f. FailureInv'
      BY <1>1, <2>1, <2>3, <2>4 DEF Basics, ClockInv, PhaseInv, FailureInv
    <2>9. QED
      BY <2>5, <2>6, <2>7, <2>8, <2>f DEF LifecycleInv
  <1>3. CASE PreStop
    <2>1. step = 2 /\ NextStep(FALSE)
      BY <1>1, <1>3, StepNumbers DEF PreStop
    <2>2. Advances /\ errs' = errs
      BY <2>1, NextStepAdvances, NextStepErrs
    <2>3. /\ now' = now /\ grace' = grace /\ runEnd' = runEnd
          /\ stepStart' = now /\ step' = 3 /\ pc' = pc
      BY <2>1, <2>2 DEF Advances
    <2>4. /\ ready' = ready /\ admin' = admin /\ main' = main
          /\ openDeps' = openDeps /\ shutdownAt' = shutdownAt
          /\ unreadySince' = unreadySince /\ reqs' = reqs
          /\ routed' = routed /\ failedAt' = failedAt /\ sigAt' = sigAt /\ ended' = ended
          /\ exported' = exported
      BY <1>3 DEF PreStop
    <2>a. now >= stepStart + PreStopDelay \/ now >= runEnd
      BY <1>3 DEF PreStop, PreStopOver, BaseDone
    <2>b. ~routed
      BY <1>1, <2>1, <2>a DEF Basics, ClockInv
    <2>5. TypeOK'
      BY <1>1, <2>2, <2>4, NextStepTypes DEF Basics
    <2>6. PhaseInv'
      BY <1>1, <2>1, <2>3, <2>4, <2>b DEF PhaseInv
    <2>7. ClockInv'
      BY <1>1, <2>1, <2>3, <2>4 DEF Basics, ClockInv, TimingFits
    <2>8. DrainInv'
      BY <1>1, <2>1, <2>2, <2>3, <2>4 DEF DrainInv, PhaseInv, Running
    <2>f. FailureInv'
      BY <1>1, <2>1, <2>3, <2>4 DEF Basics, ClockInv, PhaseInv, FailureInv
    <2>9. QED
      BY <2>5, <2>6, <2>7, <2>8, <2>f DEF LifecycleInv
  <1>4. CASE BeginDrain
    <2>1. step = 3 /\ main \in {"up", "failed"}
      BY <1>1, <1>4, StepNumbers DEF BeginDrain
    <2>2. /\ main' = "draining"
          /\ <<now, grace, pc, hooksRun, ctxDone, ready, admin, step,
               stepStart, runEnd, openDeps, shutdownAt, errs, reqs, routed,
               unreadySince, failedAt, sigAt, ended, exported>>'
             = <<now, grace, pc, hooksRun, ctxDone, ready, admin, step,
                 stepStart, runEnd, openDeps, shutdownAt, errs, reqs, routed,
                 unreadySince, failedAt, sigAt, ended, exported>>
      BY <1>4 DEF BeginDrain
    <2>3. TypeOK'
      BY <2>2 DEF TypeOK
    <2>4. PhaseInv'
      BY <1>1, <2>1, <2>2 DEF PhaseInv
    <2>5. ClockInv'
      BY <1>1, <2>1, <2>2 DEF ClockInv, TimingFits
    <2>6. DrainInv'
      BY <1>1, <2>1, <2>2 DEF DrainInv, PhaseInv, Running
    <2>f. FailureInv'
      BY <1>1, <2>1, <2>2 DEF FailureInv
    <2>7. QED
      BY <2>3, <2>4, <2>5, <2>6, <2>f DEF LifecycleInv
  <1>5. CASE DrainDone
    <2>1. step = 3 /\ NextStep(FALSE)
      BY <1>1, <1>5, StepNumbers DEF DrainDone
    <2>2. Advances /\ errs' = errs
      BY <2>1, NextStepAdvances, NextStepErrs
    <2>3. /\ now' = now /\ grace' = grace /\ runEnd' = runEnd
          /\ stepStart' = now /\ step' = 4 /\ pc' = pc
      BY <2>1, <2>2 DEF Advances
    <2>4. /\ ready' = ready /\ admin' = admin /\ main' = "closed"
          /\ openDeps' = openDeps /\ shutdownAt' = shutdownAt
          /\ unreadySince' = unreadySince /\ reqs' = reqs
          /\ routed' = routed /\ failedAt' = failedAt /\ sigAt' = sigAt /\ ended' = ended
          /\ exported' = exported
      BY <1>5 DEF DrainDone
    <2>a. Running \cap Tracked = {}
      BY <1>5 DEF DrainDone
    <2>5. TypeOK'
      BY <1>1, <2>2, <2>4, NextStepTypes DEF Basics
    <2>6. PhaseInv'
      BY <1>1, <2>1, <2>3, <2>4 DEF PhaseInv
    <2>7. ClockInv'
      BY <1>1, <2>1, <2>3, <2>4 DEF Basics, ClockInv, TimingFits
    <2>8. DrainInv'
      BY <1>1, <2>1, <2>2, <2>3, <2>4, <2>a DEF DrainInv, PhaseInv, Running
    <2>f. FailureInv'
      BY <1>1, <2>1, <2>3, <2>4 DEF Basics, ClockInv, PhaseInv, FailureInv
    <2>9. QED
      BY <2>5, <2>6, <2>7, <2>8, <2>f DEF LifecycleInv
  <1>6. CASE DrainTimedOut
    <2>1. step = 3 /\ NextStep(TRUE)
      BY <1>1, <1>6, StepNumbers DEF DrainTimedOut
    <2>2. Advances
      BY <2>1, NextStepAdvances
    <2>a. errs' = errs \cup {"drain main"}
      BY <2>1, NextStepErrs, StepsAre
    <2>3. /\ now' = now /\ grace' = grace /\ runEnd' = runEnd
          /\ stepStart' = now /\ step' = 4 /\ pc' = pc
      BY <2>1, <2>2 DEF Advances
    <2>4. /\ ready' = ready /\ admin' = admin /\ main' = "closed"
          /\ openDeps' = openDeps /\ shutdownAt' = shutdownAt
          /\ unreadySince' = unreadySince /\ reqs' = reqs
          /\ routed' = routed /\ failedAt' = failedAt /\ sigAt' = sigAt /\ ended' = ended
          /\ exported' = exported
      BY <1>6 DEF DrainTimedOut
    <2>5. TypeOK'
      BY <1>1, <2>2, <2>4, NextStepTypes DEF Basics
    <2>6. PhaseInv'
      BY <1>1, <2>1, <2>3, <2>4 DEF PhaseInv
    <2>7. ClockInv'
      BY <1>1, <2>1, <2>3, <2>4 DEF Basics, ClockInv, TimingFits
    <2>8. DrainInv'
      BY <1>1, <2>1, <2>a, <2>3, <2>4 DEF DrainInv, PhaseInv, Running
    <2>f. FailureInv'
      BY <1>1, <2>1, <2>3, <2>4 DEF Basics, ClockInv, PhaseInv, FailureInv
    <2>9. QED
      BY <2>5, <2>6, <2>7, <2>8, <2>f DEF LifecycleInv
  <1>7. CASE CloseDependency
    <2>1. step = 4 /\ openDeps > 0
      BY <1>1, <1>7, StepNumbers DEF CloseDependency, DepsLeft
    <2>2. /\ openDeps' = openDeps - 1
          /\ errs' = errs \/ errs' = errs \cup {Steps[step]}
          /\ <<now, grace, pc, hooksRun, ctxDone, ready, admin, main, step,
               stepStart, runEnd, shutdownAt, reqs, routed, unreadySince,
               failedAt, sigAt, ended, exported>>'
             = <<now, grace, pc, hooksRun, ctxDone, ready, admin, main, step,
                 stepStart, runEnd, shutdownAt, reqs, routed, unreadySince,
                 failedAt, sigAt, ended, exported>>
      BY <1>7 DEF CloseDependency
    <2>3. TypeOK'
      <3>1. Steps[step] \in {Steps[i] : i \in DOMAIN Steps}
        BY <1>1, SixSteps
      <3>2. errs' \subseteq {"startup", "serve"} \cup
                             {Steps[i] : i \in DOMAIN Steps}
        BY <2>2, <3>1 DEF TypeOK
      <3>3. openDeps' \in 0 .. NumDeps /\ step > 0
        BY <2>1, <2>2 DEF Basics
      <3>4. QED
        BY <2>2, <3>2, <3>3 DEF TypeOK
    <2>4. PhaseInv'
      BY <1>1, <2>1, <2>2 DEF PhaseInv
    <2>5. ClockInv'
      BY <1>1, <2>1, <2>2 DEF ClockInv, TimingFits
    <2>6. DrainInv'
      <3>1. errs \subseteq errs' /\ main = "closed"
        BY <1>1, <2>1, <2>2 DEF PhaseInv
      <3>2. QED
        BY <1>1, <2>2, <3>1 DEF DrainInv, Running
    <2>f. FailureInv'
      BY <1>1, <2>1, <2>2 DEF FailureInv
    <2>7. QED
      BY <2>3, <2>4, <2>5, <2>6, <2>f DEF LifecycleInv
  <1>8. CASE DependenciesClosed
    <2>1. step = 4 /\ NextStep(FALSE)
      BY <1>1, <1>8, StepNumbers DEF DependenciesClosed
    <2>2. Advances /\ errs' = errs
      BY <2>1, NextStepAdvances, NextStepErrs
    <2>3. /\ now' = now /\ grace' = grace /\ runEnd' = runEnd
          /\ stepStart' = now /\ step' = 5 /\ pc' = pc
      BY <2>1, <2>2 DEF Advances
    <2>4. /\ ready' = ready /\ admin' = admin /\ main' = main
          /\ openDeps' = openDeps /\ shutdownAt' = shutdownAt
          /\ unreadySince' = unreadySince /\ reqs' = reqs
          /\ routed' = routed /\ failedAt' = failedAt /\ sigAt' = sigAt /\ ended' = ended
          /\ exported' = exported
      BY <1>8 DEF DependenciesClosed
    <2>5. TypeOK'
      BY <1>1, <2>2, <2>4, NextStepTypes DEF Basics
    <2>6. PhaseInv'
      BY <1>1, <2>1, <2>3, <2>4 DEF PhaseInv
    <2>7. ClockInv'
      BY <1>1, <2>1, <2>3, <2>4 DEF Basics, ClockInv, TimingFits
    <2>8. DrainInv'
      BY <1>1, <2>1, <2>2, <2>3, <2>4 DEF DrainInv, PhaseInv, Running
    <2>f. FailureInv'
      BY <1>1, <2>1, <2>3, <2>4 DEF Basics, ClockInv, PhaseInv, FailureInv
    <2>9. QED
      BY <2>5, <2>6, <2>7, <2>8, <2>f DEF LifecycleInv
  <1>9. CASE DrainAdmin
    <2>1. step = 5 /\ NextStep(now >= Within(AdminDrainTimeout))
      BY <1>1, <1>9, StepNumbers DEF DrainAdmin
    <2>2. Advances
      BY <2>1, NextStepAdvances
    <2>a. errs \subseteq errs'
      BY <2>2 DEF Advances
    <2>3. /\ now' = now /\ grace' = grace /\ runEnd' = runEnd
          /\ stepStart' = now /\ step' = 6 /\ pc' = pc
      BY <2>1, <2>2 DEF Advances
    <2>4. /\ ready' = ready /\ admin' = "closed" /\ main' = main
          /\ openDeps' = openDeps /\ shutdownAt' = shutdownAt
          /\ unreadySince' = unreadySince /\ reqs' = reqs
          /\ routed' = routed /\ failedAt' = failedAt /\ sigAt' = sigAt /\ ended' = ended
          /\ exported' = exported
      BY <1>9 DEF DrainAdmin
    <2>5. TypeOK'
      BY <1>1, <2>2, <2>4, NextStepTypes DEF Basics
    <2>6. PhaseInv'
      BY <1>1, <2>1, <2>3, <2>4 DEF PhaseInv
    <2>7. ClockInv'
      BY <1>1, <2>1, <2>3, <2>4 DEF Basics, ClockInv, TimingFits
    <2>8. DrainInv'
      BY <1>1, <2>1, <2>2, <2>3, <2>4, <2>a DEF DrainInv, PhaseInv, Running
    <2>f. FailureInv'
      BY <1>1, <2>1, <2>3, <2>4 DEF Basics, ClockInv, PhaseInv, FailureInv
    <2>9. QED
      BY <2>5, <2>6, <2>7, <2>8, <2>f DEF LifecycleInv
  <1>10. CASE Flush
    <2>1. step = 6
      BY <1>1, <1>10, StepNumbers DEF Flush
    <2>2. Advances
      BY <1>10, NextStepAdvances DEF Flush
    <2>a. errs \subseteq errs'
      BY <2>2 DEF Advances
    <2>3. /\ now' = now /\ grace' = grace /\ runEnd' = runEnd
          /\ stepStart' = now /\ step' = 6 /\ pc' = "exited"
      BY <2>1, <2>2 DEF Advances
    <2>4. /\ ready' = ready /\ admin' = admin /\ main' = main
          /\ openDeps' = openDeps /\ shutdownAt' = shutdownAt
          /\ unreadySince' = unreadySince /\ reqs' = reqs
          /\ routed' = routed /\ failedAt' = failedAt /\ sigAt' = sigAt /\ ended' = ended
          /\ \/ exported' = exported \cup ended /\ errs' = errs
             \/ exported' = exported /\ errs' # {}
      BY <1>10, NextStepErrs DEF Flush
    <2>5. TypeOK'
      BY <1>1, <2>2, <2>4, NextStepTypes DEF Basics
    <2>6. PhaseInv'
      BY <1>1, <2>1, <2>3, <2>4 DEF PhaseInv
    <2>7. ClockInv'
      BY <1>1, <2>1, <2>3, <2>4 DEF Basics, ClockInv, TimingFits
    <2>8. DrainInv'
      <3>1. main = "closed" /\ pc' = "exited"
        BY <1>1, <2>1, <2>3 DEF PhaseInv
      <3>2. errs' = {} => ended' \subseteq exported'
        BY <2>4
      <3>3. QED
        BY <2>4, <2>a, <3>1, <3>2 DEF DrainInv, Running
    <2>f. FailureInv'
      BY <1>1, <2>1, <2>3, <2>4 DEF Basics, ClockInv, PhaseInv, FailureInv
    <2>9. QED
      BY <2>5, <2>6, <2>7, <2>8, <2>f DEF LifecycleInv
  <1>11. QED
    BY <1>2, <1>3, <1>4, <1>5, <1>6, <1>7, <1>8, <1>9, <1>10 DEF Shutdown

\* The servers, the signals, the load balancer and the requests.
LEMMA PlatformKeeps == LifecycleInv /\ Platform => LifecycleInv'
  <1> SUFFICES ASSUME TypeOK, PhaseInv, DrainInv, ClockInv, FailureInv,
                      Platform
               PROVE  LifecycleInv'
    BY DEF LifecycleInv
  <1> USE Constants DEF outside, spans, process, Alive
  <1> Basics
    BY TypesGive
  <1>1. CASE ServerFails
    <2>1. TypeOK'
      BY <1>1 DEF ServerFails, TypeOK
    <2>2. PhaseInv'
      BY <1>1 DEF ServerFails, PhaseInv
    <2>3. ClockInv'
      BY <1>1 DEF ServerFails, ClockInv, TimingFits
    <2>4. DrainInv'
      BY <1>1 DEF ServerFails, DrainInv, PhaseInv, Running
    <2>f. FailureInv'
      BY <1>1 DEF ServerFails, ClockInv, PhaseInv, Basics, FailureInv
    <2>5. QED
      BY <2>1, <2>2, <2>3, <2>4, <2>f DEF LifecycleInv
  <1>2. CASE SigTerm
    <2>1. TypeOK'
      BY <1>2 DEF SigTerm, TypeOK
    <2>2. PhaseInv'
      BY <1>2 DEF SigTerm, PhaseInv
    <2>3. ClockInv'
      BY <1>2 DEF SigTerm, ClockInv, TimingFits
    <2>4. DrainInv'
      BY <1>2 DEF SigTerm, DrainInv, Running
    <2>f. FailureInv'
      BY <1>2 DEF SigTerm, FailureInv
    <2>5. QED
      BY <2>1, <2>2, <2>3, <2>4, <2>f DEF LifecycleInv
  <1>3. CASE SigKill
    <2>1. TypeOK'
      BY <1>3 DEF SigKill, TypeOK
    <2>2. PhaseInv'
      BY <1>3 DEF SigKill, PhaseInv
    <2>3. ClockInv'
      <3>1. step > 0 => pc = "shutdown"
        BY <1>3 DEF SigKill, PhaseInv, TypeOK
      <3>2. PreStopDelay + DrainTimeout < grace /\ now >= sigAt + grace
        BY <1>3 DEF SigKill, ClockInv, TimingFits
      <3>3. step > 0 /\ shutdownAt <= sigAt => step \notin {2, 3}
        BY <3>1, <3>2 DEF ClockInv, Basics
      <3>4. QED
        BY <1>3, <3>3 DEF SigKill, ClockInv, TimingFits
    <2>4. DrainInv'
      BY <1>3 DEF SigKill, DrainInv, Running
    <2>f. FailureInv'
      BY <1>3 DEF SigKill, FailureInv
    <2>5. QED
      BY <2>1, <2>2, <2>3, <2>4, <2>f DEF LifecycleInv
  <1>4. CASE Route \/ Unroute
    <2>1. TypeOK'
      BY <1>4 DEF Route, Unroute, TypeOK
    <2>2. PhaseInv'
      BY <1>4 DEF Route, Unroute, PhaseInv
    <2>3. ClockInv'
      BY <1>4 DEF Route, Unroute, ClockInv, PhaseInv, TimingFits
    <2>4. DrainInv'
      BY <1>4 DEF Route, Unroute, DrainInv, Running
    <2>f. FailureInv'
      BY <1>4 DEF Route, Unroute, FailureInv
    <2>5. QED
      BY <2>1, <2>2, <2>3, <2>4, <2>f DEF LifecycleInv
  <1>5. ASSUME NEW r \in Requests, Arrive(r)
        PROVE  LifecycleInv'
    <2>1. TypeOK'
      BY <1>5 DEF Arrive, TypeOK
    <2>2. PhaseInv'
      BY <1>5 DEF Arrive, PhaseInv
    <2>3. ClockInv'
      BY <1>5 DEF Arrive, ClockInv, TimingFits
    <2>4. DrainInv'
      BY <1>5 DEF Arrive, DrainInv
    <2>f. FailureInv'
      BY <1>5 DEF Arrive, FailureInv
    <2>5. QED
      BY <2>1, <2>2, <2>3, <2>4, <2>f DEF LifecycleInv
  <1>6. ASSUME NEW r \in Requests, Finish(r)
        PROVE  LifecycleInv'
    <2>1. TypeOK'
      BY <1>6 DEF Finish, TypeOK
    <2>2. PhaseInv'
      BY <1>6 DEF Finish, PhaseInv
    <2>3. ClockInv'
      BY <1>6 DEF Finish, ClockInv, TimingFits
    <2>4. Running' \subseteq Running
      BY <1>6 DEF Finish, Running, TypeOK
    <2>5. DrainInv'
      BY <1>6, <2>4 DEF Finish, DrainInv
    <2>f. FailureInv'
      BY <1>6 DEF Finish, FailureInv
    <2>6. QED
      BY <2>1, <2>2, <2>3, <2>5, <2>f DEF LifecycleInv
  <1>7. QED
    BY <1>1, <1>2, <1>3, <1>4, <1>5, <1>6 DEF Platform

\* The clock moves only while nothing is due.
LEMMA TickKeeps == LifecycleInv /\ Tick => LifecycleInv'
  <1> SUFFICES ASSUME TypeOK, PhaseInv, DrainInv, ClockInv, FailureInv,
                      Tick
               PROVE  LifecycleInv'
    BY DEF LifecycleInv
  <1> USE Constants DEF outside, spans, process
  <1> Basics
    BY TypesGive
  <1>1. /\ now < MaxNow /\ now' = now + 1
        /\ <<grace, pc, hooksRun, ctxDone, ready, admin, main, step, stepStart,
             runEnd, openDeps, shutdownAt, errs, reqs, routed, unreadySince,
             failedAt, sigAt, ended, exported>>'
           = <<grace, pc, hooksRun, ctxDone, ready, admin, main, step,
               stepStart, runEnd, openDeps, shutdownAt, errs, reqs, routed,
               unreadySince, failedAt, sigAt, ended, exported>>
    BY DEF Tick
  <1>2. TypeOK'
    BY <1>1 DEF TypeOK
  <1>3. PhaseInv'
    BY <1>1 DEF PhaseInv
  <1>4. DrainInv'
    BY <1>1 DEF DrainInv, Running
  <1>5. ClockInv'
    <2>1. CASE pc = "shutdown"
      <3>1. step \in 1 .. 6
        BY <2>1 DEF PhaseInv
      <3>2. ~DueNow
        BY DEF Tick
      <3>3. step # 1
        BY <2>1, <3>1, <3>2, StepNumbers DEF DueNow
      <3>4. step = 2 => /\ now < stepStart + PreStopDelay
                        /\ routed => now < unreadySince + Propagation
        <4>1. SUFFICES ASSUME step = 2
                       PROVE  /\ ~PreStopOver
                              /\ routed => now < unreadySince + Propagation
          BY DEF PreStopOver, Basics
        <4>2. ~PreStopOver
          BY <2>1, <3>1, <3>2, <4>1, StepNumbers DEF DueNow
        <4>3. ~ready
          BY <2>1, <4>1 DEF PhaseInv
        <4>4. routed => ~(now >= unreadySince + Propagation)
          BY <3>2, <4>3 DEF DueNow
        <4>5. QED
          BY <4>2, <4>4 DEF Basics
      <3>5. step = 3 => now < stepStart + DrainTimeout
        <4>1. SUFFICES ASSUME step = 3
                       PROVE  ~(now >= DrainDeadline)
          BY DEF DrainDeadline, Within, Basics
        <4>2. QED
          BY <2>1, <3>1, <3>2, <4>1, StepNumbers DEF DueNow
      <3>6. QED
        BY <1>1, <2>1, <3>1, <3>3, <3>4, <3>5 DEF ClockInv, TimingFits, Basics
    <2>2. CASE pc # "shutdown"
      BY <1>1, <2>2 DEF ClockInv, TimingFits
    <2>3. QED
      BY <2>1, <2>2
  <1>6. FailureInv'
    <2> SUFFICES ASSUME main = "failed"
                 PROVE  /\ pc \notin {"serving", "block"}
                        /\ ~(pc = "shutdown" /\ step = 1)
      BY <1>1 DEF FailureInv
    <2>1. ~DueNow
      BY DEF Tick
    <2>2. pc # "serving" /\ pc # "block"
      BY <2>1 DEF DueNow, Woken
    <2>3. ~(pc = "shutdown" /\ step = 1)
      <3>1. pc = "shutdown" => step \in 1 .. 6
        BY DEF PhaseInv
      <3>2. QED
        BY <2>1, <3>1, StepNumbers DEF DueNow
    <2>4. QED
      BY <2>2, <2>3
  <1>7. QED
    BY <1>2, <1>3, <1>4, <1>5, <1>6 DEF LifecycleInv

LEMMA NextKeeps == LifecycleInv /\ [Next]_vars => LifecycleInv'
  <1> SUFFICES ASSUME LifecycleInv, [Next]_vars
               PROVE  LifecycleInv'
    OBVIOUS
  <1>1. CASE UNCHANGED vars
    <2>1. TypeOK' /\ PhaseInv'
      BY <1>1 DEF vars, LifecycleInv, TypeOK, PhaseInv
    <2>2. DrainInv' /\ ClockInv' /\ FailureInv'
      BY <1>1 DEF vars, LifecycleInv, DrainInv, ClockInv, FailureInv,
                  TimingFits, Running
    <2>3. QED
      BY <2>1, <2>2 DEF LifecycleInv
  <1>2. CASE Next
    BY <1>1, <1>2, StartupKeeps, BeginShutdownKeeps, ShutdownKeeps,
       PlatformKeeps, TickKeeps DEF Next, Horizon
  <1>3. QED
    BY <1>1, <1>2

LEMMA Always == Spec => []LifecycleInv
  BY InitHolds, NextKeeps, PTL DEF Spec

-------------------------------------------------------------------------------
(* The theorems. *)

\* The state of Run, of its servers and of what surrounds it is well typed, and
\* only Shutdown closes a dependency.
THEOREM TypeCorrect == Spec => []TypeOK
  <1>1. LifecycleInv => TypeOK
    BY DEF LifecycleInv
  <1>2. QED
    BY <1>1, Always, PTL

\* Traffic that the load balancer still sends here finds the main server
\* accepting, or one that failed by itself no longer than Propagation ago, when
\* the pre-stop delay exceeds the time the end of readiness takes to propagate
\* (service.go:311-313, 356-358, 385-408).
THEOREM TrafficNotRefused == Spec => []NoRefusedTraffic
  <1>1. LifecycleInv => NoRefusedTraffic
    <2> SUFFICES ASSUME LifecycleInv, Alive, routed
                 PROVE  \/ main = "up"
                        \/ main = "failed" /\ now <= failedAt + Propagation
      BY DEF NoRefusedTraffic
    <2> USE Constants DEF LifecycleInv
    <2>1. Basics
      BY TypesGive
    <2>2. pc = "block" \/ (pc = "shutdown" /\ step \in {1, 2})
      BY DEF TypeOK, Alive, PhaseInv
    <2>3. main \in {"up", "failed"}
      BY <2>2 DEF PhaseInv
    <2>4. ASSUME main = "failed"
          PROVE  now <= failedAt + Propagation
      <3>1. CASE pc = "block" \/ step = 1
        BY <2>1, <2>2, <2>4, <3>1 DEF FailureInv, Basics
      <3>2. CASE pc = "shutdown" /\ step = 2
        BY <2>1, <2>4, <3>2 DEF FailureInv, ClockInv, Basics
      <3>3. QED
        BY <2>2, <3>1, <3>2
    <2>5. QED
      BY <2>3, <2>4
  <1>2. QED
    BY <1>1, Always, PTL

\* When the drain did not time out, no request the server tracks is left when
\* the first dependency is closed (service.go:410-447).
THEOREM DependenciesOutliveRequests == Spec => []DepsOutliveRequests
  <1>1. LifecycleInv => DepsOutliveRequests
    BY DEF LifecycleInv, DrainInv, DepsOutliveRequests
  <1>2. QED
    BY <1>1, Always, PTL

\* A process that exits without an error finished the requests it tracked and
\* exported the spans that had ended (shutdown.go:38-40, service.go:459-466).
THEOREM CleanExitLosesNothing == Spec => []CleanExitIsComplete
  <1>1. LifecycleInv => CleanExitIsComplete
    BY DEF LifecycleInv, DrainInv, CleanExitIsComplete
  <1>2. QED
    BY <1>1, Always, PTL

\* A grace period that passes Timing.Validate outlasts the drain: a process
\* whose shutdown began by the signal is not killed before the drain is over
\* (shutdown.go:117-128).
THEOREM DrainNotCutShort == Spec => []NotKilledMidDrain
  <1>1. LifecycleInv => NotKilledMidDrain
    <2> SUFFICES ASSUME TypeOK, ClockInv, pc = "killed", step > 0,
                        shutdownAt <= sigAt
                 PROVE  Steps[step] \notin {"wait for endpoint removal",
                                            "drain main"}
      BY DEF LifecycleInv, NotKilledMidDrain
    <2>1. step \in 1 .. 6 /\ step \notin {2, 3}
      BY SixSteps DEF TypeOK, ClockInv
    <2>2. step = 1 \/ step = 4 \/ step = 5 \/ step = 6
      BY <2>1
    <2>3. QED
      BY <2>2, StepsAre
  <1>2. QED
    BY <1>1, Always, PTL
================================================================================
