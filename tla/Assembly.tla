-------------------------------- MODULE Assembly --------------------------------
(*****************************************************************************)
(* From the environment to a running set of parts: the configuration loader  *)
(* (src/v1/internal/config/config.go), the service's Config and its checks   *)
(* (src/v1/service/config.go), New and NewWithConfig with the parts they     *)
(* build in turn (src/v1/service/service.go:75-280), an operator who puts    *)
(* right what a refusal names and starts the process again, and the clients  *)
(* that the service, or client.New, then assembles.  What those clients do   *)
(* is in Clients.                                                            *)
(*                                                                           *)
(* Durations are in units of 10 ms and ratios in tenths; an address, a name  *)
(* or a URL is a string that is only compared.                               *)
(*****************************************************************************)
EXTENDS Clients, Sequences, FiniteSetsExt

CONSTANTS
  Starts,      \* what the process may be started with; see StartsAssumption
  OwnClients,  \* per client: the client.Configs the program has for it
  Repair,      \* per variable: what an operator sets it to when it is named
  Unset,       \* a variable that is absent or empty
  Junk,        \* a value its type does not parse
  NaN          \* strconv.ParseFloat accepts it

\* The zero value of a string.
Empty == ""

\* The fields of Config, by the variables their tags name: envDefault, ...
Default ==
  [SERVICE_VERSION |-> "dev", MAIN_ADDR |-> ":8080", ADMIN_ADDR |-> ":9090",
   OTEL_TRACES_EXPORTER |-> "otlp", OTEL_EXPORTER_OTLP_INSECURE |-> FALSE,
   OTEL_TRACES_SAMPLER_ARG |-> 1, METRICS_ENABLED |-> TRUE,
   LOG_LEVEL |-> "info", LOG_FORMAT |-> "json",
   PRESTOP_DELAY |-> 500, DRAIN_TIMEOUT |-> 2500, REQUEST_TIMEOUT |-> 3000,
   SLOW_REQUEST_THRESHOLD |-> 100,
   RETRY_ENABLED |-> TRUE, RETRY_BUDGET |-> 2, RETRY_MAX_ATTEMPTS |-> 2,
   BREAKER_ENABLED |-> TRUE, BREAKER_FAILURE_RATIO |-> 5,
   BREAKER_MIN_REQUESTS |-> 20,
   LOADSHED_ENABLED |-> TRUE, LOADSHED_MAX_QUEUE_LATENCY |-> 10,
   LOADSHED_MAX_INFLIGHT |-> 0,
   DEADLINE_BUFFER |-> 5, DEADLINE_MINIMUM |-> 2]

\* ... "required", ...
Required == {"SERVICE_NAME", "ENVIRONMENT"}

\* ... neither of the two: the field keeps its zero value, ...
Optional == [OTEL_EXPORTER_OTLP_ENDPOINT |-> Empty, TERMINATION_GRACE_PERIOD |-> 0]

Variables == DOMAIN Default \cup Required \cup DOMAIN Optional

\* The other words by which messages speak of a variable: the Go field that
\* holds its value, "grace period" and "exporter".
HeldBy ==
  [PreStopDelay |-> "PRESTOP_DELAY", DrainTimeout |-> "DRAIN_TIMEOUT",
   grace_period |-> "TERMINATION_GRACE_PERIOD",
   ServiceName |-> "SERVICE_NAME", SampleRatio |-> "OTEL_TRACES_SAMPLER_ARG",
   exporter |-> "OTEL_TRACES_EXPORTER",
   MinimumRequests |-> "BREAKER_MIN_REQUESTS",
   FailureRatio |-> "BREAKER_FAILURE_RATIO", Ratio |-> "RETRY_BUDGET",
   MaxQueueLatency |-> "LOADSHED_MAX_QUEUE_LATENCY",
   MaxInFlight |-> "LOADSHED_MAX_INFLIGHT"]

Words == Variables \cup DOMAIN HeldBy

\* The variables that a reader of the source knows them to mean.
Meant(words) ==
  (words \cap Variables) \cup {HeldBy[w] : w \in words \cap DOMAIN HeldBy}

\* ... and validate: oneof, gte and lte.
OneOf ==
  [ENVIRONMENT |-> {"dev", "staging", "prod"},
   OTEL_TRACES_EXPORTER |-> {"otlp", "stdout", "none"},
   LOG_FORMAT |-> {"json", "text"}]

\* A mutated form: RETRY_MAX_ATTEMPTS has no lower bound.
AtLeastButAttempts ==
  [OTEL_TRACES_SAMPLER_ARG |-> 0, RETRY_BUDGET |-> 0,
   BREAKER_FAILURE_RATIO |-> 0, BREAKER_MIN_REQUESTS |-> 1,
   LOADSHED_MAX_INFLIGHT |-> 0]

AtLeast ==
  [OTEL_TRACES_SAMPLER_ARG |-> 0, RETRY_BUDGET |-> 0, RETRY_MAX_ATTEMPTS |-> 0,
   BREAKER_FAILURE_RATIO |-> 0, BREAKER_MIN_REQUESTS |-> 1,
   LOADSHED_MAX_INFLIGHT |-> 0]

AtMost ==
  [OTEL_TRACES_SAMPLER_ARG |-> 10, RETRY_BUDGET |-> 10,
   RETRY_MAX_ATTEMPTS |-> 5, BREAKER_FAILURE_RATIO |-> 10]

\* external: what slog.Level parses, Empty for the default, what net splits into
\* a port of 0, and the signs of a sidecar, in the order they are looked for.
LogLevels == {Empty, "debug", "info", "warn", "error"}
EphemeralAddrs == {":0", "127.0.0.1:0"}
MeshSigns == <<[sign |-> "ISTIO_META", mesh |-> "istio"],
               [sign |-> "LINKERD2_PROXY", mesh |-> "linkerd"],
               [sign |-> "port 15000", mesh |-> "istio"],
               [sign |-> "port 4191", mesh |-> "linkerd"]>>

\* The types of the numeric fields: time.Duration, int and float64.
Ratios == {"OTEL_TRACES_SAMPLER_ARG", "RETRY_BUDGET", "BREAKER_FAILURE_RATIO"}
Numbers ==
  {"PRESTOP_DELAY", "DRAIN_TIMEOUT", "TERMINATION_GRACE_PERIOD",
   "REQUEST_TIMEOUT", "SLOW_REQUEST_THRESHOLD", "RETRY_MAX_ATTEMPTS",
   "BREAKER_MIN_REQUESTS", "LOADSHED_MAX_QUEUE_LATENCY",
   "LOADSHED_MAX_INFLIGHT", "DEADLINE_BUFFER", "DEADLINE_MINIMUM"}

\* What is said of a numeric variable parses as its type, or is Junk.
Parsed(env) ==
  /\ \A v \in Numbers : env[v] \in Int \cup {Unset, Junk}
  /\ \A v \in Ratios : env[v] \in Int \cup {NaN, Unset, Junk}

\* A start: the raw values of the variables, or with entry "explicit" a Config
\* the program wrote down itself (NewWithConfig), which has every field; the
\* signs of a mesh around the process; and (bound) whether the calls of its
\* clients are explored.
ASSUME StartsAssumption ==
  /\ \A st \in Starts :
       /\ DOMAIN st = {"env", "entry", "signs", "busy"}
       /\ DOMAIN st.env = Variables /\ Parsed(st.env)
       /\ st.entry \in {"env", "explicit"}
       /\ st.entry = "explicit" =>
            {Unset, Junk} \cap {st.env[v] : v \in Variables} = {}
  /\ DOMAIN Repair = Variables /\ Parsed(Repair)
  /\ {Unset, Junk, NaN} \cap Int = {}
  /\ DOMAIN OwnClients = ClientIds

VARIABLES
  start,      \* what the process has been started with
  stage,      \* how far New or NewWithConfig is
  named,      \* the words by which its error names variables, once it has
              \*   returned one
  told,       \* auxiliary: the messages that have been shown so far, each by
              \*   what it names; Load's, whatever it lists, is {}
  parts,      \* the parts of the Service that exist
  providers,  \* Providers.shutdowns
  warned,     \* the mesh named in the startup warning, or None
  broken      \* clients the running service could not assemble

serviceVars ==
  <<start, stage, named, told, parts, providers, warned, broken>>

vars == <<clientsVars, serviceVars>>

-------------------------------------------------------------------------------
(* Load. *)

\* Comparison in Go: false with a NaN.
Less(a, b) == a # NaN /\ b # NaN /\ a < b

\* The value of a field, from what the environment says of its variable.
ValueOf(v, raw) ==
  IF raw # Unset THEN raw
  ELSE IF v \in DOMAIN Default THEN Default[v] ELSE Optional[v]

BreaksRule(v, value) ==
  \/ v \in DOMAIN OneOf /\ value \notin OneOf[v]
  \/ v \in DOMAIN AtLeast /\ Less(value, AtLeast[v])
  \/ v \in DOMAIN AtMost /\ Less(AtMost[v], value)

Wrong(v, raw) ==
  IF v \in Required /\ raw = Unset THEN TRUE
  ELSE raw = Junk \/ BreaksRule(v, ValueOf(v, raw))

Value(v) == ValueOf(v, start.env[v])

On(flag) == Value(flag) = TRUE

\* A mutated form: Load returns at the first problem.
FirstProblem ==
  LET wrong == {v \in Variables : Wrong(v, start.env[v])}
  IN  IF wrong = {} THEN {} ELSE {CHOOSE v \in wrong : TRUE}

Problems == {v \in Variables : Wrong(v, start.env[v])}

-------------------------------------------------------------------------------
(* The other checks return their first error, so they are listed in order,   *)
(* each with the words by which its message names variables.                 *)

FirstError(checks) ==
  LET failed == {i \in DOMAIN checks : checks[i].fails}
  IN  IF failed = {} THEN {} ELSE checks[Min(failed)].names

\* A mutated form: the last message says nothing of REQUEST_TIMEOUT.
TooTightUnnamed ==
  [fails |-> Value("DEADLINE_MINIMUM") >= Value("REQUEST_TIMEOUT"),
   names |-> {"DEADLINE_MINIMUM"}]

TooTight ==
  [fails |-> Value("DEADLINE_MINIMUM") >= Value("REQUEST_TIMEOUT"),
   names |-> {"DEADLINE_MINIMUM", "REQUEST_TIMEOUT"}]

\* Timing.Validate
TimingChecks ==
  LET needed == Value("PRESTOP_DELAY") + Value("DRAIN_TIMEOUT")
      grace == Value("TERMINATION_GRACE_PERIOD")
  IN  << [fails |-> Value("PRESTOP_DELAY") < 0, names |-> {"PreStopDelay"}],
         [fails |-> Value("DRAIN_TIMEOUT") <= 0, names |-> {"DrainTimeout"}],
         [fails |-> grace > 0 /\ needed >= grace,
          names |-> {"PreStopDelay", "DrainTimeout", "grace_period"}] >>

\* Config.Validate
ConfigChecks ==
  << [fails |-> /\ Value("MAIN_ADDR") = Value("ADMIN_ADDR")
                /\ Value("MAIN_ADDR") \notin EphemeralAddrs,
      names |-> {"MAIN_ADDR", "ADMIN_ADDR"}],
     [fails |-> /\ Value("OTEL_TRACES_EXPORTER") = "otlp"
                /\ Value("OTEL_EXPORTER_OTLP_ENDPOINT") = Empty,
      names |-> {"OTEL_TRACES_EXPORTER", "OTEL_EXPORTER_OTLP_ENDPOINT"}] >>
  \o TimingChecks \o << TooTight >>

\* A mutated form: the message names a variable that does not exist.
LevelChecksMisspelt ==
  << [fails |-> Value("LOG_LEVEL") \notin LogLevels, names |-> {"LOGLEVEL"}] >>

\* telemetry.ParseLevel; NewWithConfig puts the name before its message.
LevelChecks ==
  << [fails |-> Value("LOG_LEVEL") \notin LogLevels, names |-> {"LOG_LEVEL"}] >>

\* Outside [low, high], as the Validate functions test it.
Outside(x, low, high) == Less(x, low) \/ Less(high, x)

\* What Init knows as an exporter.
Exporters == {"none", "stdout", "otlp", Empty}

\* telemetry.Init; external: the exporters it constructs do not fail.
TelemetryChecks ==
  << [fails |-> Value("SERVICE_NAME") = Empty, names |-> {"ServiceName"}],
     [fails |-> Outside(Value("OTEL_TRACES_SAMPLER_ARG"), 0, 10),
      names |-> {"SampleRatio"}],
     [fails |-> Value("OTEL_TRACES_EXPORTER") \notin Exporters,
      names |-> {"exporter"}] >>

\* breaker.Config.Validate, budget.Config.Validate, shed.Config.Validate and
\* retry.Config.Validate, for what is not a default of theirs.
BreakerFits(minimum, ratio) ==
  ~(minimum < 1) /\ ratio # 0 /\ ~Outside(ratio, 0, 10)
BudgetFits(ratio) == ~Outside(ratio, 0, 10)
ShedderFits(latency, inFlight) == ~(latency < 0) /\ ~(inFlight < 0)
RetryFits(attempts) == attempts >= 0

-------------------------------------------------------------------------------
(* Starting. *)

Refuse(names) ==
  /\ stage' = "refused"
  /\ named' = names
  /\ told' = told \cup {IF stage = "load" THEN {} ELSE names}

\* One stage: refused with the first error, or on to the next.
Checked(names, next) ==
  IF names # {} THEN Refuse(names)
  ELSE stage' = next /\ UNCHANGED <<named, told>>

\* LoadConfig, first half; NewWithConfig begins after it.
Load ==
  /\ stage = "load"
  /\ IF start.entry = "env"
     THEN Checked(Problems, "validate")
     ELSE stage' = "validate" /\ UNCHANGED <<named, told>>
  /\ UNCHANGED <<clientsVars, start, parts, providers, warned, broken>>

\* Its second half; NewWithConfig validates the same Config once more.
Validate ==
  /\ stage = "validate"
  /\ Checked(FirstError(ConfigChecks), "level")
  /\ UNCHANGED <<clientsVars, start, parts, providers, warned, broken>>

ParseLevel ==
  /\ stage = "level"
  /\ Checked(FirstError(LevelChecks), "telemetry")
  /\ UNCHANGED <<clientsVars, start, parts, providers, warned, broken>>

InitTelemetry ==
  /\ stage = "telemetry"
  /\ LET names == FirstError(TelemetryChecks)
         tracing == Value("OTEL_TRACES_EXPORTER") # "none" IN
       /\ Checked(names, "resilience")
       /\ IF names # {} THEN UNCHANGED <<providers, parts>>
          ELSE /\ providers' =
                    (IF tracing THEN <<"traces">> ELSE <<>>) \o
                    (IF On("METRICS_ENABLED") THEN <<"metrics">> ELSE <<>>)
               /\ parts' = parts \cup {"guard"}
  /\ UNCHANGED <<clientsVars, start, warned, broken>>

\* buildResilience: the parts in order, until one refuses its configuration.
Built ==
  << [part |-> "breakers", flag |-> "BREAKER_ENABLED",
      fits |-> BreakerFits(Value("BREAKER_MIN_REQUESTS"),
                           Value("BREAKER_FAILURE_RATIO")),
      names |-> IF Value("BREAKER_MIN_REQUESTS") < 1
                THEN {"MinimumRequests"} ELSE {"FailureRatio"}],
     [part |-> "budget", flag |-> "RETRY_ENABLED",
      fits |-> BudgetFits(Value("RETRY_BUDGET")), names |-> {"Ratio"}],
     [part |-> "shedder", flag |-> "LOADSHED_ENABLED",
      fits |-> ShedderFits(Value("LOADSHED_MAX_QUEUE_LATENCY"),
                           Value("LOADSHED_MAX_INFLIGHT")),
      names |-> IF Value("LOADSHED_MAX_QUEUE_LATENCY") < 0
                THEN {"MaxQueueLatency"} ELSE {"MaxInFlight"}] >>

ResilienceChecks ==
  [i \in DOMAIN Built |->
     [fails |-> On(Built[i].flag) /\ ~Built[i].fits, names |-> Built[i].names]]

BuildResilience ==
  /\ stage = "resilience"
  /\ Checked(FirstError(ResilienceChecks), "interceptors")
  /\ parts' = parts \cup
       {Built[i].part : i \in {i \in DOMAIN Built :
          /\ On(Built[i].flag)
          /\ \A j \in 1 .. i : ~ResilienceChecks[j].fails}}
  /\ UNCHANGED <<clientsVars, start, providers, warned, broken>>

\* DetectMesh: the first sign there is.
DetectMesh ==
  LET seen == {i \in DOMAIN MeshSigns : MeshSigns[i].sign \in start.signs}
  IN  IF seen = {} THEN None ELSE MeshSigns[Min(seen)].mesh

\* buildInterceptors, which has a LoadShed if there is a shedder; the warning;
\* and the handlers, which take the chain.
BuildInterceptors ==
  /\ stage = "interceptors"
  /\ stage' = "built"
  /\ parts' = parts \cup {"metrics interceptor"} \cup
       (IF "shedder" \in parts THEN {"LoadShed"} ELSE {})
  /\ warned' = IF On("RETRY_ENABLED") THEN DetectMesh ELSE None
  /\ UNCHANGED <<clientsVars, start, named, told, providers, broken>>

\* Whoever puts variables right gives each a value that breaks no rule, and
\* gives them values that go together.
ASSUME RepairAssumption ==
  LET needed == Repair["PRESTOP_DELAY"] + Repair["DRAIN_TIMEOUT"]
      grace == Repair["TERMINATION_GRACE_PERIOD"]
  IN  /\ \A v \in Variables : Repair[v] # Unset /\ ~Wrong(v, Repair[v])
      /\ Repair["MAIN_ADDR"] # Repair["ADMIN_ADDR"]
      /\ Repair["OTEL_EXPORTER_OTLP_ENDPOINT"] # Empty
      /\ Repair["PRESTOP_DELAY"] >= 0 /\ Repair["DRAIN_TIMEOUT"] > 0
      /\ grace > 0 => needed < grace
      /\ Repair["DEADLINE_MINIMUM"] < Repair["REQUEST_TIMEOUT"]
      /\ Repair["LOG_LEVEL"] \in LogLevels
      /\ Repair["SERVICE_NAME"] # Empty
      /\ BreakerFits(Repair["BREAKER_MIN_REQUESTS"],
                     Repair["BREAKER_FAILURE_RATIO"])
      /\ ShedderFits(Repair["LOADSHED_MAX_QUEUE_LATENCY"],
                     Repair["LOADSHED_MAX_INFLIGHT"])

\* The process exits with the message, somebody reads it, puts right what it
\* names and starts the process again.
FixAndRestart ==
  /\ stage = "refused" /\ start.entry = "env"
  /\ LET fixed == [v \in Variables |->
                    IF v \in Meant(named) THEN Repair[v] ELSE start.env[v]]
     IN  start' = [env |-> fixed, entry |-> "env",
                   signs |-> start.signs, busy |-> start.busy]
  /\ stage' = "load"
  /\ named' = {}
  /\ parts' = {} /\ providers' = <<>>
  /\ UNCHANGED <<clientsVars, told, warned, broken>>

-------------------------------------------------------------------------------
(* The clients. *)

\* Service.clientChain, through ClientInterceptors: the service's group, a
\* retrier with a Policy of its own.  retry.New may refuse the attempts here,
\* on the running service.
ClientChain(k) ==
  /\ stage = "built" /\ chain[k] = None /\ k \notin broken
  /\ IF On("RETRY_ENABLED") /\ ~RetryFits(Value("RETRY_MAX_ATTEMPTS"))
     THEN broken' = broken \cup {k} /\ UNCHANGED clientsVars
     ELSE /\ Build(k, On("RETRY_ENABLED"),
                   IF "breakers" \in parts THEN Service ELSE None)
          /\ UNCHANGED broken
  /\ UNCHANGED <<start, stage, named, told, parts, providers, warned>>

\* client.New: a group and a budget of its own.  It refuses a Config that one
\* of the three parts refuses, and nothing is built then.
NewClient(k) ==
  /\ stage = "built" /\ start.busy
  /\ \E c \in OwnClients[k] :
       /\ ~c.disableRetry => BudgetFits(c.budget) /\ RetryFits(c.attempts)
       /\ ~c.disableBreaker => BreakerFits(c.minimum, c.ratio)
       /\ Build(k, ~c.disableRetry, IF c.disableBreaker THEN None ELSE k)
  /\ UNCHANGED serviceVars

\* Calls, and scrapes of the admin server.
Calls ==
  /\ stage = "built" /\ start.busy
  /\ CallsNext
  /\ UNCHANGED serviceVars

-------------------------------------------------------------------------------

Init ==
  /\ ClientsInit
  /\ start \in Starts
  /\ stage = "load" /\ named = {} /\ told = {}
  /\ parts = {} /\ providers = <<>> /\ warned = None /\ broken = {}

StartingStep ==
  \/ Load \/ Validate \/ ParseLevel \/ InitTelemetry \/ BuildResilience
  \/ BuildInterceptors
  \/ FixAndRestart

Next ==
  \/ StartingStep
  \/ \E k \in ClientIds : ClientChain(k) \/ NewClient(k)
  \/ Calls

\* New runs on, and every refusal is read by somebody.
Spec ==
  /\ Init /\ [][Next]_vars
  /\ WF_vars(StartingStep)
  /\ Scheduling

-------------------------------------------------------------------------------
(* Properties. *)

\* Type invariant.  What a refusal names is a variable, or one of the fields
\* that hold one (lifecycle.md:24-25 says the variable; see the README).
TypeOK ==
  /\ ClientsTypeOK
  /\ stage \in {"load", "validate", "level", "telemetry", "resilience",
                "interceptors", "built", "refused"}
  /\ start.entry \in {"env", "explicit"} /\ DOMAIN start.env = Variables
  /\ named \subseteq Words
  /\ broken \subseteq ClientIds
  /\ told \subseteq SUBSET Words

\* No message is shown twice: whoever puts right what a refusal names is past
\* that check for good, however many variables were wrong, alone or together,
\* and whatever is put right after it.  Load's list counts as one message,
\* since it names every problem Load has (config.go:43-45); the checks after it
\* are shown one on each restart (service/config.go:86-125, service.go:86-208).
NeverToldTwice ==
  [][stage # "refused" /\ stage' = "refused" => told' # told]_vars

\* Whatever a deployment got wrong, its variables or their combination, fixing
\* what each refusal names gets the service built, if the fields that some of
\* them name are traced to their variables (config.go:88-90).
FixingConverges == start.entry = "env" ~> stage = "built"

\* A service that starts from the environment is one that works: its features
\* are on or off as asked, none of them has to be refused later, on the first
\* call, and the shutdown it may have to do fits (service/config.go:23-26).
StartedIsUsable ==
  stage = "built" /\ start.entry = "env" =>
    /\ broken = {}
    /\ "breakers" \in parts <=> On("BREAKER_ENABLED")
    /\ "LoadShed" \in parts <=> On("LOADSHED_ENABLED")
    /\ "breakers" \in parts =>
         Value("BREAKER_FAILURE_RATIO") = NaN
           \/ Value("BREAKER_FAILURE_RATIO") \in 1 .. 10
    /\ Value("TERMINATION_GRACE_PERIOD") > 0 =>
         Value("PRESTOP_DELAY") + Value("DRAIN_TIMEOUT")
           < Value("TERMINATION_GRACE_PERIOD")
    /\ warned # None => On("RETRY_ENABLED") /\ start.signs # {}
================================================================================
