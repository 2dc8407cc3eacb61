------------------------------ MODULE MCAssembly ------------------------------
(* Deployments with at most two odd variables; a few set up in code.         *)
EXTENDS Assembly, TLC

CONSTANTS k1, k2

MCTarget == k1 :> "ledger" @@ k2 :> "ledger"
MCProcedures == {"Get", "Charge"}
MCDescriptor == [Get |-> "NO_SIDE_EFFECTS", Charge |-> "not found"]
MCUses == {<<k1, "Get">>, <<k2, "Charge">>}

DefaultClient ==
  [disableRetry |-> FALSE, disableBreaker |-> FALSE, budget |-> 2,
   attempts |-> 2, minimum |-> 20, ratio |-> 5]
MCOwnClients == k1 :> {} @@ k2 :> {DefaultClient,
                                   [DefaultClient EXCEPT !.ratio = 0]}

Required3 == [SERVICE_NAME |-> "frontend", ENVIRONMENT |-> "prod",
              OTEL_EXPORTER_OTLP_ENDPOINT |-> "http://collector:4318"]

Plain == [v \in Variables |->
            IF v \in DOMAIN Required3 THEN Required3[v] ELSE Unset]

\* What an operator makes of a variable that is named in an error.
MCRepair ==
  Required3 @@ [TERMINATION_GRACE_PERIOD |-> 6000] @@ Default

\* The odd values, or their absence, that a variable may have.
Odd ==
  [SERVICE_NAME |-> {Unset}, ENVIRONMENT |-> {Unset, "production"},
   MAIN_ADDR |-> {":9090", ":0"}, ADMIN_ADDR |-> {":8080", ":0"},
   OTEL_TRACES_EXPORTER |-> {"none", "jaeger"},
   OTEL_EXPORTER_OTLP_ENDPOINT |-> {Unset},
   OTEL_TRACES_SAMPLER_ARG |-> {Junk, -1, 11, NaN},
   METRICS_ENABLED |-> {FALSE, Junk},
   LOG_LEVEL |-> {"warning"}, LOG_FORMAT |-> {"xml"},
   PRESTOP_DELAY |-> {-1, 0, Junk}, DRAIN_TIMEOUT |-> {0, 5500},
   TERMINATION_GRACE_PERIOD |-> {3000, 3001}, REQUEST_TIMEOUT |-> {0, 2, 3},
   RETRY_ENABLED |-> {FALSE}, RETRY_BUDGET |-> {-1, 0, NaN},
   RETRY_MAX_ATTEMPTS |-> {-1, 6},
   BREAKER_ENABLED |-> {FALSE}, BREAKER_FAILURE_RATIO |-> {0, 11, NaN},
   BREAKER_MIN_REQUESTS |-> {0},
   LOADSHED_ENABLED |-> {FALSE}, LOADSHED_MAX_QUEUE_LATENCY |-> {-1},
   LOADSHED_MAX_INFLIGHT |-> {-1},
   DEADLINE_MINIMUM |-> {3000, Junk}]

AStart(env, entry, signs, busy) ==
  [env |-> env, entry |-> entry, signs |-> signs, busy |-> busy]

Deployments ==
  {AStart([Plain EXCEPT ![o[1]] = o[3], ![o[2]] = o[4]], "env", {}, FALSE) :
     o \in UNION {{a} \X {b} \X Odd[a] \X Odd[b] : a, b \in DOMAIN Odd}}

Meshes ==
  {AStart([Plain EXCEPT !["RETRY_ENABLED"] = retry], "env", signs, FALSE) :
     retry \in BOOLEAN,
     signs \in SUBSET {MeshSigns[i].sign : i \in DOMAIN MeshSigns}}

\* NewWithConfig skips the tags' rules.
InCode ==
  LET full == [v \in Variables |->
                 IF Plain[v] # Unset THEN Plain[v] ELSE MCRepair[v]]
  IN  {AStart([full EXCEPT ![v] = x], "explicit", {}, FALSE) :
         v \in {"RETRY_MAX_ATTEMPTS"}, x \in {-1, 6}}
      \cup {AStart([full EXCEPT !["SERVICE_NAME"] = ""], "explicit", {}, FALSE),
            AStart([full EXCEPT !["RETRY_BUDGET"] = 11], "explicit", {}, FALSE),
            AStart([full EXCEPT !["BREAKER_ENABLED"] = FALSE], "explicit", {},
                   FALSE)}

MCStarts == Deployments \cup Meshes \cup InCode
              \cup {AStart(Plain, "env", {}, TRUE)}
================================================================================
