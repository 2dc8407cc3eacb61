---------------------------------- MODULE Hops ----------------------------------
(*****************************************************************************)
(* One call of an outermost client and all the requests it leads to, service *)
(* by service: the deadline budget of each hop's client                      *)
(* (src/v1/resilience/deadline/deadline.go, retry.go:215-300), the time that *)
(* travels with a request as what is left of it, the Timeout interceptor of  *)
(* each server (src/v1/interceptor/timeout.go), and the HTTP client's own    *)
(* timeout at the outermost client (src/v1/client/client.go:35-39).          *)
(*                                                                           *)
(* A node is one request: Root is the outermost call, and Child[n][a] what   *)
(* attempt a of the outbound call made while serving n sends.  Requests and  *)
(* answers take time and may be lost, with or without anybody noticing; who  *)
(* has stopped waiting does not stop the one who works.  Which errors are    *)
(* retried is in ResilientClient; here any may be, but the end of a context. *)
(*****************************************************************************)
EXTENDS Integers

CONSTANTS
  Nodes, Root,
  MaxAttempts,  \* retry.Config.MaxAttempts: attempts after the first
  Child,        \* the tree of requests; None below the last service
  Deadlines,    \* what the outermost caller may set: a deadline, or None
  Buffer,       \* deadline.Budget
  Minimum,
  Timeout,      \* per node: REQUEST_TIMEOUT of the service that serves it
  Backstop,     \* client.Config.Timeout of the outermost client
  Backoff,      \* bound on one backoff
  Latency,      \* bound on the way of a request
  None

Attempts == 0 .. MaxAttempts

\* No request takes longer than the buffer that is kept for the hop.
ASSUME HopsAssumption ==
  /\ Root \in Nodes
  /\ MaxAttempts \in Nat
  /\ Child \in [Nodes -> [Attempts -> (Nodes \ {Root}) \cup {None}]]
  /\ \A m, n \in Nodes : \A a, b \in Attempts :
       Child[m][a] = Child[n][b] /\ Child[m][a] # None => m = n /\ a = b
  /\ None \notin Nodes \cup Int
  /\ Deadlines \subseteq Nat \cup {None}
  /\ {Buffer, Minimum, Backoff, Latency} \subseteq Nat
  /\ Backstop \in Nat \ {0}
  /\ Timeout \in [Nodes -> Nat]
  /\ Latency <= Buffer

VARIABLES
  now,
  pc,   \* per node: "unsent", "sent", "lost", "working", "calling",
        \*   "backoff", "after" (its call is over) or "done"
  dl,   \* the deadline of its context, or None
  left, \* of a request on its way: what its header leaves it, or None
  due,  \* when, at the latest, what pc waits for ends; None: no timer
  att   \* the attempt of its outbound call

vars == <<now, pc, dl, left, due, att>>

Set(f, n, value) == [f EXCEPT ![n] = value]

Due(n) == due[n] # None /\ now >= due[n]

-------------------------------------------------------------------------------
(* The outbound call of a node. *)

\* A mutated form: nothing is kept back for this hop.
NarrowedNot(n) == dl[n]

\* Derive: the attempt's context ends a Buffer before its caller's, and a
\* context without a deadline is passed through.
Narrowed(n) == IF dl[n] = None THEN None ELSE dl[n] - Buffer

\* Otherwise Derive refuses to start.
WorthStarting(n) == dl[n] = None \/ dl[n] - now - Buffer >= Minimum

\* A mutated form: the outermost client has no timeout of its own.
AttemptEndsUnbounded(n) == Narrowed(n)

\* When the wait for the answer ends, if none comes.
AttemptEnds(n) ==
  IF n # Root THEN Narrowed(n)
  ELSE IF Narrowed(n) # None /\ Narrowed(n) <= now + Backstop THEN Narrowed(n)
  ELSE now + Backstop

\* One turn of the loop in Do; the header says what is left of the context.
Try(n, a) ==
  LET c == Child[n][a] IN
  IF WorthStarting(n)
  THEN /\ pc' = [pc EXCEPT ![n] = "calling", ![c] = "sent"]
       /\ left' = Set(left, c, IF Narrowed(n) = None THEN None
                               ELSE Narrowed(n) - now)
       /\ due' = [due EXCEPT ![n] = AttemptEnds(n), ![c] = now + Latency]
       /\ att' = Set(att, n, a)
       /\ UNCHANGED <<now, dl>>
  ELSE /\ pc' = Set(pc, n, "after")
       /\ due' = Set(due, n, dl[n])
       /\ UNCHANGED <<now, dl, left, att>>

CallOut(n) == pc[n] = "working" /\ Child[n][0] # None /\ Try(n, 0)

Awaited(n) == Child[n][att[n]]

\* The attempt is over, and so is the call.
Settled(n) ==
  /\ pc' = Set(pc, n, "after")
  /\ due' = Set(due, n, dl[n])
  /\ UNCHANGED <<now, dl, left, att>>

\* Or it is to be tried again, after a backoff that the context may cut short.
BackOff(n) ==
  /\ att[n] < MaxAttempts /\ Child[n][att[n] + 1] # None
  /\ pc' = Set(pc, n, "backoff")
  /\ due' = Set(due, n, IF dl[n] # None /\ dl[n] <= now + Backoff THEN dl[n]
                        ELSE now + Backoff)
  /\ UNCHANGED <<now, dl, left, att>>

\* The answer comes, however long after it was sent; or it never does.
Answered(n) ==
  /\ pc[n] = "calling" /\ pc[Awaited(n)] = "done"
  /\ Settled(n) \/ BackOff(n)

\* external: the connection breaks, whatever the other side is doing.
Broken(n) == pc[n] = "calling" /\ (Settled(n) \/ BackOff(n))

\* The attempt's context, or the HTTP client's timeout, ends: not retried.
Expired(n) == pc[n] = "calling" /\ Due(n) /\ Settled(n)

\* The timer of the backoff, or the end of the context, which ends the call.
WakeUp(n) ==
  /\ pc[n] = "backoff"
  /\ Try(n, att[n] + 1) \/ (dl[n] # None /\ now >= dl[n] /\ Settled(n))

-------------------------------------------------------------------------------
(* The server of a node. *)

\* external: the server's context gets what the header leaves it, from now.
FromHeader(n) == IF left[n] = None THEN None ELSE now + left[n]

\* The Timeout interceptor, which only ever shortens.
Capped(n) ==
  IF Timeout[n] = 0 THEN FromHeader(n)
  ELSE IF FromHeader(n) # None /\ FromHeader(n) <= now + Timeout[n]
       THEN FromHeader(n)
  ELSE now + Timeout[n]

Arrive(n) ==
  /\ pc[n] = "sent"
  /\ pc' = Set(pc, n, "working")
  /\ dl' = Set(dl, n, Capped(n))
  /\ due' = Set(due, n, Capped(n))
  /\ left' = Set(left, n, None)
  /\ UNCHANGED <<now, att>>

Lose(n) ==
  /\ pc[n] = "sent"
  /\ pc' = Set(pc, n, "lost")
  /\ left' = Set(left, n, None) /\ due' = Set(due, n, None)
  /\ UNCHANGED <<now, dl, att>>

\* external: a handler returns by the end of its context, having made its
\* outbound call or not.
Finish(n) ==
  /\ pc[n] \in {"working", "after"}
  /\ pc' = Set(pc, n, "done")
  /\ due' = Set(due, n, None)
  /\ UNCHANGED <<now, dl, left, att>>

-------------------------------------------------------------------------------

Waiting == {"sent", "working", "calling", "backoff", "after"}

\* Time passes while a timer runs, and not past what must happen by now.
Tick ==
  /\ \E n \in Nodes : pc[n] \in Waiting /\ due[n] # None
  /\ \A n \in Nodes : ~(pc[n] \in Waiting /\ Due(n))
  /\ now' = now + 1
  /\ UNCHANGED <<pc, dl, left, due, att>>

Init ==
  /\ now = 0
  /\ pc = [n \in Nodes |-> IF n = Root THEN "working" ELSE "unsent"]
  /\ \E d \in Deadlines :
       /\ dl = [n \in Nodes |-> IF n = Root THEN d ELSE None]
       /\ due = dl
  /\ left = [n \in Nodes |-> None]
  /\ att = [n \in Nodes |-> 0]

\* What happens to a node without the help of anybody else.
OwnStep(n) ==
  Arrive(n) \/ Lose(n) \/ Finish(n) \/ CallOut(n) \/ Expired(n) \/ WakeUp(n)

Next == Tick \/ \E n \in Nodes : OwnStep(n) \/ Answered(n) \/ Broken(n)

\* Timers fire, goroutines run, and a request that is under way arrives or is
\* lost.  Nothing is assumed of answers, or of anybody noticing a loss.
Fairness == WF_vars(Tick) /\ \A n \in Nodes : WF_vars(OwnStep(n))

Spec == Init /\ [][Next]_vars /\ Fairness

-------------------------------------------------------------------------------
(* Properties. *)

\* Type invariant.
TypeOK ==
  /\ now \in Nat
  /\ pc \in [Nodes -> {"unsent", "sent", "lost", "working", "calling",
                       "backoff", "after", "done"}]
  /\ dl \in [Nodes -> Int \cup {None}]
  /\ left \in [Nodes -> Int \cup {None}]
  /\ due \in [Nodes -> Int \cup {None}]
  /\ att \in [Nodes -> Attempts]

Serving == {"working", "calling", "backoff", "after"}

\* Nobody works for a caller who has given up: as long as a request is served,
\* the deadline of the outermost caller has not passed, nor that of the hop
\* that sent it, over any number of hops, attempts and messages that were
\* slow or lost (deadline.go:6-19, timeout.go:12-16).
NoWorkForTheDeparted ==
  \A n \in Nodes : pc[n] \in Serving =>
    /\ dl[Root] # None => now <= dl[Root]
    /\ \A m \in Nodes, a \in Attempts :
         Child[m][a] = n /\ dl[m] # None => now <= dl[m]

\* The outermost call returns, with or without a deadline of its own and
\* whatever is lost on the way (client.go:35-39).
RootReturns == <>(pc[Root] = "done")
================================================================================
