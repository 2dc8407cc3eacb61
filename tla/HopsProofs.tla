------------------------------ MODULE HopsProofs ------------------------------
(*****************************************************************************)
(* Proofs about Hops, for every tree of requests, every deadline, timeout    *)
(* and bound that HopsAssumption admits.                                     *)
(*****************************************************************************)
EXTENDS Hops, TLAPS

\* The timers of a node: what it waits for is not past, and ends no later than
\* its context; a request on its way has time left, and a bound on its way.
OnTime(n) ==
  /\ pc[n] \in Waiting /\ due[n] # None => now <= due[n]
  /\ pc[n] \in Serving /\ dl[n] # None => due[n] # None /\ due[n] <= dl[n]
  /\ left[n] # None => left[n] >= 0
  /\ pc[n] = "sent" => due[n] # None
  /\ pc[n] = "backoff" =>
       att[n] + 1 \in Attempts /\ Child[n][att[n] + 1] # None

\* A request is sent by a node that serves, or has served, and only once.
SentOnce(m, a) ==
  Child[m][a] # None /\ pc[Child[m][a]] # "unsent" =>
    pc[m] \in (Serving \ {"working"}) \cup {"done"} /\ a <= att[m]

\* The deadline of n is, or will be when it arrives, no later than d.
Within(n, d) ==
  d # None =>
    /\ pc[n] = "sent" => left[n] # None /\ due[n] + left[n] <= d
    /\ pc[n] \in Serving => dl[n] # None /\ dl[n] <= d

\* The inductive invariant.
HopsInv ==
  /\ TypeOK
  /\ pc[Root] \in Serving \cup {"done"}
  /\ \A n \in Nodes : OnTime(n) /\ Within(n, dl[Root])
  /\ \A m \in Nodes, a \in Attempts :
       /\ SentOnce(m, a)
       /\ Child[m][a] # None => Within(Child[m][a], dl[m])

-------------------------------------------------------------------------------

LEMMA ChildIsNode ==
  ASSUME NEW m \in Nodes, NEW a \in Attempts, Child[m][a] # None
  PROVE  Child[m][a] \in Nodes \ {Root}
  BY HopsAssumption

\* A step that leaves the clock and the deadlines alone, and of the other
\* variables touches only what belongs to one node, keeps the invariant if it
\* does so for that node.
LEMMA OneNode ==
  ASSUME HopsInv, NEW n \in Nodes,
         TypeOK',
         now' = now, dl' = dl,
         \A m \in Nodes \ {n} : /\ pc'[m] = pc[m] /\ left'[m] = left[m]
                                /\ due'[m] = due[m] /\ att'[m] = att[m],
         pc[n] # "unsent",
         att'[n] = att[n],
         OnTime(n)',
         pc'[n] = "sent" => pc[n] = "sent" /\ left'[n] = left[n] /\ due'[n] = due[n],
         pc'[n] \in Serving => pc[n] \in Serving,
         pc[n] \in Serving => pc'[n] \in (Serving \ {"working"}) \cup {"done"},
         pc[n] = "done" => pc'[n] = "done",
         n = Root => pc'[n] \in Serving \cup {"done"}
  PROVE  HopsInv'
  <1>1. pc'[Root] \in Serving \cup {"done"}
    BY HopsAssumption DEF HopsInv
  <1>2. ASSUME NEW m \in Nodes, NEW d, Within(m, d)
        PROVE  Within(m, d)'
    BY <1>2 DEF Within
  <1>3. \A m \in Nodes : OnTime(m)'
    BY DEF HopsInv, OnTime
  <1>4. \A m \in Nodes : Within(m, dl[Root])'
    BY <1>2 DEF HopsInv, Within
  <1>5. ASSUME NEW m \in Nodes, NEW a \in Attempts
        PROVE  /\ SentOnce(m, a)'
               /\ Child[m][a] # None => Within(Child[m][a], dl[m])'
    <2>1. SentOnce(m, a)
      BY DEF HopsInv
    <2>2. Child[m][a] # None => Child[m][a] \in Nodes
      BY ChildIsNode
    <2>3. SentOnce(m, a)'
      BY <2>1, <2>2 DEF SentOnce, Serving
    <2>4. Child[m][a] # None => Within(Child[m][a], dl[m])'
      BY <2>2, <1>2 DEF HopsInv, Within
    <2> QED
      BY <2>3, <2>4
  <1> QED
    BY <1>1, <1>3, <1>4, <1>5 DEF HopsInv

\* A call over, or to be tried again.
LEMMA SettledKeepsInv ==
  ASSUME HopsInv, NEW n \in Nodes, Settled(n), pc[n] \in Serving
  PROVE  HopsInv'
  <1>1. /\ now' = now /\ dl' = dl /\ left' = left /\ att' = att
        /\ pc' = [pc EXCEPT ![n] = "after"]
        /\ due' = [due EXCEPT ![n] = dl[n]]
    BY DEF Settled, Set
  <1>2. TypeOK'
    BY <1>1 DEF HopsInv, TypeOK
  <1>3. OnTime(n)'
    BY <1>1 DEF HopsInv, TypeOK, OnTime, Waiting, Serving
  <1> QED
    BY <1>1, <1>2, <1>3, OneNode DEF HopsInv, TypeOK, Serving

LEMMA BackOffKeepsInv ==
  ASSUME HopsInv, NEW n \in Nodes, BackOff(n), pc[n] = "calling"
  PROVE  HopsInv'
  <1>1. /\ now' = now /\ dl' = dl /\ left' = left /\ att' = att
        /\ pc' = [pc EXCEPT ![n] = "backoff"]
        /\ due' = [due EXCEPT ![n] =
                     IF dl[n] # None /\ dl[n] <= now + Backoff THEN dl[n]
                     ELSE now + Backoff]
        /\ att[n] < MaxAttempts /\ Child[n][att[n] + 1] # None
    BY DEF BackOff, Set
  <1>2. TypeOK'
    BY <1>1, HopsAssumption DEF HopsInv, TypeOK
  <1>3. att[n] + 1 \in Attempts
    BY <1>1, HopsAssumption DEF HopsInv, TypeOK, Attempts
  <1>4. dl[n] # None => now <= dl[n] /\ dl[n] \in Int
    BY DEF HopsInv, TypeOK, OnTime, Waiting, Serving
  <1>5. /\ now \in Nat /\ now + Backoff \in Int /\ now <= now + Backoff
        /\ now + Backoff # None
    BY HopsAssumption DEF HopsInv, TypeOK
  <1>6. /\ due'[n] # None /\ now <= due'[n]
        /\ dl[n] # None => due'[n] <= dl[n]
    BY <1>1, <1>4, <1>5 DEF HopsInv, TypeOK
  <1>7. OnTime(n)'
    BY <1>1, <1>3, <1>6 DEF HopsInv, TypeOK, OnTime
  <1> QED
    BY <1>1, <1>2, <1>7, OneNode DEF HopsInv, TypeOK, Serving

\* An attempt that is sent to c, which nobody has sent anything to.
LEMMA TryKeepsInv ==
  ASSUME HopsInv, NEW n \in Nodes, NEW a \in Attempts, Try(n, a),
         pc[n] \in Serving,
         Child[n][a] # None, pc[Child[n][a]] = "unsent",
         \A b \in Attempts :
           Child[n][b] # None /\ pc[Child[n][b]] # "unsent" => b <= a
  PROVE  HopsInv'
  <1> DEFINE c == Child[n][a]
  <1>1. c \in Nodes \ {Root} /\ c # n
    BY ChildIsNode DEF Serving
  <1>2. CASE ~WorthStarting(n)
    <2>1. Settled(n)
      BY <1>2 DEF Try, Settled
    <2> QED
      BY <2>1, SettledKeepsInv
  <1>3. CASE WorthStarting(n)
    <2>1. /\ now' = now /\ dl' = dl
          /\ pc' = [pc EXCEPT ![n] = "calling", ![c] = "sent"]
          /\ left' = [left EXCEPT ![c] = IF Narrowed(n) = None THEN None
                                        ELSE Narrowed(n) - now]
          /\ due' = [due EXCEPT ![n] = AttemptEnds(n), ![c] = now + Latency]
          /\ att' = [att EXCEPT ![n] = a]
      BY <1>3 DEF Try, Set
    <2>2. /\ now \in Nat /\ dl[n] \in Int \cup {None}
          /\ Buffer \in Nat /\ Minimum \in Nat /\ Latency \in Nat
          /\ Latency <= Buffer /\ Backstop \in Nat /\ None \notin Int
      BY HopsAssumption DEF HopsInv, TypeOK
    <2>3. dl[n] = None => Narrowed(n) = None
      BY DEF Narrowed
    <2>4. dl[n] # None =>
            /\ Narrowed(n) \in Int /\ Narrowed(n) # None
            /\ now <= Narrowed(n) /\ Narrowed(n) <= dl[n] - Latency
      BY <1>3, <2>2 DEF Narrowed, WorthStarting
    <2>5. /\ AttemptEnds(n) \in Int \cup {None}
          /\ AttemptEnds(n) # None => now <= AttemptEnds(n)
          /\ dl[n] # None => AttemptEnds(n) # None /\ AttemptEnds(n) <= dl[n]
      BY <2>2, <2>3, <2>4 DEF AttemptEnds
    <2>6. /\ pc'[n] = "calling" /\ due'[n] = AttemptEnds(n) /\ left'[n] = left[n]
          /\ att'[n] = a /\ pc'[c] = "sent" /\ due'[c] = now + Latency
          /\ att'[c] = att[c]
          /\ left'[c] = IF Narrowed(n) = None THEN None ELSE Narrowed(n) - now
          /\ \A m \in Nodes \ {n, c} : pc'[m] = pc[m] /\ att'[m] = att[m]
      BY <1>1, <2>1 DEF HopsInv, TypeOK
    <2>7. TypeOK'
      BY <1>1, <2>1, <2>2, <2>3, <2>4, <2>5 DEF HopsInv, TypeOK
    <2>8. \A m \in Nodes : OnTime(m)'
      <3>1. OnTime(n)'
        BY <2>1, <2>5, <2>6 DEF HopsInv, OnTime, Serving
      <3>2. OnTime(c)'
        BY <2>1, <2>2, <2>3, <2>4, <2>6 DEF OnTime, Serving
      <3>3. ASSUME NEW m \in Nodes \ {n, c} PROVE OnTime(m)'
        BY <2>1 DEF HopsInv, TypeOK, OnTime
      <3> QED
        BY <3>1, <3>2, <3>3
    <2>9. ASSUME NEW m \in Nodes, NEW d \in Int \cup {None}, Within(m, d),
                 m = c => (d # None => dl[n] # None /\ dl[n] <= d)
          PROVE  Within(m, d)'
      <3>1. CASE m = c
        BY <3>1, <2>2, <2>4, <2>6, <2>9 DEF Within, Serving
      <3>2. CASE m # c
        BY <3>2, <2>1, <2>6, <2>9 DEF Within, Serving, HopsInv, TypeOK
      <3> QED
        BY <3>1, <3>2
    <2>10. \A m \in Nodes : Within(m, dl[Root])'
      <3>1. dl[Root] # None => dl[n] # None /\ dl[n] <= dl[Root]
        BY DEF HopsInv, Within
      <3>2. ASSUME NEW m \in Nodes PROVE Within(m, dl[Root])'
        <4>1. Within(m, dl[Root]) /\ dl[Root] \in Int \cup {None}
          BY HopsAssumption DEF HopsInv, TypeOK
        <4> QED
          BY <2>1, <2>9, <3>1, <4>1 DEF Within
      <3> QED
        BY <3>2
    <2>11. ASSUME NEW m \in Nodes, NEW b \in Attempts
           PROVE  /\ SentOnce(m, b)'
                  /\ Child[m][b] # None => Within(Child[m][b], dl[m])'
      <3>1. /\ SentOnce(m, b)
            /\ Child[m][b] # None =>
                 Within(Child[m][b], dl[m]) /\ Child[m][b] \in Nodes
        BY ChildIsNode DEF HopsInv
      <3>2. Child[m][b] = c => m = n /\ b = a
        BY <1>1, HopsAssumption
      <3>3. SentOnce(m, b)'
        <4>1. CASE m = n
          BY <4>1, <2>1, <2>6, <3>1, <3>2, <1>1
            DEF SentOnce, Serving, HopsInv, TypeOK, Attempts
        <4>2. CASE m = c
          BY <4>2, <2>6, <3>1, <3>2, <1>1 DEF SentOnce, Serving
        <4>3. CASE m \notin {n, c}
          BY <4>3, <2>6, <3>1, <3>2, <1>1 DEF SentOnce, Serving
        <4> QED
          BY <4>1, <4>2, <4>3
      <3>4. Child[m][b] # None => Within(Child[m][b], dl[m])'
        <4>1. dl[m] \in Int \cup {None}
          BY DEF HopsInv, TypeOK
        <4>2. Child[m][b] = c => m = n /\ (dl[m] # None => dl[m] <= dl[m])
          BY <2>2, <3>2, <4>1
        <4>3. ASSUME NEW d \in Int \cup {None}, d = dl[m], Child[m][b] # None
              PROVE  Within(Child[m][b], d)'
          BY <2>9, <3>1, <4>2, <4>3
        <4> QED
          BY <2>1, <4>1, <4>3 DEF Within
      <3> QED
        BY <3>3, <3>4
    <2>12. pc'[Root] \in Serving \cup {"done"}
      BY <1>1, <2>1, HopsAssumption DEF HopsInv, TypeOK, Serving
    <2> QED
      BY <2>7, <2>8, <2>10, <2>11, <2>12 DEF HopsInv
  <1> QED
    BY <1>2, <1>3

\* A request that arrives: what its header leaves it, from an arrival that is
\* at most Latency after it was sent, ends no later than its sender's deadline.
LEMMA ArriveKeepsInv ==
  ASSUME HopsInv, NEW n \in Nodes, Arrive(n)
  PROVE  HopsInv'
  <1>1. /\ now' = now /\ att' = att
        /\ pc' = [pc EXCEPT ![n] = "working"]
        /\ dl' = [dl EXCEPT ![n] = Capped(n)]
        /\ due' = [due EXCEPT ![n] = Capped(n)]
        /\ left' = [left EXCEPT ![n] = None]
        /\ pc[n] = "sent"
    BY DEF Arrive, Set
  <1>2. n # Root
    BY <1>1 DEF HopsInv, Serving
  <1>3. /\ now \in Nat /\ left[n] \in Int \cup {None} /\ Timeout[n] \in Nat
        /\ None \notin Int /\ due[n] \in Int \cup {None}
    BY HopsAssumption DEF HopsInv, TypeOK
  <1>4. /\ left[n] # None => left[n] >= 0
        /\ due[n] # None /\ now <= due[n]
    BY <1>1 DEF HopsInv, OnTime, Waiting
  <1>5. /\ Capped(n) \in Int \cup {None}
        /\ Capped(n) # None => now <= Capped(n)
        /\ left[n] # None => Capped(n) # None /\ Capped(n) <= due[n] + left[n]
    BY <1>3, <1>4 DEF Capped, FromHeader
  <1>6. /\ pc'[n] = "working" /\ dl'[n] = Capped(n) /\ due'[n] = Capped(n)
        /\ left'[n] = None
        /\ \A m \in Nodes \ {n} :
             /\ pc'[m] = pc[m] /\ dl'[m] = dl[m]
             /\ due'[m] = due[m] /\ left'[m] = left[m]
    BY <1>1 DEF HopsInv, TypeOK
  <1>7. TypeOK'
    BY <1>1, <1>5 DEF HopsInv, TypeOK
  <1>8. \A m \in Nodes : OnTime(m)'
    <2>1. OnTime(n)'
      BY <1>1, <1>5, <1>6 DEF OnTime
    <2>2. ASSUME NEW m \in Nodes \ {n} PROVE OnTime(m)'
      BY <1>1, <1>6 DEF HopsInv, OnTime
    <2> QED
      BY <2>1, <2>2
  <1>9. ASSUME NEW m \in Nodes, NEW d \in Int \cup {None}, Within(m, d)
        PROVE  Within(m, d)'
    <2>1. CASE m = n
      <3>1. d # None =>
              left[n] # None /\ due[n] + left[n] <= d /\ Capped(n) <= d
        BY <2>1, <1>1, <1>3, <1>4, <1>5, <1>9 DEF Within
      <3> QED
        BY <3>1, <2>1, <1>5, <1>6 DEF Within
    <2>2. CASE m # n
      BY <2>2, <1>6, <1>9 DEF Within
    <2> QED
      BY <2>1, <2>2
  <1>10. \A m \in Nodes : Within(m, dl[Root])'
    <2>1. dl'[Root] = dl[Root] /\ dl[Root] \in Int \cup {None}
      BY <1>2, <1>6, HopsAssumption DEF HopsInv, TypeOK
    <2>2. ASSUME NEW m \in Nodes, NEW d \in Int \cup {None}, d = dl[Root]
          PROVE  Within(m, d)'
      BY <1>9, <2>2 DEF HopsInv
    <2> QED
      BY <2>1, <2>2 DEF Within
  <1>11. ASSUME NEW m \in Nodes, NEW b \in Attempts
         PROVE  /\ SentOnce(m, b)'
                /\ Child[m][b] # None => Within(Child[m][b], dl[m])'
    <2>1. SentOnce(m, b)
      BY DEF HopsInv
    <2>2. Child[m][b] # None => Child[m][b] \in Nodes
      BY ChildIsNode
    <2>3. m = n => Child[m][b] = None \/ pc[Child[m][b]] = "unsent"
      BY <1>1, <2>1 DEF SentOnce, Serving
    <2>4. SentOnce(m, b)'
      BY <1>1, <1>6, <2>1, <2>2, <2>3 DEF SentOnce, Serving
    <2>5. Child[m][b] # None => Within(Child[m][b], dl[m])'
      <3>1. CASE m = n
        BY <3>1, <2>2, <2>3, <1>1, <1>6 DEF Within, Serving
      <3>2. CASE m # n
        <4>1. dl'[m] = dl[m] /\ dl[m] \in Int \cup {None}
          BY <3>2, <1>6 DEF HopsInv, TypeOK
        <4>2. ASSUME NEW d \in Int \cup {None}, d = dl[m], Child[m][b] # None
              PROVE  Within(Child[m][b], d)'
          BY <1>9, <2>2, <4>2 DEF HopsInv
        <4> QED
          BY <4>1, <4>2 DEF Within
      <3> QED
        BY <3>1, <3>2
    <2> QED
      BY <2>4, <2>5
  <1>12. pc'[Root] \in Serving \cup {"done"}
    BY <1>2, <1>6, HopsAssumption DEF HopsInv
  <1> QED
    BY <1>7, <1>8, <1>10, <1>11, <1>12 DEF HopsInv

LEMMA LoseKeepsInv ==
  ASSUME HopsInv, NEW n \in Nodes, Lose(n)
  PROVE  HopsInv'
  <1>1. /\ now' = now /\ dl' = dl /\ att' = att
        /\ pc' = [pc EXCEPT ![n] = "lost"]
        /\ left' = [left EXCEPT ![n] = None]
        /\ due' = [due EXCEPT ![n] = None]
        /\ pc[n] = "sent"
    BY DEF Lose, Set
  <1>2. TypeOK'
    BY <1>1 DEF HopsInv, TypeOK
  <1>3. OnTime(n)'
    BY <1>1 DEF HopsInv, TypeOK, OnTime, Waiting, Serving
  <1> QED
    BY <1>1, <1>2, <1>3, OneNode DEF HopsInv, TypeOK, Serving

LEMMA FinishKeepsInv ==
  ASSUME HopsInv, NEW n \in Nodes, Finish(n)
  PROVE  HopsInv'
  <1>1. /\ now' = now /\ dl' = dl /\ att' = att /\ left' = left
        /\ pc' = [pc EXCEPT ![n] = "done"]
        /\ due' = [due EXCEPT ![n] = None]
        /\ pc[n] \in {"working", "after"}
    BY DEF Finish, Set
  <1>2. TypeOK'
    BY <1>1 DEF HopsInv, TypeOK
  <1>3. OnTime(n)'
    BY <1>1 DEF HopsInv, TypeOK, OnTime, Waiting, Serving
  <1> QED
    BY <1>1, <1>2, <1>3, OneNode DEF HopsInv, TypeOK, Serving

\* Time does not pass a timer.
LEMMA TickKeepsInv ==
  ASSUME HopsInv, Tick
  PROVE  HopsInv'
  <1>1. /\ now' = now + 1 /\ pc' = pc /\ dl' = dl /\ left' = left
        /\ due' = due /\ att' = att
        /\ \A n \in Nodes : ~(pc[n] \in Waiting /\ Due(n))
    BY DEF Tick
  <1>2. TypeOK'
    BY <1>1 DEF HopsInv, TypeOK
  <1>3. ASSUME NEW n \in Nodes PROVE OnTime(n)'
    BY <1>1 DEF HopsInv, TypeOK, OnTime, Due
  <1>4. \A n \in Nodes : Within(n, dl[Root])'
    BY <1>1 DEF HopsInv, Within
  <1>5. ASSUME NEW m \in Nodes, NEW b \in Attempts
        PROVE  /\ SentOnce(m, b)'
               /\ Child[m][b] # None => Within(Child[m][b], dl[m])'
    <2>1. SentOnce(m, b) /\ (Child[m][b] # None => Within(Child[m][b], dl[m]))
      BY DEF HopsInv
    <2>2. SentOnce(m, b)'
      BY <1>1, <2>1 DEF SentOnce
    <2>3. Child[m][b] # None => Within(Child[m][b], dl[m])'
      BY <1>1, <2>1 DEF Within
    <2> QED
      BY <2>2, <2>3
  <1> QED
    BY <1>1, <1>2, <1>3, <1>4, <1>5 DEF HopsInv

-------------------------------------------------------------------------------

LEMMA HopsInductive == HopsInv /\ [Next]_vars => HopsInv'
  <1> SUFFICES ASSUME HopsInv, [Next]_vars
               PROVE  HopsInv'
    OBVIOUS
  <1>1. CASE Tick
    BY <1>1, TickKeepsInv
  <1>2. ASSUME NEW n \in Nodes, OwnStep(n) \/ Answered(n) \/ Broken(n)
        PROVE  HopsInv'
    <2>1. ASSUME NEW b \in Attempts, Child[n][b] # None,
                 pc[Child[n][b]] # "unsent"
          PROVE  pc[n] # "working" /\ b <= att[n]
      BY <2>1 DEF HopsInv, SentOnce, Serving
    <2>2. CASE Arrive(n)
      BY <2>2, ArriveKeepsInv
    <2>3. CASE Lose(n)
      BY <2>3, LoseKeepsInv
    <2>4. CASE Finish(n)
      BY <2>4, FinishKeepsInv
    <2>5. CASE CallOut(n)
      <3>1. 0 \in Attempts
        BY HopsAssumption DEF Attempts
      <3>2. pc[n] = "working" /\ Child[n][0] # None /\ Try(n, 0)
        BY <2>5 DEF CallOut
      <3>3. pc[Child[n][0]] = "unsent"
        BY <2>1, <3>1, <3>2
      <3> QED
        BY <2>1, <3>1, <3>2, <3>3, TryKeepsInv DEF Serving
    <2>6. CASE Expired(n)
      BY <2>6, SettledKeepsInv DEF Expired, Serving
    <2>7. CASE WakeUp(n)
      <3>1. pc[n] = "backoff"
        BY <2>7 DEF WakeUp
      <3>2. CASE Try(n, att[n] + 1)
        <4>1. /\ att[n] + 1 \in Attempts /\ Child[n][att[n] + 1] # None
              /\ att[n] \in Nat
          BY <3>1, HopsAssumption DEF HopsInv, OnTime, TypeOK, Attempts
        <4>2. pc[Child[n][att[n] + 1]] = "unsent"
          BY <2>1, <4>1
        <4>3. ASSUME NEW b \in Attempts, Child[n][b] # None,
                     pc[Child[n][b]] # "unsent"
              PROVE  b <= att[n] + 1
          BY <2>1, <4>1, <4>3, HopsAssumption DEF Attempts
        <4> QED
          BY <3>1, <3>2, <4>1, <4>2, <4>3, TryKeepsInv DEF Serving
      <3>3. CASE Settled(n)
        BY <3>1, <3>3, SettledKeepsInv DEF Serving
      <3> QED
        BY <2>7, <3>2, <3>3 DEF WakeUp
    <2>8. CASE Answered(n) \/ Broken(n)
      <3>1. pc[n] = "calling" /\ (Settled(n) \/ BackOff(n))
        BY <2>8 DEF Answered, Broken
      <3> QED
        BY <3>1, SettledKeepsInv, BackOffKeepsInv DEF Serving
    <2> QED
      BY <1>2, <2>2, <2>3, <2>4, <2>5, <2>6, <2>7, <2>8 DEF OwnStep
  <1>3. CASE UNCHANGED vars
    BY <1>3 DEF vars, HopsInv, TypeOK, OnTime, SentOnce, Within, Due
  <1> QED
    BY <1>1, <1>2, <1>3 DEF Next

LEMMA HopsInitially == Init => HopsInv
  <1> SUFFICES ASSUME Init PROVE HopsInv
    OBVIOUS
  <1>1. TypeOK
    BY HopsAssumption DEF Init, TypeOK, Attempts
  <1>2. pc[Root] = "working" /\ \A n \in Nodes \ {Root} : pc[n] = "unsent"
    BY HopsAssumption DEF Init
  <1>3. now = 0 /\ due = dl /\ \A n \in Nodes : left[n] = None
    BY DEF Init
  <1>4. /\ dl[Root] \in Nat \cup {None} /\ None \notin Int
        /\ \A n \in Nodes \ {Root} : dl[n] = None
    BY HopsAssumption DEF Init
  <1>5. ASSUME NEW n \in Nodes PROVE OnTime(n) /\ Within(n, dl[Root])
    <2>1. CASE n = Root
      <3>1. dl[Root] # None => dl[Root] \in Int /\ now <= dl[Root]
        BY <1>3, <1>4
      <3>2. OnTime(Root)
        <4>1. left[Root] = None /\ due[Root] = dl[Root]
          BY <1>3, HopsAssumption
        <4> QED
          BY <3>1, <4>1, <1>2 DEF OnTime
      <3>3. Within(Root, dl[Root])
        BY <3>1, <1>2 DEF Within
      <3> QED
        BY <2>1, <3>2, <3>3
    <2>2. CASE n # Root
      BY <2>2, <1>2, <1>3 DEF OnTime, Within, Waiting, Serving
    <2> QED
      BY <2>1, <2>2
  <1>6. ASSUME NEW m \in Nodes, NEW b \in Attempts
        PROVE  /\ SentOnce(m, b)
               /\ Child[m][b] # None => Within(Child[m][b], dl[m])
    BY <1>2, ChildIsNode DEF SentOnce, Within, Serving
  <1> QED
    BY <1>1, <1>2, <1>5, <1>6 DEF HopsInv, Serving

LEMMA HopsInvHolds == Spec => []HopsInv
  BY HopsInitially, HopsInductive, PTL DEF Spec

\* The types of the model's variables, for every tree of requests.
THEOREM TypeCorrect == Spec => []TypeOK
  <1>1. HopsInv => TypeOK
    BY DEF HopsInv
  <1> QED
    BY <1>1, HopsInvHolds, PTL

\* Over any number of hops, attempts, slow and lost messages, no request is
\* served past the deadline of the outermost caller, or of the hop that sent
\* it, as long as a request takes no longer than the buffer kept for its hop.
THEOREM NobodyWorksInVain == Spec => []NoWorkForTheDeparted
  <1>1. HopsInv => NoWorkForTheDeparted
    <2> SUFFICES ASSUME HopsInv, NEW n \in Nodes, pc[n] \in Serving
                 PROVE  /\ dl[Root] # None => now <= dl[Root]
                        /\ \A m \in Nodes, a \in Attempts :
                             Child[m][a] = n /\ dl[m] # None => now <= dl[m]
      BY DEF NoWorkForTheDeparted
    <2>1. ASSUME NEW d \in Int, Within(n, d)
          PROVE  now <= d
      <3>1. dl[n] # None /\ dl[n] <= d /\ due[n] # None /\ due[n] <= dl[n]
        BY <2>1, HopsAssumption DEF HopsInv, OnTime, Within
      <3>2. now <= due[n]
        BY <3>1 DEF HopsInv, OnTime, Waiting, Serving
      <3> QED
        BY <2>1, <3>1, <3>2 DEF HopsInv, TypeOK
    <2>2. dl[Root] # None => now <= dl[Root]
      BY <2>1, HopsAssumption DEF HopsInv, TypeOK
    <2>3. ASSUME NEW m \in Nodes, NEW a \in Attempts,
                 Child[m][a] = n, dl[m] # None
          PROVE  now <= dl[m]
      <3>1. Within(n, dl[m]) /\ dl[m] \in Int
        BY <2>3, HopsAssumption DEF HopsInv, TypeOK
      <3> QED
        BY <2>1, <3>1
    <2> QED
      BY <2>2, <2>3
  <1> QED
    BY <1>1, HopsInvHolds, PTL
================================================================================
