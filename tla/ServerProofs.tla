---------------------------- MODULE ServerProofs ----------------------------
(***************************************************************************)
(* The pool is never dead and the server drains before it is closed, for   *)
(* any number of requests, loops and connections.                          *)
(***************************************************************************)
EXTENDS Server, FiniteSetTheorems, SequenceTheorems, TLAPS

\* The types of the variables, without what relates them.
Types ==
  /\ main \in {"starting", "running", "draining", "closing", "exited", "fatal"}
  /\ expired \in BOOLEAN
  /\ answer \in [Requests -> Answers]
  /\ pc \in [Procs -> {"off", "work", "wait", "query"}]
  /\ left \in [Requests -> Nat]
  /\ queue \in Seq(Procs)
  /\ held \subseteq Procs

\* A manual run and a handler that query have a call to make.
CallsLeft == \A q \in Requests : pc[q] \in {"wait", "query"} => left[q] > 0

\* The connections in use are those of the queries that run.
HeldByQueries == held = {p \in Procs : pc[p] = "query"}

MaxConnsHold == Cardinality(held) <= MaxConns

\* The queue holds the goroutines that wait, each once.
QueueOfWaiting ==
  /\ \A n \in DOMAIN queue : pc[queue[n]] = "wait"
  /\ \A m, n \in DOMAIN queue : queue[m] = queue[n] => m = n
  /\ \A p \in Procs : pc[p] = "wait" => \E n \in DOMAIN queue : queue[n] = p

\* Nothing runs for a request that was not accepted.
NoneUnasked == \A q \in Requests : answer[q] = "none" => pc[q] = "off"

\* What the three theorems rest on.
IndInv ==
  /\ Types /\ CallsLeft /\ HeldByQueries /\ MaxConnsHold
  /\ QueueOfWaiting /\ NoneUnasked /\ DrainedFirst

-----------------------------------------------------------------------------
\* A removed element leaves the others, in a shorter queue.
LEMMA RemoveAtProperties ==
  ASSUME NEW S, NEW q \in Seq(S), NEW n \in 1..Len(q)
  PROVE  /\ RemoveAt(q, n) \in Seq(S)
         /\ Len(RemoveAt(q, n)) = Len(q) - 1
         /\ \A m \in 1..(Len(q) - 1) :
              RemoveAt(q, n)[m] = IF m < n THEN q[m] ELSE q[m + 1]
<1> DEFINE a == SubSeq(q, 1, n - 1)
           b == SubSeq(q, n + 1, Len(q))
<1>0. Len(q) \in Nat /\ n \in Nat /\ n >= 1 /\ n <= Len(q) /\ \A m \in 1..Len(q) : q[m] \in S
  BY LenProperties, ElementOfSeq
<1>1. a \in Seq(S) /\ Len(a) = n - 1 /\ \A m \in 1..(n - 1) : a[m] = q[m]
  <2>1. \A m \in 1..(n - 1) : q[m] \in S
    BY <1>0
  <2>2. /\ a \in Seq(S) /\ Len(a) = IF 1 <= n - 1 THEN n - 1 - 1 + 1 ELSE 0
        /\ \A m \in 1..(n - 1 - 1 + 1) : a[m] = q[1 + m - 1]
    BY <1>0, <2>1, SubSeqProperties
  <2> HIDE DEF a
  <2> QED  BY <1>0, <2>2
<1>2. b \in Seq(S) /\ Len(b) = Len(q) - n /\ \A m \in 1..(Len(q) - n) : b[m] = q[n + m]
  <2>1. \A m \in (n + 1)..Len(q) : q[m] \in S
    BY <1>0
  <2>2. /\ b \in Seq(S) /\ Len(b) = IF n + 1 <= Len(q) THEN Len(q) - (n + 1) + 1 ELSE 0
        /\ \A m \in 1..(Len(q) - (n + 1) + 1) : b[m] = q[n + 1 + m - 1]
    BY <1>0, <2>1, SubSeqProperties
  <2> HIDE DEF b
  <2> QED  BY <1>0, <2>2
<1> HIDE DEF a, b
<1>3. /\ a \o b \in Seq(S) /\ Len(a \o b) = Len(a) + Len(b)
      /\ \A m \in 1..(Len(a) + Len(b)) :
           (a \o b)[m] = IF m <= Len(a) THEN a[m] ELSE b[m - Len(a)]
  BY <1>1, <1>2, ConcatProperties
<1>4. RemoveAt(q, n) = a \o b
  BY DEF RemoveAt, a, b
<1>5. ASSUME NEW m \in 1..(Len(q) - 1)
      PROVE  (a \o b)[m] = IF m < n THEN q[m] ELSE q[m + 1]
  <2>1. CASE m < n
    BY <1>0, <1>1, <1>2, <1>3, <2>1
  <2>2. CASE m >= n
    <3>1. m - (n - 1) \in 1..(Len(q) - n) /\ n + (m - (n - 1)) = m + 1
      BY <1>0, <2>2
    <3>2. (a \o b)[m] = b[m - (n - 1)]
      BY <1>0, <1>1, <1>2, <1>3, <2>2
    <3>3. b[m - (n - 1)] = q[m + 1]
      BY <1>2, <3>1
    <3> QED  BY <1>0, <2>2, <3>2, <3>3
  <2>3. m < n \/ m >= n
    BY <1>0
  <2> QED  BY <2>1, <2>2, <2>3
<1>6. Len(a \o b) = Len(q) - 1
  BY <1>0, <1>1, <1>2, <1>3
<1> QED  BY <1>3, <1>4, <1>5, <1>6

\* There are finitely many goroutines, so finitely many connections in use.
LEMMA HeldFinite == held \subseteq Procs => IsFiniteSet(held)
<1>1. IsFiniteSet(Procs)
  BY ServerAssumption, FS_Union DEF Procs, Requests
<1> QED  BY <1>1, FS_Subset

\* Before anything happens.
LEMMA IndInvInit == Init => IndInv
<1> SUFFICES ASSUME Init  PROVE IndInv
  OBVIOUS
<1>1. Types
  BY EmptySeq DEF Init, Types, Answers, Procs
<1>2. HeldByQueries /\ CallsLeft /\ QueueOfWaiting
  BY ServerAssumption DEF Init, HeldByQueries, CallsLeft, QueueOfWaiting, Procs, Requests
<1>3. MaxConnsHold
  BY ServerAssumption, FS_EmptySet DEF Init, MaxConnsHold
<1> QED
  BY <1>1, <1>2, <1>3, ServerAssumption
  DEF Init, IndInv, NoneUnasked, DrainedFirst, Closed, Procs, Requests

\* A step that leaves the pool alone: goroutines work or end.
LEMMA NoCall ==
  ASSUME IndInv, Types', queue' = queue, held' = held,
         \A q \in Requests : pc'[q] \in {"wait", "query"} => left'[q] = left[q],
         \A p \in Procs : pc'[p] = pc[p]
                        \/ (pc[p] \in {"off", "work"} /\ pc'[p] \in {"off", "work"})
  PROVE  CallsLeft' /\ HeldByQueries' /\ MaxConnsHold' /\ QueueOfWaiting'
<1>1. \A p \in Procs : /\ pc'[p] = "wait" <=> pc[p] = "wait"
                      /\ pc'[p] = "query" <=> pc[p] = "query"
  OBVIOUS
<1>2. \A n \in DOMAIN queue : queue[n] \in Procs
  BY DEF IndInv, Types
<1>3. CallsLeft'
  BY <1>1 DEF IndInv, CallsLeft, Procs
<1>4. HeldByQueries'
  BY <1>1 DEF IndInv, HeldByQueries
<1>5. QueueOfWaiting'
  BY <1>1, <1>2 DEF IndInv, QueueOfWaiting
<1> QED  BY <1>3, <1>4, <1>5 DEF IndInv, MaxConnsHold

\* Listening, the signal, the deadline and the end of the drain: no goroutine moves.
LEMMA MainKeepsInv ==
  ASSUME IndInv, Listen \/ Signal \/ Expire \/ Drained
  PROVE  IndInv'
<1> USE DEF Listen, Signal, Expire, Drained
<1>1. Types'
  BY DEF IndInv, Types
<1>2. CallsLeft' /\ HeldByQueries' /\ MaxConnsHold' /\ QueueOfWaiting'
  BY <1>1, NoCall
<1>3. NoneUnasked' /\ DrainedFirst'
  BY DEF IndInv, Types, NoneUnasked, DrainedFirst, Closed
<1> QED  BY <1>1, <1>2, <1>3 DEF IndInv

\* A request is accepted: its goroutine starts, and was off as nobody had asked.
LEMMA AcceptKeepsInv ==
  ASSUME IndInv, NEW q \in Requests, NEW n \in Nat, Accept(q, n) \/ AcceptTrigger(q, n)
  PROVE  IndInv'
<1>0. /\ main = "running" /\ answer[q] = "none"
      /\ answer' = [answer EXCEPT ![q] = "pending"]
      /\ left' = [left EXCEPT ![q] = n]
      /\ pc' = [pc EXCEPT ![q] = "work"]
      /\ UNCHANGED <<main, expired, queue, held>>
  BY DEF Accept, AcceptTrigger
<1> pc[q] = "off"
  BY <1>0 DEF IndInv, NoneUnasked
<1>1. Types'
  BY <1>0 DEF IndInv, Types, Answers, Procs
<1>2. CallsLeft' /\ HeldByQueries' /\ MaxConnsHold' /\ QueueOfWaiting'
  BY <1>0, <1>1, NoCall DEF IndInv, Types, Procs
<1>3. NoneUnasked' /\ DrainedFirst'
  BY <1>0 DEF IndInv, Types, NoneUnasked, DrainedFirst, Closed, Procs
<1> QED  BY <1>1, <1>2, <1>3 DEF IndInv

\* A request is answered or its run ends, between two calls.
LEMMA AnswerKeepsInv ==
  ASSUME IndInv, NEW q \in Requests,
         Respond(q) \/ TriggerAnswers(q) \/ RunEnds(q) \/ Timeout(q)
  PROVE  IndInv'
<1>0. /\ \/ answer' = answer
         \/ answer[q] = "pending" /\ answer' = [answer EXCEPT ![q] = "answered"]
         \/ answer[q] = "pending" /\ answer' = [answer EXCEPT ![q] = "timeout"]
      /\ \/ pc' = pc
         \/ pc[q] = "work" /\ pc' = [pc EXCEPT ![q] = "off"]
      /\ UNCHANGED <<main, expired, left, queue, held>>
  BY DEF IndInv, Types, Respond, TriggerAnswers, RunEnds, Timeout
<1>1. Types'
  BY <1>0 DEF IndInv, Types, Answers, Procs
<1>2. CallsLeft' /\ HeldByQueries' /\ MaxConnsHold' /\ QueueOfWaiting'
  BY <1>0, <1>1, NoCall DEF IndInv, Types, Procs
<1>3. NoneUnasked' /\ DrainedFirst'
  BY <1>0 DEF IndInv, Types, NoneUnasked, DrainedFirst, Closed, Procs
<1> QED  BY <1>1, <1>2, <1>3 DEF IndInv

\* A background loop returns.
LEMMA LoopReturnsKeepsInv ==
  ASSUME IndInv, NEW l \in Loops, LoopReturns(l)
  PROVE  IndInv'
<1>0. pc[l] = "work" /\ pc' = [pc EXCEPT ![l] = "off"]
      /\ UNCHANGED <<main, expired, answer, left, queue, held>>
  BY DEF LoopReturns
<1>1. Types'
  BY <1>0 DEF IndInv, Types, Procs
<1>2. CallsLeft' /\ HeldByQueries' /\ MaxConnsHold' /\ QueueOfWaiting'
  BY <1>0, <1>1, NoCall DEF IndInv, Types, Procs
<1>3. NoneUnasked' /\ DrainedFirst'
  BY <1>0 DEF IndInv, NoneUnasked, DrainedFirst, Closed
<1> QED  BY <1>1, <1>2, <1>3 DEF IndInv

\* The end of the process: unless the listener failed, who is pending then has
\* been so past the deadline.
LEMMA ExitKeepsInv ==
  ASSUME IndInv, ListenAndServeFails \/ PoolClosed
  PROVE  IndInv'
<1>0. Exits("fatal") \/ (Exits("exited") /\ main = "closing")
  BY DEF ListenAndServeFails, PoolClosed
<1>1. Types'
  <2>1. answer' \in [Requests -> Answers]
    BY <1>0 DEF IndInv, Types, Exits, Answers
  <2>2. pc' \in [Procs -> {"off", "work", "wait", "query"}]
        /\ left' \in [Requests -> Nat]
    BY <1>0 DEF Exits
  <2>3. queue' \in Seq(Procs) /\ held' \subseteq Procs /\ expired' = expired
        /\ main' \in {"exited", "fatal"}
    BY <1>0, EmptySeq DEF Exits
  <2> QED  BY <2>1, <2>2, <2>3 DEF IndInv, Types
<1>2. CallsLeft' /\ HeldByQueries' /\ QueueOfWaiting' /\ NoneUnasked'
  BY <1>0 DEF Exits, CallsLeft, HeldByQueries, QueueOfWaiting, NoneUnasked, Procs
<1>3. MaxConnsHold'
  BY <1>0, ServerAssumption, FS_EmptySet DEF Exits, MaxConnsHold
<1>4. DrainedFirst'
  BY <1>0 DEF IndInv, Types, Exits, NoneUnasked, DrainedFirst, Closed
<1> QED  BY <1>1, <1>2, <1>3, <1>4 DEF IndInv

-----------------------------------------------------------------------------
(* Calls.                                                                  *)

\* A goroutine takes its place at the end of the queue.
LEMMA AskKeepsInv ==
  ASSUME IndInv, NEW p \in Procs, Ask(p)
  PROVE  IndInv'
<1>0. /\ pc[p] = "work" /\ (p \in Requests => left[p] > 0)
      /\ pc' = [pc EXCEPT ![p] = "wait"] /\ queue' = Append(queue, p)
      /\ UNCHANGED <<main, expired, answer, left, held>>
  BY DEF Ask
<1>1. /\ queue' \in Seq(Procs) /\ Len(queue') = Len(queue) + 1 /\ Len(queue) \in Nat
      /\ DOMAIN queue = 1..Len(queue) /\ DOMAIN queue' = 1..(Len(queue) + 1)
      /\ \A n \in 1..Len(queue) : queue'[n] = queue[n] /\ queue[n] \in Procs
      /\ queue'[Len(queue) + 1] = p
  BY <1>0, AppendProperties, LenProperties DEF IndInv, Types
<1>2. Types'
  BY <1>0, <1>1 DEF IndInv, Types
<1>3. CallsLeft' /\ HeldByQueries' /\ MaxConnsHold'
  BY <1>0 DEF IndInv, Types, CallsLeft, HeldByQueries, MaxConnsHold, Procs
<1>4. QueueOfWaiting'
  <2>1. \A n \in 1..Len(queue) : queue[n] # p
    BY <1>0, <1>1 DEF IndInv, QueueOfWaiting
  <2>2. \A n \in DOMAIN queue' : pc'[queue'[n]] = "wait"
    BY <1>0, <1>1, <2>1 DEF IndInv, Types, QueueOfWaiting
  <2>3. \A m, n \in DOMAIN queue' : queue'[m] = queue'[n] => m = n
    BY <1>1, <2>1 DEF IndInv, QueueOfWaiting
  <2>4. ASSUME NEW x \in Procs, pc'[x] = "wait"
        PROVE  \E n \in DOMAIN queue' : queue'[n] = x
    <3>1. CASE x = p
      BY <1>1, <3>1
    <3>2. CASE x # p
      <4>1. PICK n \in 1..Len(queue) : queue[n] = x
        BY <1>0, <1>1, <2>4, <3>2 DEF IndInv, Types, QueueOfWaiting
      <4> QED  BY <1>1, <4>1
    <3> QED  BY <3>1, <3>2
  <2> QED  BY <2>2, <2>3, <2>4 DEF QueueOfWaiting
<1>5. NoneUnasked' /\ DrainedFirst'
  BY <1>0 DEF IndInv, NoneUnasked, DrainedFirst, Closed
<1> QED  BY <1>2, <1>3, <1>4, <1>5 DEF IndInv

\* What a call that fails does to its goroutine.
LEMMA FailsProperties ==
  ASSUME IndInv, NEW p \in Procs, pc[p] \in {"work", "wait", "query"}, Fails(p),
         p \in Requests => left[p] > 0
  PROVE  /\ pc' = [pc EXCEPT ![p] = "work"]
         /\ left' \in [Requests -> Nat]
         /\ \A q \in Requests : q # p => left'[q] = left[q]
         /\ UNCHANGED <<main, expired, answer>>
         /\ NoneUnasked' /\ DrainedFirst'
<1>1. pc' = [pc EXCEPT ![p] = "work"] /\ UNCHANGED <<main, expired, answer>>
  BY DEF Fails
<1>2. left' \in [Requests -> Nat] /\ \A q \in Requests : q # p => left'[q] = left[q]
  <2>1. CASE p \in Reads
    <3>1. left' = [left EXCEPT ![p] = 0]
      BY <2>1, ServerAssumption DEF Fails
    <3> QED  BY <3>1 DEF IndInv, Types
  <2>2. CASE p \in Triggers /\ p \notin Reads
    <3>1. left' = [left EXCEPT ![p] = @ - 1] /\ left[p] \in Nat \ {0}
      BY <2>2 DEF Fails, IndInv, Types, Requests
    <3>2. left[p] - 1 \in Nat
      BY <3>1
    <3> QED  BY <3>1, <3>2 DEF IndInv, Types
  <2>3. CASE p \notin Reads /\ p \notin Triggers
    BY <2>3 DEF Fails, IndInv, Types
  <2> QED  BY <2>1, <2>2, <2>3
<1>3. NoneUnasked' /\ DrainedFirst'
  BY <1>1 DEF IndInv, Types, NoneUnasked, DrainedFirst, Closed, Procs
<1> QED  BY <1>1, <1>2, <1>3

\* A call fails before the goroutine waits.
LEMMA AskFailsKeepsInv ==
  ASSUME IndInv, NEW p \in Procs, AskFails(p)
  PROVE  IndInv'
<1>0. /\ p \in Requests /\ pc[p] = "work" /\ left[p] > 0 /\ Fails(p)
      /\ UNCHANGED <<queue, held>>
  BY DEF AskFails
<1>1. /\ pc' = [pc EXCEPT ![p] = "work"] /\ left' \in [Requests -> Nat]
      /\ \A q \in Requests : q # p => left'[q] = left[q]
      /\ UNCHANGED <<main, expired, answer>> /\ NoneUnasked' /\ DrainedFirst'
  BY <1>0, FailsProperties
<1>2. Types'
  BY <1>0, <1>1 DEF IndInv, Types
<1>3. CallsLeft' /\ HeldByQueries' /\ MaxConnsHold' /\ QueueOfWaiting'
  BY <1>0, <1>1, <1>2, NoCall DEF IndInv, Types, Procs
<1> QED  BY <1>1, <1>2, <1>3 DEF IndInv

\* A call ends: the goroutine works again and has given its connection back.
LEMMA EndKeepsInv ==
  ASSUME IndInv, NEW p \in Procs, pc[p] = "query",
         pc' = [pc EXCEPT ![p] = "work"], held' = held \ {p}, queue' = queue,
         UNCHANGED <<main, expired, answer>>,
         left' \in [Requests -> Nat], \A q \in Requests : q # p => left'[q] = left[q]
  PROVE  IndInv'
<1>1. Types'
  BY DEF IndInv, Types
<1>2. CallsLeft' /\ HeldByQueries'
  BY DEF IndInv, Types, CallsLeft, HeldByQueries, Procs
<1>3. MaxConnsHold'
  <2>1. IsFiniteSet(held)
    BY HeldFinite DEF IndInv, Types
  <2>2. Cardinality(held') <= Cardinality(held) /\ Cardinality(held) \in Nat
        /\ Cardinality(held') \in Nat
    BY <2>1, FS_Subset, FS_CardinalityType
  <2> QED  BY <2>2, ServerAssumption DEF IndInv, MaxConnsHold
<1>4. QueueOfWaiting'
  <2>1. \A n \in DOMAIN queue : queue[n] \in Procs /\ queue[n] # p
    BY DEF IndInv, Types, QueueOfWaiting
  <2> QED  BY <2>1 DEF IndInv, Types, QueueOfWaiting
<1>5. NoneUnasked' /\ DrainedFirst'
  BY DEF IndInv, Types, NoneUnasked, DrainedFirst, Closed, Procs
<1> QED  BY <1>1, <1>2, <1>3, <1>4, <1>5 DEF IndInv

\* A query succeeds or fails; either way its connection is back in the pool.
LEMMA QueryKeepsInv ==
  ASSUME IndInv, NEW p \in Procs, QueryEnds(p) \/ QueryFails(p)
  PROVE  IndInv'
<1>0. pc[p] = "query" /\ held' = held \ {p} /\ queue' = queue
  BY DEF QueryEnds, QueryFails
<1>1. p \in Requests => left[p] > 0
  BY <1>0 DEF IndInv, CallsLeft
<1>2. CASE QueryEnds(p)
  <2>1. left' \in [Requests -> Nat] /\ \A q \in Requests : q # p => left'[q] = left[q]
    <3>1. CASE p \in Requests
      <4>1. left' = [left EXCEPT ![p] = @ - 1] /\ left[p] \in Nat \ {0}
        BY <1>1, <1>2, <3>1 DEF QueryEnds, IndInv, Types
      <4>2. left[p] - 1 \in Nat
        BY <4>1
      <4> QED  BY <4>1, <4>2 DEF IndInv, Types
    <3>2. CASE p \notin Requests
      BY <1>2, <3>2 DEF QueryEnds, IndInv, Types
    <3> QED  BY <3>1, <3>2
  <2>2. pc' = [pc EXCEPT ![p] = "work"] /\ UNCHANGED <<main, expired, answer>>
    BY <1>2 DEF QueryEnds
  <2> QED  BY <1>0, <2>1, <2>2, EndKeepsInv
<1>3. CASE QueryFails(p)
  <2>1. Fails(p)
    BY <1>3 DEF QueryFails
  <2> QED  BY <1>0, <1>1, <2>1, FailsProperties, EndKeepsInv
<1> QED  BY <1>2, <1>3

\* A goroutine whose context is done leaves the queue; the others keep their turn.
LEMMA WaitFailsKeepsInv ==
  ASSUME IndInv, NEW p \in Procs, WaitFails(p)
  PROVE  IndInv'
<1>0. pc[p] = "wait" /\ Fails(p) /\ held' = held
  BY DEF WaitFails
<1>1. PICK n \in DOMAIN queue : queue[n] = p /\ queue' = RemoveAt(queue, n)
  BY DEF WaitFails
<1>2. p \in Requests => left[p] > 0
  BY <1>0 DEF IndInv, CallsLeft
<1>3. /\ pc' = [pc EXCEPT ![p] = "work"] /\ left' \in [Requests -> Nat]
      /\ \A q \in Requests : q # p => left'[q] = left[q]
      /\ UNCHANGED <<main, expired, answer>> /\ NoneUnasked' /\ DrainedFirst'
  BY <1>0, <1>2, FailsProperties
<1>4. /\ DOMAIN queue = 1..Len(queue) /\ Len(queue) \in Nat /\ n \in 1..Len(queue)
      /\ \A m \in 1..Len(queue) : queue[m] \in Procs
  BY LenProperties DEF IndInv, Types
<1>5. /\ queue' \in Seq(Procs) /\ Len(queue') = Len(queue) - 1
      /\ \A m \in 1..(Len(queue) - 1) :
           queue'[m] = IF m < n THEN queue[m] ELSE queue[m + 1]
  BY <1>1, <1>4, RemoveAtProperties DEF IndInv, Types
<1>6. DOMAIN queue' = 1..(Len(queue) - 1)
  BY <1>5, LenProperties
<1>7. Types'
  BY <1>0, <1>3, <1>5 DEF IndInv, Types
<1>8. CallsLeft' /\ HeldByQueries' /\ MaxConnsHold'
  BY <1>0, <1>3 DEF IndInv, Types, CallsLeft, HeldByQueries, MaxConnsHold, Procs
<1>9. QueueOfWaiting'
  <2>1. \A m \in 1..Len(queue) : queue[m] = p => m = n
    BY <1>1, <1>4 DEF IndInv, QueueOfWaiting
  <2>2. ASSUME NEW m \in DOMAIN queue'
        PROVE  \E k \in 1..Len(queue) :
                 /\ k = (IF m < n THEN m ELSE m + 1) /\ k # n /\ queue'[m] = queue[k]
    BY <1>4, <1>5, <1>6
  <2>3. ASSUME NEW m \in DOMAIN queue'  PROVE pc'[queue'[m]] = "wait"
    <3>1. PICK k \in 1..Len(queue) : k # n /\ queue'[m] = queue[k]
      BY <2>2
    <3>2. queue[k] # p /\ queue[k] \in Procs /\ pc[queue[k]] = "wait"
      BY <1>4, <2>1, <3>1 DEF IndInv, QueueOfWaiting
    <3> QED  BY <1>3, <3>1, <3>2 DEF IndInv, Types
  <2>4. ASSUME NEW m1 \in DOMAIN queue', NEW m2 \in DOMAIN queue', queue'[m1] = queue'[m2]
        PROVE  m1 = m2
    <3>1. PICK k1 \in 1..Len(queue) :
            k1 = (IF m1 < n THEN m1 ELSE m1 + 1) /\ queue'[m1] = queue[k1]
      BY <2>2
    <3>2. PICK k2 \in 1..Len(queue) :
            k2 = (IF m2 < n THEN m2 ELSE m2 + 1) /\ queue'[m2] = queue[k2]
      BY <2>2
    <3>3. k1 = k2
      BY <1>4, <2>4, <3>1, <3>2 DEF IndInv, QueueOfWaiting
    <3> QED  BY <1>4, <1>6, <3>1, <3>2, <3>3
  <2>5. ASSUME NEW x \in Procs, pc'[x] = "wait"
        PROVE  \E m \in DOMAIN queue' : queue'[m] = x
    <3>1. x # p /\ pc[x] = "wait"
      BY <1>3, <2>5 DEF IndInv, Types
    <3>2. PICK k \in 1..Len(queue) : queue[k] = x
      BY <1>4, <3>1 DEF IndInv, QueueOfWaiting
    <3>3. k # n
      BY <1>1, <3>1, <3>2
    <3>4. CASE k < n
      BY <1>4, <1>5, <1>6, <3>2, <3>4
    <3>5. CASE k > n
      <4>1. k - 1 \in DOMAIN queue' /\ ~(k - 1 < n) /\ k - 1 + 1 = k
        BY <1>4, <1>6, <3>5
      <4>2. queue'[k - 1] = queue[k]
        BY <1>5, <1>6, <4>1
      <4> QED  BY <3>2, <4>1, <4>2
    <3> QED  BY <1>4, <3>3, <3>4, <3>5
  <2> QED  BY <2>3, <2>4, <2>5 DEF QueueOfWaiting
<1> QED  BY <1>3, <1>7, <1>8, <1>9 DEF IndInv

\* The first in the queue gets a connection, or learns that the pool is closed.
LEMMA GrantKeepsInv ==
  ASSUME IndInv, Grant
  PROVE  IndInv'
<1> DEFINE p == Head(queue)
<1>0. queue # <<>> /\ Cardinality(held) < MaxConns /\ queue' = Tail(queue)
  BY DEF Grant
<1>1. /\ Len(queue) \in Nat \ {0} /\ DOMAIN queue = 1..Len(queue)
      /\ \A m \in 1..Len(queue) : queue[m] \in Procs
      /\ p = queue[1]
  BY <1>0, EmptySeq, LenProperties DEF IndInv, Types
<1>2. /\ queue' \in Seq(Procs) /\ DOMAIN queue' = 1..(Len(queue) - 1)
      /\ \A m \in 1..(Len(queue) - 1) : queue'[m] = queue[m + 1]
  <2>1. /\ Tail(queue) \in Seq(Procs) /\ Len(Tail(queue)) = Len(queue) - 1
        /\ \A m \in 1..Len(Tail(queue)) : Tail(queue)[m] = queue[m + 1]
    BY <1>0, HeadTailProperties DEF IndInv, Types
  <2> QED  BY <1>0, <2>1, LenProperties
<1>3. p \in Procs /\ pc[p] = "wait" /\ 1 \in 1..Len(queue)
  BY <1>1 DEF IndInv, QueueOfWaiting
<1>4. p \in Requests => left[p] > 0
  BY <1>3 DEF IndInv, CallsLeft
<1> HIDE DEF p
<1>5. ASSUME NEW s, s # "wait", pc' = [pc EXCEPT ![p] = s]
      PROVE  QueueOfWaiting'
  <2>1. \A m \in 1..Len(queue) : queue[m] = p => m = 1
    BY <1>1, <1>3 DEF IndInv, QueueOfWaiting
  <2>2. \A m \in DOMAIN queue' : /\ m + 1 \in 1..Len(queue) /\ m + 1 # 1
                                /\ queue'[m] = queue[m + 1]
    BY <1>1, <1>2
  <2>3. \A m \in DOMAIN queue' : pc'[queue'[m]] = "wait"
    BY <1>1, <1>5, <2>1, <2>2 DEF IndInv, Types, QueueOfWaiting
  <2>4. ASSUME NEW m \in DOMAIN queue', NEW n \in DOMAIN queue', queue'[m] = queue'[n]
        PROVE  m = n
    <3>1. m + 1 = n + 1
      BY <1>1, <2>2, <2>4 DEF IndInv, QueueOfWaiting
    <3> QED  BY <1>2, <3>1
  <2>5. ASSUME NEW x \in Procs, pc'[x] = "wait"
        PROVE  \E m \in DOMAIN queue' : queue'[m] = x
    <3>1. x # p /\ pc[x] = "wait"
      BY <1>5, <2>5 DEF IndInv, Types
    <3>2. PICK k \in 1..Len(queue) : queue[k] = x
      BY <1>1, <3>1 DEF IndInv, QueueOfWaiting
    <3>3. k # 1
      BY <1>1, <3>1, <3>2
    <3>4. k - 1 \in DOMAIN queue' /\ k - 1 + 1 = k
      BY <1>1, <1>2, <3>2, <3>3
    <3>5. queue'[k - 1] = queue[k]
      BY <1>2, <3>4
    <3> QED  BY <3>2, <3>4, <3>5
  <2> QED  BY <2>3, <2>4, <2>5 DEF QueueOfWaiting
<1>6. CASE Closed
  <2>0. Fails(p) /\ held' = held
    BY <1>6 DEF Grant, p
  <2>1. /\ pc' = [pc EXCEPT ![p] = "work"] /\ left' \in [Requests -> Nat]
        /\ \A q \in Requests : q # p => left'[q] = left[q]
        /\ UNCHANGED <<main, expired, answer>> /\ NoneUnasked' /\ DrainedFirst'
    BY <1>3, <1>4, <2>0, FailsProperties
  <2>2. Types'
    BY <1>2, <2>0, <2>1 DEF IndInv, Types
  <2>3. CallsLeft' /\ HeldByQueries' /\ MaxConnsHold'
    BY <1>3, <2>0, <2>1 DEF IndInv, Types, CallsLeft, HeldByQueries, MaxConnsHold, Procs
  <2>4. QueueOfWaiting'
    BY <1>5, <2>1
  <2> QED  BY <2>1, <2>2, <2>3, <2>4 DEF IndInv
<1>7. CASE ~Closed
  <2>0. /\ pc' = [pc EXCEPT ![p] = "query"] /\ held' = held \cup {p}
        /\ UNCHANGED <<main, expired, answer, left>>
    BY <1>7 DEF Grant, p
  <2>1. Types'
    BY <1>2, <1>3, <2>0 DEF IndInv, Types
  <2>2. CallsLeft' /\ HeldByQueries'
    BY <1>3, <1>4, <2>0 DEF IndInv, Types, CallsLeft, HeldByQueries, Procs
  <2>3. MaxConnsHold'
    <3>1. IsFiniteSet(held)
      BY HeldFinite DEF IndInv, Types
    <3>2. Cardinality(held') <= Cardinality(held) + 1 /\ Cardinality(held) \in Nat
          /\ Cardinality(held') \in Nat
      <4>1. /\ IsFiniteSet(held \cup {p})
            /\ Cardinality(held \cup {p}) =
                 IF p \in held THEN Cardinality(held) ELSE Cardinality(held) + 1
        BY <3>1, FS_AddElement
      <4>2. Cardinality(held) \in Nat
        BY <3>1, FS_CardinalityType
      <4> QED  BY <2>0, <4>1, <4>2
    <3> QED  BY <1>0, <3>2, ServerAssumption DEF MaxConnsHold
  <2>4. QueueOfWaiting'
    BY <1>5, <2>0
  <2>5. NoneUnasked' /\ DrainedFirst'
    BY <1>3, <2>0 DEF IndInv, Types, NoneUnasked, DrainedFirst, Closed, Procs
  <2> QED  BY <2>1, <2>2, <2>3, <2>4, <2>5 DEF IndInv
<1> QED  BY <1>6, <1>7

-----------------------------------------------------------------------------
\* One step per action of Next.
LEMMA IndInvStep == IndInv /\ [Next]_vars => IndInv'
<1> SUFFICES ASSUME IndInv, [Next]_vars  PROVE IndInv'
  OBVIOUS
<1>0. /\ Requests \subseteq Procs /\ Loops \subseteq Procs
      /\ Reads \subseteq Requests /\ Triggers \subseteq Requests
  BY DEF Procs, Requests
<1>1. CASE UNCHANGED vars
  BY <1>1 DEF vars, IndInv, Types, CallsLeft, HeldByQueries, MaxConnsHold,
              QueueOfWaiting, NoneUnasked, DrainedFirst, Closed
<1>2. CASE Listen \/ ListenAndServeFails \/ Signal \/ MainStep
  BY <1>2, MainKeepsInv, ExitKeepsInv DEF MainStep
<1>3. ASSUME NEW q \in Reads, NEW n \in UNION Endpoints, Accept(q, n)
      PROVE  IndInv'
  <2>1. n \in Nat
    BY DEF Endpoints, ListActions, GetAction, GetActionStats, ListSupernodesMetrics,
           ListUnavailableSupernodes, GetSupernodeMetrics, GetSupernodeStats,
           GetSupernodeActionStats, GetPaymentInfo, VersionMatrix, Healthz
  <2> QED  BY <1>0, <1>3, <2>1, AcceptKeepsInv
<1>4. ASSUME NEW q \in Triggers, NEW n \in 0..MaxCalls, AcceptTrigger(q, n)
      PROVE  IndInv'
  BY <1>0, <1>4, ServerAssumption, AcceptKeepsInv
<1>5. ASSUME NEW q \in Requests, TriggerAnswers(q) \/ RunEnds(q) \/ Respond(q) \/ Timeout(q)
      PROVE  IndInv'
  BY <1>5, AnswerKeepsInv
<1>6. ASSUME NEW p \in Procs, Ask(p) \/ AskFails(p) \/ Cancelled(p)
      PROVE  IndInv'
  BY <1>6, AskKeepsInv, AskFailsKeepsInv, WaitFailsKeepsInv, QueryKeepsInv DEF Cancelled
<1>7. ASSUME NEW l \in Loops, LoopReturns(l)  PROVE IndInv'
  BY <1>7, LoopReturnsKeepsInv
<1>8. CASE Grant
  BY <1>8, GrantKeepsInv
<1>9. ASSUME NEW p \in Procs, QueryEnds(p) \/ QueryFails(p)  PROVE IndInv'
  BY <1>9, QueryKeepsInv
<1> QED
  BY <1>0, <1>1, <1>2, <1>3, <1>4, <1>5, <1>6, <1>7, <1>8, <1>9
  DEF Next, ReadStep, RunStep

\* The strengthening holds throughout.
LEMMA Invariant == Spec => []IndInv
  BY IndInvInit, IndInvStep, PTL DEF Spec

\* The pool of any size is never dead: if it has no connection left, a query
\* runs, whatever handlers, manual runs and loops do.
THEOREM PoolCorrect == Spec => []WaitsForQueries
<1>1. IndInv => WaitsForQueries
  <2> SUFFICES ASSUME IndInv, Cardinality(held) = MaxConns
               PROVE  \E p \in held : pc[p] = "query"
    BY DEF WaitsForQueries
  <2>1. held # {}
    BY ServerAssumption, FS_EmptySet
  <2> QED  BY <2>1 DEF IndInv, HeldByQueries
<1> QED  BY <1>1, Invariant, PTL

\* No request, of however many, is cut off by the end of the process or left to a
\* closed pool before the deadline of the shutdown, unless the listener failed.
THEOREM DrainCorrect == Spec => []DrainedFirst
<1>1. IndInv => DrainedFirst
  BY DEF IndInv
<1> QED  BY <1>1, Invariant, PTL

\* Every variable keeps its type, and DB_MAX_CONNS holds.
THEOREM TypeCorrect == Spec => []TypeOK
<1>1. IndInv => TypeOK
  <2> SUFFICES ASSUME IndInv  PROVE TypeOK
    OBVIOUS
  <2>0. DOMAIN queue = 1..Len(queue) /\ Len(queue) \in Nat
        /\ \A n \in 1..Len(queue) : queue[n] \in Procs
    BY LenProperties DEF IndInv, Types
  <2>1. Waiting = {p \in Procs : pc[p] = "wait"}
    BY <2>0 DEF IndInv, QueueOfWaiting, Waiting
  <2>2. Cardinality(Waiting) = Len(queue)
    <3>1. queue \in Bijection(1..Len(queue), Waiting)
      <4>1. queue \in [1..Len(queue) -> Waiting]
        BY <2>0, LenProperties DEF Waiting, IndInv, Types
      <4>2. \A m, n \in 1..Len(queue) : queue[m] = queue[n] => m = n
        BY <2>0 DEF IndInv, QueueOfWaiting
      <4>3. \A x \in Waiting : \E n \in 1..Len(queue) : queue[n] = x
        BY <2>0 DEF Waiting
      <4> QED  BY <4>1, <4>2, <4>3 DEF Bijection, Injection, Surjection, IsInjective
    <3>2. ExistsBijection(1..Len(queue), Waiting)
      BY <3>1 DEF ExistsBijection
    <3>3. IsFiniteSet(1..Len(queue)) /\ Cardinality(1..Len(queue)) = Len(queue)
      BY <2>0, FS_Interval
    <3> QED  BY <3>2, <3>3, FS_Bijection
  <2>3. \A p \in Procs : pc[p] = "query" => p \in held
    BY DEF IndInv, HeldByQueries
  <2> QED  BY <2>1, <2>2, <2>3 DEF IndInv, Types, MaxConnsHold, TypeOK
<1> QED  BY <1>1, Invariant, PTL
=============================================================================
