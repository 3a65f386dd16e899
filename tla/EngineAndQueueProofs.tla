-------------------------- MODULE EngineAndQueueProofs --------------------------
(***************************************************************************)
(* Theorems about the two parts that every process which runs workflows is *)
(* made of, and that know nothing of each other: WorkflowEngine, for every *)
(* workflow (any finite set of nodes, any set of graphs, any ifElse nodes, *)
(* external inputs and nodes loaded as executed), with Topology, for every *)
(* definition it may be given; and RabbitQueue, for any messages, any      *)
(* number of lost connections and any number of requeues.                  *)
(***************************************************************************)
EXTENDS WorkflowEngine, RabbitQueue, Topology, FiniteSetTheorems, WellFoundedInduction, TLAPS

-------------------------------------------------------------------------------
(***************************************************************************)
(* WorkflowEngine.                                                         *)
(***************************************************************************)

\* The elements of a sequence over S are in S.
LEMMA ElemsType ==
    ASSUME NEW S, NEW s \in Seq(S)
    PROVE  Elems(s) \in SUBSET S
BY DEF Elems

\* Taking the head off a duplicate-free queue takes it out of its elements.
LEMMA TailFacts ==
    ASSUME NEW S, NEW s \in Seq(S), s # <<>>
    PROVE  /\ Head(s) \in S
           /\ Head(s) \in Elems(s)
           /\ Tail(s) \in Seq(S)
           /\ \A i \in DOMAIN Tail(s) : i + 1 \in DOMAIN s /\ Tail(s)[i] = s[i + 1]
           /\ Elems(s) = {Head(s)} \cup Elems(Tail(s))
           /\ Distinct(s) => Distinct(Tail(s)) /\ Head(s) \notin Elems(Tail(s))
<1>1. /\ Head(s) \in S /\ Head(s) = s[1] /\ Tail(s) \in Seq(S)
      /\ 1 \in DOMAIN s
      /\ \A i \in DOMAIN Tail(s) : i + 1 \in DOMAIN s /\ Tail(s)[i] = s[i + 1]
      /\ \A j \in DOMAIN s : j = 1 \/ (j - 1 \in DOMAIN Tail(s) /\ Tail(s)[j - 1] = s[j])
  OBVIOUS
<1>2. Elems(s) = {Head(s)} \cup Elems(Tail(s))
  <2>1. ASSUME NEW x \in Elems(s) PROVE x \in {Head(s)} \cup Elems(Tail(s))
    <3>1. PICK j \in DOMAIN s : s[j] = x
      BY <2>1 DEF Elems
    <3>2. QED
      BY <1>1, <3>1 DEF Elems
  <2>2. ASSUME NEW x \in Elems(Tail(s)) PROVE x \in Elems(s)
    BY <1>1, <2>2 DEF Elems
  <2>3. QED
    BY <1>1, <2>1, <2>2 DEF Elems
<1>3. ASSUME Distinct(s) PROVE Distinct(Tail(s)) /\ Head(s) \notin Elems(Tail(s))
  <2>1. ASSUME NEW i \in DOMAIN Tail(s), NEW j \in DOMAIN Tail(s), Tail(s)[i] = Tail(s)[j]
        PROVE  i = j
    <3>1. i + 1 = j + 1
      BY <1>1, <1>3, <2>1 DEF Distinct
    <3>2. i \in Int /\ j \in Int
      BY <1>1
    <3>3. QED
      BY <3>1, <3>2
  <2>2. ASSUME NEW i \in DOMAIN Tail(s), Tail(s)[i] = Head(s) PROVE FALSE
    <3>1. i + 1 = 1 /\ i \in 1..Len(Tail(s))
      BY <1>1, <1>3, <2>2 DEF Distinct
    <3>2. QED
      BY <3>1
  <2>3. QED
    BY <2>1, <2>2 DEF Distinct, Elems
<1>4. QED
  BY <1>1, <1>2, <1>3 DEF Elems

\* InOrderOf holds arrangements of the given set: all of it, each element once.
LEMMA InOrderFacts ==
    ASSUME NEW S, NEW allowed \in Seq(S), NEW new, IsFiniteSet(new),
           NEW f \in InOrderOf(allowed, new)
    PROVE  /\ f \in Seq(new)
           /\ Distinct(f)
           /\ Elems(f) = new
<1> DEFINE k == Cardinality(new)
<1>1. k \in Nat
  BY FS_CardinalityType
<1>2. f \in [1..k -> new] /\ DOMAIN f = 1..k
  BY DEF InOrderOf
<1>3. \A i, j \in 1..k : i < j => Before(allowed, f[i], f[j])
  BY <1>2 DEF InOrderOf
<1>4. ASSUME NEW a PROVE ~Before(allowed, a, a)
  <2>1. \A m \in DOMAIN allowed : m \in 1..m
    OBVIOUS
  <2>2. QED
    BY <2>1 DEF Before
<1>5. \A i, j \in 1..k : f[i] = f[j] => i = j
  <2>1. SUFFICES ASSUME NEW i \in 1..k, NEW j \in 1..k, f[i] = f[j], i # j
                 PROVE  FALSE
    OBVIOUS
  <2>2. i < j \/ j < i
    BY <2>1
  <2>3. QED
    BY <1>3, <1>4, <2>1, <2>2
<1>6. f \in Seq(new) /\ Distinct(f)
  BY <1>1, <1>2, <1>5 DEF Distinct
<1>7. f \in Surjection(1..k, new)
  <2>1. f \in Injection(1..k, new)
    BY <1>2, <1>5 DEF Injection, IsInjective
  <2>2. IsFiniteSet(1..k) /\ Cardinality(1..k) = k
    BY <1>1, FS_Interval
  <2>3. QED
    BY <2>1, <2>2, FS_Injection
<1>8. Elems(f) = new
  BY <1>2, <1>7 DEF Elems, Surjection
<1>9. QED
  BY <1>6, <1>8

(***************************************************************************)
(* What the loop of _scheduleChildren leaves behind: the queue it found,   *)
(* still duplicate-free, followed by exactly the new children.             *)
(***************************************************************************)
LEMMA ScheduledFacts ==
    ASSUME NEW S, IsFiniteSet(S),
           NEW old \in Seq(S), NEW seen, NEW allowed \in Seq(S),
           NEW q \in Scheduled(old, seen, allowed)
    PROVE  /\ q \in Seq(S)
           /\ Elems(q) = Elems(old) \cup NewChildren(old, seen, allowed)
           /\ \A i \in DOMAIN old : i \in DOMAIN q /\ q[i] = old[i]
           /\ \A i \in DOMAIN q \ DOMAIN old : q[i] \notin seen
           /\ Distinct(old) => Distinct(q)
<1> DEFINE new == NewChildren(old, seen, allowed)
<1>1. new \in SUBSET S /\ IsFiniteSet(new)
  <2>1. new \in SUBSET S
    BY ElemsType DEF NewChildren
  <2>2. QED
    BY <2>1, FS_Subset
<1>2. PICK f \in InOrderOf(allowed, new) : q = old \o f
  BY DEF Scheduled
<1>3. f \in Seq(new) /\ Distinct(f) /\ Elems(f) = new
  BY <1>1, <1>2, InOrderFacts
<1>4. f \in Seq(S)
  BY <1>1, <1>3
<1>5. /\ q \in Seq(S)
      /\ Len(q) = Len(old) + Len(f)
      /\ \A i \in 1..Len(old) : q[i] = old[i]
      /\ \A i \in (Len(old) + 1)..Len(q) : i - Len(old) \in 1..Len(f)
                                             /\ q[i] = f[i - Len(old)]
      /\ \A i \in 1..Len(f) : i + Len(old) \in 1..Len(q) /\ q[i + Len(old)] = f[i]
  BY <1>2, <1>4
<1>6. /\ DOMAIN q = 1..Len(q) /\ DOMAIN old = 1..Len(old) /\ DOMAIN f = 1..Len(f)
      /\ Len(old) \in Nat /\ Len(f) \in Nat
  BY <1>4, <1>5
<1>7. Elems(q) = Elems(old) \cup new
  <2>1. ASSUME NEW x \in Elems(q) PROVE x \in Elems(old) \cup Elems(f)
    <3>1. PICK i \in 1..Len(q) : q[i] = x
      BY <1>6, <2>1 DEF Elems
    <3>2. CASE i <= Len(old)
      <4>1. i \in 1..Len(old)
        BY <1>6, <3>2
      <4>2. x = old[i] /\ i \in DOMAIN old
        BY <1>5, <1>6, <3>1, <4>1
      <4>3. QED
        BY <4>2 DEF Elems
    <3>3. CASE i > Len(old)
      <4>1. i \in (Len(old) + 1)..Len(q)
        BY <1>5, <1>6, <3>3
      <4>2. i - Len(old) \in DOMAIN f /\ x = f[i - Len(old)]
        BY <1>5, <1>6, <3>1, <4>1
      <4>3. QED
        BY <4>2 DEF Elems
    <3>4. QED
      BY <1>6, <3>2, <3>3
  <2>2. ASSUME NEW x \in Elems(old) PROVE x \in Elems(q)
    <3>1. PICK i \in 1..Len(old) : old[i] = x
      BY <1>6, <2>2 DEF Elems
    <3>2. i \in 1..Len(q) /\ q[i] = x
      BY <1>5, <1>6, <3>1
    <3>3. QED
      BY <1>6, <3>2 DEF Elems
  <2>3. ASSUME NEW x \in Elems(f) PROVE x \in Elems(q)
    <3>1. PICK i \in 1..Len(f) : f[i] = x
      BY <1>6, <2>3 DEF Elems
    <3>2. i + Len(old) \in 1..Len(q) /\ q[i + Len(old)] = x
      BY <1>5, <3>1
    <3>3. QED
      BY <1>6, <3>2 DEF Elems
  <2>4. QED
    BY <1>3, <2>1, <2>2, <2>3
<1>8. \A i \in DOMAIN old : i \in DOMAIN q /\ q[i] = old[i]
  BY <1>5, <1>6
<1>9. \A i \in DOMAIN q \ DOMAIN old : q[i] \in new
  <2>1. ASSUME NEW i \in DOMAIN q \ DOMAIN old PROVE q[i] \in new
    <3>1. i \in (Len(old) + 1)..Len(q)
      BY <1>5, <1>6
    <3>2. QED
      BY <1>3, <1>5, <1>6, <3>1 DEF Elems
  <2>2. QED
    BY <2>1
<1>10. ASSUME Distinct(old) PROVE Distinct(q)
  <2>1. SUFFICES ASSUME NEW i \in 1..Len(q), NEW j \in 1..Len(q), q[i] = q[j], i < j
                 PROVE  FALSE
    BY <1>6 DEF Distinct
  <2>2. CASE j <= Len(old)
    <3>1. i \in 1..Len(old) /\ j \in 1..Len(old) /\ i # j
      BY <1>6, <2>1, <2>2
    <3>2. old[i] = old[j]
      BY <1>5, <2>1, <3>1
    <3>3. QED
      BY <1>6, <1>10, <3>1, <3>2 DEF Distinct
  <2>3. CASE i > Len(old)
    <3>1. /\ i \in (Len(old) + 1)..Len(q) /\ j \in (Len(old) + 1)..Len(q)
          /\ i - Len(old) # j - Len(old)
      BY <1>5, <1>6, <2>1, <2>3
    <3>2. /\ i - Len(old) \in 1..Len(f) /\ j - Len(old) \in 1..Len(f)
          /\ f[i - Len(old)] = f[j - Len(old)]
      BY <1>5, <2>1, <3>1
    <3>3. QED
      BY <1>3, <1>6, <3>1, <3>2 DEF Distinct
  <2>4. CASE i <= Len(old) /\ j > Len(old)
    <3>1. i \in DOMAIN old /\ j \in DOMAIN q \ DOMAIN old
      BY <1>6, <2>1, <2>4
    <3>2. q[i] \in Elems(old)
      BY <1>8, <3>1 DEF Elems
    <3>3. QED
      BY <1>9, <2>1, <3>1, <3>2 DEF NewChildren
  <2>5. QED
    BY <1>6, <2>1, <2>2, <2>3, <2>4
<1>11. QED
  BY <1>5, <1>7, <1>8, <1>9, <1>10 DEF NewChildren

-------------------------------------------------------------------------------
\* What ties the executed flags to the history.
Flags ==
    /\ executed = preset \cup ran
    /\ ran \cap preset = {}

\* The inductive invariant.
Inv == TypeOK /\ QueueCoherent /\ Flags /\ Elems(queue) \cap ran = {}

\* The ifElse node and the others choose among the node's own edges.
LEMMA AllowedType ==
    ASSUME TypeOK, NEW n \in Nodes, NEW cond \in BOOLEAN
    PROVE  /\ AllowedNextIds(n, cond) \in Seq(Nodes)
           /\ Elems(AllowedNextIds(n, cond)) \subseteq Elems(outgoing[n])
           /\ n \in Branching /\ Len(outgoing[n]) >= 2 =>
                 \A c, d \in Elems(AllowedNextIds(n, cond)) : c = d
<1>1. outgoing[n] \in Seq(Nodes)
  BY EngineAssumption DEF TypeOK
<1>2. CASE NextIds(n, cond) = <<>>
  <2>1. ~(n \in Branching /\ Len(outgoing[n]) >= 2)
    BY <1>1, <1>2 DEF NextIds
  <2>2. QED
    BY <1>1, <1>2, <2>1 DEF AllowedNextIds
<1>3. CASE NextIds(n, cond) # <<>>
  <2>1. \E i \in DOMAIN outgoing[n] : NextIds(n, cond) = <<outgoing[n][i]>>
    BY <1>1, <1>3 DEF NextIds
  <2>2. PICK i \in DOMAIN outgoing[n] : AllowedNextIds(n, cond) = <<outgoing[n][i]>>
    BY <1>3, <2>1 DEF AllowedNextIds
  <2>3. outgoing[n][i] \in Nodes /\ outgoing[n][i] \in Elems(outgoing[n])
    BY <1>1, <2>2 DEF Elems
  <2>4. QED
    BY <2>2, <2>3 DEF Elems
<1>4. QED
  BY <1>2, <1>3

\* A child's inputs are a count.
LEMMA WiringsType ==
    ASSUME NEW S, NEW allowed \in Seq(S), NEW c
    PROVE  /\ Wirings(allowed, c) \in Nat
           /\ Wirings(allowed, c) = 0 <=> c \notin Elems(allowed)
<1> DEFINE P == {i \in DOMAIN allowed : allowed[i] = c}
<1>1. Len(allowed) \in Nat /\ DOMAIN allowed = 1..Len(allowed)
  OBVIOUS
<1>2. IsFiniteSet(1..Len(allowed))
  BY <1>1, FS_Interval
<1>3. IsFiniteSet(P)
  BY <1>1, <1>2, FS_Subset
<1>4. Cardinality(P) \in Nat /\ (Cardinality(P) = 0 <=> P = {})
  BY <1>3, FS_CardinalityType, FS_EmptySet
<1>5. P = {} <=> c \notin Elems(allowed)
  BY DEF Elems
<1>6. QED
  BY <1>4, <1>5 DEF Wirings

LEMMA InitInv == Init => Inv
<1> SUFFICES ASSUME Init PROVE Inv
  OBVIOUS
<1> USE EngineAssumption DEF Init
<1>1. TypeOK
  <2>1. inputs \in [Nodes -> [Nodes -> Nat]]
    OBVIOUS
  <2>2. took \in [Nodes -> Seq(Nodes)]
    OBVIOUS
  <2>3. queue \in Seq(Nodes)
    OBVIOUS
  <2>4. preset \in SUBSET Nodes /\ stored \in [Nodes -> SUBSET InputIds]
    OBVIOUS
  <2>5. QED
    BY <2>1, <2>2, <2>3, <2>4 DEF TypeOK, Statuses
<1>2. QueueCoherent /\ Flags /\ Elems(queue) \cap ran = {}
  BY DEF QueueCoherent, Flags, Distinct
<1>3. QED
  BY <1>1, <1>2 DEF Inv

\* The head of the queue and what is left behind it.
LEMMA DequeueFacts ==
    ASSUME Inv, NEW n \in Nodes, Dequeue(n)
    PROVE  /\ Tail(queue) \in Seq(Nodes)
           /\ Distinct(Tail(queue))
           /\ Elems(queue) = {n} \cup Elems(Tail(queue))
           /\ n \notin Elems(Tail(queue))
           /\ \A i \in DOMAIN Tail(queue) : Tail(queue)[i] \notin visited'
           /\ visited' \in SUBSET Nodes
<1>1. queue \in Seq(Nodes) /\ queue # <<>> /\ n = Head(queue) /\ Distinct(queue)
  BY DEF Inv, TypeOK, QueueCoherent, Dequeue
<1>2. /\ Tail(queue) \in Seq(Nodes)
      /\ \A i \in DOMAIN Tail(queue) : i + 1 \in DOMAIN queue /\ Tail(queue)[i] = queue[i + 1]
      /\ Elems(queue) = {n} \cup Elems(Tail(queue))
      /\ Distinct(Tail(queue)) /\ n \notin Elems(Tail(queue))
  BY <1>1, TailFacts
<1>3. ASSUME NEW i \in DOMAIN Tail(queue) PROVE Tail(queue)[i] \notin visited'
  <2>1. i \in Nat /\ i >= 1
    BY <1>2
  <2>2. Tail(queue)[i] = queue[i + 1] /\ i + 1 \in DOMAIN queue /\ i + 1 # 1
    BY <1>2, <2>1
  <2>3. Tail(queue)[i] \notin visited
    BY <2>2 DEF Inv, QueueCoherent
  <2>4. Tail(queue)[i] # n
    BY <1>2, <1>3 DEF Elems
  <2>5. QED
    BY <2>3, <2>4 DEF Dequeue
<1>4. visited' \in SUBSET Nodes
  BY DEF Inv, TypeOK, Dequeue
<1>5. QED
  BY <1>2, <1>3, <1>4

\* A clock that puts the node back changes neither the queue nor the nodes.
LEMMA PutBackInv ==
    ASSUME Inv, NEW n \in Nodes, Dequeue(n), PutBack(n),
           expecting' \in (Nodes \X InputIds) \cup {NoNode}, result' \in Statuses
    PROVE  Inv'
<1>1. TypeOK'
  BY DequeueFacts DEF Inv, TypeOK, Dequeue, PutBack, graph
<1>2. QueueCoherent'
  <2>1. Distinct(queue') /\ ran' \subseteq visited' /\ (finished' <=> queue' = <<>>)
    BY DEF Inv, QueueCoherent, Dequeue, PutBack
  <2>2. ASSUME NEW i \in DOMAIN queue', queue'[i] \in visited' PROVE i = 1
    <3>1. i \in DOMAIN queue /\ queue' = queue /\ queue \in Seq(Nodes) /\ queue # <<>>
      BY <2>2 DEF PutBack, Inv, TypeOK, Dequeue
    <3>2. CASE queue[i] \in visited
      BY <3>1, <3>2 DEF Inv, QueueCoherent
    <3>3. CASE queue[i] = n
      <4>1. 1 \in DOMAIN queue /\ n = queue[1]
        BY <3>1 DEF Dequeue
      <4>2. QED
        BY <3>1, <3>3, <4>1 DEF Inv, QueueCoherent, Distinct
    <3>4. QED
      BY <2>2, <3>1, <3>2, <3>3 DEF Dequeue
  <2>3. QED
    BY <2>1, <2>2 DEF QueueCoherent
<1>3. Flags' /\ Elems(queue)' \cap ran' = {}
  BY DEF Inv, Flags, Elems, Dequeue, PutBack, graph
<1>4. QED
  BY <1>1, <1>2, <1>3 DEF Inv

LEMMA ClockWaitingInv ==
    ASSUME Inv, NEW n \in Nodes, ClockWaiting(n)
    PROVE  Inv'
<1>1. PICK i \in Missing(n) : expecting' = <<n, Required[n][i]>>
  BY DEF ClockWaiting
<1>2. Required[n][i] \in InputIds
  BY <1>1, EngineAssumption DEF Missing
<1>3. QED
  BY <1>1, <1>2, PutBackInv DEF ClockWaiting, Statuses

LEMMA ClockInsufficientCreditInv ==
    ASSUME Inv, NEW n \in Nodes, ClockInsufficientCredit(n)
    PROVE  Inv'
<1>1. expecting' \in (Nodes \X InputIds) \cup {NoNode}
  BY DEF ClockInsufficientCredit, Inv, TypeOK
<1>2. QED
  BY <1>1, PutBackInv DEF ClockInsufficientCredit, Statuses

LEMMA ClockAlreadyExecutedInv ==
    ASSUME Inv, NEW n \in Nodes, ClockAlreadyExecuted(n)
    PROVE  Inv'
<1>1. /\ Dequeue(n)
      /\ queue' = Tail(queue) /\ finished' = (queue' = <<>>)
      /\ current' = IF queue' = <<>> THEN NoNode ELSE n
      /\ result' = "ok"
      /\ UNCHANGED <<outgoing, preset, executed, inputs, stored, expecting, ran, threw, took>>
  BY DEF ClockAlreadyExecuted, Dequeue, Leave, graph
<1>2. TypeOK'
  BY <1>1, DequeueFacts DEF Inv, TypeOK, Statuses
<1>3. QueueCoherent'
  <2>1. Distinct(queue') /\ ran' \subseteq visited' /\ (finished' <=> queue' = <<>>)
    BY <1>1, DequeueFacts DEF Inv, QueueCoherent, Dequeue
  <2>2. \A i \in DOMAIN queue' : queue'[i] \notin visited'
    BY <1>1, DequeueFacts
  <2>3. QED
    BY <2>1, <2>2 DEF QueueCoherent
<1>4. Flags'
  BY <1>1 DEF Inv, Flags
<1>5. Elems(queue)' \cap ran' = {}
  <2>1. Elems(Tail(queue)) \subseteq Elems(queue)
    BY <1>1, DequeueFacts
  <2>2. Elems(queue)' = Elems(Tail(queue))
    BY <1>1 DEF Elems
  <2>3. QED
    BY <1>1, <2>1, <2>2 DEF Inv
<1>6. QED
  BY <1>2, <1>3, <1>4, <1>5 DEF Inv

LEMMA ClockTerminatedInv ==
    ASSUME Inv, NEW n \in Nodes, ClockTerminated(n)
    PROVE  Inv'
<1>1. Dequeue(n) /\ n \notin executed
  BY DEF ClockTerminated
<1>2. TypeOK'
  <2>1. <<>> \in Seq(Nodes)
    OBVIOUS
  <2>2. QED
    BY <1>1, <2>1, DequeueFacts DEF ClockTerminated, Dequeue, graph, Inv, TypeOK, Statuses
<1>3. QueueCoherent'
  BY <1>1 DEF ClockTerminated, Dequeue, Inv, QueueCoherent, Distinct
<1>4. Flags' /\ Elems(queue)' \cap ran' = {}
  BY <1>1 DEF ClockTerminated, Dequeue, graph, Inv, Flags, Elems
<1>5. QED
  BY <1>2, <1>3, <1>4 DEF Inv
-------------------------------------------------------------------------------
\* What a clock that runs node n does, with the branch it took.
LEMMA ClockOkFacts ==
    ASSUME Inv, NEW n \in Nodes, ClockOk(n)
    PROVE  \E allowed \in Seq(Nodes) :
              /\ Elems(allowed) \subseteq Elems(outgoing[n])
              /\ n \in Branching /\ Len(outgoing[n]) >= 2 =>
                    \A c, d \in Elems(allowed) : c = d
              /\ inputs' = [c \in Nodes |->
                               [inputs[c] EXCEPT ![n] = @ + Wirings(allowed, c)]]
              /\ took' = [took EXCEPT ![n] = allowed]
              /\ queue' \in Seq(Nodes)
              /\ Elems(queue') = Elems(Tail(queue))
                                   \cup NewChildren(Tail(queue), visited', allowed)
              /\ \A i \in DOMAIN Tail(queue) :
                    i \in DOMAIN queue' /\ queue'[i] = Tail(queue)[i]
              /\ \A i \in DOMAIN queue' : queue'[i] \notin visited'
              /\ Distinct(queue')
              /\ finished' = (queue' = <<>>)
              /\ current' = IF queue' = <<>> THEN NoNode ELSE n
<1>1. PICK cond \in BOOLEAN :
         LET allowed == AllowedNextIds(n, cond) IN
         /\ took' = [took EXCEPT ![n] = allowed]
         /\ inputs' = [c \in Nodes |->
                         [inputs[c] EXCEPT ![n] = @ + Wirings(allowed, c)]]
         /\ \E q \in Scheduled(Tail(queue), visited', allowed) : Leave(n, q)
  BY DEF ClockOk
<1> DEFINE allowed == AllowedNextIds(n, cond)
<1>2. /\ allowed \in Seq(Nodes) /\ Elems(allowed) \subseteq Elems(outgoing[n])
      /\ n \in Branching /\ Len(outgoing[n]) >= 2 => \A c, d \in Elems(allowed) : c = d
  BY AllowedType DEF Inv
<1>3. PICK q \in Scheduled(Tail(queue), visited', allowed) : Leave(n, q)
  BY <1>1
<1>4. /\ Tail(queue) \in Seq(Nodes) /\ Distinct(Tail(queue))
      /\ \A i \in DOMAIN Tail(queue) : Tail(queue)[i] \notin visited'
  BY DequeueFacts DEF ClockOk
<1> HIDE DEF allowed
<1>5. /\ q \in Seq(Nodes)
      /\ Elems(q) = Elems(Tail(queue)) \cup NewChildren(Tail(queue), visited', allowed)
      /\ \A i \in DOMAIN Tail(queue) : i \in DOMAIN q /\ q[i] = Tail(queue)[i]
      /\ \A i \in DOMAIN q \ DOMAIN Tail(queue) : q[i] \notin visited'
      /\ Distinct(q)
  <2>1. IsFiniteSet(Nodes)
    BY EngineAssumption
  <2> DEFINE rest == Tail(queue)
              vis  == visited'
  <2>2. rest \in Seq(Nodes) /\ Distinct(rest) /\ q \in Scheduled(rest, vis, allowed)
    BY <1>3, <1>4
  <2> HIDE DEF rest, vis
  <2>3. /\ q \in Seq(Nodes)
        /\ Elems(q) = Elems(rest) \cup NewChildren(rest, vis, allowed)
        /\ \A i \in DOMAIN rest : i \in DOMAIN q /\ q[i] = rest[i]
        /\ \A i \in DOMAIN q \ DOMAIN rest : q[i] \notin vis
        /\ Distinct(q)
    BY <1>2, <2>1, <2>2, ScheduledFacts
  <2>4. QED
    BY <2>3 DEF rest, vis
<1>6. \A i \in DOMAIN q : q[i] \notin visited'
  BY <1>4, <1>5
<1>7. queue' = q /\ finished' = (q = <<>>) /\ current' = IF q = <<>> THEN NoNode ELSE n
  BY <1>3 DEF Leave
<1>8. /\ took' = [took EXCEPT ![n] = allowed]
      /\ inputs' = [c \in Nodes |-> [inputs[c] EXCEPT ![n] = @ + Wirings(allowed, c)]]
  BY <1>1 DEF allowed
<1>9. QED
  BY <1>2, <1>5, <1>6, <1>7, <1>8

LEMMA ClockOkInv ==
    ASSUME Inv, NEW n \in Nodes, ClockOk(n)
    PROVE  Inv'
<1>1. /\ Dequeue(n) /\ n \notin executed
      /\ executed' = executed \cup {n} /\ ran' = ran \cup {n}
      /\ result' = "ok"
      /\ UNCHANGED <<outgoing, preset, stored, expecting, threw>>
      /\ visited' = visited \cup {n}
  BY DEF ClockOk, Dequeue, graph
<1>2. PICK allowed \in Seq(Nodes) :
              /\ inputs' = [c \in Nodes |->
                               [inputs[c] EXCEPT ![n] = @ + Wirings(allowed, c)]]
              /\ took' = [took EXCEPT ![n] = allowed]
              /\ queue' \in Seq(Nodes)
              /\ \A i \in DOMAIN queue' : queue'[i] \notin visited'
              /\ Distinct(queue')
              /\ finished' = (queue' = <<>>)
              /\ current' = IF queue' = <<>> THEN NoNode ELSE n
  BY ClockOkFacts
<1>3. TypeOK'
  <2>1. inputs' \in [Nodes -> [Nodes -> Nat]]
    <3>1. \A c \in Nodes : Wirings(allowed, c) \in Nat
      BY WiringsType
    <3>2. \A c \in Nodes : inputs[c] \in [Nodes -> Nat]
      BY DEF Inv, TypeOK
    <3>3. \A c \in Nodes :
             [inputs[c] EXCEPT ![n] = inputs[c][n] + Wirings(allowed, c)] \in [Nodes -> Nat]
      BY <3>1, <3>2
    <3>4. QED
      BY <1>2, <3>3
  <2>2. took' \in [Nodes -> Seq(Nodes)]
    BY <1>2 DEF Inv, TypeOK
  <2>3. threw' \subseteq ran' /\ ran' \subseteq Nodes /\ executed' \subseteq Nodes
    BY <1>1 DEF Inv, TypeOK
  <2>4. visited' \subseteq Nodes
    BY <1>1, DequeueFacts
  <2>5. current' \in Nodes \cup {NoNode} /\ finished' \in BOOLEAN
    BY <1>2
  <2>6. QED
    BY <1>1, <1>2, <2>1, <2>2, <2>3, <2>4, <2>5 DEF Inv, TypeOK, Statuses
<1>4. QueueCoherent'
  <2>1. ran' \subseteq visited'
    BY <1>1 DEF Inv, QueueCoherent
  <2>2. QED
    BY <1>2, <2>1 DEF QueueCoherent
<1>5. Flags'
  BY <1>1 DEF Inv, Flags
<1>6. Elems(queue)' \cap ran' = {}
  <2>1. ran' \subseteq visited'
    BY <1>1 DEF Inv, QueueCoherent
  <2>2. QED
    BY <1>2, <2>1 DEF Elems
<1>7. QED
  BY <1>3, <1>4, <1>5, <1>6 DEF Inv

\* Steps outside the clock leave queue, history and flags alone.
LEMMA OtherInv ==
    ASSUME Inv, ClockFinished \/ AppendExternalInput \/ UNCHANGED vars
    PROVE  Inv'
<1>1. /\ UNCHANGED <<outgoing, preset, queue, visited, current, finished, executed,
                     inputs, ran, threw, took>>
      /\ stored' \in [Nodes -> SUBSET InputIds]
      /\ expecting' \in (Nodes \X InputIds) \cup {NoNode}
      /\ result' \in Statuses
  <2>1. CASE ClockFinished
    BY <2>1 DEF ClockFinished, graph, runtime, Inv, TypeOK, Statuses
  <2>2. CASE AppendExternalInput
    BY <2>2 DEF AppendExternalInput, graph, runtime, Inv, TypeOK
  <2>3. CASE UNCHANGED vars
    BY <2>3 DEF vars, graph, runtime, Inv, TypeOK
  <2>4. QED
    BY <2>1, <2>2, <2>3
<1>2. TypeOK'
  BY <1>1 DEF Inv, TypeOK
<1>3. QueueCoherent' /\ Flags' /\ Elems(queue)' \cap ran' = {}
  BY <1>1 DEF Inv, QueueCoherent, Flags, Elems, Distinct
<1>4. QED
  BY <1>2, <1>3 DEF Inv

LEMMA NextInv == Inv /\ [Next]_vars => Inv'
<1> SUFFICES ASSUME Inv, [Next]_vars PROVE Inv'
  OBVIOUS
<1>1. ASSUME NEW n \in Nodes, Clock(n) \/ ClockInsufficientCredit(n) PROVE Inv'
  BY <1>1, ClockWaitingInv, ClockInsufficientCreditInv, ClockAlreadyExecutedInv,
     ClockTerminatedInv, ClockOkInv DEF Clock
<1>2. QED
  BY <1>1, OtherInv DEF Next

LEMMA Invariance == Spec => []Inv
BY InitInv, NextInv, PTL DEF Spec

\* The state of the engine has its type in every reachable state.
THEOREM TypeCorrect == Spec => []TypeOK
<1>1. Inv => TypeOK
  BY DEF Inv
<1>2. QED
  BY <1>1, Invariance, PTL

(***************************************************************************)
(* The queue is duplicate-free, holds no visited node but the one put      *)
(* back, and is empty exactly when the run is over.                        *)
(***************************************************************************)
THEOREM Coherent == Spec => []QueueCoherent
<1>1. Inv => QueueCoherent
  BY DEF Inv
<1>2. QED
  BY <1>1, Invariance, PTL

\* A node that ran never comes back to the queue.
THEOREM RunsOnce == Spec => []NeverQueuedAgain
<1>1. Inv => NeverQueuedAgain
  BY DEF Inv, Flags, NeverQueuedAgain
<1>2. QED
  BY <1>1, Invariance, PTL
-------------------------------------------------------------------------------
\* What a node needs has arrived when it runs, and what has arrived stays.
LEMMA InputsNext ==
    ASSUME Inv, InputsBeforeRun, [Next]_vars
    PROVE  InputsBeforeRun'
<1>1. CASE \E n \in Nodes : ClockOk(n) \/ ClockTerminated(n)
  <2>1. PICK n \in Nodes : ClockOk(n) \/ ClockTerminated(n)
    BY <1>1
  <2>2. ran' = ran \cup {n} /\ stored' = stored /\ Missing(n) = {}
    BY <2>1 DEF ClockOk, ClockTerminated
  <2>3. Elems(Required[n]) \subseteq stored[n]
    BY <2>2 DEF Missing, Elems
  <2>4. QED
    BY <2>2, <2>3 DEF InputsBeforeRun
<1>2. CASE AppendExternalInput
  <2>1. ran' = ran /\ ran \subseteq Nodes
    BY <1>2 DEF AppendExternalInput, Inv, TypeOK
  <2>2. \A n \in Nodes : stored[n] \subseteq stored'[n]
    BY <1>2 DEF AppendExternalInput, Inv, TypeOK
  <2>3. QED
    BY <2>1, <2>2 DEF InputsBeforeRun
<1>3. CASE \/ \E n \in Nodes : \/ ClockWaiting(n) \/ ClockAlreadyExecuted(n)
                            \/ ClockInsufficientCredit(n)
           \/ ClockFinished
           \/ UNCHANGED vars
  <2>1. ran' = ran /\ stored' = stored
    BY <1>3 DEF ClockWaiting, ClockAlreadyExecuted, ClockInsufficientCredit, PutBack,
                ClockFinished, vars
  <2>2. QED
    BY <2>1 DEF InputsBeforeRun
<1>4. QED
  BY <1>1, <1>2, <1>3 DEF Next, Clock

(***************************************************************************)
(* A node runs only with all its declared external inputs in the storage,  *)
(* whatever the order in which questions are asked and answered.           *)
(***************************************************************************)
THEOREM RunsWithItsInputs == Spec => []InputsBeforeRun
<1>1. Init => InputsBeforeRun
  BY DEF Init, InputsBeforeRun
<1>2. Inv /\ InputsBeforeRun /\ [Next]_vars => InputsBeforeRun'
  BY InputsNext
<1>3. QED
  BY <1>1, <1>2, Invariance, PTL DEF Spec
-------------------------------------------------------------------------------
\* Until a node throws, every visited node has run, was preset, or is queued.
Accounted == threw = {} => visited \subseteq ran \cup preset \cup Elems(queue)

LEMMA AccountedNext ==
    ASSUME Inv, Accounted, NothingForgotten, [Next]_vars
    PROVE  Accounted' /\ NothingForgotten'
<1>1. CASE \E n \in Nodes : ClockOk(n)
  <2>1. PICK n \in Nodes : ClockOk(n)
    BY <1>1
  <2>2. PICK allowed \in Seq(Nodes) :
            /\ took' = [took EXCEPT ![n] = allowed]
            /\ Elems(queue') = Elems(Tail(queue))
                                 \cup NewChildren(Tail(queue), visited', allowed)
    BY <2>1, ClockOkFacts
  <2>3. /\ Dequeue(n) /\ ran' = ran \cup {n} /\ threw' = threw /\ preset' = preset
        /\ visited' = visited \cup {n}
    BY <2>1 DEF ClockOk, Dequeue, graph
  <2>4. Elems(queue) = {n} \cup Elems(Tail(queue))
    BY <2>3, DequeueFacts
  <2>5. Elems(queue)' = Elems(queue')
    BY DEF Elems
  <2>6. Accounted'
    BY <2>2, <2>3, <2>4, <2>5 DEF Accounted
  <2>7. ASSUME threw' = {}, NEW p \in ran'
        PROVE  Elems(took'[p]) \subseteq ran' \cup preset' \cup Elems(queue)'
    <3>1. CASE p = n
      <4>1. took'[p] = allowed
        BY <2>2, <3>1 DEF Inv, TypeOK
      <4>2. Elems(allowed) \subseteq visited' \cup Elems(queue')
        BY <2>2 DEF NewChildren
      <4>3. QED
        BY <2>5, <2>6, <2>7, <4>1, <4>2 DEF Accounted
    <3>2. CASE p # n
      <4>1. p \in ran /\ took'[p] = took[p]
        BY <2>2, <2>3, <2>7, <3>2 DEF Inv, TypeOK
      <4>2. Elems(took[p]) \subseteq ran \cup preset \cup Elems(queue)
        BY <2>3, <2>7, <4>1 DEF NothingForgotten
      <4>3. QED
        BY <2>2, <2>3, <2>4, <2>5, <4>1, <4>2
    <3>3. QED
      BY <3>1, <3>2
  <2>8. NothingForgotten'
    <3>1. \A p \in ran' : Elems(took[p])' = Elems(took'[p])
      BY DEF Elems
    <3>2. QED
      BY <2>7, <3>1 DEF NothingForgotten
  <2>9. QED
    BY <2>6, <2>8
<1>2. CASE \E n \in Nodes : ClockTerminated(n)
  <2>1. threw' # {}
    BY <1>2 DEF ClockTerminated
  <2>2. QED
    BY <2>1 DEF Accounted, NothingForgotten
<1>3. CASE \E n \in Nodes : ClockAlreadyExecuted(n)
  <2>1. PICK n \in Nodes : ClockAlreadyExecuted(n)
    BY <1>3
  <2>2. /\ Dequeue(n) /\ n \in executed /\ queue' = Tail(queue)
        /\ ran' = ran /\ threw' = threw /\ took' = took /\ preset' = preset
        /\ visited' = visited \cup {n}
    BY <2>1 DEF ClockAlreadyExecuted, Dequeue, Leave, graph
  <2>3. Elems(queue) = {n} \cup Elems(queue')
    BY <2>2, DequeueFacts
  <2>4. n \in ran \cup preset
    BY <2>2 DEF Inv, Flags
  <2>5. Elems(queue)' = Elems(queue')
    BY DEF Elems
  <2>6. Accounted'
    BY <2>2, <2>3, <2>4, <2>5 DEF Accounted
  <2>7. NothingForgotten'
    <3>1. \A p \in ran : Elems(took[p])' = Elems(took[p])
      BY <2>2 DEF Elems
    <3>2. ran \cup preset \cup Elems(queue) = ran' \cup preset' \cup Elems(queue)'
      BY <2>2, <2>3, <2>4, <2>5
    <3>3. QED
      BY <2>2, <3>1, <3>2 DEF NothingForgotten
  <2>8. QED
    BY <2>6, <2>7
<1>4. CASE \E n \in Nodes : ClockWaiting(n) \/ ClockInsufficientCredit(n)
  <2>1. PICK n \in Nodes : ClockWaiting(n) \/ ClockInsufficientCredit(n)
    BY <1>4
  <2>2. /\ Dequeue(n) /\ UNCHANGED <<queue, ran, threw, took, preset>>
        /\ visited' = visited \cup {n}
    BY <2>1 DEF ClockWaiting, ClockInsufficientCredit, Dequeue, PutBack, graph
  <2>3. n \in Elems(queue)
    BY <2>2, DequeueFacts
  <2>4. QED
    BY <2>2, <2>3 DEF Accounted, NothingForgotten, Elems
<1>5. CASE ClockFinished \/ AppendExternalInput \/ UNCHANGED vars
  <2>1. UNCHANGED <<queue, ran, threw, took, preset, visited>>
    BY <1>5 DEF ClockFinished, AppendExternalInput, vars, graph, runtime
  <2>2. QED
    BY <2>1 DEF Accounted, NothingForgotten, Elems
<1>6. QED
  BY <1>1, <1>2, <1>3, <1>4, <1>5 DEF Next, Clock

(***************************************************************************)
(* Unless a node threw, every child a node chose has run, is queued, or    *)
(* was loaded as executed: a finished workflow has forgotten nothing.      *)
(***************************************************************************)
THEOREM ForgetsNothing == Spec => []NothingForgotten
<1>1. Init => Accounted /\ NothingForgotten
  BY DEF Init, Accounted, NothingForgotten
<1>2. Inv /\ Accounted /\ NothingForgotten /\ [Next]_vars => Accounted' /\ NothingForgotten'
  BY AccountedNext
<1>3. QED
  BY <1>1, <1>2, Invariance, PTL DEF Spec
-------------------------------------------------------------------------------
\* A clock that runs node n wires n, and only n, to the children it takes.
LEMMA ClockOkWires ==
    ASSUME Inv, Caused, NEW n \in Nodes, ClockOk(n)
    PROVE  Caused'
<1>1. /\ Dequeue(n) /\ n \notin executed /\ ran' = ran \cup {n} /\ outgoing' = outgoing
  BY DEF ClockOk, Dequeue, graph
<1>2. PICK allowed \in Seq(Nodes) :
          /\ Elems(allowed) \subseteq Elems(outgoing[n])
          /\ n \in Branching /\ Len(outgoing[n]) >= 2 =>
                \A c, d \in Elems(allowed) : c = d
          /\ inputs' = [c \in Nodes |-> [inputs[c] EXCEPT ![n] = @ + Wirings(allowed, c)]]
          /\ Elems(queue') = Elems(Tail(queue))
                               \cup NewChildren(Tail(queue), visited', allowed)
  BY ClockOkFacts
<1>3. n \notin ran
  BY <1>1 DEF Inv, Flags
<1>4. \A c \in Nodes : /\ Wirings(allowed, c) \in Nat
                       /\ Wirings(allowed, c) = 0 <=> c \notin Elems(allowed)
  BY WiringsType
<1>5. ASSUME NEW c \in Nodes
      PROVE  /\ inputs'[c][n] > 0 <=> c \in Elems(allowed)
             /\ \A p \in Nodes \ {n} : inputs'[c][p] = inputs[c][p]
  <2>1. inputs[c] \in [Nodes -> Nat]
    BY DEF Inv, TypeOK
  <2>2. inputs[c][n] = 0
    BY <1>3, <2>1 DEF Caused
  <2>3. inputs'[c] = [inputs[c] EXCEPT ![n] = inputs[c][n] + Wirings(allowed, c)]
    BY <1>2
  <2>4. inputs'[c][n] = Wirings(allowed, c)
    BY <1>4, <2>1, <2>2, <2>3
  <2>5. inputs'[c][n] > 0 <=> c \in Elems(allowed)
    BY <1>4, <2>4
  <2>6. QED
    BY <2>1, <2>3, <2>5
<1>6. Elems(queue)' = Elems(queue') /\ \A p : Elems(outgoing[p])' = Elems(outgoing[p])
  BY <1>1 DEF Elems
<1>7. ASSUME NEW c \in (ran' \cup Elems(queue')) \ {Entry}
      PROVE  \E p \in ran' : inputs'[c][p] > 0
  <2>1. c \in Nodes /\ ran \subseteq Nodes
    <3>1. queue \in Seq(Nodes) /\ ran \subseteq Nodes
      BY DEF Inv, TypeOK
    <3>2. Elems(queue) \subseteq Nodes /\ Elems(allowed) \subseteq Nodes
      BY <3>1, ElemsType
    <3>3. Elems(Tail(queue)) \subseteq Elems(queue)
      BY <1>1, DequeueFacts
    <3>4. QED
      BY <1>1, <1>2, <3>1, <3>2, <3>3 DEF NewChildren
  <2>2. CASE c \in ran \cup Elems(queue)
    <3>1. PICK p \in ran : inputs[c][p] > 0
      BY <1>7, <2>2 DEF Caused
    <3>2. inputs'[c][p] = inputs[c][p]
      BY <1>3, <1>5, <2>1, <3>1
    <3>3. QED
      BY <1>1, <3>1, <3>2
  <2>3. CASE c \notin ran \cup Elems(queue)
    <3>1. Elems(queue) = {n} \cup Elems(Tail(queue))
      BY <1>1, DequeueFacts
    <3>2. c \in Elems(allowed)
      BY <1>1, <1>2, <1>7, <2>3, <3>1 DEF NewChildren
    <3>3. QED
      BY <1>1, <1>5, <2>1, <3>2
  <2>4. QED
    BY <2>2, <2>3
<1>8. ASSUME NEW c \in Nodes, NEW p \in Nodes, inputs'[c][p] > 0
      PROVE  /\ p \in ran' /\ c \in Elems(outgoing[p])
             /\ p \in Branching /\ Len(outgoing[p]) >= 2 =>
                   \A d \in Nodes : inputs'[d][p] > 0 => d = c
  <2>1. CASE p = n
    BY <1>1, <1>2, <1>5, <1>8, <2>1
  <2>2. CASE p # n
    BY <1>1, <1>5, <1>8, <2>2 DEF Caused
  <2>3. QED
    BY <2>1, <2>2
<1>9. QED
  BY <1>1, <1>6, <1>7, <1>8 DEF Caused

LEMMA CausedNext ==
    ASSUME Inv, Caused, [Next]_vars
    PROVE  Caused'
<1>1. ASSUME NEW n \in Nodes, ClockTerminated(n)
      PROVE  Caused'
  <2>1. /\ Dequeue(n) /\ ran' = ran \cup {n} /\ queue' = <<>>
        /\ UNCHANGED <<outgoing, inputs>>
    BY <1>1 DEF ClockTerminated, Dequeue, graph
  <2>2. n \in Elems(queue)
    BY <2>1, DequeueFacts
  <2>3. Elems(queue)' = {} /\ \A p : Elems(outgoing[p])' = Elems(outgoing[p])
    BY <2>1 DEF Elems
  <2>4. QED
    BY <2>1, <2>2, <2>3 DEF Caused
<1>2. ASSUME NEW n \in Nodes, ClockAlreadyExecuted(n)
      PROVE  Caused'
  <2>1. /\ Dequeue(n) /\ queue' = Tail(queue) /\ UNCHANGED <<ran, outgoing, inputs>>
    BY <1>2 DEF ClockAlreadyExecuted, Dequeue, Leave, graph
  <2>2. Elems(queue') \subseteq Elems(queue)
    BY <2>1, DequeueFacts
  <2>3. Elems(queue)' = Elems(queue') /\ \A p : Elems(outgoing[p])' = Elems(outgoing[p])
    BY <2>1 DEF Elems
  <2>4. QED
    BY <2>1, <2>2, <2>3 DEF Caused
<1>3. CASE \/ \E n \in Nodes : ClockWaiting(n) \/ ClockInsufficientCredit(n)
           \/ ClockFinished \/ AppendExternalInput \/ UNCHANGED vars
  <2>1. UNCHANGED <<outgoing, queue, ran, inputs>>
    BY <1>3 DEF ClockWaiting, ClockInsufficientCredit, Dequeue, PutBack, ClockFinished,
                AppendExternalInput, vars, graph, runtime
  <2>2. QED
    BY <2>1 DEF Caused, Elems
<1>4. QED
  BY <1>1, <1>2, <1>3, ClockOkWires DEF Next, Clock

(***************************************************************************)
(* A node that ran or waits to has the outputs of a parent that ran and    *)
(* chose it, and nothing from one that did not: the branch an ifElse node  *)
(* did not take gets neither data nor a turn.                              *)
(***************************************************************************)
THEOREM HasItsCause == Spec => []Caused
<1>1. Init => Caused
  BY EngineAssumption DEF Init, Caused, Elems
<1>2. Inv /\ Caused /\ [Next]_vars => Caused'
  BY CausedNext
<1>3. QED
  BY <1>1, <1>2, Invariance, PTL DEF Spec
-------------------------------------------------------------------------------
Ranks == [Nodes -> 0..Cardinality(Nodes)]

\* Every edge raises the rank by one.
Grades(rank) ==
    /\ rank[Entry] = 0
    /\ \A p \in Nodes : \A c \in Elems(outgoing[p]) : rank[c] = rank[p] + 1

\* The queue goes from one rank to the next, and what ran is not of a later one.
InOrder(rank) ==
    /\ \A i, j \in DOMAIN queue :
          i <= j => /\ rank[queue[i]] <= rank[queue[j]]
                    /\ rank[queue[j]] <= rank[queue[i]] + 1
    /\ \A c \in ran, i \in DOMAIN queue : rank[c] <= rank[queue[i]]

Layered == \A rank \in Ranks : Grades(rank) => InOrder(rank)

\* The rank of a node is a number.
LEMMA RankType == ASSUME NEW rank \in Ranks, NEW n \in Nodes PROVE rank[n] \in Nat
<1>1. IsFiniteSet(Nodes)
  BY EngineAssumption
<1>2. Cardinality(Nodes) \in Nat
  BY <1>1, FS_CardinalityType
<1>3. QED
  BY <1>2 DEF Ranks

\* Without its head, the queue stays in order, and the head is of no later rank.
LEMMA TailInOrder ==
    ASSUME Inv, NEW n \in Nodes, Dequeue(n), NEW rank \in Ranks, InOrder(rank)
    PROVE  /\ \A i \in DOMAIN Tail(queue) :
                 /\ rank[n] <= rank[Tail(queue)[i]]
                 /\ rank[Tail(queue)[i]] <= rank[n] + 1
                 /\ \A c \in ran : rank[c] <= rank[Tail(queue)[i]]
           /\ \A i, j \in DOMAIN Tail(queue) :
                 i <= j => /\ rank[Tail(queue)[i]] <= rank[Tail(queue)[j]]
                           /\ rank[Tail(queue)[j]] <= rank[Tail(queue)[i]] + 1
<1>1. queue \in Seq(Nodes) /\ queue # <<>> /\ n = queue[1] /\ 1 \in DOMAIN queue
  BY DEF Inv, TypeOK, Dequeue
<1>2. \A i \in DOMAIN Tail(queue) :
         /\ i \in Nat /\ i + 1 \in DOMAIN queue /\ Tail(queue)[i] = queue[i + 1]
         /\ 1 <= i + 1
  BY <1>1
<1>3. \A i, j \in DOMAIN Tail(queue) : i <= j => i + 1 <= j + 1
  BY <1>2
<1>4. QED
  BY <1>1, <1>2, <1>3 DEF InOrder

\* A node that runs appends the nodes of the next rank.
LEMMA ClockOkLayered ==
    ASSUME Inv, Layered, NEW n \in Nodes, ClockOk(n)
    PROVE  Layered'
<1>1. Dequeue(n) /\ ran' = ran \cup {n} /\ outgoing' = outgoing
  BY DEF ClockOk, Dequeue, graph
<1>2. PICK allowed \in Seq(Nodes) :
          /\ Elems(allowed) \subseteq Elems(outgoing[n])
          /\ queue' \in Seq(Nodes)
          /\ Elems(queue') = Elems(Tail(queue))
                               \cup NewChildren(Tail(queue), visited', allowed)
          /\ \A i \in DOMAIN Tail(queue) : i \in DOMAIN queue' /\ queue'[i] = Tail(queue)[i]
          /\ Distinct(queue')
  BY ClockOkFacts
<1>3. SUFFICES ASSUME NEW rank \in Ranks, Grades(rank)' PROVE InOrder(rank)'
  BY DEF Layered
<1>4. Grades(rank) /\ InOrder(rank)
  BY <1>1, <1>3 DEF Layered, Grades, Elems
<1>5. \A m \in Nodes : rank[m] \in Nat
  BY RankType
<1>6. ran \subseteq Nodes
  BY DEF Inv, TypeOK
<1>7. /\ Tail(queue) \in Seq(Nodes) /\ DOMAIN Tail(queue) = 1..Len(Tail(queue))
      /\ DOMAIN queue' = 1..Len(queue') /\ Len(Tail(queue)) \in Nat /\ Len(queue') \in Nat
  BY <1>1, <1>2, DequeueFacts
<1>8. ASSUME NEW i \in DOMAIN queue' \ DOMAIN Tail(queue)
      PROVE  rank[queue'[i]] = rank[n] + 1
  <2>1. queue'[i] \notin Elems(Tail(queue))
    <3>1. SUFFICES ASSUME NEW k \in DOMAIN Tail(queue), queue'[i] = Tail(queue)[k]
                   PROVE  FALSE
      BY DEF Elems
    <3>2. k \in DOMAIN queue' /\ queue'[k] = queue'[i]
      BY <1>2, <3>1
    <3>3. QED
      BY <1>2, <1>8, <3>1, <3>2 DEF Distinct
  <2>2. queue'[i] \in Elems(outgoing[n])
    BY <1>2, <2>1 DEF NewChildren, Elems
  <2>3. QED
    BY <1>4, <2>2 DEF Grades
<1>9. /\ \A i \in DOMAIN Tail(queue) :
            /\ rank[n] <= rank[queue'[i]]
            /\ rank[queue'[i]] <= rank[n] + 1
            /\ \A c \in ran : rank[c] <= rank[queue'[i]]
      /\ \A i, j \in DOMAIN Tail(queue) :
            i <= j => /\ rank[queue'[i]] <= rank[queue'[j]]
                      /\ rank[queue'[j]] <= rank[queue'[i]] + 1
  BY <1>1, <1>2, <1>4, TailInOrder
<1>10. \A i \in DOMAIN queue' : queue'[i] \in Nodes /\ rank[queue'[i]] \in Nat
  BY <1>2, <1>5
<1>11. \A c \in ran : rank[c] <= rank[n]
  <2>1. queue \in Seq(Nodes) /\ n = queue[1] /\ 1 \in DOMAIN queue
    BY <1>1 DEF Inv, TypeOK, Dequeue
  <2>2. QED
    BY <1>4, <2>1 DEF InOrder
<1>12. ASSUME NEW i \in DOMAIN queue', NEW j \in DOMAIN queue', i <= j
       PROVE  /\ rank[queue'[i]] <= rank[queue'[j]]
              /\ rank[queue'[j]] <= rank[queue'[i]] + 1
  <2>1. CASE j \in DOMAIN Tail(queue)
    <3>1. i \in DOMAIN Tail(queue)
      BY <1>7, <1>12, <2>1
    <3>2. QED
      BY <1>9, <1>12, <2>1, <3>1
  <2>2. CASE i \in DOMAIN Tail(queue) /\ j \notin DOMAIN Tail(queue)
    <3>1. rank[queue'[j]] = rank[n] + 1
      BY <1>8, <2>2
    <3>2. rank[n] <= rank[queue'[i]] /\ rank[queue'[i]] <= rank[n] + 1
      BY <1>9, <2>2
    <3>3. QED
      BY <1>5, <1>10, <3>1, <3>2
  <2>3. CASE i \notin DOMAIN Tail(queue) /\ j \notin DOMAIN Tail(queue)
    BY <1>5, <1>8, <2>3
  <2>4. QED
    BY <2>1, <2>2, <2>3
<1>13. ASSUME NEW c \in ran', NEW i \in DOMAIN queue'
       PROVE  rank[c] <= rank[queue'[i]]
  <2>1. rank[c] <= rank[n] /\ rank[c] \in Nat
    BY <1>1, <1>5, <1>6, <1>11
  <2>2. rank[n] <= rank[queue'[i]]
    BY <1>5, <1>8, <1>9
  <2>3. QED
    BY <1>5, <1>10, <2>1, <2>2
<1>14. QED
  BY <1>12, <1>13 DEF InOrder

LEMMA LayeredNext ==
    ASSUME Inv, Layered, [Next]_vars
    PROVE  Layered'
<1>1. ASSUME NEW n \in Nodes, ClockTerminated(n)
      PROVE  Layered'
  <2>1. queue' = <<>>
    BY <1>1 DEF ClockTerminated
  <2>2. QED
    BY <2>1 DEF Layered, InOrder
<1>2. ASSUME NEW n \in Nodes, ClockAlreadyExecuted(n)
      PROVE  Layered'
  <2>1. /\ Dequeue(n) /\ queue' = Tail(queue) /\ ran' = ran /\ outgoing' = outgoing
    BY <1>2 DEF ClockAlreadyExecuted, Dequeue, Leave, graph
  <2>2. SUFFICES ASSUME NEW rank \in Ranks, Grades(rank)' PROVE InOrder(rank)'
    BY DEF Layered
  <2>3. InOrder(rank)
    BY <2>1, <2>2 DEF Layered, Grades, Elems
  <2>4. QED
    BY <2>1, <2>3, TailInOrder DEF InOrder
<1>3. CASE \/ \E n \in Nodes : ClockWaiting(n) \/ ClockInsufficientCredit(n)
           \/ ClockFinished \/ AppendExternalInput \/ UNCHANGED vars
  <2>1. UNCHANGED <<outgoing, queue, ran>>
    BY <1>3 DEF ClockWaiting, ClockInsufficientCredit, Dequeue, PutBack, ClockFinished,
                AppendExternalInput, vars, graph, runtime
  <2>2. QED
    BY <2>1 DEF Layered, Grades, InOrder, Elems
<1>4. QED
  BY <1>1, <1>2, <1>3, ClockOkLayered DEF Next, Clock

LEMMA LayersJoin == Inv /\ Layered => JoinsWhenGraded
<1> SUFFICES ASSUME Inv, Layered, NEW rank \in Ranks, Grades(rank), NEW c \in ran,
                    NEW p \in Elems(queue), c \in Elems(outgoing[p])
             PROVE  FALSE
  BY DEF JoinsWhenGraded, Graded, Grades, Ranks
<1>1. PICK i \in DOMAIN queue : queue[i] = p
  BY DEF Elems
<1>2. c \in Nodes /\ p \in Nodes
  BY <1>1 DEF Inv, TypeOK
<1>3. rank[c] = rank[p] + 1 /\ rank[c] <= rank[p]
  BY <1>1, <1>2 DEF Layered, InOrder, Grades
<1>4. QED
  BY <1>2, <1>3, RankType

(***************************************************************************)
(* If every edge raises the distance from the entry by one, no parent of a *)
(* node that ran is still to run: the queue makes up for the missing join. *)
(***************************************************************************)
THEOREM JoinsInLayers == Spec => []JoinsWhenGraded
<1>1. Init => Layered
  <2> SUFFICES ASSUME Init PROVE Layered
    OBVIOUS
  <2>1. DOMAIN queue = {1} /\ queue[1] = Entry /\ ran = {}
    BY DEF Init
  <2>2. \A rank \in Ranks : rank[Entry] \in Nat
    BY RankType, EngineAssumption
  <2>3. QED
    BY <2>1, <2>2 DEF Layered, InOrder
<1>2. Inv /\ Layered /\ [Next]_vars => Layered'
  BY LayeredNext
<1>3. QED
  BY <1>1, <1>2, Invariance, LayersJoin, PTL DEF Spec
-------------------------------------------------------------------------------
\* An empty queue has no elements, and only an empty one.
LEMMA EmptyQueue ==
    ASSUME NEW S, NEW s \in Seq(S)
    PROVE  s = <<>> <=> Elems(s) = {}
BY DEF Elems

LEMMA InitImplements == Init => Worklist!Init
<1> SUFFICES ASSUME Init PROVE Worklist!Init
  OBVIOUS
<1>1. \A n \in Nodes : outgoing[n] \in Seq(Nodes)
  BY EngineAssumption DEF Init
<1>2. [n \in Nodes |-> Elems(outgoing[n])] \in [Nodes -> SUBSET Nodes]
  BY <1>1, ElemsType
<1>3. Elems(queue) = {Entry}
  BY DEF Init, Elems
<1>4. QED
  BY <1>2, <1>3, EngineAssumption DEF Init, Worklist!Init

\* A clock that runs node n is a Run of the worklist that offers the new children.
LEMMA ClockOkImplements ==
    ASSUME Inv, NEW n \in Nodes, ClockOk(n)
    PROVE  Worklist!Next
<1> DEFINE S(allowed) == NewChildren(Tail(queue), visited', allowed)
<1>1. PICK allowed \in Seq(Nodes) :
          /\ Elems(allowed) \subseteq Elems(outgoing[n])
          /\ queue' \in Seq(Nodes)
          /\ Elems(queue') = Elems(Tail(queue)) \cup S(allowed)
          /\ finished' = (queue' = <<>>)
  BY ClockOkFacts
<1>2. /\ Dequeue(n) /\ n \notin executed /\ ran' = ran \cup {n}
      /\ outgoing' = outgoing /\ preset' = preset
      /\ visited' = visited \cup {n} /\ ~finished
  BY DEF ClockOk, Dequeue, graph
<1>3. /\ Elems(queue) = {n} \cup Elems(Tail(queue))
      /\ n \notin Elems(Tail(queue))
  BY <1>2, DequeueFacts
<1>4. S(allowed) \subseteq Elems(outgoing[n]) /\ S(allowed) \cap ran' = {}
  BY <1>1, <1>2 DEF NewChildren, Inv, QueueCoherent
<1>5. Elems(queue)' = Elems(queue')
  BY DEF Elems
<1>6. n \in Elems(queue) \ (ran \cup preset)
  BY <1>2, <1>3 DEF Inv, Flags
<1>7. finished' = (Elems(queue') = {})
  BY <1>1, EmptyQueue
<1>8. [m \in Nodes |-> Elems(outgoing[m])]' = [m \in Nodes |-> Elems(outgoing[m])]
  BY <1>2 DEF Elems
<1> HIDE DEF S
<1>9. Worklist!Run(n, S(allowed))
  <2>1. [m \in Nodes |-> Elems(outgoing[m])][n] = Elems(outgoing[n])
    OBVIOUS
  <2>2. Elems(queue') = (Elems(queue) \ {n}) \cup (S(allowed) \ ran')
    BY <1>1, <1>3, <1>4
  <2>3. QED
    BY <1>2, <1>4, <1>5, <1>6, <1>7, <1>8, <2>1, <2>2 DEF Worklist!Run
<1>10. S(allowed) \in SUBSET [m \in Nodes |-> Elems(outgoing[m])][n]
  BY <1>4
<1>11. QED
  BY <1>9, <1>10 DEF Worklist!Next

\* Every step of the engine is a step of the worklist, or changes nothing in it.
LEMMA NextImplements ==
    ASSUME Inv, [Next]_vars
    PROVE  [Worklist!Next]_(Worklist!vars)
<1>1. CASE \E n \in Nodes : ClockOk(n)
  BY <1>1, ClockOkImplements
<1>2. ASSUME NEW n \in Nodes, ClockTerminated(n) PROVE Worklist!Next
  <2>1. /\ Dequeue(n) /\ n \notin executed /\ ran' = ran \cup {n} /\ queue' = <<>>
        /\ finished' = TRUE /\ outgoing' = outgoing /\ preset' = preset /\ ~finished
    BY <1>2 DEF ClockTerminated, Dequeue, graph
  <2>2. n \in Elems(queue) \ (ran \cup preset)
    BY <2>1, DequeueFacts DEF Inv, Flags
  <2>3. Elems(queue)' = {}
    BY <2>1 DEF Elems
  <2>4. [m \in Nodes |-> Elems(outgoing[m])]' = [m \in Nodes |-> Elems(outgoing[m])]
    BY <2>1 DEF Elems
  <2>5. Worklist!Fail(n)
    BY <2>1, <2>2, <2>3, <2>4 DEF Worklist!Fail
  <2>6. QED
    BY <2>5 DEF Worklist!Next
<1>3. ASSUME NEW n \in Nodes, ClockAlreadyExecuted(n) PROVE Worklist!Next
  <2>1. /\ Dequeue(n) /\ n \in executed /\ ran' = ran /\ queue' = Tail(queue)
        /\ finished' = (queue' = <<>>) /\ outgoing' = outgoing /\ preset' = preset
        /\ ~finished
    BY <1>3 DEF ClockAlreadyExecuted, Dequeue, Leave, graph
  <2>2. /\ Elems(queue) = {n} \cup Elems(queue') /\ n \notin Elems(queue')
        /\ queue' \in Seq(Nodes)
    BY <2>1, DequeueFacts
  <2>3. n \in Elems(queue) \cap preset
    BY <2>1, <2>2 DEF Inv, Flags
  <2>4. Elems(queue)' = Elems(queue) \ {n} /\ finished' = (Elems(queue)' = {})
    <3>1. Elems(queue)' = Elems(queue')
      BY DEF Elems
    <3>2. queue' = <<>> <=> Elems(queue') = {}
      BY <2>2, EmptyQueue
    <3>3. QED
      BY <2>1, <2>2, <3>1, <3>2
  <2>5. [m \in Nodes |-> Elems(outgoing[m])]' = [m \in Nodes |-> Elems(outgoing[m])]
    BY <2>1 DEF Elems
  <2>6. Worklist!Skip(n)
    BY <2>1, <2>3, <2>4, <2>5 DEF Worklist!Skip
  <2>7. QED
    BY <2>6 DEF Worklist!Next
<1>4. CASE \/ \E n \in Nodes : ClockWaiting(n) \/ ClockInsufficientCredit(n)
           \/ ClockFinished \/ AppendExternalInput \/ UNCHANGED vars
  <2>1. UNCHANGED <<outgoing, preset, queue, ran, finished>>
    BY <1>4 DEF ClockWaiting, ClockInsufficientCredit, Dequeue, PutBack, ClockFinished,
                AppendExternalInput, vars, graph, runtime
  <2>2. QED
    BY <2>1 DEF Worklist!vars, Elems
<1>5. QED
  BY <1>1, <1>2, <1>3, <1>4 DEF Next, Clock

(***************************************************************************)
(* The engine implements the worklist of DagExecution: seen through its    *)
(* nodes only, a workflow deals with every node it is offered once, and is *)
(* over exactly when nothing is left or a node failed.                     *)
(***************************************************************************)
THEOREM Implements == Spec => ImplementsWorklist
<1>1. Init => Worklist!Init
  BY InitImplements
<1>2. Inv /\ [Next]_vars => [Worklist!Next]_(Worklist!vars)
  BY NextImplements
<1>3. QED
  BY <1>1, <1>2, Invariance, PTL DEF Spec, ImplementsWorklist, Worklist!Spec

-------------------------------------------------------------------------------
(***************************************************************************)
(* Topology.                                                               *)
(***************************************************************************)

\* The definitions the schema of the routes lets through, with these identifiers.
Definitions(Id, Input) ==
    [nodes : Seq([id : Id, inputs : Seq(Input)]), entry : Id,
     edges : Seq([from : Id, to : Id])]

\* Of some numbers, one is the smallest.
LEMMA SmallestNumber ==
    ASSUME NEW Bad \in SUBSET Nat, Bad # {}
    PROVE  \E n \in Bad : \A m \in Bad : n <= m
<1>1. PICK top \in Bad : TRUE
  OBVIOUS
<1> DEFINE Low == {T \in SUBSET (0..top) : \E n \in Bad : T = 0..n}
<1>2. IsFiniteSet(0..top)
  BY FS_Interval
<1>3. IsWellFoundedOn(StrictSubsetOrdering(0..top), FiniteSubsetsOf(0..top))
  BY <1>2, FS_StrictSubsetOrderingWellFounded
<1>4. Low \subseteq FiniteSubsetsOf(0..top)
  BY <1>2, FS_FiniteSubsetsOfFinite
<1>5. 0..top \in Low
  OBVIOUS
<1>6. PICK T \in Low : \A U \in Low : <<U, T>> \notin StrictSubsetOrdering(0..top)
  <2> HIDE DEF Low
  <2> QED
    BY <1>3, <1>4, <1>5, WFMin
<1>7. PICK n \in Bad : T = 0..n
  BY <1>6
<1>8. ASSUME NEW m \in Bad, m < n PROVE FALSE
  <2>1. 0..m \in SUBSET (0..top) /\ 0..m \subseteq T /\ 0..m # T
    BY <1>6, <1>7, <1>8
  <2>2. 0..m \in Low
    BY <2>1
  <2>3. <<0..m, T>> \in StrictSubsetOrdering(0..top)
    BY <1>6, <2>1 DEF StrictSubsetOrdering
  <2>4. QED
    BY <1>6, <2>2, <2>3
<1>9. QED
  BY <1>7, <1>8

\* What F makes of A again and again, up to n times.
Repeats(g, F, A, n) == g = [k \in 0..n |-> IF k = 0 THEN A ELSE F[g[k - 1]]]

Repeated(F, A, n) == CHOOSE g : Repeats(g, F, A, n)

LEMMA RepeatsAgree ==
    ASSUME NEW F, NEW A, NEW m \in Nat, NEW n \in Nat, NEW g, NEW h,
           Repeats(g, F, A, m), Repeats(h, F, A, n), NEW k \in Nat, k <= m, k <= n
    PROVE  g[k] = h[k]
<1> DEFINE Bad == {i \in Nat : i <= m /\ i <= n /\ g[i] # h[i]}
<1>1. SUFFICES ASSUME Bad # {} PROVE FALSE
  OBVIOUS
<1>2. PICK i \in Bad : \A j \in Bad : i <= j
  <2> HIDE DEF Bad
  <2>1. Bad \in SUBSET Nat
    BY DEF Bad
  <2>2. QED
    BY <1>1, <2>1, SmallestNumber
<1>3. /\ g[i] = IF i = 0 THEN A ELSE F[g[i - 1]]
      /\ h[i] = IF i = 0 THEN A ELSE F[h[i - 1]]
  <2>1. i \in 0..m /\ i \in 0..n
    OBVIOUS
  <2>2. QED
    BY <2>1 DEF Repeats
<1>4. i # 0 /\ g[i - 1] # h[i - 1]
  BY <1>2, <1>3
<1>5. i - 1 \in Bad
  BY <1>4
<1>6. QED
  BY <1>2, <1>5

LEMMA RepeatsExist ==
    ASSUME NEW F, NEW A, NEW n \in Nat
    PROVE  Repeats(Repeated(F, A, n), F, A, n)
<1> DEFINE Bad == {i \in Nat : ~Repeats(Repeated(F, A, i), F, A, i)}
<1>1. SUFFICES ASSUME Bad # {} PROVE FALSE
  OBVIOUS
<1>2. PICK i \in Bad : \A j \in Bad : i <= j
  <2> HIDE DEF Bad
  <2>1. Bad \in SUBSET Nat
    BY DEF Bad
  <2>2. QED
    BY <1>1, <2>1, SmallestNumber
<1>3. ASSUME NEW g, Repeats(g, F, A, i) PROVE FALSE
  BY <1>2, <1>3 DEF Repeated
<1>4. CASE i = 0
  <2>1. Repeats([k \in 0..0 |-> A], F, A, 0)
    BY DEF Repeats
  <2>2. QED
    BY <1>3, <1>4, <2>1
<1>5. CASE i # 0
  <2> DEFINE h == Repeated(F, A, i - 1)
  <2>1. Repeats(h, F, A, i - 1)
    BY <1>2, <1>5
  <2> DEFINE g == [k \in 0..i |-> IF k = i THEN F[h[i - 1]] ELSE h[k]]
  <2> HIDE DEF h
  <2>2. h = [k \in 0..(i - 1) |-> IF k = 0 THEN A ELSE F[h[k - 1]]]
    BY <2>1 DEF Repeats
  <2>3. ASSUME NEW k \in 0..i PROVE g[k] = IF k = 0 THEN A ELSE F[g[k - 1]]
    <3>1. CASE k = i
      BY <1>5, <3>1
    <3>2. CASE k # i
      <4>1. k \in 0..(i - 1)
        BY <3>2
      <4>2. h[k] = IF k = 0 THEN A ELSE F[h[k - 1]]
        BY <2>2, <4>1
      <4>3. QED
        BY <3>2, <4>1, <4>2
    <3>3. QED
      BY <3>1, <3>2
  <2>4. Repeats(g, F, A, i)
    BY <2>3 DEF Repeats
  <2> HIDE DEF g
  <2>5. QED
    BY <1>3, <2>4
<1>6. QED
  BY <1>4, <1>5

\* g repeats F for ever.
Iterates(g, F, A) ==
    /\ g = [k \in Nat |-> g[k]]
    /\ \A k \in Nat : g[k] = IF k = 0 THEN A ELSE F[g[k - 1]]

LEMMA Forever ==
    ASSUME NEW F, NEW A
    PROVE  \E g : Iterates(g, F, A)
<1> DEFINE g == [k \in Nat |-> Repeated(F, A, k)[k]]
<1>1. ASSUME NEW k \in Nat PROVE g[k] = IF k = 0 THEN A ELSE F[g[k - 1]]
  <2> DEFINE h == Repeated(F, A, k)
  <2>1. Repeats(h, F, A, k)
    BY RepeatsExist
  <2>2. h[k] = IF k = 0 THEN A ELSE F[h[k - 1]]
    BY <2>1 DEF Repeats
  <2>3. CASE k = 0
    BY <2>2, <2>3
  <2>4. CASE k # 0
    <3>1. k - 1 \in Nat /\ k - 1 <= k
      BY <2>4
    <3>2. Repeats(Repeated(F, A, k - 1), F, A, k - 1)
      BY <3>1, RepeatsExist
    <3> HIDE DEF h
    <3>3. h[k - 1] = Repeated(F, A, k - 1)[k - 1]
      BY <2>1, <3>1, <3>2, RepeatsAgree
    <3>4. g[k - 1] = h[k - 1] /\ g[k] = h[k]
      BY <3>1, <3>3 DEF h
    <3>5. QED
      BY <2>2, <2>4, <3>4
  <2>5. QED
    BY <2>3, <2>4
<1>2. g = [k \in Nat |-> g[k]]
  OBVIOUS
<1> HIDE DEF g
<1>3. QED
  BY <1>1, <1>2 DEF Iterates

\* The indexes of the edges to n.
Into(wf, n) == {i \in DOMAIN wf.edges : wf.edges[i].to = n}

Sources(wf) == {n \in Ids(wf) : Into(wf, n) = {}}

\* The nodes that hasCycle takes after those of T.
Freed(wf, T) == {n \in Ids(wf) : \A i \in Into(wf, n) : wf.edges[i].from \in T}

Waves(g, wf) == g = [k \in Nat |-> IF k = 0 THEN Sources(wf) ELSE Freed(wf, g[k - 1])]

LEMMA ShiftedIsWave ==
    ASSUME NEW wf
    PROVE  Shifted(wf) = (CHOOSE g : Waves(g, wf))[Len(wf.nodes)]
BY Zenon DEF Shifted, Waves, Sources, Freed, Into
LEMMA WavesExist ==
    ASSUME NEW wf
    PROVE  \E g : Waves(g, wf)
<1> DEFINE F == [T \in SUBSET Ids(wf) |-> Freed(wf, T)]
<1>1. PICK g : Iterates(g, F, Sources(wf))
  BY Forever
<1> DEFINE Bad == {k \in Nat : g[k] \notin SUBSET Ids(wf)}
<1>2. ASSUME Bad # {} PROVE FALSE
  <2>1. PICK k \in Bad : \A j \in Bad : k <= j
    <3> HIDE DEF Bad
    <3>1. Bad \in SUBSET Nat
      BY DEF Bad
    <3>2. QED
      BY <1>2, <3>1, SmallestNumber
  <2>2. g[k] = IF k = 0 THEN Sources(wf) ELSE F[g[k - 1]]
    <3> HIDE DEF F
    <3> QED
      BY <1>1, <2>1 DEF Iterates
  <2>3. k # 0
    BY <2>1, <2>2 DEF Sources
  <2>4. k - 1 \in Nat /\ k - 1 \notin Bad
    BY <2>1, <2>3
  <2>5. g[k - 1] \in SUBSET Ids(wf)
    BY <2>4
  <2>6. g[k] = Freed(wf, g[k - 1])
    BY <2>2, <2>3, <2>5
  <2>7. QED
    BY <2>1, <2>6 DEF Freed
<1>3. ASSUME NEW k \in Nat PROVE g[k] \in SUBSET Ids(wf)
  BY <1>2
<1>4. ASSUME NEW k \in Nat PROVE g[k] = IF k = 0 THEN Sources(wf) ELSE Freed(wf, g[k - 1])
  <2>1. g[k] = IF k = 0 THEN Sources(wf) ELSE F[g[k - 1]]
    <3> HIDE DEF F
    <3> QED
      BY <1>1 DEF Iterates
  <2>2. CASE k = 0
    BY <2>1, <2>2
  <2>3. CASE k # 0
    <3>1. k - 1 \in Nat
      BY <2>3
    <3>2. g[k - 1] \in SUBSET Ids(wf)
      BY <1>3, <3>1
    <3>3. QED
      BY <2>1, <2>3, <3>2
  <2>4. QED
    BY <2>2, <2>3
<1>5. g = [k \in Nat |-> g[k]]
  <2> HIDE DEF F
  <2> QED
    BY <1>1 DEF Iterates
<1>6. g = [k \in Nat |-> IF k = 0 THEN Sources(wf) ELSE Freed(wf, g[k - 1])]
  BY <1>4, <1>5
<1>7. QED
  BY <1>6 DEF Waves

\* Every set of nodes whose edges come from the set itself is left alone by hasCycle.
LEMMA CyclesStay ==
    ASSUME NEW wf, Len(wf.nodes) \in Nat, NEW S \in SUBSET Ids(wf),
           \A n \in S : \E i \in Into(wf, n) : wf.edges[i].from \in S
    PROVE  Shifted(wf) \in SUBSET Ids(wf) /\ S \cap Shifted(wf) = {}
<1> DEFINE g == CHOOSE g : Waves(g, wf)
<1>1. Waves(g, wf)
  BY WavesExist
<1> HIDE DEF g
<1>2. \A k \in Nat : g[k] = IF k = 0 THEN Sources(wf) ELSE Freed(wf, g[k - 1])
  BY <1>1 DEF Waves
<1> DEFINE Bad == {k \in Nat : S \cap g[k] # {}}
<1>3. ASSUME Bad # {} PROVE FALSE
  <2>1. PICK k \in Bad : \A j \in Bad : k <= j
    <3> HIDE DEF Bad
    <3>1. Bad \in SUBSET Nat
      BY DEF Bad
    <3>2. QED
      BY <1>3, <3>1, SmallestNumber
  <2>2. PICK n \in S : n \in g[k]
    BY <2>1
  <2>3. PICK i \in Into(wf, n) : wf.edges[i].from \in S
    BY <2>2
  <2>4. k # 0
    BY <1>2, <2>1, <2>2, <2>3 DEF Sources
  <2>5. wf.edges[i].from \in g[k - 1]
    BY <1>2, <2>1, <2>2, <2>3, <2>4 DEF Freed
  <2>6. k - 1 \in Bad
    BY <2>1, <2>3, <2>4, <2>5
  <2>7. QED
    BY <2>1, <2>6
<1>4. \A k \in Nat : g[k] \in SUBSET Ids(wf) /\ S \cap g[k] = {}
  BY <1>2, <1>3 DEF Sources, Freed
<1>5. Shifted(wf) = g[Len(wf.nodes)]
  BY ShiftedIsWave DEF g
<1>6. QED
  BY <1>4, <1>5

\* hasCycle takes every node only if there is no such set.
LEMMA NoCycle ==
    ASSUME NEW Id, NEW Input, NEW wf \in Definitions(Id, Input), ~HasCycle(wf),
           NEW S \in SUBSET Ids(wf), \A n \in S : \E i \in Into(wf, n) : wf.edges[i].from \in S
    PROVE  S = {}
<1>1. wf.nodes \in Seq([id : Id, inputs : Seq(Input)]) /\ Len(wf.nodes) \in Nat
  BY DEF Definitions
<1>2. IsFiniteSet(Ids(wf)) /\ Cardinality(Ids(wf)) <= Len(wf.nodes)
  <2> DEFINE f == [i \in 1..Len(wf.nodes) |-> wf.nodes[i].id]
  <2>1. f \in Surjection(1..Len(wf.nodes), Ids(wf))
    <3>1. f \in [1..Len(wf.nodes) -> Ids(wf)]
      BY <1>1 DEF Ids
    <3>2. ASSUME NEW x \in Ids(wf) PROVE \E i \in 1..Len(wf.nodes) : f[i] = x
      <4>1. PICK i \in DOMAIN wf.nodes : wf.nodes[i].id = x
        BY DEF Ids
      <4>2. i \in 1..Len(wf.nodes)
        BY <1>1, <4>1
      <4>3. QED
        BY <4>1, <4>2
    <3> HIDE DEF f
    <3>3. QED
      BY <3>1, <3>2 DEF Surjection
  <2>2. IsFiniteSet(1..Len(wf.nodes)) /\ Cardinality(1..Len(wf.nodes)) = Len(wf.nodes)
    BY <1>1, FS_Interval
  <2> HIDE DEF f
  <2>3. QED
    BY <2>1, <2>2, FS_Surjection
<1>3. Shifted(wf) \in SUBSET Ids(wf) /\ S \cap Shifted(wf) = {}
  BY <1>1, CyclesStay
<1>4. Cardinality(Shifted(wf)) = Len(wf.nodes)
  BY DEF HasCycle
<1>5. Cardinality(Shifted(wf)) <= Cardinality(Ids(wf)) /\ Cardinality(Ids(wf)) \in Nat
  BY <1>2, <1>3, FS_Subset, FS_CardinalityType
<1>6. Cardinality(Shifted(wf)) = Cardinality(Ids(wf))
  BY <1>1, <1>2, <1>4, <1>5
<1>7. Shifted(wf) = Ids(wf)
  BY <1>2, <1>3, <1>6, FS_Subset
<1>8. QED
  BY <1>3, <1>7

\* Each of a set of indexes has a place in their order, and each place is one's.
LEMMA Places ==
    ASSUME NEW n \in Nat, NEW own \in SUBSET (1..n)
    PROVE  \A k \in 1..Cardinality(own) : \E i \in own : Cardinality({j \in own : j <= i}) = k
<1> DEFINE Upto(i) == {j \in own : j <= i}
           rank == [i \in own |-> Cardinality(Upto(i))]
<1>1. IsFiniteSet(own)
  <2>1. IsFiniteSet(1..n)
    BY FS_Interval
  <2>2. QED
    BY <2>1, FS_Subset
<1>2. ASSUME NEW i \in own
      PROVE  IsFiniteSet(Upto(i)) /\ Cardinality(Upto(i)) \in 1..Cardinality(own)
  <2>1. Upto(i) \in SUBSET own /\ i \in Upto(i)
    OBVIOUS
  <2> HIDE DEF Upto
  <2>2. /\ IsFiniteSet(Upto(i)) /\ Cardinality(Upto(i)) <= Cardinality(own)
        /\ Cardinality(Upto(i)) \in Nat /\ Cardinality(own) \in Nat
    BY <1>1, <2>1, FS_Subset, FS_CardinalityType
  <2>3. Cardinality(Upto(i)) # 0
    BY <2>1, <2>2, FS_EmptySet
  <2>4. QED
    BY <2>2, <2>3
<1>3. ASSUME NEW i \in own, NEW h \in own, h < i, rank[h] = rank[i] PROVE FALSE
  <2>1. h \in Int /\ i \in Int /\ \A j \in own : j \in Int
    OBVIOUS
  <2>2. Upto(h) \in SUBSET Upto(i) /\ i \in Upto(i) /\ i \notin Upto(h)
    <3>1. h <= i /\ i <= i /\ ~(i <= h) /\ \A j \in own : j <= h => j <= i
      BY <1>3, <2>1
    <3>2. QED
      BY <3>1
  <2>3. Cardinality(Upto(h)) = Cardinality(Upto(i)) /\ IsFiniteSet(Upto(i))
    BY <1>2, <1>3
  <2> HIDE DEF Upto, rank
  <2>4. Upto(h) = Upto(i)
    BY <2>2, <2>3, FS_Subset
  <2>5. QED
    BY <2>2, <2>4
<1>4. rank \in Injection(own, 1..Cardinality(own))
  <2>1. \A h, i \in own : h # i => h < i \/ i < h
    OBVIOUS
  <2>2. \A h, i \in own : rank[h] = rank[i] => h = i
    <3> HIDE DEF rank
    <3> QED
      BY <1>3, <2>1
  <2>3. rank \in [own -> 1..Cardinality(own)]
    BY <1>2
  <2> HIDE DEF rank
  <2>4. QED
    BY <2>2, <2>3 DEF Injection, IsInjective
<1>5. IsFiniteSet(1..Cardinality(own)) /\ Cardinality(1..Cardinality(own)) = Cardinality(own)
  BY <1>1, FS_CardinalityType, FS_Interval
<1>6. rank \in Surjection(own, 1..Cardinality(own))
  <2> HIDE DEF rank
  <2> QED
    BY <1>4, <1>5, FS_Injection
<1>7. \A k \in 1..Cardinality(own) : \E i \in own : rank[i] = k
  BY <1>6 DEF Surjection
<1>8. QED
  BY <1>7

\* A child in the index is where an edge leads.
LEMMA ChildHasEdge ==
    ASSUME NEW Id, NEW Input, NEW wf \in Definitions(Id, Input), NEW p \in Ids(wf),
           NEW n \in Elems(Outgoing(wf)[p])
    PROVE  \E i \in Into(wf, n) : wf.edges[i].from = p
<1> DEFINE own == {i \in DOMAIN wf.edges : wf.edges[i].from = p}
           Nth(k) == CHOOSE i \in own : Cardinality({j \in own : j <= i}) = k
<1>1. Len(wf.edges) \in Nat /\ own \in SUBSET (1..Len(wf.edges))
  BY DEF Definitions
<1>2. Outgoing(wf)[p] = [k \in 1..Cardinality(own) |-> wf.edges[Nth(k)].to]
  BY Zenon DEF Outgoing
<1> HIDE DEF own
<1>3. \A k \in 1..Cardinality(own) : Nth(k) \in own
  BY <1>1, Places
<1> HIDE DEF Nth
<1>4. PICK k \in 1..Cardinality(own) : n = wf.edges[Nth(k)].to
  BY <1>2 DEF Elems
<1>5. QED
  BY <1>3, <1>4 DEF own, Into

\* A workflow that is clocked has no cycle, whatever identifiers, inputs and edges its
\* definition has: _validateDefinition and hasCycle let no other pass.
THEOREM ClockedIsAcyclic ==
    ASSUME NEW Id, NEW Input,
           Graphs \subseteq
               {Outgoing(wf) : wf \in {d \in Definitions(Id, Input) : Initializes(d)}}
    PROVE  Spec => []Acyclic
<1>1. ASSUME outgoing \in Graphs PROVE Acyclic
  <2>1. PICK wf \in Definitions(Id, Input) : outgoing = Outgoing(wf) /\ ~HasCycle(wf)
    BY <1>1 DEF Initializes
  <2>2. Ids(wf) = Nodes
    <3>1. DOMAIN outgoing = Nodes
      BY <1>1, EngineAssumption
    <3>2. DOMAIN outgoing = Ids(wf)
      BY <2>1 DEF Outgoing
    <3>3. QED
      BY <3>1, <3>2
  <2>3. SUFFICES ASSUME NEW S \in SUBSET Nodes,
                        \A n \in S : \E p \in S : n \in Elems(outgoing[p])
                 PROVE  S = {}
    BY Zenon DEF Acyclic
  <2>4. \A n \in S : \E i \in Into(wf, n) : wf.edges[i].from \in S
    BY <2>1, <2>2, <2>3, ChildHasEdge
  <2>5. QED
    BY <2>1, <2>2, <2>3, <2>4, NoCycle
<1>2. Init => outgoing \in Graphs
  BY DEF Init
<1>3. outgoing \in Graphs /\ [Next]_vars => (outgoing \in Graphs)'
  BY DEF Next, Clock, ClockWaiting, ClockInsufficientCredit, ClockAlreadyExecuted,
         ClockTerminated, ClockOk, ClockFinished, AppendExternalInput, Dequeue, graph, vars
<1>4. QED
  BY <1>1, <1>2, <1>3, PTL DEF Spec
-------------------------------------------------------------------------------
(***************************************************************************)
(* RabbitQueue.                                                            *)
(***************************************************************************)

\* The deliveries the process still has in its hands.
Known == callbacks \cup ({inFlight[m] : m \in Messages} \ {None})

\* Nothing is out on a connection that is gone, or is not set up.
Linked ==
    /\ link => client \in {"opened", "setup", "up"}
    /\ out # {} => link /\ client = "up"

\* A delivery that is out came on this connection and is the one the map holds.
Tracked ==
    /\ \A m \in Messages : inFlight[m] # None => inFlight[m].msg = m
    /\ \A d \in out : d.epoch = epoch /\ inFlight[d.msg] = d

\* Tags of this connection have been counted, and name one delivery.
Fresh ==
    \A d \in Known : /\ d.epoch <= epoch
                     /\ link /\ d.epoch = epoch => d.tag < nextTag
                     /\ \A o \in out : d.epoch = epoch /\ d.tag = o.tag => d = o

\* The inductive invariant.
RabbitInv == RabbitTypeOK /\ NeverBlocked /\ Linked /\ Tracked /\ Fresh /\ NothingLost

LEMMA RabbitInitInv == RabbitInit => RabbitInv
<1> SUFFICES ASSUME RabbitInit PROVE RabbitInv
  OBVIOUS
<1>1. inFlight \in [Messages -> Deliveries \cup {None}]
  BY DEF RabbitInit
<1>2. 0 \in 0 .. MaxFaults /\ 0 \in 0 .. MaxRequeues
  BY RabbitAssumption
<1>3. RabbitTypeOK
  <2>1. /\ link \in BOOLEAN /\ listens \in BOOLEAN /\ inited \in BOOLEAN
        /\ explicitClose \in BOOLEAN
    BY DEF RabbitInit
  <2>2. consumer \in 0 .. epoch /\ epoch \in Nat /\ nextTag \in Nat
    BY DEF RabbitInit
  <2>3. QED
    BY <1>1, <1>2, <2>1, <2>2 DEF RabbitInit, RabbitTypeOK
<1>4. Known = {}
  BY DEF RabbitInit, Known
<1>5. NeverBlocked /\ Linked /\ Tracked /\ Fresh /\ NothingLost
  BY <1>4 DEF RabbitInit, NeverBlocked, Linked, Tracked, Fresh, NothingLost
<1>6. QED
  BY <1>3, <1>5 DEF RabbitInv

\* What is left to show of a step that touches no delivery.
LEMMA Untouched ==
    ASSUME RabbitInv, UNCHANGED <<out, epoch, nextTag, inFlight, callbacks, left>>,
           link' => link
    PROVE  NeverBlocked' /\ Tracked' /\ Fresh'
<1>1. Known' = Known
  BY DEF Known
<1>2. QED
  BY <1>1 DEF RabbitInv, NeverBlocked, Tracked, Fresh

\* ... and of one that ends the channel, if no callback is lost.
LEMMA Ended ==
    ASSUME RabbitInv, ChannelEnds, UNCHANGED epoch, Known' \subseteq Known,
           \A m \in Messages : inFlight'[m] # None => inFlight'[m] = inFlight[m]
    PROVE  NeverBlocked' /\ Linked' /\ Tracked' /\ Fresh'
<1>1. out' = {} /\ link' = FALSE
  BY DEF ChannelEnds
<1>2. NeverBlocked' /\ Linked'
  BY <1>1 DEF NeverBlocked, Linked
<1>3. Tracked'
  BY <1>1 DEF RabbitInv, Tracked
<1>4. Fresh'
  BY <1>1 DEF RabbitInv, Fresh
<1>5. QED
  BY <1>2, <1>3, <1>4

LEMMA MessagesOfOut ==
    ASSUME RabbitTypeOK, NEW D, D \subseteq out PROVE MessagesOf(D) \subseteq Messages
BY DEF RabbitTypeOK, MessagesOf, Deliveries

LEMMA ConnectInv ==
    ASSUME RabbitInv, Initialize \/ Progress \/ ConnectFails PROVE RabbitInv'
<1>1. UNCHANGED <<queues, out, nextTag, inFlight, callbacks, history>>
  BY DEF Initialize, Progress, Connect, CreateChannel, SetUp, Disconnected, Timer,
         ConnectFails, HandleDisconnect, queues, channel, history
<1>2. RabbitTypeOK'
  <2>1. link' \in BOOLEAN /\ epoch' \in Nat /\ consumer' \in 0 .. epoch'
    <3>1. /\ link' = TRUE \/ link' = link
          /\ epoch' = epoch + 1 \/ epoch' = epoch
          /\ consumer' = 0 \/ consumer' = consumer \/ (consumer' = epoch /\ epoch' = epoch)
      BY DEF Initialize, Progress, Connect, CreateChannel, SetUp, Disconnected, Timer,
             ConnectFails, HandleDisconnect, channel, connection
    <3>2. link' \in BOOLEAN
      BY <3>1 DEF RabbitInv, RabbitTypeOK
    <3>3. epoch' \in Nat /\ consumer' \in 0 .. epoch'
      BY <3>1 DEF RabbitInv, RabbitTypeOK
    <3>4. QED
      BY <3>2, <3>3
  <2>2. client' \in {"connecting", "opened", "setup", "up", "backoff"}
    BY DEF Initialize, Progress, Connect, CreateChannel, SetUp, Disconnected, Timer,
           ConnectFails, HandleDisconnect
  <2>5. /\ listens' \in BOOLEAN \/ listens' = listens
        /\ inited' = TRUE \/ inited' = inited
        /\ explicitClose' = FALSE \/ explicitClose' = explicitClose
    BY DEF Initialize, Progress, Connect, CreateChannel, SetUp, Disconnected, Timer,
           ConnectFails, HandleDisconnect, connection
  <2>6. listens' \in BOOLEAN /\ inited' \in BOOLEAN /\ explicitClose' \in BOOLEAN
    BY <2>5 DEF RabbitInv, RabbitTypeOK
  <2>3. faults' \in 0 .. MaxFaults /\ requeues' \in 0 .. MaxRequeues
    BY RabbitAssumption
    DEF RabbitInv, RabbitTypeOK, Initialize, Progress, Connect, CreateChannel, SetUp,
        Disconnected, Timer,
        ConnectFails, spent
  <2>4. QED
    BY <1>1, <2>1, <2>2, <2>3, <2>6 DEF RabbitInv, RabbitTypeOK, queues, history
<1>3. NothingLost'
  BY <1>1 DEF RabbitInv, NothingLost, queues, history
<1>4. CASE Connect
  <2>1. out = {} /\ link' = TRUE /\ client' = "opened" /\ epoch' = epoch + 1 /\ epoch \in Nat
    BY <1>4 DEF RabbitInv, RabbitTypeOK, Linked, Connect
  <2>2. Known' = Known
    BY <1>1 DEF Known
  <2>3. \A d \in Known : d.epoch \in Nat /\ d.epoch <= epoch
    BY DEF RabbitInv, RabbitTypeOK, Fresh, Known, Deliveries
  <2>4. Fresh'
    BY <1>1, <2>1, <2>2, <2>3 DEF Fresh
  <2>5. NeverBlocked' /\ Linked' /\ Tracked'
    BY <1>1, <2>1 DEF RabbitInv, NeverBlocked, Linked, Tracked
  <2>6. QED
    BY <1>2, <1>3, <2>4, <2>5 DEF RabbitInv
<1>5. CASE ~Connect
  <2>1. UNCHANGED <<epoch, link>>
    BY <1>5 DEF Initialize, Progress, CreateChannel, SetUp, Disconnected, Timer,
                ConnectFails, HandleDisconnect, channel, connection
  <2>2. NeverBlocked' /\ Tracked' /\ Fresh'
    BY <1>1, <2>1, Untouched DEF history
  <2>3. Linked'
    BY <1>1, <1>5, <2>1
    DEF RabbitInv, Linked, Initialize, Progress, CreateChannel, SetUp, Disconnected, Timer,
        ConnectFails, HandleDisconnect
  <2>4. QED
    BY <1>2, <1>3, <2>2, <2>3 DEF RabbitInv
<1>6. QED
  BY <1>4, <1>5

LEMMA EndInv == ASSUME RabbitInv, LinkLost \/ Close PROVE RabbitInv'
<1>1. UNCHANGED <<delayed, gone, epoch, inFlight, callbacks, done, crossed, left>>
  BY DEF LinkLost, Close, CloseUp, CloseEarly, ChannelEnds, HandleDisconnect, queues, channel,
         object, connection, history
<1>2. ChannelEnds \/ UNCHANGED <<queues, channel, client>>
  BY DEF LinkLost, Close, CloseUp, CloseEarly
<1>3. RabbitTypeOK'
  <2>1. /\ waiting' \in SUBSET Messages /\ out' \in SUBSET Deliveries
        /\ link' \in BOOLEAN /\ nextTag' \in Nat
    <3>1. CASE ChannelEnds
      BY <3>1, MessagesOfOut DEF RabbitInv, RabbitTypeOK, ChannelEnds
    <3>2. CASE UNCHANGED <<queues, channel, client>>
      BY <3>2 DEF RabbitInv, RabbitTypeOK, queues, channel
    <3>3. QED
      BY <1>2, <3>1, <3>2
  <2>2. CASE LinkLost
    <3>1. faults' \in 0 .. MaxFaults /\ requeues' \in 0 .. MaxRequeues
      BY <2>2, RabbitAssumption DEF RabbitInv, RabbitTypeOK, LinkLost
    <3>2. UNCHANGED <<object, history>>
      BY <2>2 DEF LinkLost
    <3>3. QED
      BY <1>1, <2>1, <3>1, <3>2 DEF RabbitInv, RabbitTypeOK, object, connection, history
  <2>3. CASE Close
    <3>1. /\ client' \in {"connecting", "backoff", "closed"}
          /\ closed' \in {"up", "early"}
          /\ consumer' = 0 \/ consumer' = consumer
          /\ inited' = TRUE \/ inited' = inited
          /\ UNCHANGED <<listens, spent>>
      BY <2>3 DEF Close, CloseUp, CloseEarly, HandleDisconnect, connection
    <3>2. consumer' \in 0 .. epoch'
      BY <1>1, <3>1 DEF RabbitInv, RabbitTypeOK
    <3>3. inited' \in BOOLEAN /\ explicitClose' \in BOOLEAN
      BY <2>3, <3>1 DEF RabbitInv, RabbitTypeOK, Close, CloseUp, CloseEarly
    <3>4. QED
      BY <1>1, <2>1, <3>1, <3>2, <3>3 DEF RabbitInv, RabbitTypeOK, spent
  <2>4. QED
    BY <2>2, <2>3
<1>4. Known' = Known
  BY <1>1 DEF Known
<1>5. NeverBlocked' /\ Linked' /\ Tracked' /\ Fresh'
  <2>1. CASE ChannelEnds
    BY <1>1, <1>4, <2>1, Ended
  <2>2. CASE UNCHANGED <<queues, channel, client>>
    BY <1>1, <2>2, Untouched DEF RabbitInv, Linked, channel
  <2>3. QED
    BY <1>2, <2>1, <2>2
<1>6. NothingLost'
  BY <1>1 DEF RabbitInv, NothingLost
<1>7. QED
  BY <1>3, <1>5, <1>6 DEF RabbitInv

LEMMA QueueInv ==
    ASSUME RabbitInv, NEW m \in Messages, Enqueue(m) \/ Expire(m) \/ TakenElsewhere(m)
    PROVE  RabbitInv'
<1>1. UNCHANGED <<channel, object, inFlight, callbacks, crossed, left, closed, spent>>
  BY DEF Enqueue, Expire, TakenElsewhere, history
<1>2. RabbitTypeOK'
  BY <1>1 DEF RabbitInv, RabbitTypeOK, Enqueue, Expire, TakenElsewhere, channel, object,
              connection,
              history, spent
<1>3. NeverBlocked' /\ Tracked' /\ Fresh'
  BY <1>1, Untouched DEF channel, object, connection
<1>4. Linked'
  BY <1>1 DEF RabbitInv, Linked, channel, object
<1>5. NothingLost'
  BY DEF RabbitInv, NothingLost, Enqueue, Expire, TakenElsewhere, history
<1>6. QED
  BY <1>2, <1>3, <1>4, <1>5 DEF RabbitInv

LEMMA DeliverInv == ASSUME RabbitInv, NEW m \in Messages, Deliver(m) PROVE RabbitInv'
<1> DEFINE d == [epoch |-> epoch, tag |-> nextTag, msg |-> m]
<1>1. /\ d \in Deliveries
      /\ d.epoch = epoch /\ d.tag = nextTag /\ d.msg = m
  BY DEF RabbitInv, RabbitTypeOK, Deliveries
<1> HIDE DEF d
<1>2. /\ link /\ client = "up" /\ out = {} /\ nextTag' = nextTag + 1
      /\ out' = {d} /\ callbacks' = callbacks \cup {d}
      /\ inFlight' = [inFlight EXCEPT ![m] = d]
      /\ waiting' = waiting \ {m}
      /\ UNCHANGED <<delayed, gone, link, object, history, spent>>
  BY DEF Deliver, Consumed, Track, d
<1>3. /\ \A n \in Messages \ {m} : inFlight'[n] = inFlight[n]
      /\ inFlight'[m] = d
      /\ inFlight' \in [Messages -> Deliveries \cup {None}]
  BY <1>1, <1>2 DEF RabbitInv, RabbitTypeOK
<1>4. RabbitTypeOK'
  <2>1. callbacks' \in SUBSET Deliveries /\ out' \in SUBSET Deliveries /\ nextTag' \in Nat
    BY <1>1, <1>2 DEF RabbitInv, RabbitTypeOK
  <2>2. QED
    BY <1>2, <1>3, <2>1 DEF RabbitInv, RabbitTypeOK, object, connection, history, spent
<1>5. NeverBlocked' /\ Linked'
  BY <1>2 DEF NeverBlocked, Linked, RabbitInv, object
<1>6. Tracked'
  BY <1>1, <1>2, <1>3 DEF RabbitInv, Tracked, object, connection
<1>7. Fresh'
  <2>1. Known' \subseteq Known \cup {d}
    BY <1>2, <1>3 DEF Known
  <2>2. \A k \in Known : /\ k.epoch \in Nat /\ k.tag \in Nat /\ k.epoch <= epoch
                         /\ k.epoch = epoch => k.tag < nextTag
    BY <1>2 DEF RabbitInv, RabbitTypeOK, Fresh, Known, Deliveries
  <2>3. epoch' = epoch /\ epoch \in Nat /\ nextTag \in Nat
    BY <1>2 DEF RabbitInv, RabbitTypeOK, object, connection
  <2>4. ASSUME NEW k \in Known PROVE /\ k.epoch <= epoch
                                     /\ k.epoch = epoch => k.tag < nextTag + 1 /\ k.tag # d.tag
    BY <1>1, <2>2, <2>3
  <2>5. QED
    BY <1>1, <1>2, <2>1, <2>3, <2>4 DEF Fresh
<1>8. NothingLost'
  BY <1>2 DEF RabbitInv, NothingLost, history
<1>9. QED
  BY <1>4, <1>5, <1>6, <1>7, <1>8 DEF RabbitInv

\* What telling the broker about a delivery the process has does to the queues, and to
\* a delivery that is out.
LEMMA Told ==
    ASSUME RabbitInv, NEW d \in Known, NEW requeue \in BOOLEAN,
           Tell(d, requeue), UNCHANGED epoch
    PROVE  /\ waiting' \in SUBSET Messages /\ gone' \in SUBSET Messages
           /\ delayed' = delayed
           /\ out' \subseteq out /\ d \notin out'
           /\ link' \in BOOLEAN /\ nextTag' \in Nat
           /\ requeue => gone' = gone
           /\ gone' \subseteq gone \cup {d.msg} \cup Crossing(d)
           /\ \/ UNCHANGED <<link, nextTag>>
              \/ link' = FALSE /\ out' = {}
<1> DEFINE hit == {o \in out : o.tag = d.tag}
<1>1. d.epoch = epoch => hit \subseteq {d}
  BY DEF RabbitInv, Fresh
<1>2. MessagesOf(hit) \subseteq {d.msg} \cup Crossing(d)
  BY <1>1 DEF MessagesOf, Crossing
<1>3. MessagesOf(out) \subseteq Messages /\ MessagesOf(hit) \subseteq Messages
  BY MessagesOfOut DEF RabbitInv
<1>4. CASE ~link
  BY <1>4 DEF Tell, RabbitInv, RabbitTypeOK, Linked, queues, channel
<1>5. CASE link /\ hit = {}
  <2>1. ChannelEnds
    BY <1>5 DEF Tell
  <2>2. QED
    BY <1>3, <2>1 DEF ChannelEnds, RabbitInv, RabbitTypeOK
<1>6. CASE link /\ hit # {}
  <2>1. /\ out' = out \ hit
        /\ waiting' = waiting \cup IF requeue THEN MessagesOf(hit) ELSE {}
        /\ gone' = gone \cup IF requeue THEN {} ELSE MessagesOf(hit)
        /\ UNCHANGED <<delayed, link, nextTag>>
    BY <1>6 DEF Tell
  <2>2. d \notin out'
    BY <2>1
  <2> HIDE DEF hit
  <2>3. waiting' \in SUBSET Messages /\ gone' \in SUBSET Messages
    BY <1>3, <2>1 DEF RabbitInv, RabbitTypeOK
  <2>4. gone' \subseteq gone \cup {d.msg} \cup Crossing(d)
    BY <1>2, <2>1
  <2>5. requeue => gone' = gone
    BY <2>1
  <2>6. link' \in BOOLEAN /\ nextTag' \in Nat
    BY <2>1 DEF RabbitInv, RabbitTypeOK
  <2>7. out' \subseteq out
    BY <2>1
  <2>8. QED
    BY <2>1, <2>2, <2>3, <2>4, <2>5, <2>6, <2>7
<1>7. QED
  BY <1>4, <1>5, <1>6

\* Crossing names messages only.
LEMMA CrossingType == ASSUME RabbitTypeOK, NEW d PROVE Crossing(d) \subseteq Messages
BY DEF RabbitTypeOK, Crossing, Deliveries

\* What is left to show when a callback of d is over and the broker was told of e, or
\* of nothing.
LEMMA CallbackOver ==
    ASSUME RabbitInv, NEW d \in callbacks, callbacks' = callbacks \ {d},
           UNCHANGED <<client, epoch, left>>,
           out' \subseteq out, d \notin out',
           \/ UNCHANGED <<link, nextTag>>
           \/ link' = FALSE /\ out' = {},
           \A m \in Messages : inFlight'[m] = inFlight[m]
                               \/ (inFlight'[m] = None /\ \A o \in out' : o.msg # m)
    PROVE  NeverBlocked' /\ Linked' /\ Tracked' /\ Fresh'
<1>1. NeverBlocked'
  BY DEF RabbitInv, NeverBlocked
<1>2. Linked'
  BY DEF RabbitInv, Linked
<1>3. Tracked'
  <2>1. \A o \in out : o.msg \in Messages
    BY DEF RabbitInv, RabbitTypeOK, Deliveries
  <2>2. QED
    BY <2>1 DEF RabbitInv, Tracked
<1>4. Known' \subseteq Known
  BY DEF Known
<1>5. Fresh'
  BY <1>4 DEF RabbitInv, Fresh
<1>6. QED
  BY <1>1, <1>2, <1>3, <1>5

LEMMA SettleInv ==
    ASSUME RabbitInv, NEW d \in callbacks, NEW requeue \in BOOLEAN, Settle(d, requeue)
    PROVE  RabbitInv'
<1> DEFINE e == inFlight[d.msg]
<1>1. d \in Deliveries /\ d.msg \in Messages
  BY DEF RabbitInv, RabbitTypeOK, Deliveries
<1>2. /\ callbacks' = callbacks \ {d}
      /\ done' = IF requeue THEN done ELSE done \cup {d.msg}
      /\ UNCHANGED <<object, left, closed, faults>>
      /\ UNCHANGED <<client, epoch>>
  BY DEF Settle, object, connection
<1>3. requeues' \in 0 .. MaxRequeues /\ done' \in SUBSET Messages
  BY <1>1, RabbitAssumption DEF Settle, RabbitInv, RabbitTypeOK
<1>4. CASE HasChannel /\ e # None
  <2>1. /\ Tell(e, requeue)
        /\ inFlight' = [inFlight EXCEPT ![d.msg] = None]
        /\ crossed' = crossed \cup Crossing(e)
    BY <1>4 DEF Settle
  <2>2. e \in Known /\ e.msg = d.msg
    BY <1>1, <1>4 DEF RabbitInv, Tracked, Known
  <2> HIDE DEF e
  <2>3. /\ waiting' \in SUBSET Messages /\ gone' \in SUBSET Messages
        /\ delayed' = delayed
        /\ out' \subseteq out /\ e \notin out'
        /\ link' \in BOOLEAN /\ nextTag' \in Nat
        /\ requeue => gone' = gone
        /\ gone' \subseteq gone \cup {d.msg} \cup Crossing(e)
        /\ \/ UNCHANGED <<link, nextTag>>
           \/ link' = FALSE /\ out' = {}
    BY <1>2, <2>1, <2>2, Told
  <2>4. \A o \in out' : o.msg # d.msg
    BY <2>3 DEF e, RabbitInv, Tracked
  <2>5. \A m \in Messages : inFlight'[m] = IF m = d.msg THEN None ELSE inFlight[m]
    BY <2>1 DEF RabbitInv, RabbitTypeOK
  <2>6. NeverBlocked' /\ Linked' /\ Tracked' /\ Fresh'
    BY <1>2, <2>3, <2>4, <2>5, CallbackOver
  <2>7. NothingLost'
    BY <1>2, <2>1, <2>3 DEF RabbitInv, NothingLost
  <2>8. RabbitTypeOK'
    <3>1. /\ inFlight' \in [Messages -> Deliveries \cup {None}]
          /\ crossed' \in SUBSET Messages
          /\ callbacks' \in SUBSET Deliveries /\ out' \in SUBSET Deliveries
      BY <1>2, <2>1, <2>3, CrossingType DEF RabbitInv, RabbitTypeOK
    <3>2. QED
      BY <1>2, <1>3, <2>3, <3>1 DEF RabbitInv, RabbitTypeOK, object, connection
  <2>9. QED
    BY <2>6, <2>7, <2>8 DEF RabbitInv
<1>5. CASE ~(HasChannel /\ e # None)
  <2>1. UNCHANGED <<queues, channel, inFlight, crossed>>
    BY <1>5 DEF Settle
  <2>2. d \notin out
    BY <1>1, <1>5, RabbitAssumption DEF RabbitInv, Linked, Tracked, HasChannel
  <2>3. NeverBlocked' /\ Linked' /\ Tracked' /\ Fresh'
    BY <1>2, <2>1, <2>2, CallbackOver DEF channel
  <2>4. NothingLost'
    BY <1>2, <2>1 DEF RabbitInv, NothingLost, queues
  <2>5. RabbitTypeOK'
    BY <1>2, <1>3, <2>1 DEF RabbitInv, RabbitTypeOK, queues, channel, object, connection
  <2>6. QED
    BY <2>3, <2>4, <2>5 DEF RabbitInv
<1>6. QED
  BY <1>4, <1>5

LEMMA ThrowInv == ASSUME RabbitInv, NEW d \in callbacks, Throw(d) PROVE RabbitInv'
<1>1. d \in Deliveries /\ d.msg \in Messages /\ d \in Known
  BY DEF RabbitInv, RabbitTypeOK, Deliveries, Known
<1>2. /\ callbacks' = callbacks \ {d}
      /\ done' = done \cup {d.msg}
      /\ UNCHANGED <<object, inFlight, left, closed, spent>>
      /\ UNCHANGED <<client, epoch>>
  BY DEF Throw, object, connection
<1>3. CASE HasChannel
  <2>1. Tell(d, FALSE) /\ crossed' = crossed \cup Crossing(d)
    BY <1>3 DEF Throw
  <2>2. /\ waiting' \in SUBSET Messages /\ gone' \in SUBSET Messages
        /\ delayed' = delayed
        /\ out' \subseteq out /\ d \notin out'
        /\ link' \in BOOLEAN /\ nextTag' \in Nat
        /\ gone' \subseteq gone \cup {d.msg} \cup Crossing(d)
        /\ \/ UNCHANGED <<link, nextTag>>
           \/ link' = FALSE /\ out' = {}
    BY <1>1, <1>2, <2>1, Told
  <2>3. NeverBlocked' /\ Linked' /\ Tracked' /\ Fresh'
    BY <1>2, <2>2, CallbackOver
  <2>4. NothingLost'
    BY <1>2, <2>1, <2>2 DEF RabbitInv, NothingLost
  <2>5. RabbitTypeOK'
    <3>1. /\ crossed' \in SUBSET Messages /\ done' \in SUBSET Messages
          /\ callbacks' \in SUBSET Deliveries /\ out' \in SUBSET Deliveries
      BY <1>1, <1>2, <2>1, <2>2, CrossingType DEF RabbitInv, RabbitTypeOK
    <3>2. QED
      BY <1>2, <2>2, <3>1 DEF RabbitInv, RabbitTypeOK, object, connection, spent
  <2>6. QED
    BY <2>3, <2>4, <2>5 DEF RabbitInv
<1>4. CASE ~HasChannel
  <2>1. UNCHANGED <<queues, channel, crossed>>
    BY <1>4 DEF Throw
  <2>2. d \notin out
    BY <1>4 DEF RabbitInv, Linked, HasChannel
  <2>3. NeverBlocked' /\ Linked' /\ Tracked' /\ Fresh'
    BY <1>2, <2>1, <2>2, CallbackOver DEF channel
  <2>4. NothingLost'
    BY <1>2, <2>1 DEF RabbitInv, NothingLost, queues
  <2>5. RabbitTypeOK'
    BY <1>1, <1>2, <2>1 DEF RabbitInv, RabbitTypeOK, queues, channel, object, connection, spent
  <2>6. QED
    BY <2>3, <2>4, <2>5 DEF RabbitInv
<1>5. QED
  BY <1>3, <1>4

LEMMA ReturnInv == ASSUME RabbitInv, NEW d \in callbacks, Return(d) PROVE RabbitInv'
<1>1. /\ callbacks' = callbacks \ {d}
      /\ left' = left \cup {d.msg}
      /\ UNCHANGED <<queues, channel, object, inFlight, done, crossed, closed, spent>>
  BY DEF Return
<1>2. RabbitTypeOK'
  <2>1. callbacks' \in SUBSET Deliveries /\ left' \in SUBSET Messages
    BY <1>1 DEF RabbitInv, RabbitTypeOK, Deliveries
  <2>2. QED
    BY <1>1, <2>1 DEF RabbitInv, RabbitTypeOK, queues, channel, object, connection, spent
<1>3. NeverBlocked' /\ Linked' /\ Tracked'
  BY <1>1 DEF RabbitInv, NeverBlocked, Linked, Tracked, channel, object, connection
<1>4. Known' \subseteq Known
  BY <1>1 DEF Known
<1>5. Fresh' /\ NothingLost'
  BY <1>1, <1>4 DEF RabbitInv, Fresh, NothingLost, queues, channel, object, connection
<1>6. QED
  BY <1>2, <1>3, <1>5 DEF RabbitInv

LEMMA RabbitStepInv == RabbitInv /\ [RabbitNext]_rabbitVars => RabbitInv'
<1> SUFFICES ASSUME RabbitInv, [RabbitNext]_rabbitVars PROVE RabbitInv'
  OBVIOUS
<1>1. CASE Initialize \/ Progress \/ ConnectFails
  BY <1>1, ConnectInv
<1>2. CASE LinkLost \/ Close
  BY <1>2, EndInv
<1>3. ASSUME NEW m \in Messages, Enqueue(m) \/ Expire(m) \/ Deliver(m) \/ TakenElsewhere(m)
      PROVE  RabbitInv'
  BY <1>3, QueueInv, DeliverInv
<1>4. ASSUME NEW d \in callbacks, Callback(d) PROVE RabbitInv'
  BY <1>4, SettleInv, ThrowInv, ReturnInv DEF Callback
<1>5. CASE UNCHANGED rabbitVars
  <2>1. Known' = Known
    BY <1>5 DEF Known, rabbitVars
  <2>2. QED
    BY <1>5, <2>1 DEF rabbitVars, queues, channel, object, connection, history, spent, RabbitInv,
                      RabbitTypeOK, NeverBlocked, Linked, Tracked, Fresh, NothingLost
<1>6. QED
  BY <1>1, <1>2, <1>3, <1>4, <1>5 DEF RabbitNext

LEMMA RabbitInvariant == RabbitSpec => []RabbitInv
BY RabbitInitInv, RabbitStepInv, PTL DEF RabbitSpec

\* The variables keep their types, however often connections are lost and messages are
\* handed back.
THEOREM RabbitTypeCorrect == RabbitSpec => []RabbitTypeOK
<1>1. RabbitInv => RabbitTypeOK
  BY DEF RabbitInv
<1>2. QED
  BY <1>1, RabbitInvariant, PTL

\* No message is forgotten that was not settled, but by the ack of a callback that
\* outlived its connection.
THEOREM RabbitNothingLost == RabbitSpec => []NothingLost
<1>1. RabbitInv => NothingLost
  BY DEF RabbitInv
<1>2. QED
  BY <1>1, RabbitInvariant, PTL

\* No delivery is left to block the consumer but by a callback that does not settle it.
THEOREM RabbitNeverBlocked == RabbitSpec => []NeverBlocked
<1>1. RabbitInv => NeverBlocked
  BY DEF RabbitInv
<1>2. QED
  BY <1>1, RabbitInvariant, PTL

\* An object that was closed when it was set up stays closed.
THEOREM RabbitClosedForGood == RabbitSpec => []ClosedForGood
<1>1. RabbitInit => ClosedForGood
  BY DEF RabbitInit, ClosedForGood
<1>2. ASSUME ClosedForGood, [RabbitNext]_rabbitVars PROVE ClosedForGood'
  <2>1. CASE Initialize \/ Progress \/ ConnectFails
    BY <1>2, <2>1 DEF ClosedForGood, Initialize, Progress, Connect, CreateChannel, SetUp,
                      Disconnected, Timer, ConnectFails, history
  <2>2. CASE Close
    BY <2>2 DEF ClosedForGood, Close, CloseUp, CloseEarly
  <2>3. CASE LinkLost \/ UNCHANGED rabbitVars
    BY <1>2, <2>3 DEF ClosedForGood, LinkLost, rabbitVars, object, history
  <2>4. ASSUME NEW m \in Messages, Enqueue(m) \/ Expire(m) \/ Deliver(m) \/ TakenElsewhere(m)
        PROVE  ClosedForGood'
    BY <1>2, <2>4 DEF ClosedForGood, Enqueue, Expire, Deliver, TakenElsewhere, object, history
  <2>5. ASSUME NEW d \in callbacks, Callback(d) PROVE ClosedForGood'
    BY <1>2, <2>5 DEF ClosedForGood, Callback, Settle, Throw, Return, object
  <2>6. QED
    BY <1>2, <2>1, <2>2, <2>3, <2>4, <2>5 DEF RabbitNext
<1>3. QED
  BY <1>1, <1>2, PTL DEF RabbitSpec
===============================================================================
