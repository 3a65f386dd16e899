-------------------------- MODULE InMemoryQueueProofs --------------------------
(***************************************************************************)
(* Theorems about InMemoryQueue, for any messages and any number of        *)
(* consumers.                                                              *)
(***************************************************************************)
EXTENDS InMemoryQueue, FiniteSetTheorems, TLAPS

\* The elements of a sequence over S are in S.
LEMMA ElemsType ==
    ASSUME NEW S, NEW s \in Seq(S)
    PROVE  Elems(s) \in SUBSET S
BY DEF Elems

\* Taking the head off a duplicate-free queue takes it out of its elements.
LEMMA TailFacts ==
    ASSUME NEW S, NEW s \in Seq(S), s # <<>>
    PROVE  /\ Head(s) \in S
           /\ Head(s) \in Elems(s)
           /\ Tail(s) \in Seq(S)
           /\ \A i \in DOMAIN Tail(s) : i + 1 \in DOMAIN s /\ Tail(s)[i] = s[i + 1]
           /\ Elems(s) = {Head(s)} \cup Elems(Tail(s))
           /\ Distinct(s) => Distinct(Tail(s)) /\ Head(s) \notin Elems(Tail(s))
<1>1. /\ Head(s) \in S /\ Head(s) = s[1] /\ Tail(s) \in Seq(S)
      /\ 1 \in DOMAIN s
      /\ \A i \in DOMAIN Tail(s) : i + 1 \in DOMAIN s /\ Tail(s)[i] = s[i + 1]
      /\ \A j \in DOMAIN s : j = 1 \/ (j - 1 \in DOMAIN Tail(s) /\ Tail(s)[j - 1] = s[j])
  OBVIOUS
<1>2. Elems(s) = {Head(s)} \cup Elems(Tail(s))
  <2>1. ASSUME NEW x \in Elems(s) PROVE x \in {Head(s)} \cup Elems(Tail(s))
    <3>1. PICK j \in DOMAIN s : s[j] = x
      BY <2>1 DEF Elems
    <3>2. QED
      BY <1>1, <3>1 DEF Elems
  <2>2. ASSUME NEW x \in Elems(Tail(s)) PROVE x \in Elems(s)
    BY <1>1, <2>2 DEF Elems
  <2>3. QED
    BY <1>1, <2>1, <2>2 DEF Elems
<1>3. ASSUME Distinct(s) PROVE Distinct(Tail(s)) /\ Head(s) \notin Elems(Tail(s))
  <2>1. ASSUME NEW i \in DOMAIN Tail(s), NEW j \in DOMAIN Tail(s), Tail(s)[i] = Tail(s)[j]
        PROVE  i = j
    <3>1. i + 1 = j + 1
      BY <1>1, <1>3, <2>1 DEF Distinct
    <3>2. i \in Int /\ j \in Int
      BY <1>1
    <3>3. QED
      BY <3>1, <3>2
  <2>2. ASSUME NEW i \in DOMAIN Tail(s), Tail(s)[i] = Head(s) PROVE FALSE
    <3>1. i + 1 = 1 /\ i \in 1..Len(Tail(s))
      BY <1>1, <1>3, <2>2 DEF Distinct
    <3>2. QED
      BY <3>1
  <2>3. QED
    BY <2>1, <2>2 DEF Distinct, Elems
<1>4. QED
  BY <1>1, <1>2, <1>3 DEF Elems

\* Pushing a new element on a duplicate-free queue.
LEMMA AppendFacts ==
    ASSUME NEW S, NEW s \in Seq(S), NEW x \in S
    PROVE  /\ Append(s, x) \in Seq(S)
           /\ Elems(Append(s, x)) = Elems(s) \cup {x}
           /\ Distinct(s) /\ x \notin Elems(s) => Distinct(Append(s, x))
<1> DEFINE t == Append(s, x)
<1>1. /\ t \in Seq(S) /\ Len(s) \in Nat
      /\ DOMAIN s = 1..Len(s) /\ DOMAIN t = 1..(Len(s) + 1)
      /\ \A i \in 1..Len(s) : t[i] = s[i]
      /\ t[Len(s) + 1] = x
  OBVIOUS
<1> HIDE DEF t
<1>2. \A i \in DOMAIN t : i \in DOMAIN s \/ i = Len(s) + 1
  BY <1>1
<1>3. DOMAIN s \subseteq DOMAIN t /\ Len(s) + 1 \in DOMAIN t
  BY <1>1
<1>4. Elems(t) = Elems(s) \cup {x}
  <2>1. ASSUME NEW y \in Elems(t) PROVE y \in Elems(s) \cup {x}
    BY <1>1, <1>2, <2>1 DEF Elems
  <2>2. ASSUME NEW y \in Elems(s) PROVE y \in Elems(t)
    BY <1>1, <1>3, <2>2 DEF Elems
  <2>3. x \in Elems(t)
    BY <1>1, <1>3 DEF Elems
  <2>4. QED
    BY <2>1, <2>2, <2>3
<1>5. ASSUME Distinct(s), x \notin Elems(s) PROVE Distinct(t)
  <2>1. \A i \in DOMAIN s : t[i] = s[i] /\ s[i] # x
    BY <1>1, <1>5 DEF Elems
  <2>2. QED
    BY <1>1, <1>2, <1>5, <2>1 DEF Distinct
<1>6. QED
  BY <1>1, <1>4, <1>5 DEF t

-------------------------------------------------------------------------------
\* A slot nobody registered for serves nothing.
Idle == \A c \in Slots : c \notin Registered => serving[c] = None

\* A callback that has not settled its message has it in flight, unless the queue was
\* cleared; one that has acked it is done with it for good.
Served ==
    \A c \in Slots : serving[c] # None =>
        /\ stage[c] = "running" => serving[c] \in inFlight \cup gone
        /\ stage[c] = "acked" => serving[c] \in gone

\* The inductive invariant.
Inv == TypeOK /\ OneCopy /\ Idle /\ Served

LEMMA InitInv == Init => Inv
<1> SUFFICES ASSUME Init PROVE Inv
  OBVIOUS
<1>1. Elems(queue) = {} /\ Distinct(queue)
  BY DEF Init, Elems, Distinct
<1>2. TypeOK
  <2>1. queue \in Seq(Messages)
    BY DEF Init
  <2>2. /\ serving \in [Slots -> Messages \cup {None}]
        /\ stage \in [Slots -> {"running", "acked", "nacked"}]
    BY DEF Init
  <2>3. consumers \in 0..MaxConsumers
    BY QueueAssumption DEF Init
  <2>4. QED
    BY <2>1, <2>2, <2>3 DEF Init, TypeOK
<1>3. OneCopy /\ Idle /\ Served
  BY <1>1 DEF Init, OneCopy, Idle, Served, Running
<1>4. QED
  BY <1>2, <1>3 DEF Inv

\* What the actions that push a message do to the queue.
LEMMA Pushed ==
    ASSUME TypeOK, OneCopy, NEW m \in Messages, m \notin Elems(queue),
           queue' = Append(queue, m)
    PROVE  /\ queue' \in Seq(Messages)
           /\ Distinct(queue')
           /\ Elems(queue)' = Elems(queue) \cup {m}
BY AppendFacts DEF TypeOK, OneCopy

LEMMA Emptied ==
    ASSUME queue' = <<>>
    PROVE  queue' \in Seq(Messages) /\ Distinct(queue') /\ Elems(queue)' = {}
BY DEF Distinct, Elems

LEMMA PumpInv == ASSUME Inv, Pump PROVE Inv'
<1>1. CASE StartKick \/ StopKick
  BY <1>1 DEF StartKick, StopKick, Inv, TypeOK, OneCopy, Idle, Served, Running, Registered,
              hands
<1>2. ASSUME NEW c \in Slots, Dispatch(c) PROVE Inv'
  <2> DEFINE m == Head(queue)
  <2>1. /\ m \in Messages /\ m \in Elems(queue)
        /\ Tail(queue) \in Seq(Messages) /\ Distinct(Tail(queue))
        /\ Elems(queue) = {m} \cup Elems(Tail(queue)) /\ m \notin Elems(Tail(queue))
    BY <1>2, TailFacts DEF Inv, TypeOK, OneCopy, Dispatch
  <2>2. /\ queue' \in Seq(Messages) /\ Distinct(queue')
        /\ Elems(queue)' = Elems(queue) \ {m}
    BY <1>2, <2>1 DEF Dispatch
  <2>3. c \in Registered /\ serving[c] = None
    BY <1>2 DEF Dispatch, NextAvailable, Free
  <2>4. m \notin inFlight \cup delayed \cup gone
    BY <2>1 DEF Inv, OneCopy
  <2>5. rrIndex' \in Slots
    <3>1. MaxConsumers \in Nat /\ consumers \in 0..MaxConsumers /\ c \in 0..(consumers - 1)
      BY <2>3, QueueAssumption DEF Inv, TypeOK, Registered, Slots
    <3>2. (c + 1) % consumers \in 0..(consumers - 1)
      BY <3>1
    <3>3. QED
      BY <1>2, <3>1, <3>2 DEF Dispatch, Slots
  <2> HIDE DEF m
  <2>6. /\ inFlight' = inFlight \cup {m}
        /\ serving' = [serving EXCEPT ![c] = m]
        /\ stage' = [stage EXCEPT ![c] = "running"]
        /\ UNCHANGED <<delayed, consumers, closed, kick, gone>>
    BY <1>2 DEF Dispatch, m
  <2>7. TypeOK'
    BY <2>1, <2>2, <2>5, <2>6 DEF Inv, TypeOK
  <2>8. /\ \A d \in Slots \ {c} : serving'[d] = serving[d] /\ stage'[d] = stage[d]
        /\ serving'[c] = m /\ stage'[c] = "running"
        /\ Registered' = Registered
    BY <2>6 DEF Inv, TypeOK, Registered
  <2>9. \A d \in Slots \ {c} : Running(d) => serving[d] # m
    BY <2>4 DEF Inv, Served, Running
  <2>10. OneCopy'
    <3>1. /\ Elems(queue)' \cap (delayed \cup inFlight \cup gone)' = {}
          /\ delayed' \cap (inFlight \cup gone)' = {}
          /\ inFlight' \cap gone' = {}
      BY <2>2, <2>4, <2>6 DEF Inv, OneCopy
    <3>2. ASSUME NEW d \in Slots, NEW e \in Slots, Running(d)', Running(e)',
                 serving'[d] = serving'[e], serving'[d] \in inFlight'
          PROVE  d = e
      <4>1. \A x \in Slots \ {c} : Running(x)' => Running(x) /\ serving[x] # m
        BY <2>8, <2>9 DEF Running
      <4>2. CASE d = c \/ e = c
        BY <2>8, <3>2, <4>1, <4>2
      <4>3. CASE d # c /\ e # c
        BY <2>6, <2>8, <3>2, <4>1, <4>3 DEF Inv, OneCopy
      <4>4. QED
        BY <4>2, <4>3
    <3>3. QED
      BY <2>2, <3>1, <3>2 DEF OneCopy
  <2>11. Idle' /\ Served'
    BY <2>3, <2>6, <2>8 DEF Inv, Idle, Served
  <2>12. QED
    BY <2>7, <2>10, <2>11 DEF Inv
<1>3. QED
  BY <1>1, <1>2 DEF Pump

\* A callback that settles or leaves its message, or the queue that takes one in.
LEMMA EnqueueInv ==
    ASSUME Inv, NEW m \in Messages, Enqueue(m) \/ EnqueueDelayed(m) \/ Fire(m)
    PROVE  Inv'
<1>1. CASE Enqueue(m)
  <2>1. m \notin Elems(queue) \cup delayed \cup inFlight \cup gone
    BY <1>1 DEF Enqueue, Sent
  <2>2. queue' \in Seq(Messages) /\ Distinct(queue)' /\ Elems(queue)' = Elems(queue) \cup {m}
    BY <1>1, <2>1, Pushed DEF Inv, Enqueue
  <2>3. QED
    BY <1>1, <2>1, <2>2 DEF Enqueue, Kick, Inv, TypeOK, OneCopy, Idle, Served, Running,
                            Registered, hands
<1>2. CASE EnqueueDelayed(m)
  BY <1>2 DEF EnqueueDelayed, Sent, Inv, TypeOK, OneCopy, Idle, Served, Running, Registered,
              hands
<1>3. CASE Fire(m) /\ closed
  BY <1>3 DEF Fire, Inv, TypeOK, OneCopy, Idle, Served, Running, Registered, hands
<1>4. CASE Fire(m) /\ ~closed
  <2>1. m \in delayed /\ m \notin Elems(queue) \cup inFlight \cup gone
    BY <1>4 DEF Fire, Inv, OneCopy
  <2>2. queue' \in Seq(Messages) /\ Distinct(queue)' /\ Elems(queue)' = Elems(queue) \cup {m}
    BY <1>4, <2>1, Pushed DEF Inv, Fire
  <2>3. QED
    BY <1>4, <2>1, <2>2 DEF Fire, Kick, Inv, TypeOK, OneCopy, Idle, Served, Running,
                            Registered, hands
<1>5. QED
  BY <1>1, <1>2, <1>3, <1>4

\* The message c is busy with, when it is in flight and c is not done with it.
LEMMA ServedFacts ==
    ASSUME Inv, NEW c \in Slots, c \in Registered, serving[c] # None, stage[c] # "nacked",
           serving[c] \in inFlight
    PROVE  /\ serving[c] \in Messages
           /\ Running(c)
           /\ serving[c] \notin Elems(queue) \cup delayed \cup gone
           /\ \A d \in Slots : Running(d) /\ serving[d] = serving[c] => d = c
BY DEF Inv, TypeOK, OneCopy, Served, Running

LEMMA SettleInv ==
    ASSUME Inv, NEW c \in Slots, Ack(c) \/ \E requeue \in BOOLEAN : Nack(c, requeue)
    PROVE  Inv'
<1> DEFINE m == serving[c]
<1>1. Running(c) /\ c \in Registered /\ m # None /\ stage[c] = "running" /\ m \in Messages
  BY DEF Ack, Nack, Running, Inv, TypeOK
<1>2. PICK how \in {"acked", "nacked"} :
         /\ stage' = [stage EXCEPT ![c] = how]
         /\ m \notin inFlight => UNCHANGED <<queue, inFlight, gone, kick>>
         /\ m \in inFlight =>
               /\ inFlight' = inFlight \ {m}
               /\ kick' = "due"
               /\ \/ queue' = queue /\ gone' = gone \cup {m}
                  \/ queue' = Append(queue, m) /\ gone' = gone /\ how = "nacked"
         /\ UNCHANGED <<delayed, consumers, serving, rrIndex, closed>>
  <2>1. CASE Ack(c)
    BY <2>1 DEF Ack, Settled, Kick
  <2>2. CASE \E requeue \in BOOLEAN : Nack(c, requeue)
    BY <2>2 DEF Nack, Settled, Kick
  <2>3. QED
    BY <2>1, <2>2
<1>3. /\ \A d \in Slots \ {c} : stage'[d] = stage[d]
      /\ stage'[c] = how
      /\ Registered' = Registered /\ serving' = serving
      /\ stage' \in [Slots -> {"running", "acked", "nacked"}]
  BY <1>2 DEF Inv, TypeOK, Registered
<1>4. /\ ~Running(c)'
      /\ \A d \in Slots : Running(d)' => Running(d)
  BY <1>3 DEF Running
<1>5. CASE m \notin inFlight
  <2>1. m \in gone
    BY <1>1, <1>5 DEF Inv, Served
  <2>2. QED
    BY <1>2, <1>3, <1>4, <1>5, <2>1 DEF Inv, TypeOK, OneCopy, Idle, Served
<1>6. CASE m \in inFlight
  <2>1. /\ m \notin Elems(queue) \cup delayed \cup gone
        /\ \A d \in Slots : Running(d) /\ serving[d] = m => d = c
    BY <1>1, <1>6, ServedFacts
  <2>2. \A d \in Slots : Running(d)' => serving[d] # m
    BY <1>4, <2>1
  <2>3. CASE queue' = queue /\ gone' = gone \cup {m}
    <3>1. TypeOK' /\ Idle' /\ Served'
      BY <1>1, <1>2, <1>3, <1>6, <2>3 DEF Inv, TypeOK, Idle, Served
    <3>2. OneCopy'
      BY <1>2, <1>3, <1>4, <1>6, <2>1, <2>2, <2>3 DEF Inv, OneCopy
    <3>3. QED
      BY <3>1, <3>2 DEF Inv
  <2>4. CASE queue' = Append(queue, m) /\ gone' = gone /\ how = "nacked"
    <3>1. queue' \in Seq(Messages) /\ Distinct(queue)' /\ Elems(queue)' = Elems(queue) \cup {m}
      BY <1>1, <2>1, <2>4, Pushed DEF Inv
    <3>2. TypeOK' /\ Idle'
      BY <1>1, <1>2, <1>3, <1>6, <2>4, <3>1 DEF Inv, TypeOK, Idle
    <3>3. Served'
      <4>1. ASSUME NEW d \in Slots, serving[d] # None, stage'[d] = "running"
            PROVE  serving[d] \in inFlight' \cup gone'
        <5>1. d # c /\ stage[d] = "running"
          BY <1>3, <2>4, <4>1
        <5>2. d \in Registered /\ Running(d)
          BY <4>1, <5>1 DEF Inv, Idle, Running
        <5>3. serving[d] # m
          BY <2>1, <5>1, <5>2
        <5>4. QED
          BY <1>2, <1>6, <2>4, <4>1, <5>1, <5>3 DEF Inv, Served
      <4>2. ASSUME NEW d \in Slots, serving[d] # None, stage'[d] = "acked"
            PROVE  serving[d] \in gone'
        BY <1>3, <2>4, <4>2 DEF Inv, Served
      <4>3. QED
        BY <1>3, <4>1, <4>2 DEF Served
    <3>4. OneCopy'
      BY <1>2, <1>3, <1>4, <1>6, <2>1, <2>2, <2>4, <3>1 DEF Inv, OneCopy
    <3>5. QED
      BY <3>2, <3>3, <3>4 DEF Inv
  <2>5. QED
    BY <1>2, <1>6, <2>3, <2>4
<1>7. QED
  BY <1>5, <1>6

LEMMA LeaveInv == ASSUME Inv, NEW c \in Slots, Return(c) \/ Throw(c) PROVE Inv'
<1> DEFINE m == serving[c]
<1>1. /\ c \in Registered /\ m # None /\ m \in Messages
      /\ serving' = [serving EXCEPT ![c] = None]
      /\ kick' = "due"
      /\ UNCHANGED <<delayed, consumers, stage, rrIndex, closed, gone>>
  BY DEF Return, Throw, Release, Kick, Free, Inv, TypeOK
<1>2. /\ \A d \in Slots \ {c} : serving'[d] = serving[d]
      /\ serving'[c] = None
      /\ Registered' = Registered
      /\ serving' \in [Slots -> Messages \cup {None}]
  BY <1>1 DEF Inv, TypeOK, Registered
<1>3. \A d \in Slots : Running(d)' => Running(d) /\ d # c
  BY <1>1, <1>2 DEF Running
<1>4. CASE UNCHANGED <<queue, inFlight>>
  <2>1. TypeOK' /\ Idle' /\ Served'
    BY <1>1, <1>2, <1>4 DEF Inv, TypeOK, Idle, Served
  <2>2. OneCopy'
    BY <1>1, <1>2, <1>3, <1>4 DEF Inv, OneCopy
  <2>3. QED
    BY <2>1, <2>2 DEF Inv
<1>5. CASE Throw(c) /\ m \in inFlight
  <2>1. /\ m \notin Elems(queue) \cup delayed \cup gone
        /\ \A d \in Slots : Running(d) /\ serving[d] = m => d = c
    BY <1>1, <1>5, ServedFacts DEF Throw
  <2>2. inFlight' = inFlight \ {m} /\ queue' = Append(queue, m)
    BY <1>5 DEF Throw
  <2>3. queue' \in Seq(Messages) /\ Distinct(queue)' /\ Elems(queue)' = Elems(queue) \cup {m}
    BY <1>1, <2>1, <2>2, Pushed DEF Inv
  <2>4. TypeOK' /\ Idle'
    BY <1>1, <1>2, <2>2, <2>3 DEF Inv, TypeOK, Idle
  <2>5. Served'
    <3>1. ASSUME NEW d \in Slots, serving'[d] # None
          PROVE  /\ stage[d] = "running" => serving'[d] \in inFlight' \cup gone'
                 /\ stage[d] = "acked" => serving'[d] \in gone'
      <4>1. d # c /\ serving'[d] = serving[d] /\ d \in Registered
        BY <1>2, <3>1 DEF Inv, Idle
      <4>2. stage[d] = "running" => serving[d] # m
        BY <2>1, <3>1, <4>1 DEF Running
      <4>3. QED
        BY <1>1, <2>2, <3>1, <4>1, <4>2 DEF Inv, Served
    <3>2. QED
      BY <1>1, <3>1 DEF Served
  <2>6. OneCopy'
    BY <1>1, <1>2, <1>3, <2>1, <2>2, <2>3 DEF Inv, OneCopy
  <2>7. QED
    BY <2>4, <2>5, <2>6 DEF Inv
<1>6. QED
  BY <1>4, <1>5 DEF Return, Throw

\* The turns that change no message, and those that end them all.
LEMMA RestInv == ASSUME Inv, OnMessage \/ Clear \/ Close PROVE Inv'
<1>1. CASE OnMessage
  <2>1. /\ consumers' = consumers + 1 /\ consumers' \in 0..MaxConsumers
        /\ UNCHANGED <<queue, delayed, inFlight, serving, stage, rrIndex, closed, gone>>
        /\ kick' = "due"
    BY <1>1, QueueAssumption DEF OnMessage, Kick, Inv, TypeOK
  <2>2. \A c \in Slots : c \in Registered => c \in Registered'
    BY <2>1, QueueAssumption DEF Registered, Slots, Inv, TypeOK
  <2>3. \A c \in Slots : serving[c] # None => c \in Registered
    BY DEF Inv, Idle
  <2>4. \A c \in Slots : Running(c)' => Running(c)
    BY <2>1, <2>3 DEF Running
  <2>5. QED
    BY <2>1, <2>2, <2>3, <2>4 DEF Inv, TypeOK, OneCopy, Idle, Served
<1>2. CASE Clear
  <2>1. queue' \in Seq(Messages) /\ Distinct(queue)' /\ Elems(queue)' = {}
    BY <1>2, Emptied DEF Clear
  <2>2. Elems(queue) \in SUBSET Messages
    BY ElemsType DEF Inv, TypeOK
  <2>3. QED
    BY <1>2, <2>1, <2>2 DEF Clear, Inv, TypeOK, OneCopy, Idle, Served, Running, Registered,
                            hands
<1>3. CASE Close
  <2>1. queue' \in Seq(Messages) /\ Distinct(queue)' /\ Elems(queue)' = {}
    BY <1>3, Emptied DEF Close
  <2>2. Elems(queue) \in SUBSET Messages
    BY ElemsType DEF Inv, TypeOK
  <2>3. \A c \in Slots : serving'[c] = None
    BY <1>3 DEF Close
  <2>4. consumers' \in 0..MaxConsumers
    BY <1>3, QueueAssumption DEF Close
  <2>5. serving' \in [Slots -> Messages \cup {None}]
    BY <1>3 DEF Close
  <2>6. QED
    BY <1>3, <2>1, <2>2, <2>3, <2>4, <2>5 DEF Close, Inv, TypeOK, OneCopy, Idle, Served, Running
<1>4. QED
  BY <1>1, <1>2, <1>3

LEMMA StepInv == Inv /\ [Next]_vars => Inv'
<1> SUFFICES ASSUME Inv, [Next]_vars PROVE Inv'
  OBVIOUS
<1>1. CASE Pump
  BY <1>1, PumpInv
<1>2. CASE Turn
  BY <1>2, EnqueueInv, SettleInv, LeaveInv, RestInv DEF Turn, Callback
<1>3. CASE UNCHANGED vars
  BY <1>3 DEF vars, hands, Inv, TypeOK, OneCopy, Idle, Served, Running, Registered
<1>4. QED
  BY <1>1, <1>2, <1>3 DEF Next

LEMMA AlwaysInv == Spec => []Inv
BY InitInv, StepInv, PTL DEF Spec

(***************************************************************************)
(* The state has its type.                                                 *)
(***************************************************************************)
THEOREM TypeCorrect == Spec => []TypeOK
BY AlwaysInv, PTL DEF Inv

(***************************************************************************)
(* There is one copy of every message, and one callback that works on it.  *)
(***************************************************************************)
THEOREM SingleCopy == Spec => []OneCopy
BY AlwaysInv, PTL DEF Inv

LEMMA WakeStep == NoLostWakeup /\ [Next]_vars => NoLostWakeup'
<1> SUFFICES ASSUME NoLostWakeup, [Next]_vars PROVE NoLostWakeup'
  OBVIOUS
<1> USE DEF NoLostWakeup, Free, Registered
<1>1. CASE Pump
  <2>1. CASE StartKick
    BY <2>1 DEF StartKick
  <2>2. CASE StopKick
    BY <2>2 DEF StopKick, hands
  <2>3. ASSUME NEW c \in Slots, Dispatch(c) PROVE NoLostWakeup'
    BY <2>3 DEF Dispatch
  <2>4. QED
    BY <1>1, <2>1, <2>2, <2>3 DEF Pump
<1>2. CASE Turn
  <2>1. ASSUME NEW m \in Messages, Enqueue(m) \/ EnqueueDelayed(m) \/ Fire(m)
        PROVE  NoLostWakeup'
    BY <2>1 DEF Enqueue, EnqueueDelayed, Fire, Kick, hands
  <2>2. ASSUME NEW c \in Slots, Ack(c) \/ \E requeue \in BOOLEAN : Nack(c, requeue)
        PROVE  NoLostWakeup'
    BY <2>2 DEF Ack, Nack, Settled, Kick
  <2>3. ASSUME NEW c \in Slots, Return(c) \/ Throw(c) PROVE NoLostWakeup'
    BY <2>3 DEF Return, Throw, Release, Kick
  <2>4. CASE OnMessage \/ Clear \/ Close
    BY <2>4 DEF OnMessage, Clear, Close, Kick, hands
  <2>5. QED
    BY <1>2, <2>1, <2>2, <2>3, <2>4 DEF Turn, Callback
<1>3. CASE UNCHANGED vars
  BY <1>3 DEF vars, hands
<1>4. QED
  BY <1>1, <1>2, <1>3 DEF Next

(***************************************************************************)
(* No wake-up is lost.                                                     *)
(***************************************************************************)
THEOREM Awake == Spec => []NoLostWakeup
<1>1. Init => NoLostWakeup
  BY DEF Init, NoLostWakeup
<1>2. QED
  BY <1>1, WakeStep, PTL DEF Spec
-------------------------------------------------------------------------------
\* Place tells apart four sets that are disjoint.
LEMMA PlaceFacts ==
    ASSUME NEW m, NEW waiting, NEW handed, NEW done,
           waiting \cap (handed \cup done) = {}, handed \cap done = {}
    PROVE  LET p == Place(m, waiting, handed, done) IN
           /\ m \in waiting => p = "waiting"
           /\ m \in handed => p = "handed"
           /\ m \in done => p = "gone"
           /\ m \notin waiting \cup handed \cup done => p = "unsent"
<1>1. CASE m \in handed
  BY <1>1 DEF Place
<1>2. CASE m \in waiting
  BY <1>2 DEF Place
<1>3. CASE m \in done
  BY <1>3 DEF Place
<1>4. CASE m \notin waiting \cup handed \cup done
  BY <1>4 DEF Place
<1>5. QED
  BY <1>1, <1>2, <1>3, <1>4

\* What a step does to the places is what it does to the three sets.
LEMMA Moves ==
    ASSUME Inv, Inv', NEW S \in SUBSET Messages, NEW where \in {"waiting", "handed", "gone"},
           \A m \in Messages \ S :
               /\ m \in Elems(queue)' \cup delayed' <=> m \in Elems(queue) \cup delayed
               /\ m \in inFlight' <=> m \in inFlight
               /\ m \in gone' <=> m \in gone,
           \A m \in S :
               /\ where = "waiting" => m \in Elems(queue)' \cup delayed'
               /\ where = "handed" => m \in inFlight'
               /\ where = "gone" => m \in gone'
    PROVE  Delivery!Move(S, where)
<1> DEFINE w == Elems(queue) \cup delayed
           p(m) == Place(m, w, inFlight, gone)
           q(m) == Place(m, w', inFlight', gone')
<1>1. /\ w \cap (inFlight \cup gone) = {} /\ inFlight \cap gone = {}
      /\ w' \cap (inFlight' \cup gone') = {} /\ inFlight' \cap gone' = {}
  BY DEF Inv, OneCopy
<1>2. ASSUME NEW m \in Messages \ S PROVE q(m) = p(m)
  <2>1. /\ m \in w' <=> m \in w
        /\ m \in inFlight' <=> m \in inFlight
        /\ m \in gone' <=> m \in gone
    BY <1>2
  <2> HIDE DEF w
  <2>2. CASE m \in w
    BY <1>1, <2>1, <2>2, PlaceFacts
  <2>3. CASE m \in inFlight
    BY <1>1, <2>1, <2>3, PlaceFacts
  <2>4. CASE m \in gone
    BY <1>1, <2>1, <2>4, PlaceFacts
  <2>5. CASE m \notin w \cup inFlight \cup gone
    BY <1>1, <2>1, <2>5, PlaceFacts
  <2>6. QED
    BY <2>2, <2>3, <2>4, <2>5
<1>3. ASSUME NEW m \in S PROVE q(m) = where
  <2>1. CASE where = "waiting"
    <3>1. m \in w'
      BY <1>3, <2>1
    <3> HIDE DEF w
    <3>2. QED
      BY <1>1, <2>1, <3>1, PlaceFacts
  <2>2. CASE where = "handed"
    <3>1. m \in inFlight'
      BY <1>3, <2>2
    <3> HIDE DEF w
    <3>2. QED
      BY <1>1, <2>2, <3>1, PlaceFacts
  <2>3. CASE where = "gone"
    <3>1. m \in gone'
      BY <1>3, <2>3
    <3> HIDE DEF w
    <3>2. QED
      BY <1>1, <2>3, <3>1, PlaceFacts
  <2>4. QED
    BY <2>1, <2>2, <2>3
<1>4. \A m \in Messages : q(m) = IF m \in S THEN where ELSE p(m)
  BY <1>2, <1>3
<1>5. QED
  BY <1>4 DEF Delivery!Move

\* Whoever the step leaves in the same sets stays where it is.
LEMMA Still ==
    ASSUME \A m \in Messages :
               /\ m \in Elems(queue)' \cup delayed' <=> m \in Elems(queue) \cup delayed
               /\ m \in inFlight' <=> m \in inFlight
               /\ m \in gone' <=> m \in gone
    PROVE  UNCHANGED [m \in Messages |->
                         Place(m, Elems(queue) \cup delayed, inFlight, gone)]
<1> SUFFICES ASSUME NEW m \in Messages
             PROVE  Place(m, Elems(queue)' \cup delayed', inFlight', gone')
                       = Place(m, Elems(queue) \cup delayed, inFlight, gone)
  OBVIOUS
<1>1. /\ m \in Elems(queue)' \cup delayed' <=> m \in Elems(queue) \cup delayed
      /\ m \in inFlight' <=> m \in inFlight
      /\ m \in gone' <=> m \in gone
  OBVIOUS
<1>2. QED
  BY <1>1 DEF Place

\* Where MessageDelivery sees a message.
LEMMA Seen ==
    ASSUME Inv, NEW m \in Messages
    PROVE  /\ m \notin Sent => m \in Delivery!In("unsent")
           /\ m \in Elems(queue) \cup delayed => m \in Delivery!In("waiting")
           /\ m \in inFlight => m \in Delivery!In("handed")
           /\ m \in Sent => m \notin Delivery!In("unsent")
<1> DEFINE w == Elems(queue) \cup delayed
<1>1. w \cap (inFlight \cup gone) = {} /\ inFlight \cap gone = {}
  BY DEF Inv, OneCopy
<1>2. m \in Sent <=> m \in w \cup inFlight \cup gone
  BY DEF Sent
<1>3. \A where : m \in Delivery!In(where) <=> Place(m, w, inFlight, gone) = where
  BY DEF Delivery!In
<1> HIDE DEF w
<1>4. /\ m \in w => Place(m, w, inFlight, gone) = "waiting"
      /\ m \in inFlight => Place(m, w, inFlight, gone) = "handed"
      /\ m \in gone => Place(m, w, inFlight, gone) = "gone"
      /\ m \notin w \cup inFlight \cup gone => Place(m, w, inFlight, gone) = "unsent"
  BY <1>1, PlaceFacts
<1>5. m \in Elems(queue) \cup delayed <=> m \in w
  BY DEF w
<1>6. QED
  BY <1>2, <1>3, <1>4, <1>5

LEMMA SendStep ==
    ASSUME Inv, Inv', NEW m \in Messages, Enqueue(m) \/ EnqueueDelayed(m)
    PROVE  Delivery!Next
<1>1. m \notin Sent
  BY DEF Enqueue, EnqueueDelayed
<1>2. /\ Elems(queue)' \cup delayed' = Elems(queue) \cup delayed \cup {m}
      /\ inFlight' = inFlight /\ gone' = gone
  <2>1. CASE Enqueue(m)
    BY <1>1, <2>1, Pushed DEF Enqueue, Inv, Sent
  <2>2. CASE EnqueueDelayed(m)
    BY <2>2 DEF EnqueueDelayed, Elems
  <2>3. QED
    BY <2>1, <2>2
<1>3. Delivery!Move({m}, "waiting")
  BY <1>2, Moves
<1>4. Delivery!Send(m)
  BY <1>1, <1>3, Seen DEF Delivery!Send
<1>5. QED
  BY <1>4 DEF Delivery!Next

LEMMA DeliverStep ==
    ASSUME Inv, Inv', NEW c \in Slots, Dispatch(c)
    PROVE  Delivery!Next
<1> DEFINE m == Head(queue)
<1>1. /\ m \in Messages /\ m \in Elems(queue)
      /\ Elems(queue) = {m} \cup Elems(Tail(queue)) /\ m \notin Elems(Tail(queue))
  BY TailFacts DEF Inv, TypeOK, OneCopy, Dispatch
<1>2. Elems(queue)' = Elems(queue) \ {m}
  BY <1>1 DEF Dispatch, Elems
<1>3. inFlight' = inFlight \cup {m} /\ delayed' = delayed /\ gone' = gone
  BY DEF Dispatch
<1> HIDE DEF m
<1>4. Delivery!Move({m}, "handed")
  <2>1. m \notin delayed
    BY <1>1 DEF Inv, OneCopy
  <2>2. QED
    BY <1>1, <1>2, <1>3, <2>1, Moves
<1>5. Delivery!Deliver(m)
  BY <1>1, <1>4, Seen DEF Delivery!Deliver
<1>6. QED
  BY <1>1, <1>5 DEF Delivery!Next

\* A message in flight goes back to the end of the queue.
LEMMA GiveBackStep ==
    ASSUME Inv, Inv', NEW m \in inFlight, inFlight' = inFlight \ {m},
           queue' = Append(queue, m), UNCHANGED <<delayed, gone>>
    PROVE  Delivery!Next
<1>1. m \in Messages /\ m \notin Elems(queue)
  BY DEF Inv, TypeOK, OneCopy
<1>2. Elems(queue)' = Elems(queue) \cup {m}
  BY <1>1, Pushed DEF Inv
<1>3. Delivery!Move({m}, "waiting")
  BY <1>1, <1>2, Moves
<1>4. Delivery!GiveBack(m)
  BY <1>1, <1>3, Seen DEF Delivery!GiveBack
<1>5. QED
  BY <1>1, <1>4 DEF Delivery!Next

\* Messages that were sent leave the queue, the timers and the consumers for good.
LEMMA ForgetStep ==
    ASSUME Inv, Inv', NEW S, S \subseteq Sent,
           Elems(queue)' = Elems(queue) \ S, delayed' = delayed \ S,
           inFlight' = inFlight \ S, gone' = gone \cup S
    PROVE  Delivery!Next
<1>1. S \in SUBSET Messages
  BY ElemsType DEF Sent, Inv, TypeOK
<1>2. Delivery!Move(S, "gone")
  BY <1>1, Moves
<1>3. S \cap Delivery!In("unsent") = {}
  BY <1>1, Seen
<1>4. Delivery!Forget(S)
  BY <1>2, <1>3 DEF Delivery!Forget
<1>5. QED
  BY <1>1, <1>4 DEF Delivery!Next

\* The abbreviation of the two outcomes of a step.
Mapped ==
    \/ Delivery!Next
    \/ UNCHANGED [m \in Messages |-> Place(m, Elems(queue) \cup delayed, inFlight, gone)]

LEMMA FireStep == ASSUME Inv, Inv', NEW m \in Messages, Fire(m) PROVE Mapped
<1>1. m \in delayed /\ m \notin Elems(queue) \cup inFlight /\ m \in Sent
  BY DEF Fire, Inv, OneCopy, Sent
<1>2. CASE closed
  <2>1. /\ queue' = queue /\ delayed' = delayed \ {m} /\ inFlight' = inFlight
        /\ gone' = gone \cup {m}
    BY <1>2 DEF Fire
  <2>2. Elems(queue)' = Elems(queue) \ {m} /\ inFlight' = inFlight \ {m}
    BY <1>1, <2>1 DEF Elems
  <2>3. QED
    BY <1>1, <2>1, <2>2, ForgetStep DEF Mapped
<1>3. CASE ~closed
  <2>1. /\ queue' = Append(queue, m) /\ delayed' = delayed \ {m}
        /\ inFlight' = inFlight /\ gone' = gone
    BY <1>3 DEF Fire
  <2>2. Elems(queue)' = Elems(queue) \cup {m}
    BY <1>1, <2>1, Pushed DEF Inv
  <2>3. QED
    BY <1>1, <2>1, <2>2, Still DEF Mapped
<1>4. QED
  BY <1>2, <1>3

LEMMA SettleStep ==
    ASSUME Inv, Inv', NEW c \in Slots, Ack(c) \/ \E requeue \in BOOLEAN : Nack(c, requeue)
    PROVE  Mapped
<1> DEFINE m == serving[c]
<1>1. CASE m \notin inFlight
  <2>1. UNCHANGED <<queue, delayed, inFlight, gone>>
    BY <1>1 DEF Ack, Nack
  <2>2. QED
    BY <2>1, Still DEF Mapped, Elems
<1>2. CASE m \in inFlight
  <2>1. m \notin Elems(queue) \cup delayed /\ m \in Sent
    BY <1>2 DEF Inv, OneCopy, Sent
  <2>2. delayed' = delayed /\ inFlight' = inFlight \ {m}
    BY <1>2 DEF Ack, Nack
  <2>3. \/ queue' = queue /\ gone' = gone \cup {m}
        \/ queue' = Append(queue, m) /\ gone' = gone
    BY <1>2 DEF Ack, Nack
  <2> HIDE DEF m
  <2>4. CASE queue' = queue /\ gone' = gone \cup {m}
    <3>1. Elems(queue)' = Elems(queue) \ {m} /\ delayed' = delayed \ {m}
      BY <2>1, <2>2, <2>4 DEF Elems
    <3>2. QED
      BY <2>1, <2>2, <2>4, <3>1, ForgetStep DEF Mapped
  <2>5. CASE queue' = Append(queue, m) /\ gone' = gone
    BY <1>2, <2>2, <2>5, GiveBackStep DEF Mapped
  <2>6. QED
    BY <2>3, <2>4, <2>5
<1>3. QED
  BY <1>1, <1>2

LEMMA LeaveStep == ASSUME Inv, Inv', NEW c \in Slots, Return(c) \/ Throw(c) PROVE Mapped
<1> DEFINE m == serving[c]
<1>1. delayed' = delayed /\ gone' = gone
  BY DEF Return, Throw
<1>2. CASE UNCHANGED <<queue, inFlight>>
  BY <1>1, <1>2, Still DEF Mapped, Elems
<1>3. CASE /\ m \in inFlight /\ inFlight' = inFlight \ {m}
           /\ queue' = Append(queue, m)
  BY <1>1, <1>3, GiveBackStep DEF Mapped
<1>4. QED
  BY <1>2, <1>3 DEF Return, Throw

LEMMA EndStep == ASSUME Inv, Inv', Clear \/ Close PROVE Delivery!Next
<1> DEFINE S == Elems(queue) \cup inFlight
<1>1. S \subseteq Sent /\ S \cap delayed = {}
  BY DEF Sent, Inv, OneCopy
<1>2. /\ Elems(queue)' = {} /\ inFlight' = {} /\ delayed' = delayed
      /\ gone' = gone \cup S
  <2>1. queue' = <<>>
    BY DEF Clear, Close
  <2>2. QED
    BY <2>1, Emptied DEF Clear, Close
<1>3. /\ Elems(queue)' = Elems(queue) \ S /\ inFlight' = inFlight \ S
      /\ delayed' = delayed \ S
  BY <1>1, <1>2
<1>4. QED
  BY <1>1, <1>2, <1>3, ForgetStep

\* Every step of the queue is a step of MessageDelivery, or moves no message.
LEMMA NextMapped == ASSUME Inv, Inv', [Next]_vars PROVE Mapped
<1>1. CASE UNCHANGED <<queue, delayed, inFlight, gone>>
  BY <1>1, Still DEF Mapped, Elems
<1>2. CASE Pump
  <2>1. CASE StartKick \/ StopKick
    BY <1>1, <2>1 DEF StartKick, StopKick
  <2>2. CASE \E c \in Slots : Dispatch(c)
    BY <2>2, DeliverStep DEF Mapped
  <2>3. QED
    BY <1>2, <2>1, <2>2 DEF Pump
<1>3. CASE Turn
  <2>1. CASE \E m \in Messages : Enqueue(m) \/ EnqueueDelayed(m) \/ Fire(m)
    BY <2>1, SendStep, FireStep DEF Mapped
  <2>2. CASE \E c \in Slots : Callback(c)
    BY <2>2, SettleStep, LeaveStep DEF Callback
  <2>3. CASE OnMessage
    BY <1>1, <2>3 DEF OnMessage
  <2>4. CASE Clear \/ Close
    BY <2>4, EndStep DEF Mapped
  <2>5. QED
    BY <1>3, <2>1, <2>2, <2>3, <2>4 DEF Turn
<1>4. CASE UNCHANGED vars
  BY <1>1, <1>4 DEF vars
<1>5. QED
  BY <1>2, <1>3, <1>4 DEF Next

LEMMA InitMapped == Init => Delivery!Init
<1> SUFFICES ASSUME Init PROVE Delivery!Init
  OBVIOUS
<1>1. Elems(queue) = {} /\ delayed = {} /\ inFlight = {} /\ gone = {}
  BY DEF Init, Elems
<1>2. \A m \in Messages : Place(m, Elems(queue) \cup delayed, inFlight, gone) = "unsent"
  BY <1>1 DEF Place
<1>3. QED
  BY <1>2 DEF Delivery!Init

(***************************************************************************)
(* The queue implements MessageDelivery: a message is handed out only      *)
(* while it waits, comes back only from the consumer that had it, and is   *)
(* never seen again once it has been acked, dropped or cleared.            *)
(***************************************************************************)
THEOREM Implements == Spec => ImplementsDelivery
<1>1. Inv /\ Inv' /\ [Next]_vars =>
        [Delivery!Next]_([m \in Messages |->
                             Place(m, Elems(queue) \cup delayed, inFlight, gone)])
  BY NextMapped DEF Mapped
<1>2. QED
  BY <1>1, InitMapped, AlwaysInv, PTL DEF Spec, ImplementsDelivery, Delivery!Spec
===============================================================================
