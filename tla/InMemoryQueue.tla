----------------------------- MODULE InMemoryQueue -----------------------------
(***************************************************************************)
(* The queue of a process that runs server and workers together            *)
(* (packages/queue/src/in_memory.ts).  JavaScript runs one turn at a time: *)
(* an action is a turn, or an iteration of the loop of kick, during which  *)
(* nothing else runs.                                                      *)
(*                                                                         *)
(* Message identifiers are fresh.  A consumer's callback does not touch    *)
(* the queue before its first await, settles its own message at most once, *)
(* and does not throw after it has asked for a requeue; all of this holds  *)
(* of RemoteWorker, whose callbacks never throw.  Kicks that wait in the   *)
(* microtask queue are one: a kick leaves nothing for the next to do.      *)
(***************************************************************************)
EXTENDS Scheduling

CONSTANTS
    Messages,
    MaxConsumers,   \* bound: callbacks registered
    None            \* no message

ASSUME QueueAssumption == MaxConsumers \in Nat /\ None \notin Messages

VARIABLES
    queue,      \* this.queue
    delayed,    \* messages whose timer is running
    inFlight,   \* this.inFlight
    consumers,  \* how many are registered; they are 0 .. consumers - 1
    serving,    \* consumer -> the message it is busy with, or None
    stage,      \* consumer -> what its callback has done with that message
    rrIndex,
    closed,
    kick,       \* no kick is due, one is in the microtask queue, or it runs
    gone        \* history: messages acked, dropped, cleared

hands == <<consumers, serving, stage, rrIndex>>
vars == <<queue, delayed, inFlight, hands, closed, kick, gone>>

Slots == 0 .. MaxConsumers - 1

Registered == {c \in Slots : c < consumers}
Free == {c \in Registered : serving[c] = None}

\* Every message that was ever enqueued.
Sent == Elems(queue) \cup delayed \cup inFlight \cup gone
-------------------------------------------------------------------------------
Init ==
    /\ queue = <<>>
    /\ delayed = {}
    /\ inFlight = {}
    /\ consumers = 0
    /\ serving = [c \in Slots |-> None]
    /\ stage = [c \in Slots |-> "running"]
    /\ rrIndex = 0
    /\ closed = FALSE
    /\ kick = "no"
    /\ gone = {}

\* queueMicrotask(() => this.kick())
Kick == kick' = "due"

\* enqueue without delay.
Enqueue(m) ==
    /\ ~closed
    /\ m \notin Sent
    /\ queue' = Append(queue, m)
    /\ Kick
    /\ UNCHANGED <<delayed, inFlight, hands, closed, gone>>

\* enqueue with a delay: the message is only in the timer.
EnqueueDelayed(m) ==
    /\ ~closed
    /\ m \notin Sent
    /\ delayed' = delayed \cup {m}
    /\ UNCHANGED <<queue, inFlight, hands, closed, kick, gone>>

\* The timer of m fires; a closed queue drops the message.
Fire(m) ==
    /\ m \in delayed
    /\ delayed' = delayed \ {m}
    /\ IF closed
       THEN /\ gone' = gone \cup {m}
            /\ UNCHANGED <<queue, kick>>
       ELSE /\ queue' = Append(queue, m)
            /\ Kick
            /\ UNCHANGED gone
    /\ UNCHANGED <<inFlight, hands, closed>>

OnMessage ==
    /\ ~closed
    /\ consumers < MaxConsumers
    /\ consumers' = consumers + 1
    /\ Kick
    /\ UNCHANGED <<queue, delayed, inFlight, serving, stage, rrIndex, closed, gone>>

\* The microtask runs kick.
StartKick ==
    /\ kick = "due"
    /\ kick' = "running"
    /\ UNCHANGED <<queue, delayed, inFlight, hands, closed, gone>>

\* How far c is from the round-robin pointer.
Distance(c) == (c + consumers - rrIndex) % consumers

\* nextAvailableConsumer
NextAvailable(c) == c \in Free /\ \A d \in Free : Distance(c) <= Distance(d)

\* One iteration of kick: the head of the queue goes to the next free consumer.
Dispatch(c) ==
    /\ kick = "running"
    /\ queue # <<>>
    /\ NextAvailable(c)
    /\ queue' = Tail(queue)
    /\ inFlight' = inFlight \cup {Head(queue)}
    /\ serving' = [serving EXCEPT ![c] = Head(queue)]
    /\ stage' = [stage EXCEPT ![c] = "running"]
    /\ rrIndex' = (c + 1) % consumers
    /\ UNCHANGED <<delayed, consumers, closed, kick, gone>>

StopKick ==
    /\ kick = "running"
    /\ queue = <<>> \/ Free = {}
    /\ kick' = "no"
    /\ UNCHANGED <<queue, delayed, inFlight, hands, closed, gone>>
-------------------------------------------------------------------------------
\* The callback of c has not settled its message yet.
Running(c) == c \in Registered /\ serving[c] # None /\ stage[c] = "running"

\* What the callback of c has done with its message.
Settled(c, how) == stage' = [stage EXCEPT ![c] = how]

\* ack by the callback of c.
Ack(c) ==
    /\ Running(c)
    /\ Settled(c, "acked")
    /\ IF serving[c] \in inFlight
       THEN /\ inFlight' = inFlight \ {serving[c]}
            /\ gone' = gone \cup {serving[c]}
            /\ Kick
       ELSE UNCHANGED <<inFlight, gone, kick>>
    /\ UNCHANGED <<queue, delayed, consumers, serving, rrIndex, closed>>

\* Mutant of Nack: the message is requeued and stays in flight.
NackKeeps(c, requeue) ==
    /\ Running(c)
    /\ Settled(c, "nacked")
    /\ IF serving[c] \in inFlight
       THEN /\ queue' = IF requeue THEN Append(queue, serving[c]) ELSE queue
            /\ UNCHANGED <<inFlight, gone>>
            /\ Kick
       ELSE UNCHANGED <<queue, inFlight, gone, kick>>
    /\ UNCHANGED <<delayed, consumers, serving, rrIndex, closed>>

\* nack by the callback of c.
Nack(c, requeue) ==
    /\ Running(c)
    /\ Settled(c, "nacked")
    /\ IF serving[c] \in inFlight
       THEN /\ inFlight' = inFlight \ {serving[c]}
            /\ queue' = IF requeue THEN Append(queue, serving[c]) ELSE queue
            /\ gone' = IF requeue THEN gone ELSE gone \cup {serving[c]}
            /\ Kick
       ELSE UNCHANGED <<queue, inFlight, gone, kick>>
    /\ UNCHANGED <<delayed, consumers, serving, rrIndex, closed>>

\* Mutant of Release: the freed consumer does not kick.
ReleaseSilently(c) ==
    /\ serving' = [serving EXCEPT ![c] = None]
    /\ UNCHANGED kick

\* The finally of the dispatch: the consumer is free and kicks.
Release(c) ==
    /\ serving' = [serving EXCEPT ![c] = None]
    /\ Kick

\* The callback of c returns, whether it settled its message or not.
Return(c) ==
    /\ c \in Registered \ Free
    /\ Release(c)
    /\ UNCHANGED <<queue, delayed, inFlight, consumers, stage, rrIndex, closed, gone>>

\* Mutant of Throw: the message goes back even when it is no longer in flight.
ThrowAlways(c) ==
    /\ c \in Registered \ Free
    /\ stage[c] # "nacked"
    /\ inFlight' = inFlight \ {serving[c]}
    /\ queue' = Append(queue, serving[c])
    /\ Release(c)
    /\ UNCHANGED <<delayed, consumers, stage, rrIndex, closed, gone>>

\* The callback of c throws: a message still in flight goes back to the queue.
Throw(c) ==
    /\ c \in Registered \ Free
    /\ stage[c] # "nacked"
    /\ IF serving[c] \in inFlight
       THEN /\ inFlight' = inFlight \ {serving[c]}
            /\ queue' = Append(queue, serving[c])
       ELSE UNCHANGED <<queue, inFlight>>
    /\ Release(c)
    /\ UNCHANGED <<delayed, consumers, stage, rrIndex, closed, gone>>
-------------------------------------------------------------------------------
\* purge and clear: the timers keep running, and so do the callbacks.
Clear ==
    /\ queue' = <<>>
    /\ inFlight' = {}
    /\ gone' = gone \cup Elems(queue) \cup inFlight
    /\ UNCHANGED <<delayed, hands, closed, kick>>

\* close: the callbacks that still run find nothing of theirs any more.
Close ==
    /\ ~closed
    /\ closed' = TRUE
    /\ queue' = <<>>
    /\ inFlight' = {}
    /\ gone' = gone \cup Elems(queue) \cup inFlight
    /\ consumers' = 0
    /\ serving' = [c \in Slots |-> None]
    /\ UNCHANGED <<delayed, stage, rrIndex, kick>>

Callback(c) == Ack(c) \/ Return(c) \/ Throw(c) \/ \E requeue \in BOOLEAN : Nack(c, requeue)

\* The turns that other code takes.
Turn ==
    /\ kick # "running"
    /\ \/ \E m \in Messages : Enqueue(m) \/ EnqueueDelayed(m) \/ Fire(m)
       \/ \E c \in Slots : Callback(c)
       \/ OnMessage \/ Clear \/ Close

Pump == StartKick \/ StopKick \/ \E c \in Slots : Dispatch(c)

Next == Pump \/ Turn

Spec == Init /\ [][Next]_vars

(***************************************************************************)
(* The microtask queue is drained and a callback comes to its end.         *)
(***************************************************************************)
FairSpec ==
    /\ Spec
    /\ WF_vars(Pump)
    /\ \A c \in Slots : WF_vars(kick # "running" /\ (Return(c) \/ Throw(c)))
-------------------------------------------------------------------------------
TypeOK ==
    /\ queue \in Seq(Messages)
    /\ delayed \in SUBSET Messages
    /\ inFlight \in SUBSET Messages
    /\ consumers \in 0..MaxConsumers
    /\ serving \in [Slots -> Messages \cup {None}]
    /\ stage \in [Slots -> {"running", "acked", "nacked"}]
    /\ rrIndex \in Slots \cup {0}
    /\ closed \in BOOLEAN
    /\ kick \in {"no", "due", "running"}
    /\ gone \in SUBSET Messages

(***************************************************************************)
(* There is one copy of a message: it waits in the queue, waits in a       *)
(* timer, is in flight, or has gone for good, and no two callbacks that    *)
(* have not settled it work on the same message.                           *)
(***************************************************************************)
OneCopy ==
    /\ Distinct(queue)
    /\ Elems(queue) \cap (delayed \cup inFlight \cup gone) = {}
    /\ delayed \cap (inFlight \cup gone) = {}
    /\ inFlight \cap gone = {}
    /\ \A c, d \in Slots : /\ Running(c) /\ Running(d) /\ serving[c] = serving[d]
                           /\ serving[c] \in inFlight
                           => c = d

(***************************************************************************)
(* No wake-up is lost: while a message waits and a consumer is free, a     *)
(* kick is due.  Nothing else would ever bring the two together.           *)
(***************************************************************************)
NoLostWakeup == queue # <<>> /\ Free # {} => kick # "no"

\* A message in the queue of a queue with consumers is eventually handed out, or
\* dropped by clear or close.
Delivered ==
    \A m \in Messages :
        m \in Elems(queue) /\ consumers > 0 ~> m \notin Elems(queue)

\* Where a message is, for MessageDelivery.
Place(m, waiting, handed, done) ==
    CASE m \in handed -> "handed"
      [] m \in waiting -> "waiting"
      [] m \in done -> "gone"
      [] OTHER -> "unsent"

Delivery == INSTANCE MessageDelivery WITH
    place <- [m \in Messages |-> Place(m, Elems(queue) \cup delayed, inFlight, gone)]

\* The queue delivers as IQueue promises.
ImplementsDelivery == Delivery!Spec
===============================================================================
