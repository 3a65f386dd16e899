------------------------------ MODULE RabbitQueue ------------------------------
(***************************************************************************)
(* The queue that separate processes share                                 *)
(* (packages/adapters/src/rabbitmq.ts): one RabbitMQQueue object, the      *)
(* broker behind it, and the callbacks that are running.  The process may  *)
(* have registered a callback (its constructors do so before anything      *)
(* else) or may only enqueue.  Other processes consume from the same queue.*)
(*                                                                         *)
(* An action is the code from one await or event to the next.  Delivery    *)
(* tags count from 1 on every channel, so the same tag names another       *)
(* message on the next one: a delivery is told by its connection and tag.  *)
(***************************************************************************)
EXTENDS Naturals, FiniteSets

CONSTANTS
    Messages,
    MaxFaults,      \* bound: connections refused or lost
    MaxRequeues,    \* bound: messages handed back by a callback
    None            \* no delivery

\* What consume hands out: a message, on a connection, with a tag.
Deliveries == [epoch : Nat, tag : Nat, msg : Messages]

ASSUME RabbitAssumption ==
    MaxFaults \in Nat /\ MaxRequeues \in Nat /\ None \notin Deliveries

VARIABLES
    \* the broker
    waiting,        \* messages in the queue
    delayed,        \* messages in a delay queue
    out,            \* deliveries of this channel that are not settled
    gone,           \* messages it has forgotten
    link,           \* the connection is alive, whatever the object believes
    nextTag,
    \* the fields of the object
    client,         \* how far connect() has come, or what undid it
    epoch,          \* connections so far; this.connection is the last one
    inFlight,       \* message -> the delivery kept for it, or None
    consumer,       \* the connection consumerTag was set on, or 0
    listens,        \* messageCallback is set
    inited,         \* initPromise is resolved
    explicitClose,
    callbacks,      \* deliveries whose callback is running
    \* history
    done,           \* messages a callback of theirs has settled, or thrown on
    crossed,        \* messages settled by a delivery of another connection
    left,           \* messages a callback of theirs returned from without settling them
    closed,         \* close() was not called, called on a consumer, or too early
    faults,
    requeues

queues == <<waiting, delayed, gone>>
channel == <<out, link, nextTag>>
connection == <<epoch, consumer, listens, inited>>
object == <<client, connection, explicitClose>>
history == <<done, crossed, left, closed>>
spent == <<faults, requeues>>
rabbitVars == <<queues, channel, object, inFlight, callbacks, history, spent>>

MessagesOf(D) == {d.msg : d \in D}

\* this.channel is set.
HasChannel == client \in {"setup", "up"}
-------------------------------------------------------------------------------
RabbitInit ==
    /\ waiting = {} /\ delayed = {} /\ out = {} /\ gone = {}
    /\ link = FALSE
    /\ nextTag = 1
    /\ client = "idle"
    /\ epoch = 0
    /\ inFlight = [m \in Messages |-> None]
    /\ consumer = 0
    /\ listens = FALSE
    /\ inited = FALSE
    /\ explicitClose = FALSE
    /\ callbacks = {}
    /\ done = {} /\ crossed = {} /\ left = {}
    /\ closed = "no"
    /\ faults = 0
    /\ requeues = 0

\* init(): the first call that needs the connection starts connect(); a process
\* with a callback is one that began with onMessage.
Initialize ==
    /\ client = "idle"
    /\ client' = "connecting"
    /\ listens' \in BOOLEAN
    /\ UNCHANGED <<queues, channel, epoch, consumer, inited, explicitClose, inFlight,
                   callbacks, history, spent>>

\* amqp.connect resolves: this.connection is set.
Connect ==
    /\ client = "connecting"
    /\ client' = "opened"
    /\ epoch' = epoch + 1
    /\ link' = TRUE
    /\ UNCHANGED <<queues, out, nextTag, consumer, listens, inited, explicitClose, inFlight,
                   callbacks, history, spent>>

\* createChannel resolves: this.channel is set.
CreateChannel ==
    /\ client = "opened"
    /\ link
    /\ client' = "setup"
    /\ UNCHANGED <<queues, channel, connection, explicitClose, inFlight, callbacks,
                   history, spent>>

\* The rest of connect(): queues, prefetch, and setupConsumer unless consumerTag is
\* already set.
SetUp ==
    /\ client = "setup"
    /\ link
    /\ client' = "up"
    /\ consumer' = IF listens /\ consumer = 0 THEN epoch ELSE consumer
    /\ inited' = TRUE
    /\ UNCHANGED <<queues, channel, epoch, listens, explicitClose, inFlight, callbacks,
                   history, spent>>

\* Mutant of HandleDisconnect: consumerTag survives the connection.
HandleDisconnectKeepsTag ==
    /\ client' = "backoff"
    /\ inited' = TRUE
    /\ UNCHANGED <<epoch, consumer, listens, inFlight>>

\* handleDisconnect: the fields are cleared, the in-flight map is not, and the timer is
\* set.  A connect() that was pending has failed by then and its promise is resolved.
HandleDisconnect ==
    /\ client' = "backoff"
    /\ consumer' = 0
    /\ inited' = TRUE
    /\ UNCHANGED <<epoch, listens, inFlight>>

ConnectFails ==
    /\ client = "connecting"
    /\ faults < MaxFaults
    /\ faults' = faults + 1
    /\ HandleDisconnect
    /\ UNCHANGED <<queues, channel, explicitClose, callbacks, history, requeues>>

\* The object notices that the connection is gone: a pending call of connect() fails,
\* or the close event arrives, which close() has it ignore.
Disconnected ==
    /\ ~link
    /\ client \in {"opened", "setup"} \/ (client = "up" /\ ~explicitClose)
    /\ HandleDisconnect
    /\ UNCHANGED <<queues, channel, explicitClose, callbacks, history, spent>>

\* The timer connects again, whatever happened meanwhile.
Timer ==
    /\ client = "backoff"
    /\ client' = "connecting"
    /\ explicitClose' = FALSE
    /\ UNCHANGED <<queues, channel, connection, inFlight, callbacks, history, spent>>
-------------------------------------------------------------------------------
\* The channel ends; the broker puts back what was not settled.
ChannelEnds ==
    /\ link' = FALSE
    /\ out' = {}
    /\ nextTag' = 1
    /\ waiting' = waiting \cup MessagesOf(out)
    /\ UNCHANGED <<delayed, gone>>

LinkLost ==
    /\ link
    /\ faults < MaxFaults
    /\ faults' = faults + 1
    /\ ChannelEnds
    /\ UNCHANGED <<object, inFlight, callbacks, history, requeues>>

\* Mutant of Consumed: the consumer is registered with noAck.
ConsumedNoAck(d) ==
    /\ gone' = gone \cup {d.msg}
    /\ UNCHANGED out

\* The consumer is registered with noAck: false.
Consumed(d) ==
    /\ out' = {d}
    /\ UNCHANGED gone

\* Mutant of Track: the map is left to the callback's end.
TrackLate(d) == UNCHANGED inFlight

\* inFlight.set, over an older delivery of the same message.
Track(d) == inFlight' = [inFlight EXCEPT ![d.msg] = d]

\* prefetch(1): a message comes when the last one is settled.  The callback of consume
\* tracks it and starts the callback.
Deliver(m) ==
    /\ link
    /\ client = "up"
    /\ consumer = epoch
    /\ m \in waiting
    /\ out = {}
    /\ waiting' = waiting \ {m}
    /\ nextTag' = nextTag + 1
    /\ LET d == [epoch |-> epoch, tag |-> nextTag, msg |-> m]
       IN  Consumed(d) /\ Track(d) /\ callbacks' = callbacks \cup {d}
    /\ UNCHANGED <<delayed, link, object, history, spent>>

\* A consumer of another process takes the message and settles it.
TakenElsewhere(m) ==
    /\ m \in waiting
    /\ waiting' = waiting \ {m}
    /\ gone' = gone \cup {m}
    /\ done' = done \cup {m}
    /\ UNCHANGED <<delayed, channel, object, inFlight, callbacks, crossed, left, closed,
                   spent>>

\* The time of m in the delay queue is over.
Expire(m) ==
    /\ m \in delayed
    /\ delayed' = delayed \ {m}
    /\ waiting' = waiting \cup {m}
    /\ UNCHANGED <<gone, channel, object, inFlight, callbacks, history, spent>>

\* enqueue on a channel; without one it throws.  sendToQueue confirms nothing: on a
\* connection that is gone the message is lost.
Enqueue(m) ==
    /\ inited
    /\ HasChannel
    /\ link
    /\ m \notin waiting \cup delayed \cup gone \cup MessagesOf(out)
    /\ \/ waiting' = waiting \cup {m} /\ UNCHANGED delayed
       \/ delayed' = delayed \cup {m} /\ UNCHANGED waiting
    /\ UNCHANGED <<gone, channel, object, inFlight, callbacks, history, spent>>
-------------------------------------------------------------------------------
\* channel.ack or channel.nack with the tag of d, whatever channel d came on.  A tag
\* the broker does not know ends the channel, and nothing listens for its error but
\* the connection.
Tell(d, requeue) ==
    LET hit == {o \in out : o.tag = d.tag}
    IN  IF ~link THEN UNCHANGED <<queues, channel>>
        ELSE IF hit = {} THEN ChannelEnds
        ELSE /\ out' = out \ hit
             /\ waiting' = waiting \cup IF requeue THEN MessagesOf(hit) ELSE {}
             /\ gone' = gone \cup IF requeue THEN {} ELSE MessagesOf(hit)
             /\ UNCHANGED <<delayed, link, nextTag>>

\* What a delivery of an earlier connection would settle on this one.
Crossing(d) == IF d.epoch = epoch THEN {} ELSE {o.msg : o \in {p \in out : p.tag = d.tag}}

\* The callback of d acks or nacks its message: by its identifier, so that what is
\* settled is the delivery the map holds.
Settle(d, requeue) ==
    /\ d \in callbacks
    /\ requeue => requeues < MaxRequeues
    /\ requeues' = IF requeue THEN requeues + 1 ELSE requeues
    /\ callbacks' = callbacks \ {d}
    /\ done' = IF requeue THEN done ELSE done \cup {d.msg}
    /\ IF HasChannel /\ inFlight[d.msg] # None
       THEN /\ Tell(inFlight[d.msg], requeue)
            /\ inFlight' = [inFlight EXCEPT ![d.msg] = None]
            /\ crossed' = crossed \cup Crossing(inFlight[d.msg])
       ELSE UNCHANGED <<queues, channel, inFlight, crossed>>
    /\ UNCHANGED <<object, left, closed, faults>>

\* The callback of d throws: its message is nacked without requeue and stays in the
\* map.
Throw(d) ==
    /\ d \in callbacks
    /\ callbacks' = callbacks \ {d}
    /\ done' = done \cup {d.msg}
    /\ IF HasChannel
       THEN /\ Tell(d, FALSE)
            /\ crossed' = crossed \cup Crossing(d)
       ELSE UNCHANGED <<queues, channel, crossed>>
    /\ UNCHANGED <<object, inFlight, left, closed, spent>>

\* The callback of d returns without ack or nack.
Return(d) ==
    /\ d \in callbacks
    /\ callbacks' = callbacks \ {d}
    /\ left' = left \cup {d.msg}
    /\ UNCHANGED <<queues, channel, object, inFlight, done, crossed, closed, spent>>

\* close() of an object that is set up: nothing is left.
CloseUp ==
    /\ client = "up"
    /\ ChannelEnds
    /\ closed' = "up"
    /\ client' = "closed"
    /\ explicitClose' = TRUE
    /\ UNCHANGED <<connection, inFlight>>

\* close() sooner: connect() fails under it and sets the timer, or there is nothing to
\* close and what is pending goes on.
CloseEarly ==
    /\ closed' = "early"
    /\ explicitClose' = TRUE
    /\ \/ client \in {"opened", "setup"} /\ ChannelEnds /\ HandleDisconnect
       \/ /\ client \in {"connecting", "backoff"}
          /\ UNCHANGED <<queues, channel, client, connection, inFlight>>

\* The process calls close() once, on a signal.
Close ==
    /\ closed = "no"
    /\ CloseUp \/ CloseEarly
    /\ UNCHANGED <<callbacks, done, crossed, left, spent>>

Callback(d) == Throw(d) \/ Return(d) \/ \E requeue \in BOOLEAN : Settle(d, requeue)

Progress == Connect \/ CreateChannel \/ SetUp \/ Disconnected \/ Timer

RabbitNext ==
    \/ Initialize \/ Progress \/ ConnectFails \/ LinkLost \/ Close
    \/ \E m \in Messages : Enqueue(m) \/ Expire(m) \/ Deliver(m) \/ TakenElsewhere(m)
    \/ \E d \in callbacks : Callback(d)

RabbitSpec == RabbitInit /\ [][RabbitNext]_rabbitVars

(***************************************************************************)
(* The broker answers and delivers, timers fire, callbacks come to an end. *)
(* Nothing makes another process consume.                                  *)
(***************************************************************************)
FairRabbitSpec ==
    /\ RabbitSpec
    /\ WF_rabbitVars(Progress)
    /\ WF_rabbitVars(\E m \in Messages : Deliver(m))
    /\ WF_rabbitVars(\E d \in callbacks : Callback(d))
-------------------------------------------------------------------------------
RabbitTypeOK ==
    /\ waiting \in SUBSET Messages
    /\ delayed \in SUBSET Messages
    /\ gone \in SUBSET Messages
    /\ out \in SUBSET Deliveries
    /\ link \in BOOLEAN
    /\ nextTag \in Nat
    /\ client \in {"idle", "connecting", "opened", "setup", "up", "backoff", "closed"}
    /\ epoch \in Nat
    /\ inFlight \in [Messages -> Deliveries \cup {None}]
    /\ consumer \in 0 .. epoch
    /\ listens \in BOOLEAN
    /\ inited \in BOOLEAN
    /\ explicitClose \in BOOLEAN
    /\ callbacks \in SUBSET Deliveries
    /\ done \in SUBSET Messages
    /\ crossed \in SUBSET Messages
    /\ left \in SUBSET Messages
    /\ closed \in {"no", "up", "early"}
    /\ faults \in 0 .. MaxFaults
    /\ requeues \in 0 .. MaxRequeues

(***************************************************************************)
(* The broker forgets a message only when a callback that was given it has *)
(* settled it, or thrown; but for those a callback that outlived its       *)
(* connection settled with an old tag.                                     *)
(***************************************************************************)
NothingLost == gone \subseteq done \cup crossed

(***************************************************************************)
(* With prefetch(1) a delivery that nobody will settle stops the consumer. *)
(* There is none: its callback is still running, or chose not to settle.   *)
(* Reconnecting, redelivery and the acks of callbacks that outlived their  *)
(* connection never leave one behind.                                      *)
(***************************************************************************)
NeverBlocked == \A d \in out : d \in callbacks \/ d.msg \in left

(***************************************************************************)
(* close() is for good once the object had been set up: no timer and no    *)
(* close event brings the connection back.                                 *)
(***************************************************************************)
ClosedForGood == closed = "up" => client = "closed"

(***************************************************************************)
(* However often the connection is lost, and wherever connect() was, the   *)
(* process consumes again: a waiting message is taken up, unless close was *)
(* called or a callback left its delivery unsettled.                       *)
(***************************************************************************)
ConsumesAgain ==
    \A m \in Messages :
        m \in waiting /\ listens ~> \/ m \notin waiting
                                    \/ closed # "no"
                                    \/ MessagesOf(out) \cap left # {}
===============================================================================
