---------------------------- MODULE MessageDelivery ----------------------------
(***************************************************************************)
(* What IQueue (packages/queue/src/types.ts) promises the workers, with no *)
(* array, no timer and no consumer: where each message is.  A message that *)
(* was handed to a consumer goes back or goes for good; one that has gone, *)
(* by an ack, a nack that drops it, or the queue being cleared or closed,  *)
(* is never handed to anyone again.                                        *)
(***************************************************************************)
CONSTANT Messages

VARIABLE place  \* message -> where it is

Places == {"unsent", "waiting", "handed", "gone"}

In(where) == {m \in Messages : place[m] = where}

\* The messages of S are, from now on, in where.
Move(S, where) == place' = [m \in Messages |-> IF m \in S THEN where ELSE place[m]]

Init == place = [m \in Messages |-> "unsent"]

\* enqueue, with or without a delay.
Send(m) == m \in In("unsent") /\ Move({m}, "waiting")

\* A consumer gets the message.
Deliver(m) == m \in In("waiting") /\ Move({m}, "handed")

\* The consumer hands it back.
GiveBack(m) == m \in In("handed") /\ Move({m}, "waiting")

\* ack, clear, close: any number of messages that were sent.
Forget(S) == S \cap In("unsent") = {} /\ Move(S, "gone")

Next ==
    \/ \E m \in Messages : Send(m) \/ Deliver(m) \/ GiveBack(m)
    \/ \E S \in SUBSET Messages : Forget(S)

Spec == Init /\ [][Next]_place
===============================================================================
