------------------------------ MODULE Scheduling ------------------------------
(***************************************************************************)
(* The queue arithmetic of the workflow engine: what the loop of           *)
(* Workflow._scheduleChildren appends to the runtime queue, and how many   *)
(* copies of a parent's outputs it wires into a child.  Pure operators,    *)
(* shared by the engine (WorkflowEngine) and by the workers that run it.   *)
(***************************************************************************)
EXTENDS Naturals, Sequences, FiniteSets

\* The elements of a runtime queue.
Elems(s) == {s[i] : i \in DOMAIN s}

\* No element occurs twice.
Distinct(s) == \A i, j \in DOMAIN s : s[i] = s[j] => i = j

\* a occurs in s before b does.
Before(s, a, b) == \E k \in DOMAIN s : s[k] = a /\ \A m \in 1..k : s[m] # b

\* The children the loop pushes: allowed, neither visited nor queued.
NewChildren(queue, visited, allowed) == Elems(allowed) \ (visited \cup Elems(queue))

\* The set that holds one sequence: new, in the order of allowed.
InOrderOf(allowed, new) ==
    {f \in [1..Cardinality(new) -> new] :
        \A i, j \in DOMAIN f : i < j => Before(allowed, f[i], f[j])}

\* Mutants of Scheduled: the child is checked against the visited list only; children go
\* to the front of the queue.
ScheduledTwice(queue, visited, allowed) ==
    {queue \o f : f \in InOrderOf(allowed, NewChildren(<<>>, visited, allowed))}

ScheduledInFront(queue, visited, allowed) ==
    {f \o queue : f \in InOrderOf(allowed, NewChildren(queue, visited, allowed))}

(***************************************************************************)
(* The queues the loop may leave behind.  A child is pushed when the loop  *)
(* first meets it (a parallel edge meets it again, already queued), so the *)
(* new children follow the old queue in the order of their first           *)
(* occurrence in the allowed list: there is exactly one such queue.        *)
(***************************************************************************)
Scheduled(queue, visited, allowed) ==
    {queue \o f : f \in InOrderOf(allowed, NewChildren(queue, visited, allowed))}

\* How often the loop wires the parent's outputs into child c.
Wirings(allowed, c) == Cardinality({i \in DOMAIN allowed : allowed[i] = c})
===============================================================================
