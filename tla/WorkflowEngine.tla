---------------------------- MODULE WorkflowEngine ----------------------------
(***************************************************************************)
(* One Workflow object (packages/workflow/src/workflow.ts): the runtime    *)
(* queue, the visited list and the nodes it executes, one clock at a time. *)
(*                                                                         *)
(* Abstractions.  A node's outputs are one unit (inputs[c][p] counts how   *)
(* often p's outputs were appended to c's inputs); an external input is    *)
(* its identifier; the price of a node and the credits of the user are the *)
(* choice between ClockInsufficientCredit and the actions that execute.    *)
(***************************************************************************)
EXTENDS Scheduling

CONSTANTS
    Nodes,      \* node identifiers
    Entry,      \* workflowDef.entry
    NoNode,     \* the null of runtime.current and of expectingInputFor
    Graphs,     \* the functions node -> sequence of targets that may be loaded
    Branching,  \* the ifElse nodes
    InputIds,   \* identifiers of external inputs
    Required,   \* node -> sequence of the external inputs it declares
    Presets     \* the sets of nodes that may be loaded with executed = true

\* Edges join declared nodes and the entry is one of them (_validateDefinition),
\* a workflow has finitely many nodes, and null is not a node.
ASSUME EngineAssumption ==
    /\ IsFiniteSet(Nodes)
    /\ Entry \in Nodes
    /\ NoNode \notin Nodes
    /\ Graphs \subseteq [Nodes -> Seq(Nodes)]
    /\ Branching \subseteq Nodes
    /\ Required \in [Nodes -> Seq(InputIds)]
    /\ Presets \subseteq SUBSET Nodes

VARIABLES
    outgoing,   \* the loaded graph; never changes
    preset,     \* the nodes loaded as executed; never changes
    queue,      \* runtime.queue
    visited,    \* runtime.visited
    current,    \* runtime.current
    finished,   \* runtime.finished
    executed,   \* the nodes whose executed flag is set
    inputs,     \* inputs[c][p]: copies of p's outputs among c's inputs
    stored,     \* externalInputStorage: node -> identifiers present
    expecting,  \* expectingInputFor: <<node, input>>, or NoNode
    result,     \* the status of the last clock
    ran,        \* history: nodes whose logic was entered
    threw,      \* history: the nodes among them whose logic threw
    took        \* history: the children the engine chose when a node ran

graph   == <<outgoing, preset>>
runtime == <<queue, visited, current, finished>>
vars    == <<graph, runtime, executed, inputs, stored, expecting, result, ran, threw, took>>

Statuses == {"none", "ok", "waiting_for_input", "insufficient_credit",
             "terminated", "error"}
-------------------------------------------------------------------------------
\* The constructor: indexes built, an empty runtime bootstrapped with the entry.
Init ==
    /\ outgoing \in Graphs
    /\ preset \in Presets
    /\ queue = <<Entry>>
    /\ visited = {}
    /\ current = NoNode
    /\ finished = FALSE
    /\ executed = preset
    /\ inputs = [c \in Nodes |-> [p \in Nodes |-> 0]]
    /\ stored = [n \in Nodes |-> {}]
    /\ expecting = NoNode
    /\ result = "none"
    /\ ran = {}
    /\ threw = {}
    /\ took = [n \in Nodes |-> <<>>]

\* _getNextMissingExternalInputId: the positions of n's declared inputs that are
\* not stored yet.
Missing(n) == {i \in DOMAIN Required[n] : Required[n][i] \notin stored[n]}

\* ExecutionResult.next of an ifElse node under the outcome cond of its
\* condition; <<>> is the absent next of every other node.
NextIds(n, cond) ==
    LET out == outgoing[n] IN
    IF n \in Branching /\ out # <<>> /\ (cond \/ Len(out) >= 2)
    THEN <<out[IF cond THEN 1 ELSE 2]>>
    ELSE <<>>

\* Mutant of AllowedNextIds: the branch an ifElse node names is not applied.
AllChildren(n, cond) == outgoing[n]

\* The children _scheduleChildren lets run.
AllowedNextIds(n, cond) ==
    IF NextIds(n, cond) # <<>> THEN NextIds(n, cond) ELSE outgoing[n]

\* A clock that gets past its first checks: the head n leaves the queue and is
\* current and visited (_dequeueAndMark).
Dequeue(n) ==
    /\ ~finished
    /\ queue # <<>>
    /\ n = Head(queue)
    /\ visited' = visited \cup {n}
    /\ UNCHANGED graph

\* Mutant of PutBack: the node is not put back.
PutBackLost(n) ==
    /\ queue' = Tail(queue)
    /\ current' = NoNode
    /\ UNCHANGED <<finished, executed, inputs, stored, ran, threw, took>>

\* queue.unshift(n); current = null.
PutBack(n) ==
    /\ queue' = queue
    /\ current' = NoNode
    /\ UNCHANGED <<finished, executed, inputs, stored, ran, threw, took>>

\* Mutant of Leave: a finished run is not marked.
LeaveUnmarked(n, q) ==
    /\ queue' = q
    /\ finished' = FALSE
    /\ current' = n

\* The queue after the clock of n; an empty one ends the run (_finalizeIfPossible).
Leave(n, q) ==
    /\ queue' = q
    /\ finished' = (q = <<>>)
    /\ current' = IF q = <<>> THEN NoNode ELSE n
-------------------------------------------------------------------------------
\* clock() of a node with an external input still to come: it asks for the first.
ClockWaiting(n) ==
    /\ Dequeue(n)
    /\ PutBack(n)
    /\ \E i \in Missing(n) :
          /\ \A j \in Missing(n) : i <= j
          /\ expecting' = <<n, Required[n][i]>>
    /\ result' = "waiting_for_input"

\* clock() with fewer credits than the node's estimated cost.
ClockInsufficientCredit(n) ==
    /\ Dequeue(n)
    /\ Missing(n) = {}
    /\ PutBack(n)
    /\ result' = "insufficient_credit"
    /\ UNCHANGED expecting

\* clock() of a node already executed: execute() answers NODE_IS_ALREADY_EXECUTED,
\* an error that ends nothing and schedules nothing.
ClockAlreadyExecuted(n) ==
    /\ Dequeue(n)
    /\ Missing(n) = {}
    /\ n \in executed
    /\ Leave(n, Tail(queue))
    /\ result' = "ok"
    /\ UNCHANGED <<executed, inputs, stored, expecting, ran, threw, took>>

\* clock() of a node that throws: _safeRunNode turns it into terminateRun.
ClockTerminated(n) ==
    /\ Dequeue(n)
    /\ Missing(n) = {}
    /\ n \notin executed
    /\ executed' = executed \cup {n}
    /\ ran' = ran \cup {n}
    /\ threw' = threw \cup {n}
    /\ queue' = <<>>
    /\ current' = NoNode
    /\ finished' = TRUE
    /\ result' = "terminated"
    /\ UNCHANGED <<inputs, stored, expecting, took>>

\* clock() of a node that runs: its outputs go to the allowed children and those
\* neither visited nor queued join the queue.
ClockOk(n) ==
    /\ Dequeue(n)
    /\ Missing(n) = {}
    /\ n \notin executed
    /\ \E cond \in BOOLEAN :
        LET allowed == AllowedNextIds(n, cond) IN
        /\ executed' = executed \cup {n}
        /\ ran' = ran \cup {n}
        /\ took' = [took EXCEPT ![n] = allowed]
        /\ inputs' = [c \in Nodes |->
                        [inputs[c] EXCEPT ![n] = @ + Wirings(allowed, c)]]
        /\ \E q \in Scheduled(Tail(queue), visited', allowed) : Leave(n, q)
    /\ result' = "ok"
    /\ UNCHANGED <<stored, expecting, threw>>

\* clock() of a finished workflow: WORKFLOW_IS_ALREADY_EXECUTED.
ClockFinished ==
    /\ finished
    /\ result' = "error"
    /\ UNCHANGED <<graph, runtime, executed, inputs, stored, expecting, ran, threw, took>>

\* The user's input, for the node and identifier the workflow asks for
\* (appendExternalInput; the caller saves the storage and clears the question).
AppendExternalInput ==
    /\ ~finished
    /\ expecting # NoNode
    /\ stored' = [stored EXCEPT ![expecting[1]] = @ \cup {expecting[2]}]
    /\ expecting' = NoNode
    /\ UNCHANGED <<graph, runtime, executed, inputs, result, ran, threw, took>>

\* A clock of node n with enough credits.
Clock(n) ==
    \/ ClockWaiting(n)
    \/ ClockAlreadyExecuted(n)
    \/ ClockTerminated(n)
    \/ ClockOk(n)

Next ==
    \/ \E n \in Nodes : Clock(n) \/ ClockInsufficientCredit(n)
    \/ ClockFinished
    \/ AppendExternalInput

Spec == Init /\ [][Next]_vars

(***************************************************************************)
(* The caller clocks again until the workflow is finished (the loop of a   *)
(* worker), credits are eventually topped up and a question is eventually  *)
(* answered.                                                               *)
(***************************************************************************)
Fairness ==
    /\ WF_vars(\E n \in Nodes : Clock(n))
    /\ WF_vars(AppendExternalInput)

FairSpec == Spec /\ Fairness
-------------------------------------------------------------------------------
TypeOK ==
    /\ outgoing \in Graphs
    /\ preset \in Presets
    /\ queue \in Seq(Nodes)
    /\ visited \in SUBSET Nodes
    /\ current \in Nodes \cup {NoNode}
    /\ finished \in BOOLEAN
    /\ executed \in SUBSET Nodes
    /\ inputs \in [Nodes -> [Nodes -> Nat]]
    /\ stored \in [Nodes -> SUBSET InputIds]
    /\ expecting \in (Nodes \X InputIds) \cup {NoNode}
    /\ result \in Statuses
    /\ ran \in SUBSET Nodes
    /\ threw \in SUBSET ran
    /\ took \in [Nodes -> Seq(Nodes)]

(***************************************************************************)
(* The runtime is coherent: no node is queued twice, only the node that    *)
(* was put back at the head is both queued and visited, everything that    *)
(* ran was visited, and the queue is empty exactly when the run is over,   *)
(* so that the branch of clock() that finds an empty queue is dead.        *)
(***************************************************************************)
QueueCoherent ==
    /\ Distinct(queue)
    /\ \A i \in DOMAIN queue : queue[i] \in visited => i = 1
    /\ ran \subseteq visited
    /\ finished <=> queue = <<>>

(***************************************************************************)
(* A node that has run is never in the queue again, whatever the number of *)
(* paths that lead to it: only a node loaded as executed can be refused    *)
(* with NODE_IS_ALREADY_EXECUTED.                                          *)
(***************************************************************************)
NeverQueuedAgain ==
    /\ Elems(queue) \cap ran = {}
    /\ Elems(queue) \cap executed \subseteq preset

(***************************************************************************)
(* Every node that ran or waits to, except the entry, holds the outputs of *)
(* a parent that ran and chose it, and nothing from a parent that did not: *)
(* what an ifElse node did not choose gets neither data nor a turn from it.*)
(***************************************************************************)
Caused ==
    /\ \A c \in (ran \cup Elems(queue)) \ {Entry} :
          \E p \in ran : inputs[c][p] > 0
    /\ \A c, p \in Nodes : inputs[c][p] > 0 =>
          /\ p \in ran
          /\ c \in Elems(outgoing[p])
          /\ p \in Branching /\ Len(outgoing[p]) >= 2 =>
                \A d \in Nodes : inputs[d][p] > 0 => d = c

(***************************************************************************)
(* Nothing is forgotten: unless a node threw, every child chosen by a node *)
(* that ran has run too, is queued, or was loaded as executed; once the    *)
(* workflow is finished, it has run or was loaded as executed.             *)
(***************************************************************************)
NothingForgotten ==
    threw = {} =>
        \A p \in ran : Elems(took[p]) \subseteq ran \cup preset \cup Elems(queue)

\* A node runs only with every external input it declares in the storage.
InputsBeforeRun == \A n \in ran : Elems(Required[n]) \subseteq stored[n]

(***************************************************************************)
(* A workflow that is clocked has no cycle: of the nodes of any set, one   *)
(* has no edge from the others or from itself.  hasCycle counts nodes and  *)
(* edges, and a definition may have an edge twice.                         *)
(***************************************************************************)
Acyclic ==
    \A S \in (SUBSET Nodes) \ {{}} :
        \E n \in S : \A p \in S : n \notin Elems(outgoing[p])

\* Every edge between nodes raises the distance from the entry by one.
Graded ==
    \E rank \in [Nodes -> 0..Cardinality(Nodes)] :
        /\ rank[Entry] = 0
        /\ \A p \in Nodes : \A c \in Elems(outgoing[p]) : rank[c] = rank[p] + 1

(***************************************************************************)
(* The engine has no join: a node runs when the first of its parents has.  *)
(* When all the paths to a node have the same length, the order of the     *)
(* queue makes up for it: no parent of a node that ran is still to run, so *)
(* a node has the outputs of all its parents when it runs.                 *)
(***************************************************************************)
JoinsWhenGraded ==
    Graded => \A c \in ran, p \in Elems(queue) : c \notin Elems(outgoing[p])

\* The run is over eventually, with credits and answers that keep coming.
EventuallyFinished == <>finished

\* The engine implements the worklist of DagExecution.
Worklist == INSTANCE DagExecution WITH
    children <- [n \in Nodes |-> Elems(outgoing[n])],
    todo     <- Elems(queue),
    done     <- ran,
    over     <- finished

ImplementsWorklist == Worklist!Spec
===============================================================================
