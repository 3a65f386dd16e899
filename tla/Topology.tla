------------------------------- MODULE Topology -------------------------------
(***************************************************************************)
(* What a workflow definition must be like for the engine to load and to   *)
(* clock it: the checks of the constructor (workflow.ts,                   *)
(* _validateDefinition), the index it builds of the edges, and the search  *)
(* for cycles that the first clock does (helper.ts, hasCycle).             *)
(*                                                                         *)
(* A definition wf is a record: wf.nodes, a sequence of [id, inputs],      *)
(* where inputs are the identifiers of the external inputs; wf.entry; and  *)
(* wf.edges, a sequence of [from, to].  Its fields have the types that the *)
(* schema of the routes asks for.                                          *)
(***************************************************************************)
EXTENDS Naturals, Sequences, FiniteSets, Functions

Ids(wf) == {wf.nodes[i].id : i \in DOMAIN wf.nodes}

\* NodeDefClass.hasUniqueExternalInputIds
HasUniqueExternalInputIds(node) == IsInjective(node.inputs)

\* _validateDefinition.  An edge from a node to itself is let through.
Valid(wf) ==
    /\ wf.nodes # <<>>
    /\ \A i \in DOMAIN wf.nodes : HasUniqueExternalInputIds(wf.nodes[i])
    /\ \A i, j \in DOMAIN wf.nodes : wf.nodes[i].id = wf.nodes[j].id => i = j
    /\ wf.entry \in Ids(wf)
    /\ \A i \in DOMAIN wf.edges : {wf.edges[i].from, wf.edges[i].to} \subseteq Ids(wf)

\* _buildIndexes: the targets of a node, in the order of the edges, each as often as
\* there are edges.
Outgoing(wf) ==
    [n \in Ids(wf) |->
        LET own == {i \in DOMAIN wf.edges : wf.edges[i].from = n}
            Nth(k) == CHOOSE i \in own : Cardinality({j \in own : j <= i}) = k
        IN  [k \in 1..Cardinality(own) |-> wf.edges[Nth(k)].to]]

\* Mutant of Shifted: a node is visited with the first of its edges, as bfsTraverse does.
ShiftedAtFirst(wf) ==
    LET Into(n) == {i \in DOMAIN wf.edges : wf.edges[i].to = n}
        shifted[k \in Nat] ==
            IF k = 0 THEN {n \in Ids(wf) : Into(n) = {}}
            ELSE shifted[k - 1] \cup
                     {n \in Ids(wf) : \E i \in Into(n) : wf.edges[i].from \in shifted[k - 1]}
    IN  shifted[Len(wf.nodes)]

\* The nodes that hasCycle takes from its queue: those no edge leads to, and then those
\* whose edges all come from nodes taken before, since each of them takes one off the
\* in-degree.
Shifted(wf) ==
    LET Into(n) == {i \in DOMAIN wf.edges : wf.edges[i].to = n}
        shifted[k \in Nat] ==
            IF k = 0 THEN {n \in Ids(wf) : Into(n) = {}}
            ELSE {n \in Ids(wf) : \A i \in Into(n) : wf.edges[i].from \in shifted[k - 1]}
    IN  shifted[Len(wf.nodes)]

\* hasCycle: some node was not visited.
HasCycle(wf) == Cardinality(Shifted(wf)) # Len(wf.nodes)

\* The constructor and _initialize throw at any other definition.
Initializes(wf) == Valid(wf) /\ ~HasCycle(wf)
===============================================================================
