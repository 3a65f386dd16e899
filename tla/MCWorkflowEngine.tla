--------------------------- MODULE MCWorkflowEngine ---------------------------
(***************************************************************************)
(* WorkflowEngine on the definitions of four nodes that the engine accepts *)
(* (Topology).  The edges offered go from a lower to a higher node, with   *)
(* at most two edges to the same node and up to three leaving the entry,   *)
(* in every order, back from the third node to the second, and from the    *)
(* last to itself and to a node that is not declared.  The ifElse node,    *)
(* the node with two external inputs and the nodes loaded as executed lie  *)
(* in the middle and at the end of the graph.                              *)
(***************************************************************************)
EXTENDS WorkflowEngine, SequencesExt, Topology

MCRequired == <<<<>>, <<>>, <<"a", "b">>, <<>> >>

\* The edges that leave the nodes, one node after the other.
EdgesOf(targets) ==
    FlattenSeq([n \in 1..4 |->
        [i \in DOMAIN targets[n] |-> [from |-> n, to |-> targets[n][i]]]])

MCNodes == [n \in 1..4 |-> [id |-> n, inputs |-> MCRequired[n]]]

\* Nodes that share an identifier, or ask twice for an input; an entry that is no node.
MCDefinitions ==
    {[nodes |-> MCNodes, entry |-> 1, edges |-> EdgesOf(<<a, b, c, d>>)] :
        a \in BoundedSeq({2, 3, 4}, 3), b \in BoundedSeq({3, 4}, 2),
        c \in BoundedSeq({2, 4}, 1), d \in BoundedSeq({4, 5}, 1)}
    \cup {[nodes |-> nodes, entry |-> entry, edges |-> <<>>] :
            nodes \in {<<>>, MCNodes, [MCNodes EXCEPT ![4].id = 3],
                       [MCNodes EXCEPT ![3].inputs = <<"a", "a">>]},
            entry \in {1, 5}}

MCGraphs == {Outgoing(wf) : wf \in {d \in MCDefinitions : Initializes(d)}}
MCPresets == {{}, {2}, {4}}
===============================================================================
