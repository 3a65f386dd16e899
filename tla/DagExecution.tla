----------------------------- MODULE DagExecution -----------------------------
(***************************************************************************)
(* What executing a workflow promises, with no queue and no clock: a       *)
(* worklist of nodes.  A node leaves the worklist once, by running (it     *)
(* then offers some of its children), by being skipped because it was      *)
(* loaded as already executed, or because a failing node ends the run.     *)
(* A run that ends without a failure has run everything it was offered.    *)
(***************************************************************************)
CONSTANTS Nodes, Entry

VARIABLES
    children,   \* the graph: node -> set of children; never changes
    preset,     \* the nodes loaded with executed = true; never changes
    todo,       \* nodes offered and not yet dealt with
    done,       \* nodes whose logic has run
    over        \* the run has ended

vars == <<children, preset, todo, done, over>>

Init ==
    /\ children \in [Nodes -> SUBSET Nodes]
    /\ preset \in SUBSET Nodes
    /\ todo = {Entry}
    /\ done = {}
    /\ over = FALSE

\* n runs and offers the set S of its children.
Run(n, S) ==
    /\ ~over
    /\ n \in todo \ (done \cup preset)
    /\ S \subseteq children[n]
    /\ done' = done \cup {n}
    /\ todo' = (todo \ {n}) \cup (S \ done')
    /\ over' = (todo' = {})
    /\ UNCHANGED <<children, preset>>

\* n was already marked executed: it offers nothing.
Skip(n) ==
    /\ ~over
    /\ n \in todo \cap preset
    /\ todo' = todo \ {n}
    /\ over' = (todo' = {})
    /\ UNCHANGED <<children, preset, done>>

\* n runs and fails: the rest of the worklist is given up.
Fail(n) ==
    /\ ~over
    /\ n \in todo \ (done \cup preset)
    /\ done' = done \cup {n}
    /\ todo' = {}
    /\ over' = TRUE
    /\ UNCHANGED <<children, preset>>

Next ==
    \E n \in Nodes :
        \/ \E S \in SUBSET children[n] : Run(n, S)
        \/ Skip(n)
        \/ Fail(n)

Spec == Init /\ [][Next]_vars
===============================================================================
