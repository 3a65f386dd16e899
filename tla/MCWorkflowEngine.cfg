SPECIFICATION FairSpec
CONSTANTS
    Nodes = {1, 2, 3, 4}
    Entry = 1
    NoNode = NoNode
    Graphs <- MCGraphs
    Branching = {2}
    InputIds = {"a", "b"}
    Required <- MCRequired
    Presets <- MCPresets
INVARIANTS
    Acyclic
    QueueCoherent
    Caused
    JoinsWhenGraded
PROPERTIES
    EventuallyFinished
    ImplementsWorklist
