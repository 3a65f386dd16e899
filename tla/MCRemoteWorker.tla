---------------------------- MODULE MCRemoteWorker ----------------------------
(***************************************************************************)
(* RemoteWorker on a workflow of two nodes: the second asks and may throw. *)
(***************************************************************************)
EXTENDS RemoteWorker

MCOutgoing == [n \in Nodes |-> IF n = 1 THEN <<2>> ELSE <<>>]
===============================================================================
