----------------------------- MODULE MCNodesFile ------------------------------
(***************************************************************************)
(* NodesFile for TLC: nodes and invocations are model values.              *)
(***************************************************************************)
EXTENDS NodesFile

CONSTANTS n1, n2, n3, n4, i1, i2
===============================================================================
