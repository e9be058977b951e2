------------------------------ MODULE MCTsServer ------------------------------
(***************************************************************************)
(* TsServer with two connections of node a and one of node b.              *)
(***************************************************************************)
EXTENDS TsServer, TLC

CONSTANTS a, b, p1, p2, p3, t1, t2, t3, t4, t5, w1, w2, w3

MCIdOf == [p \in Providers |-> IF p = p3 THEN b ELSE a]
MCNodeOf == [w \in Sockets |-> IF w = w3 THEN b ELSE a]

\* The objects of node a are interchangeable, and so are its connections and the tasks.
MCSymmetry ==
  Permutations(Providers \ {p3}) \cup Permutations(Sockets \ {w3}) \cup Permutations(Tasks)
===============================================================================
