----------------------------- MODULE MCDispatcher -----------------------------
(***************************************************************************)
(* Dispatcher on three nodes' worth of objects: node a registers twice (an *)
(* object of a first and of a second registration), node b once.           *)
(***************************************************************************)
EXTENDS Dispatcher, TLC

CONSTANTS a, b, p1, p2, p3, t1, t2, t3, w1, w2

MCIdOf == [p \in Providers |-> IF p = p3 THEN b ELSE a]

\* The two objects of node a are interchangeable, and so are tasks and handlers.
MCSymmetry == Permutations(Tasks) \cup Permutations(Handlers) \cup Permutations({p1, p2})
===============================================================================
