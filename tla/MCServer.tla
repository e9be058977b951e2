------------------------------- MODULE MCServer -------------------------------
(***************************************************************************)
(* Server with two connections of node a and one of node b.                *)
(***************************************************************************)
EXTENDS Server, TLC

CONSTANTS a, b, p1, p2, p3, t1, t2, w1, w2, w3

MCIdOf == [p \in Providers |-> IF p = p3 THEN b ELSE a]
MCNodeOf == [w \in Handlers |-> IF w = w3 THEN b ELSE a]

\* The objects of node a are interchangeable, and so are its connections.
MCSymmetry == Permutations(Providers \ {p3}) \cup Permutations(Handlers \ {w3})

Standard == [prompt |-> "text", model |-> "text", size |-> "null",
             steps |-> "null", extra |-> FALSE]
Comfy == [pipelineData |-> "text", pipelineDependencies |-> "object"]
Query(standard, comfy) ==
  [permitted |-> TRUE, standardPipeline |-> standard, comfyPipeline |-> comfy]

OnlySendable == {Query({}, {Comfy})}
WithUnsendable == OnlySendable \cup {Query({[Standard EXCEPT !.size = "other"]}, {})}

\* One query of each outcome: sent, rejected by the schema, refused, an exception.
Mixed ==
  WithUnsendable \cup {Query({[Standard EXCEPT !.prompt = "empty"]}, {}),
                       Query({[Standard EXCEPT !.model = "missing"]}, {})}

Images == [type |-> "result", status |-> "ready", error |-> FALSE]
Failure == [type |-> "error", status |-> "inProgress", error |-> TRUE]
FailureNoStatus == [type |-> "error", status |-> "none", error |-> TRUE]

AnyAnswer == {Images, Failure}
AnyReport == {Images, Failure, FailureNoStatus}
===============================================================================
