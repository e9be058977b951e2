------------------------------ MODULE NodesFile -------------------------------
(***************************************************************************)
(* genai-cli: invocations of create-node and delete-node and the csv file  *)
(* they share.  Nodes are started and destroyed by a platform (docker or   *)
(* vast.ai); the file is what the CLI knows of them.                       *)
(*                                                                         *)
(* Every invocation is a process of its own; there are no locks.  Reading, *)
(* appending to and rewriting the small file are one step each.  list      *)
(* changes nothing and shows the rows.  What the platform does and what it *)
(* answers are two things: an invocation may be told of a failure, or be   *)
(* stopped, when the node has been started or destroyed already.           *)
(***************************************************************************)
EXTENDS FiniteSets

CONSTANTS
  Nodes,   \* node ids; one that nobody has any more stands for a fresh one
  Local,   \* the ids of docker containers; the others are instances of vast.ai
  Procs,   \* the invocations that may run at the same time
  None     \* no node

ASSUME NodesFileAssumption == Local \subseteq Nodes /\ None \notin Nodes

VARIABLES
  pc,       \* what each invocation does next
  node,     \* node_id
  nodes_df, \* the rows that delete_node has read
  headed,   \* whether the file has more than 0 bytes
  rows,     \* the nodes in the file
  alive,    \* the nodes that run
  died,     \* the nodes that ended by themselves and have not been destroyed
  unlisted, \* the nodes started by a creation that did not come to write their row
  unremoved \* the nodes destroyed by a deletion that did not come to remove their row

fileVars == <<headed, rows>>
platformVars == <<alive, died>>
historyVars == <<unlisted, unremoved>>
vars == <<pc, node, nodes_df, fileVars, platformVars, historyVars>>

NodesTypeOK ==
  /\ pc \in [Procs -> {"idle", "header", "command", "append", "destroy", "rewrite"}]
  /\ node \in [Procs -> Nodes \cup {None}]
  /\ nodes_df \in [Procs -> SUBSET Nodes]
  /\ headed \in BOOLEAN
  /\ {rows, alive, died, unlisted, unremoved} \subseteq SUBSET Nodes

NodesInit ==
  /\ pc = [i \in Procs |-> "idle"]
  /\ node = [i \in Procs |-> None]
  /\ nodes_df = [i \in Procs |-> {}]
  /\ headed \in BOOLEAN
  /\ rows = {} /\ alive = {} /\ died = {} /\ unlisted = {} /\ unremoved = {}

\* Invocation i goes on at the label l, about n.
Goto(i, l, n) ==
  /\ pc' = [pc EXCEPT ![i] = l]
  /\ node' = [node EXCEPT ![i] = n]

Exit(i) ==
  /\ pc' = [pc EXCEPT ![i] = "idle"]
  /\ node' = [node EXCEPT ![i] = None]
  /\ nodes_df' = [nodes_df EXCEPT ![i] = {}]

\* The size of the file decides whether a header is to be written ...
Start(i) ==
  /\ pc[i] = "idle"
  /\ Goto(i, IF headed THEN "command" ELSE "header", None)
  /\ UNCHANGED <<nodes_df, fileVars, platformVars, historyVars>>

\* ... which truncates what the file has got meanwhile.
WriteHeader(i) ==
  /\ pc[i] = "header"
  /\ Goto(i, "command", None)
  /\ headed' = TRUE
  /\ rows' = {}
  /\ UNCHANGED <<nodes_df, platformVars, historyVars>>

\* A creation that goes on after an error, with no id.
RunNodeRegardless(i, n) ==
  /\ pc[i] = "command"
  /\ Goto(i, "append", None)
  /\ UNCHANGED <<nodes_df, fileVars, platformVars, historyVars>>

\* A node id that neither the platform nor the file nor an invocation has had.
IsFresh(n) ==
  /\ n \notin alive \cup died \cup unlisted \cup unremoved \cup rows
  /\ \A j \in Procs : n \notin nodes_df[j] \cup {node[j]}

\* create_node, as far as the start of the node, ...
RunNode(i, n) ==
  /\ pc[i] = "command"
  /\ IsFresh(n)
  /\ Goto(i, "append", n)
  /\ alive' = alive \cup {n}
  /\ UNCHANGED <<nodes_df, fileVars, died, historyVars>>

\* ... and its row.
AppendRow(i) ==
  /\ pc[i] = "append"
  /\ rows' = rows \cup {node[i]}
  /\ Exit(i)
  /\ UNCHANGED <<headed, platformVars, historyVars>>

\* delete_node: the file is read, and must have the node.
ReadFile(i, n) ==
  /\ pc[i] = "command"
  /\ n \in rows
  /\ nodes_df' = [nodes_df EXCEPT ![i] = rows]
  /\ Goto(i, "destroy", n)
  /\ UNCHANGED <<fileVars, platformVars, historyVars>>

\* A deletion that goes on after an error, the node destroyed or not.
DestroyRegardless(i) ==
  /\ pc[i] = "destroy"
  /\ Goto(i, "rewrite", node[i])
  /\ alive' = alive \ {node[i]}
  /\ UNCHANGED <<nodes_df, died, fileVars, historyVars>>

\* The platform destroys the node and says so.  docker kills what runs only; vast.ai
\* destroys an instance that has ended too, and may say it of one that is gone.
Destroy(i) ==
  /\ pc[i] = "destroy"
  /\ node[i] \in Local => node[i] \in alive
  /\ Goto(i, "rewrite", node[i])
  /\ alive' = alive \ {node[i]}
  /\ died' = died \ {node[i]}
  /\ UNCHANGED <<nodes_df, fileVars, historyVars>>

\* What was read, less the node, replaces the file.
Rewrite(i) ==
  /\ pc[i] = "rewrite"
  /\ rows' = nodes_df[i] \ {node[i]}
  /\ Exit(i)
  /\ UNCHANGED <<headed, platformVars, historyVars>>

\* The platform refuses and changes nothing, the node is not in the file, an argument is
\* missing, or the command is list.
Refused(i) ==
  /\ pc[i] \in {"command", "destroy"}
  /\ Exit(i)
  /\ UNCHANGED <<fileVars, platformVars, historyVars>>

\* The node is started, but docker raises (its answer is late), vast.ai exits with an
\* error, or its output is not recognised: create_node returns without a row.
RunNodeUnrecognised(i, n) ==
  /\ pc[i] = "command"
  /\ IsFresh(n)
  /\ alive' = alive \cup {n}
  /\ unlisted' = unlisted \cup {n}
  /\ Exit(i)
  /\ UNCHANGED <<fileVars, died, unremoved>>

\* The node is destroyed, but the answer is an error or not recognised: delete_node
\* returns and the row stays.
DestroyUnrecognised(i) ==
  /\ pc[i] = "destroy"
  /\ node[i] \in Local => node[i] \in alive
  /\ alive' = alive \ {node[i]}
  /\ died' = died \ {node[i]}
  /\ unremoved' = unremoved \cup {node[i]}
  /\ Exit(i)
  /\ UNCHANGED <<fileVars, unlisted>>

\* The process is stopped after the platform has acted and before the file is written.
Interrupt(i) ==
  /\ \/ pc[i] = "append" /\ unlisted' = unlisted \cup {node[i]} /\ UNCHANGED unremoved
     \/ pc[i] = "rewrite" /\ unremoved' = unremoved \cup {node[i]} /\ UNCHANGED unlisted
  /\ Exit(i)
  /\ UNCHANGED <<fileVars, platformVars>>

\* A node ends by itself.
NodeDies(n) ==
  /\ n \in alive
  /\ alive' = alive \ {n}
  /\ died' = died \cup {n}
  /\ UNCHANGED <<pc, node, nodes_df, fileVars, historyVars>>

NodesNext ==
  \/ \E i \in Procs : \/ Start(i) \/ WriteHeader(i) \/ AppendRow(i) \/ Destroy(i)
                      \/ Rewrite(i) \/ Refused(i) \/ DestroyUnrecognised(i) \/ Interrupt(i)
  \/ \E i \in Procs, n \in Nodes :
       RunNode(i, n) \/ RunNodeUnrecognised(i, n) \/ ReadFile(i, n)
  \/ \E n \in Nodes : NodeDies(n)

NodesSpec == NodesInit /\ [][NodesNext]_vars

-------------------------------------------------------------------------------
(* Properties.                                                             *)

AllIdle == \A i \in Procs : pc[i] = "idle"

\* As long as invocations do not overlap, a node that there is, running or ended, is in
\* the file, unless its creation was stopped or took the platform's answer for a failure;
\* and a row in the file has a node, unless that happened to its deletion.  Whatever a
\* deletion does, it takes no row from a node that stays; what a creation leaves out, no
\* later invocation finds again (cli.py:98, 123, 148).
FileIsExact == AllIdle => alive \cup died = (rows \ unremoved) \cup unlisted

\* genai-cli/README.md: list shows the nodes that the tool created.  Two invocations that
\* overlap lose rows.
CreatedIsListed == AllIdle => alive \ unlisted \subseteq rows
===============================================================================
