---------------------------- MODULE NodesFileProofs ----------------------------
(***************************************************************************)
(* The theorems about NodesFile: types for any invocations, and what the   *)
(* file says when invocations do not overlap, that is, when there is one.  *)
(***************************************************************************)
EXTENDS NodesFile, TLAPS

\* An invocation that is going to write knows the node it writes about.
KnowsNode ==
  \A i \in Procs : pc[i] \in {"append", "destroy", "rewrite"} => node[i] \in Nodes

TypeInv == NodesTypeOK /\ KnowsNode

LEMMA TypeInvInit == NodesInit => TypeInv
  BY DEF NodesInit, TypeInv, NodesTypeOK, KnowsNode

LEMMA TypeInvStep == TypeInv /\ [NodesNext]_vars => TypeInv'
<1> SUFFICES ASSUME TypeInv, [NodesNext]_vars PROVE TypeInv'
  OBVIOUS
<1> USE DEF TypeInv, NodesTypeOK, KnowsNode, Goto, Exit, fileVars, platformVars, historyVars
<1>1. ASSUME NEW i \in Procs, Start(i) PROVE TypeInv'
  BY <1>1 DEF Start
<1>2. ASSUME NEW i \in Procs, WriteHeader(i) PROVE TypeInv'
  BY <1>2 DEF WriteHeader
<1>3. ASSUME NEW i \in Procs, AppendRow(i) PROVE TypeInv'
  BY <1>3 DEF AppendRow
<1>4. ASSUME NEW i \in Procs, Destroy(i) PROVE TypeInv'
  BY <1>4 DEF Destroy
<1>5. ASSUME NEW i \in Procs, Rewrite(i) PROVE TypeInv'
  BY <1>5 DEF Rewrite
<1>6. ASSUME NEW i \in Procs, Refused(i) PROVE TypeInv'
  BY <1>6 DEF Refused
<1>7. ASSUME NEW i \in Procs, Interrupt(i) PROVE TypeInv'
  BY <1>7 DEF Interrupt
<1>8. ASSUME NEW i \in Procs, NEW n \in Nodes, RunNode(i, n) PROVE TypeInv'
  BY <1>8 DEF RunNode
<1>9. ASSUME NEW i \in Procs, NEW n \in Nodes, ReadFile(i, n) PROVE TypeInv'
  BY <1>9 DEF ReadFile
<1>10. ASSUME NEW n \in Nodes, NodeDies(n) PROVE TypeInv'
  BY <1>10 DEF NodeDies
<1>11. ASSUME NEW i \in Procs, NEW n \in Nodes, RunNodeUnrecognised(i, n) PROVE TypeInv'
  BY <1>11 DEF RunNodeUnrecognised
<1>12. ASSUME NEW i \in Procs, DestroyUnrecognised(i) PROVE TypeInv'
  BY <1>12 DEF DestroyUnrecognised
<1>13. CASE UNCHANGED vars
  BY <1>13 DEF vars
<1> QED
  BY <1>1, <1>2, <1>3, <1>4, <1>5, <1>6, <1>7, <1>8, <1>9, <1>10, <1>11, <1>12, <1>13
     DEF NodesNext

LEMMA TypeInvariance == NodesSpec => []TypeInv
  BY TypeInvInit, TypeInvStep, PTL DEF NodesSpec

\* Every variable keeps its type, whatever the invocations and their overlaps; the file
\* gets no row without a node.
THEOREM NodesTypeCorrect == NodesSpec => []NodesTypeOK
<1>1. TypeInv => NodesTypeOK
  BY DEF TypeInv
<1> QED
  BY <1>1, TypeInvariance, PTL

-------------------------------------------------------------------------------
(* One invocation at a time.                                               *)

\* The nodes there are, and those the file would have them be.
Existing == alive \cup died
Listed == (rows \ unremoved) \cup unlisted

\* What holds of the file while the only invocation, i, is under way.  The two differ by
\* the node of i between the platform's answer and the write; a node that was left out
\* of the file is in no row, and what delete_node has read is still what the file has.
FileInv(i) ==
  /\ ~headed => Existing = {} /\ rows = {} /\ unlisted = {} /\ unremoved = {}
  /\ pc[i] = "header" => ~headed
  /\ pc[i] \notin {"idle", "header"} => headed
  /\ rows \cap unlisted = {}
  /\ pc[i] \in {"idle", "header", "command", "destroy"} => Existing = Listed
  /\ pc[i] = "append" => /\ Existing = Listed \cup {node[i]}
                         /\ node[i] \notin rows \cup unlisted \cup unremoved
  /\ pc[i] = "rewrite" => Existing = Listed \ {node[i]}
  /\ pc[i] \in {"destroy", "rewrite"} => nodes_df[i] = rows /\ node[i] \in rows

LEMMA FileInvInit ==
  ASSUME NEW i, Procs = {i}, NodesInit
  PROVE  FileInv(i)
  BY DEF NodesInit, FileInv, Listed, Existing

LEMMA FileInvStep ==
  ASSUME NEW i, Procs = {i}, TypeInv, FileInv(i), [NodesNext]_vars
  PROVE  FileInv(i)'
<1> USE DEF TypeInv, NodesTypeOK, KnowsNode, FileInv, Listed, Existing, Goto, Exit,
            fileVars, platformVars, historyVars
<1>1. CASE Start(i)
  BY <1>1 DEF Start
<1>2. CASE WriteHeader(i)
  BY <1>2 DEF WriteHeader
<1>3. CASE AppendRow(i)
  BY <1>3 DEF AppendRow
<1>4. CASE Destroy(i)
  BY <1>4 DEF Destroy
<1>5. CASE Rewrite(i)
  BY <1>5 DEF Rewrite
<1>6. CASE Refused(i)
  BY <1>6 DEF Refused
<1>7. CASE Interrupt(i)
  BY <1>7 DEF Interrupt
<1>8. ASSUME NEW n \in Nodes, RunNode(i, n) PROVE FileInv(i)'
  BY <1>8 DEF RunNode, IsFresh
<1>9. ASSUME NEW n \in Nodes, ReadFile(i, n) PROVE FileInv(i)'
  BY <1>9 DEF ReadFile
<1>10. ASSUME NEW n \in Nodes, NodeDies(n) PROVE FileInv(i)'
  BY <1>10 DEF NodeDies
<1>11. ASSUME NEW n \in Nodes, RunNodeUnrecognised(i, n) PROVE FileInv(i)'
  BY <1>11 DEF RunNodeUnrecognised, IsFresh
<1>12. CASE DestroyUnrecognised(i)
  BY <1>12 DEF DestroyUnrecognised
<1>13. CASE UNCHANGED vars
  BY <1>13 DEF vars
<1> QED
  BY <1>1, <1>2, <1>3, <1>4, <1>5, <1>6, <1>7, <1>8, <1>9, <1>10, <1>11, <1>12, <1>13
     DEF NodesNext

\* Invocations that follow one another keep the file exact, whatever nodes end in between
\* and whichever invocations fail, are interrupted or misread the platform's answer.
THEOREM FileStaysExact ==
  ASSUME NEW i, Procs = {i}
  PROVE  NodesSpec => []FileIsExact
<1>1. NodesInit => FileInv(i)
  BY FileInvInit
<1>2. TypeInv /\ FileInv(i) /\ [NodesNext]_vars => FileInv(i)'
  BY FileInvStep
<1>3. FileInv(i) => FileIsExact
  BY DEF FileInv, FileIsExact, AllIdle, Listed, Existing
<1> QED
  BY <1>1, <1>2, <1>3, TypeInvariance, PTL DEF NodesSpec
===============================================================================
