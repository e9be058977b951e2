----------------------------- MODULE TaskService ------------------------------
(***************************************************************************)
(* What the web server promises to users about tasks, without dispatcher,  *)
(* providers or connections: a task is filed before its request is         *)
(* answered, only a valid one reaches nodes, only one that did succeeds or *)
(* is answered for, success is for good, and a request is answered once.   *)
(***************************************************************************)
CONSTANTS
  Tasks,
  Sync       \* the tasks whose requests wait for the result

VARIABLES
  record,    \* what GET /v1/tasks/ says of each task, "none" before it is filed
  valid,     \* the filed tasks that nodes take
  reached,   \* the tasks that some node got
  reply      \* the answer to each task's request, "none" before there is one

vars == <<record, valid, reached, reply>>

Init ==
  /\ record = [t \in Tasks |-> "none"]
  /\ valid = {}
  /\ reached = {}
  /\ reply = [t \in Tasks |-> "none"]

\* The request is refused, or fails, and nothing is filed.
TurnAway(t) ==
  /\ record[t] = "none" /\ reply[t] = "none"
  /\ \E r \in {"refused", "raised"} : reply' = [reply EXCEPT ![t] = r]
  /\ UNCHANGED <<record, valid, reached>>

File(t) ==
  /\ record[t] = "none" /\ reply[t] = "none"
  /\ record' = [record EXCEPT ![t] = "PENDING"]
  /\ valid' \in {valid, valid \cup {t}}
  /\ UNCHANGED <<reached, reply>>

Reach(t) ==
  /\ t \in valid
  /\ reached' = reached \cup {t}
  /\ UNCHANGED <<record, valid, reply>>

Succeed(t) ==
  /\ t \in reached
  /\ record' = [record EXCEPT ![t] = "SUCCESS"]
  /\ UNCHANGED <<valid, reached, reply>>

\* A request that waits is answered what a node said, or that none did in time.
Reply(t) ==
  /\ record[t] # "none" /\ reply[t] = "none"
  /\ \E r \in {"accepted", "timeout", "images", "error", "raised"} :
       /\ r = "accepted" <=> t \notin Sync
       /\ r \in {"images", "error", "raised"} => t \in reached
       /\ reply' = [reply EXCEPT ![t] = r]
  /\ UNCHANGED <<record, valid, reached>>

Next == \E t \in Tasks : TurnAway(t) \/ File(t) \/ Reach(t) \/ Succeed(t) \/ Reply(t)

Spec == Init /\ [][Next]_vars
===============================================================================
