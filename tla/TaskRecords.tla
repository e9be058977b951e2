----------------------------- MODULE TaskRecords ------------------------------
(***************************************************************************)
(* What the task storage promises to users: a task belongs to the token it *)
(* was posted with, and a token is shown its own tasks, all of them, each  *)
(* with the result stored last.                                            *)
(***************************************************************************)
CONSTANTS Tokens, Tasks, Urls, Pending, None

VARIABLES
  owner,   \* the token each task was posted with
  result,  \* the result of each task, Pending before there is one
  answer   \* the token of the last query, with the tasks and results it was shown

vars == <<owner, result, answer>>

Init ==
  /\ owner = [t \in Tasks |-> None]
  /\ result = [t \in Tasks |-> None]
  /\ answer = <<None, {}>>

Post(k, t) ==
  /\ owner[t] = None
  /\ owner' = [owner EXCEPT ![t] = k]
  /\ result' = [result EXCEPT ![t] = Pending]
  /\ UNCHANGED answer

Store(t, r) ==
  /\ owner[t] # None
  /\ result' = [result EXCEPT ![t] = r]
  /\ UNCHANGED <<owner, answer>>

Show(k, S) ==
  /\ answer' = <<k, {<<t, result[t]>> : t \in {u \in S : owner[u] = k}}>>
  /\ UNCHANGED <<owner, result>>

Next ==
  \/ \E k \in Tokens, t \in Tasks : Post(k, t)
  \/ \E t \in Tasks, r \in Urls : Store(t, r)
  \/ \E k \in Tokens : Show(k, Tasks) \/ \E t \in Tasks : Show(k, {t})

Spec == Init /\ [][Next]_vars
===============================================================================
