------------------------------- MODULE Storage --------------------------------
(***************************************************************************)
(* storage.py in memory: UsersStorage, which gives each token a user id,   *)
(* and StorageManager, which keeps the tasks of each user and the user of  *)
(* each task, as the HTTP handlers of run.py call them.  All of it runs    *)
(* between two suspensions, so a call is one step.                         *)
(***************************************************************************)
CONSTANTS
  Tokens,   \* what a request may carry as its token, none at all included
  Users,    \* the integers uuid4 may yield
  Tasks,    \* the task ids, uuid4 strings, new with each request
  Urls,     \* the results a node may report
  Pending,  \* the record of a task without result
  None      \* no record, no user

ASSUME StorageAssumption ==
  /\ None \notin Tokens \cup Users
  /\ None \notin Urls \cup {Pending}

VARIABLES
  tokensToUsers,  \* UsersStorage._tokens_to_users
  usersToTasks,   \* StorageManager._users_to_tasks: the records of each user
  taskToUsers,    \* StorageManager._task_to_users
  answer          \* the token of the last query, and the tasks and results returned

vars == <<tokensToUsers, usersToTasks, taskToUsers, answer>>

TypeOK ==
  /\ tokensToUsers \in [Tokens -> Users \cup {None}]
  /\ usersToTasks \in [Users -> [Tasks -> Urls \cup {Pending, None}]]
  /\ taskToUsers \in [Tasks -> Users \cup {None}]
  /\ answer \in (Tokens \cup {None}) \X SUBSET (Tasks \X (Urls \cup {Pending}))

Init ==
  /\ tokensToUsers = [k \in Tokens |-> None]
  /\ usersToTasks = [u \in Users |-> [t \in Tasks |-> None]]
  /\ taskToUsers = [t \in Tasks |-> None]
  /\ answer = <<None, {}>>

\* get_user_id(k) is u: the id k has, or a new one.
Identify(k, u) ==
  \/ tokensToUsers[k] = u /\ UNCHANGED tokensToUsers
  \/ /\ tokensToUsers[k] = None
     /\ \A l \in Tokens : tokensToUsers[l] # u
     /\ tokensToUsers' = [tokensToUsers EXCEPT ![k] = u]

\* The record is filed under the user only.
AddTaskOneWay(k, t) ==
  /\ taskToUsers[t] = None
  /\ \E u \in Users :
       /\ Identify(k, u)
       /\ usersToTasks' = [usersToTasks EXCEPT ![u][t] = Pending]
  /\ UNCHANGED <<taskToUsers, answer>>

\* The task is filed under the token, not the user id.
AddTaskByToken(k, t) ==
  /\ taskToUsers[t] = None
  /\ \E u \in Users :
       /\ Identify(k, u)
       /\ usersToTasks' = [usersToTasks EXCEPT ![u][t] = Pending]
       /\ taskToUsers' = [taskToUsers EXCEPT ![t] = k]
  /\ UNCHANGED answer

\* A request with token k stores its new task t.
AddTask(k, t) ==
  /\ taskToUsers[t] = None
  /\ \E u \in Users :
       /\ Identify(k, u)
       /\ usersToTasks' = [usersToTasks EXCEPT ![u][t] = Pending]
       /\ taskToUsers' = [taskToUsers EXCEPT ![t] = u]
  /\ UNCHANGED answer

\* add_result files the result of a known task, over an earlier one if need be.
AddResult(t, url) ==
  /\ taskToUsers[t] # None
  /\ usersToTasks' = [usersToTasks EXCEPT ![taskToUsers[t]][t] = url]
  /\ UNCHANGED <<tokensToUsers, taskToUsers, answer>>

\* The records of u for the tasks in S; get_tasks returns them all.
Records(u, S) ==
  {<<t, usersToTasks[u][t]>> : t \in {s \in S : usersToTasks[u][s] # None}}

\* get_task_data, which looks the user up and serves no request.
TaskData(t) == IF taskToUsers[t] = None THEN {} ELSE Records(taskToUsers[t], {t})

\* get_task_data_with_verification
TaskDataWithVerification(u, t) == Records(u, {t})

\* A query without verification.
GetTaskInfoUnverified(k, t) ==
  /\ \E u \in Users : Identify(k, u)
  /\ answer' = <<k, TaskData(t)>>
  /\ UNCHANGED <<usersToTasks, taskToUsers>>

\* GET /v1/tasks/{id}: the record, if it is the user's own.
GetTaskInfo(k, t) ==
  /\ \E u \in Users : Identify(k, u) /\ answer' = <<k, TaskDataWithVerification(u, t)>>
  /\ UNCHANGED <<usersToTasks, taskToUsers>>

\* GET /v1/tasks/: all of the user's records.
GetTasks(k) ==
  /\ \E u \in Users : Identify(k, u) /\ answer' = <<k, Records(u, Tasks)>>
  /\ UNCHANGED <<usersToTasks, taskToUsers>>

Next ==
  \/ \E k \in Tokens, t \in Tasks : AddTask(k, t) \/ GetTaskInfo(k, t)
  \/ \E t \in Tasks, url \in Urls : AddResult(t, url)
  \/ \E k \in Tokens : GetTasks(k)

Spec == Init /\ [][Next]_vars

-------------------------------------------------------------------------------
(* Properties.                                                             *)

\* A task is filed under one user, the one that add_result looks up.
FiledOnce ==
  \A t \in Tasks, u \in Users : usersToTasks[u][t] # None <=> taskToUsers[t] = u

\* A user id belongs to one token.
OneTokenPerUser ==
  \A k, l \in Tokens : tokensToUsers[k] # None /\ tokensToUsers[k] = tokensToUsers[l] => k = l

\* A task is filed under the id of some token.
OwnedByToken ==
  \A t \in Tasks : taskToUsers[t] # None => \E k \in Tokens : tokensToUsers[k] = taskToUsers[t]

\* The three dicts agree: whichever of them a handler starts from, a task leads to one
\* record, one user and one token, though ids are given to tokens by posts and queries alike.
DictsAgree == FiledOnce /\ OneTokenPerUser /\ OwnedByToken

OwnerOf(t) ==
  IF taskToUsers[t] = None THEN None
  ELSE CHOOSE k \in Tokens : tokensToUsers[k] = taskToUsers[t]

owner == [t \in Tasks |-> OwnerOf(t)]
result ==
  [t \in Tasks |-> IF taskToUsers[t] = None THEN None
                   ELSE usersToTasks[taskToUsers[t]][t]]

TaskRecords == INSTANCE TaskRecords
  WITH owner <- owner, result <- result, answer <- answer

\* Behind user ids made up as tokens are first seen, by a post or by a query, the
\* storage shows each token its own tasks, all of them and no others.
ImplementsTaskRecords == TaskRecords!Spec
===============================================================================
