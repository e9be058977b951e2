---------------------------- MODULE StorageProofs -----------------------------
(***************************************************************************)
(* The theorems about Storage, for any sets of tokens, user ids, tasks and *)
(* results.                                                                *)
(***************************************************************************)
EXTENDS Storage, TLAPS

StorageInv == TypeOK /\ FiledOnce /\ OneTokenPerUser /\ OwnedByToken

LEMMA IdentifyKeeps ==
  ASSUME StorageInv, NEW k \in Tokens, NEW u \in Users, Identify(k, u)
  PROVE  /\ tokensToUsers' \in [Tokens -> Users \cup {None}]
         /\ tokensToUsers'[k] = u
         /\ \A l \in Tokens : tokensToUsers[l] # None => tokensToUsers'[l] = tokensToUsers[l]
         /\ OneTokenPerUser'
<1>1. u # None
  BY StorageAssumption
<1> QED
  BY <1>1 DEF Identify, StorageInv, TypeOK, OneTokenPerUser

LEMMA RecordsType ==
  ASSUME TypeOK, NEW u \in Users, NEW S \in SUBSET Tasks
  PROVE  Records(u, S) \in SUBSET (Tasks \X (Urls \cup {Pending}))
  BY DEF Records, TypeOK

LEMMA StorageStep == StorageInv /\ [Next]_vars => StorageInv'
<1> SUFFICES ASSUME StorageInv, [Next]_vars PROVE StorageInv'
  OBVIOUS
<1>1. ASSUME NEW k \in Tokens, NEW t \in Tasks, AddTask(k, t) PROVE StorageInv'
  <2>1. PICK u \in Users :
          /\ Identify(k, u)
          /\ usersToTasks' = [usersToTasks EXCEPT ![u][t] = Pending]
          /\ taskToUsers' = [taskToUsers EXCEPT ![t] = u]
    BY <1>1 DEF AddTask
  <2>2. /\ tokensToUsers' \in [Tokens -> Users \cup {None}]
        /\ tokensToUsers'[k] = u
        /\ \A l \in Tokens : tokensToUsers[l] # None => tokensToUsers'[l] = tokensToUsers[l]
        /\ OneTokenPerUser'
    BY <2>1, IdentifyKeeps
  <2>3. TypeOK'
    BY <1>1, <2>1, <2>2 DEF AddTask, StorageInv, TypeOK
  <2>4. /\ \A s \in Tasks \ {t} : taskToUsers'[s] = taskToUsers[s]
        /\ taskToUsers'[t] = u /\ taskToUsers[t] = None
        /\ \A v \in Users, s \in Tasks :
             usersToTasks'[v][s] = IF v = u /\ s = t THEN Pending ELSE usersToTasks[v][s]
    BY <1>1, <2>1 DEF AddTask, StorageInv, TypeOK
  <2>5. FiledOnce'
    BY <2>4, StorageAssumption DEF StorageInv, FiledOnce
  <2>6. OwnedByToken'
    BY <2>2, <2>4, StorageAssumption DEF StorageInv, TypeOK, OwnedByToken
  <2> QED
    BY <2>2, <2>3, <2>5, <2>6 DEF StorageInv
<1>2. ASSUME NEW t \in Tasks, NEW url \in Urls, AddResult(t, url) PROVE StorageInv'
  <2>1. /\ UNCHANGED <<tokensToUsers, taskToUsers, answer>>
        /\ taskToUsers[t] \in Users
        /\ usersToTasks' = [usersToTasks EXCEPT ![taskToUsers[t]][t] = url]
    BY <1>2 DEF AddResult, StorageInv, TypeOK
  <2>2. TypeOK'
    BY <2>1 DEF StorageInv, TypeOK
  <2>3. \A v \in Users, s \in Tasks :
          usersToTasks'[v][s] = IF v = taskToUsers[t] /\ s = t THEN url
                                ELSE usersToTasks[v][s]
    BY <2>1 DEF StorageInv, TypeOK
  <2>4. FiledOnce'
    BY <2>1, <2>3, StorageAssumption DEF StorageInv, FiledOnce
  <2> QED
    BY <2>1, <2>2, <2>4 DEF StorageInv, OneTokenPerUser, OwnedByToken
<1>3. ASSUME NEW k \in Tokens, NEW u \in Users, NEW S \in SUBSET Tasks,
             Identify(k, u), answer' = <<k, Records(u, S)>>,
             UNCHANGED <<usersToTasks, taskToUsers>>
      PROVE  StorageInv'
  <2>1. /\ tokensToUsers' \in [Tokens -> Users \cup {None}]
        /\ \A l \in Tokens : tokensToUsers[l] # None => tokensToUsers'[l] = tokensToUsers[l]
        /\ OneTokenPerUser'
    BY <1>3, IdentifyKeeps
  <2>2. TypeOK'
    BY <1>3, <2>1, RecordsType DEF StorageInv, TypeOK
  <2>3. FiledOnce' /\ OwnedByToken'
    BY <1>3, <2>1 DEF StorageInv, TypeOK, FiledOnce, OwnedByToken
  <2> QED
    BY <2>1, <2>2, <2>3 DEF StorageInv
<1>4. ASSUME NEW k \in Tokens, NEW t \in Tasks, GetTaskInfo(k, t) PROVE StorageInv'
  BY <1>3, <1>4 DEF GetTaskInfo, TaskDataWithVerification
<1>5. ASSUME NEW k \in Tokens, GetTasks(k) PROVE StorageInv'
  BY <1>3, <1>5 DEF GetTasks
<1>6. CASE UNCHANGED vars
  BY <1>6 DEF vars, StorageInv, TypeOK, FiledOnce, OneTokenPerUser, OwnedByToken
<1> QED
  BY <1>1, <1>2, <1>4, <1>5, <1>6 DEF Next

LEMMA StorageInvariance == Spec => []StorageInv
<1>1. Init => StorageInv
  BY StorageAssumption
  DEF Init, StorageInv, TypeOK, FiledOnce, OneTokenPerUser, OwnedByToken
<1> QED
  BY <1>1, StorageStep, PTL DEF Spec

\* Every variable keeps its type; whatever is asked, an answer holds records only.
THEOREM StorageTypeCorrect == Spec => []TypeOK
<1>1. StorageInv => TypeOK
  BY DEF StorageInv
<1> QED
  BY <1>1, StorageInvariance, PTL

\* The dict of UsersStorage and the two of StorageManager agree in every reachable state:
\* a task is filed once, under the id of exactly one token.
THEOREM StorageDictsAgree == Spec => []DictsAgree
<1>1. StorageInv => DictsAgree
  BY DEF StorageInv, DictsAgree
<1> QED
  BY <1>1, StorageInvariance, PTL

-------------------------------------------------------------------------------
(* The refinement of TaskRecords.                                          *)

\* The token with a user id is determined by the id.
LEMMA ChosenToken ==
  ASSUME NEW f, NEW k \in Tokens, NEW u, f[k] = u, \A l \in Tokens : f[l] = u => l = k
  PROVE  (CHOOSE l \in Tokens : f[l] = u) = k
  OBVIOUS

LEMMA OwnerIs ==
  ASSUME StorageInv, NEW t \in Tasks, NEW k \in Tokens,
         taskToUsers[t] # None, tokensToUsers[k] = taskToUsers[t]
  PROVE  owner[t] = k
<1>1. \A l \in Tokens : tokensToUsers[l] = taskToUsers[t] => l = k
  BY DEF StorageInv, OneTokenPerUser
<1>2. (CHOOSE l \in Tokens : tokensToUsers[l] = taskToUsers[t]) = k
  BY <1>1, ChosenToken
<1> QED
  BY <1>2 DEF owner, OwnerOf

\* The owner of a filed task stays, as user ids do.
LEMMA OwnerStays ==
  ASSUME StorageInv, StorageInv', NEW t \in Tasks,
         \A l \in Tokens : tokensToUsers[l] # None => tokensToUsers'[l] = tokensToUsers[l],
         taskToUsers'[t] = taskToUsers[t]
  PROVE  owner'[t] = owner[t]
<1>1. CASE taskToUsers[t] = None
  BY <1>1 DEF owner, OwnerOf
<1>2. CASE taskToUsers[t] # None
  <2>1. PICK k \in Tokens : tokensToUsers[k] = taskToUsers[t]
    BY <1>2 DEF StorageInv, OwnedByToken
  <2>2. tokensToUsers'[k] = taskToUsers'[t]
    BY <1>2, <2>1
  <2>3. \A l \in Tokens : tokensToUsers'[l] = taskToUsers'[t] => l = k
    BY <1>2, <2>2 DEF StorageInv, OneTokenPerUser
  <2>4. (CHOOSE l \in Tokens : tokensToUsers'[l] = taskToUsers'[t]) = k
    BY <2>2, <2>3, ChosenToken
  <2>5. owner[t] = k
    BY <1>2, <2>1, OwnerIs
  <2> QED
    BY <1>2, <2>4, <2>5 DEF owner, OwnerOf
<1> QED
  BY <1>1, <1>2

\* What a query by the user id of k shows are the tasks owned by k.
LEMMA RecordsAreOwned ==
  ASSUME StorageInv, NEW k \in Tokens, NEW u \in Users, Identify(k, u),
         NEW S \in SUBSET Tasks
  PROVE  Records(u, S) = {<<t, result[t]>> : t \in {s \in S : owner[s] = k}}
<1>1. ASSUME NEW t \in Tasks
      PROVE  usersToTasks[u][t] # None <=> owner[t] = k
  <2>1. usersToTasks[u][t] # None <=> taskToUsers[t] = u
    BY DEF StorageInv, FiledOnce
  <2>2. CASE taskToUsers[t] = None
    BY <2>1, <2>2, StorageAssumption DEF owner, OwnerOf
  <2>3. CASE taskToUsers[t] # None
    <3>1. PICK l \in Tokens : tokensToUsers[l] = taskToUsers[t]
      BY <2>3 DEF StorageInv, OwnedByToken
    <3>2. owner[t] = l
      BY <2>3, <3>1, OwnerIs
    <3>3. tokensToUsers[k] = u \/ (tokensToUsers[k] = None /\ tokensToUsers[l] # u)
      BY DEF Identify
    <3>4. l = k <=> tokensToUsers[l] = u
      BY <2>3, <3>1, <3>3, StorageAssumption DEF StorageInv, OneTokenPerUser
    <3> QED
      BY <2>1, <3>1, <3>2, <3>4
  <2> QED
    BY <2>2, <2>3
<1>2. ASSUME NEW t \in Tasks, usersToTasks[u][t] # None
      PROVE  result[t] = usersToTasks[u][t]
  BY <1>2, StorageAssumption DEF StorageInv, FiledOnce, result
<1>3. {s \in S : usersToTasks[u][s] # None} = {s \in S : owner[s] = k}
  BY <1>1
<1> QED
  BY <1>2, <1>3 DEF Records

LEMMA AddTaskPosts ==
  ASSUME StorageInv, StorageInv', NEW k \in Tokens, NEW t \in Tasks, AddTask(k, t)
  PROVE  TaskRecords!Post(k, t)
<1>1. PICK u \in Users :
        /\ Identify(k, u)
        /\ usersToTasks' = [usersToTasks EXCEPT ![u][t] = Pending]
        /\ taskToUsers' = [taskToUsers EXCEPT ![t] = u]
  BY DEF AddTask
<1>2. /\ tokensToUsers'[k] = u
      /\ \A l \in Tokens : tokensToUsers[l] # None => tokensToUsers'[l] = tokensToUsers[l]
  BY <1>1, IdentifyKeeps
<1>3. /\ taskToUsers[t] = None /\ taskToUsers'[t] = u /\ u # None
      /\ usersToTasks'[u][t] = Pending
      /\ \A s \in Tasks \ {t} : taskToUsers'[s] = taskToUsers[s]
      /\ \A v \in Users, s \in Tasks \ {t} : usersToTasks'[v][s] = usersToTasks[v][s]
  BY <1>1, StorageAssumption DEF AddTask, StorageInv, TypeOK
<1>4. owner'[t] = k
  <2>1. \A l \in Tokens : tokensToUsers'[l] = u => l = k
    BY <1>2, <1>3 DEF StorageInv, OneTokenPerUser
  <2>2. (CHOOSE l \in Tokens : tokensToUsers'[l] = u) = k
    BY <1>2, <2>1, ChosenToken
  <2> QED
    BY <1>3, <2>2 DEF owner, OwnerOf
<1>5. \A s \in Tasks \ {t} : owner'[s] = owner[s]
  BY <1>2, <1>3, OwnerStays
<1>6. owner[t] = None
  BY <1>3 DEF owner, OwnerOf
<1>7. owner' = [owner EXCEPT ![t] = k]
  <2>1. owner = [s \in Tasks |-> owner[s]] /\ owner' = [s \in Tasks |-> owner'[s]]
    BY DEF owner
  <2> QED
    BY <1>4, <1>5, <2>1
<1>8. /\ result'[t] = Pending
      /\ \A s \in Tasks \ {t} : result'[s] = result[s]
  BY <1>3 DEF result, StorageInv, TypeOK
<1>9. result' = [result EXCEPT ![t] = Pending]
  BY <1>8 DEF result
<1> QED
  BY <1>6, <1>7, <1>9 DEF AddTask, TaskRecords!Post

LEMMA AddResultStores ==
  ASSUME StorageInv, StorageInv', NEW t \in Tasks, NEW url \in Urls, AddResult(t, url)
  PROVE  TaskRecords!Store(t, url)
<1>1. /\ taskToUsers[t] \in Users
      /\ usersToTasks' = [usersToTasks EXCEPT ![taskToUsers[t]][t] = url]
      /\ UNCHANGED <<tokensToUsers, taskToUsers, answer>>
  BY DEF AddResult, StorageInv, TypeOK
<1>2. owner' = owner
  BY <1>1 DEF owner, OwnerOf
<1>3. owner[t] # None
  <2>1. PICK k \in Tokens : tokensToUsers[k] = taskToUsers[t]
    BY <1>1, StorageAssumption DEF StorageInv, OwnedByToken
  <2> QED
    BY <1>1, <2>1, OwnerIs, StorageAssumption
<1>4. /\ result'[t] = url
      /\ \A s \in Tasks \ {t} : result'[s] = result[s]
  BY <1>1, StorageAssumption DEF result, StorageInv, TypeOK
<1>5. result' = [result EXCEPT ![t] = url]
  BY <1>4 DEF result
<1> QED
  BY <1>1, <1>2, <1>3, <1>5 DEF TaskRecords!Store

LEMMA QueryShows ==
  ASSUME StorageInv, StorageInv', NEW k \in Tokens, NEW u \in Users,
         NEW S \in SUBSET Tasks, Identify(k, u), answer' = <<k, Records(u, S)>>,
         UNCHANGED <<usersToTasks, taskToUsers>>
  PROVE  TaskRecords!Show(k, S)
<1>1. answer' = <<k, {<<t, result[t]>> : t \in {s \in S : owner[s] = k}}>>
  BY RecordsAreOwned
<1>2. \A t \in Tasks : owner'[t] = owner[t]
  BY IdentifyKeeps, OwnerStays
<1>3. owner' = owner /\ result' = result
  BY <1>2 DEF owner, OwnerOf, result
<1> QED
  BY <1>1, <1>3 DEF TaskRecords!Show

\* Behind its user ids the storage keeps the promise of TaskRecords: a token is
\* shown its own tasks with their last results, and no others.
THEOREM StorageImplementsTaskRecords == Spec => ImplementsTaskRecords
<1>1. Init => TaskRecords!Init
  <2> SUFFICES ASSUME Init PROVE TaskRecords!Init
    OBVIOUS
  <2>1. \A t \in Tasks : taskToUsers[t] = None
    BY DEF Init
  <2>2. owner = [t \in Tasks |-> None] /\ result = [t \in Tasks |-> None]
    BY <2>1 DEF owner, OwnerOf, result
  <2> QED
    BY <2>2 DEF Init, TaskRecords!Init
<1>2. StorageInv /\ StorageInv' /\ [Next]_vars => [TaskRecords!Next]_(TaskRecords!vars)
  <2> SUFFICES ASSUME StorageInv, StorageInv', [Next]_vars
               PROVE  [TaskRecords!Next]_(TaskRecords!vars)
    OBVIOUS
  <2>1. ASSUME NEW k \in Tokens, NEW t \in Tasks, AddTask(k, t)
        PROVE  TaskRecords!Next
    BY <2>1, AddTaskPosts DEF TaskRecords!Next
  <2>2. ASSUME NEW t \in Tasks, NEW url \in Urls, AddResult(t, url)
        PROVE  TaskRecords!Next
    BY <2>2, AddResultStores DEF TaskRecords!Next
  <2>3. ASSUME NEW k \in Tokens, NEW t \in Tasks, GetTaskInfo(k, t)
        PROVE  TaskRecords!Next
    <3>1. TaskRecords!Show(k, {t})
      BY <2>3, QueryShows DEF GetTaskInfo, TaskDataWithVerification
    <3> QED
      BY <3>1 DEF TaskRecords!Next
  <2>4. ASSUME NEW k \in Tokens, GetTasks(k) PROVE TaskRecords!Next
    <3>1. TaskRecords!Show(k, Tasks)
      BY <2>4, QueryShows DEF GetTasks
    <3> QED
      BY <3>1 DEF TaskRecords!Next
  <2>5. CASE UNCHANGED vars
    BY <2>5 DEF vars, TaskRecords!vars, owner, OwnerOf, result
  <2> QED
    BY <2>1, <2>2, <2>3, <2>4, <2>5 DEF Next
<1> QED
  BY <1>1, <1>2, StorageInvariance, PTL DEF Spec, ImplementsTaskRecords, TaskRecords!Spec
===============================================================================
