---------------------------- MODULE ServerProofs ------------------------------
(***************************************************************************)
(* The theorems about Server.  The server does with the dispatcher what    *)
(* Dispatcher allows, so every theorem of DispatcherProofs holds of the    *)
(* server; and the registered connections, the providers in the dispatcher *)
(* and the stored records agree.                                           *)
(***************************************************************************)
EXTENDS Server, DispatcherProofs

-------------------------------------------------------------------------------
(* The server implements the dispatcher.                                   *)

LEMMA HandlersAreNotNone == \A w \in Handlers : w # None
  BY ConstantsAssumption DEF Callers

\* The steps of a request that the dispatcher has no part in.
Answers(t) ==
  \/ Refuse(t) \/ RequestRaises(t) \/ AddComfyTask(t)
  \/ GenerationReturns(t) \/ GenerationTimeout(t)

\* What Leave does to the dispatcher: nothing, or a provider's connection is lost.
LEMMA LeaveCases ==
  ASSUME ServerTypeOK, NEW w \in Handlers, Leave(w)
  PROVE  \/ UNCHANGED vars
         \/ \E p \in Providers : /\ registered[w] \in Ids
                                 /\ providers[registered[w]] = p
                                 /\ OnConnectionLost(w, p)
<1>1. CASE registered[w] # None /\ providers[registered[w]] # None
  <2>1. registered[w] \in Ids /\ providers[registered[w]] \in Providers
    BY <1>1 DEF ServerTypeOK, TypeOK
  <2>2. OnConnectionLost(w, providers[registered[w]])
    BY <1>1 DEF Leave
  <2> QED
    BY <2>1, <2>2
<1>2. CASE ~(registered[w] # None /\ providers[registered[w]] # None)
  BY <1>2 DEF Leave
<1> QED
  BY <1>1, <1>2

\* What Receive does to the dispatcher: nothing, or a task is finished.
LEMMA ReceiveCases ==
  ASSUME ServerTypeOK, NEW w \in Handlers, NEW t \in Tasks, Receive(w, t)
  PROVE  \/ UNCHANGED vars
         \/ \E p \in Providers : TaskCompleted(p, t) \/ TaskFailed(p, t)
<1>1. registered[w] # None => providers[registered[w]] \in Providers \cup {None}
  BY DEF ServerTypeOK, TypeOK
<1>2. ASSUME NEW m \in NodeReports, Result(w, t, m)
      PROVE  \/ UNCHANGED vars
             \/ \E p \in Providers : TaskCompleted(p, t) \/ TaskFailed(p, t)
  BY <1>1, <1>2 DEF Result
<1>3. ASSUME NEW m \in NodeReports, Error(w, t, m)
      PROVE  \/ UNCHANGED vars
             \/ \E p \in Providers : TaskCompleted(p, t) \/ TaskFailed(p, t)
  BY <1>1, <1>3 DEF Error
<1>4. CASE Unregistered(w)
  BY <1>4 DEF Unregistered
<1> QED
  BY <1>2, <1>3, <1>4 DEF Receive

LEMMA DispatcherStep == ServerTypeOK /\ [ServerNext]_serverVars => [Next]_vars
<1> SUFFICES ASSUME ServerTypeOK, [ServerNext]_serverVars PROVE [Next]_vars
  OBVIOUS
<1>1. ASSUME NEW w \in Handlers, Connect(w) \/ LinkDrops(w) \/ Crash(w)
      PROVE  [Next]_vars
  BY <1>1 DEF Connect, LinkDrops, Crash
<1>2. ASSUME NEW w \in Handlers, Register(w) PROVE [Next]_vars
  <2>1. NodeOf[w] \in Ids
    BY ServerAssumption
  <2> QED
    BY <1>2, <2>1 DEF Register, Next
<1>3. ASSUME NEW w \in Handlers, Disconnect(w) \/ Close(w) PROVE [Next]_vars
  BY <1>3, LeaveCases DEF Disconnect, Close, Next
<1>4. ASSUME NEW w \in Handlers, HandlerEnds(w) PROVE [Next]_vars
  BY <1>4 DEF HandlerEnds, Next
<1>5. ASSUME NEW w \in Handlers, NEW t \in Tasks, Receive(w, t) PROVE [Next]_vars
  BY <1>5, ReceiveCases DEF Next
<1>6. ASSUME NEW t \in Tasks, Answers(t)
      PROVE  [Next]_vars
  BY <1>6 DEF Answers, Refuse, RequestRaises, AddComfyTask, AnsweredAtOnce,
         GenerationReturns, GenerationTimeout
<1>7. ASSUME NEW t \in Tasks, Request(t) \/ Added(t) PROVE [Next]_vars
  BY <1>7 DEF Request, Added, Next
<1>8. ASSUME NEW a \in Tasks \cup Providers, Sent(a) \/ NotSent(a) PROVE [Next]_vars
  BY <1>8 DEF Sent, NotSent, Next
<1>9. CASE Internal
  BY <1>9 DEF Internal, Next
<1>10. CASE ServerQuiescent \/ UNCHANGED serverVars
  BY <1>10 DEF ServerQuiescent, serverVars
<1> QED
  BY <1>1, <1>2, <1>3, <1>4, <1>5, <1>6, <1>7, <1>8, <1>9, <1>10 DEF ServerNext, Answers

-------------------------------------------------------------------------------
(* Types.                                                                  *)

LEMMA RememberType ==
  ASSUME ServerTypeOK, NEW w \in Handlers, Remember(w)
  PROVE  registered' \in [Handlers -> Ids \cup {None}]
  BY ServerAssumption DEF Remember, ServerTypeOK

LEMMA AnswerType ==
  ASSUME ServerTypeOK, NEW t \in Tasks, NEW m \in NodeReports, Answer(t, m)
  PROVE  /\ ready' \in [Tasks -> {"none", "waiting", "set"}]
         /\ message' \in [Tasks -> NodeReports \cup {None}]
  BY DEF Answer, ServerTypeOK

LEMMA ReceiveType ==
  ASSUME ServerTypeOK, NEW w \in Handlers, NEW t \in Tasks, Receive(w, t)
  PROVE  /\ link' \in [Handlers -> {"none", "up", "down"}]
         /\ receiving' \subseteq Handlers
         /\ stored' \in [Tasks -> {"none", "PENDING", "SUCCESS"}]
         /\ ready' \in [Tasks -> {"none", "waiting", "set"}]
         /\ message' \in [Tasks -> NodeReports \cup {None}]
         /\ UNCHANGED <<registered, wsOf, delivered, options, reply>>
<1> DEFINE Types ==
      /\ receiving' \subseteq Handlers
      /\ stored' \in [Tasks -> {"none", "PENDING", "SUCCESS"}]
      /\ ready' \in [Tasks -> {"none", "waiting", "set"}]
      /\ message' \in [Tasks -> NodeReports \cup {None}]
<1>1. /\ link' \in [Handlers -> {"none", "up", "down"}]
      /\ UNCHANGED <<registered, wsOf, delivered, options, reply>>
  BY DEF Receive, ServerTypeOK
<1>2. ASSUME NEW m \in NodeReports, Result(w, t, m) PROVE Types
  BY <1>2, AnswerType DEF Result, ServerTypeOK
<1>3. ASSUME NEW m \in NodeReports, Error(w, t, m) PROVE Types
  BY <1>3, AnswerType DEF Error, ServerTypeOK
<1>4. CASE Unregistered(w)
  BY <1>1, <1>4 DEF Unregistered, ServerTypeOK
<1> QED
  BY <1>1, <1>2, <1>3, <1>4 DEF Receive

LEMMA ServerTypeStep ==
  ServerTypeOK /\ IInv /\ [ServerNext]_serverVars => ServerTypeOK'
<1> SUFFICES ASSUME ServerTypeOK, IInv, [ServerNext]_serverVars PROVE ServerTypeOK'
  OBVIOUS
<1>0. TypeOK'
  BY DispatcherStep, TypeStep DEF ServerTypeOK
<1> USE <1>0 DEF nodeVars, requestVars
<1>1. ASSUME NEW w \in Handlers, Connect(w) \/ LinkDrops(w) \/ Crash(w)
      PROVE  ServerTypeOK'
  BY <1>1 DEF Connect, LinkDrops, Crash, ServerTypeOK
<1>2. ASSUME NEW w \in Handlers, Register(w) PROVE ServerTypeOK'
  BY <1>2, RememberType DEF Register, ServerTypeOK
<1>3. ASSUME NEW w \in Handlers, Disconnect(w) \/ Close(w) PROVE ServerTypeOK'
  BY <1>3 DEF Disconnect, Close, Leave, ServerTypeOK
<1>4. ASSUME NEW w \in Handlers, HandlerEnds(w) PROVE ServerTypeOK'
  BY <1>4 DEF HandlerEnds, ServerTypeOK
<1>5. ASSUME NEW w \in Handlers, NEW t \in Tasks, Receive(w, t) PROVE ServerTypeOK'
  BY <1>5, ReceiveType DEF ServerTypeOK
<1>6. ASSUME NEW t \in Tasks, Answers(t)
      PROVE  ServerTypeOK'
  <2>1. \E r \in Replies : reply' = [reply EXCEPT ![t] = r]
    BY <1>6
    DEF Answers, Refuse, RequestRaises, AddComfyTask, AnsweredAtOnce, GenerationReturns,
        GenerationTimeout, ImageAnswer, Replies
  <2>2. UNCHANGED <<nodeVars, options, stored, message>> /\ ready' = ready
    BY <1>6
    DEF Answers, Refuse, RequestRaises, AddComfyTask, AnsweredAtOnce, GenerationReturns,
        GenerationTimeout
  <2> QED
    BY <2>1, <2>2 DEF ServerTypeOK
<1>7. ASSUME NEW t \in Tasks, Request(t) \/ Added(t) PROVE ServerTypeOK'
  <2>1. CASE Request(t)
    <3>1. PICK q \in Queries : options' = [options EXCEPT ![t] = TaskOptions(q)]
      BY <2>1 DEF Request
    <3>2. TaskOptions(q) \in Options
      BY DEF Options
    <3>3. options' \in [Tasks -> Options \cup {None}]
      BY <3>1, <3>2 DEF ServerTypeOK
    <3> QED
      BY <2>1, <3>3 DEF Request, ServerTypeOK
  <2>2. CASE Added(t)
    BY <2>2 DEF Added, ServerTypeOK, Replies
  <2> QED
    BY <1>7, <2>1, <2>2
<1>8. ASSUME NEW a \in Tasks \cup Providers, Sent(a) \/ NotSent(a) PROVE ServerTypeOK'
  <2>1. CASE Sent(a)
    <3>1. current[a] \in Tasks
      BY <2>1 DEF Sent, SendReturns, EndSend, IInv, TargetInv, Callers
    <3>2. CASE UNCHANGED delivered
      BY <2>1, <3>2 DEF Sent, ServerTypeOK
    <3>3. CASE ~UNCHANGED delivered
      BY <2>1, <3>1, <3>3 DEF Sent, ServerTypeOK
    <3> QED
      BY <3>2, <3>3
  <2>2. CASE NotSent(a)
    BY <2>2 DEF NotSent, ServerTypeOK
  <2> QED
    BY <1>8, <2>1, <2>2
<1>9. CASE Internal
  BY <1>9 DEF Internal, ServerTypeOK
<1>10. CASE ServerQuiescent \/ UNCHANGED serverVars
  BY <1>10 DEF ServerQuiescent, serverVars, ServerTypeOK
<1> QED
  BY <1>1, <1>2, <1>3, <1>4, <1>5, <1>6, <1>7, <1>8, <1>9, <1>10 DEF ServerNext, Answers

\* The types of the server rest on the dispatcher's invariant (what is sent is a
\* task), and its steps are the dispatcher's only while the types hold.
LEMMA ServerBase == ServerSpec => [](ServerTypeOK /\ IInv)
<1>1. ServerInit => ServerTypeOK /\ IInv
  BY InvInit DEF ServerInit, ServerTypeOK, IInv
<1>2. ServerTypeOK /\ IInv /\ [ServerNext]_serverVars => (ServerTypeOK /\ IInv)'
  BY ServerTypeStep, DispatcherStep, InvStep
<1> QED
  BY <1>1, <1>2, PTL DEF ServerSpec

\* Every variable of the server keeps its type, for any constants.
THEOREM ServerTypeCorrect == ServerSpec => []ServerTypeOK
  BY ServerBase, PTL

\* What the server does with the dispatcher, Dispatcher allows: its handlers only
\* call the dispatcher's operations, each where its guard holds.
THEOREM ServerImplementsDispatcher == ServerSpec => Spec
<1>1. ServerInit => Init
  BY DEF ServerInit
<1> QED
  BY <1>1, ServerTypeCorrect, DispatcherStep, PTL DEF ServerSpec, Spec

\* The theorems about the dispatcher carry over, the care of tasks among them: in
\* the server too a task is in the care of one provider at most.
THEOREM ServerTaskHasOneHolder == ServerSpec => []OneHolder
  BY ServerImplementsDispatcher, TaskHasOneHolder

-------------------------------------------------------------------------------
(* Connections.                                                            *)

\* A provider not constructed yet will begin online.
NewIsOnline == \A p \in Providers \ created : online[p]

\* A connection is registered under the id of its node.
OwnId == \A w \in Handlers : registered[w] \in {None, NodeOf[w]}

ConnectionInv == OneConnectionPerNode /\ OnlineIffRegistered /\ NewIsOnline /\ OwnId

\* Neither a registration nor the loss of a connection: providers may leave.
OnlyRemoves ==
  /\ \A i \in Ids : providers'[i] \in {providers[i], None}
  /\ UNCHANGED <<registered, online, created>>

LEMMA OnlyRemovesKeeps ==
  ASSUME ConnectionInv, OnlyRemoves
  PROVE  ConnectionInv'
  BY DEF ConnectionInv, OnlyRemoves, OneConnectionPerNode, OnlineIffRegistered,
         NewIsOnline, OwnId

LEMMA RescheduleRemoves ==
  ASSUME TypeOK, NEW a, NEW at, NEW id, NEW removing, Reschedule(a, at, id, removing)
  PROVE  \A i \in Ids : providers'[i] \in {providers[i], None}
  BY DEF Reschedule, TypeOK

LEMMA InternalRemoves ==
  ASSUME TypeOK, Internal
  PROVE  OnlyRemoves
<1>1. ASSUME NEW p \in Providers, RescheduleNext(p) \/ RescheduleDone(p)
      PROVE  /\ \A i \in Ids : providers'[i] \in {providers[i], None}
             /\ UNCHANGED <<online, created>>
  BY <1>1 DEF RescheduleNext, RescheduleDone, TypeOK
<1>2. ASSUME NEW w \in Handlers, OfflineTimeout(w) \/ ConnectionLostCallback(w)
      PROVE  /\ \A i \in Ids : providers'[i] \in {providers[i], None}
             /\ UNCHANGED <<online, created>>
  BY <1>2, RescheduleRemoves DEF OfflineTimeout, OnClosed, ConnectionLostCallback
<1> QED
  BY <1>1, <1>2 DEF Internal, OnlyRemoves, nodeVars

\* Node i has a provider that is online; those of the other nodes are as before.
Takes(i) ==
  /\ providers'[i] # None /\ online'[providers'[i]]
  /\ \A j \in Ids \ {i} : /\ providers'[j] = providers[j]
                          /\ providers[j] # None =>
                               online'[providers[j]] = online[providers[j]]
  /\ NewIsOnline'

LEMMA RegisterKeeps ==
  ASSUME ServerTypeOK, IInv, ConnectionInv, NEW w \in Handlers, Register(w)
  PROVE  ConnectionInv'
<1> DEFINE i == NodeOf[w]
<1>1. i \in Ids /\ i # None
  BY ServerAssumption, ConstantsAssumption
<1>2. /\ registered'[w] = i
      /\ \A v \in Handlers \ {w} :
           IF registered[v] = i THEN registered'[v] = None
           ELSE registered'[v] = registered[v]
  <2>0. registered \in [Handlers -> Ids \cup {None}] /\ Remember(w)
    BY DEF Register, ServerTypeOK
  <2>1. \A v \in Handlers \ {w} : registered[v] = i => registered'[v] = None
    BY <1>1, <2>0 DEF Remember, ConnectionInv, OneConnectionPerNode
  <2>2. \A v \in Handlers \ {w} : registered[v] # i => registered'[v] = registered[v]
    BY <2>0 DEF Remember
  <2>3. registered'[w] = i
    BY <2>0 DEF Remember
  <2> QED
    BY <2>1, <2>2, <2>3
<1>3. OneConnectionPerNode'
  BY <1>1, <1>2 DEF ConnectionInv, OneConnectionPerNode
<1>4. Takes(i)
  <2>1. CASE RestoreConnection(i)
    <3>1. /\ online' = [online EXCEPT ![providers[i]] = TRUE]
          /\ providers[i] \in Providers /\ providers[i] # None
          /\ UNCHANGED <<providers, created>>
          /\ online \in [Providers -> BOOLEAN]
      BY <1>1, <2>1 DEF RestoreConnection, ServerTypeOK, TypeOK
    <3>2. \A j \in Ids \ {i} : providers[j] # None =>
            providers[j] \in Providers /\ providers[j] # providers[i]
      BY <1>1, <3>1 DEF ServerTypeOK, TypeOK, IInv, MapInv
    <3> QED
      BY <1>1, <3>1, <3>2 DEF Takes, ConnectionInv, NewIsOnline
  <2>2. ASSUME NEW p \in Providers, IdOf[p] = i, AddProvider(p)
        PROVE  Takes(i)
    <3>1. p # None
      BY ConstantsAssumption DEF Callers
    <3> QED
      BY <1>1, <2>2, <3>1
      DEF Takes, AddProvider, ServerTypeOK, TypeOK, ConnectionInv, NewIsOnline
  <2> QED
    BY <2>1, <2>2 DEF Register
<1>5. OnlineIffRegistered'
  <2>1. \E v \in Handlers : registered'[v] = i
    BY <1>2
  <2>2. \A j \in Ids \ {i}, v \in Handlers : registered'[v] = j <=> registered[v] = j
    <3>1. \A j \in Ids : j # None
      BY ConstantsAssumption
    <3> QED
      BY <1>1, <1>2, <3>1 DEF ConnectionInv, OwnId
  <2> QED
    BY <1>4, <2>1, <2>2 DEF Takes, ConnectionInv, OnlineIffRegistered
<1>6. OwnId'
  BY <1>2 DEF ConnectionInv, OwnId
<1> QED
  BY <1>3, <1>4, <1>5, <1>6 DEF Takes, ConnectionInv

LEMMA LeaveKeeps ==
  ASSUME ServerTypeOK, IInv, ConnectionInv, NEW w \in Handlers, Leave(w)
  PROVE  ConnectionInv'
<1>1. registered' = [registered EXCEPT ![w] = None]
  BY DEF Leave
<1>2. registered \in [Handlers -> Ids \cup {None}] /\ None \notin Ids
  BY ConstantsAssumption DEF ServerTypeOK
<1>3. OneConnectionPerNode' /\ OwnId'
  BY <1>1, <1>2 DEF ConnectionInv, OneConnectionPerNode, OwnId
<1>4. CASE registered[w] = None \/ providers[registered[w]] = None
  <2>1. UNCHANGED vars
    BY <1>4 DEF Leave
  <2>2. UNCHANGED <<providers, created, online>>
    BY <2>1 DEF vars, stateVars
  <2> QED
    BY <1>1, <1>2, <1>3, <1>4, <2>2 DEF ConnectionInv, OnlineIffRegistered, NewIsOnline
<1>5. CASE registered[w] # None /\ providers[registered[w]] # None
  <2> DEFINE i == registered[w]
             p == providers[i]
  <2>1. i \in Ids /\ p \in Providers /\ p \in created /\ online[p]
    BY <1>2, <1>5
    DEF ServerTypeOK, TypeOK, IInv, MapInv, ConnectionInv, OnlineIffRegistered
  <2>2. OnConnectionLost(w, p)
    BY <1>5 DEF Leave
  <2>3. /\ online' = [online EXCEPT ![p] = FALSE]
        /\ UNCHANGED <<providers, created>>
    BY <2>1, <2>2 DEF OnConnectionLost
  <2>4. \A j \in Ids \ {i} : providers[j] # None =>
          providers[j] \in Providers /\ providers[j] # p
    BY <2>1 DEF ServerTypeOK, TypeOK, IInv, MapInv
  <2>5. \A v \in Handlers : registered'[v] # i
    BY <1>1, <1>2, <2>1 DEF ConnectionInv, OneConnectionPerNode
  <2>6. \A j \in Ids \ {i}, v \in Handlers : registered'[v] = j <=> registered[v] = j
    BY <1>1, <1>2
  <2>7. online \in [Providers -> BOOLEAN]
    BY DEF ServerTypeOK, TypeOK
  <2>8. OnlineIffRegistered'
    BY <2>1, <2>3, <2>4, <2>5, <2>6, <2>7 DEF ConnectionInv, OnlineIffRegistered
  <2>9. NewIsOnline'
    BY <2>1, <2>3, <2>7 DEF ConnectionInv, NewIsOnline
  <2> QED
    BY <1>3, <2>8, <2>9 DEF ConnectionInv
<1> QED
  BY <1>4, <1>5

LEMMA ConnectionStep ==
  ServerTypeOK /\ IInv /\ ConnectionInv /\ [ServerNext]_serverVars => ConnectionInv'
<1> SUFFICES ASSUME ServerTypeOK, IInv, ConnectionInv, [ServerNext]_serverVars
             PROVE  ConnectionInv'
  OBVIOUS
<1>0. TypeOK
  BY DEF ServerTypeOK
<1> USE DEF nodeVars, requestVars
<1>1. ASSUME NEW w \in Handlers, Connect(w) \/ LinkDrops(w) \/ Crash(w)
      PROVE  OnlyRemoves
  BY <1>1 DEF Connect, LinkDrops, Crash, OnlyRemoves, vars, stateVars
<1>2. ASSUME NEW w \in Handlers, Register(w) PROVE ConnectionInv'
  BY <1>2, RegisterKeeps
<1>3. ASSUME NEW w \in Handlers, Disconnect(w) \/ Close(w) PROVE ConnectionInv'
  BY <1>3, LeaveKeeps DEF Disconnect, Close
<1>4. ASSUME NEW w \in Handlers, HandlerEnds(w) PROVE OnlyRemoves
  BY <1>4 DEF HandlerEnds, HandlerReturns, OnlyRemoves, stateVars
<1>5. ASSUME NEW w \in Handlers, NEW t \in Tasks, Receive(w, t) PROVE OnlyRemoves
  BY <1>5, ReceiveCases
  DEF Receive, TaskCompleted, TaskFailed, Finish, OnlyRemoves, vars, stateVars
<1>6. ASSUME NEW t \in Tasks, Answers(t)
      PROVE  OnlyRemoves
  BY <1>6 DEF Answers, Refuse, RequestRaises, AddComfyTask, AnsweredAtOnce,
         GenerationReturns, GenerationTimeout, OnlyRemoves, vars, stateVars
<1>7. ASSUME NEW t \in Tasks, Request(t) \/ Added(t) PROVE OnlyRemoves
  BY <1>7 DEF Request, AddTask, Added, AddTaskReturns, OnlyRemoves, stateVars
<1>8. ASSUME NEW a \in Tasks \cup Providers, Sent(a) \/ NotSent(a) PROVE OnlyRemoves
  <2>1. CASE Sent(a)
    BY <2>1 DEF Sent, SendReturns, OnlyRemoves, stateVars
  <2>2. CASE NotSent(a)
    BY <1>0, <2>2, RescheduleRemoves DEF NotSent, SendRaises, OnClosed, OnlyRemoves
  <2> QED
    BY <1>8, <2>1, <2>2
<1>9. CASE Internal
  BY <1>0, <1>9, InternalRemoves, OnlyRemovesKeeps
<1>10. CASE ServerQuiescent \/ UNCHANGED serverVars
  <2>1. OnlyRemoves
    BY <1>10 DEF ServerQuiescent, serverVars, OnlyRemoves, vars, stateVars
  <2> QED
    BY <2>1, OnlyRemovesKeeps
<1> QED
  BY <1>1, <1>2, <1>3, <1>4, <1>5, <1>6, <1>7, <1>8, <1>9, <1>10, OnlyRemovesKeeps
  DEF ServerNext, Answers

LEMMA Connections == ServerSpec => []ConnectionInv
<1>1. ServerInit => ConnectionInv
  BY DEF ServerInit, Init, ConnectionInv, OneConnectionPerNode, OnlineIffRegistered,
         NewIsOnline, OwnId
<1> QED
  BY <1>1, ConnectionStep, ServerBase, PTL DEF ServerSpec

\* A node has one registered connection at most, in whatever order its connections
\* come, crash and are replaced.
THEOREM NodeHasOneConnection == ServerSpec => []OneConnectionPerNode
<1>1. ConnectionInv => OneConnectionPerNode
  BY DEF ConnectionInv
<1> QED
  BY <1>1, Connections, PTL

\* A provider in the dispatcher is online exactly while its node is registered.
THEOREM OnlineWhileRegistered == ServerSpec => []OnlineIffRegistered
<1>1. ConnectionInv => OnlineIffRegistered
  BY DEF ConnectionInv
<1> QED
  BY <1>1, Connections, PTL

-------------------------------------------------------------------------------
(* Results.                                                                *)

\* No task becomes completed, and no record of a completed task is touched.
NoneCompleted ==
  \A t \in Tasks : status'[t] = "COMPLETED" =>
    status[t] = "COMPLETED" /\ stored'[t] = stored[t]

LEMMA AddTaskInCompletesNone ==
  ASSUME TypeOK, NEW a, NEW t \in Tasks, AddTaskIn(a, t)
  PROVE  /\ status'[t] # "COMPLETED"
         /\ \A u \in Tasks \ {t} : status'[u] = status[u]
  BY DEF AddTaskIn, Assign, TypeOK

LEMMA InternalCompletesNone ==
  ASSUME TypeOK, Internal
  PROVE  NoneCompleted
<1>1. ASSUME NEW p \in Providers, RescheduleNext(p) \/ RescheduleDone(p)
      PROVE  \A t \in Tasks : status'[t] = "COMPLETED" => status[t] = "COMPLETED"
  <2>1. CASE RescheduleNext(p)
    BY <2>1, AddTaskInCompletesNone DEF RescheduleNext, TypeOK
  <2>2. CASE RescheduleDone(p)
    BY <2>2 DEF RescheduleDone
  <2> QED
    BY <1>1, <2>1, <2>2
<1>2. ASSUME NEW w \in Handlers, OfflineTimeout(w) \/ ConnectionLostCallback(w)
      PROVE  \A t \in Tasks : status'[t] = "COMPLETED" => status[t] = "COMPLETED"
  BY <1>2 DEF OfflineTimeout, ConnectionLostCallback, TypeOK
<1>3. UNCHANGED stored
  BY DEF Internal, requestVars
<1> QED
  BY <1>1, <1>2, <1>3 DEF Internal, NoneCompleted

LEMMA ReceiveKeepsStored ==
  ASSUME ServerTypeOK, CompletedIsStored, NEW w \in Handlers, NEW t \in Tasks,
         Receive(w, t)
  PROVE  CompletedIsStored'
<1>1. stored \in [Tasks -> {"none", "PENDING", "SUCCESS"}] /\ status \in [Tasks -> Statuses]
  BY DEF ServerTypeOK, TypeOK
<1>2. ASSUME NEW m \in NodeReports, Result(w, t, m) PROVE CompletedIsStored'
  <2> DEFINE p == providers[registered[w]]
  <2>1. CASE p = None
    BY <1>2, <2>1 DEF Result, vars, stateVars, CompletedIsStored
  <2>2. CASE p # None
    <3>1. stored' = [stored EXCEPT ![t] = "SUCCESS"]
      BY <1>2, <2>2 DEF Result
    <3>2. UNCHANGED status \/ status' = [status EXCEPT ![t] = "COMPLETED"]
      BY <1>2, <2>2 DEF Result, TaskCompleted, Finish, vars, stateVars
    <3> QED
      BY <1>1, <3>1, <3>2 DEF CompletedIsStored
  <2> QED
    BY <2>1, <2>2
<1>3. ASSUME NEW m \in NodeReports, Error(w, t, m) PROVE CompletedIsStored'
  <2>1. UNCHANGED stored
    BY <1>3 DEF Error
  <2>2. UNCHANGED status \/ status' = [status EXCEPT ![t] = "FAILED"]
    BY <1>3 DEF Error, TaskFailed, Finish, vars, stateVars
  <2> QED
    BY <1>1, <2>1, <2>2 DEF CompletedIsStored
<1>4. CASE Unregistered(w)
  BY <1>4 DEF Unregistered, vars, stateVars, CompletedIsStored
<1> QED
  BY <1>2, <1>3, <1>4 DEF Receive

LEMMA StoredStep ==
  ServerTypeOK /\ CompletedIsStored /\ [ServerNext]_serverVars => CompletedIsStored'
<1> SUFFICES ASSUME ServerTypeOK, CompletedIsStored, [ServerNext]_serverVars
             PROVE  CompletedIsStored'
  OBVIOUS
<1>0. TypeOK /\ stored \in [Tasks -> {"none", "PENDING", "SUCCESS"}]
  BY DEF ServerTypeOK
<1>a. NoneCompleted => CompletedIsStored'
  BY DEF NoneCompleted, CompletedIsStored
<1> USE DEF nodeVars, requestVars
<1>1. ASSUME NEW w \in Handlers, Connect(w) \/ LinkDrops(w) \/ Crash(w)
      PROVE  NoneCompleted
  BY <1>1 DEF Connect, LinkDrops, Crash, NoneCompleted, vars, stateVars
<1>2. ASSUME NEW w \in Handlers, Register(w) PROVE NoneCompleted
  BY <1>2 DEF Register, RestoreConnection, AddProvider, NoneCompleted
<1>3. ASSUME NEW w \in Handlers, Disconnect(w) \/ Close(w) PROVE NoneCompleted
  <2>1. Leave(w) /\ UNCHANGED stored
    BY <1>3 DEF Disconnect, Close, Leave
  <2> QED
    BY <2>1, LeaveCases DEF OnConnectionLost, NoneCompleted, vars, stateVars
<1>4. ASSUME NEW w \in Handlers, HandlerEnds(w) PROVE NoneCompleted
  BY <1>4 DEF HandlerEnds, HandlerReturns, NoneCompleted, stateVars
<1>5. ASSUME NEW w \in Handlers, NEW t \in Tasks, Receive(w, t) PROVE CompletedIsStored'
  BY <1>5, ReceiveKeepsStored
<1>6. ASSUME NEW t \in Tasks, Answers(t)
      PROVE  NoneCompleted
  BY <1>6 DEF Answers, Refuse, RequestRaises, AddComfyTask, AnsweredAtOnce,
         GenerationReturns, GenerationTimeout, NoneCompleted, vars, stateVars
<1>7. ASSUME NEW t \in Tasks, Request(t) \/ Added(t) PROVE NoneCompleted
  <2>1. CASE Request(t)
    BY <1>0, <2>1, AddTaskInCompletesNone DEF Request, AddTask, NoneCompleted
  <2>2. CASE Added(t)
    BY <2>2 DEF Added, AddTaskReturns, NoneCompleted, stateVars
  <2> QED
    BY <1>7, <2>1, <2>2
<1>8. ASSUME NEW a \in Tasks \cup Providers, Sent(a) \/ NotSent(a) PROVE NoneCompleted
  BY <1>8 DEF Sent, SendReturns, NotSent, SendRaises, NoneCompleted, stateVars
<1>9. CASE Internal
  BY <1>0, <1>9, <1>a, InternalCompletesNone
<1>10. CASE ServerQuiescent \/ UNCHANGED serverVars
  <2>1. NoneCompleted
    BY <1>10 DEF ServerQuiescent, serverVars, NoneCompleted, vars, stateVars
  <2> QED
    BY <2>1, <1>a
<1> QED
  BY <1>a, <1>1, <1>2, <1>3, <1>4, <1>5, <1>6, <1>7, <1>8, <1>9, <1>10 DEF ServerNext, Answers

\* What the dispatcher calls completed is stored with its result, however the
\* result found its way to the server.
THEOREM CompletedTaskIsStored == ServerSpec => []CompletedIsStored
<1>1. ServerInit => CompletedIsStored
  BY DEF ServerInit, Init, CompletedIsStored
<1> QED
  BY <1>1, StoredStep, ServerTypeCorrect, PTL DEF ServerSpec

-------------------------------------------------------------------------------
(* What reaches the nodes and what they answer.                            *)

\* A send is of a task that was begun, to a provider that was created.
SendsInv ==
  \A a \in Tasks \cup Providers :
    pc[a] = "sending" => target[a] \in created /\ pc[current[a]] # "idle"

\* Activity a may begin a send; no other does.
SendsOnly(a) ==
  \A b \in (Tasks \cup Providers) \ {a} : pc'[b] = "sending" =>
    pc[b] = "sending" /\ target'[b] = target[b] /\ current'[b] = current[b]

\* What has been created, removed or begun stays so.
Onward ==
  /\ created \subseteq created'
  /\ \A p \in created : Mapped(p)' => Mapped(p)
  /\ \A t \in Tasks : pc[t] # "idle" => pc'[t] # "idle"

LEMMA CallersAreApart ==
  /\ \A t \in Tasks : t \notin Handlers /\ t \notin Providers
  /\ \A w \in Handlers : w \notin Providers /\ w \notin Tasks
  /\ \A a \in Callers : a # None
  BY ConstantsAssumption

LEMMA NoSendKeeps ==
  ASSUME IInv, SendsInv, NEW a, SendsOnly(a), Onward,
         a \in Tasks \cup Providers => pc'[a] # "sending"
  PROVE  SendsInv'
  BY DEF SendsInv, SendsOnly, Onward, IInv, TargetInv, Callers

LEMMA AddTaskSends ==
  ASSUME IInv, SendsInv, NEW a \in Tasks \cup Providers, NEW t \in Tasks,
         AddTaskIn(a, t), pc[t] # "idle" \/ a = t, UNCHANGED <<providers, created>>
  PROVE  SendsInv' /\ Onward
<1>1. pc \in [Callers -> Places] /\ target \in [Callers -> Providers \cup {None}]
      /\ current \in [Callers -> Tasks \cup {None}] /\ a \in Callers
  BY DEF IInv, TypeOK, Callers
<1>2. CASE Eligible = {}
  <2>1. pc' = [pc EXCEPT ![a] = AfterSend(a)] /\ UNCHANGED <<target, current>>
    BY <1>2 DEF AddTaskIn, LeastBusy
  <2>2. AfterSend(a) \notin {"sending", "idle"}
    BY DEF AfterSend
  <2>3. SendsOnly(a) /\ Onward /\ pc'[a] # "sending"
    BY <1>1, <2>1, <2>2 DEF SendsOnly, Onward, Mapped, Callers
  <2> QED
    BY <2>3, NoSendKeeps
<1>3. CASE Eligible # {}
  <2>1. PICK p \in LeastBusy : /\ target' = [target EXCEPT ![a] = p]
                               /\ current' = [current EXCEPT ![a] = t]
                               /\ pc' = [pc EXCEPT ![a] = "sending"]
    BY <1>3 DEF AddTaskIn
  <2>2. p \in created
    <3>1. p \in Providers /\ providers[IdOf[p]] = p /\ IdOf[p] \in Ids /\ p # None
      BY <2>1, CallersAreApart, ConstantsAssumption DEF LeastBusy, Eligible, Mapped, Callers
    <3> QED
      BY <3>1 DEF IInv, MapInv
  <2>3. Onward
    BY <1>1, <2>1 DEF Onward, Mapped, Callers
  <2>4. \A b \in (Tasks \cup Providers) \ {a} : pc[b] = "sending" =>
          current[b] \in Tasks
    BY DEF IInv, TargetInv, Callers
  <2> QED
    BY <1>1, <2>1, <2>2, <2>3, <2>4 DEF SendsInv, Onward, Callers
<1> QED
  BY <1>2, <1>3

LEMMA RescheduleSends ==
  ASSUME IInv, NEW a \in Callers, NEW at, NEW id \in Ids, NEW removing,
         at \notin {"sending", "idle"}, Reschedule(a, at, id, removing),
         UNCHANGED created,
         \A b \in Callers \ {a} : target'[b] = target[b] /\ current'[b] = current[b]
  PROVE  SendsOnly(a) /\ Onward /\ pc'[a] # "sending"
<1>1. pc \in [Callers -> Places] /\ providers \in [Ids -> Providers \cup {None}]
      /\ IdOf \in [Providers -> Ids] /\ created \subseteq Providers
  BY ConstantsAssumption DEF IInv, TypeOK
<1>2. CASE providers[id] = None
  BY <1>1, <1>2, CallersAreApart DEF Reschedule, SendsOnly, Onward, Mapped, Callers
<1>3. ASSUME NEW p \in Providers, providers[id] = p,
             providers' = [providers EXCEPT ![id] = None],
             pc' = [pc EXCEPT ![a] = at, ![p] = "draining"]
      PROVE  SendsOnly(a) /\ Onward /\ pc'[a] # "sending"
  <2>1. \A b \in Callers : pc'[b] \in {pc[b], at, "draining"}
                           /\ (b # a => pc'[b] \in {pc[b], "draining"})
                           /\ (b = a => pc'[b] \in {at, "draining"})
    BY <1>1, <1>3
  <2>2. SendsOnly(a) /\ pc'[a] # "sending"
    BY <2>1 DEF SendsOnly, Callers
  <2>3. \A t \in Tasks : pc[t] # "idle" => pc'[t] # "idle"
    BY <2>1 DEF Callers
  <2>4. \A q \in created : Mapped(q)' => Mapped(q)
    BY <1>1, <1>3, CallersAreApart DEF Mapped, Callers
  <2> QED
    BY <2>2, <2>3, <2>4 DEF Onward
<1> QED
  BY <1>2, <1>3 DEF Reschedule

LEMMA HandlersSend ==
  ASSUME IInv, NEW w \in Handlers,
         \/ \E p \in Providers : OnConnectionLost(w, p)
         \/ OfflineTimeout(w) \/ ConnectionLostCallback(w) \/ HandlerReturns(w)
  PROVE  SendsOnly(w) /\ Onward /\ pc'[w] # "sending"
<1>0. /\ pc \in [Callers -> Places] /\ target \in [Callers -> Providers \cup {None}]
      /\ w \in Callers /\ IdOf \in [Providers -> Ids]
  BY ConstantsAssumption DEF IInv, TypeOK, Callers
<1>1. ASSUME NEW p \in Providers, OnConnectionLost(w, p)
      PROVE  SendsOnly(w) /\ Onward /\ pc'[w] # "sending"
  <2>1. CASE online[p]
    BY <1>0, <1>1, <2>1 DEF OnConnectionLost, SendsOnly, Onward, Mapped, Callers
  <2>2. CASE ~online[p]
    BY <1>0, <1>1, <2>2, RescheduleSends DEF OnConnectionLost
  <2> QED
    BY <2>1, <2>2
<1>2. CASE OfflineTimeout(w)
  <2>1. target[w] \in Providers
    BY <1>0, <1>2 DEF OfflineTimeout, IInv, TargetInv
  <2> QED
    BY <1>0, <1>2, <2>1, RescheduleSends DEF OfflineTimeout, OnClosed
<1>3. CASE ConnectionLostCallback(w)
  <2>1. target[w] \in Providers
    BY <1>0, <1>3 DEF ConnectionLostCallback, IInv, TargetInv
  <2> QED
    BY <1>0, <1>3, <2>1, RescheduleSends DEF ConnectionLostCallback
<1>4. CASE HandlerReturns(w)
  BY <1>0, <1>4 DEF HandlerReturns, SendsOnly, Onward, Mapped, Callers, stateVars
<1> QED
  BY <1>1, <1>2, <1>3, <1>4

LEMMA SendsStep ==
  IInv /\ SendsInv /\ [Next]_vars => SendsInv' /\ Onward
<1> SUFFICES ASSUME IInv, SendsInv, [Next]_vars PROVE SendsInv' /\ Onward
  OBVIOUS
<1>0. /\ pc \in [Callers -> Places] /\ target \in [Callers -> Providers \cup {None}]
      /\ providers \in [Ids -> Providers \cup {None}] /\ IdOf \in [Providers -> Ids]
      /\ created \subseteq Providers
  BY ConstantsAssumption DEF IInv, TypeOK
<1>1. ASSUME NEW t \in Tasks, AddTask(t) PROVE SendsInv' /\ Onward
  BY <1>1, AddTaskSends DEF AddTask
<1>2. ASSUME NEW t \in Tasks, AddTaskReturns(t) PROVE SendsInv' /\ Onward
  <2>1. SendsOnly(t) /\ Onward /\ pc'[t] # "sending"
    BY <1>0, <1>2 DEF AddTaskReturns, SendsOnly, Onward, Mapped, Callers, stateVars
  <2> QED
    BY <2>1, NoSendKeeps
<1>3. ASSUME NEW a \in Tasks \cup Providers, SendReturns(a) PROVE SendsInv' /\ Onward
  <2>1. SendsOnly(a) /\ Onward /\ pc'[a] # "sending"
    BY <1>0, <1>3
    DEF SendReturns, EndSend, AfterSend, SendsOnly, Onward, Mapped, Callers, stateVars
  <2> QED
    BY <2>1, NoSendKeeps
<1>4. ASSUME NEW a \in Tasks \cup Providers, SendRaises(a) PROVE SendsInv' /\ Onward
  <2>1. a \in Callers /\ target[a] \in Providers
    BY <1>4 DEF SendRaises, EndSend, IInv, TargetInv, Callers
  <2>2. AfterSend(a) \notin {"sending", "idle"}
    BY DEF AfterSend
  <2>3. \A b \in Callers \ {a} : target'[b] = target[b] /\ current'[b] = current[b]
    BY <1>4, <2>1 DEF SendRaises, EndSend, IInv, TypeOK
  <2>4. SendsOnly(a) /\ Onward /\ pc'[a] # "sending"
    BY <1>0, <1>4, <2>1, <2>2, <2>3, RescheduleSends DEF SendRaises, OnClosed
  <2> QED
    BY <2>4, NoSendKeeps
<1>5. ASSUME NEW p \in Providers, RescheduleNext(p) PROVE SendsInv' /\ Onward
  <2>1. PICK t \in left[p] : AddTaskIn(p, t)
    BY <1>5 DEF RescheduleNext
  <2>2. t \in Tasks /\ pc[t] # "idle"
    BY <2>1 DEF IInv, TypeOK, LeftInv, FreshInv
  <2> QED
    BY <1>5, <2>1, <2>2, AddTaskSends DEF RescheduleNext
<1>6. ASSUME NEW p \in Providers, RescheduleDone(p) PROVE SendsInv' /\ Onward
  <2>1. pc' = [pc EXCEPT ![p] = "drained"] /\ UNCHANGED <<target, current, created>>
    BY <1>6 DEF RescheduleDone
  <2>2. \A i \in Ids : providers'[i] \in {providers[i], None}
    BY <1>0, <1>6 DEF RescheduleDone
  <2>3. SendsOnly(p) /\ Onward /\ pc'[p] # "sending"
    BY <1>0, <2>1, <2>2, CallersAreApart DEF SendsOnly, Onward, Mapped, Callers
  <2> QED
    BY <2>3, NoSendKeeps
<1>7. ASSUME NEW p \in Providers, AddProvider(p) PROVE SendsInv' /\ Onward
  <2>1. SendsOnly(p) /\ Onward
    BY <1>0, <1>7 DEF AddProvider, frameVars, SendsOnly, Onward, Mapped
  <2>2. pc'[p] # "sending"
    BY <1>7 DEF AddProvider, frameVars, IInv, MapInv
  <2> QED
    BY <2>1, <2>2, NoSendKeeps
<1>8. ASSUME NEW w \in Handlers,
             \/ \E p \in Providers : OnConnectionLost(w, p)
             \/ OfflineTimeout(w) \/ ConnectionLostCallback(w) \/ HandlerReturns(w)
      PROVE  SendsInv' /\ Onward
  BY <1>8, HandlersSend, NoSendKeeps
<1>9. CASE \/ \E i \in Ids : RestoreConnection(i)
           \/ \E p \in Providers, t \in Tasks :
                TaskCompleted(p, t) \/ TaskFailed(p, t) \/ AbortTask(p, t)
           \/ Quiescent \/ UNCHANGED vars
  <2>1. UNCHANGED <<pc, target, current, created, providers>>
    BY <1>9 DEF RestoreConnection, TaskCompleted, TaskFailed, AbortTask, Finish,
                Quiescent, vars, stateVars, frameVars
  <2> QED
    BY <2>1 DEF SendsInv, Onward, Mapped
<1> QED
  BY <1>1, <1>2, <1>3, <1>4, <1>5, <1>6, <1>7, <1>8, <1>9 DEF Next

Reached(t) == \E i \in Ids : t \in delivered[i]

\* The connection inside a provider is one of the provider's node.
WsInv == \A p \in created : wsOf[p] \in Handlers /\ NodeOf[wsOf[p]] = IdOf[p]

\* What reached a node was begun, passed the schema, and came over a provider.
ReachedInv ==
  \A i \in Ids, t \in Tasks : t \in delivered[i] =>
    pc[t] # "idle" /\ Sendable(options[t]) /\ \E p \in created : IdOf[p] = i

\* Only what reached a node is answered by one.
RecordInv ==
  \A t \in Tasks :
    /\ pc[t] = "idle" => stored[t] = "none"
    /\ ready[t] = "set" \/ stored[t] = "SUCCESS" \/ message[t] # None => Reached(t)
    /\ stored[t] # "none" => reply[t] \in {"none", "accepted", "timeout"} \/ Reached(t)

DeliveryInv == SendsInv /\ WsInv /\ ReachedInv /\ RecordInv /\ AnswersAreStored

\* A step of the dispatcher that no record, answer or delivery goes with.
LEMMA DispatcherKeeps ==
  ASSUME TypeOK, DeliveryInv, Onward, SendsInv', UNCHANGED <<delivered, requestVars>>,
         \/ UNCHANGED <<wsOf, created>>
         \/ WsInv'
  PROVE  DeliveryInv'
<1>1. ReachedInv'
  BY DEF Onward, DeliveryInv, ReachedInv, requestVars
<1>2. RecordInv'
  BY DEF Onward, DeliveryInv, RecordInv, Reached, requestVars
<1>3. AnswersAreStored'
  BY DEF Onward, DeliveryInv, AnswersAreStored, requestVars
<1>4. WsInv'
  BY DEF DeliveryInv, WsInv
<1> QED
  BY <1>1, <1>2, <1>3, <1>4 DEF DeliveryInv

LEMMA RegisterDelivers ==
  ASSUME ServerTypeOK, DeliveryInv, NEW w \in Handlers, Register(w)
  PROVE  WsInv' /\ UNCHANGED <<delivered, requestVars>>
<1>1. wsOf \in [Providers -> Handlers \cup {None}] /\ created \subseteq Providers
  BY DEF ServerTypeOK, TypeOK
<1>2. CASE RestoreConnection(NodeOf[w]) /\ UNCHANGED wsOf
  BY <1>2 DEF Register, RestoreConnection, DeliveryInv, WsInv
<1>3. ASSUME NEW p \in Providers, IdOf[p] = NodeOf[w], AddProvider(p),
             wsOf' = [wsOf EXCEPT ![p] = w]
      PROVE  WsInv'
  BY <1>1, <1>3 DEF AddProvider, DeliveryInv, WsInv
<1> QED
  BY <1>2, <1>3 DEF Register, DeliveryInv, WsInv

LEMMA ReceiveDelivers ==
  ASSUME ServerTypeOK, OwnId, DeliveryInv, Onward, SendsInv', UNCHANGED created,
         NEW w \in Handlers, NEW t \in Tasks, Receive(w, t)
  PROVE  DeliveryInv'
<1> DEFINE n == NodeOf[w]
<1>1. /\ UNCHANGED <<wsOf, delivered, options, reply>>
      /\ n \in Ids /\ t \in delivered[n]
      /\ stored \in [Tasks -> {"none", "PENDING", "SUCCESS"}]
      /\ message \in [Tasks -> NodeReports \cup {None}]
      /\ ready \in [Tasks -> {"none", "waiting", "set"}]
  BY ServerAssumption DEF Receive, ServerTypeOK
<1>2. /\ WsInv' /\ ReachedInv' /\ Reached(t)'
      /\ pc[t] # "idle" /\ pc'[t] # "idle"
  BY <1>1 DEF Onward, DeliveryInv, WsInv, ReachedInv, Reached
<1>3. /\ stored' \in {stored, [stored EXCEPT ![t] = "SUCCESS"]}
      /\ \A u \in Tasks \ {t} : message'[u] = message[u] /\ ready'[u] = ready[u]
  <2>1. ASSUME NEW m \in NodeReports, Result(w, t, m) \/ Error(w, t, m) 
        PROVE  /\ stored' \in {stored, [stored EXCEPT ![t] = "SUCCESS"]}
               /\ \A u \in Tasks \ {t} : message'[u] = message[u] /\ ready'[u] = ready[u]
    <3>1. stored' \in {stored, [stored EXCEPT ![t] = "SUCCESS"]}
      BY <2>1 DEF Result, Error
    <3>2. Answer(t, m)
      BY <2>1 DEF Result, Error
    <3> QED
      BY <1>1, <3>1, <3>2 DEF Answer
  <2>2. CASE Unregistered(w)
    BY <2>2 DEF Unregistered
  <2> QED
    BY <2>1, <2>2 DEF Receive
<1>4. RecordInv'
  <2>1. ASSUME NEW u \in Tasks, u # t
        PROVE  /\ stored'[u] = stored[u] /\ ready'[u] = ready[u]
               /\ message'[u] = message[u] /\ reply'[u] = reply[u]
               /\ pc'[u] = "idle" => pc[u] = "idle"
               /\ Reached(u) => Reached(u)'
    BY <1>1, <1>3, <2>1 DEF Onward, Reached
  <2> QED
    BY <1>2, <2>1 DEF DeliveryInv, RecordInv
<1>5. AnswersAreStored'
  <2>1. ASSUME NEW u \in Tasks, u # t,
               message'[u] # None /\ message'[u].type = "result" /\ stored'[u] # "SUCCESS"
        PROVE  \E p \in created' : ~Mapped(p)' /\ u \in delivered'[IdOf[p]]
    <3>1. message[u] = message'[u] /\ stored[u] = stored'[u]
      BY <1>1, <1>3, <2>1
    <3>2. PICK p \in created : ~Mapped(p) /\ u \in delivered[IdOf[p]]
      BY <2>1, <3>1 DEF DeliveryInv, AnswersAreStored
    <3> QED
      BY <1>1, <3>2 DEF Onward
  <2>2. ASSUME message'[t] # None /\ message'[t].type = "result" /\ stored'[t] # "SUCCESS"
        PROVE  \E p \in created' : ~Mapped(p)' /\ t \in delivered'[IdOf[p]]
    <3>1. stored[t] # "SUCCESS"
      BY <1>1, <1>3, <2>2
    <3>2. CASE message'[t] = message[t]
      <4>1. PICK p \in created : ~Mapped(p) /\ t \in delivered[IdOf[p]]
        BY <2>2, <3>1, <3>2 DEF DeliveryInv, AnswersAreStored
      <4> QED
        BY <1>1, <4>1 DEF Onward
    <3>3. CASE message'[t] # message[t]
      <4>1. PICK m \in NodeReports : (Result(w, t, m) \/ Error(w, t, m)) /\ message'[t] = m
        BY <1>1, <3>3 DEF Receive, Result, Error, Unregistered, Answer
      <4>2. Result(w, t, m)
        BY <2>2, <4>1 DEF Error
      <4>3. registered[w] = n /\ providers[n] = None
        <5>1. providers[registered[w]] = None
          BY <1>1, <2>2, <4>2 DEF Result
        <5>2. registered[w] = n
          BY <4>2 DEF Result, OwnId
        <5> QED
          BY <5>1, <5>2
      <4>4. PICK p \in created : IdOf[p] = n
        BY <1>1 DEF DeliveryInv, ReachedInv
      <4>5. p \in Providers /\ p # None
        BY CallersAreApart DEF ServerTypeOK, TypeOK, Callers
      <4>6. ~Mapped(p)
        BY <4>3, <4>4, <4>5 DEF Mapped
      <4> QED
        BY <1>1, <4>4, <4>6 DEF Onward
    <3> QED
      BY <3>2, <3>3
  <2> QED
    BY <2>1, <2>2 DEF AnswersAreStored
<1> QED
  BY <1>2, <1>4, <1>5 DEF DeliveryInv

LEMMA RequestDelivers ==
  ASSUME ServerTypeOK, IInv, DeliveryInv, Onward, SendsInv', NEW t \in Tasks, Request(t)
  PROVE  DeliveryInv'
<1>1. /\ UNCHANGED <<wsOf, created, delivered, ready, message, reply>>
      /\ stored' = [stored EXCEPT ![t] = "PENDING"]
      /\ \A u \in Tasks \ {t} : options'[u] = options[u]
      /\ reply[t] = "none" /\ pc[t] = "idle" /\ AddTaskIn(t, t)
  BY DEF Request, AddTask, nodeVars, ServerTypeOK
<1>2. pc'[t] # "idle"
  BY <1>1 DEF AddTaskIn, AfterSend, IInv, TypeOK, Callers
<1>3. ~Reached(t) /\ message[t] = None /\ ready[t] # "set"
  BY <1>1 DEF DeliveryInv, ReachedInv, RecordInv, Reached
<1>4. WsInv' /\ ReachedInv'
  BY <1>1, <1>3 DEF Onward, DeliveryInv, WsInv, ReachedInv, Reached
<1>5. RecordInv'
  BY <1>1, <1>2, <1>3 DEF Onward, DeliveryInv, RecordInv, Reached, ServerTypeOK
<1>6. AnswersAreStored'
  BY <1>1, <1>3 DEF Onward, DeliveryInv, AnswersAreStored, ServerTypeOK
<1> QED
  BY <1>4, <1>5, <1>6 DEF DeliveryInv

LEMMA AnswersDeliver ==
  ASSUME ServerTypeOK, DeliveryInv, Onward, SendsInv', NEW t \in Tasks,
         Answers(t) \/ Added(t)
  PROVE  DeliveryInv'
<1>1. UNCHANGED <<wsOf, created, providers, delivered, options, stored, message>>
  BY DEF Answers, Refuse, RequestRaises, AddComfyTask, AnsweredAtOnce, GenerationReturns,
         GenerationTimeout, Added, AddTaskReturns, nodeVars, vars, stateVars
<1>2. WsInv' /\ ReachedInv' /\ AnswersAreStored'
  BY <1>1 DEF Onward, DeliveryInv, WsInv, ReachedInv, AnswersAreStored
<1>3. \A u \in Tasks : /\ ready'[u] = "set" => ready[u] = "set"
                       /\ \/ reply'[u] \in {reply[u], "accepted", "timeout"}
                          \/ stored[u] = "none" \/ Reached(u)
  <2>1. CASE Refuse(t) \/ RequestRaises(t) \/ AddComfyTask(t)
    BY <2>1 DEF Refuse, RequestRaises, AddComfyTask, AnsweredAtOnce, ServerTypeOK,
                DeliveryInv, RecordInv
  <2>2. CASE GenerationReturns(t)
    BY <2>2 DEF GenerationReturns, ServerTypeOK, DeliveryInv, RecordInv
  <2>3. CASE GenerationTimeout(t)
    BY <2>3 DEF GenerationTimeout, ServerTypeOK
  <2>4. CASE Added(t)
    BY <2>4 DEF Added, ServerTypeOK
  <2> QED
    BY <2>1, <2>2, <2>3, <2>4 DEF Answers
<1>4. RecordInv'
  <2>1. \A u \in Tasks : Reached(u)' = Reached(u)
    BY <1>1 DEF Reached
  <2>2. \A u \in Tasks : pc'[u] = "idle" => pc[u] = "idle"
    BY DEF Onward
  <2> QED
    BY <1>1, <1>3, <2>1, <2>2 DEF DeliveryInv, RecordInv
<1> QED
  BY <1>2, <1>4 DEF DeliveryInv

LEMMA SentDelivers ==
  ASSUME ServerTypeOK, IInv, DeliveryInv, Onward, SendsInv',
         NEW a \in Tasks \cup Providers, Sent(a)
  PROVE  DeliveryInv'
<1> DEFINE t == current[a]
           p == target[a]
           n == NodeOf[wsOf[p]]
<1>1. /\ UNCHANGED <<wsOf, created, providers, requestVars>>
      /\ pc[a] = "sending" /\ SendReturns(a)
  BY DEF Sent, SendReturns, EndSend, stateVars
<1>2. t \in Tasks /\ p \in created /\ pc[t] # "idle" /\ n = IdOf[p] /\ n \in Ids
  <2>1. t \in Tasks /\ p \in created /\ pc[t] # "idle"
    BY <1>1 DEF IInv, TargetInv, DeliveryInv, SendsInv, Callers
  <2> QED
    BY <2>1, ServerAssumption DEF DeliveryInv, WsInv
<1>3. CASE UNCHANGED delivered
  BY <1>1, <1>3, DispatcherKeeps DEF ServerTypeOK
<1>4. CASE ~UNCHANGED delivered
  <2>1. Sendable(options[t]) /\ delivered' = [delivered EXCEPT ![n] = @ \cup {t}]
    BY <1>4 DEF Sent
  <2>2. delivered \in [Ids -> SUBSET Tasks]
    BY DEF ServerTypeOK
  <2>3. \A i \in Ids : /\ delivered[i] \subseteq delivered'[i]
                       /\ delivered'[i] \subseteq delivered[i] \cup (IF i = n THEN {t} ELSE {})
    BY <1>2, <2>1, <2>2
  <2>4. WsInv'
    BY <1>1 DEF DeliveryInv, WsInv
  <2>5. ReachedInv'
    BY <1>1, <1>2, <2>1, <2>3 DEF Onward, DeliveryInv, ReachedInv, requestVars
  <2>6. RecordInv'
    BY <1>1, <2>3 DEF Onward, DeliveryInv, RecordInv, Reached, requestVars
  <2>7. AnswersAreStored'
    <3>1. \A q \in created : IdOf[q] \in Ids
      BY ConstantsAssumption DEF ServerTypeOK, TypeOK
    <3> QED
      BY <1>1, <2>3, <3>1 DEF Onward, DeliveryInv, AnswersAreStored, requestVars
  <2> QED
    BY <2>4, <2>5, <2>6, <2>7 DEF DeliveryInv
<1> QED
  BY <1>3, <1>4

LEMMA DeliveryStep ==
  ServerTypeOK /\ IInv /\ ConnectionInv /\ DeliveryInv /\ [ServerNext]_serverVars
    => DeliveryInv'
<1> SUFFICES ASSUME ServerTypeOK, IInv, ConnectionInv, DeliveryInv,
                    [ServerNext]_serverVars
             PROVE  DeliveryInv'
  OBVIOUS
<1>0. SendsInv' /\ Onward /\ TypeOK /\ OwnId
  BY DispatcherStep, SendsStep DEF DeliveryInv, ServerTypeOK, ConnectionInv
<1> DEFINE Quiet == UNCHANGED <<wsOf, created, delivered, requestVars>>
<1>a. Quiet => DeliveryInv'
  BY <1>0, DispatcherKeeps
<1>1. ASSUME NEW w \in Handlers, Connect(w) \/ LinkDrops(w) \/ Crash(w) PROVE Quiet
  BY <1>1 DEF Connect, LinkDrops, Crash, vars, stateVars
<1>2. ASSUME NEW w \in Handlers, Register(w) PROVE DeliveryInv'
  BY <1>0, <1>2, RegisterDelivers, DispatcherKeeps
<1>3. ASSUME NEW w \in Handlers, Disconnect(w) \/ Close(w) PROVE Quiet
  <2>1. Leave(w)
    BY <1>3 DEF Disconnect, Close
  <2> QED
    BY <2>1, LeaveCases DEF Leave, OnConnectionLost, vars, stateVars
<1>4. ASSUME NEW w \in Handlers, HandlerEnds(w) PROVE Quiet
  BY <1>4 DEF HandlerEnds, HandlerReturns, stateVars
<1>5. ASSUME NEW w \in Handlers, NEW t \in Tasks, Receive(w, t) PROVE DeliveryInv'
  <2>1. UNCHANGED created
    BY <1>5, ReceiveCases DEF TaskCompleted, TaskFailed, Finish, vars, stateVars
  <2> QED
    BY <1>0, <1>5, <2>1, ReceiveDelivers
<1>6. ASSUME NEW t \in Tasks, Answers(t) \/ Added(t) PROVE DeliveryInv'
  BY <1>0, <1>6, AnswersDeliver
<1>7. ASSUME NEW t \in Tasks, Request(t) PROVE DeliveryInv'
  BY <1>0, <1>7, RequestDelivers
<1>8. ASSUME NEW a \in Tasks \cup Providers, Sent(a) PROVE DeliveryInv'
  BY <1>0, <1>8, SentDelivers
<1>9. ASSUME NEW a \in Tasks \cup Providers, NotSent(a) PROVE Quiet
  BY <1>9 DEF NotSent, SendRaises, nodeVars
<1>10. CASE Internal
  BY <1>0, <1>10, InternalRemoves, <1>a DEF OnlyRemoves, Internal, nodeVars
<1>11. CASE ServerQuiescent \/ UNCHANGED serverVars
  BY <1>11, <1>a DEF ServerQuiescent, serverVars, vars, stateVars, nodeVars
<1> QED
  BY <1>a, <1>1, <1>2, <1>3, <1>4, <1>5, <1>6, <1>7, <1>8, <1>9, <1>10, <1>11
  DEF ServerNext, Answers

LEMMA Deliveries == ServerSpec => []DeliveryInv
<1>1. ServerInit => DeliveryInv
  BY CallersAreApart
  DEF ServerInit, Init, DeliveryInv, SendsInv, WsInv, ReachedInv, RecordInv,
      AnswersAreStored, Reached, Callers
<1> QED
  BY <1>1, DeliveryStep, ServerBase, Connections, PTL DEF ServerSpec

\* A result that a request is told of is stored, unless a provider of the node that
\* had the task was removed.
THEOREM AnsweredResultIsStored == ServerSpec => []AnswersAreStored
<1>1. DeliveryInv => AnswersAreStored
  BY DEF DeliveryInv
<1> QED
  BY <1>1, Deliveries, PTL

\* A task that the schema rejects never reaches a node, is never answered by one and
\* keeps a record that says PENDING.
THEOREM UnsendableTaskIsInert == ServerSpec => []UnsendableIsInert
<1>1. ServerTypeOK /\ DeliveryInv => UnsendableIsInert
  BY DEF ServerTypeOK, DeliveryInv, ReachedInv, RecordInv, Reached, UnsendableIsInert
<1> QED
  BY <1>1, ServerTypeCorrect, Deliveries, PTL
===============================================================================
