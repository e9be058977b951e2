------------------------------- MODULE Server ---------------------------------
(***************************************************************************)
(* The web server of backend-python (run.py): the websocket handler of     *)
(* each node connection, the registered_providers dict, the HTTP requests  *)
(* that create tasks, the records of StorageManager and the events the     *)
(* image requests wait on, over the Dispatcher they all share.             *)
(*                                                                         *)
(* Of the network: a connection goes down at any moment; what a node sent  *)
(* before is still received afterwards, in any order with the messages of  *)
(* its other connections; a task sent while the connection is up may or    *)
(* may not reach the node, and the send may raise only once it is down.    *)
(* What requests ask and nodes report is in Requests; users are in Storage. *)
(***************************************************************************)
EXTENDS Dispatcher, Requests

CONSTANTS
  NodeOf,      \* the node id each connection registers under
  Sync,        \* the tasks of POST /v1/images/generation/, which wait for the result
  Queries,     \* what the requests ask
  NodeReports  \* what nodes say of tasks

ASSUME ServerAssumption ==
  /\ NodeOf \in [Handlers -> Ids]
  /\ Sync \subseteq Tasks
  /\ Queries \subseteq AllQueries
  /\ NodeReports \subseteq AllReports

VARIABLES
  link,        \* the connection as the websocket library knows it
  receiving,   \* the handlers in their receive loop
  registered,  \* registered_providers: the id stored for each connection
  wsOf,        \* the connection inside each provider's WSConnection
  delivered,   \* the tasks that have reached each node
  options,     \* Task.task_options
  stored,      \* the status of the task's record in StorageManager
  ready,       \* the task's event in task_ready
  message,     \* the last message in `connections' for the task
  reply        \* the answer to the task's HTTP request

nodeVars == <<link, receiving, registered, wsOf, delivered>>
requestVars == <<options, stored, ready, message, reply>>
serverVars == <<vars, nodeVars, requestVars>>

Options == {TaskOptions(q) : q \in Queries}
Replies == {"refused", "raised", "accepted", "timeout", "images", "error"}

ServerTypeOK ==
  /\ TypeOK
  /\ link \in [Handlers -> {"none", "up", "down"}]
  /\ receiving \subseteq Handlers
  /\ registered \in [Handlers -> Ids \cup {None}]
  /\ wsOf \in [Providers -> Handlers \cup {None}]
  /\ delivered \in [Ids -> SUBSET Tasks]
  /\ options \in [Tasks -> Options \cup {None}]
  /\ stored \in [Tasks -> {"none", "PENDING", "SUCCESS"}]
  /\ ready \in [Tasks -> {"none", "waiting", "set"}]
  /\ message \in [Tasks -> NodeReports \cup {None}]
  /\ reply \in [Tasks -> Replies \cup {"none"}]

ServerInit ==
  /\ Init
  /\ link = [w \in Handlers |-> "none"]
  /\ receiving = {}
  /\ registered = [w \in Handlers |-> None]
  /\ wsOf = [p \in Providers |-> None]
  /\ delivered = [i \in Ids |-> {}]
  /\ options = [t \in Tasks |-> None]
  /\ stored = [t \in Tasks |-> "none"]
  /\ ready = [t \in Tasks |-> "none"]
  /\ message = [t \in Tasks |-> None]
  /\ reply = [t \in Tasks |-> "none"]

-------------------------------------------------------------------------------
(* Connections of nodes: websocket_connection.                             *)

Connect(w) ==
  /\ running = None
  /\ link[w] = "none"
  /\ link' = [link EXCEPT ![w] = "up"]
  /\ receiving' = receiving \cup {w}
  /\ UNCHANGED <<vars, registered, wsOf, delivered, requestVars>>

LinkDrops(w) ==
  /\ running = None
  /\ link[w] = "up"
  /\ link' = [link EXCEPT ![w] = "down"]
  /\ UNCHANGED <<vars, receiving, registered, wsOf, delivered, requestVars>>

\* The id remembers the connection instead of the connection the id.
RememberConnection(w) == registered' = [registered EXCEPT ![w] = w]

\* No connection gives way to a later one of the same node.
RememberAlso(w) == registered' = [registered EXCEPT ![w] = NodeOf[w]]

\* find_key_by_value pops one other connection with the same id.
Remember(w) ==
  LET same == {v \in Handlers : registered[v] = NodeOf[w]}
  IN  \/ /\ same = {}
         /\ registered' = [registered EXCEPT ![w] = NodeOf[w]]
      \/ \E v \in same :
           registered' = [registered EXCEPT ![v] = None, ![w] = NodeOf[w]]

\* A register message: the node's provider is restored or created.  The call of
\* WSConnection.restore_connection is not awaited (provider.py:84), so that a
\* restored provider keeps its old connection.
Register(w) ==
  /\ w \in receiving
  /\ \/ RestoreConnection(NodeOf[w]) /\ UNCHANGED wsOf
     \/ \E p \in Providers : /\ IdOf[p] = NodeOf[w]
                             /\ AddProvider(p)
                             /\ wsOf' = [wsOf EXCEPT ![p] = w]
  /\ Remember(w)
  /\ UNCHANGED <<link, receiving, delivered, requestVars>>

\* The connection is forgotten and its provider is not told.
LeaveSilently(w) ==
  /\ running = None
  /\ w \in receiving
  /\ receiving' = receiving \ {w}
  /\ registered' = [registered EXCEPT ![w] = None]
  /\ UNCHANGED <<vars, wsOf, delivered, requestVars>>

\* The handler leaves its loop: a connection still registered is forgotten, and
\* the provider stored under its id, if any, has lost its connection.
Leave(w) ==
  /\ running = None
  /\ w \in receiving
  /\ receiving' = receiving \ {w}
  /\ registered' = [registered EXCEPT ![w] = None]
  /\ IF registered[w] # None /\ providers[registered[w]] # None
     THEN OnConnectionLost(w, providers[registered[w]])
     ELSE UNCHANGED vars
  /\ UNCHANGED <<wsOf, delivered, requestVars>>

\* receive_text raises WebSocketDisconnect or ConnectionClosed.
Disconnect(w) == link[w] = "down" /\ Leave(w) /\ UNCHANGED link

\* The node says "close".
Close(w) == Leave(w) /\ UNCHANGED link

\* Any other way out: an unexpected exception of receive_text, a message that is
\* not JSON, a registration without metadata (where the call of ws.close itself
\* raises).  Nothing is deregistered; the connection closes with its handler.
Crash(w) ==
  /\ running = None
  /\ w \in receiving
  /\ receiving' = receiving \ {w}
  /\ link' = [link EXCEPT ![w] = "down"]
  /\ UNCHANGED <<vars, registered, wsOf, delivered, requestVars>>

\* A handler waiting in on_connection_lost has left its loop, its connection
\* open until it returns.
HandlerEnds(w) ==
  /\ HandlerReturns(w)
  /\ link' = [link EXCEPT ![w] = "down"]
  /\ UNCHANGED <<receiving, registered, wsOf, delivered, requestVars>>

-------------------------------------------------------------------------------
(* Messages of nodes about tasks.                                          *)

\* The event of a request that waits, or has waited, for t is set.
Answer(t, m) ==
  IF ready[t] = "none" THEN UNCHANGED <<ready, message>>
  ELSE /\ ready' = [ready EXCEPT ![t] = "set"]
       /\ message' = [message EXCEPT ![t] = m]

\* The task is completed and its record left PENDING.
ResultUnstored(w, t, m) ==
  /\ m.type = "result"
  /\ registered[w] # None
  /\ LET p == providers[registered[w]]
     IN  IF p # None /\ t \in inProgress[p] THEN TaskCompleted(p, t) ELSE UNCHANGED vars
  /\ Answer(t, m)
  /\ UNCHANGED <<receiving, stored>>

\* Only the result of a task that was in progress is stored.
ResultOfOthersUnstored(w, t, m) ==
  /\ m.type = "result"
  /\ registered[w] # None
  /\ LET p == providers[registered[w]]
     IN  IF p # None /\ t \in inProgress[p]
         THEN stored' = [stored EXCEPT ![t] = "SUCCESS"] /\ TaskCompleted(p, t)
         ELSE UNCHANGED <<vars, stored>>
  /\ Answer(t, m)
  /\ UNCHANGED receiving

\* The result is stored, and the provider not told.
ResultUntaken(w, t, m) ==
  /\ m.type = "result"
  /\ registered[w] # None
  /\ IF providers[registered[w]] = None THEN UNCHANGED stored
     ELSE stored' = [stored EXCEPT ![t] = "SUCCESS"]
  /\ Answer(t, m)
  /\ UNCHANGED <<vars, receiving>>

\* A result from a registered node whose provider is in the dispatcher completes
\* the task, if that provider has it, and is stored in any case.  Its status is not
\* looked at.
Result(w, t, m) ==
  /\ m.type = "result"
  /\ registered[w] # None
  /\ LET p == providers[registered[w]]
     IN  IF p = None THEN UNCHANGED <<vars, stored>>
         ELSE /\ stored' = [stored EXCEPT ![t] = "SUCCESS"]
              /\ IF t \in inProgress[p] THEN TaskCompleted(p, t) ELSE UNCHANGED vars
  /\ Answer(t, m)
  /\ UNCHANGED receiving

\* A task that a node could not do is given to another.
ErrorRetries(w, t, m) ==
  /\ m.type = "error"
  /\ registered[w] # None
  /\ LET p == providers[registered[w]]
     IN  IF p # None /\ t \in inProgress[p]
         THEN /\ AddTaskIn(t, t)
              /\ UNCHANGED <<providers, created, online, left, caller, removes>>
         ELSE UNCHANGED vars
  /\ Answer(t, m)
  /\ UNCHANGED <<receiving, stored>>

\* An error fails the task and is not stored.
Error(w, t, m) ==
  /\ m.type = "error"
  /\ registered[w] # None
  /\ LET p == providers[registered[w]]
     IN  IF p # None /\ t \in inProgress[p] THEN TaskFailed(p, t) ELSE UNCHANGED vars
  /\ Answer(t, m)
  /\ UNCHANGED <<receiving, stored>>

\* A message from a connection that is not registered ends its handler.
Unregistered(w) ==
  /\ registered[w] = None
  /\ receiving' = receiving \ {w}
  /\ UNCHANGED <<vars, stored, ready, message>>

\* A node answers for a task it was sent, on whichever connection it has.
Receive(w, t) ==
  /\ running = None
  /\ w \in receiving
  /\ t \in delivered[NodeOf[w]]
  /\ \/ \E m \in NodeReports : Result(w, t, m) \/ Error(w, t, m)
     \/ Unregistered(w)
  /\ link' = [link EXCEPT ![w] = IF w \in receiving' THEN @ ELSE "down"]
  /\ UNCHANGED <<registered, wsOf, delivered, options, reply>>

-------------------------------------------------------------------------------
(* HTTP requests: generate_image, add_task and add_comfy_task.             *)

\* What GET /v1/nodes/health/ counts.
Available == {w \in Handlers : registered[w] # None}

\* A request that has not begun is answered and leaves nothing behind.
AnsweredAtOnce(t, r) ==
  /\ running = None
  /\ pc[t] = "idle" /\ reply[t] = "none"
  /\ reply' = [reply EXCEPT ![t] = r]
  /\ UNCHANGED <<vars, nodeVars, options, stored, ready, message>>

\* check_data_and_state refuses the query, or any query while no node is registered.
Refuse(t) ==
  /\ Available = {} \/ \E q \in Queries : Refused(q)
  /\ AnsweredAtOnce(t, "refused")

\* The check of the query raises, or the construction of its task.
RequestRaises(t) ==
  /\ Available # {}
  /\ \E q \in Queries : Raises(q)
  /\ AnsweredAtOnce(t, "raised")

\* POST /v1/inference/comfyPipeline raises on its first line: a Request has no
\* method get_json.
AddComfyTask(t) == AnsweredAtOnce(t, "raised")

\* Otherwise a task is built and stored, and given to the dispatcher.
Request(t) ==
  /\ reply[t] = "none"
  /\ Available # {}
  /\ \E q \in Queries : /\ Admitted(q)
                        /\ options' = [options EXCEPT ![t] = TaskOptions(q)]
  /\ stored' = [stored EXCEPT ![t] = "PENDING"]
  /\ AddTask(t)
  /\ UNCHANGED <<nodeVars, ready, message, reply>>

\* add_task returns: POST /v1/tasks/ is answered; POST /v1/images/generation/
\* creates its event, after whatever came in meanwhile, and waits.
Added(t) ==
  /\ AddTaskReturns(t)
  /\ IF t \in Sync
     THEN ready' = [ready EXCEPT ![t] = "waiting"] /\ UNCHANGED reply
     ELSE reply' = [reply EXCEPT ![t] = "accepted"] /\ UNCHANGED ready
  /\ UNCHANGED <<nodeVars, options, stored, message>>

\* The event was set: the answer is made of the last message about the task.
GenerationReturns(t) ==
  /\ running = None
  /\ ready[t] = "set" /\ reply[t] = "none"
  /\ reply' = [reply EXCEPT ![t] = ImageAnswer(message[t])]
  /\ UNCHANGED <<vars, nodeVars, options, stored, ready, message>>

\* The wait is given up without an answer.
GenerationGivenUp(t) ==
  /\ running = None
  /\ ready[t] = "waiting" /\ reply[t] = "none"
  /\ ready' = [ready EXCEPT ![t] = "none"]
  /\ UNCHANGED <<vars, nodeVars, options, stored, message, reply>>

\* WS_TASK_TIMEOUT runs out first.
GenerationTimeout(t) ==
  /\ running = None
  /\ ready[t] = "waiting" /\ reply[t] = "none"
  /\ reply' = [reply EXCEPT ![t] = "timeout"]
  /\ UNCHANGED <<vars, nodeVars, options, stored, ready, message>>

-------------------------------------------------------------------------------
(* Sends: WSConnection.send_task.                                          *)

Closed(w) == link[w] = "down" /\ w \notin receiving /\ pc[w] \in {"idle", "done"}

\* Every task is sent while the connection is up.
SentUnchecked(a) ==
  /\ SendReturns(a)
  /\ LET t == current[a]
         w == wsOf[target[a]]
     IN  /\ ~Closed(w)
         /\ \/ /\ link[w] = "up"
               /\ delivered' = [delivered EXCEPT ![NodeOf[w]] = @ \cup {t}]
            \/ UNCHANGED delivered
  /\ UNCHANGED <<link, receiving, registered, wsOf, requestVars>>

\* The send returns: without a word for a task that the schema rejects, else with
\* the task under way to the node while its connection is up.  (A send that waits
\* for the peer to read is over before the node has read the whole message.)
Sent(a) ==
  /\ SendReturns(a)
  /\ LET t == current[a]
         w == wsOf[target[a]]
     IN  IF Sendable(options[t])
         THEN /\ ~Closed(w)
              /\ \/ /\ link[w] = "up"
                    /\ delivered' = [delivered EXCEPT ![NodeOf[w]] = @ \cup {t}]
                 \/ UNCHANGED delivered
         ELSE UNCHANGED delivered
  /\ UNCHANGED <<link, receiving, registered, wsOf, requestVars>>

\* A task that the schema rejects makes the send raise.
NotSentOrInvalid(a) ==
  /\ SendRaises(a)
  /\ Sendable(options[current[a]]) => link[wsOf[target[a]]] = "down"
  /\ UNCHANGED <<nodeVars, requestVars>>

\* The send raises because the connection is down.
NotSent(a) ==
  /\ SendRaises(a)
  /\ Sendable(options[current[a]])
  /\ link[wsOf[target[a]]] = "down"
  /\ UNCHANGED <<nodeVars, requestVars>>

-------------------------------------------------------------------------------
(* Next and the specifications.                                            *)

\* What happens inside the dispatcher alone.
Internal ==
  /\ \/ \E p \in Providers : RescheduleNext(p) \/ RescheduleDone(p)
     \/ \E w \in Handlers : OfflineTimeout(w) \/ ConnectionLostCallback(w)
  /\ UNCHANGED <<nodeVars, requestVars>>

\* Every connection is over and every request answered.
ServerQuiescent ==
  /\ running = None
  /\ \A w \in Handlers : Closed(w)
  /\ \A t \in Tasks : reply[t] # "none"
  /\ UNCHANGED serverVars

ServerNext ==
  \/ \E w \in Handlers :
       \/ Connect(w) \/ LinkDrops(w) \/ Register(w)
       \/ Disconnect(w) \/ Close(w) \/ Crash(w) \/ HandlerEnds(w)
       \/ \E t \in Tasks : Receive(w, t)
  \/ \E t \in Tasks : \/ Refuse(t) \/ RequestRaises(t) \/ AddComfyTask(t)
                      \/ Request(t) \/ Added(t)
                      \/ GenerationReturns(t) \/ GenerationTimeout(t)
  \/ \E a \in Tasks \cup Providers : Sent(a) \/ NotSent(a)
  \/ Internal
  \/ ServerQuiescent

ServerSpec == ServerInit /\ [][ServerNext]_serverVars

\* The loop resumes whoever is ready, a send ends one way or the other (the
\* websocket keepalive closes a connection that does not answer) and timers run
\* out.  No request, node or message is forced to come.
ServerFairness ==
  /\ WF_serverVars(Internal)
  /\ \A a \in Tasks \cup Providers : WF_serverVars(Sent(a) \/ NotSent(a))
  /\ \A w \in Handlers : WF_serverVars(HandlerEnds(w))
  /\ \A t \in Tasks : /\ WF_serverVars(Added(t))
                      /\ WF_serverVars(GenerationReturns(t) \/ GenerationTimeout(t))

ServerFairSpec == ServerSpec /\ ServerFairness

-------------------------------------------------------------------------------
(* Properties.                                                             *)

\* A node has one registered connection at most, however its connections come,
\* crash and are replaced (run.py:326, which pops one).
OneConnectionPerNode ==
  \A v, w \in Handlers :
    registered[v] # None /\ registered[v] = registered[w] => v = w

\* A provider in the dispatcher is online exactly while a connection of its node
\* is registered: none is given tasks after its node has left, and none is
\* refused them, or closed twice over, while its node is registered.
OnlineIffRegistered ==
  \A i \in Ids : providers[i] # None =>
    (online[providers[i]] <=> \E w \in Handlers : registered[w] = i)

\* What the dispatcher calls completed, GET /v1/tasks/ shows as SUCCESS.
CompletedIsStored ==
  \A t \in Tasks : status[t] = "COMPLETED" => stored[t] = "SUCCESS"

\* A request that waits is told of a result that is not stored, so that GET
\* /v1/tasks/ goes on saying PENDING, only after a provider of the node that had
\* the task was removed: while a node is served, what it answers is kept, be the
\* task its own or passed on to another meanwhile (run.py:350).
AnswersAreStored ==
  \A t \in Tasks :
    message[t] # None /\ message[t].type = "result" /\ stored[t] # "SUCCESS"
      => \E p \in created : ~Mapped(p) /\ t \in delivered[IdOf[p]]

\* A task whose result is on file is still in some provider's care, to be generated again,
\* only after a provider of a node that had the task was removed: a node that stays answers
\* for its own tasks, and a late result of one that left, which is stored without being taken
\* for a completion, is the one way to generate for nothing (run.py:350-359).
StoredHeldAfterRemoval ==
  \A t \in Tasks, p \in Providers :
    stored[t] = "SUCCESS" /\ Holds(p, t)
      => \E q \in created : ~Mapped(q) /\ t \in delivered[IdOf[q]]

\* A task that the schema rejects reaches no node, however often its provider is
\* closed and it is passed on, so its request is not answered by one and its record
\* stays PENDING (ws_connection.py:42).
UnsendableIsInert ==
  \A t \in Tasks : stored[t] # "none" /\ ~Sendable(options[t]) =>
    /\ \A i \in Ids : t \notin delivered[i]
    /\ stored[t] = "PENDING"
    /\ reply[t] \in {"none", "accepted", "timeout"}

\* A task reaches a second node only after a provider of one of the two was removed:
\* it is not given to two nodes that both stay, however answers, losses and the sends
\* of its requests and of rescheduling interleave (dispatcher.py:58).
SentTwiceAfterRemoval ==
  \A t \in Tasks, i, j \in Ids :
    i # j /\ t \in delivered[i] /\ t \in delivered[j]
      => \E p \in Providers : IdOf[p] \in {i, j} /\ pc[p] # "idle"

\* The node of w has had no other connection.
OnlyConnection(w) == \A v \in Handlers \ {w} : NodeOf[v] = NodeOf[w] => link[v] = "none"

\* While the first connection of a node is up and registered, the node is served, and
\* on that connection: no other node's failures, late timers or nested removals reach
\* its provider (dispatcher.py:36, run.py:326).
OnlyConnectionIsServed ==
  \A w \in receiving : link[w] = "up" /\ registered[w] # None /\ OnlyConnection(w) =>
    \E p \in Providers : providers[registered[w]] = p /\ wsOf[p] = w

\* Every image request whose task was given to the dispatcher is answered.
GenerationIsAnswered ==
  \A t \in Sync : stored[t] = "PENDING" ~> reply[t] # "none"

Service == INSTANCE TaskService
  WITH record <- stored,
       valid <- {t \in Tasks : stored[t] # "none" /\ Sendable(options[t])},
       reached <- {t \in Tasks : \E i \in Ids : t \in delivered[i]},
       reply <- reply

\* Through requests, records and answers, users see of a task what TaskService allows,
\* whatever connections and providers come and go.
ImplementsService == Service!Spec

-------------------------------------------------------------------------------
(* What the repository says of the server and the code does not do.        *)

\* "`Dispatcher` stores all instances of currently registered `Provider`s"
\* (README.md:18): a node whose connection is up and registered has a provider in
\* the dispatcher, though it was offline for less than OFFLINE_TIMEOUT before.
RegisteredIsServed ==
  \A w \in receiving :
    link[w] = "up" /\ registered[w] # None => providers[registered[w]] # None

\* The connection of a register message "is then saved in an instance of
\* `Provider`" (README.md:16): tasks go to the connection registered last.
TasksGoToRegisteredConnection ==
  \A w \in Handlers, p \in Providers :
    registered[w] = IdOf[p] /\ Mapped(p) => wsOf[p] = w

\* Nodes "later return the result, which is then forwarded to users"
\* (README.md:14): an image request that waits while its result is stored has
\* been woken.
WaiterIsWoken ==
  \A t \in Sync : ready[t] = "waiting" => stored[t] # "SUCCESS"

\* "assert "result" in response_json or "error" in response_json"
\* (tests/test_regress.py:102): an image request that a node has answered returns
\* the result or the error, whichever it was.
AnswerIsReturned ==
  \A t \in Sync : stored[t] # "none" => reply[t] # "raised"

\* "Reassigning a `Task` in case the network connection with the previously
\* assigned `Provider` was closed / lost" (dispatcher/README.md:13): a provider
\* taken out of the dispatcher has passed its tasks on, or is doing so.
RemovedProviderIsEmptied ==
  \A p \in created : ~Mapped(p) /\ pc[p] = "idle" => inProgress[p] = {}
===============================================================================
