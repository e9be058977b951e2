------------------------------- MODULE TsServer -------------------------------
(***************************************************************************)
(* The server in TypeScript (backend/src): the entry queue, the dispatcher *)
(* with its cached minimal cost, the providers with their estimators, and  *)
(* the websocket events and requests of run.ts that drive them.            *)
(*                                                                         *)
(* Node runs one event handler at a time to its end, and then the           *)
(* continuations that are ready.  An event is one action, but for a request: *)
(* that pulls tasks from the queue, each pull a step, until a provider is  *)
(* given one or one is given up (`pulling'); and as WSConenction.sendTask  *)
(* returns a resolved promise, what follows its await in asyncScheduleTask *)
(* is one more step (`sending'), before the next event.                    *)
(*                                                                         *)
(* As in run.ts all nodes ask the same price, all tasks offer the same one *)
(* and have priority 0, so the queue may yield any of its tasks first.     *)
(***************************************************************************)
EXTENDS Integers, FiniteSets

CONSTANTS
  Ids,             \* node ids
  Providers,       \* the Provider objects the server may construct
  IdOf,            \* Provider.id
  Sockets,         \* the websocket connections
  NodeOf,          \* the node id that the client behind each connection has
  Tasks,           \* the Task objects, one per HTTP request
  Threshold,       \* DISABLE_DISPATCHER_QUEUE_THRESHOLD
  MaxAttempts,     \* TASK_MAX_ATTEMPTS
  MinCost,         \* min_cost of every node (10)
  MaxPrice,        \* max_price of every task (15)
  MaxSafeInteger,  \* Number.MAX_SAFE_INTEGER
  None             \* a missing map entry, websocket, id or task

ASSUME TsAssumption ==
  /\ IdOf \in [Providers -> Ids]
  /\ NodeOf \in [Sockets -> Ids]
  /\ Threshold \in Nat
  /\ MaxAttempts \in Nat \ {0}
  /\ {MinCost, MaxPrice, MaxSafeInteger} \subseteq Nat
  /\ MinCost < MaxPrice
  /\ MaxPrice < MaxSafeInteger
  /\ None \notin Ids \cup Providers \cup Sockets \cup Tasks
  /\ IsFiniteSet(Tasks)

VARIABLES
  socket,        \* the state of each websocket
  registered,    \* registeredProviders
  delivered,     \* the tasks sent to each node
  wsOf,          \* the websocket in the WSConenction of each provider
  created,       \* the Provider objects constructed so far
  providersMap,  \* Dispatcher.providersMap
  providers,     \* Dispatcher.providers
  offline,       \* Provider.offlineTimeout: undefined, pending, or run out
  inProgress,    \* Provider.inProgress
  minCost,       \* Dispatcher.minCost, a cache
  queue,         \* EntryQueue.queue
  pulling,       \* whether the running event is about to call pullTask
  sending,       \* the task whose send each provider awaits
  log,           \* the last entry of Task.log
  failedAttempts \* Task.failedAttempts

nodeVars == <<socket, registered, delivered, wsOf, created>>
poolVars == <<providersMap, providers, offline>>
taskVars == <<queue, log, failedAttempts>>
turnVars == <<pulling, sending>>
vars == <<nodeVars, poolVars, taskVars, turnVars, inProgress, minCost>>

Statuses == {"Initial", "PushedIntoQueue", "RejectedByDispatcher", "SetToProvider",
             "Aborted", "Completed"}

TsTypeOK ==
  /\ socket \in [Sockets -> {"none", "open", "closed"}]
  /\ registered \in [Sockets -> Ids \cup {None}]
  /\ delivered \in [Ids -> SUBSET Tasks]
  /\ wsOf \in [Providers -> Sockets \cup {None}]
  /\ created \subseteq Providers
  /\ providersMap \in [Ids -> created \cup {None}]
  /\ providers \subseteq created
  /\ offline \in [Providers -> {"no", "pending", "over"}]
  /\ inProgress \in [Providers -> SUBSET Tasks]
  /\ minCost \in {MinCost, MaxSafeInteger}
  /\ queue \subseteq Tasks
  /\ log \in [Tasks -> Statuses]
  /\ failedAttempts \in [Tasks -> 0..MaxAttempts]
  /\ pulling \in BOOLEAN
  /\ sending \in [Providers -> Tasks \cup {None}]

TsInit ==
  /\ socket = [w \in Sockets |-> "none"]
  /\ registered = [w \in Sockets |-> None]
  /\ delivered = [i \in Ids |-> {}]
  /\ wsOf = [p \in Providers |-> None]
  /\ created = {}
  /\ providersMap = [i \in Ids |-> None]
  /\ providers = {}
  /\ offline = [p \in Providers |-> "no"]
  /\ inProgress = [p \in Providers |-> {}]
  /\ minCost = MaxSafeInteger
  /\ queue = {}
  /\ log = [t \in Tasks |-> "Initial"]
  /\ failedAttempts = [t \in Tasks |-> 0]
  /\ pulling = FALSE
  /\ sending = [p \in Providers |-> None]

\* No event is under way, and no continuation is ready.
Idle == ~pulling /\ \A p \in Providers : sending[p] = None

-------------------------------------------------------------------------------
(* Costs.                                                                  *)

IsBusy(p) == Cardinality(inProgress[p]) > Threshold

Cost(p) == IF offline[p] = "no" THEN MinCost ELSE MaxSafeInteger

\* What calcMinCost computes.
LeastCost ==
  IF \E p \in providers : ~IsBusy(p) /\ Cost(p) = MinCost THEN MinCost ELSE MaxSafeInteger

\* calcMinCost as the last call of an event, on the state that the event leaves.
CalcMinCost == minCost' = LeastCost'

-------------------------------------------------------------------------------
(* Connections and providers.                                              *)

Connect(w) ==
  /\ Idle
  /\ socket[w] = "none"
  /\ socket' = [socket EXCEPT ![w] = "open"]
  /\ UNCHANGED <<registered, delivered, wsOf, created, poolVars, taskVars, turnVars,
                 inProgress, minCost>>

\* startOffline of the provider now under the id of the connection, unless its
\* timeout is set.
Close(w) ==
  /\ Idle
  /\ socket[w] = "open"
  /\ socket' = [socket EXCEPT ![w] = "closed"]
  /\ LET p == IF registered[w] = None THEN None ELSE providersMap[registered[w]]
     IN  /\ UNCHANGED <<registered, delivered, wsOf, created, providersMap, providers,
                        taskVars, turnVars, inProgress>>
         /\ IF p # None /\ offline[p] = "no"
            THEN offline' = [offline EXCEPT ![p] = "pending"] /\ CalcMinCost
            ELSE UNCHANGED <<offline, minCost>>

\* A second provider for a node is refused, as addProvider's warning has it.
NewProviderUnlessKnown(w, p) ==
  /\ p \notin created
  /\ registered' = [registered EXCEPT ![w] = IdOf[p]]
  /\ IF providersMap[IdOf[p]] # None
     THEN UNCHANGED <<created, wsOf, providers, providersMap>>
     ELSE /\ created' = created \cup {p}
          /\ wsOf' = [wsOf EXCEPT ![p] = w]
          /\ providers' = providers \cup {p}
          /\ providersMap' = [providersMap EXCEPT ![IdOf[p]] = p]

\* A registration that keeps the object where the id belongs.
NewProviderByObject(w, p) ==
  /\ p \notin created
  /\ created' = created \cup {p}
  /\ wsOf' = [wsOf EXCEPT ![p] = w]
  /\ providers' = providers \cup {p}
  /\ providersMap' = [providersMap EXCEPT ![IdOf[p]] = p]
  /\ registered' = [registered EXCEPT ![w] = p]

\* A new provider that knows its connection is added, and the connection registered.
NewProvider(w, p) ==
  /\ p \notin created
  /\ created' = created \cup {p}
  /\ wsOf' = [wsOf EXCEPT ![p] = w]
  /\ providers' = providers \cup {p}
  /\ providersMap' = [providersMap EXCEPT ![IdOf[p]] = p]
  /\ registered' = [registered EXCEPT ![w] = IdOf[p]]

\* The timeout is not stopped.
StopOfflineNot(i) == UNCHANGED offline

\* stopOffline of the provider under the id i, if there is one.
StopOffline(i) ==
  offline' = [p \in Providers |-> IF p = providersMap[i] THEN "no" ELSE offline[p]]

\* The message "register", the first of the connection or another.  The provider under
\* the id is put back online; a second one is constructed and added all the same.
Register(w, p) ==
  /\ Idle
  /\ socket[w] = "open"
  /\ IdOf[p] = NodeOf[w]
  /\ StopOffline(IdOf[p])
  /\ NewProvider(w, p)
  /\ UNCHANGED <<socket, delivered, taskVars, turnVars, inProgress>>
  /\ CalcMinCost

\* removeProvider that does not find the id.
RemoveFromSet(p) == providers' = providers \ {p} /\ UNCHANGED providersMap

\* removeProvider of p, which deletes whatever is under the id; once p is out, nothing.
RemoveProvider(p) ==
  IF p \in providers
  THEN /\ providersMap' = [providersMap EXCEPT ![IdOf[p]] = None]
       /\ providers' = providers \ {p}
  ELSE UNCHANGED <<providersMap, providers>>

\* The timeout of startOffline: dispose fails every task in progress, which stays
\* there, and run.ts's onFailed aborts it.  onClosed is called twice; the second call
\* finds p removed.
OfflineTimeout(p) ==
  /\ Idle
  /\ offline[p] = "pending"
  /\ offline' = [offline EXCEPT ![p] = "over"]
  /\ log' = [t \in Tasks |-> IF t \in inProgress[p] THEN "Aborted" ELSE log[t]]
  /\ RemoveProvider(p)
  /\ UNCHANGED <<nodeVars, inProgress, queue, failedAttempts, turnVars>>
  /\ CalcMinCost

-------------------------------------------------------------------------------
(* Scheduling: addTask, taskAddedCb, pullTask and scheduleTask.            *)

\* A limit that is not looked at.
AffordableIfBusy == {p \in providers : Cost(p) <= MaxPrice}

Affordable == {p \in providers : ~IsBusy(p) /\ Cost(p) <= MaxPrice}

\* All tasks are estimated alike: the total is that of the number of tasks.
WaitingTime(p) == Cardinality(inProgress[p])

\* The lowest score: cost and ratio are the same for all.
Best == {p \in Affordable : \A q \in Affordable : WaitingTime(p) <= WaitingTime(q)}

\* A scheduling that leaves the task in the queue.
ScheduledInPlace(u, p) ==
  /\ log' = [log EXCEPT ![u] = "SetToProvider"]
  /\ sending' = [sending EXCEPT ![p] = u]
  /\ pulling' = FALSE
  /\ minCost' = LeastCost
  /\ UNCHANGED <<queue, failedAttempts, delivered>>

\* The pulled task u is set to p and sent.  calcMinCost does not count u: it runs before
\* the continuation of the send.
Scheduled(u, p) ==
  /\ queue' = queue \ {u}
  /\ log' = [log EXCEPT ![u] = "SetToProvider"]
  /\ sending' = [sending EXCEPT ![p] = u]
  /\ pulling' = FALSE
  /\ minCost' = LeastCost
  /\ delivered' = IF socket[wsOf[p]] = "open" THEN [delivered EXCEPT ![IdOf[p]] = @ \cup {u}]
                                              ELSE delivered
  /\ UNCHANGED failedAttempts

\* Nobody takes the pulled task u: after MaxAttempts times it is failed, which run.ts's
\* onFailed makes an abort; before, it is added again, and taskAddedCb pulls again.
NotScheduled(u) ==
  /\ failedAttempts' = [failedAttempts EXCEPT ![u] = @ + 1]
  /\ IF failedAttempts[u] + 1 < MaxAttempts
     THEN /\ log' = [log EXCEPT ![u] = "PushedIntoQueue"]
          /\ UNCHANGED <<queue, pulling>>
     ELSE /\ log' = [log EXCEPT ![u] = "Aborted"]
          /\ queue' = queue \ {u}
          /\ pulling' = FALSE
  /\ UNCHANGED <<sending, delivered, minCost>>

\* pullTask.  popTask yields any task of the queue, as all have one price and one priority.
Pull ==
  /\ pulling
  /\ \E u \in queue : IF Affordable = {} THEN NotScheduled(u)
                                           ELSE \E p \in Best : Scheduled(u, p)
  /\ UNCHANGED <<socket, registered, wsOf, created, poolVars, inProgress>>

\* The send of p's task has returned: the continuation of asyncScheduleTask.
Settle(p) ==
  /\ ~pulling /\ sending[p] # None
  /\ inProgress' = [inProgress EXCEPT ![p] = @ \cup {sending[p]}]
  /\ sending' = [sending EXCEPT ![p] = None]
  /\ UNCHANGED <<nodeVars, poolVars, taskVars, pulling, minCost>>

\* The rejected task is gone from the queue.
RejectedDropped(t) ==
  /\ log' = [log EXCEPT ![t] = "RejectedByDispatcher"]
  /\ UNCHANGED <<queue, pulling>>

\* t joins a queue that holds no task above the cached cost: taskAddedCb rejects it, and
\* it stays queued.
Rejected(t) ==
  /\ queue' = queue \cup {t}
  /\ log' = [log EXCEPT ![t] = "RejectedByDispatcher"]
  /\ UNCHANGED pulling

\* t joins the queue, and taskAddedCb pulls a task.
Pushed(t) ==
  /\ queue' = queue \cup {t}
  /\ log' = [log EXCEPT ![t] = "PushedIntoQueue"]
  /\ pulling' = TRUE

\* An HTTP request, refused unless some node is connected.
Request(t) ==
  /\ Idle
  /\ log[t] = "Initial"
  /\ \E w \in Sockets : socket[w] = "open"
  /\ IF MaxPrice < minCost THEN Rejected(t) ELSE Pushed(t)
  /\ UNCHANGED <<nodeVars, poolVars, failedAttempts, sending, inProgress, minCost>>

\* A completion after which the cost is not computed again.
OnTaskCompletedUncounted(p, t) ==
  /\ t \in inProgress[p]
  /\ inProgress' = [inProgress EXCEPT ![p] = @ \ {t}]
  /\ log' = [log EXCEPT ![t] = "Completed"]
  /\ UNCHANGED minCost

\* A provider drops what is not in its set; the cost is computed in any case.
OnTaskCompleted(p, t) ==
  /\ IF t \in inProgress[p]
     THEN /\ inProgress' = [inProgress EXCEPT ![p] = @ \ {t}]
          /\ log' = [log EXCEPT ![t] = "Completed"]
     ELSE UNCHANGED <<inProgress, log>>
  /\ CalcMinCost

\* The message "result", for a task sent to the node: it goes to the provider now
\* under the node's id.
Result(w, t) ==
  /\ Idle
  /\ socket[w] = "open" /\ registered[w] # None
  /\ t \in delivered[NodeOf[w]]
  /\ providersMap[registered[w]] # None
  /\ UNCHANGED <<nodeVars, poolVars, queue, failedAttempts, turnVars>>
  /\ OnTaskCompleted(providersMap[registered[w]], t)

-------------------------------------------------------------------------------
\* Every connection is closed and every timeout is over: nothing more can happen.
Quiescent ==
  /\ Idle
  /\ \A w \in Sockets : socket[w] = "closed"
  /\ \A p \in Providers : offline[p] # "pending"
  /\ UNCHANGED vars

TsNext ==
  \/ \E w \in Sockets : Connect(w) \/ Close(w)
  \/ \E w \in Sockets, p \in Providers : Register(w, p)
  \/ \E p \in Providers : OfflineTimeout(p)
  \/ \E t \in Tasks : Request(t)
  \/ Pull
  \/ \E p \in Providers : Settle(p)
  \/ \E w \in Sockets, t \in Tasks : Result(w, t)
  \/ Quiescent

TsSpec == TsInit /\ [][TsNext]_vars

-------------------------------------------------------------------------------
(* Properties.                                                             *)

\* The cached cost is never above the true one: taskAddedCb turns no task away that a
\* provider would take.  (It may be below: scheduleTask computes it before the task counts.)
CacheIsOptimistic == minCost <= LeastCost

\* The tasks a provider has in progress, with the one whose send it awaits.
Carried(p) == inProgress[p] \cup ({sending[p]} \ {None})

\* A task is in the queue or with one provider, never in two places: it is not sent
\* twice, though popTask, addTask and scheduleTask pass it around, the pulls of one
\* request may pull it again and again, and a rejected task stays in the queue.
OnePlace ==
  /\ \A p \in Providers : Carried(p) \cap queue = {}
  /\ \A p, q \in Providers : p # q => Carried(p) \cap Carried(q) = {}

\* No task is lost: one that was accepted is in the queue, with a provider that has not
\* timed out, or has ended, and its log says which; so it is for a task rejected by
\* taskAddedCb, re-added by pullTask in the middle of the pulls, between the send and
\* its continuation, or failed with its provider.
Accounted ==
  \A t \in Tasks :
    /\ log[t] \in {"PushedIntoQueue", "RejectedByDispatcher"} <=> t \in queue
    /\ log[t] = "SetToProvider" <=>
         \E p \in Providers : offline[p] # "over" /\ t \in Carried(p)
    /\ \A p \in Providers : offline[p] = "over" /\ t \in Carried(p)
                             => log[t] = "Aborted"

\* Only the provider a node is registered with can be about to be removed, so that
\* removeProvider, which deletes by id, deletes no entry but the provider's own.
TimesOutUnderItsId ==
  \A p \in Providers : offline[p] = "pending" => providersMap[IdOf[p]] = p

\* A provider has one task more than the threshold at most, the one being sent counted:
\* isBusyProvider reads a set that a task joins after its send only, and the continuation
\* of the send comes before the next pull.
NoOverload == \A p \in Providers : Cardinality(Carried(p)) <= Threshold + 1

\* A task aborted by the timeout of its provider or for lack of one is not completed by
\* a late result, nor a completed one aborted when its provider leaves: the request
\* is answered once, if it is.
OutcomeStands ==
  [][\A t \in Tasks : log[t] \in {"Aborted", "Completed"} => log'[t] = log[t]]_vars

\* A task that a provider is given and its node does not get is with a provider that is
\* not, or not any more, the one under its id: when a node registers again, run.ts adds a
\* second provider, and puts the first, which leaves providersMap, back online with the
\* websocket that was closed (run.ts:78).  The one under the id is sent all it is given, in
\* whatever order the websockets of the node close and timeouts run and are stopped.
UnsentIsReplaced ==
  \A p \in Providers :
    providersMap[IdOf[p]] = p => Carried(p) \subseteq delivered[IdOf[p]]

-------------------------------------------------------------------------------
(* The promise about the care of tasks that both servers keep.             *)

Custody == INSTANCE TaskCustody
  WITH fresh <- {t \in Tasks : log[t] = "Initial" \/ t \in queue},
       carrying <- [p \in Providers |-> Carried(p)],
       retired <- {p \in Providers : offline[p] = "over"}

\* A task leaves the queue once, for one provider that has not timed out or for good;
\* whatever is pulled and added again, none comes back from a provider.
TsImplementsCustody == Custody!Spec
===============================================================================
