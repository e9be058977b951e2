# TLA+ models of project-genai

project-genai brings image generation requests to GPU nodes: users post tasks over HTTP,
nodes connect over websockets, and a server in between schedules the tasks on the nodes,
keeps their results and hands them back. These modules model the server that
`docker-compose.yml` builds, `backend-python`, as the asyncio program it is: one event
loop, whose coroutines interleave at every `await` that suspends. Two more modules
model the previous server in TypeScript, `backend`, and the command line tool that starts
nodes, `genai-cli`.

Paths below are relative to the repository; `dispatcher/` stands for
`backend-python/src/dispatcher/`, `run.py`, `ws_connection.py` and `storage.py` for the
files of `backend-python/src/`.

## 1. The system

| Component | State | Operations | Modelled in |
|---|---|---|---|
| `Dispatcher` (`dispatcher/dispatcher.py`) | `_providers`: id to `Provider` | `add_task`, `_schedule_task`, `add_provider`, `remove_provider`, `reschedule_tasks_in_progress` | `Dispatcher` |
| `Provider` (`dispatcher/provider.py`) | `_in_progress`, `_is_online`, the two callbacks, the offline wait | `schedule_task`, `abort_task`, `task_failed`, `task_completed`, `start_offline`, `stop_offline`, `restore_connection`, `on_closed`, `on_connection_lost` | `Dispatcher` |
| `Task` (`dispatcher/task.py`, `task_info.py`) | `_status`, `_provider_id`, `task_options`, a log | `set_status`, `build_task_from_query` | `Dispatcher`, `Requests`; not the log |
| `WSConnection` (`ws_connection.py`), a `NetworkConnection` | the websocket | `send_task`, `restore_connection`, `abortTask` | `Server`, its message in `Requests`; `abortTask` has no caller |
| Web server (`run.py`) | `registered_providers`, `task_ready`, `connections` | the websocket handler, `generate_image`, `add_task`, `add_comfy_task`, `health`, queries for tasks | `Server`, the checks of queries in `Requests`; queries for tasks in `Storage` |
| `UsersStorage`, `StorageManager` (`storage.py`) | `_tokens_to_users`, `_users_to_tasks`, `_task_to_users` | `get_user_id`, `add_task`, `add_result`, `get_tasks`, `get_task_data`, `get_task_data_with_verification` | `Storage`; the status of a record also in `Server` |
| Supabase branch of `storage.py` | tables of a hosted database | the same | no: `run.py` never enables it |
| Authentication (`verification.py`, `utils/jwt.py`) | none | `verify` | no: a pure library call, whose outcome is part of a query |
| Schemas (`schemas/*.json`), settings | none | validation of messages | `Requests`, constants |
| `utils/timeouts.py` | none | not imported anywhere | no |
| Previous server in TypeScript (`backend/src/`) | `EntryQueue.queue`, `Dispatcher.providers`, `providersMap`, `minCost`, `Provider.inProgress`, `offlineTimeout`, `ProviderEstimator.estimatedTime` | `addTask`, `popTask`, `pullTask`, `scheduleTask`, `asyncScheduleTask`, `addProvider`, `removeProvider`, `calcMinCost`, `startOffline`, `stopOffline`, `taskCompleted` | `TsServer`; it keeps the same `TaskCustody` |
| CLI (`genai-cli/cli.py`) | a CSV file of nodes | `create_node`, `delete_node`, `list` | `NodesFile` |
| Client node (`client-node/`) | | | no: a submodule; nodes are the environment of `Server` |

How they interact:

- An HTTP request builds a `Task`, files it in the storage, and awaits
  `dispatcher.add_task`. That picks a least busy online provider, marks the task SCHEDULED,
  puts it into the provider's set and awaits the send. `generate_image` then creates an
  event, and waits for it or for `WS_TASK_TIMEOUT`.
- A send that raises closes the provider: its `on_closed` callback calls
  `remove_provider(id)`, which takes *whatever object has that id* out of the dict and adds
  each of its tasks again - a loop with an `await` at every task, any of which may itself
  fail and close another provider, and so on within the first.
- A node registers on its websocket; a new `Provider` is added, or the one under its id
  marked online. `registered_providers` maps the websocket to the id. On a lost connection
  the handler calls `on_connection_lost`: the provider is offline for `OFFLINE_TIMEOUT`,
  then its tasks are FAILED, `on_closed` runs, and then the loss callback.
- A node's `result` or `error` takes the task out of the set of the provider now under
  the node's id, is filed (`result` only), and wakes the request.

What is hard about it: every one of those coroutines holds references it read before it
was suspended (a provider, an id, a set it is iterating over, a task), and the others run
meanwhile. Providers are named by id in the callbacks and by object in the calls; ids are
reused by each registration of a node. A late answer races reassignment, a reconnection
races the offline timeout, a result races the creation of the event that waits for it.

What makes each component correct:

- *Dispatcher and Provider*: a task is in the care of one provider at most, and of one
  while it is called SCHEDULED; a finished task is in nobody's care; `provider_id` is true;
  queues are bounded; a request comes back from `add_task`, through however many nested
  removals; a lost node leaves.
- *Web server*: a node has one registered connection; its provider is online exactly while
  it is registered, and is there at all unless the node has failed; what is completed, or
  told to a request, is stored, and generated again only when a provider was removed; a task
  that cannot be sent stays without effect, and one that
  can goes to a second node only when a provider was removed; a request is answered once, a
  waiting one at all.
- *Storage*: every token sees its own tasks, all of them, with the last result.
- *Server in TypeScript*: the cached cost turns nobody away wrongly; a task is in one place,
  and its log says which or how it ended; what a registered provider is given, its node
  gets; the provider that leaves is the one its node is
  registered with; outcomes stand.
- *CLI*: the file has the nodes that were created and not deleted, as far as the tool was told.

`PROJECT.json` lists the hazards behind these, line by line, with the properties that
cover each.

## 2. Modules

| Module | What it is |
|---|---|
| `TaskCustody` | abstract, implemented by both servers: a task enters once, has one carer, is passed on only by a retired carer to one in service, never comes back |
| `Dispatcher` | `dispatcher.py`, `provider.py`, `task.py`; implements `TaskCustody` |
| `DispatcherProofs` | the theorems about who has which task, and who is left behind, in `Dispatcher` |
| `CallProofs` | that whoever has control in `Dispatcher` can go on |
| `Requests` | data: what is asked, refused, built, sent and reported (`run.py`, `task.py`, `task_info.py`, `ws_connection.py`, the schemas) |
| `TaskService` | abstract: a task is on file before its request is answered, only a valid one reaches nodes, only one that has succeeds or is answered for, and a request is answered once |
| `Server` | EXTENDS `Dispatcher` and `Requests` with `run.py` and `ws_connection.py`; implements `TaskService` |
| `ServerProofs` | the theorems about connections and records in `Server`; that it does with the dispatcher what `Dispatcher` allows |
| `ServiceProofs` | the theorems about what nodes and users see of `Server` |
| `TaskRecords` | abstract: a task belongs to the token that posted it, results are shown to that token |
| `Storage` | `storage.py` in memory; implements `TaskRecords` |
| `StorageProofs` | the theorems about `Storage` |
| `TsServer` | `backend/src`: entry queue, dispatcher, providers, websocket events and requests; implements `TaskCustody` |
| `TsServerProofs` | the theorems about `TsServer` |
| `NodesFile` | `genai-cli/cli.py`: invocations that share a file |
| `NodesFileProofs` | the theorems about `NodesFile` |
| `MCDispatcher`, `MCServer`, `MCStorage`, `MCTsServer`, `MCNodesFile` | constants for TLC |

### Dispatcher

*Control.* `running` names the activity that has control; `None` means the event loop may
resume any suspended one or start another. There are three kinds of activity: a task `t`
stands for the HTTP request that created it and is inside `add_task`; a handler `w` for a
websocket handler inside `on_connection_lost`; a provider `p` for the loop of
`reschedule_tasks_in_progress` that empties `p`. A provider is emptied at most once in its
life, since it is popped from the dict first, so one program counter per object is enough.
That loop runs inside the activity that closed `p`, kept as `caller[p]`; nesting
(a send inside a loop fails and closes the next provider) is the chain of callers.
`pc` is `"sending"` or `"offline"` where the coroutine is suspended, and any other value
but `"idle"` and `"done"` where code is running or waiting for a call to return.

*Steps.* Code between two suspensions is one atomic step, or several with `running` set to
the same activity, so that nothing comes between them. A send always suspends in the model;
one that returns at once is a send resumed first of all.

| Action | Code |
|---|---|
| `AddTask`, `AddTaskIn`, `Assign`, `LeastBusy` | `Dispatcher.add_task`, `_schedule_task`, `Task.set_status`, the start of `Provider.schedule_task` |
| `SendReturns`, `SendRaises`, `OnClosed` | the rest of `schedule_task`, `on_closed`, `remove_this_provider` |
| `Reschedule`, `RescheduleNext`, `RescheduleDone` | `reschedule_tasks_in_progress`, `remove_provider` |
| `AddProvider`, `RestoreConnection` | `add_provider`, `restore_connection` with `stop_offline` |
| `TaskCompleted`, `TaskFailed`, `AbortTask` | the methods of those names |
| `OnConnectionLost`, `OfflineTimeout`, `ConnectionLostCallback`, `HandlerReturns` | `on_connection_lost`, `start_offline`, the loss callback |

*Choices.* Ties between equally busy providers are broken in any way, where the code takes
the first of the dict, and the loop visits a set in any order, as Python does. The five
attempts of `add_task` are one: no attempt that finds no provider suspends, so all fail
alike. `stop_offline` sets `_is_online` and no more: `self._offline_event.set` is not a call.
`NetworkConnection.send_task`, which sets SENT, is overridden by `WSConnection`, which does
not; the model has the latter (see the end of section 6). uuid collisions are ignored.

### Server

`Server` adds the connections as the library sees them (`link`), the handlers in their
receive loop (`receiving`), `registered_providers` (`registered`), the connection inside
each provider's `WSConnection` (`wsOf`), what has reached a node (`delivered`), the options
of a task (`options`), its record (`stored`), its event (`ready`), its message in `connections` and the answer of
its request. Each action is a dispatcher action conjoined with what the handler around it
does, or leaves the dispatcher alone.

The network is the environment: a connection goes down at any moment; what the node has
sent before may still be received, in any order relative to its other connections; a task
sent while the connection is up may or may not arrive; a send raises only once the
connection is down. A node answers for tasks it has received, any number of times, on
any connection it has. A handler may also end by an exception that the loop does not
handle (`Crash`): nothing is deregistered then. A connection registers under one node id,
`NodeOf`: `run.py:298` reads `node_id` from every message, and a node that named another id, or
none, in a later one is outside the model. `Sync` are the tasks of
`POST /v1/images/generation/`, the others those of `POST /v1/tasks/`.

### Requests

The constants of `Server` choose `Queries` and `NodeReports` among `AllQueries` and
`AllReports`, which distinguish of each field what some line of the code distinguishes.
`Refused`, `Raises` and `Admitted` are the three outcomes of `check_data_and_state` with
the construction of the task: a prompt that is a number has no `len`, a pipeline without
`model` or with a key too many is no `StandardPipelineOptions`. `Sendable` says that the
message `send_task` makes of the options satisfies `TASK_SCHEMA`, which is stricter than
the checks (a prompt may be a list for them); if not, the send returns as if it had
been sent. `ImageAnswer` is the end of `generate_image`. In the answers of refused queries
the `error_code` of the check is not used, and every one is a 500: they are all "refused".
A report that fails `TASK_RESULT_SCHEMA` is logged and then processed like any other, so
that schema restricts nothing; a result's `status` matters to `generate_image` only: one
that says `inProgress` completes the task.

### Storage

A handler's calls on the storage have no suspension between them, so each request is one
action. `owner` and `result`, which map `Storage` to `TaskRecords`, read through the made-up
user id, which a token gets when it is first seen, by a post or by a query.

### TsServer

Node runs one callback to its end, and then the continuations it has made ready.
`WSConenction.sendTask` returns a promise that is resolved already, so the continuation that
puts a task into `inProgress` runs before the next event. The events are `Connect`, `Close`,
`Register`, `Result`, `Request` and `OfflineTimeout`; each waits until nothing of another is left
(`Idle`). A socket that is open may register again.

A request pulls step by step. `Request` adds its task and, unless the cached cost turns it
away, sets `pulling`. `Pull` takes any task of the queue: it is set to a provider and sent
(`Scheduled`), or nobody takes it and it is added again, which pulls again from within
(`NotScheduled`), until some task has failed `TASK_MAX_ATTEMPTS` times and is aborted. The calls do
nothing after the nested one returns, so `pulling` is all there is to their stack. `sending` is
the task whose send a provider awaits; `Settle` is its continuation. The order matters:
`calcMinCost` runs before the continuation, so `minCost` does not count the task just scheduled
and may be too low, while the next pull must find it counted.

As in `run.ts`, all providers cost the same, all tasks offer the same price and have
priority 0. So `popTask` takes any task (the order of the heap is that of `heap-js`), and the
score orders providers by their waiting time, which is four times the number of their
tasks. `abortTask`, `removeTask`, `taskFailed` with the retries of a send, and
`restoreConnection` are not reached from `run.ts`: no send rejects, and so
`provider.ts:113` never runs. `send` on a websocket
that is closed neither throws nor delivers.

### NodesFile

Each invocation reads the size of the file, writes a header if it is 0, then runs a node and
appends its row, or reads the rows, destroys a node and writes the others back. Between these
steps others may do theirs, an invocation may be interrupted, and nodes may end by themselves.
The steps on the file itself are atomic in the model.

What the platform does and what it answers are two things. It may refuse and change nothing
(`Refused`), or act although its answer is an error, late, or not recognised
(`RunNodeUnrecognised`, `DestroyUnrecognised`): the invocation then returns without writing the file.
docker kills a container that runs only; vast.ai destroys an instance that has ended as well, as
`delete_node` looks at its answer and not at the state of the instance. `unlisted` and `unremoved`
are the nodes of which an interruption or a misread answer has kept a row out, or in.

## 3. Runs

| Run | What it asks | Bounds |
|---|---|---|
| `dispatcher` | type and safety invariants, the action properties, refinement of `TaskCustody` | 2 nodes; 3 provider objects, two of them of one node; 2 tasks; 2 handlers; queue limit 1 |
| `server` | invariants of the composition, refinement of `TaskService` | 3 connections, two of one node; 3 objects; 1 waiting task; queries of each outcome, reports of each kind (1.3 million states) |
| `server_live` | every image request is answered, requests return, lost providers leave; the queue bound | 2 connections, 2 objects; 2 tasks, sendable or not, one of them waiting; queue limit 0 (0.4 million states) |
| `storage` | the three dicts agree, refinement of `TaskRecords` | 2 tokens, users, tasks and results |
| `ts_server` | invariants and outcome of the server in TypeScript, refinement of `TaskCustody` | 5 tasks; 3 objects and 3 connections of 2 nodes; threshold 1; 2 attempts (0.2 million states) |
| `nodes_file` | the file and the nodes, one invocation at a time | 4 nodes, two of docker and two of vast.ai |
| `restored_node`, `restored_connection`, `lost_wakeup`, `error_raises`, `stale_removal`, `overlap` | the findings of section 6 | the least that shows them |

*Why the bounds are enough to meet the hazards.* Two objects of one node are what it takes
for an id to change owner while a callback that names it is pending, and a second node for
tasks to go to meanwhile. Two tasks make the loop visit one while the other waits; a queue
limit of 1 with two tasks has the second task meet a queue that is at its limit; limit 0, in
`server_live`, refuses every task after the first, so that FAILED by lack of room is reached
and a second task on one provider would exceed the bound.
Two handlers can lose the same provider one after the other. In
`server`, the first node can connect, be lost and register again on another connection in
every order; one task suffices there since the properties relate connections, providers and
the record of a single task, and the interplay of several tasks is the subject of
`dispatcher`; the proofs of section 5 cover the rest. Its four queries are sent, rejected by
the schema, refused, and raise; what else `AllQueries` has differs from one of these in no step. In `server_live` each
node has one connection, so that a lost provider leaves and is not put back online; with
another connection for a node the run would have some millions of states. The number of
objects bounds the registrations of new providers; nothing else is bounded: there are no
counters.

In `ts_server` the threshold 1 stands for 50 and 2 attempts for 5. A provider holds two tasks
then and refuses the third; with five, a task that failed once may be in the queue when no
provider takes the next. Three
connections let a node register again before, during and after the timeout of its provider.
The prices are those of `run.ts`; 100 stands for `Number.MAX_SAFE_INTEGER`.

Symmetry is used in safety runs only: the objects of one node, its connections and (in
`MCDispatcher` and `MCTsServer`) the tasks, in the former the handlers too, are
interchangeable. `server_live` has none. `MCServer` does not permute tasks, as `Sync` tells them apart.

*Deadlock* is checked in all runs: `Quiescent` (also of `TsServer`) and `ServerQuiescent` are
the states where all requests and connections are over, and any other state without a successor would be an
error - a coroutine that is never resumed, say.

*Fairness* is stated in `ServerFairness`, used by `server_live` alone. What is ready is
resumed (the asyncio loop is FIFO), a send ends one way or the other (the server's websocket
keepalive closes a connection whose peer does not answer, and the send raises), the
offline timer runs out, and `wait_for` in `generate_image` ends by the event or by its timeout.
Nothing is asked of users and nodes: no one must connect, register, answer or
post. Weak fairness suffices, as whatever is ready stays ready until it runs or has
`running = None` no longer, and control always comes back to the loop.

The three liveness properties rest on the nested chain of removals ending: each removed
provider is one object fewer. `GenerationIsAnswered` is about `Sync` tasks given to the
dispatcher, those that are never sent included: the timeout answers them.

## 4. Properties

Invariants of `Dispatcher`: `OneHolder`, `ScheduledIsHeld`, `HeldIsUnfinished`,
`AssignedToHolder`, `QueueBounded`. All are about `Holds(p, t)`: the task is in the set of
`p` and, if the loop is emptying `p`, not visited yet. The set alone will not do, as visited
tasks stay in it until `clear()`. `HeldIsUnfinished` is about the status: a task that is COMPLETED
or ABORTED is in nobody's care. That a task is generated once its result is on file, which the
status does not tell, is the subject of `StoredHeldAfterRemoval`. Action properties:
`DrainIsStable` (the `for` over the live set never sees it change, so Python raises no RuntimeError), `FinishedStatusStands`
(a completed or aborted task keeps its status but for one case, a provider that is being
emptied when its offline timeout fails its whole set, tasks already visited and finished
elsewhere included; it shows that `provider.py:72` is the one place that overwrites such a status).
One more invariant is about removals that nest, `LeftBehindByLateRemoval`
(a provider that is out of the dict without having been emptied was
pushed out by the second pop of an earlier object of its node, finding 5 below, and by nothing
else). Liveness, in the server: `RequestsReturn`, `LostProviderLeaves`.
Refinement: `ImplementsCustody`.

Of `Server`: `OneConnectionPerNode`, `OnlineIffRegistered`, `CompletedIsStored`,
`AnswersAreStored` (a request is told of a result that GET `/v1/tasks/` will never show only
if a provider of a node that had the task was removed before), `UnsendableIsInert` (a task the
schema rejects reaches no node, whatever providers it is passed on to, and nobody but the
timeout answers for it), `SentTwiceAfterRemoval` (a task reaches a second node only after a
provider of one of the two was removed), `StoredHeldAfterRemoval` (a late result of a node whose task
was passed on is stored, and takes the task from nobody, so the task stays SCHEDULED with its new
provider and is generated again; that needs a removed provider of a node the task had reached),
`OnlyConnectionIsServed` (a node that registers on its
first connection is served on it while the connection is up: nobody else's failures, late
timers or nested removals take its provider away), `GenerationIsAnswered`, and the refinement
`ImplementsService`, which reads the file of a task off `stored`, the valid tasks off the
options on file, and the tasks that have reached nodes off `delivered`. Of `Storage`:
`DictsAgree`, of the three dicts together, and `ImplementsTaskRecords`.

Of `TsServer`: `CacheIsOptimistic`, `OnePlace`, `Accounted` (the log of a task tells where it is
or how it ended: none is lost among rejections, pulls that nest, sends and providers that leave),
`TimesOutUnderItsId`, `NoOverload`, `OutcomeStands`, `UnsentIsReplaced` (a task that its node does not
get is with a provider that the node has replaced by registering again, and never with the one
under its id), and `TsImplementsCustody`: with the tasks
that are asked for later or queued as the fresh ones and the providers that timed out as the retired
ones, `TsServer` never passes a task on, which `TaskCustody` allows and `Dispatcher` does.

Of `NodesFile`: `FileIsExact`. Between invocations the nodes there are, running or ended, are those
of the rows, but for the rows of deletions, and the nodes of creations, that were interrupted
or told of a failure after the platform had acted. So a container that ended by itself keeps its row, as
docker does not kill it, and an instance of vast.ai that ended loses it when it is deleted.

Each property has a mutant: a plausible slip in one operation (a failed send retried without
closing the provider, a provider left in the dict while it is emptied, a limit not compared)
under which the run reports that property.

## 5. Proofs

`DispatcherProofs` proves for all sets of nodes, objects, tasks and handlers (`Tasks` finite)
and every queue limit:

- `TypeCorrect`, `Invariance`: `Spec => []TypeOK`, `Spec => []IInv`;
- `TaskHasOneHolder`, `ScheduledTaskIsHeld`, `HeldTaskIsUnfinished`, `TaskIsAssignedToHolder`;
- `IterationIsStable`, `FinishedTaskKeepsStatus`: the two action properties;
- `QueuesAreBounded`, with cardinality facts about the finite sets of tasks;
- `OnlyLateRemovalsLeaveBehind`: finding 5 is the only way a provider loses its tasks. A step
  that takes a provider out of the dict begins to empty it (`Reschedule`), or is the second pop
  of a loop whose own object is drained from then on (`RescheduleDone`);
- `DispatcherImplementsCustody`: every step maps to a step of `TaskCustody` or a stutter.

*The inductive invariant.* None of the four safety invariants is inductive alone. That
rescheduling does not give a task to a second provider needs to know that the tasks left in
the loop are a subset of the set (`LeftInv`) and that the provider that takes the task over
is not itself being emptied: the dict holds only idle objects, each under its own id, and a
provider that was not created is empty and idle (`MapInv`). That a new task is held by nobody
is `FreshInv`. That a provider out of the dict has its set changed by no answer - and so that
the loop's iteration is stable, and that a visited task is finished only where it now is -
follows from `MapInv`: answers go through the dict. `TargetInv` says that what a suspended
activity will close is a provider. `IInv` is their conjunction with the invariants
themselves.

`CallProofs` proves for all constants `ControlIsNeverStuck`: whoever has control finds the
guard of its next action true (a handler in its callback has a provider it lost, a loop with a task to visit has a provider to
give it to or none is eligible, a loop with none left has a caller), and while nobody has
control though a call has yet to return, a loop is in a send. With the fairness of
section 3 a send ends; so this is the safety half of `RequestsReturn`.

*The call stack* of the model is what a Python `await` gives of itself, so nothing about it is
checked or claimed; the theorem needs it as lemmas. An activity under way has control or awaits
one loop that is to return to it (`ReturnsOnce`), which rests on each loop having a caller
that is one of the activities (`CallersInv`), and the callers go in no circle, said without
recursion, of sets (`NoCircle`): in any set of loops under way one awaits none of the others.
That an eligible provider implies a least busy one is the least number principle, which the
library's `WFMin` gives: it takes a relation, and so can be used where the induction
theorems, which take an operator, cannot.

The proofs assume `ConstantsAssumption` and `FiniteAssumption`, evaluated by TLC in every
run of `Dispatcher` and `Server`.

`ServerProofs` proves of `Server`, for all constants:

- `ServerTypeCorrect` and `ServerImplementsDispatcher`: `ServerSpec => Spec`. Every server step
  is a dispatcher step or leaves the dispatcher alone, as long as the types hold of both;
  that a reassigned task goes to a provider at all, and not to `None`, needs `IInv`. So every
  theorem above holds of the server, `ServerTaskHasOneHolder` for one.
- `NodeHasOneConnection` and `OnlineWhileRegistered`, by the invariant `ConnectionInv`: the two
  properties, that a provider not yet created is online, and that a connection is registered
  under the id of its node. Each needs the other: a registration takes the id from the
  connection that had it, a loss takes the provider offline.
- `CompletedTaskIsStored`: every step completes no task, or stores the result with it.

What they take from the environment is that a connection registers under one id only (`NodeOf`).

- `AnsweredResultIsStored` and `UnsendableTaskIsInert`, by the invariant `DeliveryInv`: a send is under
  way to a provider that exists, for a task that was begun (`SendsInv`); a provider's connection is one of its
  node (`WsInv`); what has reached a node passed the schema and came over a provider of it
  (`ReachedInv`); only what has reached a node is answered by one (`RecordInv`). A provider that
  was removed is never mapped again, so the excuse of `AnswersAreStored` stands once it holds.

`ServiceProofs` goes on from there, for all constants:

- `OnlyRemovalsSendTwice`, by the invariant `CourseInv`. A provider is in touch with a task when it has it in
  its set or a send to it is under way, which are two things: a task may be finished while its send
  lasts, and a loop may send a task that has left the set it came from. Of the providers not being
  emptied one at most is in touch with a task, and the nodes it has reached are that provider's or have
  lost one; while a provider being emptied still has the task to pass on, no other is
  in touch with it and every node that has it has lost a provider. Each step either gives no task to
  anybody (`Calm`) or gives one, new or left over, to one provider (`Gives`), by `CalmOrGives`; only a
  send that returns delivers, and it is calm.
- `OnlyRemovalsRepeat`, from the same invariants: a provider that has a task whose result is on file
  means, of the node that answered, a provider removed, as a node that stays answers for its own
  task and so takes it from its queue.
- `FirstConnectionIsServed`, by `LinkInv` and `SoleInv`. While the first connection of a node is up and read,
  all providers of the node that were ever created, which is to say the one, are in the dict. What
  takes a provider out is listed in `Drops`: a send that failed because its connection is down, a
  handler that leaves, the timeout or callback of one that has left, the end of a loop. Each
  has to do with a connection of the same node (`LinkInv`, `WsInv`, `OwnId`), so with this one, which
  is neither down nor left, or with a provider of the node already out of the dict.
- `ServerImplementsService`: every step is one of `TaskService` or changes nothing that users see. `RequestInv`
  says that a request that has begun is on file, that it is not answered before `add_task` has
  returned, and that it has an event only after that; `ReachedInv` and `RecordInv` give the rest.
- `WholeAnswersAreReturned`, which bounds finding 4: if no report lacks a key that `generate_image` reads,
  then no image request given to the dispatcher ends in an exception. It is the one theorem here with
  a hypothesis on the environment; the run `error_raises` shows that it is needed.

`StorageProofs` proves of `Storage`, for all constants: `StorageTypeCorrect`, `StorageDictsAgree` and
`StorageImplementsTaskRecords`. `DictsAgree` is inductive with the types. Its three parts are that a task
is filed under the user id `_task_to_users` has for it (`FiledOnce`), that no two tokens share a user
id (`OneTokenPerUser`), and that the owner of a task has a token (`OwnedByToken`); without the second, a
user would see the tasks of another, and the refinement would fail at `add_result`.

`TsServerProofs` proves of `TsServer`, for all constants with finitely many tasks: `TsTypeCorrect`,
`TaskIsInOnePlace`, `TasksAreAccounted`, `RemovalIsOwn`, `TaskOutcomeStands`, `CacheStaysOptimistic`,
`ProvidersAreNotOverloaded`, `OnlyReplacedAreUnsent`, and `TsServerKeepsCustody`. Its invariant `TsInv`
joins `OnePlace` and `Accounted` with two more. `PoolInv`: what the dispatcher has under an id is in
its set and has not timed out, and only the provider under its id can time out. It makes the rest
inductive: tasks are set to providers of the set only, and a result goes to the one under the
id, so that whatever a timed out provider has in its set is seen by no further step. `TurnInv`: a
pull finds no send awaited, and a task that has failed as often as it may is aborted. `ScheduledCarried`,
`NotScheduledEffect` and `SettleCarried` say once what a pull and a continuation do to who carries
what. The bound and the cache use the cardinality facts of the library; for the cache, sizes only
grow in `Settle`. `OnlyReplacedAreUnsent` goes by `SentInv`: the websocket of the provider under an id is
registered under that id, and closed only while the provider is offline and given nothing.

`NodesFileProofs` proves `NodesTypeCorrect` for any invocations, by way of `KnowsNode` (who is
about to write knows the node), and `FileStaysExact` for one: `Procs = {i}` says that invocations do
not overlap, and `overlap` shows that without it the theorem is false. Its invariant `FileInv` says
what file and platform have to do with each other at every label of the invocation, `unlisted` and
`unremoved` being what interruptions and misread answers have left behind.

Model-checked only: liveness, that is `RequestsReturn`, `LostProviderLeaves` and
`GenerationIsAnswered` (`ENABLED` and fairness are out of the prover's reach). Every
invariant and action property that a passing run checks is proved. The heap of
`EntryQueue`, loops and folds are abstracted to sets, so no recursive definition is left to prove
about.

## 6. Findings

1. `restored_node`: `stop_offline` has `self._offline_event.set` without the call
   (`dispatcher/provider.py:81`), so a node that is back in time is removed by the timeout
   all the same, its connection up and registered, and can be given no task until it
   registers again. `README.md:18`: the dispatcher "stores all instances of currently registered `Provider`s".
2. `restored_connection`: `Provider.restore_connection` calls the coroutine
   `WSConnection.restore_connection` without `await` (`dispatcher/provider.py:84`): a provider that is
   restored keeps the websocket it had. `README.md:16`: the connection "is then saved in an
   instance of `Provider`".
3. `lost_wakeup`: `generate_image` creates the event of its task after `add_task` has returned
   (`run.py:183`), while the result may have come in during that await: nobody is woken and
   the answer is 504. `README.md:14`: the result "is then forwarded to users".
4. `error_raises`: `generate_image` reads `connections[task_id]["status"]` first (`run.py:190`), which an
   error report need not have, nor a result (`schemas/task_result_schema.json:43`), and `["error"]` of any
   result that is not ready: a KeyError, and a plain 500, where `run.py:193` would return the error.
   `tests/test_regress.py:102`: `assert "result" in response_json or "error" in response_json`.
5. `stale_removal`: `remove_provider` pops the id again after rescheduling
   (`dispatcher/dispatcher.py:49`), and with it a new provider of the same node registered
   meanwhile, whose tasks are then never passed on. `dispatcher/README.md:13`: the
   dispatcher reassigns a task "in case the network connection with the previously assigned
   `Provider` was closed / lost".
6. `overlap`: invocations of the CLI work on what they have read (`genai-cli/cli.py:149`, `:168`), and
   overlapping ones lose rows. `genai-cli/README.md:47`: `list` "lists nodes created via the local
   instance of the cli tool".

Also seen while modelling, without a run: no task becomes SENT (`ws_connection.py:19`), where
`unit_tests/test_dispatcher.py:36` asserts it of the base class's connection. In the server in
TypeScript, `addProvider` (`backend/src/dispatcher/dispatcher.ts:26`) tests for the object and warns about
the id: a node that registers again has a second provider, the first of them back online
with a dead websocket, out of `providersMap`, and given tasks that are never sent, nor
removed. `UnsentIsReplaced` shows that this is the only way to give a task to nobody; the mutant that it
catches refuses the second provider and so leaves the node with the first one's dead websocket. A provider that stays offline fails its tasks, and `run.ts:217` aborts them, where
`backend/src/dispatcher/README.md:73` has them rescheduled "with the highest priority".

## 7. Not modelled

- The Supabase branch of `storage.py`: `run.py` never enables it, it refers to attributes `Task`
  lacks (`priority`, `num_failed_attempts`), and what it does happens in a service.
- Authentication: a pure check without state; a query says how it ends.
- Meta information, logs and logging, CORS, `hello`: no state that anything else reads.
- `utils/timeouts.py`, `utils/delay.py`: imported by nothing. The client node is a submodule; tests and
  deployment have no logic of the system.
- The contents of results: a record is PENDING or SUCCESS in `Server`, and has its urls in
  `Storage`, where two results are told apart.
- Of the server in TypeScript: prices and priorities other than those of `run.ts` (all tasks and
  nodes are alike there), connections whose sends fail (those of the unit tests only),
  authentication and the checks of a query, which refuse it before anything is changed.
- Of the CLI: the quoting of the file (it is written with `|` and read with the default `"`), and a
  rewrite seen half done.

Nothing in `TsServer` makes the queue empty: every request pulls once, and neither a new provider nor a
completed task does (`backend/src/dispatcher/dispatcher.ts:143`). No document promises it, so there is
neither a liveness property nor a finding; `Accounted` says that what is left is still queued. The entries
of `task_ready` and `connections` are never removed (`run.py:183`); that is growth, which a bounded
instance cannot tell from a use of memory that ends.
