------------------------------ MODULE Dispatcher ------------------------------
(***************************************************************************)
(* The dispatcher of backend-python: class Dispatcher (dispatcher.py), the *)
(* Provider objects it schedules tasks on (provider.py) and the status of  *)
(* the Task objects (task.py).                                             *)
(*                                                                         *)
(* The server is one asyncio event loop, so code runs alone from one       *)
(* suspension to the next.  `running' names the activity that has control; *)
(* it is None while every coroutine is suspended, and only then may the    *)
(* loop resume one or start another.  An activity is                       *)
(*   - a task t: the HTTP request that created t, inside add_task;         *)
(*   - a handler w: a websocket handler inside on_connection_lost;         *)
(*   - a provider p: the loop of reschedule_tasks_in_progress that empties *)
(*     p, running inside whichever activity closed p (`caller[p]').        *)
(* The only suspensions are the send of a task over the network ("sending")*)
(* and the wait for OFFLINE_TIMEOUT ("offline").  A send always suspends   *)
(* here; one that returns at once is a send resumed before anything else.  *)
(***************************************************************************)
EXTENDS Integers, FiniteSets

CONSTANTS
  Ids,          \* node ids, the keys of Dispatcher._providers
  Providers,    \* the Provider objects the server may construct
  IdOf,         \* the node id each object is constructed for (Provider._id)
  Tasks,        \* the Task objects, one per HTTP request
  Handlers,     \* the websocket connections, each with its handler coroutine
  MaxQueueLen,  \* MAX_PROVIDER_QUEUE_LEN
  None          \* no value (Python's None, a missing dict key)

Callers == Tasks \cup Handlers \cup Providers

ASSUME ConstantsAssumption ==
  /\ IdOf \in [Providers -> Ids]
  /\ MaxQueueLen \in Nat
  /\ Tasks \cap Handlers = {}
  /\ Tasks \cap Providers = {}
  /\ Handlers \cap Providers = {}
  /\ None \notin Ids \cup Callers

ASSUME FiniteAssumption == IsFiniteSet(Tasks)

VARIABLES
  providers,   \* Dispatcher._providers: the object stored under each id
  created,     \* the Provider objects constructed so far
  online,      \* Provider._is_online
  inProgress,  \* Provider._in_progress
  status,      \* Task._status
  assigned,    \* Task._provider_id
  pc,          \* where each activity is
  target,      \* the provider an activity sends to, or has lost
  current,     \* the task an activity sends
  left,        \* the tasks of p that the loop emptying p has yet to visit
  caller,      \* the activity the loop emptying p returns to
  removes,     \* whether that loop runs inside remove_provider
  running      \* the activity in control, None when the event loop is

stateVars == <<providers, created, online, inProgress, status, assigned>>
frameVars == <<pc, target, current, left, caller, removes, running>>
vars == <<stateVars, frameVars>>

Statuses == {"UNSCHEDULED", "SCHEDULED", "SENT", "ABORTED", "COMPLETED", "FAILED"}
Places == {"idle", "sending", "added", "offline", "closed", "returning",
           "draining", "drained", "done"}

TypeOK ==
  /\ providers \in [Ids -> Providers \cup {None}]
  /\ created \subseteq Providers
  /\ online \in [Providers -> BOOLEAN]
  /\ inProgress \in [Providers -> SUBSET Tasks]
  /\ status \in [Tasks -> Statuses]
  /\ assigned \in [Tasks -> Ids \cup {None}]
  /\ pc \in [Callers -> Places]
  /\ target \in [Callers -> Providers \cup {None}]
  /\ current \in [Callers -> Tasks \cup {None}]
  /\ left \in [Providers -> SUBSET Tasks]
  /\ caller \in [Providers -> Callers \cup {None}]
  /\ removes \in [Providers -> BOOLEAN]
  /\ running \in Callers \cup {None}

Init ==
  /\ providers = [i \in Ids |-> None]
  /\ created = {}
  /\ online = [p \in Providers |-> TRUE]
  /\ inProgress = [p \in Providers |-> {}]
  /\ status = [t \in Tasks |-> "UNSCHEDULED"]
  /\ assigned = [t \in Tasks |-> None]
  /\ pc = [a \in Callers |-> "idle"]
  /\ target = [a \in Callers |-> None]
  /\ current = [a \in Callers |-> None]
  /\ left = [p \in Providers |-> {}]
  /\ caller = [p \in Providers |-> None]
  /\ removes = [p \in Providers |-> FALSE]
  /\ running = None

Mapped(p) == providers[IdOf[p]] = p

\* Where a sending activity goes on once schedule_task has returned.
AfterSend(a) == IF a \in Tasks THEN "added" ELSE "draining"

-------------------------------------------------------------------------------
(* Scheduling one task: Dispatcher._schedule_task under add_task.          *)

QueueLength(p) == Cardinality(inProgress[p])

EligibleAnyLength == {p \in Providers : Mapped(p) /\ online[p]}

Eligible == {p \in Providers : Mapped(p) /\ online[p] /\ QueueLength(p) <= MaxQueueLen}

\* Ties go to the provider that comes first in the dict; here to any of them.
LeastBusy == {p \in Eligible : \A q \in Eligible : QueueLength(p) <= QueueLength(q)}

AssignObject(t, p) ==
  /\ status' = [status EXCEPT ![t] = "SCHEDULED"]
  /\ assigned' = [assigned EXCEPT ![t] = p]

AssignOnce(t, p) ==
  /\ status' = [status EXCEPT ![t] = "SCHEDULED"]
  /\ assigned' = [assigned EXCEPT ![t] = IF @ = None THEN IdOf[p] ELSE @]

\* task.set_status(ScheduledPayload(provider_id, ...))
Assign(t, p) ==
  /\ status' = [status EXCEPT ![t] = "SCHEDULED"]
  /\ assigned' = [assigned EXCEPT ![t] = IdOf[p]]

\* Activity a adds task t: it is given to a least busy provider and its send
\* starts, or, with no provider to take it in MAX_SCHEDULING_ATTEMPTS tries (none
\* of which suspends, so all of which fail alike), it is failed and a goes on.
AddTaskIn(a, t) ==
  \/ \E p \in LeastBusy :
       /\ Assign(t, p)
       /\ inProgress' = [inProgress EXCEPT ![p] = @ \cup {t}]
       /\ target' = [target EXCEPT ![a] = p]
       /\ current' = [current EXCEPT ![a] = t]
       /\ pc' = [pc EXCEPT ![a] = "sending"]
       /\ running' = None
  \/ /\ Eligible = {}
     /\ status' = [status EXCEPT ![t] = "FAILED"]
     /\ pc' = [pc EXCEPT ![a] = AfterSend(a)]
     /\ running' = a
     /\ UNCHANGED <<assigned, inProgress, target, current>>

\* The HTTP request of t calls dispatcher.add_task(t).
AddTask(t) ==
  /\ running = None
  /\ pc[t] = "idle"
  /\ AddTaskIn(t, t)
  /\ UNCHANGED <<providers, created, online, left, caller, removes>>

\* add_task returns to the request.
AddTaskReturns(t) ==
  /\ running = t
  /\ pc[t] = "added"
  /\ pc' = [pc EXCEPT ![t] = "done"]
  /\ running' = None
  /\ UNCHANGED <<stateVars, target, current, left, caller, removes>>

-------------------------------------------------------------------------------
(* Emptying a provider: reschedule_tasks_in_progress and remove_provider.  *)

\* `provider = self.providers[provider_id]': p stays in the dict while emptied.
RescheduleInPlace(a, at, id, removing) ==
  \/ /\ providers[id] = None
     /\ pc' = [pc EXCEPT ![a] = at]
     /\ running' = a
     /\ UNCHANGED <<providers, left, caller, removes>>
  \/ \E p \in Providers :
       /\ providers[id] = p
       /\ pc[p] = "idle"
       /\ pc' = [pc EXCEPT ![a] = at, ![p] = "draining"]
       /\ left' = [left EXCEPT ![p] = inProgress[p]]
       /\ caller' = [caller EXCEPT ![p] = a]
       /\ removes' = [removes EXCEPT ![p] = removing]
       /\ running' = p
       /\ UNCHANGED providers

\* The provider is popped and its tasks are forgotten.
RemoveOnly(a, at, id, removing) ==
  /\ providers' = [providers EXCEPT ![id] = None]
  /\ pc' = [pc EXCEPT ![a] = at]
  /\ running' = a
  /\ UNCHANGED <<left, caller, removes>>

\* Activity a calls reschedule_tasks_in_progress(id), inside remove_provider if
\* `removing', and goes on from `at' when the call returns: at once when no
\* provider has that id, else when the provider popped from the dict is empty.
Reschedule(a, at, id, removing) ==
  \/ /\ providers[id] = None
     /\ pc' = [pc EXCEPT ![a] = at]
     /\ running' = a
     /\ UNCHANGED <<providers, left, caller, removes>>
  \/ \E p \in Providers :
       /\ providers[id] = p
       /\ providers' = [providers EXCEPT ![id] = None]
       /\ pc' = [pc EXCEPT ![a] = at, ![p] = "draining"]
       /\ left' = [left EXCEPT ![p] = inProgress[p]]
       /\ caller' = [caller EXCEPT ![p] = a]
       /\ removes' = [removes EXCEPT ![p] = removing]
       /\ running' = p

\* The loop visits the next of p's tasks and adds it to the dispatcher again.
RescheduleNext(p) ==
  /\ running = p
  /\ pc[p] = "draining"
  /\ \E t \in left[p] :
       /\ left' = [left EXCEPT ![p] = @ \ {t}]
       /\ AddTaskIn(p, t)
  /\ UNCHANGED <<providers, created, online, caller, removes>>

\* The loop has visited all of p's tasks: p's set is cleared, remove_provider
\* pops whatever provider has p's id by now, and the caller goes on.
RescheduleDone(p) ==
  /\ running = p
  /\ pc[p] = "draining"
  /\ left[p] = {}
  /\ inProgress' = [inProgress EXCEPT ![p] = {}]
  /\ providers' = IF removes[p] THEN [providers EXCEPT ![IdOf[p]] = None]
                  ELSE providers
  /\ pc' = [pc EXCEPT ![p] = "drained"]
  /\ running' = caller[p]
  /\ caller' = [caller EXCEPT ![p] = None]
  /\ removes' = [removes EXCEPT ![p] = FALSE]
  /\ UNCHANGED <<created, online, status, assigned, target, current, left>>

-------------------------------------------------------------------------------
(* The end of a send: Provider.schedule_task and on_closed.                *)

\* p.on_closed(): the callback that add_provider set runs remove_provider with
\* the id of p, be it p or another object that has the id by now.
OnClosed(a, at, p) == Reschedule(a, at, IdOf[p], TRUE)

EndSend(a) ==
  /\ pc[a] = "sending"
  /\ target' = [target EXCEPT ![a] = None]
  /\ current' = [current EXCEPT ![a] = None]

\* send_task returns.
SendReturns(a) ==
  /\ running = None
  /\ EndSend(a)
  /\ pc' = [pc EXCEPT ![a] = AfterSend(a)]
  /\ running' = a
  /\ UNCHANGED <<stateVars, left, caller, removes>>

\* A failed send is tried again elsewhere, its provider kept.
SendRaisesAndRetries(a) ==
  /\ running = None
  /\ pc[a] = "sending"
  /\ AddTaskIn(a, current[a])
  /\ UNCHANGED <<providers, created, online, left, caller, removes>>

\* send_task raises: the provider the task was sent to is closed.
SendRaises(a) ==
  /\ running = None
  /\ EndSend(a)
  /\ OnClosed(a, AfterSend(a), target[a])
  /\ UNCHANGED <<created, online, inProgress, status, assigned>>

-------------------------------------------------------------------------------
(* What the server calls on the dispatcher and on the providers in it.     *)

\* A new Provider object is added (add_provider leaves a taken id alone).
AddProvider(p) ==
  /\ running = None
  /\ p \notin created
  /\ providers[IdOf[p]] = None
  /\ created' = created \cup {p}
  /\ providers' = [providers EXCEPT ![IdOf[p]] = p]
  /\ UNCHANGED <<online, inProgress, status, assigned, frameVars>>

\* restore_connection of the provider stored under id: stop_offline marks it
\* online and nothing else; `_offline_event.set' is not called, so the wait of
\* start_offline goes on to its timeout.
RestoreConnection(id) ==
  /\ running = None
  /\ providers[id] # None
  /\ online' = [online EXCEPT ![providers[id]] = TRUE]
  /\ UNCHANGED <<providers, created, inProgress, status, assigned, frameVars>>

\* The status is set and the task stays in the queue.
FinishKeeping(p, t, s) ==
  /\ running = None
  /\ Mapped(p)
  /\ t \in inProgress[p]
  /\ status' = [status EXCEPT ![t] = s]
  /\ UNCHANGED <<providers, created, online, inProgress, assigned, frameVars>>

\* t leaves p's queue with a final status s.
Finish(p, t, s) ==
  /\ running = None
  /\ Mapped(p)
  /\ t \in inProgress[p]
  /\ inProgress' = [inProgress EXCEPT ![p] = @ \ {t}]
  /\ status' = [status EXCEPT ![t] = s]
  /\ UNCHANGED <<providers, created, online, assigned, frameVars>>

TaskCompleted(p, t) == Finish(p, t, "COMPLETED")
TaskFailed(p, t) == Finish(p, t, "FAILED")
\* NetworkConnection.abort_task neither suspends nor raises.
AbortTask(p, t) == Finish(p, t, "ABORTED")

-------------------------------------------------------------------------------
(* A lost connection: Provider.on_connection_lost and start_offline.       *)

\* Handler w lost the connection of p.  p goes offline and w waits for the
\* timeout or, with p offline already, goes straight to the callback.
OnConnectionLost(w, p) ==
  /\ running = None
  /\ pc[w] = "idle"
  /\ Mapped(p)
  /\ target' = [target EXCEPT ![w] = p]
  /\ \/ /\ online[p]
        /\ online' = [online EXCEPT ![p] = FALSE]
        /\ pc' = [pc EXCEPT ![w] = "offline"]
        /\ UNCHANGED <<providers, left, caller, removes, running>>
     \/ /\ ~online[p]
        /\ Reschedule(w, "returning", IdOf[p], FALSE)
        /\ UNCHANGED online
  /\ UNCHANGED <<created, inProgress, status, assigned, current>>

\* The timeout fails p's tasks and leaves p in the dispatcher.
OfflineTimeoutKeeping(w) ==
  /\ running = None
  /\ pc[w] = "offline"
  /\ status' = [t \in Tasks |-> IF t \in inProgress[target[w]] THEN "FAILED"
                                ELSE status[t]]
  /\ pc' = [pc EXCEPT ![w] = "returning"]
  /\ running' = w
  /\ UNCHANGED <<providers, created, online, inProgress, assigned, target,
                 current, left, caller, removes>>

\* OFFLINE_TIMEOUT runs out: every task in the lost provider's set is failed and
\* the provider is closed.
OfflineTimeout(w) ==
  /\ running = None
  /\ pc[w] = "offline"
  /\ status' = [t \in Tasks |-> IF t \in inProgress[target[w]] THEN "FAILED"
                                ELSE status[t]]
  /\ OnClosed(w, "closed", target[w])
  /\ UNCHANGED <<created, online, inProgress, assigned, target, current>>

\* start_offline has returned: on_connection_lost calls its callback, which
\* reschedules the tasks of whatever provider has the id by now.
ConnectionLostCallback(w) ==
  /\ running = w
  /\ pc[w] = "closed"
  /\ Reschedule(w, "returning", IdOf[target[w]], FALSE)
  /\ UNCHANGED <<created, online, inProgress, status, assigned, target, current>>

\* on_connection_lost returns to the handler.
HandlerReturns(w) ==
  /\ running = w
  /\ pc[w] = "returning"
  /\ pc' = [pc EXCEPT ![w] = "done"]
  /\ target' = [target EXCEPT ![w] = None]
  /\ running' = None
  /\ UNCHANGED <<stateVars, current, left, caller, removes>>

-------------------------------------------------------------------------------
(* Next and the specification.                                             *)

\* Every request and every handler has been served: nothing needs to happen.
Quiescent ==
  /\ running = None
  /\ \A t \in Tasks : pc[t] = "done"
  /\ \A w \in Handlers : pc[w] \in {"idle", "done"}
  /\ UNCHANGED vars

Next ==
  \/ \E t \in Tasks : AddTask(t) \/ AddTaskReturns(t)
  \/ \E a \in Tasks \cup Providers : SendReturns(a) \/ SendRaises(a)
  \/ \E p \in Providers : AddProvider(p) \/ RescheduleNext(p) \/ RescheduleDone(p)
  \/ \E i \in Ids : RestoreConnection(i)
  \/ \E p \in Providers, t \in Tasks :
       TaskCompleted(p, t) \/ TaskFailed(p, t) \/ AbortTask(p, t)
  \/ \E w \in Handlers :
       \/ \E p \in Providers : OnConnectionLost(w, p)
       \/ OfflineTimeout(w)
       \/ ConnectionLostCallback(w)
       \/ HandlerReturns(w)
  \/ Quiescent

Spec == Init /\ [][Next]_vars

-------------------------------------------------------------------------------
(* Properties.                                                             *)

\* p is responsible for t: t is in its queue and, if p is being emptied, the
\* loop has yet to visit it (visited tasks stay in the set until clear()).
Holds(p, t) == t \in inProgress[p] /\ (pc[p] = "idle" \/ t \in left[p])

\* A task is never in the care of two providers, whatever connections fail while
\* it is being passed on (add_task, reschedule_tasks_in_progress).
OneHolder ==
  \A t \in Tasks, p, q \in Providers : Holds(p, t) /\ Holds(q, t) => p = q

\* A task called SCHEDULED is in some provider's care: rescheduling never drops a
\* task between the queue it leaves and the queue it joins.
ScheduledIsHeld ==
  \A t \in Tasks : status[t] = "SCHEDULED" => \E p \in Providers : Holds(p, t)

\* A task in some provider's care is not one that Task._status calls completed or aborted:
\* the answer that finished it took it from the queue it was in, and no other provider, nor
\* a loop that suspended meanwhile, has it left.  (A late answer, of a node whose provider
\* has not the task any more, leaves the status: see StoredHeldAfterRemoval in Server.)
HeldIsUnfinished ==
  \A t \in Tasks, p \in Providers :
    Holds(p, t) => status[t] \notin {"COMPLETED", "ABORTED"}

\* Task.provider_id names the node that is responsible for the task, after any
\* number of passes from one provider to another (Task.set_status).
AssignedToHolder ==
  \A t \in Tasks, p \in Providers : Holds(p, t) => assigned[t] = IdOf[p]

\* No provider's queue exceeds the limit by more than the one task that the
\* comparison `queue_length > MAX_PROVIDER_QUEUE_LEN' lets through, however many
\* tasks the providers that were removed had (dispatcher.py:66).
QueueBounded == \A p \in Providers : QueueLength(p) <= MaxQueueLen + 1

\* The set that reschedule_tasks_in_progress iterates over does not change until
\* the iteration is over, though the loop suspends at every task: Python would
\* raise RuntimeError from the `for' (dispatcher.py:58).
DrainIsStable ==
  [][\A p \in Providers :
       pc[p] \in {"draining", "sending"} /\ pc'[p] \in {"draining", "sending"}
         => inProgress'[p] = inProgress[p]]_vars

\* A completed or aborted task keeps its status, except that the timeout of a
\* lost provider fails what is left in the set of that provider, finished
\* elsewhere or not (provider.py:72).
FinishedStatusStands ==
  [][\A t \in Tasks :
       status[t] \in {"COMPLETED", "ABORTED"} /\ status'[t] # status[t]
         => \E w \in Handlers : /\ pc[w] = "offline"
                                /\ pc'[w] = "closed"
                                /\ t \in inProgress[target[w]]
                                /\ pc[target[w]] # "idle"]_vars

\* A provider that is out of the dispatcher without having been emptied was pushed
\* out by the removal of an earlier object of its node, whose second pop of the id
\* came late; nothing else leaves tasks behind (dispatcher.py:49).
LeftBehindByLateRemoval ==
  \A p \in created : ~Mapped(p) /\ pc[p] = "idle" =>
    \E q \in created \ {p} : IdOf[q] = IdOf[p] /\ pc[q] = "drained"

\* Every request whose task is being sent is answered in the end, through any
\* chain of providers that fail while they take each other's tasks over.
RequestsReturn == \A t \in Tasks : pc[t] = "sending" ~> pc[t] = "done"

\* A provider whose connection is lost is taken out of the dispatcher in the end,
\* or comes back online (start_offline).
LostProviderLeaves ==
  \A w \in Handlers, p \in Providers :
    (pc[w] = "offline" /\ target[w] = p) ~> (~Mapped(p) \/ online[p])

-------------------------------------------------------------------------------
(* The promise about the care of tasks.                                    *)

fresh == {t \in Tasks : pc[t] = "idle"}
carrying == [p \in Providers |-> {t \in Tasks : Holds(p, t)}]
retired == {p \in Providers : pc[p] # "idle"}

Custody == INSTANCE TaskCustody
  WITH fresh <- fresh, carrying <- carrying, retired <- retired

\* Whatever interleaves, the dispatcher does with tasks what TaskCustody allows:
\* a removed provider passes each of its tasks on at most once, to a provider in
\* service, and no task that left the dispatcher is taken up again.
ImplementsCustody == Custody!Spec
===============================================================================
