--------------------------- MODULE DispatcherProofs ---------------------------
(***************************************************************************)
(* Proofs about Dispatcher, for any sets of nodes, objects, tasks and      *)
(* handlers and any queue limit.                                           *)
(***************************************************************************)
EXTENDS Dispatcher, FiniteSetTheorems, TLAPS

-------------------------------------------------------------------------------
(* The inductive invariant.                                                *)

\* The dict holds created providers under their ids, none of them being emptied.
MapInv ==
  /\ \A i \in Ids : providers[i] # None =>
       /\ providers[i] \in created
       /\ IdOf[providers[i]] = i
       /\ pc[providers[i]] = "idle"
  /\ \A p \in Providers \ created : pc[p] = "idle" /\ inProgress[p] = {}

\* The loop that empties a provider has its unvisited tasks from the set.
LeftInv ==
  \A p \in Providers :
    /\ left[p] \subseteq inProgress[p]
    /\ pc[p] \in {"idle", "drained"} => left[p] = {}
    /\ pc[p] = "drained" => inProgress[p] = {}
    /\ pc[p] \in {"idle", "draining", "sending", "drained"}

\* A task whose request has not begun is unknown to every provider.
FreshInv ==
  \A t \in Tasks : pc[t] = "idle" =>
    /\ status[t] = "UNSCHEDULED"
    /\ \A p \in Providers : t \notin inProgress[p]

\* What an activity sends to, or has lost, is a provider; what it sends, a task.
TargetInv ==
  \A a \in Callers :
    /\ pc[a] \in {"sending", "offline", "closed"} => target[a] \in Providers
    /\ pc[a] = "sending" => current[a] \in Tasks

\* The inductive invariant behind the safety properties: a provider out of the
\* dict is out of reach of every handler, so its set is changed by its own loop.
IInv ==
  /\ TypeOK
  /\ MapInv
  /\ LeftInv
  /\ FreshInv
  /\ TargetInv
  /\ OneHolder
  /\ ScheduledIsHeld
  /\ HeldIsUnfinished
  /\ AssignedToHolder

-------------------------------------------------------------------------------
(* Types.                                                                  *)

LEMMA AddTaskInType ==
  ASSUME TypeOK, NEW a \in Tasks \cup Providers, NEW t \in Tasks, AddTaskIn(a, t)
  PROVE  /\ status' \in [Tasks -> Statuses]
         /\ assigned' \in [Tasks -> Ids \cup {None}]
         /\ inProgress' \in [Providers -> SUBSET Tasks]
         /\ target' \in [Callers -> Providers \cup {None}]
         /\ current' \in [Callers -> Tasks \cup {None}]
         /\ pc' \in [Callers -> Places]
         /\ running' \in Callers \cup {None}
<1>1. CASE Eligible = {}
  <2>1. LeastBusy = {}
    BY <1>1 DEF LeastBusy
  <2> QED
    BY <2>1 DEF AddTaskIn, TypeOK, AfterSend, Callers, Statuses, Places
<1>2. CASE Eligible # {}
  <2>1. PICK p \in Providers :
          /\ Assign(t, p)
          /\ inProgress' = [inProgress EXCEPT ![p] = @ \cup {t}]
          /\ target' = [target EXCEPT ![a] = p]
          /\ current' = [current EXCEPT ![a] = t]
          /\ pc' = [pc EXCEPT ![a] = "sending"]
          /\ running' = None
    BY <1>2 DEF AddTaskIn, LeastBusy, Eligible
  <2>2. IdOf[p] \in Ids
    BY ConstantsAssumption
  <2> QED
    BY <2>1, <2>2 DEF TypeOK, Assign, Callers, Statuses, Places
<1> QED
  BY <1>1, <1>2

LEMMA RescheduleType ==
  ASSUME TypeOK, NEW a \in Callers, NEW at \in Places, NEW id,
         NEW removing \in BOOLEAN, Reschedule(a, at, id, removing)
  PROVE  /\ providers' \in [Ids -> Providers \cup {None}]
         /\ left' \in [Providers -> SUBSET Tasks]
         /\ caller' \in [Providers -> Callers \cup {None}]
         /\ removes' \in [Providers -> BOOLEAN]
         /\ pc' \in [Callers -> Places]
         /\ running' \in Callers \cup {None}
  BY DEF Reschedule, TypeOK, Callers, Places

LEMMA TypeStep == TypeOK /\ [Next]_vars => TypeOK'
<1> SUFFICES ASSUME TypeOK, [Next]_vars PROVE TypeOK'
  OBVIOUS
<1> USE DEF stateVars, frameVars
<1>1. ASSUME NEW t \in Tasks, AddTask(t) PROVE TypeOK'
  BY <1>1, AddTaskInType DEF AddTask, TypeOK
<1>2. ASSUME NEW t \in Tasks, AddTaskReturns(t) PROVE TypeOK'
  BY <1>2 DEF AddTaskReturns, TypeOK, Places
<1>3. ASSUME NEW a \in Tasks \cup Providers, SendReturns(a) PROVE TypeOK'
  BY <1>3 DEF SendReturns, EndSend, AfterSend, TypeOK, Places, Callers
<1>4. ASSUME NEW a \in Tasks \cup Providers, SendRaises(a) PROVE TypeOK'
  <2>1. AfterSend(a) \in Places /\ a \in Callers
    BY DEF AfterSend, Places, Callers
  <2> QED
    BY <1>4, <2>1, RescheduleType DEF SendRaises, OnClosed, EndSend, TypeOK
<1>5. ASSUME NEW p \in Providers, AddProvider(p) PROVE TypeOK'
  BY <1>5 DEF AddProvider, TypeOK
<1>6. ASSUME NEW p \in Providers, RescheduleNext(p) PROVE TypeOK'
  <2>1. PICK t \in left[p] : /\ left' = [left EXCEPT ![p] = @ \ {t}]
                             /\ AddTaskIn(p, t)
    BY <1>6 DEF RescheduleNext
  <2>2. t \in Tasks
    BY <2>1 DEF TypeOK
  <2> QED
    BY <1>6, <2>1, <2>2, AddTaskInType DEF RescheduleNext, TypeOK
<1>7. ASSUME NEW p \in Providers, RescheduleDone(p) PROVE TypeOK'
  BY <1>7 DEF RescheduleDone, TypeOK, Places
<1>8. ASSUME NEW i \in Ids, RestoreConnection(i) PROVE TypeOK'
  BY <1>8 DEF RestoreConnection, TypeOK
<1>9. ASSUME NEW p \in Providers, NEW t \in Tasks,
             TaskCompleted(p, t) \/ TaskFailed(p, t) \/ AbortTask(p, t)
      PROVE TypeOK'
  BY <1>9 DEF TaskCompleted, TaskFailed, AbortTask, Finish, TypeOK, Statuses
<1>10. ASSUME NEW w \in Handlers, NEW p \in Providers, OnConnectionLost(w, p)
       PROVE TypeOK'
  <2>1. CASE ~online[p]
    <3>1. Reschedule(w, "returning", IdOf[p], FALSE)
      BY <1>10, <2>1 DEF OnConnectionLost
    <3>2. w \in Callers /\ "returning" \in Places
      BY DEF Places, Callers
    <3>3. /\ providers' \in [Ids -> Providers \cup {None}]
          /\ left' \in [Providers -> SUBSET Tasks]
          /\ caller' \in [Providers -> Callers \cup {None}]
          /\ removes' \in [Providers -> BOOLEAN]
          /\ pc' \in [Callers -> Places]
          /\ running' \in Callers \cup {None}
      BY <3>1, <3>2, RescheduleType
    <3> QED
      BY <1>10, <2>1, <3>3 DEF OnConnectionLost, TypeOK, Callers
  <2>2. CASE online[p]
    <3>1. /\ online' = [online EXCEPT ![p] = FALSE]
          /\ pc' = [pc EXCEPT ![w] = "offline"]
          /\ target' = [target EXCEPT ![w] = p]
          /\ UNCHANGED <<providers, left, caller, removes, running>>
          /\ UNCHANGED <<created, inProgress, status, assigned, current>>
      BY <1>10, <2>2 DEF OnConnectionLost
    <3> QED
      BY <3>1 DEF TypeOK, Places, Callers
  <2> QED
    BY <2>1, <2>2
<1>11. ASSUME NEW w \in Handlers, OfflineTimeout(w) PROVE TypeOK'
  BY <1>11, RescheduleType DEF OfflineTimeout, OnClosed, TypeOK, Places, Callers, Statuses
<1>12. ASSUME NEW w \in Handlers, ConnectionLostCallback(w) PROVE TypeOK'
  BY <1>12, RescheduleType DEF ConnectionLostCallback, TypeOK, Places, Callers
<1>13. ASSUME NEW w \in Handlers, HandlerReturns(w) PROVE TypeOK'
  BY <1>13 DEF HandlerReturns, TypeOK, Places, Callers
<1>14. CASE UNCHANGED vars
  BY <1>14 DEF vars, TypeOK
<1> QED
  BY <1>1, <1>2, <1>3, <1>4, <1>5, <1>6, <1>7, <1>8, <1>9, <1>10, <1>11, <1>12,
     <1>13, <1>14 DEF Next, Quiescent

\* Every variable keeps its type: in particular no status outside TaskStatus and
\* no id outside the nodes' is ever recorded for a task.
THEOREM TypeCorrect == Spec => []TypeOK
<1>1. Init => TypeOK
  BY ConstantsAssumption DEF Init, TypeOK, Statuses, Places, Callers
<1>2. TypeOK /\ [Next]_vars => TypeOK'
  BY TypeStep
<1> QED
  BY <1>1, <1>2, PTL DEF Spec

-------------------------------------------------------------------------------
(* What a step does to the care of tasks.  The four custody invariants are *)
(* preserved by any step of one of four kinds: it leaves the holders and   *)
(* the tasks alone, it puts one task in the care of one provider, it takes *)
(* one task out of any, or it fails a set of tasks.                        *)

CustodyInv == OneHolder /\ ScheduledIsHeld /\ HeldIsUnfinished /\ AssignedToHolder

SameHolders ==
  \A p \in Providers, u \in Tasks : Holds(p, u)' <=> Holds(p, u)

PlacedAt(t, q) ==
  \A p \in Providers, u \in Tasks :
    Holds(p, u)' <=> (u # t /\ Holds(p, u)) \/ (u = t /\ p = q)

Removed(t) ==
  \A p \in Providers, u \in Tasks : Holds(p, u)' <=> u # t /\ Holds(p, u)

LEMMA SameHoldersKeep ==
  ASSUME CustodyInv, SameHolders, UNCHANGED <<status, assigned>>
  PROVE  CustodyInv'
  BY DEF CustodyInv, SameHolders, OneHolder, ScheduledIsHeld, HeldIsUnfinished,
         AssignedToHolder

LEMMA PlacedAtKeeps ==
  ASSUME CustodyInv, TypeOK, NEW t \in Tasks, NEW q \in Providers,
         PlacedAt(t, q), Assign(t, q)
  PROVE  CustodyInv'
<1>1. /\ status'[t] = "SCHEDULED" /\ assigned'[t] = IdOf[q]
      /\ \A u \in Tasks \ {t} : status'[u] = status[u] /\ assigned'[u] = assigned[u]
  BY DEF Assign, TypeOK
<1>2. OneHolder'
  BY DEF CustodyInv, PlacedAt, OneHolder
<1>3. ScheduledIsHeld'
  BY <1>1 DEF CustodyInv, PlacedAt, ScheduledIsHeld
<1>4. HeldIsUnfinished'
  BY <1>1 DEF CustodyInv, PlacedAt, HeldIsUnfinished
<1>5. AssignedToHolder'
  BY <1>1 DEF CustodyInv, PlacedAt, AssignedToHolder
<1> QED
  BY <1>2, <1>3, <1>4, <1>5 DEF CustodyInv

LEMMA RemovedKeeps ==
  ASSUME CustodyInv, TypeOK, NEW t \in Tasks, NEW s \in Statuses \ {"SCHEDULED"},
         Removed(t), status' = [status EXCEPT ![t] = s], UNCHANGED assigned
  PROVE  CustodyInv'
<1>1. status'[t] # "SCHEDULED" /\ \A u \in Tasks \ {t} : status'[u] = status[u]
  BY DEF TypeOK
<1> QED
  BY <1>1 DEF CustodyInv, Removed, OneHolder, ScheduledIsHeld, HeldIsUnfinished,
              AssignedToHolder

LEMMA FailedKeeps ==
  ASSUME CustodyInv, SameHolders, NEW S, UNCHANGED assigned,
         status' = [u \in Tasks |-> IF u \in S THEN "FAILED" ELSE status[u]]
  PROVE  CustodyInv'
<1>1. \A u \in Tasks : status'[u] = "FAILED" \/ status'[u] = status[u]
  OBVIOUS
<1> QED
  BY <1>1 DEF CustodyInv, SameHolders, OneHolder, ScheduledIsHeld,
              HeldIsUnfinished, AssignedToHolder

-------------------------------------------------------------------------------
(* The sub-operations.                                                     *)

\* A provider that can be given a task is idle; a provider being emptied is not
\* in the dict.
LEMMA MappedIsIdle ==
  ASSUME TypeOK, MapInv, NEW p \in Providers, Mapped(p)
  PROVE  pc[p] = "idle" /\ p \in created
  BY ConstantsAssumption DEF TypeOK, MapInv, Mapped, Callers

\* The two outcomes of AddTaskIn.
Accepted(a, t, q) ==
  /\ Mapped(q)
  /\ QueueLength(q) <= MaxQueueLen
  /\ Assign(t, q)
  /\ inProgress' = [inProgress EXCEPT ![q] = @ \cup {t}]
  /\ target' = [target EXCEPT ![a] = q]
  /\ current' = [current EXCEPT ![a] = t]
  /\ pc' = [pc EXCEPT ![a] = "sending"]
  /\ running' = None

Rejected(a, t) ==
  /\ status' = [status EXCEPT ![t] = "FAILED"]
  /\ pc' = [pc EXCEPT ![a] = AfterSend(a)]
  /\ running' = a
  /\ UNCHANGED <<assigned, inProgress, target, current>>

LEMMA AddTaskInOutcome ==
  ASSUME NEW a, NEW t, AddTaskIn(a, t)
  PROVE  (\E q \in Providers : Accepted(a, t, q)) \/ Rejected(a, t)
  BY DEF AddTaskIn, LeastBusy, Eligible, Accepted, Rejected

\* A call of reschedule_tasks_in_progress by an activity that is not idle
\* afterwards, and that no provider's tasks depend on, leaves holders alone.
LEMMA RescheduleKeeps ==
  ASSUME IInv, NEW a \in Callers, NEW at \in Places \ {"idle"}, NEW id \in Ids,
         NEW removing \in BOOLEAN, Reschedule(a, at, id, removing),
         UNCHANGED <<created, inProgress>>,
         a \in Providers => pc[a] = "sending" /\ at = "draining"
  PROVE  SameHolders /\ MapInv' /\ LeftInv'
<1>1. CASE providers[id] = None
  <2>1. /\ pc' = [pc EXCEPT ![a] = at]
        /\ UNCHANGED <<providers, left>>
    BY <1>1, ConstantsAssumption DEF Reschedule, Callers
  <2>2. SameHolders
    BY <2>1 DEF SameHolders, Holds, IInv, TypeOK, Callers
  <2>3. MapInv'
    BY <2>1 DEF IInv, TypeOK, MapInv, Callers
  <2>4. LeftInv'
    BY <2>1 DEF IInv, TypeOK, LeftInv, Callers
  <2> QED
    BY <2>2, <2>3, <2>4
<1>2. CASE providers[id] # None
  <2>1. PICK p \in Providers :
          /\ providers[id] = p
          /\ providers' = [providers EXCEPT ![id] = None]
          /\ pc' = [pc EXCEPT ![a] = at, ![p] = "draining"]
          /\ left' = [left EXCEPT ![p] = inProgress[p]]
    BY <1>2 DEF Reschedule
  <2>2. pc[p] = "idle" /\ IdOf[p] = id /\ p # a /\ left[p] = {} /\ p \in created
    BY <1>2, <2>1 DEF IInv, MapInv, LeftInv
  <2>3. \A q \in Providers \ {p} : /\ left'[q] = left[q]
                                   /\ q # a => pc'[q] = pc[q]
                                   /\ q = a => pc'[q] = "draining" /\ pc[q] = "sending"
    BY <2>1 DEF IInv, TypeOK, Callers
  <2>4. pc'[p] = "draining" /\ left'[p] = inProgress[p]
    BY <2>1 DEF IInv, TypeOK, Callers
  <2>5. SameHolders
    BY <2>2, <2>3, <2>4 DEF SameHolders, Holds
  <2>6. MapInv'
    <3>1. \A i \in Ids : providers'[i] # None =>
            i # id /\ providers'[i] = providers[i] /\ providers[i] # None
      BY <2>1 DEF IInv, TypeOK
    <3>2. \A i \in Ids : providers'[i] # None =>
            providers'[i] \in Providers \ {p} /\ providers'[i] # a
      BY <2>2, <3>1 DEF IInv, MapInv, TypeOK
    <3>3. \A q \in Providers \ created : q # p /\ q # a
      BY <2>2 DEF IInv, MapInv
    <3> QED
      BY <2>3, <3>1, <3>2, <3>3 DEF IInv, MapInv
  <2>7. LeftInv'
    BY <2>3, <2>4 DEF IInv, LeftInv
  <2> QED
    BY <2>5, <2>6, <2>7
<1> QED
  BY <1>1, <1>2

-------------------------------------------------------------------------------
(* What each action does to the holders.                                   *)

LEMMA AddTaskHolders ==
  ASSUME IInv, NEW t \in Tasks, AddTask(t)
  PROVE  \/ \E q \in Providers : Accepted(t, t, q) /\ PlacedAt(t, q)
         \/ Rejected(t, t) /\ Removed(t)
<1>1. /\ pc[t] = "idle" /\ UNCHANGED left
      /\ \A p \in Providers : t \notin inProgress[p] /\ t \notin left[p]
      /\ \A p \in Providers : p # t
  BY ConstantsAssumption DEF AddTask, IInv, FreshInv, LeftInv
<1>2. CASE \E q \in Providers : Accepted(t, t, q)
  <2>1. PICK q \in Providers : Accepted(t, t, q)
    BY <1>2
  <2>2. pc[q] = "idle"
    BY <2>1, MappedIsIdle DEF Accepted, IInv
  <2>3. \A p \in Providers : /\ pc'[p] = pc[p]
                             /\ p # q => inProgress'[p] = inProgress[p]
                             /\ p = q => inProgress'[p] = inProgress[p] \cup {t}
    BY <1>1, <2>1 DEF Accepted, IInv, TypeOK, Callers
  <2>4. PlacedAt(t, q)
    BY <1>1, <2>2, <2>3 DEF PlacedAt, Holds
  <2> QED
    BY <2>1, <2>4
<1>3. CASE Rejected(t, t)
  <2>1. \A p \in Providers : pc'[p] = pc[p]
    BY <1>1, <1>3 DEF Rejected, IInv, TypeOK, Callers
  <2>2. Removed(t)
    BY <1>1, <1>3, <2>1 DEF Removed, Holds, Rejected
  <2> QED
    BY <1>3, <2>2
<1> QED
  BY <1>2, <1>3, AddTaskInOutcome DEF AddTask

LEMMA RescheduleNextHolders ==
  ASSUME IInv, NEW p \in Providers, RescheduleNext(p)
  PROVE  \E t \in left[p] :
           /\ left' = [left EXCEPT ![p] = @ \ {t}]
           /\ \/ \E q \in Providers \ {p} : Accepted(p, t, q) /\ PlacedAt(t, q)
              \/ Rejected(p, t) /\ Removed(t)
<1>1. PICK t \in left[p] : /\ left' = [left EXCEPT ![p] = @ \ {t}]
                           /\ AddTaskIn(p, t)
  BY DEF RescheduleNext
<1>2. pc[p] = "draining" /\ t \in Tasks /\ Holds(p, t)
  BY <1>1 DEF RescheduleNext, IInv, TypeOK, LeftInv, Holds
<1>3. \A q \in Providers : Holds(q, t) => q = p
  BY <1>2 DEF IInv, OneHolder
<1>4. \A q \in Providers : /\ q # p => left'[q] = left[q]
                           /\ q = p => left'[q] = left[q] \ {t}
  BY <1>1 DEF IInv, TypeOK
<1>5. CASE \E q \in Providers : Accepted(p, t, q)
  <2>1. PICK q \in Providers : Accepted(p, t, q)
    BY <1>5
  <2>2. pc[q] = "idle" /\ q # p
    BY <1>2, <2>1, MappedIsIdle DEF Accepted, IInv
  <2>3. /\ pc'[p] = "sending"
        /\ \A r \in Providers :
             /\ r # p => pc'[r] = pc[r]
             /\ r # q => inProgress'[r] = inProgress[r]
             /\ r = q => inProgress'[r] = inProgress[r] \cup {t}
    BY <2>1 DEF Accepted, IInv, TypeOK, Callers
  <2>4. PlacedAt(t, q)
    BY <1>2, <1>3, <1>4, <2>2, <2>3 DEF PlacedAt, Holds
  <2> QED
    BY <1>1, <2>1, <2>2, <2>4
<1>6. CASE Rejected(p, t)
  <2>1. /\ pc'[p] = "draining"
        /\ \A r \in Providers : r # p => pc'[r] = pc[r]
    BY <1>6, ConstantsAssumption DEF Rejected, AfterSend, IInv, TypeOK, Callers
  <2>2. Removed(t)
    BY <1>2, <1>3, <1>4, <1>6, <2>1 DEF Removed, Holds, Rejected
  <2> QED
    BY <1>1, <1>6, <2>2
<1> QED
  BY <1>1, <1>5, <1>6, AddTaskInOutcome

LEMMA RescheduleDoneHolders ==
  ASSUME IInv, NEW p \in Providers, RescheduleDone(p)
  PROVE  SameHolders
  BY DEF RescheduleDone, IInv, TypeOK, Callers, SameHolders, Holds

LEMMA FinishHolders ==
  ASSUME IInv, NEW p \in Providers, NEW t \in Tasks, NEW s, Finish(p, t, s)
  PROVE  Removed(t) /\ Holds(p, t) /\ pc[p] = "idle"
<1>1. pc[p] = "idle" /\ Holds(p, t)
  BY MappedIsIdle DEF Finish, IInv, Holds
<1>2. \A q \in Providers : Holds(q, t) => q = p
  BY <1>1 DEF IInv, OneHolder
<1>3. /\ UNCHANGED <<pc, left>>
      /\ \A q \in Providers : /\ q # p => inProgress'[q] = inProgress[q]
                              /\ q = p => inProgress'[q] = inProgress[q] \ {t}
  BY DEF Finish, IInv, TypeOK, frameVars
<1>4. Removed(t)
  BY <1>1, <1>2, <1>3 DEF Removed, Holds, IInv, LeftInv
<1> QED
  BY <1>1, <1>4

LEMMA SendRaisesHolders ==
  ASSUME IInv, NEW a \in Tasks \cup Providers, SendRaises(a)
  PROVE  SameHolders /\ MapInv' /\ LeftInv'
<1>1. /\ a \in Callers
      /\ AfterSend(a) \in Places \ {"idle"}
      /\ a \in Providers => pc[a] = "sending" /\ AfterSend(a) = "draining"
      /\ IdOf[target[a]] \in Ids
  BY ConstantsAssumption
  DEF SendRaises, OnClosed, EndSend, AfterSend, Callers, Places, IInv, TargetInv
<1> QED
  BY <1>1, RescheduleKeeps DEF SendRaises, OnClosed

LEMMA OnConnectionLostHolders ==
  ASSUME IInv, NEW w \in Handlers, NEW p \in Providers, OnConnectionLost(w, p)
  PROVE  SameHolders /\ MapInv' /\ LeftInv'
<1>1. w \in Callers /\ w \notin Providers /\ IdOf[p] \in Ids
      /\ "returning" \in Places \ {"idle"}
  BY ConstantsAssumption DEF Callers, Places
<1>2. CASE online[p]
  <2>1. /\ pc' = [pc EXCEPT ![w] = "offline"]
        /\ UNCHANGED <<providers, left, created, inProgress>>
    BY <1>2 DEF OnConnectionLost
  <2>2. \A q \in Providers : pc'[q] = pc[q]
    BY <1>1, <2>1 DEF IInv, TypeOK, Callers
  <2> QED
    BY <2>1, <2>2 DEF SameHolders, Holds, IInv, TypeOK, MapInv, LeftInv
<1>3. CASE ~online[p]
  BY <1>1, <1>3, RescheduleKeeps DEF OnConnectionLost
<1> QED
  BY <1>2, <1>3

LEMMA TimeoutHolders ==
  ASSUME IInv, NEW w \in Handlers, OfflineTimeout(w) \/ ConnectionLostCallback(w)
  PROVE  SameHolders /\ MapInv' /\ LeftInv'
<1>1. /\ w \in Callers /\ w \notin Providers /\ IdOf[target[w]] \in Ids
      /\ {"returning", "closed"} \subseteq Places \ {"idle"}
  BY ConstantsAssumption
  DEF OfflineTimeout, OnClosed, ConnectionLostCallback, Callers, Places, IInv, TargetInv
<1>2. CASE OfflineTimeout(w)
  BY <1>1, <1>2, RescheduleKeeps DEF OfflineTimeout, OnClosed
<1>3. CASE ConnectionLostCallback(w)
  BY <1>1, <1>3, RescheduleKeeps DEF ConnectionLostCallback
<1> QED
  BY <1>2, <1>3

-------------------------------------------------------------------------------
(* The inductive invariant.                                                *)

LEMMA InvInit == Init => IInv
  BY ConstantsAssumption
  DEF Init, IInv, TypeOK, Statuses, Places, Callers, MapInv, LeftInv, FreshInv,
      TargetInv, OneHolder, ScheduledIsHeld, HeldIsUnfinished, AssignedToHolder, Holds

Conclusion == MapInv' /\ LeftInv' /\ FreshInv' /\ TargetInv' /\ CustodyInv'

LEMMA AddTaskKeeps ==
  ASSUME IInv, TypeOK', NEW t \in Tasks, AddTask(t)
  PROVE  Conclusion
<1>1. CustodyInv'
  <2>1. CustodyInv /\ TypeOK
    BY DEF IInv, CustodyInv
  <2>2. CASE \E q \in Providers : Accepted(t, t, q) /\ PlacedAt(t, q)
    BY <2>1, <2>2, PlacedAtKeeps DEF Accepted
  <2>3. CASE Rejected(t, t) /\ Removed(t)
    BY <2>1, <2>3, RemovedKeeps DEF Rejected, Statuses
  <2> QED
    BY <2>2, <2>3, AddTaskHolders
<1>2. /\ pc[t] = "idle" /\ t \in Callers /\ UNCHANGED <<providers, created, left>>
      /\ \A p \in Providers : p # t
      /\ (\E q \in Providers : Accepted(t, t, q)) \/ Rejected(t, t)
  BY ConstantsAssumption, AddTaskInOutcome DEF AddTask, Callers
<1>3. CASE \E q \in Providers : Accepted(t, t, q)
  <2>1. PICK q \in Providers : Accepted(t, t, q)
    BY <1>3
  <2>2. pc[q] = "idle" /\ q \in created
    BY <2>1, MappedIsIdle DEF Accepted, IInv
  <2>3. /\ \A a \in Callers \ {t} : /\ pc'[a] = pc[a] /\ target'[a] = target[a]
                                     /\ current'[a] = current[a]
        /\ pc'[t] = "sending" /\ target'[t] = q /\ current'[t] = t
        /\ \A u \in Tasks \ {t} : status'[u] = status[u]
        /\ \A p \in Providers : /\ p # q => inProgress'[p] = inProgress[p]
                                /\ p = q => inProgress'[p] = inProgress[p] \cup {t}
    BY <1>2, <2>1 DEF Accepted, Assign, IInv, TypeOK
  <2>4. MapInv' /\ LeftInv'
    BY <1>2, <2>2, <2>3 DEF IInv, TypeOK, MapInv, LeftInv, Callers
  <2>5. FreshInv' /\ TargetInv'
    BY <2>3 DEF IInv, FreshInv, TargetInv, Callers
  <2> QED
    BY <1>1, <2>4, <2>5 DEF Conclusion
<1>4. CASE Rejected(t, t)
  <2>1. /\ \A a \in Callers \ {t} : pc'[a] = pc[a]
        /\ pc'[t] = "added"
        /\ \A u \in Tasks \ {t} : status'[u] = status[u]
        /\ UNCHANGED <<inProgress, target, current>>
    BY <1>2, <1>4 DEF Rejected, AfterSend, IInv, TypeOK
  <2>2. MapInv' /\ LeftInv'
    BY <1>2, <2>1 DEF IInv, TypeOK, MapInv, LeftInv, Callers
  <2>3. FreshInv' /\ TargetInv'
    BY <2>1 DEF IInv, FreshInv, TargetInv, Callers
  <2> QED
    BY <1>1, <2>2, <2>3 DEF Conclusion
<1> QED
  BY <1>2, <1>3, <1>4

LEMMA RescheduleNextKeeps ==
  ASSUME IInv, TypeOK', NEW p \in Providers, RescheduleNext(p)
  PROVE  Conclusion
<1>1. PICK t \in left[p] :
        /\ left' = [left EXCEPT ![p] = @ \ {t}]
        /\ \/ \E q \in Providers \ {p} : Accepted(p, t, q) /\ PlacedAt(t, q)
           \/ Rejected(p, t) /\ Removed(t)
  BY RescheduleNextHolders
<1>2. /\ pc[p] = "draining" /\ p \in Callers /\ p \notin Tasks /\ t \in Tasks
      /\ Holds(p, t) /\ pc[t] # "idle" /\ UNCHANGED <<providers, created>>
  BY <1>1, ConstantsAssumption
  DEF RescheduleNext, IInv, TypeOK, LeftInv, FreshInv, Holds, Callers
<1>3. CASE \E q \in Providers \ {p} : Accepted(p, t, q) /\ PlacedAt(t, q)
  <2>1. PICK q \in Providers \ {p} : Accepted(p, t, q) /\ PlacedAt(t, q)
    BY <1>3
  <2>2. pc[q] = "idle" /\ q \in created
    BY <2>1, MappedIsIdle DEF Accepted, IInv
  <2>3. /\ \A a \in Callers \ {p} : /\ pc'[a] = pc[a] /\ target'[a] = target[a]
                                     /\ current'[a] = current[a]
        /\ pc'[p] = "sending" /\ target'[p] = q /\ current'[p] = t
        /\ \A u \in Tasks \ {t} : status'[u] = status[u]
        /\ \A r \in Providers :
             /\ r # q => inProgress'[r] = inProgress[r]
             /\ r = q => inProgress'[r] = inProgress[r] \cup {t}
             /\ r # p => left'[r] = left[r]
             /\ r = p => left'[r] = left[r] \ {t}
    BY <1>1, <1>2, <2>1 DEF Accepted, Assign, IInv, TypeOK
  <2>4. MapInv'
    BY <1>2, <2>2, <2>3 DEF IInv, TypeOK, MapInv, Callers
  <2>5. LeftInv'
    BY <1>2, <2>1, <2>2, <2>3 DEF IInv, LeftInv, Callers
  <2>6. FreshInv' /\ TargetInv'
    BY <1>2, <2>3 DEF IInv, FreshInv, TargetInv, Callers
  <2>7. CustodyInv'
    BY <1>2, <2>1, PlacedAtKeeps DEF Accepted, IInv, CustodyInv
  <2> QED
    BY <2>4, <2>5, <2>6, <2>7 DEF Conclusion
<1>4. CASE Rejected(p, t) /\ Removed(t)
  <2>1. /\ \A a \in Callers : pc'[a] = pc[a]
        /\ \A u \in Tasks \ {t} : status'[u] = status[u]
        /\ \A r \in Providers : /\ r # p => left'[r] = left[r]
                                /\ r = p => left'[r] = left[r] \ {t}
        /\ UNCHANGED <<inProgress, target, current>>
    BY <1>1, <1>2, <1>4 DEF Rejected, AfterSend, IInv, TypeOK
  <2>2. MapInv' /\ LeftInv'
    BY <1>2, <2>1 DEF IInv, TypeOK, MapInv, LeftInv, Callers
  <2>3. FreshInv' /\ TargetInv'
    BY <1>2, <2>1 DEF IInv, FreshInv, TargetInv, Callers
  <2>4. CustodyInv'
    BY <1>2, <1>4, RemovedKeeps DEF Rejected, Statuses, IInv, CustodyInv
  <2> QED
    BY <2>2, <2>3, <2>4 DEF Conclusion
<1> QED
  BY <1>1, <1>3, <1>4

LEMMA RescheduleDoneKeeps ==
  ASSUME IInv, TypeOK', NEW p \in Providers, RescheduleDone(p)
  PROVE  Conclusion
<1>1. CustodyInv'
  BY RescheduleDoneHolders, SameHoldersKeep DEF RescheduleDone, IInv, CustodyInv
<1>2. MapInv'
  BY ConstantsAssumption DEF RescheduleDone, IInv, TypeOK, MapInv, Callers
<1>3. LeftInv'
  BY DEF RescheduleDone, IInv, TypeOK, LeftInv, Callers
<1>4. FreshInv' /\ TargetInv'
  BY ConstantsAssumption
  DEF RescheduleDone, IInv, TypeOK, FreshInv, TargetInv, Callers
<1> QED
  BY <1>1, <1>2, <1>3, <1>4 DEF Conclusion

LEMMA FinishKeeps ==
  ASSUME IInv, TypeOK', NEW p \in Providers, NEW t \in Tasks,
         NEW s \in {"COMPLETED", "FAILED", "ABORTED"}, Finish(p, t, s)
  PROVE  Conclusion
<1>1. Removed(t) /\ Holds(p, t) /\ pc[p] = "idle"
  BY FinishHolders
<1>2. CustodyInv'
  BY <1>1, RemovedKeeps DEF Finish, Statuses, IInv, CustodyInv
<1>3. /\ UNCHANGED <<providers, created, pc, target, current, left>>
      /\ \A u \in Tasks \ {t} : status'[u] = status[u]
      /\ \A q \in Providers : /\ q # p => inProgress'[q] = inProgress[q]
                              /\ q = p => inProgress'[q] = inProgress[q] \ {t}
  BY DEF Finish, frameVars, IInv, TypeOK
<1>4. MapInv' /\ LeftInv'
  BY <1>1, <1>3 DEF IInv, MapInv, LeftInv
<1>5. FreshInv' /\ TargetInv'
  BY <1>1, <1>3 DEF IInv, FreshInv, TargetInv, Holds
<1> QED
  BY <1>2, <1>4, <1>5 DEF Conclusion

LEMMA SendRaisesKeeps ==
  ASSUME IInv, TypeOK', NEW a \in Tasks \cup Providers, SendRaises(a)
  PROVE  Conclusion
<1>1. SameHolders /\ MapInv' /\ LeftInv'
  BY SendRaisesHolders
<1>2. CustodyInv'
  BY <1>1, SameHoldersKeep DEF SendRaises, OnClosed, IInv, CustodyInv
<1>3. FreshInv' /\ TargetInv'
  BY ConstantsAssumption
  DEF SendRaises, OnClosed, EndSend, AfterSend, Reschedule, IInv, TypeOK, FreshInv, TargetInv, Callers
<1> QED
  BY <1>1, <1>2, <1>3 DEF Conclusion

LEMMA OnConnectionLostKeeps ==
  ASSUME IInv, TypeOK', NEW w \in Handlers, NEW p \in Providers, OnConnectionLost(w, p)
  PROVE  Conclusion
<1>1. SameHolders /\ MapInv' /\ LeftInv'
  BY OnConnectionLostHolders
<1>2. CustodyInv'
  BY <1>1, SameHoldersKeep DEF OnConnectionLost, IInv, CustodyInv
<1>3. FreshInv' /\ TargetInv'
  BY ConstantsAssumption
  DEF OnConnectionLost, Reschedule, IInv, TypeOK, FreshInv, TargetInv, Callers
<1> QED
  BY <1>1, <1>2, <1>3 DEF Conclusion

LEMMA OfflineTimeoutKeeps ==
  ASSUME IInv, TypeOK', NEW w \in Handlers, OfflineTimeout(w)
  PROVE  Conclusion
<1>1. SameHolders /\ MapInv' /\ LeftInv'
  BY TimeoutHolders
<1>2. /\ status' = [t \in Tasks |-> IF t \in inProgress[target[w]] THEN "FAILED"
                                    ELSE status[t]]
      /\ UNCHANGED <<inProgress, target, current, assigned>>
      /\ target[w] \in Providers
      /\ \A t \in Tasks : pc'[t] = "idle" => pc[t] = "idle"
      /\ \A a \in Callers : /\ pc'[a] \in {"sending", "offline", "closed"} =>
                                pc[a] \in {"sending", "offline", "closed"}
                            /\ pc'[a] = "sending" => pc[a] = "sending"
  BY ConstantsAssumption
  DEF OfflineTimeout, OnClosed, Reschedule, IInv, TypeOK, TargetInv, Callers
<1>3. CustodyInv'
  BY <1>1, <1>2, FailedKeeps DEF IInv, CustodyInv
<1>4. FreshInv' /\ TargetInv'
  BY <1>2 DEF IInv, FreshInv, TargetInv
<1> QED
  BY <1>1, <1>3, <1>4 DEF Conclusion

LEMMA ConnectionLostCallbackKeeps ==
  ASSUME IInv, TypeOK', NEW w \in Handlers, ConnectionLostCallback(w)
  PROVE  Conclusion
<1>1. SameHolders /\ MapInv' /\ LeftInv'
  BY TimeoutHolders
<1>2. CustodyInv'
  BY <1>1, SameHoldersKeep DEF ConnectionLostCallback, IInv, CustodyInv
<1>3. FreshInv' /\ TargetInv'
  BY ConstantsAssumption
  DEF ConnectionLostCallback, Reschedule, IInv, TypeOK, FreshInv, TargetInv, Callers
<1> QED
  BY <1>1, <1>2, <1>3 DEF Conclusion

LEMMA FrameKeeps ==
  ASSUME IInv, TypeOK',
         \/ \E t \in Tasks : AddTaskReturns(t)
         \/ \E a \in Tasks \cup Providers : SendReturns(a)
         \/ \E w \in Handlers : HandlerReturns(w)
         \/ \E i \in Ids : RestoreConnection(i)
         \/ UNCHANGED vars
  PROVE  Conclusion /\ SameHolders
<1>1. /\ UNCHANGED <<providers, created, inProgress, status, assigned, left>>
      /\ \A p \in Providers : pc'[p] = "idle" <=> pc[p] = "idle"
      /\ \A p \in Providers : pc'[p] = pc[p] \/ pc'[p] = "draining"
      /\ \A t \in Tasks : pc'[t] = "idle" => pc[t] = "idle"
      /\ \A a \in Callers : pc'[a] \in {"sending", "offline", "closed"} =>
           target'[a] = target[a] /\ current'[a] = current[a] /\ pc'[a] = pc[a]
  BY ConstantsAssumption
  DEF AddTaskReturns, SendReturns, EndSend, AfterSend, HandlerReturns,
      RestoreConnection, vars, stateVars, frameVars, IInv, TypeOK, Callers
<1>2. SameHolders
  BY <1>1 DEF SameHolders, Holds
<1>3. MapInv' /\ LeftInv'
  BY <1>1 DEF IInv, TypeOK, MapInv, LeftInv
<1>4. FreshInv' /\ TargetInv'
  BY <1>1 DEF IInv, FreshInv, TargetInv
<1> QED
  BY <1>1, <1>2, <1>3, <1>4, SameHoldersKeep DEF Conclusion, IInv, CustodyInv

LEMMA AddProviderKeeps ==
  ASSUME IInv, TypeOK', NEW p \in Providers, AddProvider(p)
  PROVE  Conclusion /\ SameHolders
<1>1. UNCHANGED <<inProgress, status, assigned, pc, target, current, left>>
  BY DEF AddProvider, frameVars
<1>2. SameHolders
  BY <1>1 DEF SameHolders, Holds
<1>3. MapInv'
  BY <1>1 DEF AddProvider, IInv, TypeOK, MapInv
<1>4. LeftInv' /\ FreshInv' /\ TargetInv'
  BY <1>1 DEF IInv, LeftInv, FreshInv, TargetInv
<1> QED
  BY <1>1, <1>2, <1>3, <1>4, SameHoldersKeep DEF Conclusion, IInv, CustodyInv

LEMMA InvStep == IInv /\ [Next]_vars => IInv'
<1> SUFFICES ASSUME IInv, [Next]_vars PROVE IInv'
  OBVIOUS
<1>1. TypeOK'
  BY TypeStep DEF IInv
<1>2. CASE \E t \in Tasks : AddTask(t)
  BY <1>1, <1>2, AddTaskKeeps DEF Conclusion, IInv, CustodyInv
<1>3. CASE \E p \in Providers : RescheduleNext(p)
  BY <1>1, <1>3, RescheduleNextKeeps DEF Conclusion, IInv, CustodyInv
<1>4. CASE \E p \in Providers : RescheduleDone(p)
  BY <1>1, <1>4, RescheduleDoneKeeps DEF Conclusion, IInv, CustodyInv
<1>5. CASE \E p \in Providers, t \in Tasks :
             TaskCompleted(p, t) \/ TaskFailed(p, t) \/ AbortTask(p, t)
  BY <1>1, <1>5, FinishKeeps
  DEF TaskCompleted, TaskFailed, AbortTask, Conclusion, IInv, CustodyInv
<1>6. CASE \E a \in Tasks \cup Providers : SendRaises(a)
  BY <1>1, <1>6, SendRaisesKeeps DEF Conclusion, IInv, CustodyInv
<1>7. CASE \E w \in Handlers, p \in Providers : OnConnectionLost(w, p)
  BY <1>1, <1>7, OnConnectionLostKeeps DEF Conclusion, IInv, CustodyInv
<1>8. CASE \E w \in Handlers : OfflineTimeout(w)
  BY <1>1, <1>8, OfflineTimeoutKeeps DEF Conclusion, IInv, CustodyInv
<1>9. CASE \E w \in Handlers : ConnectionLostCallback(w)
  BY <1>1, <1>9, ConnectionLostCallbackKeeps DEF Conclusion, IInv, CustodyInv
<1>10. CASE \E p \in Providers : AddProvider(p)
  BY <1>1, <1>10, AddProviderKeeps DEF Conclusion, IInv, CustodyInv
<1>11. CASE \/ \E t \in Tasks : AddTaskReturns(t)
            \/ \E a \in Tasks \cup Providers : SendReturns(a)
            \/ \E w \in Handlers : HandlerReturns(w)
            \/ \E i \in Ids : RestoreConnection(i)
            \/ UNCHANGED vars
  BY <1>1, <1>11, FrameKeeps DEF Conclusion, IInv, CustodyInv
<1> QED
  BY <1>2, <1>3, <1>4, <1>5, <1>6, <1>7, <1>8, <1>9, <1>10, <1>11 DEF Next, Quiescent

\* The invariant is inductive, so it holds in every reachable state.
THEOREM Invariance == Spec => []IInv
  BY InvInit, InvStep, PTL DEF Spec

\* No interleaving of requests, failing sends, lost connections and answers puts
\* a task in the care of two providers.
THEOREM TaskHasOneHolder == Spec => []OneHolder
<1>1. IInv => OneHolder
  BY DEF IInv
<1> QED
  BY <1>1, Invariance, PTL

\* Rescheduling loses no task that is called SCHEDULED.
THEOREM ScheduledTaskIsHeld == Spec => []ScheduledIsHeld
<1>1. IInv => ScheduledIsHeld
  BY DEF IInv
<1> QED
  BY <1>1, Invariance, PTL

\* No finished task is in any provider's care, so none is sent again.
THEOREM HeldTaskIsUnfinished == Spec => []HeldIsUnfinished
<1>1. IInv => HeldIsUnfinished
  BY DEF IInv
<1> QED
  BY <1>1, Invariance, PTL

\* Task.provider_id is the id of the provider that has the task.
THEOREM TaskIsAssignedToHolder == Spec => []AssignedToHolder
<1>1. IInv => AssignedToHolder
  BY DEF IInv
<1> QED
  BY <1>1, Invariance, PTL

-------------------------------------------------------------------------------
(* Action properties.                                                      *)

\* Only its own loop changes the set of a provider that is being emptied.
LEMMA OutOfReach ==
  ASSUME IInv, [Next]_vars, NEW p \in Providers, pc[p] # "idle"
  PROVE  inProgress'[p] = inProgress[p] \/ pc'[p] = "drained"
<1> USE DEF stateVars, frameVars
<1>1. \A q \in Providers : Mapped(q) => q # p
  BY MappedIsIdle DEF IInv
<1>2. ASSUME NEW a, NEW t, AddTaskIn(a, t)
      PROVE  inProgress'[p] = inProgress[p]
  <2>1. CASE \E q \in Providers : Accepted(a, t, q)
    BY <1>1, <2>1 DEF Accepted, IInv, TypeOK
  <2>2. CASE Rejected(a, t)
    BY <2>2 DEF Rejected
  <2> QED
    BY <1>2, <2>1, <2>2, AddTaskInOutcome
<1>3. CASE \E t \in Tasks : AddTask(t)
  BY <1>2, <1>3 DEF AddTask
<1>4. CASE \E q \in Providers : RescheduleNext(q)
  BY <1>2, <1>4 DEF RescheduleNext
<1>5. CASE \E q \in Providers : RescheduleDone(q)
  BY <1>5 DEF RescheduleDone, IInv, TypeOK, Callers
<1>6. CASE \E q \in Providers, t \in Tasks :
             TaskCompleted(q, t) \/ TaskFailed(q, t) \/ AbortTask(q, t)
  BY <1>1, <1>6 DEF TaskCompleted, TaskFailed, AbortTask, Finish, IInv, TypeOK
<1>7. CASE UNCHANGED inProgress
  BY <1>7
<1> QED
  BY <1>3, <1>4, <1>5, <1>6, <1>7
  DEF Next, vars, Quiescent, AddTaskReturns, SendReturns, SendRaises, AddProvider,
      RestoreConnection, OnConnectionLost, OfflineTimeout, OnClosed,
      ConnectionLostCallback, HandlerReturns

\* The set that a loop of reschedule_tasks_in_progress iterates over does not
\* change until the loop has ended.
THEOREM IterationIsStable == Spec => DrainIsStable
<1>1. IInv /\ [Next]_vars =>
        [\A p \in Providers :
           pc[p] \in {"draining", "sending"} /\ pc'[p] \in {"draining", "sending"}
             => inProgress'[p] = inProgress[p]]_vars
  BY OutOfReach
<1> QED
  BY <1>1, Invariance, PTL DEF Spec, DrainIsStable

LEMMA FinishedStep ==
  ASSUME IInv, [Next]_vars, NEW t \in Tasks,
         status[t] \in {"COMPLETED", "ABORTED"}, status'[t] # status[t]
  PROVE  \E w \in Handlers : /\ pc[w] = "offline"
                             /\ pc'[w] = "closed"
                             /\ t \in inProgress[target[w]]
                             /\ pc[target[w]] # "idle"
<1> USE DEF stateVars, frameVars
<1>1. \A p \in Providers : ~Holds(p, t)
  BY DEF IInv, HeldIsUnfinished
<1>2. ASSUME NEW a, NEW u \in Tasks, AddTaskIn(a, u), u # t
      PROVE  FALSE
  <2>1. status'[t] = status[t]
    BY <1>2, AddTaskInOutcome DEF Accepted, Rejected, Assign, IInv, TypeOK
  <2> QED
    BY <2>1
<1>3. CASE \E u \in Tasks : AddTask(u)
  <2>1. PICK u \in Tasks : AddTask(u)
    BY <1>3
  <2>2. u # t
    BY <2>1 DEF AddTask, IInv, FreshInv
  <2> QED
    BY <1>2, <2>1, <2>2 DEF AddTask
<1>4. CASE \E p \in Providers : RescheduleNext(p)
  <2>1. PICK p \in Providers : \E u \in left[p] : AddTaskIn(p, u)
    BY <1>4 DEF RescheduleNext
  <2>2. PICK u \in left[p] : AddTaskIn(p, u)
    BY <2>1
  <2>3. u \in Tasks /\ Holds(p, u)
    BY <2>2 DEF IInv, TypeOK, LeftInv, Holds
  <2> QED
    BY <1>1, <1>2, <2>2, <2>3
<1>5. CASE \E p \in Providers, u \in Tasks :
             TaskCompleted(p, u) \/ TaskFailed(p, u) \/ AbortTask(p, u)
  <2>1. PICK p \in Providers, u \in Tasks, s \in Statuses : Finish(p, u, s)
    BY <1>5 DEF TaskCompleted, TaskFailed, AbortTask, Statuses
  <2>2. Holds(p, u)
    BY <2>1, FinishHolders
  <2>3. status'[t] = status[t]
    BY <1>1, <2>1, <2>2 DEF Finish, IInv, TypeOK
  <2> QED
    BY <2>3
<1>6. CASE \E w \in Handlers : OfflineTimeout(w)
  <2>1. PICK w \in Handlers : OfflineTimeout(w)
    BY <1>6
  <2>2. pc[w] = "offline" /\ target[w] \in Providers /\ t \in inProgress[target[w]]
    BY <2>1 DEF OfflineTimeout, OnClosed, IInv, TypeOK, TargetInv, Callers
  <2>3. pc[target[w]] # "idle"
    BY <1>1, <2>2 DEF Holds
  <2>4. pc'[w] = "closed"
    BY <2>1, ConstantsAssumption DEF OfflineTimeout, OnClosed, Reschedule, IInv, TypeOK, Callers
  <2> QED
    BY <2>2, <2>3, <2>4
<1>7. CASE UNCHANGED status
  BY <1>7
<1> QED
  BY <1>3, <1>4, <1>5, <1>6, <1>7
  DEF Next, vars, Quiescent, AddTaskReturns, SendReturns, SendRaises, AddProvider,
      RestoreConnection, OnConnectionLost, RescheduleDone, ConnectionLostCallback,
      HandlerReturns

\* A completed or aborted task keeps its status, but for the timeout of a lost
\* provider that is being emptied with the task still in its set.
THEOREM FinishedTaskKeepsStatus == Spec => FinishedStatusStands
<1>1. IInv /\ [Next]_vars =>
        [\A t \in Tasks :
           status[t] \in {"COMPLETED", "ABORTED"} /\ status'[t] # status[t]
             => \E w \in Handlers : /\ pc[w] = "offline"
                                    /\ pc'[w] = "closed"
                                    /\ t \in inProgress[target[w]]
                                    /\ pc[target[w]] # "idle"]_vars
  BY FinishedStep
<1> QED
  BY <1>1, Invariance, PTL DEF Spec, FinishedStatusStands

-------------------------------------------------------------------------------
(* Who is left behind.                                                     *)

\* No provider comes to be out of the dict without having been emptied, and the
\* emptied ones stay so.
NoneIsLeft ==
  /\ created \subseteq created'
  /\ \A q \in Providers : pc[q] = "drained" => pc'[q] = "drained"
  /\ \A p \in created' : ~Mapped(p)' /\ pc'[p] = "idle" =>
       p \in created /\ ~Mapped(p) /\ pc[p] = "idle"

LEMMA NoneIsLeftKeeps ==
  ASSUME TypeOK, NoneIsLeft, LeftBehindByLateRemoval
  PROVE  LeftBehindByLateRemoval'
<1> SUFFICES ASSUME NEW p \in created', ~Mapped(p)', pc'[p] = "idle"
             PROVE  \E q \in created' \ {p} : IdOf[q] = IdOf[p] /\ pc'[q] = "drained"
  BY DEF LeftBehindByLateRemoval
<1>1. PICK q \in created \ {p} : IdOf[q] = IdOf[p] /\ pc[q] = "drained"
  BY DEF NoneIsLeft, LeftBehindByLateRemoval
<1> QED
  BY <1>1 DEF NoneIsLeft, TypeOK

\* A step of an activity that is not emptied, or of the loop that empties it.
LEMMA MoveLeavesNone ==
  ASSUME TypeOK, NEW a \in Callers, NEW at \in Places \ {"idle"},
         pc' = [pc EXCEPT ![a] = at], UNCHANGED <<providers, created>>,
         a \in Providers => pc[a] # "drained"
  PROVE  NoneIsLeft
  BY DEF TypeOK, NoneIsLeft, Mapped, Callers

LEMMA RescheduleLeavesNone ==
  ASSUME IInv, NEW a \in Callers, NEW at \in Places \ {"idle"}, NEW id \in Ids,
         NEW removing, Reschedule(a, at, id, removing), UNCHANGED created,
         a \in Providers => pc[a] = "sending"
  PROVE  NoneIsLeft
<1>1. CASE providers[id] = None
  <2>1. pc' = [pc EXCEPT ![a] = at] /\ UNCHANGED providers
    BY <1>1, ConstantsAssumption DEF Reschedule, Callers
  <2> QED
    BY <2>1, MoveLeavesNone DEF IInv
<1>2. CASE providers[id] # None
  <2>1. PICK p \in Providers :
          /\ providers[id] = p
          /\ providers' = [providers EXCEPT ![id] = None]
          /\ pc' = [pc EXCEPT ![a] = at, ![p] = "draining"]
    BY <1>2 DEF Reschedule
  <2>2. pc[p] = "idle" /\ IdOf[p] = id
    BY <1>2, <2>1 DEF IInv, MapInv
  <2>3. pc \in [Callers -> Places] /\ Providers \subseteq Callers /\ p # a
    BY <2>2 DEF IInv, TypeOK, Callers
  <2>4. /\ pc'[p] = "draining"
        /\ \A q \in Providers \ {p} : /\ q # a => pc'[q] = pc[q]
                                      /\ q = a => pc'[q] = at
    BY <2>1, <2>3
  <2>5. \A q \in Providers \ {p} : Mapped(q) => Mapped(q)'
    <3>1. \A q \in Providers : IdOf[q] \in Ids /\ q # None
      BY ConstantsAssumption DEF Callers
    <3> QED
      BY <2>1, <3>1 DEF Mapped, IInv, TypeOK
  <2>6. \A q \in Providers : /\ pc[q] = "drained" => pc'[q] = "drained"
                             /\ pc'[q] = "idle" => pc[q] = "idle" /\ q # p
    BY <2>2, <2>4
  <2>7. created \subseteq Providers
    BY DEF IInv, TypeOK
  <2> QED
    BY <2>5, <2>6, <2>7 DEF NoneIsLeft
<1> QED
  BY <1>1, <1>2

\* remove_provider pops the id a second time: whoever had it meanwhile is left behind.
LEMMA DoneLeaves ==
  ASSUME IInv, LeftBehindByLateRemoval, NEW q \in Providers, RescheduleDone(q)
  PROVE  LeftBehindByLateRemoval'
<1>1. /\ pc[q] = "draining" /\ pc' = [pc EXCEPT ![q] = "drained"]
      /\ UNCHANGED created
      /\ \A i \in Ids : i # IdOf[q] => providers'[i] = providers[i]
  BY DEF RescheduleDone, IInv, TypeOK
<1>2. q \in created /\ pc'[q] = "drained"
      /\ \A p \in Providers \ {q} : pc'[p] = pc[p]
  BY <1>1 DEF IInv, MapInv, TypeOK, Callers
<1> SUFFICES ASSUME NEW p \in created, ~Mapped(p)', pc'[p] = "idle"
             PROVE  \E r \in created \ {p} : IdOf[r] = IdOf[p] /\ pc'[r] = "drained"
  BY <1>1 DEF LeftBehindByLateRemoval
<1>3. p \in Providers /\ p # q /\ pc[p] = "idle" /\ IdOf[p] \in Ids
  BY <1>2, ConstantsAssumption DEF IInv, TypeOK
<1>4. CASE IdOf[p] = IdOf[q]
  BY <1>2, <1>3, <1>4
<1>5. CASE IdOf[p] # IdOf[q]
  <2>1. ~Mapped(p)
    BY <1>1, <1>3, <1>5 DEF Mapped
  <2>2. PICK r \in created \ {p} : IdOf[r] = IdOf[p] /\ pc[r] = "drained"
    BY <1>3, <2>1 DEF LeftBehindByLateRemoval
  <2> QED
    BY <1>2, <2>2 DEF IInv, TypeOK
<1> QED
  BY <1>4, <1>5

LEMMA LeftBehindStep ==
  IInv /\ LeftBehindByLateRemoval /\ [Next]_vars => LeftBehindByLateRemoval'
<1> SUFFICES ASSUME IInv, LeftBehindByLateRemoval, [Next]_vars
             PROVE  LeftBehindByLateRemoval'
  OBVIOUS
<1>0. NoneIsLeft => LeftBehindByLateRemoval'
  BY NoneIsLeftKeeps DEF IInv
<1>a. TypeOK /\ \A a \in Callers : AfterSend(a) \in Places \ {"idle"}
  BY DEF IInv, AfterSend, Places
<1> USE DEF stateVars
<1>1. ASSUME NEW a \in Callers, NEW t, AddTaskIn(a, t), UNCHANGED <<providers, created>>,
             a \in Providers => pc[a] # "drained"
      PROVE  NoneIsLeft
  <2>1. PICK at \in Places \ {"idle"} : pc' = [pc EXCEPT ![a] = at]
    BY <1>a, <1>1, AddTaskInOutcome DEF Accepted, Rejected, Places
  <2> QED
    BY <1>a, <1>1, <2>1, MoveLeavesNone
<1>2. ASSUME NEW t \in Tasks, AddTask(t) PROVE NoneIsLeft
  BY <1>1, <1>2, ConstantsAssumption DEF AddTask, Callers
<1>3. ASSUME NEW p \in Providers, RescheduleNext(p) PROVE NoneIsLeft
  BY <1>1, <1>3 DEF RescheduleNext, Callers
<1>4. ASSUME NEW p \in Providers, RescheduleDone(p) PROVE LeftBehindByLateRemoval'
  BY <1>4, DoneLeaves
<1>5. ASSUME NEW t \in Tasks, AddTaskReturns(t) PROVE NoneIsLeft
  BY <1>a, <1>5, MoveLeavesNone, ConstantsAssumption DEF AddTaskReturns, Callers, Places
<1>6. ASSUME NEW a \in Tasks \cup Providers, SendReturns(a) PROVE NoneIsLeft
  BY <1>a, <1>6, MoveLeavesNone DEF SendReturns, EndSend, Callers
<1>7. ASSUME NEW a \in Tasks \cup Providers, SendRaises(a) PROVE NoneIsLeft
  <2>1. a \in Callers /\ pc[a] = "sending" /\ target[a] \in Providers
    BY <1>7 DEF SendRaises, EndSend, Callers, IInv, TargetInv
  <2>2. IdOf[target[a]] \in Ids
    BY <2>1, ConstantsAssumption
  <2> QED
    BY <1>a, <1>7, <2>1, <2>2, RescheduleLeavesNone DEF SendRaises, OnClosed
<1>8. ASSUME NEW p \in Providers, AddProvider(p) PROVE NoneIsLeft
  <2>1. \A q \in Providers : q # None /\ IdOf[q] \in Ids
    BY ConstantsAssumption DEF Callers
  <2>2. Mapped(p)' /\ \A q \in Providers : Mapped(q) => Mapped(q)'
    BY <1>a, <1>8, <2>1 DEF AddProvider, Mapped, TypeOK
  <2>3. created' = created \cup {p} /\ pc' = pc
    BY <1>8 DEF AddProvider, frameVars
  <2> QED
    BY <1>a, <2>2, <2>3 DEF NoneIsLeft, TypeOK
<1>9. ASSUME NEW w \in Handlers, NEW p \in Providers, OnConnectionLost(w, p)
      PROVE  NoneIsLeft
  <2>1. w \in Callers /\ w \notin Providers /\ IdOf[p] \in Ids
        /\ {"offline", "returning"} \subseteq Places \ {"idle"}
    BY ConstantsAssumption DEF Callers, Places
  <2>2. CASE online[p]
    BY <1>a, <1>9, <2>1, <2>2, MoveLeavesNone DEF OnConnectionLost
  <2>3. CASE ~online[p]
    BY <1>9, <2>1, <2>3, RescheduleLeavesNone DEF OnConnectionLost
  <2> QED
    BY <2>2, <2>3
<1>10. ASSUME NEW w \in Handlers, OfflineTimeout(w) \/ ConnectionLostCallback(w)
       PROVE  NoneIsLeft
  <2>1. /\ w \in Callers /\ w \notin Providers /\ IdOf[target[w]] \in Ids
        /\ {"returning", "closed"} \subseteq Places \ {"idle"}
    BY <1>10, ConstantsAssumption
    DEF OfflineTimeout, ConnectionLostCallback, Callers, Places, IInv, TargetInv
  <2> QED
    BY <1>10, <2>1, RescheduleLeavesNone
    DEF OfflineTimeout, OnClosed, ConnectionLostCallback
<1>11. ASSUME NEW w \in Handlers, HandlerReturns(w) PROVE NoneIsLeft
  BY <1>a, <1>11, MoveLeavesNone, ConstantsAssumption DEF HandlerReturns, Callers, Places
<1>12. CASE \/ \E i \in Ids : RestoreConnection(i)
            \/ \E p \in Providers, t \in Tasks :
                 TaskCompleted(p, t) \/ TaskFailed(p, t) \/ AbortTask(p, t)
            \/ Quiescent \/ UNCHANGED vars
  <2>1. UNCHANGED <<pc, created, providers>>
    BY <1>12 DEF RestoreConnection, TaskCompleted, TaskFailed, AbortTask, Finish,
                 Quiescent, vars, frameVars
  <2> QED
    BY <2>1, <1>0 DEF NoneIsLeft, Mapped
<1> QED
  BY <1>0, <1>2, <1>3, <1>4, <1>5, <1>6, <1>7, <1>8, <1>9, <1>10, <1>11, <1>12 DEF Next

\* A provider leaves the dispatcher with its tasks in only one way: an earlier object
\* of its node is removed late and pops the id a second time.
THEOREM OnlyLateRemovalsLeaveBehind == Spec => []LeftBehindByLateRemoval
<1>1. Init => LeftBehindByLateRemoval
  BY DEF Init, LeftBehindByLateRemoval
<1> QED
  BY <1>1, LeftBehindStep, Invariance, PTL DEF Spec

-------------------------------------------------------------------------------
(* Queue lengths.                                                          *)

LEMMA QueuesAreFinite ==
  ASSUME TypeOK, NEW p \in Providers
  PROVE  IsFiniteSet(inProgress[p]) /\ QueueLength(p) \in Nat
<1>1. inProgress[p] \subseteq Tasks
  BY DEF TypeOK
<1> QED
  BY <1>1, FiniteAssumption, FS_Subset, FS_CardinalityType DEF QueueLength

\* A queue grows by one task, when it was not over the limit, or does not grow.
LEMMA QueueStep ==
  ASSUME IInv, [Next]_vars, NEW p \in Providers
  PROVE  \/ inProgress'[p] \subseteq inProgress[p]
         \/ /\ QueueLength(p) <= MaxQueueLen
            /\ \E t \in Tasks : inProgress'[p] = inProgress[p] \cup {t}
<1> USE DEF stateVars, frameVars
<1>1. ASSUME NEW a, NEW t \in Tasks, AddTaskIn(a, t)
      PROVE  \/ inProgress'[p] = inProgress[p]
             \/ /\ QueueLength(p) <= MaxQueueLen
                /\ inProgress'[p] = inProgress[p] \cup {t}
  <2>1. CASE Rejected(a, t)
    BY <2>1 DEF Rejected
  <2>2. ASSUME NEW q \in Providers, Accepted(a, t, q)
        PROVE  \/ inProgress'[p] = inProgress[p]
               \/ /\ QueueLength(p) <= MaxQueueLen
                  /\ inProgress'[p] = inProgress[p] \cup {t}
    <3>1. CASE q = p
      BY <2>2, <3>1 DEF Accepted, IInv, TypeOK
    <3>2. CASE q # p
      BY <2>2, <3>2 DEF Accepted, IInv, TypeOK
    <3> QED
      BY <3>1, <3>2
  <2> QED
    BY <1>1, <2>1, <2>2, AddTaskInOutcome
<1>2. CASE \E t \in Tasks : AddTask(t)
  BY <1>1, <1>2 DEF AddTask
<1>3. CASE \E q \in Providers : RescheduleNext(q)
  <2>1. PICK q \in Providers : \E t \in left[q] : AddTaskIn(q, t)
    BY <1>3 DEF RescheduleNext
  <2>2. PICK t \in left[q] : AddTaskIn(q, t)
    BY <2>1
  <2>3. t \in Tasks
    BY <2>2 DEF IInv, TypeOK
  <2> QED
    BY <1>1, <2>2, <2>3
<1>4. CASE \E q \in Providers : RescheduleDone(q)
  BY <1>4 DEF RescheduleDone, IInv, TypeOK
<1>5. CASE \E q \in Providers, t \in Tasks :
             TaskCompleted(q, t) \/ TaskFailed(q, t) \/ AbortTask(q, t)
  BY <1>5 DEF TaskCompleted, TaskFailed, AbortTask, Finish, IInv, TypeOK
<1>6. CASE UNCHANGED inProgress
  BY <1>6
<1> QED
  BY <1>2, <1>3, <1>4, <1>5, <1>6
  DEF Next, vars, Quiescent, AddTaskReturns, SendReturns, SendRaises, AddProvider,
      RestoreConnection, OnConnectionLost, OfflineTimeout, OnClosed,
      ConnectionLostCallback, HandlerReturns

\* No queue gets longer than MAX_PROVIDER_QUEUE_LEN + 1.
THEOREM QueuesAreBounded == Spec => []QueueBounded
<1>1. Init => QueueBounded
  BY FS_EmptySet, ConstantsAssumption DEF Init, QueueBounded, QueueLength
<1>2. IInv /\ QueueBounded /\ [Next]_vars => QueueBounded'
  <2> SUFFICES ASSUME IInv, QueueBounded, [Next]_vars, NEW p \in Providers
               PROVE  Cardinality(inProgress'[p]) <= MaxQueueLen + 1
    BY DEF QueueBounded, QueueLength
  <2>1. /\ IsFiniteSet(inProgress[p])
        /\ Cardinality(inProgress[p]) \in Nat
        /\ Cardinality(inProgress[p]) <= MaxQueueLen + 1
        /\ MaxQueueLen \in Nat
    BY QueuesAreFinite, ConstantsAssumption DEF IInv, QueueBounded, QueueLength
  <2>2. CASE inProgress'[p] \subseteq inProgress[p]
    <3>1. /\ Cardinality(inProgress'[p]) <= Cardinality(inProgress[p])
          /\ Cardinality(inProgress'[p]) \in Nat
      BY <2>1, <2>2, FS_Subset, FS_CardinalityType
    <3> QED
      BY <2>1, <3>1
  <2>3. CASE /\ QueueLength(p) <= MaxQueueLen
             /\ \E t \in Tasks : inProgress'[p] = inProgress[p] \cup {t}
    <3>1. PICK t \in Tasks : inProgress'[p] = inProgress[p] \cup {t}
      BY <2>3
    <3>2. Cardinality(inProgress'[p]) =
            IF t \in inProgress[p] THEN Cardinality(inProgress[p])
            ELSE Cardinality(inProgress[p]) + 1
      BY <2>1, <3>1, FS_AddElement
    <3> QED
      BY <2>1, <2>3, <3>2 DEF QueueLength
  <2> QED
    BY <2>2, <2>3, QueueStep
<1> QED
  BY <1>1, <1>2, Invariance, PTL DEF Spec

-------------------------------------------------------------------------------
(* The dispatcher implements TaskCustody.                                  *)

LEMMA SameCarrying ==
  ASSUME SameHolders
  PROVE  carrying' = carrying
<1>1. \A p \in Providers : {t \in Tasks : Holds(p, t)'} = {t \in Tasks : Holds(p, t)}
  BY DEF SameHolders
<1> QED
  BY <1>1 DEF carrying

LEMMA RemovedCarrying ==
  ASSUME NEW t \in Tasks, NEW p \in Providers, Removed(t), OneHolder, Holds(p, t)
  PROVE  /\ t \in carrying[p]
         /\ carrying' = [carrying EXCEPT ![p] = @ \ {t}]
<1>1. \A q \in Providers : carrying[q] = {u \in Tasks : Holds(q, u)}
  BY DEF carrying
<1>2. \A q \in Providers :
        {u \in Tasks : Holds(q, u)'} = IF q = p THEN carrying[q] \ {t} ELSE carrying[q]
  BY <1>1 DEF Removed, OneHolder
<1>3. carrying' = [q \in Providers |-> {u \in Tasks : Holds(q, u)'}]
  BY DEF carrying
<1> QED
  BY <1>1, <1>2, <1>3 DEF carrying

LEMMA RemovedUnheldCarrying ==
  ASSUME NEW t \in Tasks, Removed(t), \A p \in Providers : ~Holds(p, t)
  PROVE  carrying' = carrying
  BY SameCarrying DEF Removed, SameHolders

LEMMA PlacedCarrying ==
  ASSUME NEW t \in Tasks, NEW q \in Providers, PlacedAt(t, q),
         \A p \in Providers : ~Holds(p, t)
  PROVE  carrying' = [carrying EXCEPT ![q] = @ \cup {t}]
<1>1. \A p \in Providers : carrying[p] = {u \in Tasks : Holds(p, u)}
  BY DEF carrying
<1>2. \A p \in Providers :
        {u \in Tasks : Holds(p, u)'} = IF p = q THEN carrying[p] \cup {t} ELSE carrying[p]
  BY <1>1 DEF PlacedAt
<1>3. carrying' = [p \in Providers |-> {u \in Tasks : Holds(p, u)'}]
  BY DEF carrying
<1> QED
  BY <1>1, <1>2, <1>3 DEF carrying

LEMMA PassedCarrying ==
  ASSUME NEW t \in Tasks, NEW p \in Providers, NEW q \in Providers \ {p},
         PlacedAt(t, q), OneHolder, Holds(p, t)
  PROVE  /\ t \in carrying[p]
         /\ carrying' = [carrying EXCEPT ![p] = @ \ {t}, ![q] = @ \cup {t}]
<1>1. \A r \in Providers : carrying[r] = {u \in Tasks : Holds(r, u)}
  BY DEF carrying
<1>2. \A r \in Providers :
        {u \in Tasks : Holds(r, u)'} = IF r = q THEN carrying[r] \cup {t}
                                       ELSE IF r = p THEN carrying[r] \ {t}
                                       ELSE carrying[r]
  BY <1>1 DEF PlacedAt, OneHolder
<1>3. carrying' = [r \in Providers |-> {u \in Tasks : Holds(r, u)'}]
  BY DEF carrying
<1> QED
  BY <1>1, <1>2, <1>3 DEF carrying

LEMMA AddTaskRefines ==
  ASSUME IInv, NEW t \in Tasks, AddTask(t)
  PROVE  Custody!Next
<1>1. /\ t \in fresh
      /\ \A p \in Providers : ~Holds(p, t)
      /\ \A p \in Providers : p # t
  BY ConstantsAssumption DEF AddTask, fresh, IInv, FreshInv, Holds
<1>2. ASSUME NEW x \in Places \ {"idle"}, pc' = [pc EXCEPT ![t] = x]
      PROVE  fresh' = fresh \ {t} /\ retired' = retired
  <2>1. /\ pc'[t] # "idle"
        /\ \A u \in Tasks \ {t} : pc'[u] = pc[u]
        /\ \A p \in Providers : pc'[p] = pc[p]
    BY <1>1, <1>2 DEF IInv, TypeOK, Callers
  <2> QED
    BY <1>1, <2>1 DEF fresh, retired
<1>3. CASE \E q \in Providers : Accepted(t, t, q) /\ PlacedAt(t, q)
  <2>1. PICK q \in Providers : Accepted(t, t, q) /\ PlacedAt(t, q)
    BY <1>3
  <2>2. q \notin retired
    BY <2>1, MappedIsIdle DEF Accepted, IInv, retired
  <2>3. Custody!Take(t, q)
    BY <1>1, <1>2, <2>1, <2>2, PlacedCarrying DEF Custody!Take, Accepted, Places
  <2> QED
    BY <2>3 DEF Custody!Next
<1>4. CASE Rejected(t, t) /\ Removed(t)
  <2>1. Custody!Reject(t)
    BY <1>1, <1>2, <1>4, RemovedUnheldCarrying
    DEF Custody!Reject, Rejected, AfterSend, Places
  <2> QED
    BY <2>1 DEF Custody!Next
<1> QED
  BY <1>3, <1>4, AddTaskHolders

LEMMA RescheduleNextRefines ==
  ASSUME IInv, NEW p \in Providers, RescheduleNext(p)
  PROVE  Custody!Next
<1>1. PICK t \in left[p] :
        \/ \E q \in Providers \ {p} : Accepted(p, t, q) /\ PlacedAt(t, q)
        \/ Rejected(p, t) /\ Removed(t)
  BY RescheduleNextHolders
<1>2. /\ t \in Tasks /\ Holds(p, t) /\ p \in retired /\ OneHolder
      /\ pc[p] = "draining" /\ p \notin Tasks
  BY <1>1, ConstantsAssumption
  DEF RescheduleNext, IInv, TypeOK, LeftInv, Holds, retired
<1>3. ASSUME NEW x \in Places \ {"idle"}, pc' = [pc EXCEPT ![p] = x]
      PROVE  UNCHANGED <<fresh, retired>>
  <2>1. /\ \A u \in Tasks : pc'[u] = pc[u]
        /\ \A q \in Providers : pc'[q] = "idle" <=> pc[q] = "idle"
    BY <1>2, <1>3 DEF IInv, TypeOK, Callers
  <2> QED
    BY <2>1 DEF fresh, retired
<1>4. CASE \E q \in Providers \ {p} : Accepted(p, t, q) /\ PlacedAt(t, q)
  <2>1. PICK q \in Providers \ {p} : Accepted(p, t, q) /\ PlacedAt(t, q)
    BY <1>4
  <2>2. q \notin retired
    BY <2>1, MappedIsIdle DEF Accepted, IInv, retired
  <2>3. Custody!Pass(t, p, q)
    BY <1>2, <1>3, <2>1, <2>2, PassedCarrying DEF Custody!Pass, Accepted, Places
  <2> QED
    BY <1>2, <2>3 DEF Custody!Next
<1>5. CASE Rejected(p, t) /\ Removed(t)
  <2>1. Custody!LetGo(t, p)
    BY <1>2, <1>3, <1>5, RemovedCarrying
    DEF Custody!LetGo, Rejected, AfterSend, Places
  <2> QED
    BY <1>2, <2>1 DEF Custody!Next
<1> QED
  BY <1>1, <1>4, <1>5

LEMMA FinishRefines ==
  ASSUME IInv, NEW p \in Providers, NEW t \in Tasks, NEW s, Finish(p, t, s)
  PROVE  Custody!Next
<1>1. Removed(t) /\ Holds(p, t) /\ OneHolder
  BY FinishHolders DEF IInv
<1>2. UNCHANGED <<fresh, retired>>
  BY DEF Finish, frameVars, fresh, retired
<1>3. Custody!LetGo(t, p)
  BY <1>1, <1>2, RemovedCarrying DEF Custody!LetGo
<1> QED
  BY <1>3 DEF Custody!Next

\* A call of reschedule_tasks_in_progress retires a provider, or none.
LEMMA RescheduleRefines ==
  ASSUME IInv, NEW a \in Callers, NEW at \in Places \ {"idle"}, NEW id \in Ids,
         NEW removing \in BOOLEAN, Reschedule(a, at, id, removing),
         SameHolders,
         a \in Providers => pc[a] = "sending",
         a \in Tasks => pc[a] = "sending"
  PROVE  Custody!Next \/ UNCHANGED Custody!vars
<1>1. carrying' = carrying
  BY SameCarrying
<1>2. \A t \in Tasks : pc'[t] = "idle" <=> pc[t] = "idle"
  BY ConstantsAssumption DEF Reschedule, IInv, TypeOK, Callers
<1>3. fresh' = fresh
  BY <1>2 DEF fresh
<1>4. CASE providers[id] = None
  <2>1. \A p \in Providers : pc'[p] = "idle" <=> pc[p] = "idle"
    BY <1>4, ConstantsAssumption DEF Reschedule, IInv, TypeOK, Callers
  <2>2. retired' = retired
    BY <2>1 DEF retired
  <2> QED
    BY <1>1, <1>3, <2>2 DEF Custody!vars
<1>5. CASE providers[id] # None
  <2>1. PICK p \in Providers : pc' = [pc EXCEPT ![a] = at, ![p] = "draining"]
    BY <1>5 DEF Reschedule
  <2>2. \A q \in Providers : pc'[q] = "idle" <=> (pc[q] = "idle" /\ q # p)
    BY <2>1 DEF IInv, TypeOK, Callers
  <2>3. retired' = retired \cup {p}
    BY <2>2 DEF retired
  <2> QED
    BY <1>1, <1>3, <2>3 DEF Custody!Next, Custody!Retire
<1> QED
  BY <1>4, <1>5

LEMMA SendRaisesRefines ==
  ASSUME IInv, NEW a \in Tasks \cup Providers, SendRaises(a)
  PROVE  Custody!Next \/ UNCHANGED Custody!vars
<1>1. /\ a \in Callers /\ pc[a] = "sending"
      /\ AfterSend(a) \in Places \ {"idle"}
      /\ IdOf[target[a]] \in Ids
  BY ConstantsAssumption
  DEF SendRaises, OnClosed, EndSend, AfterSend, Callers, Places, IInv, TargetInv
<1> QED
  BY <1>1, SendRaisesHolders, RescheduleRefines DEF SendRaises, OnClosed

LEMMA LostConnectionRefines ==
  ASSUME IInv, NEW w \in Handlers,
         \/ \E p \in Providers : OnConnectionLost(w, p)
         \/ OfflineTimeout(w)
         \/ ConnectionLostCallback(w)
  PROVE  Custody!Next \/ UNCHANGED Custody!vars
<1>1. /\ w \in Callers /\ w \notin Providers /\ w \notin Tasks
      /\ {"returning", "closed"} \subseteq Places \ {"idle"}
  BY ConstantsAssumption DEF Callers, Places
<1>2. ASSUME NEW p \in Providers, OnConnectionLost(w, p), online[p]
      PROVE  UNCHANGED Custody!vars
  <2>1. pc' = [pc EXCEPT ![w] = "offline"]
    BY <1>2 DEF OnConnectionLost
  <2>2. /\ \A t \in Tasks : pc'[t] = pc[t]
        /\ \A q \in Providers : pc'[q] = pc[q]
    BY <1>1, <2>1 DEF IInv, TypeOK, Callers
  <2> QED
    BY <1>2, <2>2, OnConnectionLostHolders, SameCarrying
    DEF Custody!vars, fresh, retired
<1>3. ASSUME NEW p \in Providers, OnConnectionLost(w, p), ~online[p]
      PROVE  Custody!Next \/ UNCHANGED Custody!vars
  <2>1. IdOf[p] \in Ids
    BY ConstantsAssumption
  <2>2. Reschedule(w, "returning", IdOf[p], FALSE) /\ SameHolders
    BY <1>3, OnConnectionLostHolders DEF OnConnectionLost
  <2> QED
    BY <1>1, <2>1, <2>2, RescheduleRefines
<1>4. CASE OfflineTimeout(w) \/ ConnectionLostCallback(w)
  <2>1. IdOf[target[w]] \in Ids
    BY <1>1, <1>4, ConstantsAssumption
    DEF OfflineTimeout, OnClosed, ConnectionLostCallback, IInv, TargetInv
  <2>2. /\ \/ Reschedule(w, "closed", IdOf[target[w]], TRUE)
           \/ Reschedule(w, "returning", IdOf[target[w]], FALSE)
        /\ SameHolders
    BY <1>4, TimeoutHolders DEF OfflineTimeout, OnClosed, ConnectionLostCallback
  <2> QED
    BY <1>1, <2>1, <2>2, RescheduleRefines
<1> QED
  BY <1>2, <1>3, <1>4

LEMMA OtherRefines ==
  ASSUME IInv, TypeOK',
         \/ \E t \in Tasks : AddTaskReturns(t)
         \/ \E a \in Tasks \cup Providers : SendReturns(a)
         \/ \E w \in Handlers : HandlerReturns(w)
         \/ \E i \in Ids : RestoreConnection(i)
         \/ \E p \in Providers : AddProvider(p)
         \/ \E p \in Providers : RescheduleDone(p)
         \/ UNCHANGED vars
  PROVE  UNCHANGED Custody!vars
<1>1. SameHolders
  BY FrameKeeps, AddProviderKeeps, RescheduleDoneHolders
<1>2. /\ \A t \in Tasks : pc'[t] = "idle" <=> pc[t] = "idle"
      /\ \A p \in Providers : pc'[p] = "idle" <=> pc[p] = "idle"
  BY ConstantsAssumption
  DEF AddTaskReturns, SendReturns, EndSend, AfterSend, HandlerReturns, AddProvider,
      RestoreConnection, RescheduleDone, vars, frameVars, IInv, TypeOK, Callers
<1> QED
  BY <1>1, <1>2, SameCarrying DEF Custody!vars, fresh, retired

LEMMA RefinementInit == Init => Custody!Init
<1> SUFFICES ASSUME Init PROVE Custody!Init
  OBVIOUS
<1>1. \A p \in Providers : {t \in Tasks : Holds(p, t)} = {}
  BY DEF Init, Holds
<1>2. carrying = [p \in Providers |-> {}]
  BY <1>1 DEF carrying
<1>3. fresh = Tasks /\ retired = {}
  BY DEF Init, fresh, retired, Callers
<1> QED
  BY <1>2, <1>3 DEF Custody!Init

LEMMA RefinementStep == IInv /\ [Next]_vars => [Custody!Next]_(Custody!vars)
<1> SUFFICES ASSUME IInv, [Next]_vars
             PROVE  Custody!Next \/ UNCHANGED Custody!vars
  OBVIOUS
<1>1. TypeOK'
  BY TypeStep DEF IInv
<1>2. CASE \E p \in Providers, t \in Tasks :
             TaskCompleted(p, t) \/ TaskFailed(p, t) \/ AbortTask(p, t)
  BY <1>2, FinishRefines DEF TaskCompleted, TaskFailed, AbortTask
<1> QED
  BY <1>1, <1>2, AddTaskRefines, RescheduleNextRefines, SendRaisesRefines,
     LostConnectionRefines, OtherRefines DEF Next, Quiescent

\* Every behaviour of the dispatcher, seen through who has which task, is one of
\* TaskCustody: in particular a removed provider is given no task any more, and a
\* task that was finished or rejected is never taken up again.
THEOREM DispatcherImplementsCustody == Spec => ImplementsCustody
  BY RefinementInit, RefinementStep, Invariance, PTL
  DEF Spec, ImplementsCustody, Custody!Spec
===============================================================================
