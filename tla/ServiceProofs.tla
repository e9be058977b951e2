---------------------------- MODULE ServiceProofs -----------------------------
(***************************************************************************)
(* Proofs about what users and nodes see of Server: a task goes to one node *)
(* unless a provider is removed, a node with one connection is served, and *)
(* the server implements TaskService.                                      *)
(***************************************************************************)
EXTENDS ServerProofs

-------------------------------------------------------------------------------
(* Who has to do with a task.                                              *)

\* t is in p's queue, or on its way to p's node.
InTouch(p, t) ==
  \/ t \in inProgress[p]
  \/ \E a \in Tasks \cup Providers : pc[a] = "sending" /\ target[a] = p /\ current[a] = t

\* No provider of node i has been removed.
Kept(i) == \A p \in Providers : IdOf[p] = i => pc[p] = "idle"

\* Of the providers in service one at most is in touch with a task; the nodes the
\* task has reached are that provider's, or have lost a provider; and as long as a
\* provider being emptied has yet to pass the task on, neither is anywhere else.
CourseInv ==
  \A t \in Tasks :
    /\ \A p, q \in Providers :
         InTouch(p, t) /\ InTouch(q, t) /\ pc[p] = "idle" /\ pc[q] = "idle" => p = q
    /\ \A p \in Providers, i \in Ids :
         InTouch(p, t) /\ pc[p] = "idle" /\ t \in delivered[i] /\ Kept(i) => IdOf[p] = i
    /\ \A i, j \in Ids :
         t \in delivered[i] /\ t \in delivered[j] /\ Kept(i) /\ Kept(j) => i = j
    /\ \A p \in Providers : pc[p] # "idle" /\ t \in left[p] =>
         /\ \A q \in Providers : InTouch(q, t) => pc[q] # "idle"
         /\ \A i \in Ids : t \in delivered[i] => ~Kept(i)

\* No provider is removed and forgotten again, and a loop takes its tasks from the queue.
Onwards ==
  \A p \in Providers :
    /\ pc[p] # "idle" => pc'[p] # "idle"
    /\ pc'[p] # "idle" =>
         left'[p] \subseteq IF pc[p] = "idle" THEN inProgress[p] ELSE left[p]

\* No task is given to any provider.
Calm ==
  /\ Onwards
  /\ \A p \in Providers : inProgress'[p] \subseteq inProgress[p]
  /\ \A b \in Tasks \cup Providers : pc'[b] = "sending" =>
       pc[b] = "sending" /\ target'[b] = target[b] /\ current'[b] = current[b]

\* Task t, of a new request or left over from a provider, is given to provider q.
Gives(t, q) ==
  /\ Onwards
  /\ \A p \in Providers :
       /\ inProgress'[p] \subseteq inProgress[p] \cup {u \in {t} : p = q}
       /\ pc'[p] = "idle" <=> pc[p] = "idle"
       /\ pc'[p] # "idle" => t \notin left'[p]
  /\ \A b \in Tasks \cup Providers : pc'[b] = "sending" =>
       \/ pc[b] = "sending" /\ target'[b] = target[b] /\ current'[b] = current[b]
       \/ target'[b] = q /\ current'[b] = t
  /\ pc[t] = "idle" \/ \E p \in Providers : pc[p] # "idle" /\ t \in left[p]

LEMMA AddTaskCourse ==
  ASSUME IInv, NEW t \in Tasks, AddTask(t)
  PROVE  Calm \/ \E q \in Providers : Gives(t, q)
<1>1. /\ pc[t] = "idle" /\ UNCHANGED left /\ t \in Callers /\ t \notin Providers
      /\ pc \in [Callers -> Places] /\ target \in [Callers -> Providers \cup {None}]
      /\ current \in [Callers -> Tasks \cup {None}]
      /\ inProgress \in [Providers -> SUBSET Tasks]
      /\ \A p \in Providers : p \in Callers /\ t \notin left[p]
      /\ \A p \in Providers : pc[p] = "idle" => left[p] \subseteq inProgress[p]
  BY CallersAreApart DEF AddTask, IInv, TypeOK, FreshInv, LeftInv, Callers
<1>2. CASE \E q \in Providers : Accepted(t, t, q)
  <2>1. PICK q \in Providers : Accepted(t, t, q)
    BY <1>2
  <2>2. /\ \A b \in Callers \ {t} : /\ pc'[b] = pc[b]
                                    /\ target'[b] = target[b] /\ current'[b] = current[b]
        /\ target'[t] = q /\ current'[t] = t
        /\ \A p \in Providers : inProgress'[p] \subseteq inProgress[p] \cup {u \in {t} : p = q}
    BY <1>1, <2>1 DEF Accepted
  <2>3. Gives(t, q)
    BY <1>1, <2>2 DEF Gives, Onwards, Callers
  <2> QED
    BY <2>3
<1>3. CASE Rejected(t, t)
  <2>1. /\ \A b \in Callers \ {t} : pc'[b] = pc[b]
        /\ pc'[t] = "added" /\ UNCHANGED <<target, current, inProgress>>
    BY <1>1, <1>3 DEF Rejected, AfterSend
  <2> QED
    BY <1>1, <2>1 DEF Calm, Onwards, Callers
<1> QED
  BY <1>2, <1>3, AddTaskInOutcome DEF AddTask

LEMMA RescheduleNextCourse ==
  ASSUME IInv, NEW p \in Providers, RescheduleNext(p)
  PROVE  Calm \/ \E t \in Tasks, q \in Providers : Gives(t, q)
<1>1. PICK t \in left[p] : left' = [left EXCEPT ![p] = @ \ {t}] /\ AddTaskIn(p, t)
  BY DEF RescheduleNext
<1>2. /\ pc[p] = "draining" /\ t \in Tasks /\ p \in Callers /\ p \notin Tasks
      /\ pc \in [Callers -> Places] /\ target \in [Callers -> Providers \cup {None}]
      /\ current \in [Callers -> Tasks \cup {None}]
      /\ inProgress \in [Providers -> SUBSET Tasks]
      /\ \A r \in Providers : r \in Callers /\ left'[r] \subseteq left[r]
      /\ \A r \in Providers : pc[r] = "idle" => left[r] \subseteq inProgress[r]
  BY <1>1, CallersAreApart DEF RescheduleNext, IInv, TypeOK, LeftInv, Callers
<1>3. \A r \in Providers : t \notin left'[r]
  BY <1>1, <1>2 DEF IInv, TypeOK, LeftInv, OneHolder, Holds
<1>4. CASE \E q \in Providers : Accepted(p, t, q)
  <2>1. PICK q \in Providers : Accepted(p, t, q)
    BY <1>4
  <2>2. /\ \A b \in Callers \ {p} : /\ pc'[b] = pc[b]
                                    /\ target'[b] = target[b] /\ current'[b] = current[b]
        /\ pc'[p] = "sending" /\ target'[p] = q /\ current'[p] = t
        /\ \A r \in Providers : inProgress'[r] \subseteq inProgress[r] \cup {u \in {t} : r = q}
    BY <1>2, <2>1 DEF Accepted
  <2>3. Gives(t, q)
    BY <1>1, <1>2, <1>3, <2>2 DEF Gives, Onwards, Callers
  <2> QED
    BY <1>2, <2>3
<1>5. CASE Rejected(p, t)
  <2>1. /\ \A b \in Callers : pc'[b] = pc[b]
        /\ UNCHANGED <<target, current, inProgress>>
    BY <1>2, <1>5 DEF Rejected, AfterSend
  <2> QED
    BY <1>2, <2>1 DEF Calm, Onwards, Callers
<1> QED
  BY <1>1, <1>4, <1>5, AddTaskInOutcome

\* A call of reschedule_tasks_in_progress gives nothing itself.
LEMMA RescheduleCourse ==
  ASSUME IInv, NEW a \in Callers, NEW at, NEW id \in Ids, NEW removing,
         at \notin {"sending", "idle"}, Reschedule(a, at, id, removing),
         UNCHANGED inProgress,
         \A b \in Callers \ {a} : target'[b] = target[b] /\ current'[b] = current[b],
         a \in Providers => pc[a] = "sending"
  PROVE  Calm
<1>1. /\ pc \in [Callers -> Places] /\ left \in [Providers -> SUBSET Tasks]
      /\ Providers \subseteq Callers /\ Tasks \subseteq Callers
      /\ \A p \in Providers : left[p] \subseteq inProgress[p]
  BY DEF IInv, TypeOK, LeftInv, Callers
<1>2. CASE providers[id] = None
  <2>1. pc' = [pc EXCEPT ![a] = at] /\ UNCHANGED left
    BY <1>2, CallersAreApart DEF Reschedule, Callers
  <2>2. /\ pc'[a] = at
        /\ \A b \in Callers \ {a} : pc'[b] = pc[b]
    BY <1>1, <2>1
  <2> QED
    BY <1>1, <2>1, <2>2 DEF Calm, Onwards
<1>3. CASE providers[id] # None
  <2>1. PICK p \in Providers :
          /\ providers[id] = p
          /\ pc' = [pc EXCEPT ![a] = at, ![p] = "draining"]
          /\ left' = [left EXCEPT ![p] = inProgress[p]]
    BY <1>3 DEF Reschedule
  <2>2. pc[p] = "idle" /\ p # a
    BY <1>3, <2>1 DEF IInv, MapInv
  <2>3. /\ pc'[a] = at /\ pc'[p] = "draining"
        /\ \A b \in Callers \ {a, p} : pc'[b] = pc[b]
        /\ left'[p] = inProgress[p]
        /\ \A q \in Providers \ {p} : left'[q] = left[q]
    BY <1>1, <2>1, <2>2
  <2>4. Onwards
    BY <1>1, <2>2, <2>3 DEF Onwards
  <2> QED
    BY <1>1, <2>3, <2>4 DEF Calm
<1> QED
  BY <1>2, <1>3

LEMMA HandlersCalm ==
  ASSUME IInv, NEW w \in Handlers,
         \/ \E p \in Providers : OnConnectionLost(w, p)
         \/ OfflineTimeout(w) \/ ConnectionLostCallback(w) \/ HandlerReturns(w)
  PROVE  Calm
<1>0. /\ pc \in [Callers -> Places] /\ target \in [Callers -> Providers \cup {None}]
      /\ w \in Callers /\ w \notin Providers /\ w \notin Tasks /\ IdOf \in [Providers -> Ids]
      /\ \A p \in Providers : left[p] \subseteq inProgress[p]
  BY ConstantsAssumption, CallersAreApart DEF IInv, TypeOK, LeftInv, Callers
<1>1. ASSUME NEW p \in Providers, OnConnectionLost(w, p) PROVE Calm
  <2>1. CASE online[p]
    BY <1>0, <1>1, <2>1 DEF OnConnectionLost, Calm, Onwards, Callers
  <2>2. CASE ~online[p]
    BY <1>0, <1>1, <2>2, RescheduleCourse DEF OnConnectionLost
  <2> QED
    BY <2>1, <2>2
<1>2. CASE OfflineTimeout(w)
  <2>1. target[w] \in Providers
    BY <1>0, <1>2 DEF OfflineTimeout, IInv, TargetInv
  <2> QED
    BY <1>0, <1>2, <2>1, RescheduleCourse DEF OfflineTimeout, OnClosed
<1>3. CASE ConnectionLostCallback(w)
  <2>1. target[w] \in Providers
    BY <1>0, <1>3 DEF ConnectionLostCallback, IInv, TargetInv
  <2> QED
    BY <1>0, <1>3, <2>1, RescheduleCourse DEF ConnectionLostCallback
<1>4. CASE HandlerReturns(w)
  BY <1>0, <1>4 DEF HandlerReturns, Calm, Onwards, Callers, stateVars
<1> QED
  BY <1>1, <1>2, <1>3, <1>4

LEMMA CalmOrGives ==
  ASSUME IInv, [Next]_vars
  PROVE  Calm \/ \E t \in Tasks, q \in Providers : Gives(t, q)
<1>0. /\ pc \in [Callers -> Places] /\ target \in [Callers -> Providers \cup {None}]
      /\ current \in [Callers -> Tasks \cup {None}] /\ IdOf \in [Providers -> Ids]
      /\ Providers \subseteq Callers /\ Tasks \subseteq Callers
      /\ inProgress \in [Providers -> SUBSET Tasks]
      /\ \A p \in Providers : left[p] \subseteq inProgress[p]
  BY ConstantsAssumption DEF IInv, TypeOK, LeftInv, Callers
<1>1. CASE \E t \in Tasks : AddTask(t)
  BY <1>1, AddTaskCourse
<1>2. CASE \E p \in Providers : RescheduleNext(p)
  BY <1>2, RescheduleNextCourse
<1>3. ASSUME NEW p \in Providers, RescheduleDone(p) PROVE Calm
  BY <1>0, <1>3 DEF RescheduleDone, Calm, Onwards
<1>4. ASSUME NEW t \in Tasks, AddTaskReturns(t) PROVE Calm
  BY <1>0, <1>4, CallersAreApart DEF AddTaskReturns, Calm, Onwards, stateVars
<1>5. ASSUME NEW a \in Tasks \cup Providers, SendReturns(a) PROVE Calm
  BY <1>0, <1>5 DEF SendReturns, EndSend, AfterSend, Calm, Onwards, stateVars
<1>6. ASSUME NEW a \in Tasks \cup Providers, SendRaises(a) PROVE Calm
  <2>1. a \in Callers /\ target[a] \in Providers /\ pc[a] = "sending"
    BY <1>0, <1>6 DEF SendRaises, EndSend, IInv, TargetInv
  <2>2. AfterSend(a) \notin {"sending", "idle"}
    BY DEF AfterSend
  <2>3. \A b \in Callers \ {a} : target'[b] = target[b] /\ current'[b] = current[b]
    BY <1>0, <1>6 DEF SendRaises, EndSend
  <2> QED
    BY <1>0, <1>6, <2>1, <2>2, <2>3, RescheduleCourse DEF SendRaises, OnClosed
<1>7. ASSUME NEW p \in Providers, NEW t \in Tasks,
             TaskCompleted(p, t) \/ TaskFailed(p, t) \/ AbortTask(p, t)
      PROVE  Calm
  BY <1>0, <1>7 DEF TaskCompleted, TaskFailed, AbortTask, Finish, Calm, Onwards, frameVars
<1>8. CASE \E w \in Handlers :
             \/ \E p \in Providers : OnConnectionLost(w, p)
             \/ OfflineTimeout(w) \/ ConnectionLostCallback(w) \/ HandlerReturns(w)
  BY <1>8, HandlersCalm
<1>9. CASE \/ \E i \in Ids : RestoreConnection(i)
           \/ \E p \in Providers : AddProvider(p)
           \/ Quiescent \/ UNCHANGED vars
  <2>1. UNCHANGED <<pc, left, inProgress, target, current>>
    BY <1>9 DEF RestoreConnection, AddProvider, Quiescent, vars, stateVars, frameVars
  <2> QED
    BY <1>0, <2>1 DEF Calm, Onwards
<1> QED
  BY <1>1, <1>2, <1>3, <1>4, <1>5, <1>6, <1>7, <1>8, <1>9 DEF Next

\* What a step may add to the deliveries: the task of a send that is under way.
Delivers ==
  \/ UNCHANGED delivered
  \/ /\ Calm
     /\ \E q \in Providers, t \in Tasks :
          /\ InTouch(q, t)
          /\ \A i \in Ids : delivered'[i] \subseteq
                             delivered[i] \cup {u \in {t} : i = IdOf[q]}

LEMMA CalmKeepsCourse ==
  ASSUME CourseInv, Calm, Delivers
  PROVE  CourseInv'
<1> SUFFICES ASSUME NEW t \in Tasks
             PROVE  /\ \A p, q \in Providers : InTouch(p, t)' /\ InTouch(q, t)'
                         /\ pc'[p] = "idle" /\ pc'[q] = "idle" => p = q
                    /\ \A p \in Providers, i \in Ids :
                         InTouch(p, t)' /\ pc'[p] = "idle" /\ t \in delivered'[i]
                           /\ Kept(i)' => IdOf[p] = i
                    /\ \A i, j \in Ids : t \in delivered'[i] /\ t \in delivered'[j]
                         /\ Kept(i)' /\ Kept(j)' => i = j
                    /\ \A p \in Providers : pc'[p] # "idle" /\ t \in left'[p] =>
                         /\ \A q \in Providers : InTouch(q, t)' => pc'[q] # "idle"
                         /\ \A i \in Ids : t \in delivered'[i] => ~Kept(i)'
  BY DEF CourseInv
<1>1. /\ \A p \in Providers : InTouch(p, t)' => InTouch(p, t)
      /\ \A p \in Providers : pc'[p] = "idle" => pc[p] = "idle"
      /\ \A i \in Ids : Kept(i)' => Kept(i)
      /\ \A p \in Providers : pc'[p] # "idle" /\ t \in left'[p] =>
           \/ pc[p] # "idle" /\ t \in left[p]
           \/ pc[p] = "idle" /\ InTouch(p, t)
  BY DEF Calm, Onwards, InTouch, Kept
<1>2. \A i \in Ids : t \in delivered'[i] =>
        \/ t \in delivered[i]
        \/ \E q \in Providers : InTouch(q, t) /\ IdOf[q] = i
  BY DEF Delivers
<1>3. \A p, q \in Providers : InTouch(p, t)' /\ InTouch(q, t)'
        /\ pc'[p] = "idle" /\ pc'[q] = "idle" => p = q
  BY <1>1 DEF CourseInv
<1>4. ASSUME NEW p \in Providers, NEW i \in Ids, InTouch(p, t), pc[p] = "idle",
             t \in delivered'[i], Kept(i)
      PROVE  IdOf[p] = i
  <2>1. CASE t \in delivered[i]
    BY <1>4, <2>1 DEF CourseInv
  <2>2. CASE t \notin delivered[i]
    <3>1. PICK q \in Providers : InTouch(q, t) /\ IdOf[q] = i
      BY <1>2, <1>4, <2>2
    <3>2. pc[q] = "idle"
      BY <1>4, <3>1 DEF Kept
    <3> QED
      BY <1>4, <3>1, <3>2 DEF CourseInv
  <2> QED
    BY <2>1, <2>2
<1>5. ASSUME NEW i \in Ids, NEW j \in Ids, t \in delivered'[i], t \in delivered'[j],
             Kept(i), Kept(j)
      PROVE  i = j
  <2>1. CASE t \in delivered[i] /\ t \in delivered[j]
    BY <1>5, <2>1 DEF CourseInv
  <2>2. CASE t \notin delivered[i]
    <3>1. PICK q \in Providers : InTouch(q, t) /\ IdOf[q] = i
      BY <1>2, <1>5, <2>2
    <3> QED
      BY <1>4, <1>5, <3>1 DEF Kept
  <2>3. CASE t \notin delivered[j]
    <3>1. PICK q \in Providers : InTouch(q, t) /\ IdOf[q] = j
      BY <1>2, <1>5, <2>3
    <3> QED
      BY <1>4, <1>5, <3>1 DEF Kept
  <2> QED
    BY <2>1, <2>2, <2>3
<1>6. ASSUME NEW p \in Providers, pc'[p] # "idle", t \in left'[p]
      PROVE  /\ \A q \in Providers : InTouch(q, t)' => pc'[q] # "idle"
             /\ \A i \in Ids : t \in delivered'[i] => ~Kept(i)'
  <2>1. \A q \in Providers : InTouch(q, t) /\ pc[q] = "idle" => q = p
    BY <1>1, <1>6 DEF CourseInv
  <2>2. \A q \in Providers : InTouch(q, t)' => pc'[q] # "idle"
    BY <1>1, <1>6, <2>1
  <2>3. ASSUME NEW i \in Ids, t \in delivered'[i], Kept(i)' PROVE FALSE
    <3>1. Kept(i) /\ \A q \in Providers : IdOf[q] = i => pc'[q] = "idle" /\ q # p
      BY <1>1, <1>6, <2>3 DEF Kept
    <3>2. t \in delivered[i]
      BY <1>1, <1>2, <2>1, <2>3, <3>1
    <3>3. pc[p] = "idle" /\ InTouch(p, t)
      BY <1>1, <1>6, <3>1, <3>2 DEF CourseInv
    <3>4. IdOf[p] = i
      BY <3>1, <3>2, <3>3 DEF CourseInv
    <3> QED
      BY <3>1, <3>4
  <2> QED
    BY <2>2, <2>3
<1> QED
  BY <1>1, <1>3, <1>4, <1>5, <1>6

LEMMA GivesKeepsCourse ==
  ASSUME IInv, SendsInv, ReachedInv, CourseInv, UNCHANGED delivered,
         NEW t \in Tasks, NEW q \in Providers, Gives(t, q)
  PROVE  CourseInv'
<1>1. /\ \A p \in Providers : pc'[p] = "idle" <=> pc[p] = "idle"
      /\ \A i \in Ids : Kept(i)' <=> Kept(i)
  BY DEF Gives, Kept
<1>2. /\ \A p \in Providers : InTouch(p, t) => pc[p] # "idle"
      /\ \A i \in Ids : t \in delivered[i] => ~Kept(i)
  <2>1. CASE pc[t] = "idle"
    BY <2>1 DEF IInv, FreshInv, SendsInv, ReachedInv, InTouch
  <2>2. CASE \E p \in Providers : pc[p] # "idle" /\ t \in left[p]
    BY <2>2 DEF CourseInv
  <2> QED
    BY <2>1, <2>2 DEF Gives
<1>3. /\ \A p \in Providers : InTouch(p, t)' => InTouch(p, t) \/ p = q
      /\ \A p \in Providers : pc'[p] # "idle" => t \notin left'[p]
  BY DEF Gives, InTouch
<1>4. ASSUME NEW u \in Tasks, u # t
      PROVE  /\ \A p \in Providers : InTouch(p, u)' => InTouch(p, u)
             /\ \A p \in Providers : pc'[p] # "idle" /\ u \in left'[p] => u \in left[p]
  <2>1. \A p \in Providers : InTouch(p, u)' => InTouch(p, u)
    BY <1>4 DEF Gives, InTouch
  <2>2. \A p \in Providers : pc'[p] # "idle" /\ u \in left'[p] => u \in left[p]
    BY <1>1 DEF Gives, Onwards
  <2> QED
    BY <2>1, <2>2
<1>5. ASSUME NEW u \in Tasks
      PROVE  /\ \A p, r \in Providers : InTouch(p, u)' /\ InTouch(r, u)'
                  /\ pc'[p] = "idle" /\ pc'[r] = "idle" => p = r
             /\ \A p \in Providers, i \in Ids :
                  InTouch(p, u)' /\ pc'[p] = "idle" /\ u \in delivered'[i]
                    /\ Kept(i)' => IdOf[p] = i
             /\ \A i, j \in Ids : u \in delivered'[i] /\ u \in delivered'[j]
                  /\ Kept(i)' /\ Kept(j)' => i = j
             /\ \A p \in Providers : pc'[p] # "idle" /\ u \in left'[p] =>
                  /\ \A r \in Providers : InTouch(r, u)' => pc'[r] # "idle"
                  /\ \A i \in Ids : u \in delivered'[i] => ~Kept(i)'
  <2>1. CASE u = t
    BY <1>1, <1>2, <1>3, <2>1
  <2>2. CASE u # t
    <3>1. /\ \A p, r \in Providers : InTouch(p, u)' /\ InTouch(r, u)'
                /\ pc'[p] = "idle" /\ pc'[r] = "idle" => p = r
          /\ \A p \in Providers, i \in Ids :
                InTouch(p, u)' /\ pc'[p] = "idle" /\ u \in delivered'[i]
                  /\ Kept(i)' => IdOf[p] = i
      BY <1>1, <1>4, <2>2 DEF CourseInv
    <3>2. \A i, j \in Ids : u \in delivered'[i] /\ u \in delivered'[j]
                /\ Kept(i)' /\ Kept(j)' => i = j
      BY <1>1 DEF CourseInv
    <3>3. ASSUME NEW p \in Providers, pc'[p] # "idle", u \in left'[p]
          PROVE  /\ \A r \in Providers : InTouch(r, u)' => pc'[r] # "idle"
                 /\ \A i \in Ids : u \in delivered'[i] => ~Kept(i)'
      BY <1>1, <1>4, <2>2, <3>3 DEF CourseInv
    <3> QED
      BY <3>1, <3>2, <3>3
  <2> QED
    BY <2>1, <2>2
<1> QED
  BY <1>5 DEF CourseInv

\* Only a send that returns adds to the deliveries.
LEMMA OnlySentDelivers ==
  ASSUME [ServerNext]_serverVars, ~UNCHANGED delivered
  PROVE  \E a \in Tasks \cup Providers : Sent(a)
  BY DEF ServerNext, serverVars, nodeVars, Connect, LinkDrops, Register, Disconnect, Close,
         Leave, Crash, HandlerEnds, Receive, Refuse, RequestRaises, AddComfyTask,
         AnsweredAtOnce, Request, Added, GenerationReturns, GenerationTimeout, NotSent,
         Internal, ServerQuiescent

LEMMA CourseStep ==
  /\ ServerTypeOK /\ IInv /\ DeliveryInv /\ CourseInv
  /\ [ServerNext]_serverVars
  => CourseInv'
<1> SUFFICES ASSUME ServerTypeOK, IInv, DeliveryInv, CourseInv, [ServerNext]_serverVars
             PROVE  CourseInv'
  OBVIOUS
<1>1. Calm \/ \E t \in Tasks, q \in Providers : Gives(t, q)
  BY DispatcherStep, CalmOrGives
<1>2. CASE UNCHANGED delivered
  BY <1>1, <1>2, CalmKeepsCourse, GivesKeepsCourse DEF Delivers, DeliveryInv
<1>3. CASE ~UNCHANGED delivered
  <2>1. PICK a \in Tasks \cup Providers : Sent(a)
    BY <1>3, OnlySentDelivers
  <2> DEFINE t == current[a]
             q == target[a]
  <2>2. /\ pc[a] = "sending" /\ SendReturns(a) /\ a \in Callers
        /\ delivered' = [delivered EXCEPT ![NodeOf[wsOf[q]]] = @ \cup {t}]
    BY <1>3, <2>1 DEF Sent, SendReturns, EndSend, Callers
  <2>3. t \in Tasks /\ q \in Providers /\ q \in created
    BY <2>2 DEF IInv, TargetInv, DeliveryInv, SendsInv
  <2>4. NodeOf[wsOf[q]] = IdOf[q] /\ delivered \in [Ids -> SUBSET Tasks]
    BY <2>3 DEF DeliveryInv, WsInv, ServerTypeOK
  <2>5. InTouch(q, t)
    BY <2>2, <2>3 DEF InTouch
  <2>6. \A i \in Ids : delivered'[i] \subseteq
                         delivered[i] \cup {u \in {t} : i = IdOf[q]}
    BY <2>2, <2>4
  <2>7. Calm
    <3>1. /\ \A b \in Callers \ {a} : /\ pc'[b] = pc[b] /\ target'[b] = target[b]
                                       /\ current'[b] = current[b]
          /\ pc'[a] = AfterSend(a) /\ UNCHANGED <<inProgress, left>>
      BY <2>2 DEF SendReturns, EndSend, stateVars, IInv, TypeOK
    <3>2. /\ AfterSend(a) \notin {"sending", "idle"} /\ Providers \subseteq Callers
          /\ Tasks \subseteq Callers /\ \A p \in Providers : left[p] \subseteq inProgress[p]
      BY DEF AfterSend, Callers, IInv, LeftInv
    <3> QED
      BY <2>2, <3>1, <3>2 DEF Calm, Onwards
  <2> QED
    BY <2>3, <2>5, <2>6, <2>7, CalmKeepsCourse DEF Delivers
<1> QED
  BY <1>2, <1>3

LEMMA Courses == ServerSpec => []CourseInv
<1>1. ServerInit => CourseInv
  BY CallersAreApart DEF ServerInit, Init, CourseInv, InTouch, Callers
<1> QED
  BY <1>1, CourseStep, ServerBase, Deliveries, PTL DEF ServerSpec

\* No task is given to two nodes of which neither has lost a provider.
THEOREM OnlyRemovalsSendTwice == ServerSpec => []SentTwiceAfterRemoval
<1>1. CourseInv => SentTwiceAfterRemoval
  BY DEF CourseInv, SentTwiceAfterRemoval, Kept
<1> QED
  BY <1>1, Courses, PTL

-------------------------------------------------------------------------------
(* Tasks that are on file and generated again.                             *)

\* A provider of a node that had t was removed.
Excused(t) == \E q \in created : ~Mapped(q) /\ t \in delivered[IdOf[q]]

LEMMA ExcuseStands ==
  ASSUME ServerTypeOK, IInv, DeliveryInv, [ServerNext]_serverVars,
         NEW t \in Tasks, Excused(t)
  PROVE  Excused(t)'
<1>1. PICK q \in created : ~Mapped(q) /\ t \in delivered[IdOf[q]]
  BY DEF Excused
<1>2. q \in created' /\ ~Mapped(q)'
  BY <1>1, DispatcherStep, SendsStep DEF DeliveryInv, Onward
<1>3. t \in delivered'[IdOf[q]]
  <2>1. CASE UNCHANGED delivered
    BY <1>1, <2>1
  <2>2. CASE ~UNCHANGED delivered
    <3>1. PICK a \in Tasks \cup Providers : Sent(a)
      BY <2>2, OnlySentDelivers
    <3>2. delivered' = [delivered EXCEPT ![NodeOf[wsOf[target[a]]]] = @ \cup {current[a]}]
      BY <2>2, <3>1 DEF Sent
    <3>3. IdOf[q] \in Ids /\ delivered \in [Ids -> SUBSET Tasks]
      BY <1>1, ConstantsAssumption DEF ServerTypeOK, TypeOK
    <3> QED
      BY <1>1, <3>2, <3>3
  <2> QED
    BY <2>1, <2>2
<1> QED
  BY <1>2, <1>3 DEF Excused

\* A node whose provider was emptied, or is being, has lost one.
LEMMA NotKeptExcuses ==
  ASSUME IInv, NEW i \in Ids, NEW t \in Tasks, t \in delivered[i], ~Kept(i)
  PROVE  Excused(t)
<1>1. PICK q \in Providers : IdOf[q] = i /\ pc[q] # "idle"
  BY DEF Kept
<1>2. q \in created /\ ~Mapped(q)
  BY <1>1, CallersAreApart, ConstantsAssumption DEF IInv, MapInv, Mapped, Callers
<1> QED
  BY <1>1, <1>2 DEF Excused

\* Who has a task after a step had it before, or someone had, or it is new.
LEMMA HeldBefore ==
  ASSUME IInv, [Next]_vars, NEW t \in Tasks, NEW p \in Providers, Holds(p, t)'
  PROVE  pc[t] = "idle" \/ \E r \in Providers : Holds(r, t)
<1>1. /\ \A q \in Providers : left[q] \subseteq inProgress[q]
      /\ t \in inProgress'[p] /\ (pc'[p] = "idle" \/ t \in left'[p])
  BY DEF IInv, LeftInv, Holds
<1>2. CASE Calm
  <2>1. Holds(p, t)
    BY <1>1, <1>2 DEF Calm, Onwards, Holds
  <2> QED
    BY <2>1
<1>3. ASSUME NEW u \in Tasks, NEW q \in Providers, Gives(u, q)
      PROVE  pc[t] = "idle" \/ \E r \in Providers : Holds(r, t)
  <2>1. CASE u = t
    BY <1>1, <1>3, <2>1 DEF Gives, Holds
  <2>2. CASE u # t
    <3>1. t \in inProgress[p] /\ (pc'[p] = "idle" <=> pc[p] = "idle")
      BY <1>1, <1>3, <2>2 DEF Gives
    <3>2. pc'[p] # "idle" => t \in left[p]
      BY <1>1, <1>3, <3>1 DEF Gives, Onwards
    <3> QED
      BY <3>1, <3>2 DEF Holds
  <2> QED
    BY <2>1, <2>2
<1> QED
  BY <1>2, <1>3, CalmOrGives

LEMMA OnlyResultsAreStored ==
  ASSUME ServerTypeOK, [ServerNext]_serverVars, NEW t \in Tasks,
         stored[t] # "SUCCESS", stored'[t] = "SUCCESS"
  PROVE  \E w \in Handlers, m \in NodeReports :
           /\ Receive(w, t) /\ Result(w, t, m)
           /\ providers[registered[w]] # None
<1>0. stored \in [Tasks -> {"none", "PENDING", "SUCCESS"}]
  BY DEF ServerTypeOK
<1>1. ~UNCHANGED stored
  OBVIOUS
<1>2. ASSUME NEW u \in Tasks, Request(u) PROVE FALSE
  BY <1>0, <1>2 DEF Request
<1>3. PICK w \in Handlers, u \in Tasks : Receive(w, u)
  BY <1>1, <1>2 DEF ServerNext, serverVars, requestVars, Connect, LinkDrops, Register,
     Disconnect, Close, Leave, Crash, HandlerEnds, Refuse, RequestRaises, AddComfyTask,
     AnsweredAtOnce, Added, GenerationReturns, GenerationTimeout, Sent, NotSent, Internal,
     ServerQuiescent
<1>4. PICK m \in NodeReports : Result(w, u, m)
  BY <1>1, <1>3 DEF Receive, Error, Unregistered
<1>5. stored' = [stored EXCEPT ![u] = "SUCCESS"] /\ providers[registered[w]] # None
  BY <1>1, <1>4 DEF Result
<1>6. u = t
  BY <1>0, <1>5
<1> QED
  BY <1>3, <1>4, <1>5, <1>6

\* The result comes from a node whose provider has the task, and completes it, or from one
\* that had it before: the task has gone from there, or another provider is there now.
LEMMA ResultHeldElsewhere ==
  ASSUME ServerTypeOK, IInv, ConnectionInv, CourseInv, NEW w \in Handlers, NEW t \in Tasks,
         NEW m, Receive(w, t), Result(w, t, m), providers[registered[w]] # None,
         NEW p \in Providers, Holds(p, t)'
  PROVE  Excused(t)
<1> DEFINE i == NodeOf[w]
           r == providers[i]
<1>1. /\ i \in Ids /\ registered[w] = i /\ t \in delivered[i]
      /\ r \in Providers /\ IdOf[r] = i /\ pc[r] = "idle"
  BY ServerAssumption DEF Receive, Result, ConnectionInv, OwnId, ServerTypeOK, TypeOK,
     IInv, MapInv
<1>2. t \notin inProgress[r] /\ Holds(p, t)
  <2>1. CASE t \in inProgress[r]
    <3>1. /\ UNCHANGED <<pc, left>> /\ inProgress' = [inProgress EXCEPT ![r] = @ \ {t}]
      BY <1>1, <2>1 DEF Result, TaskCompleted, Finish, frameVars
    <3>2. p # r /\ Holds(p, t)
      BY <3>1 DEF Holds, IInv, TypeOK
    <3>3. Holds(r, t)
      BY <1>1, <2>1 DEF Holds
    <3> QED
      BY <1>1, <3>2, <3>3 DEF IInv, OneHolder
  <2>2. CASE t \notin inProgress[r]
    <3>1. UNCHANGED vars
      BY <1>1, <2>2 DEF Result
    <3> QED
      BY <2>2, <3>1 DEF Holds, vars, stateVars, frameVars
  <2> QED
    BY <2>1, <2>2
<1>3. CASE ~Kept(i)
  BY <1>1, <1>3, NotKeptExcuses
<1>4. CASE Kept(i)
  <2>1. pc[p] = "idle" /\ t \in inProgress[p]
    BY <1>1, <1>2, <1>4 DEF CourseInv, Holds
  <2>2. IdOf[p] = i
    BY <1>1, <1>4, <2>1 DEF CourseInv, InTouch
  <2>3. p \in created /\ ~Mapped(p)
    BY <1>2, <2>1, <2>2 DEF IInv, MapInv, Mapped
  <2> QED
    BY <1>1, <2>2, <2>3 DEF Excused
<1> QED
  BY <1>3, <1>4

LEMMA StoredHeldStep ==
  /\ ServerTypeOK /\ IInv /\ ConnectionInv /\ DeliveryInv /\ CourseInv
  /\ StoredHeldAfterRemoval /\ [ServerNext]_serverVars
  => StoredHeldAfterRemoval'
<1> SUFFICES ASSUME ServerTypeOK, IInv, ConnectionInv, DeliveryInv, CourseInv,
                    StoredHeldAfterRemoval, [ServerNext]_serverVars,
                    NEW t \in Tasks, NEW p \in Providers,
                    stored'[t] = "SUCCESS", Holds(p, t)'
             PROVE  Excused(t)'
  BY DEF StoredHeldAfterRemoval, Excused
<1>1. CASE stored[t] = "SUCCESS"
  <2>1. pc[t] # "idle"
    BY <1>1 DEF DeliveryInv, RecordInv
  <2>2. PICK r \in Providers : Holds(r, t)
    BY <2>1, HeldBefore, DispatcherStep
  <2> QED
    BY <1>1, <2>2, ExcuseStands DEF StoredHeldAfterRemoval, Excused
<1>2. CASE stored[t] # "SUCCESS"
  BY <1>2, OnlyResultsAreStored, ResultHeldElsewhere, ExcuseStands
<1> QED
  BY <1>1, <1>2

\* Whose result is on file is generated again only if a provider of a node that had it
\* was removed.
THEOREM OnlyRemovalsRepeat == ServerSpec => []StoredHeldAfterRemoval
<1>1. ServerInit => StoredHeldAfterRemoval
  BY DEF ServerInit, StoredHeldAfterRemoval
<1> QED
  BY <1>1, StoredHeldStep, ServerBase, Connections, Deliveries, Courses, PTL DEF ServerSpec

-------------------------------------------------------------------------------
(* The node with one connection.                                           *)

\* Handler w neither enters on_connection_lost nor leaves it for its loop.
Stays(w) ==
  /\ pc'[w] = "idle" <=> pc[w] = "idle"
  /\ pc'[w] \in {"offline", "closed"} =>
       pc[w] \in {"offline", "closed"} /\ target'[w] = target[w]

LEMMA DispatcherStays ==
  ASSUME IInv, NEW w \in Handlers,
         \/ \E t \in Tasks : AddTask(t) \/ AddTaskReturns(t)
         \/ \E a \in Tasks \cup Providers : SendReturns(a) \/ SendRaises(a)
         \/ \E p \in Providers : RescheduleNext(p) \/ RescheduleDone(p)
         \/ \E v \in Handlers :
              \/ OfflineTimeout(v) \/ ConnectionLostCallback(v) \/ HandlerReturns(v)
              \/ v # w /\ \E p \in Providers : OnConnectionLost(v, p)
  PROVE  Stays(w)
<1>0. /\ pc \in [Callers -> Places] /\ target \in [Callers -> Providers \cup {None}]
      /\ w \in Callers /\ w \notin Tasks \cup Providers /\ Handlers \subseteq Callers
      /\ Tasks \cup Providers \subseteq Callers
  BY CallersAreApart DEF IInv, TypeOK, Callers
<1>a. ASSUME NEW a \in Tasks \cup Providers, NEW t, AddTaskIn(a, t) PROVE Stays(w)
  <2>1. pc'[w] = pc[w] /\ target'[w] = target[w]
    BY <1>0, <1>a DEF AddTaskIn
  <2> QED
    BY <2>1 DEF Stays
<1>b. ASSUME NEW a \in Callers \ {w}, NEW at, NEW id, NEW removing,
             Reschedule(a, at, id, removing), target'[w] = target[w]
      PROVE  Stays(w)
  <2>1. pc'[w] = pc[w]
    BY <1>0, <1>b DEF Reschedule
  <2> QED
    BY <1>b, <2>1 DEF Stays
<1>1. ASSUME NEW t \in Tasks, AddTask(t) \/ AddTaskReturns(t) PROVE Stays(w)
  BY <1>0, <1>1, <1>a DEF AddTask, AddTaskReturns, Stays
<1>2. ASSUME NEW a \in Tasks \cup Providers, SendReturns(a) \/ SendRaises(a)
      PROVE  Stays(w)
  <2>1. a \in Callers \ {w} /\ target'[w] = target[w]
    BY <1>0, <1>2 DEF SendReturns, SendRaises, EndSend
  <2> QED
    BY <1>0, <1>2, <2>1, <1>b DEF SendReturns, SendRaises, OnClosed, Stays
<1>3. ASSUME NEW p \in Providers, RescheduleNext(p) \/ RescheduleDone(p) PROVE Stays(w)
  BY <1>0, <1>3, <1>a DEF RescheduleNext, RescheduleDone, Stays
<1>4. ASSUME NEW v \in Handlers, OfflineTimeout(v) \/ ConnectionLostCallback(v)
      PROVE  Stays(w)
  <2>1. target' = target /\ v \in Callers /\ pc[v] \in {"offline", "closed"}
    BY <1>0, <1>4 DEF OfflineTimeout, ConnectionLostCallback
  <2>2. \/ Reschedule(v, "closed", IdOf[target[v]], TRUE)
        \/ Reschedule(v, "returning", IdOf[target[v]], FALSE)
    BY <1>4 DEF OfflineTimeout, OnClosed, ConnectionLostCallback
  <2>3. IF v = w THEN pc'[w] \in {"closed", "returning"} ELSE pc'[w] = pc[w]
    BY <1>0, <2>2 DEF Reschedule
  <2> QED
    BY <2>1, <2>3 DEF Stays
<1>5. ASSUME NEW v \in Handlers, HandlerReturns(v) PROVE Stays(w)
  BY <1>0, <1>5 DEF HandlerReturns, Stays
<1>6. ASSUME NEW v \in Handlers, v # w, NEW p \in Providers, OnConnectionLost(v, p)
      PROVE  Stays(w)
  <2>1. v \in Callers \ {w} /\ target'[w] = target[w]
    BY <1>0, <1>6 DEF OnConnectionLost
  <2> QED
    BY <1>0, <1>6, <2>1, <1>b DEF OnConnectionLost, Stays
<1> QED
  BY <1>1, <1>2, <1>3, <1>4, <1>5, <1>6

LEMMA HandlerStaysOrLeaves ==
  ASSUME ServerTypeOK, IInv, [ServerNext]_serverVars, NEW w \in Handlers
  PROVE  Stays(w) \/ Leave(w)
<1>a. UNCHANGED <<pc, target>> => Stays(w)
  BY DEF Stays
<1>1. ASSUME NEW v \in Handlers, Connect(v) \/ LinkDrops(v) \/ Register(v) \/ Crash(v)
      PROVE  UNCHANGED <<pc, target>>
  BY <1>1 DEF Connect, LinkDrops, Crash, Register, RestoreConnection, AddProvider, vars,
              frameVars
<1>2. ASSUME NEW v \in Handlers, Disconnect(v) \/ Close(v) PROVE Stays(w) \/ Leave(w)
  <2>1. Leave(v)
    BY <1>2 DEF Disconnect, Close
  <2> QED
    BY <2>1, <1>a, LeaveCases, DispatcherStays DEF vars, frameVars
<1>3. ASSUME NEW v \in Handlers, HandlerEnds(v) PROVE Stays(w)
  BY <1>3, DispatcherStays DEF HandlerEnds
<1>4. ASSUME NEW v \in Handlers, NEW t \in Tasks, Receive(v, t)
      PROVE  UNCHANGED <<pc, target>>
  BY <1>4, ReceiveCases DEF TaskCompleted, TaskFailed, Finish, vars, frameVars
<1>5. ASSUME NEW t \in Tasks, Answers(t) PROVE UNCHANGED <<pc, target>>
  BY <1>5 DEF Answers, Refuse, RequestRaises, AddComfyTask, AnsweredAtOnce,
              GenerationReturns, GenerationTimeout, vars, frameVars
<1>6. ASSUME NEW t \in Tasks, Request(t) \/ Added(t) PROVE Stays(w)
  BY <1>6, DispatcherStays DEF Request, Added
<1>7. ASSUME NEW a \in Tasks \cup Providers, Sent(a) \/ NotSent(a) PROVE Stays(w)
  BY <1>7, DispatcherStays DEF Sent, NotSent
<1>8. CASE Internal
  BY <1>8, DispatcherStays DEF Internal
<1>9. CASE ServerQuiescent \/ UNCHANGED serverVars
  BY <1>9, <1>a DEF ServerQuiescent, serverVars, vars, frameVars
<1> QED
  BY <1>a, <1>1, <1>2, <1>3, <1>4, <1>5, <1>6, <1>7, <1>8, <1>9 DEF ServerNext, Answers

\* A handler comes and goes with its connection, a handler that waits lost a provider
\* of its node, and every provider has a connection that has been there.
LinkInv ==
  /\ \A w \in Handlers :
       /\ w \in receiving => link[w] # "none" /\ pc[w] = "idle"
       /\ pc[w] # "idle" => link[w] # "none"
       /\ pc[w] \in {"offline", "closed"} => IdOf[target[w]] = NodeOf[w]
       /\ registered[w] # None => \E p \in created : IdOf[p] = NodeOf[w]
  /\ \A p \in created : link[wsOf[p]] # "none"

\* What a step does to a connection and its handler.
LEMMA LinkSteps ==
  ASSUME ServerTypeOK, [ServerNext]_serverVars, NEW w \in Handlers
  PROVE  /\ link[w] # "none" => link'[w] # "none"
         /\ link'[w] = "up" => link[w] = "up" \/ Connect(w)
         /\ w \in receiving' => w \in receiving \/ Connect(w)
         /\ registered'[w] # None => registered[w] # None \/ Register(w)
         /\ Leave(w) => w \notin receiving'
<1>0. /\ link \in [Handlers -> {"none", "up", "down"}]
      /\ registered \in [Handlers -> Ids \cup {None}]
  BY DEF ServerTypeOK
<1>1. /\ link[w] # "none" => link'[w] # "none"
      /\ link'[w] = "up" => link[w] = "up" \/ Connect(w)
  <2>1. ASSUME NEW v \in Handlers,
               \/ Connect(v) \/ LinkDrops(v) \/ Crash(v) \/ HandlerEnds(v)
               \/ \E t \in Tasks : Receive(v, t)
        PROVE  /\ link'[w] = "none" => link[w] = "none"
               /\ link'[w] = "up" => link[w] = "up" \/ Connect(w)
    BY <1>0, <2>1 DEF Connect, LinkDrops, Crash, HandlerEnds, Receive
  <2>2. CASE UNCHANGED link
    BY <2>2
  <2> QED
    BY <2>1, <2>2
    DEF ServerNext, serverVars, nodeVars, Register, Disconnect, Close, Refuse,
        RequestRaises, AddComfyTask, AnsweredAtOnce, Request, Added, GenerationReturns,
        GenerationTimeout, Sent, NotSent, Internal, ServerQuiescent
<1>2. w \in receiving' => w \in receiving \/ Connect(w)
  BY DEF ServerNext, serverVars, nodeVars, Connect, LinkDrops, Register, Disconnect, Close,
         Leave, Crash, HandlerEnds, Receive, Result, Error, Unregistered, Refuse,
         RequestRaises, AddComfyTask, AnsweredAtOnce, Request, Added, GenerationReturns,
         GenerationTimeout, Sent, NotSent, Internal, ServerQuiescent
<1>3. registered'[w] # None => registered[w] # None \/ Register(w)
  <2>1. ASSUME NEW v \in Handlers, Register(v) \/ Leave(v)
        PROVE  registered'[w] # None => registered[w] # None \/ Register(w)
    BY <1>0, <2>1 DEF Register, Remember, Leave
  <2>2. CASE UNCHANGED registered
    BY <2>2
  <2> QED
    BY <2>1, <2>2
    DEF ServerNext, serverVars, nodeVars, Connect, LinkDrops, Disconnect, Close, Crash,
        HandlerEnds, Receive, Refuse, RequestRaises, AddComfyTask, AnsweredAtOnce, Request,
        Added, GenerationReturns, GenerationTimeout, Sent, NotSent, Internal,
        ServerQuiescent
<1>4. Leave(w) => w \notin receiving'
  BY DEF Leave
<1> QED
  BY <1>1, <1>2, <1>3, <1>4

\* Providers are made by registrations, whose connections they get.
LEMMA ProvidersAreMade ==
  ASSUME ServerTypeOK, IInv, [ServerNext]_serverVars
  PROVE  \/ UNCHANGED <<created, wsOf>>
         \/ \E w \in Handlers, p \in Providers :
              /\ Register(w) /\ w \in receiving /\ IdOf[p] = NodeOf[w]
              /\ created' = created \cup {p} /\ p \notin created /\ Mapped(p)'
              /\ wsOf' = [wsOf EXCEPT ![p] = w]
<1>1. ASSUME NEW w \in Handlers, Register(w)
      PROVE  \/ UNCHANGED <<created, wsOf>>
             \/ \E p \in Providers :
                  /\ w \in receiving /\ IdOf[p] = NodeOf[w]
                  /\ created' = created \cup {p} /\ p \notin created /\ Mapped(p)'
                  /\ wsOf' = [wsOf EXCEPT ![p] = w]
  <2>1. CASE RestoreConnection(NodeOf[w]) /\ UNCHANGED wsOf
    BY <2>1 DEF RestoreConnection
  <2>2. ASSUME NEW p \in Providers, IdOf[p] = NodeOf[w], AddProvider(p),
               wsOf' = [wsOf EXCEPT ![p] = w]
        PROVE  /\ w \in receiving /\ created' = created \cup {p} /\ p \notin created
               /\ Mapped(p)'
    <3>1. providers \in [Ids -> Providers \cup {None}] /\ IdOf[p] \in Ids
      BY ConstantsAssumption DEF ServerTypeOK, TypeOK
    <3> QED
      BY <1>1, <2>2, <3>1 DEF Register, AddProvider, Mapped
  <2> QED
    BY <1>1, <2>1, <2>2 DEF Register
<1>2. CASE ~\E w \in Handlers : Register(w)
  <2>1. UNCHANGED wsOf
    BY <1>2 DEF ServerNext, serverVars, nodeVars, Connect, LinkDrops, Disconnect, Close,
         Leave, Crash, HandlerEnds, Receive, Refuse, RequestRaises, AddComfyTask,
         AnsweredAtOnce, Request, Added, GenerationReturns, GenerationTimeout, Sent,
         NotSent, Internal, ServerQuiescent
  <2>2. UNCHANGED created
    <3>1. ASSUME NEW w \in Handlers,
                 \/ Disconnect(w) \/ Close(w) \/ \E t \in Tasks : Receive(w, t)
          PROVE  UNCHANGED created
      BY <3>1, LeaveCases, ReceiveCases
      DEF Disconnect, Close, OnConnectionLost, TaskCompleted, TaskFailed, Finish, vars,
          stateVars
    <3>2. CASE Internal
      BY <3>2, InternalRemoves DEF OnlyRemoves, ServerTypeOK
    <3> QED
      BY <1>2, <3>1, <3>2
      DEF ServerNext, serverVars, vars, stateVars, Connect, LinkDrops, Crash, HandlerEnds,
          HandlerReturns, Refuse, RequestRaises, AddComfyTask, AnsweredAtOnce, Request,
          AddTask, Added, AddTaskReturns, GenerationReturns, GenerationTimeout, Sent,
          SendReturns, NotSent, SendRaises, ServerQuiescent
  <2> QED
    BY <2>1, <2>2
<1> QED
  BY <1>1, <1>2

LEMMA LinkStep ==
  /\ ServerTypeOK /\ IInv /\ OwnId /\ LinkInv /\ WsInv
  /\ [ServerNext]_serverVars
  => LinkInv'
<1> SUFFICES ASSUME ServerTypeOK, IInv, OwnId, LinkInv, WsInv, [ServerNext]_serverVars
             PROVE  LinkInv'
  OBVIOUS
<1>1. ASSUME NEW w \in Handlers
      PROVE  /\ w \in receiving' => link'[w] # "none" /\ pc'[w] = "idle"
             /\ pc'[w] # "idle" => link'[w] # "none"
             /\ pc'[w] \in {"offline", "closed"} => IdOf[target'[w]] = NodeOf[w]
  <2>1. CASE Stays(w)
    <3>1. CASE Connect(w)
      BY <2>1, <3>1 DEF Connect, Stays, LinkInv, ServerTypeOK
    <3>2. CASE ~Connect(w)
      BY <2>1, <3>2, LinkSteps DEF Stays, LinkInv
    <3> QED
      BY <3>1, <3>2
  <2>2. CASE Leave(w)
    <3>1. w \in receiving /\ w \notin receiving' /\ link[w] # "none" /\ link'[w] # "none"
      BY <2>2, LinkSteps DEF Leave, LinkInv
    <3>2. CASE UNCHANGED vars
      BY <3>1, <3>2 DEF LinkInv, vars, frameVars
    <3>3. ASSUME NEW p \in Providers, registered[w] \in Ids, providers[registered[w]] = p,
                 OnConnectionLost(w, p)
          PROVE  pc'[w] \in {"offline", "closed"} => IdOf[target'[w]] = NodeOf[w]
      <4>1. registered[w] = NodeOf[w] /\ p # None
        BY <3>3, ConstantsAssumption, CallersAreApart DEF OwnId, Callers
      <4>2. IdOf[p] = NodeOf[w]
        BY <3>3, <4>1 DEF IInv, MapInv
      <4>3. target'[w] = p
        BY <3>3 DEF OnConnectionLost, IInv, TypeOK, Callers
      <4> QED
        BY <4>2, <4>3
    <3> QED
      BY <2>2, <3>1, <3>2, <3>3, LeaveCases
  <2> QED
    BY <2>1, <2>2, HandlerStaysOrLeaves
<1>2. ASSUME NEW w \in Handlers, registered'[w] # None
      PROVE  \E p \in created' : IdOf[p] = NodeOf[w]
  <2>1. created \subseteq created'
    BY ProvidersAreMade
  <2>2. CASE registered[w] # None
    BY <2>1, <2>2 DEF LinkInv
  <2>3. CASE Register(w)
    <3>1. CASE RestoreConnection(NodeOf[w])
      <4>1. NodeOf[w] \in Ids
        BY ServerAssumption
      <4> QED
        BY <2>1, <3>1, <4>1 DEF RestoreConnection, IInv, MapInv
    <3>2. CASE \E p \in Providers : IdOf[p] = NodeOf[w] /\ AddProvider(p)
      BY <3>2 DEF AddProvider
    <3> QED
      BY <2>3, <3>1, <3>2 DEF Register
  <2> QED
    BY <1>2, <2>2, <2>3, LinkSteps
<1>3. ASSUME NEW p \in created' PROVE link'[wsOf'[p]] # "none"
  <2>1. CASE p \in created /\ wsOf'[p] = wsOf[p]
    BY <2>1, LinkSteps DEF LinkInv, WsInv
  <2>2. ASSUME NEW w \in Handlers, w \in receiving, wsOf'[p] = w
        PROVE  link'[wsOf'[p]] # "none"
    BY <2>2, LinkSteps DEF LinkInv
  <2>3. wsOf \in [Providers -> Handlers \cup {None}] /\ created \subseteq Providers
    BY DEF ServerTypeOK, TypeOK
  <2> QED
    BY <1>3, <2>1, <2>2, <2>3, ProvidersAreMade
<1> QED
  BY <1>1, <1>2, <1>3 DEF LinkInv

LEMMA Links == ServerSpec => []LinkInv
<1>1. ServerInit => LinkInv
  BY DEF ServerInit, Init, LinkInv, Callers
<1>2. ConnectionInv => OwnId
  BY DEF ConnectionInv
<1>3. DeliveryInv => WsInv
  BY DEF DeliveryInv
<1> QED
  BY <1>1, <1>2, <1>3, LinkStep, ServerBase, Connections, Deliveries, PTL DEF ServerSpec

\* What a step does that takes a provider of node i out of the dispatcher.
Drops(i) ==
  \/ \E a \in Tasks \cup Providers :
       pc[a] = "sending" /\ IdOf[target[a]] = i /\ link[wsOf[target[a]]] = "down"
  \/ \E v \in Handlers : Leave(v) /\ registered[v] = i
  \/ \E v \in Handlers : pc[v] \in {"offline", "closed"} /\ IdOf[target[v]] = i
  \/ \E q \in Providers : pc[q] # "idle" /\ IdOf[q] = i

LEMMA ProvidersAreDropped ==
  ASSUME ServerTypeOK, IInv, OwnId, [ServerNext]_serverVars, NEW i \in Ids,
         providers[i] # None, providers'[i] # providers[i]
  PROVE  Drops(i)
<1>0. providers \in [Ids -> Providers \cup {None}] /\ IdOf \in [Providers -> Ids]
  BY ConstantsAssumption DEF ServerTypeOK, TypeOK
<1>a. ASSUME NEW a, NEW at, NEW id, NEW removing, Reschedule(a, at, id, removing)
      PROVE  id = i
  BY <1>0, <1>a DEF Reschedule
<1>1. ASSUME NEW w \in Handlers, Disconnect(w) \/ Close(w) PROVE Drops(i)
  <2>1. Leave(w)
    BY <1>1 DEF Disconnect, Close
  <2>2. PICK p \in Providers : /\ registered[w] \in Ids /\ providers[registered[w]] = p
                               /\ OnConnectionLost(w, p)
    BY <2>1, LeaveCases DEF vars, stateVars
  <2>3. IdOf[p] = i
    BY <2>2, <1>a DEF OnConnectionLost
  <2>4. p # None
    BY CallersAreApart DEF Callers
  <2>5. IdOf[p] = registered[w]
    BY <2>2, <2>4 DEF IInv, MapInv
  <2> QED
    BY <2>1, <2>3, <2>5 DEF Drops
<1>2. ASSUME NEW w \in Handlers, Register(w) PROVE FALSE
  BY <1>0, <1>2 DEF Register, RestoreConnection, AddProvider
<1>3. ASSUME NEW a \in Tasks \cup Providers, NotSent(a) PROVE Drops(i)
  <2>1. pc[a] = "sending" /\ IdOf[target[a]] = i
    BY <1>3, <1>a DEF NotSent, SendRaises, EndSend, OnClosed
  <2> QED
    BY <1>3, <2>1 DEF NotSent, Drops
<1>4. CASE Internal
  <2>1. ASSUME NEW p \in Providers, RescheduleNext(p) PROVE FALSE
    BY <2>1 DEF RescheduleNext
  <2>2. ASSUME NEW p \in Providers, RescheduleDone(p) PROVE Drops(i)
    <3>1. pc[p] = "draining" /\ IdOf[p] = i
      BY <1>0, <2>2 DEF RescheduleDone
    <3> QED
      BY <3>1 DEF Drops
  <2>3. ASSUME NEW v \in Handlers, OfflineTimeout(v) \/ ConnectionLostCallback(v)
        PROVE  Drops(i)
    <3>1. pc[v] \in {"offline", "closed"} /\ IdOf[target[v]] = i
      BY <2>3, <1>a DEF OfflineTimeout, OnClosed, ConnectionLostCallback
    <3> QED
      BY <3>1 DEF Drops
  <2> QED
    BY <1>4, <2>1, <2>2, <2>3 DEF Internal
<1>5. ASSUME NEW w \in Handlers, NEW t \in Tasks, Receive(w, t) PROVE FALSE
  BY <1>5, ReceiveCases DEF TaskCompleted, TaskFailed, Finish, vars, stateVars
<1> QED
  BY <1>1, <1>2, <1>3, <1>4, <1>5
  DEF ServerNext, serverVars, vars, stateVars, Connect, LinkDrops, Crash, HandlerEnds,
      HandlerReturns, Refuse, RequestRaises, AddComfyTask, AnsweredAtOnce, Request,
      AddTask, Added, AddTaskReturns, GenerationReturns, GenerationTimeout, Sent,
      SendReturns, ServerQuiescent

\* While a node's first connection is up and read, the node's providers are in the
\* dispatcher, all one of them.
SoleInv ==
  \A w \in receiving : link[w] = "up" /\ OnlyConnection(w) =>
    \A p \in created : IdOf[p] = NodeOf[w] => Mapped(p)

LEMMA SoleStep ==
  /\ ServerTypeOK /\ IInv /\ OwnId /\ SendsInv /\ WsInv /\ LinkInv /\ SoleInv
  /\ [ServerNext]_serverVars
  => SoleInv'
<1> SUFFICES ASSUME ServerTypeOK, IInv, OwnId, SendsInv, WsInv, LinkInv, SoleInv,
                    [ServerNext]_serverVars,
                    NEW w \in receiving', link'[w] = "up", OnlyConnection(w)',
                    NEW p \in created', IdOf[p] = NodeOf[w]
             PROVE  Mapped(p)'
  BY DEF SoleInv
<1>0. /\ w \in Handlers /\ receiving \subseteq Handlers /\ created \subseteq Providers
      /\ link \in [Handlers -> {"none", "up", "down"}]
  BY ServerTypeStep DEF ServerTypeOK, TypeOK
<1>1. /\ OnlyConnection(w)
      /\ \A v \in Handlers : link[v] # "none" /\ NodeOf[v] = NodeOf[w] => v = w
  BY <1>0, LinkSteps DEF OnlyConnection
<1>2. CASE p \notin created
  BY <1>2, ProvidersAreMade
<1>3. CASE p \in created
  <2>1. wsOf[p] = w /\ link[w] # "none"
    BY <1>0, <1>1, <1>3 DEF WsInv, LinkInv
  <2>2. w \in receiving /\ link[w] = "up"
    BY <1>0, <2>1, LinkSteps DEF Connect
  <2>3. \A q \in created : IdOf[q] = NodeOf[w] => Mapped(q) /\ wsOf[q] = w
    BY <1>0, <1>1, <2>2 DEF SoleInv, WsInv, LinkInv
  <2>4. ~Drops(NodeOf[w])
    <3>1. ASSUME NEW a \in Tasks \cup Providers, pc[a] = "sending",
                 IdOf[target[a]] = NodeOf[w], link[wsOf[target[a]]] = "down"
          PROVE  FALSE
      BY <2>2, <2>3, <3>1 DEF SendsInv
    <3>2. ASSUME NEW v \in Handlers, Leave(v), registered[v] = NodeOf[w] PROVE FALSE
      <4>1. v \in receiving /\ NodeOf[v] = NodeOf[w]
        BY <1>0, <3>2, ServerAssumption, ConstantsAssumption DEF Leave, OwnId
      <4>2. v = w
        BY <1>1, <4>1 DEF LinkInv
      <4> QED
        BY <1>0, <3>2, <4>2, LinkSteps
    <3>3. ASSUME NEW v \in Handlers, pc[v] \in {"offline", "closed"},
                 IdOf[target[v]] = NodeOf[w]
          PROVE  FALSE
      <4>1. v = w
        BY <1>1, <3>3 DEF LinkInv
      <4> QED
        BY <1>0, <2>2, <3>3, <4>1 DEF LinkInv
    <3>4. ASSUME NEW q \in Providers, pc[q] # "idle", IdOf[q] = NodeOf[w] PROVE FALSE
      <4>1. q \in created
        BY <3>4 DEF IInv, MapInv
      <4> QED
        BY <2>3, <3>4, <4>1, MappedIsIdle DEF IInv
    <3> QED
      BY <3>1, <3>2, <3>3, <3>4 DEF Drops
  <2>5. /\ providers[NodeOf[w]] = p /\ NodeOf[w] \in Ids /\ p # None
    BY <1>0, <1>3, <2>3, ServerAssumption, CallersAreApart DEF Mapped, Callers
  <2>6. providers'[NodeOf[w]] = p
    BY <2>4, <2>5, ProvidersAreDropped
  <2> QED
    BY <2>6 DEF Mapped
<1> QED
  BY <1>2, <1>3

LEMMA Soles == ServerSpec => []SoleInv
<1>1. ServerInit => SoleInv
  BY DEF ServerInit, SoleInv
<1>2. ConnectionInv => OwnId
  BY DEF ConnectionInv
<1>3. DeliveryInv => SendsInv /\ WsInv
  BY DEF DeliveryInv
<1> QED
  BY <1>1, <1>2, <1>3, SoleStep, ServerBase, Connections, Deliveries, Links, PTL
  DEF ServerSpec

\* A node whose first connection is up and registered is served on that connection,
\* whatever happens to the other nodes.
THEOREM FirstConnectionIsServed == ServerSpec => []OnlyConnectionIsServed
<1>1. ServerTypeOK /\ OwnId /\ WsInv /\ LinkInv /\ SoleInv => OnlyConnectionIsServed
  <2> SUFFICES ASSUME ServerTypeOK, OwnId, WsInv, LinkInv, SoleInv, NEW w \in receiving,
                      link[w] = "up", registered[w] # None, OnlyConnection(w)
               PROVE  \E p \in Providers : providers[registered[w]] = p /\ wsOf[p] = w
    BY DEF OnlyConnectionIsServed
  <2>1. w \in Handlers /\ created \subseteq Providers
    BY DEF ServerTypeOK, TypeOK
  <2>2. PICK p \in created : IdOf[p] = NodeOf[w]
    BY <2>1 DEF LinkInv
  <2>3. Mapped(p) /\ registered[w] = NodeOf[w]
    BY <2>1, <2>2 DEF SoleInv, OwnId
  <2>4. wsOf[p] = w
    BY <2>1, <2>2 DEF WsInv, LinkInv, OnlyConnection
  <2> QED
    BY <2>1, <2>2, <2>3, <2>4 DEF Mapped
<1>2. ConnectionInv => OwnId
  BY DEF ConnectionInv
<1>3. DeliveryInv => WsInv
  BY DEF DeliveryInv
<1> QED
  BY <1>1, <1>2, <1>3, ServerTypeCorrect, Connections, Deliveries, Links, Soles, PTL

-------------------------------------------------------------------------------
(* What users see.                                                         *)

\* A request that has begun has a record; it is answered after add_task returned, and
\* has an event only then, if it waits for the result.
RequestInv ==
  \A t \in Tasks :
    /\ pc[t] # "idle" => stored[t] # "none"
    /\ pc[t] \in {"sending", "added"} => reply[t] = "none"
    /\ ready[t] # "none" => t \in Sync /\ pc[t] = "done"

\* A request goes on in the dispatcher: begins, sends, is added, and returns.
LEMMA TaskSteps ==
  ASSUME ServerTypeOK, IInv, [ServerNext]_serverVars, NEW t \in Tasks
  PROVE  \/ pc'[t] = pc[t] /\ ~Request(t) /\ ~Added(t)
         \/ pc[t] = "sending" /\ pc'[t] = "added" /\ ~Request(t) /\ ~Added(t)
         \/ Request(t) /\ pc[t] = "idle" /\ pc'[t] \in {"sending", "added"}
         \/ Added(t) /\ pc'[t] = "done"
<1>0. /\ pc \in [Callers -> Places] /\ t \in Callers /\ t \notin Providers \cup Handlers
      /\ Callers = Tasks \cup Providers \cup Handlers
  BY CallersAreApart DEF ServerTypeOK, TypeOK, Callers
<1> DEFINE Goes == \/ pc'[t] = pc[t]
                   \/ pc[t] = "sending" /\ pc'[t] = "added"
<1>a. ASSUME NEW a \in Callers \ {t}, NEW at, NEW id, NEW removing,
             Reschedule(a, at, id, removing)
      PROVE  pc'[t] = pc[t]
  BY <1>0, <1>a DEF Reschedule
<1>b. ASSUME NEW a \in Callers \ {t}, NEW u, AddTaskIn(a, u) PROVE pc'[t] = pc[t]
  BY <1>0, <1>b DEF AddTaskIn
<1>1. CASE Request(t)
  <2>1. pc[t] = "idle" /\ AddTaskIn(t, t)
    BY <1>1 DEF Request, AddTask
  <2>2. pc'[t] \in {"sending", "added"}
    BY <1>0, <2>1 DEF AddTaskIn, AfterSend
  <2> QED
    BY <1>1, <2>1, <2>2
<1>2. CASE Added(t)
  BY <1>0, <1>2 DEF Added, AddTaskReturns
<1>3. ASSUME NEW w \in Handlers, Connect(w) \/ LinkDrops(w) \/ Register(w) \/ Crash(w)
      PROVE  UNCHANGED pc
  BY <1>3 DEF Connect, LinkDrops, Crash, Register, RestoreConnection, AddProvider, vars,
              frameVars
<1>4. ASSUME NEW w \in Handlers, Disconnect(w) \/ Close(w) PROVE pc'[t] = pc[t]
  <2>1. Leave(w) /\ w \in Callers \ {t}
    BY <1>0, <1>4 DEF Disconnect, Close
  <2>2. ASSUME NEW p \in Providers, OnConnectionLost(w, p) PROVE pc'[t] = pc[t]
    BY <1>0, <2>1, <2>2, <1>a DEF OnConnectionLost
  <2> QED
    BY <2>1, <2>2, LeaveCases DEF vars, frameVars
<1>5. ASSUME NEW w \in Handlers, HandlerEnds(w) PROVE pc'[t] = pc[t]
  BY <1>0, <1>5 DEF HandlerEnds, HandlerReturns
<1>6. ASSUME NEW w \in Handlers, NEW u \in Tasks, Receive(w, u) PROVE UNCHANGED pc
  BY <1>6, ReceiveCases DEF TaskCompleted, TaskFailed, Finish, vars, frameVars
<1>7. ASSUME NEW u \in Tasks, Answers(u) PROVE UNCHANGED pc
  BY <1>7 DEF Answers, Refuse, RequestRaises, AddComfyTask, AnsweredAtOnce,
              GenerationReturns, GenerationTimeout, vars, frameVars
<1>8. ASSUME NEW u \in Tasks \ {t}, Request(u) \/ Added(u) PROVE pc'[t] = pc[t]
  BY <1>0, <1>8, <1>b DEF Request, AddTask, Added, AddTaskReturns
<1>9. ASSUME NEW a \in Tasks \cup Providers, Sent(a) \/ NotSent(a) PROVE Goes
  <2>1. pc[a] = "sending" /\ a \in Callers
    BY <1>0, <1>9 DEF Sent, NotSent, SendReturns, SendRaises, EndSend
  <2>2. CASE Sent(a)
    BY <1>0, <2>1, <2>2 DEF Sent, SendReturns, AfterSend
  <2>3. CASE NotSent(a)
    <3>1. Reschedule(a, AfterSend(a), IdOf[target[a]], TRUE)
      BY <2>3 DEF NotSent, SendRaises, OnClosed
    <3>2. CASE a = t
      BY <1>0, <2>1, <3>1, <3>2 DEF Reschedule, AfterSend
    <3>3. CASE a # t
      BY <2>1, <3>1, <3>3, <1>a
    <3> QED
      BY <3>2, <3>3
  <2> QED
    BY <1>9, <2>2, <2>3
<1>10. ASSUME Internal PROVE pc'[t] = pc[t]
  <2>1. ASSUME NEW p \in Providers, RescheduleNext(p) \/ RescheduleDone(p)
        PROVE  pc'[t] = pc[t]
    BY <1>0, <2>1, <1>b DEF RescheduleNext, RescheduleDone
  <2>2. ASSUME NEW w \in Handlers, OfflineTimeout(w) \/ ConnectionLostCallback(w)
        PROVE  pc'[t] = pc[t]
    <3>1. \/ Reschedule(w, "closed", IdOf[target[w]], TRUE)
          \/ Reschedule(w, "returning", IdOf[target[w]], FALSE)
      BY <2>2 DEF OfflineTimeout, OnClosed, ConnectionLostCallback
    <3> QED
      BY <1>0, <3>1, <1>a
  <2> QED
    BY <1>10, <2>1, <2>2 DEF Internal
<1>11. ASSUME ServerQuiescent \/ UNCHANGED serverVars PROVE UNCHANGED pc
  BY <1>11 DEF ServerQuiescent, serverVars, vars, frameVars
<1> QED
  BY <1>1, <1>2, <1>3, <1>4, <1>5, <1>6, <1>7, <1>8, <1>9, <1>10, <1>11
  DEF ServerNext, Answers

\* What a step does to the record, the answer and the event of a request.
LEMMA RequestSteps ==
  ASSUME ServerTypeOK, [ServerNext]_serverVars, NEW t \in Tasks
  PROVE  /\ stored'[t] = "none" => stored[t] = "none"
         /\ Request(t) => stored'[t] # "none" /\ reply'[t] = "none"
         /\ \/ reply'[t] = reply[t]
            \/ Refuse(t) \/ RequestRaises(t) \/ AddComfyTask(t)
            \/ Added(t) \/ ready[t] # "none"
         /\ ready'[t] # "none" => \/ ready[t] # "none"
                                  \/ Added(t) /\ t \in Sync
<1>0. /\ stored \in [Tasks -> {"none", "PENDING", "SUCCESS"}]
      /\ ready \in [Tasks -> {"none", "waiting", "set"}]
      /\ reply \in [Tasks -> Replies \cup {"none"}]
  BY DEF ServerTypeOK
<1>1. ASSUME NEW u \in Tasks, Request(u)
      PROVE  /\ u = t => stored'[t] # "none" /\ reply'[t] = "none"
             /\ stored'[t] = "none" => stored[t] = "none"
             /\ reply'[t] = reply[t] /\ ready'[t] = ready[t]
  BY <1>0, <1>1 DEF Request
<1>2. ASSUME NEW u \in Tasks, Added(u)
      PROVE  /\ stored'[t] = stored[t]
             /\ u # t => (reply'[t] = reply[t] /\ ready'[t] = ready[t])
             /\ ready'[t] # "none" => \/ ready[t] # "none"
                                      \/ u = t /\ t \in Sync
  BY <1>0, <1>2 DEF Added
<1>3. ASSUME NEW u \in Tasks, Answers(u)
      PROVE  /\ stored'[t] = stored[t] /\ ready'[t] = ready[t]
             /\ \/ reply'[t] = reply[t]
                \/ Refuse(t) \/ RequestRaises(t) \/ AddComfyTask(t) \/ ready[t] # "none"
  BY <1>0, <1>3 DEF Answers, Refuse, RequestRaises, AddComfyTask, AnsweredAtOnce,
                    GenerationReturns, GenerationTimeout
<1>4. ASSUME NEW w \in Handlers, NEW u \in Tasks, Receive(w, u)
      PROVE  /\ stored'[t] = "none" => stored[t] = "none"
             /\ reply'[t] = reply[t]
             /\ ready'[t] # "none" => ready[t] # "none"
  BY <1>0, <1>4 DEF Receive, Result, Error, Unregistered, Answer
<1>5. CASE UNCHANGED <<stored, reply, ready>>
  BY <1>1, <1>5
<1> QED
  BY <1>1, <1>2, <1>3, <1>4, <1>5
  DEF ServerNext, Answers, serverVars, requestVars, Connect, LinkDrops, Register,
      Disconnect, Close, Leave, Crash, HandlerEnds, Sent, NotSent, Internal,
      ServerQuiescent

LEMMA RequestStep ==
  ServerTypeOK /\ IInv /\ RequestInv /\ [ServerNext]_serverVars => RequestInv'
<1> SUFFICES ASSUME ServerTypeOK, IInv, RequestInv, [ServerNext]_serverVars,
                    NEW t \in Tasks
             PROVE  /\ pc'[t] # "idle" => stored'[t] # "none"
                    /\ pc'[t] \in {"sending", "added"} => reply'[t] = "none"
                    /\ ready'[t] # "none" => t \in Sync /\ pc'[t] = "done"
  BY DEF RequestInv
<1>1. pc'[t] # "idle" => stored'[t] # "none"
  BY TaskSteps, RequestSteps DEF RequestInv, Added, AddTaskReturns
<1>2. pc'[t] \in {"sending", "added"} => reply'[t] = "none"
  <2>1. Refuse(t) \/ RequestRaises(t) \/ AddComfyTask(t) => pc'[t] = "idle"
    BY DEF Refuse, RequestRaises, AddComfyTask, AnsweredAtOnce, vars, frameVars
  <2> QED
    BY <2>1, TaskSteps, RequestSteps DEF RequestInv
<1>3. ready'[t] # "none" => t \in Sync /\ pc'[t] = "done"
  <2>1. Added(t) => pc'[t] = "done"
    BY TaskSteps DEF Added, AddTaskReturns
  <2> QED
    BY <2>1, TaskSteps, RequestSteps DEF RequestInv
<1> QED
  BY <1>1, <1>2, <1>3

LEMMA RequestsAreFiled == ServerSpec => []RequestInv
<1>1. ServerInit => RequestInv
  BY DEF ServerInit, Init, RequestInv, Callers
<1> QED
  BY <1>1, RequestStep, ServerBase, PTL DEF ServerSpec

\* Each step is one of TaskService, or changes nothing that users see.
LEMMA ServiceStep ==
  /\ ServerTypeOK /\ IInv /\ DeliveryInv /\ RequestInv
  /\ [ServerNext]_serverVars
  => [Service!Next]_(Service!vars)
<1> SUFFICES ASSUME ServerTypeOK, IInv, DeliveryInv, RequestInv,
                    [ServerNext]_serverVars
             PROVE  [Service!Next]_(Service!vars)
  OBVIOUS
<1> DEFINE valid == {t \in Tasks : stored[t] # "none" /\ Sendable(options[t])}
           reached == {t \in Tasks : \E i \in Ids : t \in delivered[i]}
<1>0. /\ stored \in [Tasks -> {"none", "PENDING", "SUCCESS"}]
      /\ reply \in [Tasks -> Replies \cup {"none"}]
      /\ \A t \in Tasks : t \in reached <=> Reached(t)
  BY DEF ServerTypeOK, Reached
<1>a. UNCHANGED <<stored, options, delivered, reply>> => UNCHANGED Service!vars
  BY DEF Service!vars
<1>b. ASSUME NEW t \in Tasks,
             Service!TurnAway(t) \/ Service!File(t) \/ Service!Reach(t)
               \/ Service!Succeed(t) \/ Service!Reply(t)
      PROVE  Service!Next
  BY <1>b DEF Service!Next
<1>1. ASSUME NEW t \in Tasks, Refuse(t) \/ RequestRaises(t) \/ AddComfyTask(t)
      PROVE  Service!TurnAway(t)
  <2>1. /\ pc[t] = "idle" /\ reply[t] = "none"
        /\ \E r \in {"refused", "raised"} : reply' = [reply EXCEPT ![t] = r]
        /\ UNCHANGED <<stored, options, delivered>>
    BY <1>1 DEF Refuse, RequestRaises, AddComfyTask, AnsweredAtOnce, nodeVars
  <2>2. stored[t] = "none"
    BY <2>1 DEF DeliveryInv, RecordInv
  <2> QED
    BY <2>1, <2>2 DEF Service!TurnAway
<1>2. ASSUME NEW t \in Tasks, Request(t) PROVE Service!File(t)
  <2>1. /\ pc[t] = "idle" /\ reply[t] = "none"
        /\ stored' = [stored EXCEPT ![t] = "PENDING"]
        /\ \A u \in Tasks \ {t} : options'[u] = options[u]
        /\ UNCHANGED <<delivered, reply>>
    BY <1>2 DEF Request, AddTask, nodeVars, ServerTypeOK
  <2>2. stored[t] = "none"
    BY <2>1 DEF DeliveryInv, RecordInv
  <2>3. valid' \in {valid, valid \cup {t}}
    <3>1. t \notin valid /\ \A u \in Tasks \ {t} : u \in valid' <=> u \in valid
      BY <1>0, <2>1, <2>2
    <3> QED
      BY <3>1
  <2> QED
    BY <2>1, <2>2, <2>3 DEF Service!File
<1>3. ASSUME NEW a \in Tasks \cup Providers, Sent(a) PROVE [Service!Next]_(Service!vars)
  <2>1. UNCHANGED <<stored, options, reply>>
    BY <1>3 DEF Sent, requestVars
  <2>2. CASE UNCHANGED delivered
    BY <1>a, <2>1, <2>2
  <2>3. CASE ~UNCHANGED delivered
    <3> DEFINE n == NodeOf[wsOf[target[a]]]
    <3>1. /\ pc[a] = "sending" /\ Sendable(options[current[a]])
          /\ delivered' = [delivered EXCEPT ![n] = @ \cup {current[a]}]
      BY <1>3, <2>3 DEF Sent, SendReturns, EndSend
    <3>2. PICK t \in Tasks : t = current[a] /\ pc[t] # "idle" /\ n \in Ids
      <4>1. /\ current[a] \in Tasks /\ pc[current[a]] # "idle"
            /\ target[a] \in created
        BY <3>1 DEF IInv, TargetInv, DeliveryInv, SendsInv, Callers
      <4> QED
        BY <4>1, ServerAssumption DEF DeliveryInv, WsInv
    <3>3. t \in valid
      BY <3>1, <3>2 DEF RequestInv
    <3>4. reached' = reached \cup {t}
      BY <3>1, <3>2 DEF ServerTypeOK
    <3>5. Service!Reach(t)
      BY <2>1, <3>3, <3>4 DEF Service!Reach
    <3> QED
      BY <1>b, <3>2, <3>5
  <2> QED
    BY <2>2, <2>3
<1>4. ASSUME NEW w \in Handlers, NEW t \in Tasks, Receive(w, t)
      PROVE  [Service!Next]_(Service!vars)
  <2>1. UNCHANGED <<options, delivered, reply>> /\ t \in reached
    BY <1>4, ServerAssumption DEF Receive
  <2>2. UNCHANGED stored \/ stored' = [stored EXCEPT ![t] = "SUCCESS"]
    BY <1>4 DEF Receive, Result, Error, Unregistered
  <2>3. CASE UNCHANGED stored
    BY <1>a, <2>1, <2>3
  <2>4. CASE stored' = [stored EXCEPT ![t] = "SUCCESS"]
    <3>1. stored[t] # "none"
      BY <1>0, <2>1 DEF DeliveryInv, ReachedInv, RequestInv
    <3>2. UNCHANGED valid
      BY <1>0, <2>1, <2>4, <3>1
    <3>3. Service!Succeed(t)
      BY <2>1, <2>4, <3>2 DEF Service!Succeed
    <3> QED
      BY <1>b, <3>3
  <2> QED
    BY <2>2, <2>3, <2>4
<1>5. ASSUME NEW t \in Tasks, Added(t) \/ GenerationReturns(t) \/ GenerationTimeout(t)
      PROVE  [Service!Next]_(Service!vars)
  <2>1. UNCHANGED <<stored, options, delivered>>
    BY <1>5 DEF Added, GenerationReturns, GenerationTimeout, nodeVars
  <2>2. ASSUME NEW r \in {"accepted", "timeout", "images", "error", "raised"},
               stored[t] # "none", reply[t] = "none", r = "accepted" <=> t \notin Sync,
               r \in {"images", "error", "raised"} => Reached(t),
               reply' = [reply EXCEPT ![t] = r]
        PROVE  Service!Reply(t)
    BY <1>0, <2>1, <2>2 DEF Service!Reply
  <2>3. CASE Added(t)
    <3>1. stored[t] # "none" /\ reply[t] = "none"
      BY <2>3 DEF Added, AddTaskReturns, RequestInv
    <3> QED
      BY <1>a, <1>b, <2>1, <2>2, <2>3, <3>1 DEF Added
  <2>4. CASE GenerationReturns(t)
    <3>1. /\ stored[t] # "none" /\ reply[t] = "none" /\ t \in Sync /\ Reached(t)
          /\ reply' = [reply EXCEPT ![t] = ImageAnswer(message[t])]
      BY <2>4 DEF GenerationReturns, RequestInv, DeliveryInv, RecordInv
    <3>2. ImageAnswer(message[t]) \in {"images", "error", "raised"}
      BY DEF ImageAnswer
    <3> QED
      BY <1>b, <2>2, <3>1, <3>2
  <2>5. CASE GenerationTimeout(t)
    <3>1. /\ stored[t] # "none" /\ reply[t] = "none" /\ t \in Sync
          /\ reply' = [reply EXCEPT ![t] = "timeout"]
      BY <2>5 DEF GenerationTimeout, RequestInv
    <3> QED
      BY <1>b, <2>2, <3>1
  <2> QED
    BY <1>5, <2>3, <2>4, <2>5
<1>6. CASE \/ \E w \in Handlers : \/ Connect(w) \/ LinkDrops(w) \/ Register(w)
                                  \/ Disconnect(w) \/ Close(w) \/ Crash(w)
                                  \/ HandlerEnds(w)
           \/ \E a \in Tasks \cup Providers : NotSent(a)
           \/ Internal \/ ServerQuiescent \/ UNCHANGED serverVars
  <2>1. UNCHANGED <<stored, options, delivered, reply>>
    BY <1>6 DEF Connect, LinkDrops, Register, Disconnect, Close, Leave, Crash,
                HandlerEnds, NotSent, Internal, ServerQuiescent, serverVars, nodeVars,
                requestVars
  <2> QED
    BY <1>a, <2>1
<1> QED
  BY <1>b, <1>1, <1>2, <1>3, <1>4, <1>5, <1>6 DEF ServerNext

\* What users see of a task through the server, TaskService allows: it is on file
\* before its request is answered, only a valid one reaches nodes, only one that has
\* reached a node succeeds or is answered for, and a request is answered once.
THEOREM ServerImplementsService == ServerSpec => ImplementsService
<1>1. ServerInit => Service!Init
  BY DEF ServerInit, Service!Init
<1> QED
  BY <1>1, ServiceStep, ServerBase, Deliveries, RequestsAreFiled, PTL
  DEF ServerSpec, ImplementsService, Service!Spec

-------------------------------------------------------------------------------
(* What is made of a node's answer.                                        *)

\* An event is set with the message it tells of.
MessageInv == \A t \in Tasks : ready[t] = "set" => message[t] \in NodeReports

LEMMA MessageStep ==
  ServerTypeOK /\ MessageInv /\ [ServerNext]_serverVars => MessageInv'
<1> SUFFICES ASSUME ServerTypeOK, MessageInv, [ServerNext]_serverVars,
                    NEW t \in Tasks, ready'[t] = "set"
             PROVE  message'[t] \in NodeReports
  BY DEF MessageInv
<1>0. /\ ready \in [Tasks -> {"none", "waiting", "set"}]
      /\ message \in [Tasks -> NodeReports \cup {None}]
  BY DEF ServerTypeOK
<1>1. CASE UNCHANGED <<ready, message>>
  BY <1>1 DEF MessageInv
<1>2. ASSUME NEW u \in Tasks, Added(u) PROVE message'[t] \in NodeReports
  BY <1>0, <1>2 DEF Added, MessageInv
<1>3. ASSUME NEW w \in Handlers, NEW u \in Tasks, Receive(w, u) PROVE message'[t] \in NodeReports
  <2>1. ASSUME NEW m \in NodeReports, Answer(u, m) PROVE message'[t] \in NodeReports
    BY <1>0, <2>1 DEF Answer, MessageInv
  <2>2. ASSUME NEW m \in NodeReports, Result(w, u, m) \/ Error(w, u, m)
        PROVE  message'[t] \in NodeReports
    <3>1. Answer(u, m)
      BY <2>2 DEF Result, Error
    <3> QED
      BY <2>1, <3>1
  <2>3. CASE Unregistered(w)
    BY <1>1, <2>3 DEF Unregistered
  <2> QED
    BY <1>3, <2>2, <2>3 DEF Receive
<1> QED
  BY <1>1, <1>2, <1>3
  DEF ServerNext, serverVars, requestVars, Connect, LinkDrops, Register, Disconnect, Close,
      Leave, Crash, HandlerEnds, Refuse, RequestRaises, AddComfyTask, AnsweredAtOnce,
      Request, GenerationReturns, GenerationTimeout, Sent, NotSent, Internal,
      ServerQuiescent

\* Only a request's own steps answer it.
LEMMA Replying ==
  ASSUME ServerTypeOK, [ServerNext]_serverVars, NEW t \in Tasks, reply'[t] # reply[t]
  PROVE  \/ Refuse(t) \/ RequestRaises(t) \/ AddComfyTask(t)
         \/ reply'[t] \in {"accepted", "timeout"}
         \/ ready[t] = "set" /\ reply'[t] = ImageAnswer(message[t])
<1>0. reply \in [Tasks -> Replies \cup {"none"}]
  BY DEF ServerTypeOK
<1>1. ASSUME NEW u \in Tasks, Answers(u) \/ Added(u)
      PROVE  \/ Refuse(t) \/ RequestRaises(t) \/ AddComfyTask(t)
             \/ reply'[t] \in {"accepted", "timeout"}
             \/ ready[t] = "set" /\ reply'[t] = ImageAnswer(message[t])
  BY <1>0, <1>1 DEF Answers, Refuse, RequestRaises, AddComfyTask, AnsweredAtOnce,
                    GenerationReturns, GenerationTimeout, Added
<1> QED
  BY <1>1
  DEF ServerNext, Answers, serverVars, requestVars, Connect, LinkDrops, Register,
      Disconnect, Close, Leave, Crash, HandlerEnds, Receive, Request, Sent, NotSent,
      Internal, ServerQuiescent

\* Only a request's own step files it.
LEMMA Filing ==
  ASSUME ServerTypeOK, RequestInv, DeliveryInv, [ServerNext]_serverVars, NEW t \in Tasks,
         stored[t] = "none", stored'[t] # "none"
  PROVE  Request(t)
<1>0. stored \in [Tasks -> {"none", "PENDING", "SUCCESS"}]
  BY DEF ServerTypeOK
<1>1. ASSUME NEW w \in Handlers, NEW u \in Tasks, Receive(w, u) PROVE FALSE
  <2>1. stored[u] # "none"
    BY <1>1, ServerAssumption DEF Receive, DeliveryInv, ReachedInv, RequestInv
  <2> QED
    BY <1>0, <1>1, <2>1 DEF Receive, Result, Error, Unregistered
<1>2. ASSUME NEW u \in Tasks, Request(u) PROVE Request(t)
  BY <1>0, <1>2 DEF Request
<1> QED
  BY <1>1, <1>2
  DEF ServerNext, serverVars, requestVars, Connect, LinkDrops, Register, Disconnect, Close,
      Leave, Crash, HandlerEnds, Refuse, RequestRaises, AddComfyTask, AnsweredAtOnce,
      Added, GenerationReturns, GenerationTimeout, Sent, NotSent, Internal,
      ServerQuiescent

\* No request that was filed has raised, if no report lacks what generate_image reads.
LEMMA RaisedStep ==
  ASSUME \A m \in NodeReports : ImageAnswer(m) # "raised",
         ServerTypeOK, DeliveryInv, RequestInv, MessageInv, AnswerIsReturned,
         [ServerNext]_serverVars
  PROVE  AnswerIsReturned'
<1> SUFFICES ASSUME NEW t \in Sync, stored'[t] # "none" PROVE reply'[t] # "raised"
  BY DEF AnswerIsReturned
<1>0. t \in Tasks /\ reply \in [Tasks -> Replies \cup {"none"}]
  BY ServerAssumption DEF ServerTypeOK
<1>1. CASE stored[t] = "none"
  <2>1. Request(t)
    BY <1>0, <1>1, Filing
  <2> QED
    BY <1>0, <2>1, RequestSteps
<1>2. CASE stored[t] # "none" /\ reply'[t] = reply[t]
  BY <1>2 DEF AnswerIsReturned
<1>3. CASE stored[t] # "none" /\ reply'[t] # reply[t]
  <2>1. pc[t] # "idle"
    BY <1>0, <1>3 DEF DeliveryInv, RecordInv
  <2>2. ~(Refuse(t) \/ RequestRaises(t) \/ AddComfyTask(t))
    BY <2>1 DEF Refuse, RequestRaises, AddComfyTask, AnsweredAtOnce
  <2> QED
    BY <1>0, <1>3, <2>2, Replying DEF MessageInv
<1> QED
  BY <1>1, <1>2, <1>3

\* An image request fails only for want of a key: where every report that nodes make
\* has what generate_image reads of it, each request answered by a node returns the
\* result or the error.
THEOREM WholeAnswersAreReturned ==
  ASSUME \A m \in NodeReports : ImageAnswer(m) # "raised"
  PROVE  ServerSpec => []AnswerIsReturned
<1>1. ServerInit => MessageInv /\ AnswerIsReturned
  BY ServerAssumption DEF ServerInit, MessageInv, AnswerIsReturned
<1>2. ServerTypeOK /\ MessageInv /\ [ServerNext]_serverVars => MessageInv'
  BY MessageStep
<1>3. /\ ServerTypeOK /\ DeliveryInv /\ RequestInv /\ MessageInv /\ AnswerIsReturned
      /\ [ServerNext]_serverVars
      => AnswerIsReturned'
  BY RaisedStep
<1> QED
  BY <1>1, <1>2, <1>3, ServerTypeCorrect, Deliveries, RequestsAreFiled, PTL
  DEF ServerSpec
===============================================================================
