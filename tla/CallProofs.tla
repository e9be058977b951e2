------------------------------ MODULE CallProofs -------------------------------
(***************************************************************************)
(* Proofs about control in Dispatcher: how the loops that empty providers  *)
(* call each other and return, that they never wait in a circle, and that  *)
(* whoever has control can go on.                                          *)
(***************************************************************************)
EXTENDS DispatcherProofs, WellFoundedInduction

-------------------------------------------------------------------------------
(* The inductive invariant.                                                *)

\* The loop that empties p is under way, in control, in a send or in a nested call.
Emptying(p) == pc[p] \in {"draining", "sending"}

\* The loops that activity a has called and that are to return to it.
Callees(a) == {p \in Providers : Emptying(p) /\ caller[p] = a}

\* What is neither waiting outside nor over: it runs, or awaits a loop it called.
Busy(a) == pc[a] \in {"added", "closed", "returning", "draining"}

\* An activity under way has control and no loop left to return to it, or awaits exactly
\* one; the others have none.
ReturnsOnce ==
  \A a \in Callers :
    IF Busy(a)
    THEN \/ running = a /\ Callees(a) = {}
         \/ running # a /\ \E p \in Providers : Callees(a) = {p}
    ELSE running # a /\ Callees(a) = {}

\* Among any loops under way there is one that awaits none of them.
NoCircle ==
  \A S \in (SUBSET Providers) \ {{}} :
    (\A p \in S : Emptying(p)) => \E p \in S : \A q \in S : caller[q] # p

\* Every loop under way has a caller; requests and handlers have places of their own.
CallersInv ==
  /\ \A p \in Providers : Emptying(p) => caller[p] \in Callers
  /\ \A t \in Tasks : pc[t] \in {"idle", "sending", "added", "done"}
  /\ \A w \in Handlers : pc[w] \in {"idle", "offline", "closed", "returning", "done"}

CallInv == CallersInv /\ ReturnsOnce /\ NoCircle

\* Activity a alone goes on: from a suspension or from control, to either.
Turn(a) ==
  /\ running \in {None, a} /\ running' \in {None, a}
  /\ Busy(a) => running = a
  /\ Busy(a)' <=> running' = a
  /\ \A b \in Callers \ {a} : pc'[b] = pc[b]
  /\ \A p \in Providers : Emptying(p)' <=> Emptying(p)
  /\ caller' = caller

LEMMA NoneCalls == \A a \in Callers : a # None
  BY ConstantsAssumption

LEMMA TurnKeeps ==
  ASSUME CallInv, NEW a \in Callers, Turn(a),
         a \in Tasks => pc'[a] \in {"idle", "sending", "added", "done"},
         a \in Handlers => pc'[a] \in {"idle", "offline", "closed", "returning", "done"}
  PROVE  CallInv'
<1>1. CallersInv'
  BY DEF CallInv, CallersInv, Turn, Callers
<1>2. \A b \in Callers : Callees(b)' = Callees(b)
  BY DEF Turn, Callees
<1>3. ReturnsOnce'
  <2> SUFFICES ASSUME NEW b \in Callers
               PROVE  IF Busy(b)'
                      THEN \/ running' = b /\ Callees(b)' = {}
                           \/ running' # b /\ \E p \in Providers : Callees(b)' = {p}
                      ELSE running' # b /\ Callees(b)' = {}
    BY DEF ReturnsOnce
  <2>1. CASE b = a
    <3>1. Callees(a) = {}
      BY NoneCalls DEF Turn, CallInv, ReturnsOnce
    <3> QED
      BY <1>2, <2>1, <3>1 DEF Turn
  <2>2. CASE b # a
    <3>1. Busy(b)' <=> Busy(b)
      BY <2>2 DEF Turn, Busy
    <3>2. running # b /\ running' # b
      BY <2>2, NoneCalls DEF Turn
    <3> QED
      BY <1>2, <3>1, <3>2 DEF CallInv, ReturnsOnce
  <2> QED
    BY <2>1, <2>2
<1>4. NoCircle'
  BY DEF CallInv, NoCircle, Turn
<1> QED
  BY <1>1, <1>3, <1>4 DEF CallInv

\* Activity a, which may go on, calls the loop that empties p and awaits it.
Calls(a, p) ==
  /\ running \in {None, a} /\ running' = p
  /\ Busy(a) => running = a
  /\ p # a /\ pc[p] = "idle" /\ pc'[p] = "draining"
  /\ Busy(a)'
  /\ a \in Providers => Emptying(a)
  /\ \A b \in Callers \ {a, p} : pc'[b] = pc[b]
  /\ caller' = [caller EXCEPT ![p] = a]

LEMMA CallsKeeps ==
  ASSUME CallInv, TypeOK, NEW a \in Callers, NEW p \in Providers, Calls(a, p),
         a \in Tasks => pc'[a] = "added",
         a \in Handlers => pc'[a] \in {"closed", "returning"},
         a \in Providers => pc'[a] = "draining"
  PROVE  CallInv'
<1>1. p \in Callers /\ p \notin Tasks /\ p \notin Handlers /\ a # None /\ p # None
  BY ConstantsAssumption DEF Callers
<1>2. /\ caller'[p] = a
      /\ \A q \in Providers \ {p} : caller'[q] = caller[q]
  BY DEF Calls, TypeOK
<1>3. \A q \in Providers : Emptying(q)' <=> Emptying(q) \/ q = p
  <2>1. \A q \in Providers \ {a, p} : Emptying(q)' <=> Emptying(q)
    BY DEF Calls, Emptying, Callers
  <2>2. Emptying(p)'
    BY DEF Calls, Emptying
  <2>3. a \in Providers => Emptying(a)' /\ Emptying(a)
    BY DEF Calls, Emptying
  <2> QED
    BY <2>1, <2>2, <2>3
<1>4. ~Emptying(p) /\ ~Busy(p) /\ Busy(p)'
  BY DEF Calls, Emptying, Busy
<1>5. Callees(p) = {} /\ Callees(a) = {}
  BY <1>1, <1>4 DEF Calls, CallInv, ReturnsOnce
<1>6. /\ Callees(a)' = {p}
      /\ \A b \in Callers \ {a} : Callees(b)' = Callees(b)
  BY <1>2, <1>3, <1>4, <1>5 DEF Callees
<1>7. CallersInv'
  <2>1. \A q \in Providers : Emptying(q)' => caller'[q] \in Callers
    BY <1>2, <1>3 DEF CallInv, CallersInv
  <2> QED
    BY <1>1, <2>1 DEF CallInv, CallersInv, Calls, Callers
<1>8. ReturnsOnce'
  <2> SUFFICES ASSUME NEW b \in Callers
               PROVE  IF Busy(b)'
                      THEN \/ running' = b /\ Callees(b)' = {}
                           \/ running' # b /\ \E q \in Providers : Callees(b)' = {q}
                      ELSE running' # b /\ Callees(b)' = {}
    BY DEF ReturnsOnce
  <2>1. CASE b = a
    BY <1>6, <2>1 DEF Calls
  <2>2. CASE b = p
    BY <1>4, <1>5, <1>6, <2>2 DEF Calls
  <2>3. CASE b # a /\ b # p
    <3>1. Busy(b)' <=> Busy(b)
      BY <2>3 DEF Calls, Busy
    <3>2. running # b /\ running' # b
      BY <2>3, NoneCalls DEF Calls
    <3> QED
      BY <1>6, <2>3, <3>1, <3>2 DEF CallInv, ReturnsOnce
  <2> QED
    BY <2>1, <2>2, <2>3
<1>9. NoCircle'
  <2> SUFFICES ASSUME NEW S \in (SUBSET Providers) \ {{}},
                      \A q \in S : Emptying(q)'
               PROVE  \E r \in S : \A q \in S : caller'[q] # r
    BY DEF NoCircle
  <2>1. CASE p \in S
    <3>1. \A q \in S \ {p} : Emptying(q) /\ caller[q] # p
      BY <1>3, <1>5 DEF Callees
    <3>2. \A q \in S : caller'[q] # p
      BY <1>2, <3>1 DEF Calls
    <3> QED
      BY <2>1, <3>2
  <2>2. CASE p \notin S
    <3>1. \A q \in S : Emptying(q) /\ caller'[q] = caller[q]
      BY <1>2, <1>3, <2>2
    <3> QED
      BY <3>1 DEF CallInv, NoCircle
  <2> QED
    BY <2>1, <2>2
<1> QED
  BY <1>7, <1>8, <1>9 DEF CallInv

LEMMA DoneKeepsCalls ==
  ASSUME CallInv, TypeOK, NEW p \in Providers, RescheduleDone(p)
  PROVE  CallInv'
<1> DEFINE c == caller[p]
<1>1. /\ running = p /\ pc[p] = "draining" /\ running' = c
      /\ pc' = [pc EXCEPT ![p] = "drained"]
      /\ caller' = [caller EXCEPT ![p] = None]
      /\ p \in Callers /\ p \notin Tasks /\ p \notin Handlers /\ p # None
  BY ConstantsAssumption DEF RescheduleDone, Callers
<1>2. Emptying(p) /\ Busy(p) /\ c \in Callers
  BY <1>1 DEF Emptying, Busy, CallInv, CallersInv
<1>3. Callees(p) = {}
  BY <1>1, <1>2 DEF CallInv, ReturnsOnce
<1>4. p \in Callees(c) /\ c # p
  BY <1>2, <1>3 DEF Callees
<1>5. Busy(c) /\ running # c /\ Callees(c) = {p}
  BY <1>2, <1>4 DEF CallInv, ReturnsOnce
<1>6. /\ pc'[p] = "drained" /\ caller'[p] = None
      /\ \A b \in Callers \ {p} : pc'[b] = pc[b]
      /\ \A q \in Providers \ {p} : caller'[q] = caller[q]
  BY <1>1 DEF TypeOK
<1>7. \A q \in Providers : Emptying(q)' <=> Emptying(q) /\ q # p
  BY <1>6 DEF Emptying, Callers
<1>8. \A b \in Callers : Callees(b)' = Callees(b) \ {p}
  BY <1>6, <1>7 DEF Callees
<1>9. CallersInv'
  BY <1>1, <1>6, <1>7 DEF CallInv, CallersInv, Callers
<1>10. ReturnsOnce'
  <2> SUFFICES ASSUME NEW b \in Callers
               PROVE  IF Busy(b)'
                      THEN \/ running' = b /\ Callees(b)' = {}
                           \/ running' # b /\ \E q \in Providers : Callees(b)' = {q}
                      ELSE running' # b /\ Callees(b)' = {}
    BY DEF ReturnsOnce
  <2>1. CASE b = c
    BY <1>1, <1>4, <1>5, <1>6, <1>8, <2>1 DEF Busy
  <2>2. CASE b = p
    BY <1>1, <1>3, <1>4, <1>6, <1>8, <2>2 DEF Busy
  <2>3. CASE b # c /\ b # p
    <3>1. (Busy(b)' <=> Busy(b)) /\ running # b /\ running' # b
      BY <1>1, <1>6, <2>3 DEF Busy
    <3>2. p \notin Callees(b)
      BY <2>3 DEF Callees
    <3>3. Callees(b)' = Callees(b)
      BY <1>8, <3>2
    <3> QED
      BY <3>1, <3>3 DEF CallInv, ReturnsOnce
  <2> QED
    BY <2>1, <2>2, <2>3
<1>11. NoCircle'
  <2> SUFFICES ASSUME NEW S \in (SUBSET Providers) \ {{}},
                      \A q \in S : Emptying(q)'
               PROVE  \E r \in S : \A q \in S : caller'[q] # r
    BY DEF NoCircle
  <2>1. \A q \in S : Emptying(q) /\ caller'[q] = caller[q]
    BY <1>6, <1>7
  <2> QED
    BY <2>1 DEF CallInv, NoCircle
<1> QED
  BY <1>9, <1>10, <1>11 DEF CallInv

-------------------------------------------------------------------------------
(* Every step is a turn, a call or a return.                               *)

\* A call of reschedule_tasks_in_progress, from wherever a may go on.
LEMMA RescheduleKeepsCalls ==
  ASSUME IInv, CallInv, NEW a \in Callers, NEW at, NEW id \in Ids, NEW removing,
         Reschedule(a, at, id, removing),
         running \in {None, a}, Busy(a) => running = a,
         a \in Tasks => at = "added",
         a \in Handlers => at \in {"closed", "returning"},
         a \in Providers => at = "draining" /\ pc[a] = "sending"
  PROVE  CallInv'
<1>1. at \in {"added", "closed", "returning", "draining"} /\ TypeOK /\ a # None
  BY NoneCalls DEF Callers, IInv
<1>2. CASE providers[id] = None
  <2>1. pc' = [pc EXCEPT ![a] = at] /\ running' = a /\ caller' = caller
    BY <1>2, ConstantsAssumption DEF Reschedule, Callers
  <2>2. pc'[a] = at /\ \A b \in Callers \ {a} : pc'[b] = pc[b]
    BY <1>1, <2>1 DEF TypeOK
  <2>3. \A p \in Providers : Emptying(p)' <=> Emptying(p)
    BY <1>1, <2>2 DEF Emptying, Callers
  <2>4. Turn(a)
    BY <1>1, <2>1, <2>2, <2>3 DEF Turn, Busy
  <2> QED
    BY <2>2, <2>4, TurnKeeps
<1>3. CASE providers[id] # None
  <2>1. PICK p \in Providers :
          /\ providers[id] = p
          /\ pc' = [pc EXCEPT ![a] = at, ![p] = "draining"]
          /\ caller' = [caller EXCEPT ![p] = a]
          /\ running' = p
    BY <1>3 DEF Reschedule
  <2>2. pc[p] = "idle" /\ p # a /\ p \in Callers
    BY <1>3, <2>1 DEF IInv, MapInv, Callers
  <2>3. pc'[p] = "draining" /\ pc'[a] = at
        /\ \A b \in Callers \ {a, p} : pc'[b] = pc[b]
    BY <1>1, <2>1, <2>2 DEF TypeOK
  <2>4. Calls(a, p)
    BY <1>1, <2>1, <2>2, <2>3 DEF Calls, Busy, Emptying
  <2> QED
    BY <1>1, <2>3, <2>4, CallsKeeps
<1> QED
  BY <1>2, <1>3

LEMMA AddTaskInKeepsCalls ==
  ASSUME IInv, CallInv, NEW a \in Tasks \cup Providers, NEW t, AddTaskIn(a, t),
         running \in {None, a}, Busy(a) => running = a, caller' = caller,
         a \in Providers => pc[a] = "draining"
  PROVE  CallInv'
<1>1. PICK at \in {"sending", "added", "draining"} :
        /\ pc' = [pc EXCEPT ![a] = at]
        /\ \/ at = "sending" /\ running' = None
           \/ at = AfterSend(a) /\ running' = a
  BY AddTaskInOutcome DEF Accepted, Rejected, AfterSend
<1>2. /\ a \in Callers /\ a # None /\ a \notin Handlers
      /\ ~(a \in Tasks /\ a \in Providers)
      /\ pc'[a] = at /\ \A b \in Callers \ {a} : pc'[b] = pc[b]
  BY <1>1, ConstantsAssumption DEF IInv, TypeOK, Callers
<1>3. \A p \in Providers : Emptying(p)' <=> Emptying(p)
  BY <1>1, <1>2 DEF Emptying, AfterSend, Callers
<1>4. Turn(a)
  BY <1>1, <1>2, <1>3 DEF Turn, Busy, AfterSend
<1> QED
  BY <1>1, <1>2, <1>4, TurnKeeps DEF AfterSend

LEMMA CallStep == IInv /\ CallInv /\ [Next]_vars => CallInv'
<1> SUFFICES ASSUME IInv, CallInv, [Next]_vars PROVE CallInv'
  OBVIOUS
<1>0. TypeOK /\ pc \in [Callers -> Places] /\ \A a \in Callers : a # None
  BY NoneCalls DEF IInv, TypeOK
<1>1. ASSUME NEW t \in Tasks, AddTask(t) PROVE CallInv'
  BY <1>1, ConstantsAssumption, AddTaskInKeepsCalls DEF AddTask, Busy
<1>2. ASSUME NEW t \in Tasks, AddTaskReturns(t) PROVE CallInv'
  <2>1. t \in Callers /\ t \notin Handlers /\ t \notin Providers
    BY ConstantsAssumption DEF Callers
  <2>2. /\ running = t /\ running' = None /\ caller' = caller
        /\ pc'[t] = "done" /\ \A b \in Callers \ {t} : pc'[b] = pc[b]
    BY <1>0, <1>2, <2>1 DEF AddTaskReturns
  <2>3. Turn(t)
    BY <1>0, <2>1, <2>2 DEF Turn, Busy, Emptying, Callers
  <2> QED
    BY <2>1, <2>2, <2>3, TurnKeeps
<1>3. ASSUME NEW a \in Tasks \cup Providers, SendReturns(a) PROVE CallInv'
  <2>1. a \in Callers /\ a \notin Handlers /\ ~(a \in Tasks /\ a \in Providers)
    BY ConstantsAssumption DEF Callers
  <2>2. /\ running = None /\ running' = a /\ caller' = caller /\ pc[a] = "sending"
        /\ pc'[a] = AfterSend(a) /\ \A b \in Callers \ {a} : pc'[b] = pc[b]
    BY <1>0, <1>3, <2>1 DEF SendReturns, EndSend
  <2>3. Turn(a)
    BY <1>0, <2>1, <2>2 DEF Turn, Busy, Emptying, Callers, AfterSend
  <2> QED
    BY <2>1, <2>2, <2>3, TurnKeeps DEF AfterSend
<1>4. ASSUME NEW a \in Tasks \cup Providers, SendRaises(a) PROVE CallInv'
  <2>1. /\ a \in Callers /\ a \notin Handlers /\ ~(a \in Tasks /\ a \in Providers)
        /\ running = None /\ pc[a] = "sending"
    BY <1>4, ConstantsAssumption DEF Callers, SendRaises, EndSend
  <2>2. IdOf[target[a]] \in Ids
    BY <2>1, ConstantsAssumption DEF IInv, TargetInv
  <2> QED
    BY <1>4, <2>1, <2>2, RescheduleKeepsCalls DEF SendRaises, OnClosed, AfterSend, Busy
<1>5. ASSUME NEW p \in Providers, RescheduleNext(p) PROVE CallInv'
  BY <1>5, AddTaskInKeepsCalls DEF RescheduleNext
<1>6. ASSUME NEW p \in Providers, RescheduleDone(p) PROVE CallInv'
  BY <1>0, <1>6, DoneKeepsCalls
<1>7. ASSUME NEW w \in Handlers, NEW p \in Providers, OnConnectionLost(w, p)
      PROVE  CallInv'
  <2>1. /\ w \in Callers /\ w \notin Tasks /\ w \notin Providers /\ IdOf[p] \in Ids
        /\ running = None /\ pc[w] = "idle"
    BY <1>7, ConstantsAssumption DEF Callers, OnConnectionLost
  <2>2. CASE online[p]
    <3>1. /\ running' = None /\ caller' = caller
          /\ pc'[w] = "offline" /\ \A b \in Callers \ {w} : pc'[b] = pc[b]
      BY <1>0, <1>7, <2>1, <2>2 DEF OnConnectionLost
    <3>2. Turn(w)
      BY <1>0, <2>1, <3>1 DEF Turn, Busy, Emptying, Callers
    <3> QED
      BY <2>1, <3>1, <3>2, TurnKeeps
  <2>3. CASE ~online[p]
    BY <1>7, <2>1, <2>3, RescheduleKeepsCalls DEF OnConnectionLost, Busy
  <2> QED
    BY <2>2, <2>3
<1>8. ASSUME NEW w \in Handlers, OfflineTimeout(w) \/ ConnectionLostCallback(w)
      PROVE  CallInv'
  <2>1. /\ w \in Callers /\ w \notin Tasks /\ w \notin Providers
        /\ pc[w] \in {"offline", "closed"}
    BY <1>8, ConstantsAssumption DEF Callers, OfflineTimeout, ConnectionLostCallback
  <2>2. IdOf[target[w]] \in Ids
    BY <2>1, ConstantsAssumption DEF IInv, TargetInv
  <2>3. CASE OfflineTimeout(w)
    BY <2>1, <2>2, <2>3, RescheduleKeepsCalls DEF OfflineTimeout, OnClosed, Busy
  <2>4. CASE ConnectionLostCallback(w)
    BY <2>1, <2>2, <2>4, RescheduleKeepsCalls DEF ConnectionLostCallback, Busy
  <2> QED
    BY <1>8, <2>3, <2>4
<1>9. ASSUME NEW w \in Handlers, HandlerReturns(w) PROVE CallInv'
  <2>1. w \in Callers /\ w \notin Tasks /\ w \notin Providers
    BY ConstantsAssumption DEF Callers
  <2>2. /\ running = w /\ running' = None /\ caller' = caller
        /\ pc'[w] = "done" /\ \A b \in Callers \ {w} : pc'[b] = pc[b]
    BY <1>0, <1>9, <2>1 DEF HandlerReturns
  <2>3. Turn(w)
    BY <1>0, <2>1, <2>2 DEF Turn, Busy, Emptying, Callers
  <2> QED
    BY <2>1, <2>2, <2>3, TurnKeeps
<1>10. CASE UNCHANGED <<pc, caller, running>>
  BY <1>10 DEF CallInv, CallersInv, ReturnsOnce, NoCircle, Callees, Busy, Emptying
<1>11. ASSUME \/ \E p \in Providers : AddProvider(p)
              \/ \E i \in Ids : RestoreConnection(i)
              \/ \E p \in Providers, t \in Tasks :
                   TaskCompleted(p, t) \/ TaskFailed(p, t) \/ AbortTask(p, t)
              \/ Quiescent \/ UNCHANGED vars
       PROVE  UNCHANGED <<pc, caller, running>>
  BY <1>11 DEF AddProvider, RestoreConnection, TaskCompleted, TaskFailed, AbortTask,
               Finish, Quiescent, vars, frameVars
<1> QED
  BY <1>1, <1>2, <1>3, <1>4, <1>5, <1>6, <1>7, <1>8, <1>9, <1>10, <1>11 DEF Next

LEMMA CallsHold == Spec => []CallInv
<1>1. Init => CallInv
  BY NoneCalls DEF Init, CallInv, CallersInv, ReturnsOnce, NoCircle, Callees, Busy, Emptying, Callers
<1> QED
  BY <1>1, CallStep, Invariance, PTL DEF Spec

-------------------------------------------------------------------------------
(* Whoever has control can go on.                                          *)

LEMMA SmallestNumber ==
  ASSUME NEW X \in SUBSET Nat, X # {}
  PROVE  \E n \in X : \A m \in X : n <= m
<1> DEFINE R == OpToRel(<, Nat)
<1>1. IsWellFoundedOn(R, Nat)
  BY NatLessThanWellFounded
<1>2. \A m, n \in Nat : m < n => <<m, n>> \in R
  BY DEF OpToRel
<1> HIDE DEF R
<1>3. PICK n \in X : \A m \in X : ~(<<m, n>> \in R)
  BY <1>1, WFMin
<1>4. \A m \in X : n <= m
  <2> TAKE m \in X
  <2>1. m \in Nat /\ n \in Nat /\ ~(m < n)
    BY <1>2, <1>3
  <2> QED
    BY <2>1
<1> QED
  BY <1>4

\* _schedule_task finds a provider whenever one may be given a task.
LEMMA SomeIsLeastBusy == TypeOK /\ Eligible # {} => LeastBusy # {}
<1> SUFFICES ASSUME TypeOK, Eligible # {} PROVE LeastBusy # {}
  OBVIOUS
<1> DEFINE L == {QueueLength(p) : p \in Eligible}
<1>1. Eligible \subseteq Providers
  BY DEF Eligible
<1>2. L \in SUBSET Nat /\ L # {}
  BY <1>1, QueuesAreFinite
<1>3. PICK n \in L : \A m \in L : n <= m
  BY <1>2, SmallestNumber
<1>4. PICK p \in Eligible : n = QueueLength(p)
  BY <1>3
<1>5. \A q \in Eligible : QueueLength(p) <= QueueLength(q)
  BY <1>3, <1>4
<1> QED
  BY <1>4, <1>5 DEF LeastBusy

\* The guards of the actions of whoever has control: a request returns from add_task,
\* a handler calls its callback for a provider it has lost or returns, a loop is over
\* or can add its next task; and while nobody has control though some call is still
\* to return, a loop is in a send.
ControlGoesOn ==
  /\ running \in Tasks => pc[running] = "added"
  /\ running \in Handlers =>
       \/ pc[running] = "returning"
       \/ pc[running] = "closed" /\ target[running] \in Providers
  /\ running \in Providers =>
       /\ pc[running] = "draining" /\ caller[running] \in Callers
       /\ left[running] = {} \/ Eligible = {} \/ LeastBusy # {}
  /\ running = None /\ (\E a \in Callers : Busy(a))
       => \E p \in Providers : pc[p] = "sending"

LEMMA GuardsHold == IInv /\ CallInv => ControlGoesOn
<1> SUFFICES ASSUME IInv, CallInv PROVE ControlGoesOn
  OBVIOUS
<1>1. running \in Callers => Busy(running)
  BY DEF CallInv, ReturnsOnce
<1>2. running \in Tasks => pc[running] = "added"
  BY <1>1 DEF CallInv, CallersInv, Busy, Callers
<1>3. ASSUME running \in Handlers
      PROVE  \/ pc[running] = "returning"
             \/ pc[running] = "closed" /\ target[running] \in Providers
  BY <1>1, <1>3 DEF CallInv, CallersInv, Busy, Callers, IInv, TargetInv
<1>4. ASSUME running \in Providers
      PROVE  /\ pc[running] = "draining" /\ caller[running] \in Callers
             /\ left[running] = {} \/ Eligible = {} \/ LeastBusy # {}
  <2>1. pc[running] = "draining"
    BY <1>1, <1>4 DEF Busy, Callers, IInv, LeftInv
  <2>2. caller[running] \in Callers
    BY <1>4, <2>1 DEF CallInv, CallersInv, Emptying
  <2> QED
    BY <2>1, <2>2, SomeIsLeastBusy DEF IInv
<1>5. ASSUME running = None, NEW a \in Callers, Busy(a)
      PROVE  \E p \in Providers : pc[p] = "sending"
  <2> DEFINE S == {p \in Providers : Emptying(p)}
  <2>1. S # {}
    <3>1. a # running
      BY <1>5, NoneCalls
    <3>2. PICK p \in Providers : Callees(a) = {p}
      BY <1>5, <3>1 DEF CallInv, ReturnsOnce
    <3> QED
      BY <3>2 DEF Callees
  <2>2. PICK p \in S : \A q \in S : caller[q] # p
    BY <2>1 DEF CallInv, NoCircle
  <2>3. Callees(p) = {} /\ p \in Callers /\ running # p
    BY <1>5, <2>2, NoneCalls DEF Callees, Callers
  <2>4. ~Busy(p)
    BY <2>3 DEF CallInv, ReturnsOnce
  <2> QED
    BY <2>2, <2>4 DEF Emptying, Busy
<1> QED
  BY <1>2, <1>3, <1>4, <1>5 DEF ControlGoesOn

\* The event loop never hangs in the dispatcher: who has control can take a step, and
\* as long as a call has yet to return there is control or a send to wait for.
THEOREM ControlIsNeverStuck == Spec => []ControlGoesOn
  BY GuardsHold, CallsHold, Invariance, PTL
===============================================================================
