---------------------------- MODULE TsServerProofs -----------------------------
(***************************************************************************)
(* The theorems about TsServer.  A provider in the dispatcher has not      *)
(* timed out; so what it has in progress is alive, what it is given is     *)
(* taken from the queue, and what the timeout fails is nowhere else.  The  *)
(* pulls of a request find no send under way, and an event finds neither.  *)
(***************************************************************************)
EXTENDS TsServer, FiniteSetTheorems, TLAPS

\* Providers in the map are in the set, under their ids; none of them has timed out.
PoolInv ==
  /\ \A i \in Ids : providersMap[i] # None =>
       providersMap[i] \in providers /\ IdOf[providersMap[i]] = i
  /\ \A p \in providers : offline[p] # "over"
  /\ \A p \in Providers \ created : offline[p] = "no"
  /\ TimesOutUnderItsId

\* A task is pulled only when no send is awaited, and one that has failed as often as it
\* may is aborted.
TurnInv ==
  /\ pulling => \A p \in Providers : sending[p] = None
  /\ \A t \in Tasks : failedAttempts[t] < MaxAttempts \/ log[t] = "Aborted"

TsInv == TsTypeOK /\ PoolInv /\ TurnInv /\ OnePlace /\ Accounted

-------------------------------------------------------------------------------
(* Costs.                                                                  *)

LEMMA CostsDiffer == MinCost < MaxPrice /\ MaxPrice < MaxSafeInteger
                     /\ MinCost \in Nat /\ MaxPrice \in Nat /\ MaxSafeInteger \in Nat
  BY TsAssumption

LEMMA LeastCostType == LeastCost \in {MinCost, MaxSafeInteger}
  BY DEF LeastCost

LEMMA BestIsOnline ==
  ASSUME TsTypeOK, NEW p \in Best
  PROVE  p \in providers /\ p \in Providers /\ offline[p] = "no" /\ ~IsBusy(p)
  BY CostsDiffer DEF Best, Affordable, Cost, TsTypeOK

-------------------------------------------------------------------------------
(* The pool of providers and the connections.                              *)

\* An event finds no send awaited, and leaves none.
LEMMA EventCarried ==
  ASSUME Idle, UNCHANGED sending
  PROVE  \A p \in Providers : Carried(p) = inProgress[p] /\ Carried(p)' = inProgress'[p]
  BY DEF Idle, Carried

\* Steps that leave the tasks alone, and no provider timed out or back from it.
TasksAlone ==
  /\ UNCHANGED <<taskVars, turnVars, inProgress>>
  /\ \A p \in Providers : offline'[p] = "over" <=> offline[p] = "over"

LEMMA TasksAloneKeep ==
  ASSUME OnePlace, Accounted, TurnInv, TasksAlone
  PROVE  OnePlace' /\ Accounted' /\ TurnInv'
<1>1. \A p \in Providers : Carried(p)' = Carried(p)
  BY DEF TasksAlone, turnVars, Carried
<1>2. OnePlace'
  BY <1>1 DEF OnePlace, TasksAlone, taskVars
<1>3. Accounted'
  BY <1>1 DEF Accounted, TasksAlone, taskVars
<1>4. TurnInv'
  BY DEF TurnInv, TasksAlone, taskVars, turnVars
<1> QED
  BY <1>2, <1>3, <1>4

LEMMA ConnectKeeps ==
  ASSUME TsInv, NEW w \in Sockets, Connect(w)
  PROVE  TsInv'
<1>1. UNCHANGED <<poolVars, taskVars, turnVars, inProgress, created, minCost>>
  BY DEF Connect
<1>2. TsTypeOK'
  BY <1>1 DEF Connect, TsInv, TsTypeOK, poolVars, taskVars, turnVars
<1>3. PoolInv'
  BY <1>1 DEF TsInv, PoolInv, TimesOutUnderItsId, poolVars
<1>4. TasksAlone
  BY <1>1 DEF TasksAlone, poolVars, taskVars
<1> QED
  BY <1>2, <1>3, <1>4, TasksAloneKeep DEF TsInv

LEMMA CloseKeeps ==
  ASSUME TsInv, NEW w \in Sockets, Close(w)
  PROVE  TsInv'
<1>1. /\ UNCHANGED <<registered, delivered, wsOf, created, providersMap, providers,
                     taskVars, turnVars, inProgress>>
      /\ socket' = [socket EXCEPT ![w] = "closed"]
  BY DEF Close
<1>2. CASE UNCHANGED <<offline, minCost>>
  <2>1. TsTypeOK'
    BY <1>1, <1>2 DEF TsInv, TsTypeOK, taskVars, turnVars
  <2>2. PoolInv' /\ TasksAlone
    BY <1>1, <1>2 DEF TsInv, PoolInv, TimesOutUnderItsId, TasksAlone, taskVars
  <2> QED
    BY <2>1, <2>2, TasksAloneKeep DEF TsInv
<1>3. ASSUME NEW i \in Ids, providersMap[i] # None, offline[providersMap[i]] = "no",
             offline' = [offline EXCEPT ![providersMap[i]] = "pending"], CalcMinCost
      PROVE  TsInv'
  <2> DEFINE p == providersMap[i]
  <2>1. p \in Providers /\ IdOf[p] = i /\ p \in created
    BY <1>3 DEF TsInv, TsTypeOK, PoolInv
  <2>2. TsTypeOK'
    BY <1>1, <1>3, <2>1 DEF TsInv, TsTypeOK, taskVars, turnVars, CalcMinCost, LeastCost
  <2>3. PoolInv' /\ TasksAlone
    BY <1>1, <1>3, <2>1
    DEF TsInv, TsTypeOK, PoolInv, TimesOutUnderItsId, TasksAlone, taskVars
  <2> QED
    BY <2>2, <2>3, TasksAloneKeep DEF TsInv
<1>4. registered[w] # None => registered[w] \in Ids
  BY DEF TsInv, TsTypeOK
<1> QED
  BY <1>2, <1>3, <1>4 DEF Close

LEMMA RegisterKeeps ==
  ASSUME TsInv, NEW w \in Sockets, NEW p \in Providers, Register(w, p)
  PROVE  TsInv'
<1> DEFINE i == IdOf[p]
<1>0. i \in Ids /\ p # None
  BY TsAssumption
<1>1. /\ p \notin created
      /\ created' = created \cup {p}
      /\ wsOf' = [wsOf EXCEPT ![p] = w]
      /\ providers' = providers \cup {p}
      /\ providersMap' = [providersMap EXCEPT ![i] = p]
      /\ registered' = [registered EXCEPT ![w] = i]
      /\ UNCHANGED <<socket, delivered, taskVars, turnVars, inProgress>>
      /\ CalcMinCost
  BY DEF Register, NewProvider
<1>2. offline' = [q \in Providers |-> IF q = providersMap[i] THEN "no" ELSE offline[q]]
  BY DEF Register, StopOffline
<1>3. TsTypeOK'
  BY <1>0, <1>1, <1>2 DEF TsInv, TsTypeOK, taskVars, turnVars, CalcMinCost, LeastCost
<1>4. \A q \in Providers : q = providersMap[i] => q \in providers /\ offline[q] # "over"
  BY <1>0, TsAssumption DEF TsInv, PoolInv
<1>5. PoolInv'
  <2>1. \A j \in Ids : providersMap'[j] # None =>
          providersMap'[j] \in providers' /\ IdOf[providersMap'[j]] = j
    BY <1>0, <1>1 DEF TsInv, TsTypeOK, PoolInv
  <2>2. \A q \in providers' : offline'[q] # "over"
    BY <1>1, <1>2 DEF TsInv, TsTypeOK, PoolInv
  <2>3. \A q \in Providers \ created' : offline'[q] = "no"
    BY <1>1, <1>2 DEF TsInv, PoolInv
  <2>4. TimesOutUnderItsId'
    BY <1>0, <1>1, <1>2, TsAssumption DEF TsInv, TsTypeOK, PoolInv, TimesOutUnderItsId
  <2> QED
    BY <2>1, <2>2, <2>3, <2>4 DEF PoolInv
<1>6. TasksAlone
  BY <1>1, <1>2, <1>4 DEF TasksAlone, taskVars
<1> QED
  BY <1>3, <1>5, <1>6, TasksAloneKeep DEF TsInv

LEMMA TimeoutKeeps ==
  ASSUME TsInv, NEW p \in Providers, OfflineTimeout(p)
  PROVE  TsInv'
<1>1. /\ offline[p] = "pending"
      /\ offline' = [offline EXCEPT ![p] = "over"]
      /\ log' = [t \in Tasks |-> IF t \in inProgress[p] THEN "Aborted" ELSE log[t]]
      /\ UNCHANGED <<nodeVars, inProgress, queue, failedAttempts, turnVars>>
      /\ CalcMinCost
  BY DEF OfflineTimeout
<1>c. \A q \in Providers : Carried(q) = inProgress[q] /\ Carried(q)' = inProgress'[q]
  BY EventCarried DEF OfflineTimeout, turnVars
<1>2. providersMap[IdOf[p]] = p /\ p \in providers /\ IdOf[p] \in Ids /\ p # None
  BY <1>1, TsAssumption DEF TsInv, PoolInv, TimesOutUnderItsId
<1>3. /\ providersMap' = [providersMap EXCEPT ![IdOf[p]] = None]
      /\ providers' = providers \ {p}
  BY <1>2 DEF OfflineTimeout, RemoveProvider
<1>4. TsTypeOK'
  BY <1>1, <1>3 DEF TsInv, TsTypeOK, Statuses, nodeVars, turnVars, CalcMinCost, LeastCost
<1>5. PoolInv'
  <2>1. \A i \in Ids : providersMap'[i] # None =>
          providersMap'[i] \in providers' /\ IdOf[providersMap'[i]] = i
    BY <1>2, <1>3 DEF TsInv, TsTypeOK, PoolInv
  <2>2. \A q \in providers' : offline'[q] # "over"
    BY <1>1, <1>3 DEF TsInv, TsTypeOK, PoolInv
  <2>3. \A q \in Providers \ created' : offline'[q] = "no"
    BY <1>1 DEF TsInv, TsTypeOK, PoolInv, nodeVars
  <2>4. TimesOutUnderItsId'
    BY <1>1, <1>2, <1>3, TsAssumption DEF TsInv, TsTypeOK, PoolInv, TimesOutUnderItsId
  <2> QED
    BY <2>1, <2>2, <2>3, <2>4 DEF PoolInv
<1>6. OnePlace'
  BY <1>1, <1>c DEF TsInv, OnePlace
<1>7. Accounted'
  <2> SUFFICES ASSUME NEW t \in Tasks
               PROVE  /\ log'[t] \in {"PushedIntoQueue", "RejectedByDispatcher"}
                           <=> t \in queue'
                      /\ log'[t] = "SetToProvider" <=>
                           \E q \in Providers : offline'[q] # "over" /\ t \in Carried(q)'
                      /\ \A q \in Providers : offline'[q] = "over" /\ t \in Carried(q)'
                                               => log'[t] = "Aborted"
    BY DEF Accounted
  <2>1. \A q \in Providers : offline'[q] = (IF q = p THEN "over" ELSE offline[q])
    BY <1>1 DEF TsInv, TsTypeOK
  <2>2. CASE t \in inProgress[p]
    <3>1. t \notin queue /\ \A q \in Providers : t \in inProgress[q] => q = p
      BY <1>c, <2>2 DEF TsInv, OnePlace
    <3> QED
      BY <1>1, <1>c, <2>1, <2>2, <3>1
  <2>3. CASE t \notin inProgress[p]
    BY <1>1, <1>c, <2>1, <2>3 DEF TsInv, Accounted
  <2> QED
    BY <2>2, <2>3
<1>8. TurnInv'
  BY <1>1 DEF TsInv, TurnInv, turnVars
<1> QED
  BY <1>4, <1>5, <1>6, <1>7, <1>8 DEF TsInv

-------------------------------------------------------------------------------
(* Scheduling.                                                             *)

\* A task asked for is nowhere yet.
LEMMA InitialIsNowhere ==
  ASSUME TsInv, NEW t \in Tasks, log[t] = "Initial"
  PROVE  t \notin queue /\ \A p \in Providers : t \notin Carried(p)
  BY DEF TsInv, Accounted

LEMMA RequestCases ==
  ASSUME NEW t \in Tasks, Request(t)
  PROVE  /\ log[t] = "Initial"
         /\ queue' = queue \cup {t}
         /\ \/ log' = [log EXCEPT ![t] = "RejectedByDispatcher"] /\ UNCHANGED pulling
            \/ log' = [log EXCEPT ![t] = "PushedIntoQueue"] /\ pulling' = TRUE
         /\ \A p \in Providers : sending[p] = None
         /\ \A p \in Providers : Carried(p) = inProgress[p] /\ Carried(p)' = inProgress'[p]
         /\ UNCHANGED <<nodeVars, poolVars, failedAttempts, sending, inProgress, minCost>>
<1>1. /\ log[t] = "Initial"
      /\ queue' = queue \cup {t}
      /\ \/ log' = [log EXCEPT ![t] = "RejectedByDispatcher"] /\ UNCHANGED pulling
         \/ log' = [log EXCEPT ![t] = "PushedIntoQueue"] /\ pulling' = TRUE
      /\ Idle
      /\ UNCHANGED <<nodeVars, poolVars, failedAttempts, sending, inProgress, minCost>>
  BY DEF Request, Rejected, Pushed
<1>2. \A p \in Providers : sending[p] = None
  BY <1>1 DEF Idle
<1> QED
  BY <1>1, <1>2, EventCarried

LEMMA RequestKeeps ==
  ASSUME TsInv, NEW t \in Tasks, Request(t)
  PROVE  TsInv'
<1>1. /\ queue' = queue \cup {t}
      /\ \A p \in Providers : sending[p] = None
      /\ \A p \in Providers : Carried(p)' = Carried(p)
      /\ UNCHANGED <<socket, registered, delivered, wsOf, created, providersMap, providers,
                     offline, failedAttempts, sending, inProgress, minCost>>
  BY RequestCases DEF nodeVars, poolVars
<1>2. /\ log' \in [Tasks -> Statuses] /\ pulling' \in BOOLEAN
      /\ \A s \in Tasks \ {t} : log'[s] = log[s]
      /\ log'[t] \in {"PushedIntoQueue", "RejectedByDispatcher"}
  <2>1. /\ log \in [Tasks -> Statuses] /\ pulling \in BOOLEAN
        /\ {"PushedIntoQueue", "RejectedByDispatcher"} \subseteq Statuses
    BY DEF TsInv, TsTypeOK, Statuses
  <2>2. CASE log' = [log EXCEPT ![t] = "RejectedByDispatcher"] /\ UNCHANGED pulling
    BY <2>1, <2>2
  <2>3. CASE log' = [log EXCEPT ![t] = "PushedIntoQueue"] /\ pulling' = TRUE
    BY <2>1, <2>3
  <2> QED
    BY <2>2, <2>3, RequestCases
<1>3. t \notin queue /\ \A p \in Providers : t \notin Carried(p)
  BY RequestCases, InitialIsNowhere
<1>4. TsTypeOK'
  BY <1>1, <1>2 DEF TsInv, TsTypeOK
<1>5. PoolInv'
  BY <1>1 DEF TsInv, PoolInv, TimesOutUnderItsId
<1>6. TurnInv'
  <2>1. failedAttempts[t] < MaxAttempts
    BY RequestCases DEF TsInv, TurnInv
  <2> QED
    BY <1>1, <1>2, <2>1 DEF TsInv, TurnInv
<1>7. OnePlace'
  BY <1>1, <1>3 DEF TsInv, OnePlace
<1>8. Accounted'
  BY <1>1, <1>2, <1>3 DEF TsInv, Accounted
<1> QED
  BY <1>4, <1>5, <1>6, <1>7, <1>8 DEF TsInv

\* A pull gives a task of the queue to one provider, or to none.
LEMMA PullCases ==
  ASSUME TsInv, Pull
  PROVE  /\ \A p \in Providers : sending[p] = None /\ Carried(p) = inProgress[p]
         /\ UNCHANGED <<socket, registered, wsOf, created, poolVars, inProgress>>
         /\ \E u \in queue : /\ u \in Tasks
                             /\ \/ NotScheduled(u)
                                \/ \E p \in Best : p \in Providers /\ Scheduled(u, p)
<1>1. \A p \in Providers : sending[p] = None
  BY DEF Pull, TsInv, TurnInv
<1>2. \A p \in Providers : Carried(p) = inProgress[p]
  BY <1>1 DEF Carried
<1>3. queue \subseteq Tasks
  BY DEF TsInv, TsTypeOK
<1>4. Best \subseteq Providers
  BY BestIsOnline DEF TsInv
<1> QED
  BY <1>1, <1>2, <1>3, <1>4 DEF Pull

LEMMA ScheduledCarried ==
  ASSUME TsInv, Pull, NEW u \in queue, NEW p \in Best, p \in Providers, Scheduled(u, p)
  PROVE  \A q \in Providers :
           Carried(q)' = IF q = p THEN inProgress[p] \cup {u} ELSE Carried(q)
<1>1. u \in Tasks /\ u # None
  BY TsAssumption DEF TsInv, TsTypeOK
<1>2. /\ sending' = [sending EXCEPT ![p] = u]
      /\ UNCHANGED inProgress
      /\ sending \in [Providers -> Tasks \cup {None}]
  BY PullCases DEF Scheduled, TsInv, TsTypeOK
<1> QED
  BY <1>1, <1>2 DEF Carried

LEMMA ScheduledKeeps ==
  ASSUME TsInv, Pull, NEW u \in queue, NEW p \in Best, p \in Providers, Scheduled(u, p)
  PROVE  TsInv'
<1>1. u \in Tasks /\ u # None /\ offline[p] = "no" /\ p \in providers
  BY BestIsOnline, TsAssumption DEF TsInv, TsTypeOK
<1>2. /\ queue' = queue \ {u}
      /\ log' = [log EXCEPT ![u] = "SetToProvider"]
      /\ sending' = [sending EXCEPT ![p] = u]
      /\ pulling' = FALSE
      /\ minCost' = LeastCost
      /\ UNCHANGED <<failedAttempts, offline, providers, providersMap, created, inProgress,
                     socket, registered, wsOf>>
  BY PullCases DEF Scheduled, poolVars
<1>3. \A q \in Providers : u \notin Carried(q)
  BY DEF TsInv, OnePlace
<1>c. \A q \in Providers : Carried(q)' = IF q = p THEN inProgress[p] \cup {u} ELSE Carried(q)
  BY ScheduledCarried
<1>d. \A q \in Providers : inProgress[q] = Carried(q)
  BY PullCases
<1>4. TsTypeOK'
  <2>1. IdOf[p] \in Ids
    BY TsAssumption
  <2>2. delivered' \in [Ids -> SUBSET Tasks]
    BY <1>1, <2>1 DEF Scheduled, TsInv, TsTypeOK
  <2> QED
    BY <1>1, <1>2, <2>2, LeastCostType DEF TsInv, TsTypeOK, Statuses
<1>5. PoolInv'
  BY <1>2 DEF TsInv, PoolInv, TimesOutUnderItsId
<1>6. TurnInv'
  <2>1. log[u] # "Aborted"
    BY <1>1 DEF TsInv, Accounted
  <2>2. \A s \in Tasks \ {u} : log'[s] = log[s]
    BY <1>2 DEF TsInv, TsTypeOK
  <2> QED
    BY <1>2, <2>1, <2>2 DEF TsInv, TurnInv
<1>7. OnePlace'
  BY <1>1, <1>2, <1>3, <1>c, <1>d DEF TsInv, OnePlace
<1>8. Accounted'
  <2> SUFFICES ASSUME NEW s \in Tasks
               PROVE  /\ log'[s] \in {"PushedIntoQueue", "RejectedByDispatcher"}
                           <=> s \in queue'
                      /\ log'[s] = "SetToProvider" <=>
                           \E q \in Providers : offline'[q] # "over" /\ s \in Carried(q)'
                      /\ \A q \in Providers : offline'[q] = "over" /\ s \in Carried(q)'
                                               => log'[s] = "Aborted"
    BY DEF Accounted
  <2>1. CASE s = u
    <3>1. log'[s] = "SetToProvider" /\ s \notin queue' /\ s \in Carried(p)'
      BY <1>1, <1>2, <1>c, <2>1 DEF TsInv, TsTypeOK
    <3>2. \A q \in Providers : offline'[q] = "over" => s \notin Carried(q)'
      BY <1>1, <1>2, <1>3, <1>c, <2>1
    <3> QED
      BY <1>1, <1>2, <3>1, <3>2
  <2>2. CASE s # u
    <3>1. \A q \in Providers : s \in Carried(q)' <=> s \in Carried(q)
      BY <1>c, <1>d, <2>2
    <3>2. log'[s] = log[s] /\ (s \in queue' <=> s \in queue)
      BY <1>2, <2>2 DEF TsInv, TsTypeOK
    <3> QED
      BY <1>2, <3>1, <3>2 DEF TsInv, Accounted
  <2> QED
    BY <2>1, <2>2
<1> QED
  BY <1>4, <1>5, <1>6, <1>7, <1>8 DEF TsInv

\* What a pull that finds no provider does: the task stays queued, or it is aborted.
LEMMA NotScheduledEffect ==
  ASSUME TsInv, Pull, NEW u \in queue, NotScheduled(u)
  PROVE  /\ u \in Tasks
         /\ failedAttempts' \in [Tasks -> 0..MaxAttempts]
         /\ \A s \in Tasks \ {u} : log'[s] = log[s] /\ failedAttempts'[s] = failedAttempts[s]
         /\ log' \in [Tasks -> Statuses]
         /\ \/ /\ log'[u] = "PushedIntoQueue" /\ failedAttempts'[u] < MaxAttempts
               /\ UNCHANGED <<queue, pulling>>
            \/ log'[u] = "Aborted" /\ queue' = queue \ {u} /\ pulling' = FALSE
         /\ UNCHANGED <<sending, delivered, minCost, nodeVars, poolVars, inProgress>>
         /\ \A p \in Providers : sending'[p] = None /\ Carried(p)' = Carried(p)
<1>1. /\ u \in Tasks /\ MaxAttempts \in Nat
      /\ failedAttempts \in [Tasks -> 0..MaxAttempts] /\ log \in [Tasks -> Statuses]
  BY TsAssumption DEF TsInv, TsTypeOK
<1>2. log[u] # "Aborted"
  BY <1>1 DEF TsInv, Accounted
<1>3. failedAttempts[u] \in Nat /\ failedAttempts[u] < MaxAttempts
  BY <1>1, <1>2 DEF TsInv, TurnInv
<1>4. failedAttempts' = [failedAttempts EXCEPT ![u] = failedAttempts[u] + 1]
  BY DEF NotScheduled
<1>5. failedAttempts' \in [Tasks -> 0..MaxAttempts]
  BY <1>1, <1>3, <1>4
<1>6. failedAttempts'[u] = failedAttempts[u] + 1
  BY <1>1, <1>4
<1>7. \/ /\ failedAttempts[u] + 1 < MaxAttempts
         /\ log' = [log EXCEPT ![u] = "PushedIntoQueue"]
         /\ UNCHANGED <<queue, pulling>>
      \/ /\ log' = [log EXCEPT ![u] = "Aborted"]
         /\ queue' = queue \ {u} /\ pulling' = FALSE
  BY DEF NotScheduled
<1>8. UNCHANGED <<sending, delivered, minCost, nodeVars, poolVars, inProgress>>
  BY PullCases DEF NotScheduled, nodeVars
<1>9. \A p \in Providers : sending'[p] = None /\ Carried(p)' = Carried(p)
  BY <1>8, PullCases DEF Carried
<1>10. log' \in [Tasks -> Statuses] /\ \A s \in Tasks \ {u} : log'[s] = log[s]
  BY <1>1, <1>7 DEF Statuses
<1>11. \A s \in Tasks \ {u} : failedAttempts'[s] = failedAttempts[s]
  BY <1>1, <1>4
<1> QED
  BY <1>1, <1>5, <1>6, <1>7, <1>8, <1>9, <1>10, <1>11

LEMMA NotScheduledKeeps ==
  ASSUME TsInv, Pull, NEW u \in queue, NotScheduled(u)
  PROVE  TsInv'
<1> USE NotScheduledEffect
<1>1. TsTypeOK'
  BY DEF TsInv, TsTypeOK, nodeVars, poolVars
<1>2. PoolInv'
  BY DEF TsInv, PoolInv, TimesOutUnderItsId, nodeVars, poolVars
<1>3. TurnInv'
  BY DEF TsInv, TurnInv
<1>4. OnePlace'
  BY DEF TsInv, OnePlace
<1>5. Accounted'
  <2>1. \A p \in Providers : u \notin Carried(p)
    BY DEF TsInv, OnePlace
  <2>2. \A s \in Tasks : s # u => (s \in queue' <=> s \in queue)
    OBVIOUS
  <2>3. log'[u] \in {"PushedIntoQueue", "RejectedByDispatcher"} <=> u \in queue'
    OBVIOUS
  <2>4. log'[u] # "SetToProvider"
    OBVIOUS
  <2>5. \A p \in Providers : offline'[p] = offline[p] /\ Carried(p)' = Carried(p)
    BY DEF poolVars
  <2>6. ASSUME NEW s \in Tasks, s # u
        PROVE  /\ log'[s] = log[s]
               /\ s \in queue' <=> s \in queue
    BY <2>2, <2>6
  <2>7. \A p \in Providers : u \notin Carried(p)'
    BY <2>1, <2>5
  <2> SUFFICES ASSUME NEW s \in Tasks
               PROVE  /\ log'[s] \in {"PushedIntoQueue", "RejectedByDispatcher"}
                           <=> s \in queue'
                      /\ log'[s] = "SetToProvider" <=>
                           \E q \in Providers : offline'[q] # "over" /\ s \in Carried(q)'
                      /\ \A q \in Providers : offline'[q] = "over" /\ s \in Carried(q)'
                                               => log'[s] = "Aborted"
    BY DEF Accounted
  <2>8. CASE s = u
    BY <2>3, <2>4, <2>7, <2>8
  <2>9. CASE s # u
    BY <2>5, <2>6, <2>9 DEF TsInv, Accounted
  <2> QED
    BY <2>8, <2>9
<1> QED
  BY <1>1, <1>2, <1>3, <1>4, <1>5 DEF TsInv

LEMMA PullKeeps ==
  ASSUME TsInv, Pull
  PROVE  TsInv'
  BY PullCases, ScheduledKeeps, NotScheduledKeeps

\* The continuation of a send moves the task from one part of what is carried to the other.
LEMMA SettleCarried ==
  ASSUME TsInv, NEW p \in Providers, Settle(p)
  PROVE  \A q \in Providers : Carried(q)' = Carried(q)
<1>1. /\ sending[p] # None
      /\ inProgress' = [inProgress EXCEPT ![p] = @ \cup {sending[p]}]
      /\ sending' = [sending EXCEPT ![p] = None]
      /\ inProgress \in [Providers -> SUBSET Tasks]
      /\ sending \in [Providers -> Tasks \cup {None}]
  BY DEF Settle, TsInv, TsTypeOK
<1>2. Carried(p)' = Carried(p)
  BY <1>1 DEF Carried
<1>3. \A q \in Providers \ {p} : Carried(q)' = Carried(q)
  BY <1>1 DEF Carried
<1> QED
  BY <1>2, <1>3

LEMMA SettleKeeps ==
  ASSUME TsInv, NEW p \in Providers, Settle(p)
  PROVE  TsInv'
<1>1. /\ ~pulling
      /\ sending[p] \in Tasks
      /\ inProgress' = [inProgress EXCEPT ![p] = @ \cup {sending[p]}]
      /\ sending' = [sending EXCEPT ![p] = None]
      /\ UNCHANGED <<nodeVars, poolVars, taskVars, pulling, minCost>>
  BY DEF Settle, TsInv, TsTypeOK
<1>2. TsTypeOK'
  BY <1>1 DEF TsInv, TsTypeOK, nodeVars, poolVars, taskVars
<1>3. PoolInv'
  BY <1>1 DEF TsInv, PoolInv, TimesOutUnderItsId, nodeVars, poolVars
<1>4. TurnInv'
  BY <1>1 DEF TsInv, TurnInv, taskVars
<1>5. OnePlace' /\ Accounted'
  BY <1>1, SettleCarried DEF TsInv, OnePlace, Accounted, poolVars, taskVars
<1> QED
  BY <1>2, <1>3, <1>4, <1>5 DEF TsInv

-------------------------------------------------------------------------------
(* Results.                                                                *)

\* A result completes a task in progress at a provider in the dispatcher, or none.
LEMMA ResultCases ==
  ASSUME TsInv, NEW w \in Sockets, NEW t \in Tasks, Result(w, t)
  PROVE  /\ UNCHANGED <<nodeVars, poolVars, queue, failedAttempts, turnVars>>
         /\ \A p \in Providers : Carried(p) = inProgress[p] /\ Carried(p)' = inProgress'[p]
         /\ CalcMinCost
         /\ \/ UNCHANGED <<inProgress, log>>
            \/ \E p \in providers :
                 /\ p \in Providers
                 /\ t \in inProgress[p]
                 /\ inProgress' = [inProgress EXCEPT ![p] = @ \ {t}]
                 /\ log' = [log EXCEPT ![t] = "Completed"]
<1>1. registered[w] \in Ids
  BY DEF Result, TsInv, TsTypeOK
<1> DEFINE p == providersMap[registered[w]]
<1>2. p \in providers /\ p \in Providers
  BY <1>1 DEF Result, TsInv, TsTypeOK, PoolInv
<1>3. \A q \in Providers : Carried(q) = inProgress[q] /\ Carried(q)' = inProgress'[q]
  BY EventCarried DEF Result, turnVars
<1> QED
  BY <1>2, <1>3 DEF Result, OnTaskCompleted

LEMMA ResultKeeps ==
  ASSUME TsInv, NEW w \in Sockets, NEW t \in Tasks, Result(w, t)
  PROVE  TsInv'
<1>1. /\ UNCHANGED <<nodeVars, poolVars, queue, failedAttempts, turnVars>>
      /\ \A p \in Providers : Carried(p) = inProgress[p] /\ Carried(p)' = inProgress'[p]
      /\ minCost' \in {MinCost, MaxSafeInteger}
  BY ResultCases DEF CalcMinCost, LeastCost
<1>2. PoolInv'
  BY <1>1 DEF TsInv, PoolInv, TimesOutUnderItsId, poolVars, nodeVars
<1>3. CASE UNCHANGED <<inProgress, log>>
  BY <1>1, <1>2, <1>3, TasksAloneKeep
  DEF TsInv, TsTypeOK, TasksAlone, nodeVars, poolVars, taskVars, turnVars
<1>4. ASSUME NEW p \in providers, p \in Providers, t \in inProgress[p],
             inProgress' = [inProgress EXCEPT ![p] = @ \ {t}],
             log' = [log EXCEPT ![t] = "Completed"]
      PROVE  TsInv'
  <2>1. TsTypeOK'
    BY <1>1, <1>4 DEF TsInv, TsTypeOK, Statuses, nodeVars, poolVars, turnVars
  <2>2. OnePlace'
    BY <1>1, <1>4 DEF TsInv, TsTypeOK, OnePlace
  <2>3. \A q \in Providers : t \notin inProgress'[q]
    BY <1>1, <1>4 DEF TsInv, TsTypeOK, OnePlace
  <2>4. t \notin queue
    BY <1>1, <1>4 DEF TsInv, OnePlace
  <2>5. \A s \in Tasks \ {t} : log'[s] = log[s]
                             /\ \A q \in Providers : s \in inProgress'[q] <=> s \in inProgress[q]
    BY <1>4 DEF TsInv, TsTypeOK
  <2>6. log'[t] = "Completed"
    BY <1>4 DEF TsInv, TsTypeOK
  <2>7. Accounted'
    BY <1>1, <2>3, <2>4, <2>5, <2>6 DEF TsInv, Accounted, poolVars
  <2>8. log[t] # "Aborted"
    BY <1>1, <1>4 DEF TsInv, PoolInv, Accounted
  <2>9. TurnInv'
    BY <1>1, <2>5, <2>8 DEF TsInv, TurnInv, turnVars
  <2> QED
    BY <1>2, <2>1, <2>2, <2>7, <2>9 DEF TsInv
<1> QED
  BY <1>3, <1>4, ResultCases

-------------------------------------------------------------------------------
(* The invariant.                                                          *)

LEMMA TsInvInit == TsInit => TsInv
<1> SUFFICES ASSUME TsInit PROVE TsInv
  OBVIOUS
<1>1. TsTypeOK
  <2>1. 0 \in 0..MaxAttempts
    BY TsAssumption
  <2> QED
    BY <2>1 DEF TsInit, TsTypeOK, Statuses
<1>2. PoolInv
  BY DEF TsInit, PoolInv, TimesOutUnderItsId
<1>3. OnePlace /\ Accounted
  BY DEF TsInit, OnePlace, Accounted, Carried
<1>4. TurnInv
  BY TsAssumption DEF TsInit, TurnInv
<1> QED
  BY <1>1, <1>2, <1>3, <1>4 DEF TsInv

LEMMA TsInvStep == TsInv /\ [TsNext]_vars => TsInv'
<1> SUFFICES ASSUME TsInv, [TsNext]_vars PROVE TsInv'
  OBVIOUS
<1>1. CASE Quiescent \/ UNCHANGED vars
  <2>1. UNCHANGED vars
    BY <1>1 DEF Quiescent
  <2> QED
    BY <2>1 DEF vars, nodeVars, poolVars, taskVars, turnVars, TsInv, TsTypeOK, PoolInv,
                TurnInv, TimesOutUnderItsId, OnePlace, Accounted, Carried
<1> QED
  BY <1>1, ConnectKeeps, CloseKeeps, RegisterKeeps, TimeoutKeeps, RequestKeeps, PullKeeps,
     SettleKeeps, ResultKeeps
  DEF TsNext

LEMMA TsInvariance == TsSpec => []TsInv
  BY TsInvInit, TsInvStep, PTL DEF TsSpec

\* Every variable keeps its type, for any constants.
THEOREM TsTypeCorrect == TsSpec => []TsTypeOK
<1>1. TsInv => TsTypeOK
  BY DEF TsInv
<1> QED
  BY <1>1, TsInvariance, PTL

\* A task is in the queue or with one provider, never in two places.
THEOREM TaskIsInOnePlace == TsSpec => []OnePlace
<1>1. TsInv => OnePlace
  BY DEF TsInv
<1> QED
  BY <1>1, TsInvariance, PTL

\* No task is lost: the log of each says where it is or how it ended.
THEOREM TasksAreAccounted == TsSpec => []Accounted
<1>1. TsInv => Accounted
  BY DEF TsInv
<1> QED
  BY <1>1, TsInvariance, PTL

\* A provider about to be removed is the one under its id.
THEOREM RemovalIsOwn == TsSpec => []TimesOutUnderItsId
<1>1. TsInv => TimesOutUnderItsId
  BY DEF TsInv, PoolInv
<1> QED
  BY <1>1, TsInvariance, PTL

-------------------------------------------------------------------------------
(* What follows from the invariant.                                        *)

\* An ended task is nowhere any step looks for tasks.
LEMMA OutcomeStep ==
  TsInv /\ [TsNext]_vars =>
    \A t \in Tasks : log[t] \in {"Aborted", "Completed"} => log'[t] = log[t]
<1> SUFFICES ASSUME TsInv, [TsNext]_vars, NEW t \in Tasks, log[t] \in {"Aborted", "Completed"}
             PROVE  log'[t] = log[t]
  OBVIOUS
<1>0. t \notin queue /\ \A p \in Providers : offline[p] # "over" => t \notin Carried(p)
  BY DEF TsInv, Accounted
<1>1. ASSUME NEW w \in Sockets, Connect(w) \/ Close(w) PROVE log'[t] = log[t]
  BY <1>1 DEF Connect, Close, taskVars
<1>2. ASSUME NEW w \in Sockets, NEW p \in Providers, Register(w, p) PROVE log'[t] = log[t]
  BY <1>2 DEF Register, taskVars
<1>3. ASSUME NEW p \in Providers, OfflineTimeout(p) PROVE log'[t] = log[t]
  <2>1. t \notin inProgress[p]
    BY <1>0, <1>3 DEF OfflineTimeout, Carried
  <2> QED
    BY <1>3, <2>1 DEF OfflineTimeout
<1>4. ASSUME NEW s \in Tasks, Request(s) PROVE log'[t] = log[t]
  BY <1>4, RequestCases DEF TsInv, TsTypeOK
<1>p. CASE Pull
  <2>1. ASSUME NEW u \in queue, NotScheduled(u) PROVE log'[t] = log[t]
    BY <1>0, <1>p, <2>1, NotScheduledEffect
  <2>2. ASSUME NEW u \in queue, NEW p \in Best, Scheduled(u, p) PROVE log'[t] = log[t]
    BY <1>0, <2>2 DEF Scheduled, TsInv, TsTypeOK
  <2> QED
    BY <1>p, <2>1, <2>2, PullCases
<1>s. ASSUME NEW p \in Providers, Settle(p) PROVE log'[t] = log[t]
  BY <1>s DEF Settle, taskVars
<1>5. ASSUME NEW w \in Sockets, NEW s \in Tasks, Result(w, s) PROVE log'[t] = log[t]
  <2>1. ASSUME NEW p \in providers, p \in Providers, s \in inProgress[p],
               log' = [log EXCEPT ![s] = "Completed"]
        PROVE  log'[t] = log[t]
    <3>1. s # t
      BY <1>0, <2>1 DEF TsInv, PoolInv, Carried
    <3> QED
      BY <2>1, <3>1 DEF TsInv, TsTypeOK
  <2> QED
    BY <1>5, <2>1, ResultCases
<1>6. CASE Quiescent \/ UNCHANGED vars
  BY <1>6 DEF Quiescent, vars, taskVars
<1> QED
  BY <1>1, <1>2, <1>3, <1>4, <1>p, <1>s, <1>5, <1>6 DEF TsNext

\* An aborted task is not completed later, nor a completed one aborted.
THEOREM TaskOutcomeStands == TsSpec => OutcomeStands
<1>1. TsInv /\ [TsNext]_vars =>
        [\A t \in Tasks : log[t] \in {"Aborted", "Completed"} => log'[t] = log[t]]_vars
  BY OutcomeStep
<1> QED
  BY <1>1, TsInvariance, PTL DEF TsSpec, OutcomeStands

-------------------------------------------------------------------------------
(* Sends.                                                                  *)

\* The provider under an id has a websocket of its node, registered, and closed only if the
\* provider is offline; its node has got what it was given.  One not created has nothing.
SentInv ==
  /\ \A p \in Providers \ created : Carried(p) = {}
  /\ \A p \in Providers : providersMap[IdOf[p]] = p =>
       /\ wsOf[p] \in Sockets
       /\ registered[wsOf[p]] = IdOf[p]
       /\ NodeOf[wsOf[p]] = IdOf[p]
       /\ offline[p] = "no" => socket[wsOf[p]] = "open"
       /\ Carried(p) \subseteq delivered[IdOf[p]]

\* A step that changes neither websockets nor who is where, and gives nobody a task.
LEMMA SentStays ==
  ASSUME TsInv, SentInv, UNCHANGED <<nodeVars, poolVars>>,
         \A p \in Providers : Carried(p)' \subseteq Carried(p)
  PROVE  SentInv'
  BY DEF SentInv, nodeVars, poolVars

LEMMA SentStep == TsInv /\ SentInv /\ [TsNext]_vars => SentInv'
<1> SUFFICES ASSUME TsInv, SentInv, [TsNext]_vars PROVE SentInv'
  OBVIOUS
<1>1. ASSUME NEW w \in Sockets, Connect(w) PROVE SentInv'
  <2>1. \A p \in Providers : Carried(p)' = Carried(p)
    BY <1>1 DEF Connect, turnVars, Carried
  <2>2. /\ socket[w] = "none" /\ socket' = [socket EXCEPT ![w] = "open"]
        /\ UNCHANGED <<registered, delivered, wsOf, created, poolVars>>
    BY <1>1 DEF Connect
  <2>3. \A v \in Sockets : socket[v] = "open" => socket'[v] = "open"
    BY <2>2 DEF TsInv, TsTypeOK
  <2> QED
    BY <2>1, <2>2, <2>3 DEF SentInv, poolVars
<1>2. ASSUME NEW w \in Sockets, Close(w) PROVE SentInv'
  <2>1. \A p \in Providers : Carried(p)' = Carried(p)
    BY <1>2 DEF Close, turnVars, Carried
  <2>2. /\ socket' = [socket EXCEPT ![w] = "closed"]
        /\ UNCHANGED <<registered, delivered, wsOf, created, providersMap>>
    BY <1>2 DEF Close
  <2>3. ASSUME NEW p \in Providers, providersMap[IdOf[p]] = p, offline'[p] = "no"
        PROVE  socket'[wsOf[p]] = "open"
    <3>1. /\ wsOf[p] \in Sockets /\ registered[wsOf[p]] = IdOf[p]
          /\ offline[p] = "no" => socket[wsOf[p]] = "open"
      BY <2>3 DEF SentInv
    <3>2. p # None /\ IdOf[p] # None
      BY TsAssumption
    <3>3. offline[p] = "no"
      BY <1>2, <2>3 DEF Close, TsInv, TsTypeOK
    <3>4. wsOf[p] # w
      BY <1>2, <2>3, <3>1, <3>2, <3>3 DEF Close, TsInv, TsTypeOK
    <3> QED
      BY <2>2, <3>1, <3>3, <3>4 DEF TsInv, TsTypeOK
  <2> QED
    BY <2>1, <2>2, <2>3 DEF SentInv
<1>3. ASSUME NEW w \in Sockets, NEW p \in Providers, Register(w, p) PROVE SentInv'
  <2>1. \A q \in Providers : Carried(q)' = Carried(q)
    BY <1>3 DEF Register, turnVars, Carried
  <2>2. /\ socket[w] = "open" /\ IdOf[p] = NodeOf[w] /\ p \notin created
        /\ created' = created \cup {p}
        /\ wsOf' = [wsOf EXCEPT ![p] = w]
        /\ providersMap' = [providersMap EXCEPT ![IdOf[p]] = p]
        /\ registered' = [registered EXCEPT ![w] = IdOf[p]]
        /\ UNCHANGED <<socket, delivered>>
        /\ offline' = [q \in Providers |-> IF q = providersMap[IdOf[p]] THEN "no" ELSE offline[q]]
    BY <1>3 DEF Register, NewProvider, StopOffline
  <2>3. \A q \in Providers : IdOf[q] \in Ids
    BY TsAssumption
  <2>4. ASSUME NEW q \in Providers, providersMap'[IdOf[q]] = q
        PROVE  /\ wsOf'[q] \in Sockets
               /\ registered'[wsOf'[q]] = IdOf[q]
               /\ NodeOf[wsOf'[q]] = IdOf[q]
               /\ offline'[q] = "no" => socket[wsOf'[q]] = "open"
               /\ Carried(q) \subseteq delivered[IdOf[q]]
    <3>1. CASE q = p
      <4>1. wsOf'[q] = w /\ registered'[w] = IdOf[p]
        BY <2>2, <3>1 DEF TsInv, TsTypeOK
      <4>2. Carried(q) = {}
        BY <2>2, <3>1 DEF SentInv
      <4> QED
        BY <2>2, <3>1, <4>1, <4>2
    <3>2. CASE q # p
      <4>1. IdOf[q] # IdOf[p] /\ providersMap[IdOf[q]] = q
        BY <2>2, <2>3, <2>4, <3>2 DEF TsInv, TsTypeOK
      <4>2. wsOf'[q] = wsOf[q] /\ wsOf[q] # w
        BY <2>2, <3>2, <4>1 DEF SentInv, TsInv, TsTypeOK
      <4>3. registered'[wsOf[q]] = registered[wsOf[q]]
        BY <2>2, <4>2, <4>1 DEF SentInv, TsInv, TsTypeOK
      <4>4. q # providersMap[IdOf[p]]
        BY <2>3, <4>1, TsAssumption DEF TsInv, PoolInv
      <4> QED
        BY <2>2, <4>1, <4>2, <4>3, <4>4 DEF SentInv
    <3> QED
      BY <3>1, <3>2
  <2> QED
    BY <2>1, <2>2, <2>4 DEF SentInv
<1>4. ASSUME NEW p \in Providers, OfflineTimeout(p) PROVE SentInv'
  <2>1. \A q \in Providers : Carried(q)' = Carried(q)
    BY <1>4 DEF OfflineTimeout, turnVars, Carried
  <2>2. /\ UNCHANGED nodeVars
        /\ offline' = [offline EXCEPT ![p] = "over"]
        /\ RemoveProvider(p)
    BY <1>4 DEF OfflineTimeout
  <2>3. ASSUME NEW q \in Providers, providersMap'[IdOf[q]] = q PROVE providersMap[IdOf[q]] = q
    <3>1. q # None /\ IdOf[q] \in Ids
      BY TsAssumption
    <3>2. providersMap' = providersMap \/ providersMap' = [providersMap EXCEPT ![IdOf[p]] = None]
      BY <2>2 DEF RemoveProvider
    <3> QED
      BY <2>3, <3>1, <3>2 DEF TsInv, TsTypeOK
  <2>4. \A q \in Providers : offline'[q] = "no" => offline[q] = "no"
    BY <2>2 DEF TsInv, TsTypeOK
  <2> QED
    BY <2>1, <2>2, <2>3, <2>4 DEF SentInv, nodeVars
<1>5. ASSUME NEW t \in Tasks, Request(t) PROVE SentInv'
  BY <1>5, RequestCases, SentStays
<1>6. CASE Pull
  <2>1. ASSUME NEW u \in queue, NotScheduled(u) PROVE SentInv'
    <3>1. UNCHANGED <<nodeVars, poolVars>> /\ UNCHANGED <<inProgress, sending>>
      BY <1>6, <2>1, PullCases DEF NotScheduled, nodeVars
    <3> QED
      BY <3>1, SentStays DEF Carried
  <2>2. ASSUME NEW u \in queue, NEW p \in Best, p \in Providers, Scheduled(u, p)
        PROVE  SentInv'
    <3>1. UNCHANGED <<socket, registered, wsOf, created, poolVars>>
      BY <1>6, PullCases
    <3>2. \A q \in Providers :
            Carried(q)' = IF q = p THEN inProgress[p] \cup {u} ELSE Carried(q)
      BY <1>6, <2>2, ScheduledCarried
    <3>3. p \in created /\ offline[p] = "no"
      BY BestIsOnline DEF TsInv, TsTypeOK
    <3>4. \A i \in Ids : delivered[i] \subseteq delivered'[i]
      BY <2>2 DEF Scheduled, TsInv, TsTypeOK
    <3>5. socket[wsOf[p]] = "open" => u \in delivered'[IdOf[p]]
      BY <2>2, TsAssumption DEF Scheduled, TsInv, TsTypeOK
    <3>6. \A q \in Providers : Carried(q) = inProgress[q]
      BY <1>6, PullCases
    <3>7. \A q \in Providers \ created' : Carried(q)' = {}
      BY <3>1, <3>2, <3>3 DEF SentInv
    <3>8. ASSUME NEW q \in Providers, providersMap[IdOf[q]] = q
          PROVE  Carried(q)' \subseteq delivered'[IdOf[q]]
      <4>1. Carried(q) \subseteq delivered'[IdOf[q]]
        BY <3>4, <3>8, TsAssumption DEF SentInv
      <4>2. q = p => u \in delivered'[IdOf[q]]
        BY <3>3, <3>5, <3>8 DEF SentInv
      <4> QED
        BY <3>2, <3>6, <4>1, <4>2
    <3> QED
      BY <3>1, <3>7, <3>8 DEF SentInv, poolVars
  <2> QED
    BY <1>6, <2>1, <2>2, PullCases
<1>7. ASSUME NEW p \in Providers, Settle(p) PROVE SentInv'
  <2>1. UNCHANGED <<nodeVars, poolVars>>
    BY <1>7 DEF Settle
  <2> QED
    BY <1>7, <2>1, SettleCarried, SentStays
<1>8. ASSUME NEW w \in Sockets, NEW t \in Tasks, Result(w, t) PROVE SentInv'
  <2>1. ASSUME NEW p \in providers, inProgress' = [inProgress EXCEPT ![p] = @ \ {t}]
        PROVE  \A q \in Providers : inProgress'[q] \subseteq inProgress[q]
    BY <2>1 DEF TsInv, TsTypeOK
  <2>2. \A q \in Providers : inProgress'[q] \subseteq inProgress[q]
    BY <1>8, <2>1, ResultCases
  <2> QED
    BY <1>8, <2>2, ResultCases, SentStays
<1>9. CASE Quiescent \/ UNCHANGED vars
  BY <1>9, SentStays DEF Quiescent, vars, turnVars, Carried
<1> QED
  BY <1>1, <1>2, <1>3, <1>4, <1>5, <1>6, <1>7, <1>8, <1>9 DEF TsNext

\* What the provider under an id is given, its node gets; a task that no node gets is with
\* one that its node has replaced.
THEOREM OnlyReplacedAreUnsent == TsSpec => []UnsentIsReplaced
<1>1. TsInit => SentInv
  BY TsAssumption DEF TsInit, SentInv, Carried
<1>2. SentInv => UnsentIsReplaced
  BY DEF SentInv, UnsentIsReplaced
<1> QED
  BY <1>1, <1>2, SentStep, TsInvariance, PTL DEF TsSpec

-------------------------------------------------------------------------------
(* The cached cost.                                                        *)

\* The cached cost is computed last, or on a state that only got busier since.
LEMMA CacheStep == TsInv /\ CacheIsOptimistic /\ [TsNext]_vars => CacheIsOptimistic'
<1> SUFFICES ASSUME TsInv, CacheIsOptimistic, [TsNext]_vars PROVE CacheIsOptimistic'
  OBVIOUS
<1>0. LeastCost' \in Nat
  BY CostsDiffer DEF LeastCost
<1>a. CalcMinCost => CacheIsOptimistic'
  BY <1>0 DEF CalcMinCost, CacheIsOptimistic
<1>b. UNCHANGED <<minCost, providers, inProgress, offline>> => CacheIsOptimistic'
  <2>1. UNCHANGED <<minCost, providers, inProgress, offline>> => UNCHANGED <<minCost, LeastCost>>
    BY DEF LeastCost, IsBusy, Cost
  <2> QED
    BY <2>1 DEF CacheIsOptimistic
<1>1. ASSUME NEW w \in Sockets, Connect(w) \/ Close(w) PROVE CacheIsOptimistic'
  BY <1>1, <1>a, <1>b DEF Connect, Close, poolVars
<1>2. ASSUME NEW w \in Sockets, NEW p \in Providers, Register(w, p) PROVE CacheIsOptimistic'
  BY <1>2, <1>a DEF Register
<1>3. ASSUME NEW p \in Providers, OfflineTimeout(p) PROVE CacheIsOptimistic'
  BY <1>3, <1>a DEF OfflineTimeout
<1>4. ASSUME NEW t \in Tasks, Request(t) PROVE CacheIsOptimistic'
  BY <1>4, <1>b, RequestCases DEF poolVars
<1>p. CASE Pull
  <2>1. ASSUME NEW u \in queue, NotScheduled(u) PROVE CacheIsOptimistic'
    BY <1>p, <1>b, <2>1, NotScheduledEffect DEF poolVars
  <2>2. ASSUME NEW u \in queue, NEW p \in Best, Scheduled(u, p) PROVE CacheIsOptimistic'
    <3>1. minCost' = LeastCost /\ UNCHANGED <<providers, offline, inProgress>>
      BY <1>p, <2>2, PullCases DEF Scheduled, poolVars
    <3>2. UNCHANGED LeastCost
      BY <3>1 DEF LeastCost, IsBusy, Cost
    <3> QED
      BY <1>0, <3>1, <3>2 DEF CacheIsOptimistic
  <2> QED
    BY <1>p, <2>1, <2>2, PullCases
<1>s. ASSUME NEW p \in Providers, Settle(p) PROVE CacheIsOptimistic'
  <2>1. /\ UNCHANGED <<minCost, providers, offline>>
        /\ inProgress' = [inProgress EXCEPT ![p] = @ \cup {sending[p]}]
        /\ sending[p] \in Tasks
    BY <1>s DEF Settle, poolVars, TsInv, TsTypeOK
  <2>2. \A q \in providers : /\ IsBusy(q) => IsBusy(q)'
                             /\ Cost(q)' = Cost(q)
    <3> SUFFICES ASSUME NEW q \in providers, IsBusy(q) PROVE IsBusy(q)'
      BY <2>1 DEF Cost
    <3>1. q \in Providers /\ inProgress[q] \subseteq inProgress'[q]
          /\ inProgress'[q] \subseteq Tasks
      BY <2>1 DEF TsInv, TsTypeOK
    <3>2. IsFiniteSet(inProgress'[q])
      BY <3>1, TsAssumption, FS_Subset
    <3>3. Cardinality(inProgress[q]) <= Cardinality(inProgress'[q])
      BY <3>1, <3>2, FS_Subset
    <3>4. IsFiniteSet(inProgress[q]) /\ Cardinality(inProgress[q]) \in Nat
          /\ Cardinality(inProgress'[q]) \in Nat
      BY <3>1, <3>2, FS_Subset, FS_CardinalityType
    <3> QED
      BY <3>3, <3>4, TsAssumption DEF IsBusy
  <2>3. LeastCost' = MinCost => LeastCost = MinCost
    BY <2>1, <2>2, CostsDiffer DEF LeastCost
  <2>4. LeastCost' \in {MinCost, MaxSafeInteger}
    BY DEF LeastCost
  <2>5. LeastCost <= LeastCost'
    BY <2>3, <2>4, LeastCostType, CostsDiffer
  <2>6. minCost \in Nat /\ LeastCost \in Nat
    BY LeastCostType, CostsDiffer DEF TsInv, TsTypeOK
  <2> QED
    BY <1>0, <2>1, <2>5, <2>6 DEF CacheIsOptimistic
<1>5. ASSUME NEW w \in Sockets, NEW t \in Tasks, Result(w, t) PROVE CacheIsOptimistic'
  BY <1>5, <1>a, ResultCases
<1>6. CASE Quiescent \/ UNCHANGED vars
  BY <1>6, <1>b DEF Quiescent, vars, poolVars
<1> QED
  BY <1>1, <1>2, <1>3, <1>4, <1>p, <1>s, <1>5, <1>6 DEF TsNext

\* taskAddedCb never turns away a task that a provider would take.
THEOREM CacheStaysOptimistic == TsSpec => []CacheIsOptimistic
<1>1. TsInit => CacheIsOptimistic
  BY CostsDiffer DEF TsInit, CacheIsOptimistic, LeastCost
<1> QED
  BY <1>1, CacheStep, TsInvariance, PTL DEF TsSpec

-------------------------------------------------------------------------------
(* Providers are not overloaded.                                           *)

LEMMA SetSizes ==
  ASSUME TsInv, NEW p \in Providers
  PROVE  /\ IsFiniteSet(Carried(p)) /\ Cardinality(Carried(p)) \in Nat
         /\ IsFiniteSet(inProgress[p]) /\ Cardinality(inProgress[p]) \in Nat
<1>1. Carried(p) \subseteq Tasks /\ inProgress[p] \subseteq Tasks
  BY DEF TsInv, TsTypeOK, Carried
<1> QED
  BY <1>1, TsAssumption, FS_Subset, FS_CardinalityType

LEMMA OverloadStep == TsInv /\ NoOverload /\ [TsNext]_vars => NoOverload'
<1> SUFFICES ASSUME TsInv, NoOverload, [TsNext]_vars PROVE NoOverload'
  OBVIOUS
<1>0. (\A p \in Providers : Carried(p)' = Carried(p)) => NoOverload'
  BY DEF NoOverload
<1>a. UNCHANGED <<inProgress, sending>> => NoOverload'
  BY <1>0 DEF Carried
<1>1. ASSUME NEW w \in Sockets, Connect(w) \/ Close(w) PROVE NoOverload'
  BY <1>a, <1>1 DEF Connect, Close, turnVars
<1>2. ASSUME NEW w \in Sockets, NEW p \in Providers, Register(w, p) PROVE NoOverload'
  BY <1>a, <1>2 DEF Register, turnVars
<1>3. ASSUME NEW p \in Providers, OfflineTimeout(p) PROVE NoOverload'
  BY <1>a, <1>3 DEF OfflineTimeout, turnVars
<1>4. ASSUME NEW t \in Tasks, Request(t) PROVE NoOverload'
  BY <1>a, <1>4, RequestCases
<1>p. CASE Pull
  <2>1. ASSUME NEW u \in queue, NotScheduled(u) PROVE NoOverload'
    BY <1>p, <1>a, <2>1, NotScheduledEffect
  <2>2. ASSUME NEW u \in queue, NEW p \in Best, p \in Providers, Scheduled(u, p)
        PROVE  NoOverload'
    <3>1. /\ ~IsBusy(p)
          /\ Carried(p)' = inProgress[p] \cup {u}
          /\ \A q \in Providers \ {p} : Carried(q)' = Carried(q)
      BY <1>p, <2>2, BestIsOnline, ScheduledCarried DEF TsInv
    <3>2. Cardinality(inProgress[p] \cup {u}) <= Cardinality(inProgress[p]) + 1
          /\ Cardinality(inProgress[p] \cup {u}) \in Nat
      <4>1. IsFiniteSet(inProgress[p]) /\ Cardinality(inProgress[p]) \in Nat
        BY <2>2, SetSizes
      <4>2. Cardinality(inProgress[p] \cup {u}) =
              IF u \in inProgress[p] THEN Cardinality(inProgress[p])
                                     ELSE Cardinality(inProgress[p]) + 1
        BY <4>1, FS_AddElement
      <4> QED
        BY <4>1, <4>2
    <3>3. Cardinality(inProgress[p]) <= Threshold
      BY <2>2, <3>1, SetSizes, TsAssumption DEF IsBusy
    <3>4. Cardinality(Carried(p)') <= Threshold + 1
      BY <2>2, <3>1, <3>2, <3>3, SetSizes, TsAssumption
    <3> QED
      BY <3>1, <3>4 DEF NoOverload
  <2> QED
    BY <1>p, <2>1, <2>2, PullCases
<1>s. ASSUME NEW p \in Providers, Settle(p) PROVE NoOverload'
  BY <1>0, <1>s, SettleCarried
<1>5. ASSUME NEW w \in Sockets, NEW t \in Tasks, Result(w, t) PROVE NoOverload'
  <2>1. ASSUME NEW p \in Providers, inProgress' = [inProgress EXCEPT ![p] = @ \ {t}],
               UNCHANGED sending
        PROVE  NoOverload'
    <3>1. \A q \in Providers : Carried(q)' \subseteq Carried(q)
      BY <2>1 DEF TsInv, TsTypeOK, Carried
    <3> SUFFICES ASSUME NEW q \in Providers
                 PROVE  Cardinality(Carried(q)') <= Threshold + 1
      BY DEF NoOverload
    <3>2. IsFiniteSet(Carried(q)')
          /\ Cardinality(Carried(q)') <= Cardinality(Carried(q))
      BY <3>1, SetSizes, FS_Subset
    <3>3. Cardinality(Carried(q)') \in Nat /\ Cardinality(Carried(q)) \in Nat
      BY <3>2, SetSizes, FS_CardinalityType
    <3> QED
      BY <3>2, <3>3, TsAssumption DEF NoOverload
  <2> QED
    BY <1>a, <1>5, <2>1, ResultCases DEF turnVars
<1>6. CASE Quiescent \/ UNCHANGED vars
  BY <1>a, <1>6 DEF Quiescent, vars, turnVars
<1> QED
  BY <1>1, <1>2, <1>3, <1>4, <1>p, <1>s, <1>5, <1>6 DEF TsNext

\* A provider has one task more than the threshold at most, the one being sent counted.
THEOREM ProvidersAreNotOverloaded == TsSpec => []NoOverload
<1>1. TsInit => NoOverload
  <2> SUFFICES ASSUME TsInit PROVE NoOverload
    OBVIOUS
  <2>1. \A p \in Providers : Carried(p) = {}
    BY DEF TsInit, Carried
  <2> QED
    BY <2>1, FS_EmptySet, TsAssumption DEF NoOverload
<1> QED
  BY <1>1, OverloadStep, TsInvariance, PTL DEF TsSpec

-------------------------------------------------------------------------------
(* The promise about custody.                                              *)

Fresh == {t \in Tasks : log[t] = "Initial" \/ t \in queue}
Carrying == [p \in Providers |-> Carried(p)]
Retired == {p \in Providers : offline[p] = "over"}

\* Steps after which the same tasks are fresh, in the same sets, and no provider has
\* timed out that had not before.
LEMMA StutterStep ==
  ASSUME UNCHANGED <<log, queue>>,
         \A p \in Providers : Carried(p)' = Carried(p),
         \A p \in Providers : offline'[p] = "over" <=> offline[p] = "over"
  PROVE  UNCHANGED Custody!vars
<1>1. Carrying' = Carrying
  BY DEF Carrying
<1> QED
  BY <1>1 DEF Custody!vars, Carrying

LEMMA RequestCustody ==
  ASSUME TsInv, NEW t \in Tasks, Request(t)
  PROVE  UNCHANGED Custody!vars
<1>1. Fresh' = Fresh
  BY RequestCases DEF Fresh, TsInv, TsTypeOK
<1>2. Carrying' = Carrying /\ Retired' = Retired
  BY RequestCases DEF Carrying, Retired, poolVars
<1> QED
  BY <1>1, <1>2 DEF Custody!vars, Fresh, Carrying, Retired

LEMMA PullCustody ==
  ASSUME TsInv, Pull
  PROVE  [Custody!Next]_(Custody!vars)
<1>0. Retired' = Retired
  BY PullCases DEF Retired, poolVars
<1>1. ASSUME NEW u \in queue, NotScheduled(u)
      PROVE  [Custody!Next]_(Custody!vars)
  <2>1. u \in Fresh /\ u \in Tasks /\ log'[u] # "Initial" /\ Carrying' = Carrying
    BY <1>1, NotScheduledEffect DEF Fresh, Carrying
  <2>2. \A s \in Tasks \ {u} : log'[s] = log[s] /\ (s \in queue' <=> s \in queue)
    BY <1>1, NotScheduledEffect
  <2>3. CASE UNCHANGED queue
    <3>1. Fresh' = Fresh
      BY <1>1, <2>1, <2>2, <2>3 DEF Fresh
    <3> QED
      BY <1>0, <2>1, <3>1 DEF Custody!vars, Fresh, Carrying, Retired
  <2>4. CASE queue' = queue \ {u}
    <3>1. Fresh' = Fresh \ {u}
      BY <1>1, <2>1, <2>2, <2>4 DEF Fresh
    <3>2. Custody!Reject(u)
      BY <1>0, <2>1, <3>1 DEF Custody!Reject, Fresh, Carrying, Retired
    <3> QED
      BY <2>1, <3>2 DEF Custody!Next
  <2> QED
    BY <1>1, <2>3, <2>4, NotScheduledEffect
<1>2. ASSUME NEW u \in queue, NEW p \in Best, p \in Providers, Scheduled(u, p)
      PROVE  [Custody!Next]_(Custody!vars)
  <2>1. u \in Fresh /\ u \in Tasks /\ p \notin Retired
    BY <1>2, BestIsOnline DEF Fresh, Retired, TsInv, TsTypeOK
  <2>2. Fresh' = Fresh \ {u}
    <3>1. queue' = queue \ {u} /\ log' = [log EXCEPT ![u] = "SetToProvider"]
      BY <1>2 DEF Scheduled
    <3> QED
      BY <2>1, <3>1 DEF Fresh, TsInv, TsTypeOK
  <2>3. Carrying' = [Carrying EXCEPT ![p] = @ \cup {u}]
    <3>1. Carried(p) = inProgress[p]
      BY <1>2, PullCases
    <3> QED
      BY <1>2, <3>1, ScheduledCarried DEF Carrying
  <2>4. Custody!Take(u, p)
    BY <1>0, <2>1, <2>2, <2>3 DEF Custody!Take, Fresh, Carrying, Retired
  <2> QED
    BY <1>2, <2>1, <2>4 DEF Custody!Next
<1> QED
  BY <1>1, <1>2, PullCases

LEMMA SettleCustody ==
  ASSUME TsInv, NEW p \in Providers, Settle(p)
  PROVE  UNCHANGED Custody!vars
  BY SettleCarried, StutterStep DEF Settle, taskVars, poolVars

LEMMA ResultCustody ==
  ASSUME TsInv, NEW w \in Sockets, NEW t \in Tasks, Result(w, t)
  PROVE  [Custody!Next]_(Custody!vars)
<1>0. UNCHANGED <<offline, queue>>
      /\ \A p \in Providers : Carried(p) = inProgress[p] /\ Carried(p)' = inProgress'[p]
  BY ResultCases DEF poolVars
<1>1. CASE UNCHANGED <<inProgress, log>>
  BY <1>0, <1>1, StutterStep
<1>2. ASSUME NEW p \in Providers, t \in inProgress[p], p \in providers,
             inProgress' = [inProgress EXCEPT ![p] = @ \ {t}],
             log' = [log EXCEPT ![t] = "Completed"]
      PROVE  Custody!LetGo(t, p)
  <2>1. log[t] # "Initial" /\ t \in Carrying[p]
    BY <1>0, <1>2, InitialIsNowhere DEF Carrying
  <2>2. Fresh' = Fresh /\ Retired' = Retired
    BY <1>0, <1>2, <2>1 DEF Fresh, Retired, TsInv, TsTypeOK
  <2>3. Carrying' = [Carrying EXCEPT ![p] = @ \ {t}]
    BY <1>0, <1>2 DEF Carrying, TsInv, TsTypeOK
  <2> QED
    BY <2>1, <2>2, <2>3 DEF Custody!LetGo, Fresh, Carrying, Retired
<1> QED
  BY <1>1, <1>2, ResultCases DEF Custody!Next

LEMMA TimeoutCustody ==
  ASSUME TsInv, NEW p \in Providers, OfflineTimeout(p)
  PROVE  Custody!Retire(p)
<1>1. /\ offline' = [offline EXCEPT ![p] = "over"]
      /\ log' = [t \in Tasks |-> IF t \in inProgress[p] THEN "Aborted" ELSE log[t]]
      /\ UNCHANGED <<inProgress, queue, sending>>
  BY DEF OfflineTimeout, turnVars
<1>2. Retired' = Retired \cup {p}
  BY <1>1 DEF Retired, TsInv, TsTypeOK
<1>3. Fresh' = Fresh
  <2> SUFFICES ASSUME NEW s \in Tasks PROVE s \in Fresh' <=> s \in Fresh
    BY DEF Fresh
  <2>1. s \in inProgress[p] => log[s] # "Initial"
    BY InitialIsNowhere DEF Carried
  <2> QED
    BY <1>1, <2>1 DEF Fresh
<1>4. Carrying' = Carrying
  BY <1>1 DEF Carrying, Carried
<1> QED
  BY <1>2, <1>3, <1>4 DEF Custody!Retire, Fresh, Carrying, Retired

LEMMA CustodyStep == TsInv /\ [TsNext]_vars => [Custody!Next]_(Custody!vars)
<1> SUFFICES ASSUME TsInv, [TsNext]_vars PROVE [Custody!Next]_(Custody!vars)
  OBVIOUS
<1>0. UNCHANGED <<inProgress, sending>> => \A p \in Providers : Carried(p)' = Carried(p)
  BY DEF Carried
<1>1. ASSUME NEW w \in Sockets, Connect(w) PROVE UNCHANGED Custody!vars
  BY <1>0, <1>1, StutterStep DEF Connect, poolVars, taskVars, turnVars
<1>2. ASSUME NEW w \in Sockets, Close(w) PROVE UNCHANGED Custody!vars
  <2>1. UNCHANGED <<log, queue, inProgress, sending>>
    BY <1>2 DEF Close, taskVars, turnVars
  <2>2. \A p \in Providers : offline'[p] = "over" <=> offline[p] = "over"
    BY <1>2 DEF Close, TsInv, TsTypeOK
  <2> QED
    BY <1>0, <2>1, <2>2, StutterStep
<1>3. ASSUME NEW w \in Sockets, NEW p \in Providers, Register(w, p)
      PROVE  UNCHANGED Custody!vars
  <2>1. UNCHANGED <<log, queue, inProgress, sending>>
    BY <1>3 DEF Register, taskVars, turnVars
  <2>2. IdOf[p] \in Ids
    BY TsAssumption
  <2>3. \A q \in Providers : q = providersMap[IdOf[p]] => offline[q] # "over"
    BY <2>2, TsAssumption DEF TsInv, PoolInv
  <2>4. \A q \in Providers : offline'[q] = "over" <=> offline[q] = "over"
    BY <1>3, <2>3 DEF Register, StopOffline
  <2> QED
    BY <1>0, <2>1, <2>4, StutterStep
<1>4. CASE Quiescent \/ UNCHANGED vars
  <2>1. UNCHANGED <<log, queue, inProgress, offline, sending>>
    BY <1>4 DEF Quiescent, vars, taskVars, poolVars, turnVars
  <2> QED
    BY <1>0, <2>1, StutterStep
<1>5. ASSUME NEW p \in Providers, OfflineTimeout(p) PROVE Custody!Next
  BY <1>5, TimeoutCustody DEF Custody!Next
<1> QED
  BY <1>1, <1>2, <1>3, <1>4, <1>5, RequestCustody, PullCustody, SettleCustody,
     ResultCustody
  DEF TsNext

\* The server in TypeScript keeps the promise of TaskCustody: a task enters the care of a
\* provider once, and none that has timed out takes one or passes one on.
THEOREM TsServerKeepsCustody == TsSpec => TsImplementsCustody
<1>1. TsInit => Custody!Init
  BY DEF TsInit, Custody!Init, Carried
<1> QED
  BY <1>1, CustodyStep, TsInvariance, PTL DEF TsSpec, TsImplementsCustody, Custody!Spec
===============================================================================
