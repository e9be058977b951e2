----------------------------- MODULE TaskCustody ------------------------------
(***************************************************************************)
(* What the dispatcher promises about the care of tasks, without queues,   *)
(* suspensions or connections: a task enters once, is in the care of one   *)
(* provider at a time, is passed on only by a provider that is retired and *)
(* only to one that is not, and once let go it never comes back.           *)
(***************************************************************************)
CONSTANTS Tasks, Providers

VARIABLES
  fresh,     \* the tasks not given to the dispatcher yet
  carrying,  \* the tasks each provider is responsible for
  retired    \* the providers out of service for good

vars == <<fresh, carrying, retired>>

Init ==
  /\ fresh = Tasks
  /\ carrying = [p \in Providers |-> {}]
  /\ retired = {}

Take(t, p) ==
  /\ t \in fresh
  /\ p \notin retired
  /\ fresh' = fresh \ {t}
  /\ carrying' = [carrying EXCEPT ![p] = @ \cup {t}]
  /\ UNCHANGED retired

Reject(t) ==
  /\ t \in fresh
  /\ fresh' = fresh \ {t}
  /\ UNCHANGED <<carrying, retired>>

Pass(t, p, q) ==
  /\ p \in retired
  /\ q \notin retired
  /\ t \in carrying[p]
  /\ carrying' = [carrying EXCEPT ![p] = @ \ {t}, ![q] = @ \cup {t}]
  /\ UNCHANGED <<fresh, retired>>

LetGo(t, p) ==
  /\ t \in carrying[p]
  /\ carrying' = [carrying EXCEPT ![p] = @ \ {t}]
  /\ UNCHANGED <<fresh, retired>>

Retire(p) ==
  /\ retired' = retired \cup {p}
  /\ UNCHANGED <<fresh, carrying>>

Next ==
  \/ \E t \in Tasks : Reject(t)
  \/ \E p \in Providers : Retire(p)
  \/ \E t \in Tasks, p \in Providers : Take(t, p) \/ LetGo(t, p)
  \/ \E t \in Tasks, p, q \in Providers : Pass(t, p, q)

Spec == Init /\ [][Next]_vars
===============================================================================
