----------------------------- MODULE RootLease -----------------------------
(* What a lifecycle lease on a recording root promises, and no more: any    *)
(* number of writers, or one retention run and nobody else.  LifecycleLock  *)
(* implements it and Retention is written on top of it.                     *)
CONSTANTS Threads, Roots

VARIABLES writing,    \* per root: the threads that hold a writer lease
          retaining   \* per root: the threads that hold the retention lease

leases == <<writing, retaining>>

Init ==
  /\ writing = [r \in Roots |-> {}]
  /\ retaining = [r \in Roots |-> {}]

GrantWriter(t, r) ==
  /\ retaining[r] = {}
  /\ writing' = [writing EXCEPT ![r] = @ \union {t}]
  /\ UNCHANGED retaining

GrantRetention(t, r) ==
  /\ retaining[r] = {}
  /\ writing[r] = {}
  /\ retaining' = [retaining EXCEPT ![r] = {t}]
  /\ UNCHANGED writing

GiveBack(t, r) ==
  /\ writing' = [writing EXCEPT ![r] = @ \ {t}]
  /\ retaining' = [retaining EXCEPT ![r] = @ \ {t}]

(* A process dies, and the operating system drops what it had locked.       *)
Vanish(S) ==
  /\ writing' = [r \in Roots |-> writing[r] \ S]
  /\ retaining' = [r \in Roots |-> retaining[r] \ S]

Next ==
  \/ \E t \in Threads, r \in Roots :
       GrantWriter(t, r) \/ GrantRetention(t, r) \/ GiveBack(t, r)
  \/ \E S \in SUBSET Threads : Vanish(S)

Spec == Init /\ [][Next]_leases

(* Retention has the root to itself.                                        *)
Exclusive ==
  \A r \in Roots : \A t \in retaining[r] :
    retaining[r] = {t} /\ writing[r] = {}
=============================================================================
