------------------------ MODULE LifecycleLockProofs ------------------------
(* For any roots, threads, processes and ranges: retention has a root to    *)
(* itself, the leases keep the promise of RootLease, and the registry of a  *)
(* process says what its threads hold.                                      *)
EXTENDS LifecycleLock, FiniteSetTheorems, SequenceTheorems, TLAPS

Places == {"idle", "wanting", "trying", "locked", "held", "closing"}

(* While roots are left to take, there is a next one.                       *)
Planned ==
  \A t \in Threads : pc[t] \in {"wanting", "trying", "locked"} => todo[t] # <<>>

(* Behind every lease is a lock of its own, and retention's is on it all.   *)
Backed ==
  \A t \in Threads : \A i \in DOMAIN held[t] :
    /\ LockOf(t, i, held[t][i].range) \in locks[held[t][i].root]
    /\ held[t][i].mode = "retention" <=> held[t][i].range = All

(* A lock that was granted stays until it is entered or given back.         *)
Pending ==
  \A t \in Threads : pc[t] = "locked" =>
    tried[t] < Len(Attempts(t)) /\ NewLock(t) \in locks[Root(t)]

(* Two locks on one file never clash.                                       *)
Apart ==
  \A r \in Roots : \A k, l \in locks[r] : k # l => ~Clash(k.range, l.range)

Typed ==
  /\ ranges \in Platforms
  /\ locks \in [Roots -> SUBSET
                 [owner : Threads, handle : Nat, range : Ranges \union {All}]]
  /\ pc \in [Threads -> Places]
  /\ mode \in [Threads -> Modes]
  /\ todo \in [Threads -> Seq(Roots)]
  /\ tried \in [Threads -> Nat]
  /\ held \in [Threads -> Seq(Lease)]

LInv == Typed /\ Planned /\ Backed /\ Pending /\ Apart

-----------------------------------------------------------------------------
(* Sequences.                                                               *)

LEMMA FrontFacts ==
  ASSUME NEW S, NEW s \in Seq(S), s # <<>>
  PROVE  /\ Front(s) \in Seq(S)
         /\ DOMAIN Front(s) = DOMAIN s \ {Len(s)}
         /\ \A i \in DOMAIN Front(s) : Front(s)[i] = s[i]
         /\ Len(s) \in DOMAIN s /\ Last(s) = s[Len(s)] /\ Last(s) \in S
BY DEF Front, Last

LEMMA AppendFacts ==
  ASSUME NEW S, NEW s \in Seq(S), NEW x \in S
  PROVE  /\ Append(s, x) \in Seq(S)
         /\ DOMAIN Append(s, x) = DOMAIN s \union {Len(s) + 1}
         /\ Len(s) + 1 \notin DOMAIN s
         /\ \A i \in DOMAIN s : Append(s, x)[i] = s[i]
         /\ Append(s, x)[Len(s) + 1] = x
OBVIOUS

LEMMA TailFacts ==
  ASSUME NEW S, NEW s \in Seq(S), s # <<>>
  PROVE  Tail(s) \in Seq(S) /\ (Len(s) # 1 => Tail(s) # <<>>)
<1>1. Len(s) \in Nat \ {0}
  BY EmptySeq
<1>2. Tail(s) \in Seq(S) /\ Len(Tail(s)) = Len(s) - 1
  BY HeadTailProperties
<1>3. ASSUME Len(s) # 1 PROVE Tail(s) # <<>>
  <2>1. Len(Tail(s)) # 0
    BY <1>1, <1>2, <1>3
  <2>2. Len(<<>>) = 0
    BY EmptySeq
  <2> QED
    BY <2>1, <2>2, Zenon
<1> QED
  BY <1>2, <1>3

LEMMA WantedType ==
  ASSUME Typed, NEW t \in Threads, tried[t] < Len(Attempts(t))
  PROVE  /\ Wanted(t) \in Ranges \union {All}
         /\ mode[t] = "retention" <=> Wanted(t) = All
<1>1. CASE mode[t] = "writer"
  <2>1. ranges \in Seq(Ranges)
    BY RangesAssumption DEF Typed
  <2>2. Wanted(t) \in Ranges
    BY <1>1, <2>1 DEF Typed, Wanted, Attempts
  <2> QED
    BY <1>1, <2>2, RangesAssumption
<1>2. CASE mode[t] = "retention"
  BY <1>2 DEF Typed, Wanted, Attempts
<1> QED
  BY <1>1, <1>2 DEF Typed, Modes

LEMMA LeaseType ==
  ASSUME Typed, NEW t \in Threads, NEW i \in DOMAIN held[t]
  PROVE  /\ held[t][i] \in Lease /\ held[t][i].root \in Roots
         /\ i \in Nat /\ i # Len(held[t]) + 1
<1>1. held[t] \in Seq(Lease)
  BY DEF Typed
<1>2. held[t][i] \in Lease /\ i \in Nat /\ i # Len(held[t]) + 1
  BY <1>1
<1> QED
  BY <1>2 DEF Lease

-----------------------------------------------------------------------------
(* The inductive invariant, action by action.                               *)

LEMMA InitLInv == Init => LInv
  BY DEF Init, LInv, Typed, Places, Planned, Backed, Pending, Apart, Modes

(* Steps that touch neither the locks nor the leases.                       *)
LEMMA Quiet ==
  ASSUME LInv, Typed', Planned', UNCHANGED <<ranges, locks, held>>,
         \A t \in Threads : pc'[t] = "locked" =>
           /\ pc[t] = "locked"
           /\ UNCHANGED <<mode[t], todo[t], tried[t]>>
  PROVE  LInv'
<1>1. Backed'
  BY DEF LInv, Backed
<1>2. Apart'
  BY DEF LInv, Apart
<1>3. Pending'
  BY DEF LInv, Pending, Attempts, NewLock, Wanted, Root
<1> QED
  BY <1>1, <1>2, <1>3 DEF LInv

LEMMA QuietSteps ==
  ASSUME LInv, NEW t \in Threads,
         \/ \E m \in Modes, plan \in Plans : Ask(t, m, plan)
         \/ Enter(t) \/ EnterBusy(t) \/ TryNext(t) \/ Fails(t)
  PROVE  LInv'
<1> USE DEF LInv, Typed, Places, Planned, Modes
<1>1. ASSUME NEW m \in Modes, NEW plan \in Plans, Ask(t, m, plan) PROVE LInv'
  <2>1. plan \in Seq(Roots) /\ plan # <<>>
    BY PlansAssumption
  <2>2. Typed' /\ Planned'
    BY <1>1, <2>1 DEF Ask
  <2> QED
    BY <1>1, <2>2, Quiet DEF Ask
<1>2. CASE Enter(t)
  <2>1. Typed' /\ Planned'
    BY <1>2 DEF Enter
  <2> QED
    BY <1>2, <2>1, Quiet DEF Enter
<1>3. CASE EnterBusy(t)
  <2>1. held' = held
    BY <1>3 DEF EnterBusy, Unwinds
  <2>2. Typed' /\ Planned'
    BY <1>3, <2>1 DEF EnterBusy, Unwinds
  <2> QED
    BY <1>3, <2>1, <2>2, Quiet DEF EnterBusy, Unwinds
<1>4. CASE TryNext(t)
  <2>1. Typed' /\ Planned'
    BY <1>4 DEF TryNext
  <2> QED
    BY <1>4, <2>1, Quiet DEF TryNext
<1>5. CASE Fails(t)
  <2>1. held' = held
    BY <1>5 DEF Fails, Unwinds
  <2>2. Typed' /\ Planned'
    BY <1>5, <2>1 DEF Fails, Unwinds
  <2> QED
    BY <1>5, <2>1, <2>2, Quiet DEF Fails, Unwinds
<1> QED
  BY <1>1, <1>2, <1>3, <1>4, <1>5

LEMMA RootType ==
  ASSUME LInv, NEW t \in Threads, pc[t] \in {"wanting", "trying", "locked"}
  PROVE  Root(t) \in Roots
BY DEF LInv, Typed, Planned, Root

LEMMA NewLockType ==
  ASSUME LInv, NEW t \in Threads, tried[t] < Len(Attempts(t))
  PROVE  NewLock(t) \in [owner : Threads, handle : Nat, range : Ranges \union {All}]
BY WantedType DEF LInv, Typed, NewLock, LockOf

(* What the operating system grants clashes with nothing it granted before. *)
LEMMA TryLockStep ==
  ASSUME LInv, NEW t \in Threads, TryLock(t)
  PROVE  LInv'
<1> USE DEF LInv, TryLock
<1>1. Root(t) \in Roots
  BY RootType
<1>2. Typed'
  BY <1>1, NewLockType DEF Typed, Places
<1>3. Planned'
  BY DEF Typed, Planned
<1>4. \A r \in Roots : locks[r] \subseteq locks'[r]
  BY <1>1 DEF Typed
<1>5. Backed'
  BY <1>4 DEF Typed, Backed, Lease
<1>6. Pending'
  <2> SUFFICES ASSUME NEW u \in Threads, pc'[u] = "locked"
               PROVE  tried[u] < Len(Attempts(u)) /\ NewLock(u) \in locks'[Root(u)]
    BY DEF Pending, Attempts, NewLock, Wanted, Root
  <2>1. CASE u = t
    BY <1>1, <2>1 DEF Typed
  <2>2. CASE u # t
    <3>1. pc[u] = "locked"
      BY <2>2 DEF Typed
    <3>2. Root(u) \in Roots
      BY <3>1, RootType
    <3> QED
      BY <1>4, <3>1, <3>2 DEF Pending
  <2> QED
    BY <2>1, <2>2
<1>7. Apart'
  <2> SUFFICES ASSUME NEW r \in Roots, NEW k \in locks'[r], NEW l \in locks'[r],
                      k # l
               PROVE  ~Clash(k.range, l.range)
    BY DEF Apart
  <2>1. CASE k \in locks[r] /\ l \in locks[r]
    BY <2>1 DEF Apart
  <2>2. CASE ~(k \in locks[r] /\ l \in locks[r])
    <3>1. r = Root(t) /\ (k = NewLock(t) \/ l = NewLock(t))
      BY <1>1, <2>2 DEF Typed
    <3>2. \A x \in locks[r] : ~Clash(x.range, Wanted(t)) /\ ~Clash(Wanted(t), x.range)
      BY <3>1 DEF Granted, Clash
    <3>3. NewLock(t).range = Wanted(t)
      BY DEF NewLock, LockOf
    <3> QED
      BY <1>1, <3>1, <3>2, <3>3 DEF Typed
  <2> QED
    BY <2>1, <2>2
<1> QED
  BY <1>2, <1>3, <1>5, <1>6, <1>7

LEMMA RegisterStep ==
  ASSUME LInv, NEW t \in Threads, Register(t)
  PROVE  LInv'
<1> USE DEF LInv, Register
<1>1. Root(t) \in Roots /\ NewLock(t) \in locks[Root(t)] /\ tried[t] < Len(Attempts(t))
  BY RootType DEF Pending
<1>2. Taken(t) \in Lease
  BY <1>1, WantedType DEF Taken, Lease, Typed
<1>3. Tail(todo[t]) \in Seq(Roots) /\ (Len(todo[t]) # 1 => Tail(todo[t]) # <<>>)
  <2>1. todo[t] \in Seq(Roots) /\ todo[t] # <<>>
    BY DEF Typed, Planned
  <2> QED
    BY <2>1, TailFacts
<1>4. held[t] \in Seq(Lease) /\ held'[t] = Append(held[t], Taken(t))
  BY DEF Typed
<1>5. Typed'
  BY <1>2, <1>3, <1>4 DEF Typed, Places
<1>6. Planned'
  BY <1>3 DEF Typed, Planned
<1>7. Backed'
  <2> SUFFICES ASSUME NEW u \in Threads, NEW i \in DOMAIN held'[u]
               PROVE  /\ LockOf(u, i, held'[u][i].range) \in locks[held'[u][i].root]
                      /\ held'[u][i].mode = "retention" <=> held'[u][i].range = All
    BY DEF Backed, LockOf
  <2>1. CASE u = t /\ i = Len(held[t]) + 1
    <3>1. held'[u][i] = Taken(t)
      BY <1>2, <1>4, <2>1, AppendFacts
    <3>2. LockOf(u, i, Taken(t).range) = NewLock(t)
      BY <2>1 DEF NewLock, Taken
    <3> QED
      BY <1>1, <3>1, <3>2, WantedType DEF Taken
  <2>2. CASE u # t
    BY <2>2 DEF Typed, Backed
  <2>3. CASE u = t /\ i # Len(held[t]) + 1
    <3>1. i \in DOMAIN held[t] /\ held'[t][i] = held[t][i]
      BY <1>2, <1>4, <2>3, AppendFacts
    <3> QED
      BY <2>3, <3>1 DEF Backed
  <2> QED
    BY <2>1, <2>2, <2>3
<1>8. Pending'
  <2> SUFFICES ASSUME NEW u \in Threads, pc'[u] = "locked"
               PROVE  /\ tried[u] < Len(Attempts(u)) /\ NewLock(u) \in locks[Root(u)]
                      /\ UNCHANGED <<mode[u], todo[u], tried[u], held[u], ranges>>
    BY DEF Pending, Attempts, NewLock, Wanted, Root
  <2>1. u # t /\ pc[u] = "locked"
    BY DEF Typed
  <2> QED
    BY <2>1 DEF Typed, Pending
<1>9. Apart'
  BY DEF Apart
<1> QED
  BY <1>5, <1>6, <1>7, <1>8, <1>9

(* A handle that is closed takes its own lock with it and no other.         *)
LEMMA DiscardStep ==
  ASSUME LInv, NEW t \in Threads, Discard(t)
  PROVE  LInv'
<1> USE DEF LInv, Discard, Unwinds
<1>1. Root(t) \in Roots
  BY RootType
<1>2. held' = held
  BY DEF Typed
<1>3. Typed'
  BY <1>1, <1>2 DEF Typed, Places
<1>4. Planned'
  BY DEF Typed, Planned
<1>5. \A r \in Roots : \A l \in locks[r] : l # NewLock(t) => l \in locks'[r]
  BY <1>1 DEF Typed
<1>6. Backed'
  <2> SUFFICES ASSUME NEW u \in Threads, NEW i \in DOMAIN held[u]
               PROVE  /\ LockOf(u, i, held[u][i].range) \in locks'[held[u][i].root]
                      /\ held[u][i].mode = "retention" <=> held[u][i].range = All
    BY <1>2 DEF Backed, LockOf
  <2>1. LockOf(u, i, held[u][i].range) # NewLock(t)
    BY LeaseType DEF NewLock, LockOf
  <2>2. held[u][i].root \in Roots
    BY LeaseType
  <2> QED
    BY <1>5, <2>1, <2>2 DEF Backed
<1>7. Pending'
  <2> SUFFICES ASSUME NEW u \in Threads, pc'[u] = "locked"
               PROVE  /\ tried[u] < Len(Attempts(u)) /\ NewLock(u) \in locks'[Root(u)]
                      /\ UNCHANGED <<mode[u], todo[u], tried[u]>>
    BY <1>2 DEF Pending, Attempts, NewLock, Wanted, Root
  <2>1. u # t /\ pc[u] = "locked"
    BY DEF Typed
  <2>2. NewLock(u) # NewLock(t)
    BY <2>1 DEF NewLock, LockOf
  <2>3. Root(u) \in Roots
    BY <2>1, RootType
  <2> QED
    BY <1>5, <2>1, <2>2, <2>3 DEF Pending, Typed
<1>8. Apart'
  BY <1>1 DEF Typed, Apart
<1> QED
  BY <1>3, <1>4, <1>6, <1>7, <1>8

LEMMA CloseFacts ==
  ASSUME LInv, NEW t \in Threads, Close(t)
  PROVE  /\ held[t] \in Seq(Lease) /\ held[t] # <<>>
         /\ held' = [held EXCEPT ![t] = Front(held[t])]
         /\ Front(held[t]) \in Seq(Lease)
         /\ DOMAIN Front(held[t]) = DOMAIN held[t] \ {Len(held[t])}
         /\ \A i \in DOMAIN Front(held[t]) : Front(held[t])[i] = held[t][i]
         /\ Len(held[t]) \in DOMAIN held[t]
         /\ Last(held[t]) = held[t][Len(held[t])] /\ Last(held[t]) \in Lease
<1>1. held[t] \in Seq(Lease) /\ held[t] # <<>>
  BY DEF LInv, Typed, Close
<1> QED
  BY <1>1, FrontFacts DEF Close, Unwinds

LEMMA CloseStep ==
  ASSUME LInv, NEW t \in Threads, Close(t)
  PROVE  LInv'
<1> DEFINE gone == LockOf(t, Len(held[t]), Last(held[t]).range)
<1>1. held[t] \in Seq(Lease) /\ held' = [held EXCEPT ![t] = Front(held[t])]
      /\ Front(held[t]) \in Seq(Lease)
  BY CloseFacts
<1>2. Last(held[t]).root \in Roots
  BY CloseFacts DEF Lease
<1>3. locks' = [locks EXCEPT ![Last(held[t]).root] = @ \ {gone}]
  BY DEF Close
<1>4. /\ pc' = [pc EXCEPT ![t] = IF Front(held[t]) = <<>> THEN "idle" ELSE "closing"]
      /\ todo' = [todo EXCEPT ![t] = <<>>]
      /\ tried' = [tried EXCEPT ![t] = 0]
      /\ UNCHANGED <<ranges, mode>>
  BY DEF Close, Unwinds
<1> USE DEF LInv
<1>5. Typed'
  BY <1>1, <1>2, <1>3, <1>4 DEF Typed, Places
<1>6. Planned'
  BY <1>4 DEF Typed, Planned
<1>7. \A r \in Roots : \A l \in locks[r] : l # gone => l \in locks'[r]
  BY <1>2, <1>3 DEF Typed
<1>8. Backed'
  <2> SUFFICES ASSUME NEW u \in Threads, NEW i \in DOMAIN held'[u]
               PROVE  /\ LockOf(u, i, held'[u][i].range) \in locks'[held'[u][i].root]
                      /\ held'[u][i].mode = "retention" <=> held'[u][i].range = All
    BY DEF Backed, LockOf
  <2>1. /\ i \in DOMAIN held[u] /\ held'[u][i] = held[u][i]
        /\ u = t => i # Len(held[t])
    <3>1. u # t => held'[u] = held[u]
      BY <1>1 DEF Typed
    <3>2. u = t => held'[u] = Front(held[t])
      BY <1>1 DEF Typed
    <3>3. /\ DOMAIN Front(held[t]) = DOMAIN held[t] \ {Len(held[t])}
          /\ \A j \in DOMAIN Front(held[t]) : Front(held[t])[j] = held[t][j]
      BY CloseFacts
    <3> QED
      BY <3>1, <3>2, <3>3
  <2>2. LockOf(u, i, held[u][i].range) # gone
    BY <2>1 DEF LockOf
  <2>3. held[u][i].root \in Roots
    BY <2>1, LeaseType
  <2> QED
    BY <1>7, <2>1, <2>2, <2>3 DEF Backed
<1>9. Pending'
  <2> SUFFICES ASSUME NEW u \in Threads, pc'[u] = "locked"
               PROVE  /\ tried[u] < Len(Attempts(u)) /\ NewLock(u) \in locks'[Root(u)]
                      /\ UNCHANGED <<mode[u], todo[u], tried[u], held[u], ranges>>
    BY DEF Pending, Attempts, NewLock, Wanted, Root
  <2>1. u # t /\ pc[u] = "locked"
    BY <1>4 DEF Typed
  <2>2. NewLock(u) # gone
    BY <2>1 DEF NewLock, LockOf
  <2>3. Root(u) \in Roots
    BY <2>1, RootType
  <2> QED
    BY <1>1, <1>4, <1>7, <2>1, <2>2, <2>3 DEF Pending, Typed
<1>10. Apart'
  BY <1>2, <1>3 DEF Typed, Apart
<1> QED
  BY <1>5, <1>6, <1>8, <1>9, <1>10

LEMMA CrashStep ==
  ASSUME LInv, NEW p \in Processes, Crash(p)
  PROVE  LInv'
<1> USE DEF LInv, Crash
<1>1. Typed'
  BY DEF Typed, Places
<1>2. Planned'
  BY DEF Typed, Planned
<1>3. Backed'
  <2> SUFFICES ASSUME NEW u \in Threads, NEW i \in DOMAIN held'[u]
               PROVE  /\ LockOf(u, i, held'[u][i].range) \in locks'[held'[u][i].root]
                      /\ held'[u][i].mode = "retention" <=> held'[u][i].range = All
    BY DEF Backed, LockOf
  <2>1. ProcessOf[u] # p /\ held'[u] = held[u]
    BY DEF Typed
  <2>2. held[u][i].root \in Roots
    BY <2>1, LeaseType
  <2>3. LockOf(u, i, held[u][i].range).owner = u
    BY DEF LockOf
  <2> QED
    BY <2>1, <2>2, <2>3 DEF Backed
<1>4. Pending'
  <2> SUFFICES ASSUME NEW u \in Threads, pc'[u] = "locked"
               PROVE  /\ tried[u] < Len(Attempts(u)) /\ NewLock(u) \in locks'[Root(u)]
                      /\ UNCHANGED <<mode[u], todo[u], tried[u], held[u], ranges>>
    BY DEF Pending, Attempts, NewLock, Wanted, Root
  <2>1. ProcessOf[u] # p /\ pc[u] = "locked"
    BY DEF Typed
  <2>2. Root(u) \in Roots /\ NewLock(u).owner = u
    BY <2>1, RootType DEF NewLock, LockOf
  <2> QED
    BY <2>1, <2>2 DEF Pending, Typed
<1>5. Apart'
  BY DEF Apart
<1> QED
  BY <1>1, <1>2, <1>3, <1>4, <1>5

LEMMA StepLInv == LInv /\ [Next]_vars => LInv'
<1> SUFFICES ASSUME LInv, [Next]_vars PROVE LInv'
  OBVIOUS
<1>1. ASSUME NEW t \in Threads,
             Step(t) \/ \E m \in Modes, plan \in Plans : Ask(t, m, plan)
      PROVE  LInv'
  BY <1>1, QuietSteps, TryLockStep, RegisterStep, DiscardStep, CloseStep DEF Step
<1>2. ASSUME NEW p \in Processes, Crash(p) PROVE LInv'
  BY <1>2, CrashStep
<1>3. CASE UNCHANGED vars
  BY <1>3 DEF vars, LInv, Typed, Planned, Backed, Pending, Apart, Attempts,
              NewLock, Wanted, Root
<1> QED
  BY <1>1, <1>2, <1>3 DEF Next

(* Behind every lease is a lock of its own, and no two locks of a file      *)
(* clash (_lock, acquire_lifecycle).                                        *)
THEOREM Invariance == Spec => []LInv
BY InitLInv, StepLInv, PTL DEF Spec

-----------------------------------------------------------------------------
(* What the locks mean for the leases.                                      *)

(* A lock that clashes with everything is the only one on its root.         *)
LEMMA Alone ==
  ASSUME LInv, NEW r \in Roots, NEW k \in locks[r], NEW l \in locks[r],
         k.range = All \/ l.range = All
  PROVE  k = l
BY DEF LInv, Apart, Clash

(* A retention lease has its root to itself, and whoever has one of its     *)
(* leases has no other (acquire_lifecycle, _lock).                          *)
LEMMA InvExclusive == LInv => Exclusive
<1> SUFFICES ASSUME LInv, NEW r \in Roots, NEW t \in RetainersOf(r)
             PROVE  RetainersOf(r) = {t} /\ WritersOf(r) = {}
  BY DEF Exclusive
<1>1. PICK i \in DOMAIN held[t] :
        /\ held[t][i].root = r /\ held[t][i].mode = "retention"
        /\ held[t][i].range = All /\ LockOf(t, i, All) \in locks[r]
  BY DEF LInv, Backed, RetainersOf, Leases, ToSet
<1>2. ASSUME NEW u \in Threads, NEW j \in DOMAIN held[u], held[u][j].root = r
      PROVE  u = t /\ held[u][j].mode = "retention"
  <2>1. LockOf(u, j, held[u][j].range) \in locks[r]
    BY <1>2 DEF LInv, Backed
  <2>2. LockOf(t, i, All).range = All
    BY DEF LockOf
  <2>3. LockOf(u, j, held[u][j].range) = LockOf(t, i, All)
    BY <1>1, <2>1, <2>2, Alone
  <2> QED
    BY <1>1, <2>3 DEF LockOf
<1>3. RetainersOf(r) \subseteq {t} /\ WritersOf(r) = {}
  BY <1>2 DEF RetainersOf, WritersOf, Leases, ToSet
<1> QED
  BY <1>3

(* Retention has its root to itself, in one process and across them         *)
(* (acquire_lifecycle, _lock).                                              *)
THEOREM Exclusion == Spec => []Exclusive
BY Invariance, InvExclusive, PTL

-----------------------------------------------------------------------------
(* The refinement: entering a lease is the grant, closing the last one of a *)
(* thread on a root gives it back, and the death of a process makes its     *)
(* threads vanish.                                                          *)

Has(t, r, m) ==
  t \in Threads /\ \E i \in DOMAIN held[t] : held[t][i].root = r /\ held[t][i].mode = m

LEMMA HoldersAre ==
  ASSUME NEW r
  PROVE  /\ \A t : t \in WritersOf(r) <=> Has(t, r, "writer")
         /\ \A t : t \in RetainersOf(r) <=> Has(t, r, "retention")
BY DEF WritersOf, RetainersOf, Leases, ToSet, Has

LEMMA HoldersAfter ==
  ASSUME NEW r
  PROVE  /\ \A t : t \in WritersOf(r)' <=> Has(t, r, "writer")'
         /\ \A t : t \in RetainersOf(r)' <=> Has(t, r, "retention")'
BY DEF WritersOf, RetainersOf, Leases, ToSet, Has

LEMMA RegisterHas ==
  ASSUME LInv, NEW t \in Threads, Register(t), NEW u, NEW r, NEW m
  PROVE  Has(u, r, m)' <=> (Has(u, r, m) \/ (u = t /\ r = Root(t) /\ m = mode[t]))
<1>1. held[t] \in Seq(Lease) /\ held' = [held EXCEPT ![t] = Append(held[t], Taken(t))]
  BY DEF LInv, Typed, Register
<1>2. Taken(t) \in Lease /\ Taken(t).root = Root(t) /\ Taken(t).mode = mode[t]
  <2>1. tried[t] < Len(Attempts(t))
    BY DEF LInv, Pending, Register
  <2> QED
    BY <2>1, RootType, WantedType DEF Taken, Lease, LInv, Typed, Register
<1>3. CASE u = t
  <2>1. held'[t] = Append(held[t], Taken(t))
    BY <1>1 DEF LInv, Typed
  <2> QED
    BY <1>1, <1>2, <1>3, <2>1, AppendFacts DEF Has
<1>4. CASE u # t
  BY <1>1, <1>4 DEF Has
<1> QED
  BY <1>3, <1>4

LEMMA RegisterGrants ==
  ASSUME LInv, NEW t \in Threads, Register(t)
  PROVE  Promise!GrantWriter(t, Root(t)) \/ Promise!GrantRetention(t, Root(t))
<1> DEFINE r == Root(t)
<1>1. r \in Roots /\ NewLock(t) \in locks[r] /\ tried[t] < Len(Attempts(t))
  BY RootType DEF LInv, Pending, Register
<1>2. ASSUME NEW u \in Threads, NEW i \in DOMAIN held[u], held[u][i].root = r
      PROVE  held[u][i].range # All /\ mode[t] # "retention"
  <2>1. LockOf(u, i, held[u][i].range) \in locks[r]
    BY <1>2 DEF LInv, Backed
  <2>2. LockOf(u, i, held[u][i].range) # NewLock(t)
    BY LeaseType DEF LInv, LockOf, NewLock
  <2>3. NewLock(t).range = Wanted(t) /\ LockOf(u, i, held[u][i].range).range = held[u][i].range
    BY DEF NewLock, LockOf
  <2> QED
    BY <1>1, <2>1, <2>2, <2>3, Alone, WantedType DEF LInv
<1>3. RetainersOf(r) = {}
  BY <1>2, HoldersAre DEF Has, LInv, Backed
<1>4. mode[t] = "retention" => WritersOf(r) = {}
  BY <1>2, HoldersAre DEF Has
<1>5. ASSUME NEW q \in Roots
      PROVE  /\ WritersOf(q)' = IF q = r /\ mode[t] = "writer"
                                 THEN WritersOf(q) \union {t} ELSE WritersOf(q)
             /\ RetainersOf(q)' = IF q = r /\ mode[t] = "retention"
                                   THEN RetainersOf(q) \union {t} ELSE RetainersOf(q)
  <2>1. \A u : Has(u, q, "writer")' <=>
              (Has(u, q, "writer") \/ (u = t /\ q = r /\ "writer" = mode[t]))
    BY RegisterHas
  <2>2. \A u : Has(u, q, "retention")' <=>
              (Has(u, q, "retention") \/ (u = t /\ q = r /\ "retention" = mode[t]))
    BY RegisterHas
  <2>3. WritersOf(q)' = IF q = r /\ mode[t] = "writer"
                        THEN WritersOf(q) \union {t} ELSE WritersOf(q)
    BY <2>1, HoldersAre, HoldersAfter
  <2>4. RetainersOf(q)' = IF q = r /\ mode[t] = "retention"
                          THEN RetainersOf(q) \union {t} ELSE RetainersOf(q)
    BY <2>2, HoldersAre, HoldersAfter
  <2> QED
    BY <2>3, <2>4
<1>6. CASE mode[t] = "writer"
  BY <1>1, <1>3, <1>5, <1>6 DEF Promise!GrantWriter
<1>7. CASE mode[t] = "retention"
  BY <1>1, <1>3, <1>4, <1>5, <1>7 DEF Promise!GrantRetention
<1> QED
  BY <1>6, <1>7 DEF LInv, Typed, Modes

LEMMA CloseHas ==
  ASSUME LInv, NEW t \in Threads, Close(t), NEW u, NEW r, NEW m
  PROVE  Has(u, r, m)' <=>
           IF u = t THEN \E i \in DOMAIN held[t] \ {Len(held[t])} :
                           held[t][i].root = r /\ held[t][i].mode = m
           ELSE Has(u, r, m)
<1>1. held' = [held EXCEPT ![t] = Front(held[t])] /\ DOMAIN held = Threads
  BY CloseFacts DEF LInv, Typed
<1>2. CASE u = t
  <2>1. held'[t] = Front(held[t])
    BY <1>1
  <2>2. /\ DOMAIN Front(held[t]) = DOMAIN held[t] \ {Len(held[t])}
        /\ \A i \in DOMAIN Front(held[t]) : Front(held[t])[i] = held[t][i]
    BY CloseFacts
  <2> QED
    BY <1>2, <2>1, <2>2 DEF Has
<1>3. CASE u # t
  <2>1. u \in Threads => held'[u] = held[u]
    BY <1>1, <1>3
  <2> QED
    BY <1>3, <2>1 DEF Has
<1> QED
  BY <1>2, <1>3

LEMMA CloseGivesBack ==
  ASSUME LInv, NEW t \in Threads, Close(t)
  PROVE  Promise!GiveBack(t, Last(held[t]).root) \/ UNCHANGED Promise!leases
<1>1. PICK r \in Roots, n \in DOMAIN held[t] :
        r = Last(held[t]).root /\ n = Len(held[t]) /\ held[t][n].root = r
  BY CloseFacts DEF Lease
<1> DEFINE Left == \E i \in DOMAIN held[t] \ {n} : held[t][i].root = r
<1>2. ASSUME NEW q \in Roots, q # r
      PROVE  WritersOf(q)' = WritersOf(q) /\ RetainersOf(q)' = RetainersOf(q)
  <2>1. \A u, m : Has(u, q, m)' <=> Has(u, q, m)
    <3> SUFFICES ASSUME NEW u, NEW m PROVE Has(u, q, m)' <=> Has(u, q, m)
      OBVIOUS
    <3>1. CASE u = t
      <4>1. (\E i \in DOMAIN held[t] \ {Len(held[t])} :
                held[t][i].root = q /\ held[t][i].mode = m)
            <=> Has(t, q, m)
        BY <1>1, <1>2 DEF Has
      <4> QED
        BY <3>1, <4>1, CloseHas
    <3>2. CASE u # t
      BY <3>2, CloseHas
    <3> QED
      BY <3>1, <3>2
  <2> QED
    BY <2>1, HoldersAre, HoldersAfter
<1>3. CASE ~Left
  <2>1. \A u, m : Has(u, r, m)' <=> u # t /\ Has(u, r, m)
    <3> SUFFICES ASSUME NEW u, NEW m
                 PROVE  Has(u, r, m)' <=> (u # t /\ Has(u, r, m))
      OBVIOUS
    <3>1. ~(\E i \in DOMAIN held[t] \ {Len(held[t])} :
                held[t][i].root = r /\ held[t][i].mode = m)
      BY <1>1, <1>3
    <3> QED
      BY <3>1, CloseHas
  <2>2. WritersOf(r)' = WritersOf(r) \ {t}
    BY <2>1, HoldersAre, HoldersAfter
  <2>3. RetainersOf(r)' = RetainersOf(r) \ {t}
    BY <2>1, HoldersAre, HoldersAfter
  <2> QED
    BY <1>1, <1>2, <2>2, <2>3 DEF Promise!GiveBack
<1>4. CASE Left
  <2>1. PICK e \in DOMAIN held[t] \ {n} : held[t][e].root = r
    BY <1>4
  <2>2. \A j \in DOMAIN held[t] : held[t][j].root = r => held[t][j].mode = "writer"
    <3>1. ASSUME NEW j \in DOMAIN held[t], NEW k \in DOMAIN held[t], j # k,
                 held[t][j].root = r, held[t][k].root = r
          PROVE  held[t][j].range # All
      <4>1. LockOf(t, j, held[t][j].range) # LockOf(t, k, held[t][k].range)
        BY <3>1 DEF LockOf
      <4>2. /\ LockOf(t, j, held[t][j].range) \in locks[r]
            /\ LockOf(t, k, held[t][k].range) \in locks[r]
        BY <3>1 DEF LInv, Backed
      <4>3. LockOf(t, j, held[t][j].range).range = held[t][j].range
        BY DEF LockOf
      <4> QED
        BY <1>1, <4>1, <4>2, <4>3, Alone
    <3>2. \A j \in DOMAIN held[t] : held[t][j].root = r => held[t][j].range # All
      BY <1>1, <2>1, <3>1
    <3>3. \A j \in DOMAIN held[t] : held[t][j].mode \in Modes
      BY LeaseType DEF LInv, Lease
    <3> QED
      BY <3>2, <3>3 DEF LInv, Backed, Modes
  <2>3. \A u, m : Has(u, r, m)' <=> Has(u, r, m)
    <3> SUFFICES ASSUME NEW u, NEW m PROVE Has(u, r, m)' <=> Has(u, r, m)
      OBVIOUS
    <3>1. CASE u = t
      <4>1. (\E i \in DOMAIN held[t] \ {Len(held[t])} :
                held[t][i].root = r /\ held[t][i].mode = m)
            <=> Has(t, r, m)
        BY <1>1, <2>1, <2>2 DEF Has
      <4> QED
        BY <3>1, <4>1, CloseHas
    <3>2. CASE u # t
      BY <3>2, CloseHas
    <3> QED
      BY <3>1, <3>2
  <2>4. WritersOf(r)' = WritersOf(r) /\ RetainersOf(r)' = RetainersOf(r)
    BY <2>3, HoldersAre, HoldersAfter
  <2> QED
    BY <1>2, <2>4 DEF Promise!leases
<1> QED
  BY <1>3, <1>4

LEMMA CrashVanishes ==
  ASSUME LInv, NEW p \in Processes, Crash(p)
  PROVE  \E S \in SUBSET Threads : Promise!Vanish(S)
<1> DEFINE dead == {t \in Threads : ProcessOf[t] = p}
<1>1. ASSUME NEW r \in Roots
      PROVE  /\ WritersOf(r)' = WritersOf(r) \ dead
             /\ RetainersOf(r)' = RetainersOf(r) \ dead
  <2>1. \A u, m : Has(u, r, m)' <=> u \notin dead /\ Has(u, r, m)
    BY DEF Has, Crash
  <2>2. WritersOf(r)' = WritersOf(r) \ dead
    BY <2>1, HoldersAre, HoldersAfter
  <2>3. RetainersOf(r)' = RetainersOf(r) \ dead
    BY <2>1, HoldersAre, HoldersAfter
  <2> QED
    BY <2>2, <2>3
<1>2. Promise!Vanish(dead)
  BY <1>1 DEF Promise!Vanish
<1> QED
  BY <1>2

LEMMA HeldUnchanged ==
  ASSUME held' = held
  PROVE  UNCHANGED Promise!leases
BY DEF Promise!leases, WritersOf, RetainersOf, Leases, ToSet

LEMMA StepSimulates ==
  LInv /\ [Next]_vars => [Promise!Next]_(Promise!leases)
<1> SUFFICES ASSUME LInv, [Next]_vars
             PROVE  Promise!Next \/ UNCHANGED Promise!leases
  OBVIOUS
<1>1. ASSUME NEW t \in Threads,
             Step(t) \/ \E m \in Modes, plan \in Plans : Ask(t, m, plan)
      PROVE  Promise!Next \/ UNCHANGED Promise!leases
  <2>1. CASE Register(t)
    <3>1. Root(t) \in Roots
      BY <2>1, RootType DEF Register
    <3> QED
      BY <2>1, <3>1, RegisterGrants DEF Promise!Next
  <2>2. CASE Close(t)
    <3>1. Last(held[t]).root \in Roots
      BY <2>2, CloseFacts DEF Lease
    <3> QED
      BY <2>2, <3>1, CloseGivesBack DEF Promise!Next
  <2>3. CASE ~(Register(t) \/ Close(t))
    <3>1. held' = held
      BY <1>1, <2>3
      DEF Step, Enter, EnterBusy, TryNext, TryLock, Fails, Discard, Ask, Unwinds,
          LInv, Typed
    <3> QED
      BY <3>1, HeldUnchanged
  <2> QED
    BY <2>1, <2>2, <2>3
<1>2. ASSUME NEW p \in Processes, Crash(p) PROVE Promise!Next
  BY <1>2, CrashVanishes DEF Promise!Next
<1>3. CASE UNCHANGED vars
  BY <1>3, HeldUnchanged DEF vars
<1> QED
  BY <1>1, <1>2, <1>3 DEF Next

(* acquire_lifecycle and LifecycleLease.close keep the promise of RootLease,*)
(* on which Retention is built.                                             *)
THEOREM Implementation == Spec => ImplementsRootLease
<1>1. Init => Promise!Init
  BY DEF Init, Promise!Init, WritersOf, RetainersOf, Leases, ToSet
<1> QED
  BY <1>1, Invariance, StepSimulates, PTL
  DEF Spec, ImplementsRootLease, Promise!Spec

-----------------------------------------------------------------------------
(* The registry.                                                            *)

RegistryTyped ==
  /\ registry \in [Processes -> [Roots -> [Modes -> Int]]]
  /\ occupied \in [Processes -> [Roots -> SUBSET Ranges]]
  /\ guard \in [Processes -> Threads \union {NoThread}]

HeldFinite ==
  \A p \in Processes, r \in Roots, m \in Modes : IsFiniteSet(HeldBy(p, r, m))

RInv == RegistryTyped /\ HeldFinite /\ RegistryExact

Entry(x, p, r, m) ==
  \E t \in OfProcess(p) : \E i \in DOMAIN held[t] :
    x = <<t, i>> /\ held[t][i].root = r /\ held[t][i].mode = m

Held(b, p, r) ==
  \E t \in OfProcess(p) : \E i \in DOMAIN held[t] :
    /\ held[t][i].root = r /\ held[t][i].mode = "writer"
    /\ held[t][i].range = b /\ b # Shared

SlotsOf(p, r) == UNION {Slot(held[x[1]][x[2]]) : x \in HeldBy(p, r, "writer")}

LEMMA EntriesAre ==
  ASSUME NEW p, NEW r, NEW m
  PROVE  \A x : x \in HeldBy(p, r, m) <=> Entry(x, p, r, m)
BY DEF HeldBy, Entry

LEMMA EntriesAfter ==
  ASSUME NEW p, NEW r, NEW m
  PROVE  \A x : x \in HeldBy(p, r, m)' <=> Entry(x, p, r, m)'
BY DEF HeldBy, Entry

LEMMA SlotsAre ==
  ASSUME NEW p, NEW r
  PROVE  \A b : b \in SlotsOf(p, r) <=> Held(b, p, r)
<1> SUFFICES ASSUME NEW b PROVE b \in SlotsOf(p, r) <=> Held(b, p, r)
  OBVIOUS
<1>1. ASSUME b \in SlotsOf(p, r) PROVE Held(b, p, r)
  <2>1. PICK x \in HeldBy(p, r, "writer") : b \in Slot(held[x[1]][x[2]])
    BY <1>1 DEF SlotsOf
  <2>2. PICK t \in OfProcess(p) : \E i \in DOMAIN held[t] :
          x = <<t, i>> /\ held[t][i].root = r /\ held[t][i].mode = "writer"
    BY <2>1, EntriesAre DEF Entry
  <2>3. PICK i \in DOMAIN held[t] :
          x = <<t, i>> /\ held[t][i].root = r /\ held[t][i].mode = "writer"
    BY <2>2
  <2>4. b \in Slot(held[t][i])
    BY <2>1, <2>3
  <2> QED
    BY <2>3, <2>4 DEF Held, Slot
<1>2. ASSUME Held(b, p, r) PROVE b \in SlotsOf(p, r)
  <2>1. PICK t \in OfProcess(p) : \E i \in DOMAIN held[t] :
          /\ held[t][i].root = r /\ held[t][i].mode = "writer"
          /\ held[t][i].range = b /\ b # Shared
    BY <1>2 DEF Held
  <2>2. PICK i \in DOMAIN held[t] :
          /\ held[t][i].root = r /\ held[t][i].mode = "writer"
          /\ held[t][i].range = b /\ b # Shared
    BY <2>1
  <2>3. <<t, i>> \in HeldBy(p, r, "writer") /\ b \in Slot(held[t][i])
    BY <2>2, EntriesAre DEF Entry, Slot
  <2>4. held[<<t, i>>[1]][<<t, i>>[2]] = held[t][i]
    OBVIOUS
  <2> QED
    BY <2>3, <2>4 DEF SlotsOf
<1> QED
  BY <1>1, <1>2

LEMMA SlotsAfter ==
  ASSUME NEW p, NEW r
  PROVE  \A b : b \in SlotsOf(p, r)' <=> Held(b, p, r)'
<1> DEFINE Right == \A b : b \in SlotsOf(p, r) <=> Held(b, p, r)
<1>1. Right
  BY SlotsAre
<1> HIDE DEF Right
<1>2. Right'
  BY <1>1, PTL
<1> QED
  BY <1>2 DEF Right

LEMMA InitRInv == Init => RInv
<1> SUFFICES ASSUME Init PROVE RInv
  OBVIOUS
<1>1. \A p, r, m : HeldBy(p, r, m) = {}
  BY DEF Init, HeldBy, OfProcess
<1>2. RegistryTyped
  BY DEF Init, RegistryTyped, Free, Modes
<1>3. HeldFinite
  BY <1>1, FS_EmptySet DEF HeldFinite
<1>4. ASSUME NEW p \in Processes, NEW r \in Roots
      PROVE  occupied[p][r] = SlotsOf(p, r)
  <2>1. SlotsOf(p, r) = {}
    BY <1>1 DEF SlotsOf
  <2> QED
    BY <2>1 DEF Init
<1>5. ASSUME NEW p \in Processes, NEW r \in Roots, NEW m \in Modes
      PROVE  registry[p][r][m] = Cardinality(HeldBy(p, r, m))
  <2>1. Cardinality(HeldBy(p, r, m)) = 0
    BY <1>1, FS_EmptySet
  <2>2. registry[p][r][m] = 0
    BY DEF Init, Free, Modes
  <2> QED
    BY <2>1, <2>2
<1> QED
  BY <1>2, <1>3, <1>4, <1>5 DEF RInv, RegistryExact, SlotsOf

(* Nothing of the registry changes while the leases stay.                   *)
LEMMA QuietRegistry ==
  ASSUME RInv, UNCHANGED <<registry, occupied, held>>,
         guard' \in [Processes -> Threads \union {NoThread}]
  PROVE  RInv'
<1>1. \A p, r, m : HeldBy(p, r, m)' = HeldBy(p, r, m)
  BY DEF HeldBy, OfProcess
<1> QED
  BY <1>1 DEF RInv, RegistryTyped, HeldFinite, RegistryExact

LEMMA RegisterEntries ==
  ASSUME LInv, NEW t \in Threads, Register(t), NEW p, NEW r, NEW m
  PROVE  HeldBy(p, r, m)' =
           IF p = Process(t) /\ r = Root(t) /\ m = mode[t]
           THEN HeldBy(p, r, m) \union {<<t, Len(held[t]) + 1>>}
           ELSE HeldBy(p, r, m)
<1>1. /\ held[t] \in Seq(Lease) /\ held' = [held EXCEPT ![t] = Append(held[t], Taken(t))]
      /\ DOMAIN held = Threads
  BY DEF LInv, Typed, Register
<1>2. Taken(t) \in Lease /\ Taken(t).root = Root(t) /\ Taken(t).mode = mode[t]
  <2>1. tried[t] < Len(Attempts(t))
    BY DEF LInv, Pending, Register
  <2> QED
    BY <2>1, RootType, WantedType DEF Taken, Lease, LInv, Typed, Register
<1>3. /\ DOMAIN held'[t] = DOMAIN held[t] \union {Len(held[t]) + 1}
      /\ \A i \in DOMAIN held[t] : held'[t][i] = held[t][i]
      /\ held'[t][Len(held[t]) + 1] = Taken(t)
  BY <1>1, <1>2, AppendFacts
<1>4. \A u \in Threads : u # t => held'[u] = held[u]
  BY <1>1
<1>5. \A x : Entry(x, p, r, m)' <=>
              \/ Entry(x, p, r, m)
              \/ /\ p = Process(t) /\ r = Root(t) /\ m = mode[t]
                 /\ x = <<t, Len(held[t]) + 1>>
  BY <1>2, <1>3, <1>4 DEF Entry, OfProcess, Process
<1> QED
  BY <1>5, EntriesAre, EntriesAfter

LEMMA CloseEntries ==
  ASSUME LInv, NEW t \in Threads, Close(t), NEW p, NEW r, NEW m
  PROVE  HeldBy(p, r, m)' = HeldBy(p, r, m) \ {<<t, Len(held[t])>>}
<1>1. held' = [held EXCEPT ![t] = Front(held[t])] /\ DOMAIN held = Threads
  BY CloseFacts DEF LInv, Typed
<1>2. /\ DOMAIN held'[t] = DOMAIN held[t] \ {Len(held[t])}
      /\ \A i \in DOMAIN held'[t] : held'[t][i] = held[t][i]
  BY <1>1, CloseFacts
<1>3. \A u \in Threads : u # t => held'[u] = held[u]
  BY <1>1
<1>4. \A x : Entry(x, p, r, m)' <=>
              /\ Entry(x, p, r, m)
              /\ x # <<t, Len(held[t])>>
  BY <1>2, <1>3 DEF Entry, OfProcess
<1> QED
  BY <1>4, EntriesAre, EntriesAfter

(* What RegistryExact says of a step, when the sets of its leases are known. *)
LEMMA ExactAfter ==
  ASSUME RegistryTyped', HeldFinite',
         ASSUME NEW p \in Processes, NEW r \in Roots
         PROVE  \A b : b \in occupied'[p][r] <=> Held(b, p, r)',
         ASSUME NEW p \in Processes, NEW r \in Roots, NEW m \in Modes
         PROVE  registry'[p][r][m] = Cardinality(HeldBy(p, r, m)')
  PROVE  RInv'
<1>1. ASSUME NEW p \in Processes, NEW r \in Roots
      PROVE  occupied'[p][r] = SlotsOf(p, r)'
  <2>1. \A b : b \in occupied'[p][r] <=> b \in SlotsOf(p, r)'
    BY SlotsAfter
  <2> QED
    BY <2>1
<1> QED
  BY <1>1 DEF RInv, RegistryExact, SlotsOf

LEMMA OccupiedIs ==
  ASSUME RInv, NEW p \in Processes, NEW r \in Roots
  PROVE  \A b : b \in occupied[p][r] <=> Held(b, p, r)
<1>1. occupied[p][r] = SlotsOf(p, r)
  BY DEF RInv, RegistryExact, SlotsOf
<1> QED
  BY <1>1, SlotsAre

LEMMA RegisterHeld ==
  ASSUME LInv, NEW t \in Threads, Register(t), NEW p, NEW r, NEW b
  PROVE  Held(b, p, r)' <=>
           \/ Held(b, p, r)
           \/ p = Process(t) /\ r = Root(t) /\ b \in Slot(Taken(t))
<1>1. /\ held[t] \in Seq(Lease) /\ held' = [held EXCEPT ![t] = Append(held[t], Taken(t))]
      /\ DOMAIN held = Threads
  BY DEF LInv, Typed, Register
<1>2. /\ Taken(t) \in Lease /\ Taken(t).root = Root(t) /\ Taken(t).mode = mode[t]
      /\ Taken(t).range = Wanted(t)
  <2>1. tried[t] < Len(Attempts(t))
    BY DEF LInv, Pending, Register
  <2> QED
    BY <2>1, RootType, WantedType DEF Taken, Lease, LInv, Typed, Register
<1>3. /\ DOMAIN held'[t] = DOMAIN held[t] \union {Len(held[t]) + 1}
      /\ \A i \in DOMAIN held[t] : held'[t][i] = held[t][i]
      /\ held'[t][Len(held[t]) + 1] = Taken(t)
  BY <1>1, <1>2, AppendFacts
<1>4. \A u \in Threads : u # t => held'[u] = held[u]
  BY <1>1
<1>5. b \in Slot(Taken(t)) <=> mode[t] = "writer" /\ b = Wanted(t) /\ b # Shared
  BY DEF Slot, Taken
<1> QED
  BY <1>2, <1>3, <1>4, <1>5 DEF Held, OfProcess, Process

LEMMA RegisterRInv ==
  ASSUME LInv, RInv, NEW t \in Threads, Register(t)
  PROVE  RInv'
<1> DEFINE new == <<t, Len(held[t]) + 1>>
<1>1. Process(t) \in Processes /\ Root(t) \in Roots /\ mode[t] \in Modes
  BY ThreadsAssumption, RootType DEF Process, LInv, Typed, Register
<1>2. \A p, r, m : new \notin HeldBy(p, r, m)
  <2>1. Len(held[t]) + 1 \notin DOMAIN held[t]
    BY DEF LInv, Typed
  <2> QED
    BY <2>1, EntriesAre DEF Entry
<1>3. \A b : b \in Slot(Taken(t)) <=> mode[t] = "writer" /\ b = Wanted(t) /\ b # Shared
  BY DEF Slot, Taken
<1>4. Slot(Taken(t)) \subseteq Ranges
  <2>1. tried[t] < Len(Attempts(t))
    BY DEF LInv, Pending, Register
  <2> QED
    BY <1>3, <2>1, WantedType DEF LInv
<1>5. RegistryTyped'
  BY <1>1, <1>4 DEF RInv, RegistryTyped, Register
<1>6. HeldFinite'
  <2> SUFFICES ASSUME NEW p \in Processes, NEW r \in Roots, NEW m \in Modes
               PROVE  IsFiniteSet(HeldBy(p, r, m)')
    BY DEF HeldFinite
  <2>1. IsFiniteSet(HeldBy(p, r, m))
    BY DEF RInv, HeldFinite
  <2>2. IsFiniteSet(HeldBy(p, r, m) \union {new})
    BY <2>1, FS_AddElement
  <2>3. HeldBy(p, r, m)' \in {HeldBy(p, r, m), HeldBy(p, r, m) \union {new}}
    BY RegisterEntries
  <2> QED
    BY <2>1, <2>2, <2>3
<1>7. ASSUME NEW p \in Processes, NEW r \in Roots
      PROVE  \A b : b \in occupied'[p][r] <=> Held(b, p, r)'
  <2>1. occupied'[p][r] = IF p = Process(t) /\ r = Root(t)
                          THEN occupied[p][r] \union Slot(Taken(t))
                          ELSE occupied[p][r]
    BY <1>1 DEF RInv, RegistryTyped, Register
  <2>2. \A b : Held(b, p, r)' <=>
                \/ Held(b, p, r)
                \/ p = Process(t) /\ r = Root(t) /\ b \in Slot(Taken(t))
    BY <1>3, RegisterHeld
  <2> QED
    BY <2>1, <2>2, OccupiedIs
<1>8. ASSUME NEW p \in Processes, NEW r \in Roots, NEW m \in Modes
      PROVE  registry'[p][r][m] = Cardinality(HeldBy(p, r, m)')
  <2>1. registry'[p][r][m] = IF p = Process(t) /\ r = Root(t) /\ m = mode[t]
                             THEN registry[p][r][m] + 1 ELSE registry[p][r][m]
    BY <1>1 DEF RInv, RegistryTyped, Register
  <2>2. registry[p][r][m] = Cardinality(HeldBy(p, r, m)) /\ IsFiniteSet(HeldBy(p, r, m))
    BY DEF RInv, RegistryExact, HeldFinite
  <2> QED
    BY <1>2, <2>1, <2>2, RegisterEntries, FS_AddElement
<1> QED
  BY <1>5, <1>6, <1>7, <1>8, ExactAfter

(* No two slots of a root are the same: the range would be locked twice.    *)
LEMMA SlotsApart ==
  ASSUME LInv, NEW t \in Threads, NEW i \in DOMAIN held[t],
         NEW u \in Threads, NEW j \in DOMAIN held[u],
         held[t][i].root = held[u][j].root,
         held[t][i].range = held[u][j].range, held[t][i].range # Shared
  PROVE  u = t /\ j = i
<1> DEFINE r == held[t][i].root
           k == LockOf(t, i, held[t][i].range)
           l == LockOf(u, j, held[u][j].range)
<1>1. r \in Roots
  BY LeaseType DEF LInv
<1>2. k \in locks[r] /\ l \in locks[r]
  BY DEF LInv, Backed
<1>3. Clash(k.range, l.range)
  BY DEF Clash, LockOf
<1>4. k = l
  BY <1>1, <1>2, <1>3 DEF LInv, Apart
<1> QED
  BY <1>4 DEF LockOf

LEMMA CloseHeld ==
  ASSUME LInv, NEW t \in Threads, Close(t), NEW l \in Lease, l = Last(held[t]),
         NEW p, NEW r, NEW b
  PROVE  Held(b, p, r)' <=>
           /\ Held(b, p, r)
           /\ ~(p = Process(t) /\ r = l.root /\ b \in Slot(l))
<1>1. PICK n \in DOMAIN held[t] : n = Len(held[t]) /\ held[t][n] = l
  BY CloseFacts
<1>2. held' = [held EXCEPT ![t] = Front(held[t])] /\ DOMAIN held = Threads
  BY CloseFacts DEF LInv, Typed
<1>3. /\ DOMAIN held'[t] = DOMAIN held[t] \ {n}
      /\ \A i \in DOMAIN held'[t] : held'[t][i] = held[t][i]
  BY <1>1, <1>2, CloseFacts
<1>4. \A u \in Threads : u # t => held'[u] = held[u]
  BY <1>2
<1>5. ASSUME Held(b, p, r)'
      PROVE  Held(b, p, r) /\ ~(p = Process(t) /\ r = l.root /\ b \in Slot(l))
  <2>1. PICK u \in OfProcess(p) : \E j \in DOMAIN held'[u] :
          /\ held'[u][j].root = r /\ held'[u][j].mode = "writer"
          /\ held'[u][j].range = b /\ b # Shared
    BY <1>5 DEF Held, OfProcess
  <2>2. PICK j \in DOMAIN held'[u] :
          /\ held'[u][j].root = r /\ held'[u][j].mode = "writer"
          /\ held'[u][j].range = b /\ b # Shared
    BY <2>1
  <2>3. /\ u \in Threads /\ j \in DOMAIN held[u] /\ held'[u][j] = held[u][j]
        /\ ~(u = t /\ j = n)
    BY <1>3, <1>4, <2>2 DEF OfProcess
  <2>4. Held(b, p, r)
    BY <2>2, <2>3 DEF Held
  <2>5. ASSUME r = l.root, b \in Slot(l) PROVE FALSE
    <3>1. l.range = b
      BY <2>5 DEF Slot
    <3> QED
      BY <1>1, <2>2, <2>3, <2>5, <3>1, SlotsApart
  <2> QED
    BY <2>4, <2>5
<1>6. ASSUME Held(b, p, r), ~(p = Process(t) /\ r = l.root /\ b \in Slot(l))
      PROVE  Held(b, p, r)'
  <2>1. PICK u \in OfProcess(p) : \E j \in DOMAIN held[u] :
          /\ held[u][j].root = r /\ held[u][j].mode = "writer"
          /\ held[u][j].range = b /\ b # Shared
    BY <1>6 DEF Held
  <2>2. PICK j \in DOMAIN held[u] :
          /\ held[u][j].root = r /\ held[u][j].mode = "writer"
          /\ held[u][j].range = b /\ b # Shared
    BY <2>1
  <2>3. ~(u = t /\ j = n)
    BY <1>1, <1>6, <2>2 DEF Slot, OfProcess, Process
  <2>4. j \in DOMAIN held'[u] /\ held'[u][j] = held[u][j]
    BY <1>3, <1>4, <2>2, <2>3 DEF OfProcess
  <2> QED
    BY <2>2, <2>4 DEF Held, OfProcess
<1> QED
  BY <1>5, <1>6

LEMMA CloseRInv ==
  ASSUME LInv, RInv, NEW t \in Threads, Close(t)
  PROVE  RInv'
<1>1. PICK n \in DOMAIN held[t], l \in Lease :
        n = Len(held[t]) /\ l = Last(held[t]) /\ held[t][n] = l
  BY CloseFacts
<1>2. Process(t) \in Processes /\ l.root \in Roots /\ l.mode \in Modes
  BY ThreadsAssumption DEF Process, Lease
<1>3. /\ registry' = [registry EXCEPT ![Process(t)][l.root][l.mode] = @ - 1]
      /\ occupied' = [occupied EXCEPT ![Process(t)][l.root] = @ \ Slot(l)]
      /\ guard' = guard
  BY <1>1 DEF Close, Vacated
<1>4. \A p, r, m : <<t, n>> \in HeldBy(p, r, m) <=>
                     p = Process(t) /\ r = l.root /\ m = l.mode
  BY <1>1, EntriesAre DEF Entry, OfProcess, Process
<1>5. RegistryTyped'
  BY <1>2, <1>3 DEF RInv, RegistryTyped
<1>6. \A p, r, m : HeldBy(p, r, m)' = HeldBy(p, r, m) \ {<<t, n>>}
  BY <1>1, CloseEntries
<1>7. HeldFinite'
  BY <1>6, FS_RemoveElement DEF RInv, HeldFinite
<1>8. ASSUME NEW p \in Processes, NEW r \in Roots
      PROVE  \A b : b \in occupied'[p][r] <=> Held(b, p, r)'
  <2>1. occupied'[p][r] = IF p = Process(t) /\ r = l.root
                          THEN occupied[p][r] \ Slot(l) ELSE occupied[p][r]
    BY <1>2, <1>3 DEF RInv, RegistryTyped
  <2>2. \A b : Held(b, p, r)' <=>
                /\ Held(b, p, r)
                /\ ~(p = Process(t) /\ r = l.root /\ b \in Slot(l))
    BY <1>1, CloseHeld
  <2> QED
    BY <2>1, <2>2, OccupiedIs
<1>9. ASSUME NEW p \in Processes, NEW r \in Roots, NEW m \in Modes
      PROVE  registry'[p][r][m] = Cardinality(HeldBy(p, r, m)')
  <2>1. registry'[p][r][m] = IF p = Process(t) /\ r = l.root /\ m = l.mode
                             THEN registry[p][r][m] - 1 ELSE registry[p][r][m]
    BY <1>2, <1>3 DEF RInv, RegistryTyped
  <2>2. registry[p][r][m] = Cardinality(HeldBy(p, r, m)) /\ IsFiniteSet(HeldBy(p, r, m))
    BY DEF RInv, RegistryExact, HeldFinite
  <2> QED
    BY <1>4, <1>6, <2>1, <2>2, FS_RemoveElement
<1> QED
  BY <1>5, <1>7, <1>8, <1>9, ExactAfter

LEMMA CrashRInv ==
  ASSUME LInv, RInv, NEW k \in Processes, Crash(k)
  PROVE  RInv'
<1>1. \A u \in Threads : held'[u] = IF ProcessOf[u] = k THEN <<>> ELSE held[u]
  BY DEF Crash
<1>2. \A p, r, m : \A x : Entry(x, p, r, m)' <=> p # k /\ Entry(x, p, r, m)
  BY <1>1 DEF Entry, OfProcess
<1>3. ASSUME NEW p, NEW r, NEW m
      PROVE  HeldBy(p, r, m)' = IF p = k THEN {} ELSE HeldBy(p, r, m)
  <2>1. \A x : x \in HeldBy(p, r, m)' <=> p # k /\ x \in HeldBy(p, r, m)
    BY <1>2, EntriesAre, EntriesAfter
  <2> QED
    BY <2>1
<1>4. \A p, r : \A b : Held(b, p, r)' <=> p # k /\ Held(b, p, r)
  BY <1>1 DEF Held, OfProcess
<1>5. RegistryTyped'
  BY DEF RInv, RegistryTyped, Crash, Free, Modes
<1>6. HeldFinite'
  BY <1>3, FS_EmptySet DEF RInv, HeldFinite
<1>7. ASSUME NEW p \in Processes, NEW r \in Roots
      PROVE  \A b : b \in occupied'[p][r] <=> Held(b, p, r)'
  <2>1. occupied'[p][r] = IF p = k THEN {} ELSE occupied[p][r]
    BY DEF Crash, RInv, RegistryTyped
  <2> QED
    BY <1>4, <2>1, OccupiedIs
<1>8. ASSUME NEW p \in Processes, NEW r \in Roots, NEW m \in Modes
      PROVE  registry'[p][r][m] = Cardinality(HeldBy(p, r, m)')
  <2>1. registry'[p][r][m] = IF p = k THEN 0 ELSE registry[p][r][m]
    BY DEF Crash, RInv, RegistryTyped, Free, Modes
  <2>2. registry[p][r][m] = Cardinality(HeldBy(p, r, m))
    BY DEF RInv, RegistryExact
  <2> QED
    BY <1>3, <2>1, <2>2, FS_EmptySet
<1> QED
  BY <1>5, <1>6, <1>7, <1>8, ExactAfter

LEMMA StepRInv == LInv /\ RInv /\ [Next]_vars => RInv'
<1> SUFFICES ASSUME LInv, RInv, [Next]_vars PROVE RInv'
  OBVIOUS
<1>1. ASSUME NEW t \in Threads,
             Step(t) \/ \E m \in Modes, plan \in Plans : Ask(t, m, plan)
      PROVE  RInv'
  <2>1. CASE Register(t) \/ Close(t)
    BY <2>1, RegisterRInv, CloseRInv
  <2>2. CASE ~(Register(t) \/ Close(t))
    <3>1. /\ UNCHANGED <<registry, occupied, held>>
          /\ guard' \in {guard, [guard EXCEPT ![Process(t)] = t],
                         [guard EXCEPT ![Process(t)] = NoThread]}
      BY <1>1, <2>2
      DEF Step, Enter, EnterBusy, TryNext, TryLock, Fails, Discard, Ask, Unwinds,
          LInv, Typed
    <3>2. guard' \in [Processes -> Threads \union {NoThread}]
      BY <3>1 DEF RInv, RegistryTyped
    <3> QED
      BY <3>1, <3>2, QuietRegistry
  <2> QED
    BY <2>1, <2>2
<1>2. ASSUME NEW p \in Processes, Crash(p) PROVE RInv'
  BY <1>2, CrashRInv
<1>3. CASE UNCHANGED vars
  BY <1>3, QuietRegistry DEF vars, RInv, RegistryTyped
<1> QED
  BY <1>1, <1>2, <1>3 DEF Next

(* The counts and the slots of the registry are those of the open leases,   *)
(* after every rollback and release (LifecycleLease.close).                 *)
THEOREM Registry == Spec => []RegistryExact
<1>1. RInv => RegistryExact
  BY DEF RInv
<1> QED
  BY <1>1, InitRInv, StepRInv, Invariance, PTL DEF Spec

(* Every variable holds what the source stores in it: no count of the       *)
(* registry ever falls below zero (LifecycleLease.close).                   *)
THEOREM TypeCorrect == Spec => []TypeOK
<1>1. ASSUME LInv, RInv PROVE TypeOK
  <2>1. registry \in [Processes -> [Roots -> [Modes -> Nat]]]
    <3>1. ASSUME NEW p \in Processes, NEW r \in Roots, NEW m \in Modes
          PROVE  registry[p][r][m] \in Nat
      BY <1>1, FS_CardinalityType DEF RInv, HeldFinite, RegistryExact
    <3> QED
      BY <1>1, <3>1 DEF RInv, RegistryTyped
  <2> QED
    BY <1>1, <2>1 DEF LInv, RInv, Typed, RegistryTyped, TypeOK, Places
<1> QED
  BY <1>1, InitLInv, StepLInv, InitRInv, StepRInv, PTL DEF Spec
=============================================================================
