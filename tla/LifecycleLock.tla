--------------------------- MODULE LifecycleLock ---------------------------
(* lifecycle_lock.py: the leases that keep retention away from recording.   *)
(* A lease is a lock of the operating system on a file in the root, taken   *)
(* without waiting, and an entry of its process's own registry, because two *)
(* threads of a process have to exclude each other too.                     *)
EXTENDS Naturals, Sequences, FiniteSets, SequencesExt

CONSTANTS
  Processes, Threads, ProcessOf,
  Roots,
  Platforms,   \* the ranges a writer tries in turn: one sequence per platform
  All,         \* the range of a retention lock: every byte, or LOCK_EX
  Shared,      \* the range of a writer's LOCK_SH
  Plans,       \* the roots a writer takes one after the other
  NoThread,
  MaxCalls,    \* bound: what the threads call together
  MaxCrashes   \* bound: processes killed

Ranges == UNION {ToSet(p) : p \in Platforms}

ASSUME RangesAssumption ==
  /\ Platforms \subseteq Seq(Ranges)
  /\ All \notin Ranges
ASSUME ThreadsAssumption ==
  /\ ProcessOf \in [Threads -> Processes]
  /\ NoThread \notin Threads
ASSUME PlansAssumption == Plans \subseteq Seq(Roots) \ {<<>>}
ASSUME BoundsAssumption == MaxCalls \in Nat /\ MaxCrashes \in Nat

Modes == {"writer", "retention"}
Lease == [root : Roots, mode : Modes, range : Ranges \union {All}]

VARIABLES
  ranges,     \* the platform's sequence
  registry,   \* _registry: leases per process, root and mode
  occupied,   \* _occupied: the ranges a process's own writers have
  guard,      \* per process: who is inside _registry_guard
  locks,      \* per root: the locks the operating system granted
  pc, mode,
  todo,       \* the roots still to be taken
  tried,      \* how many ranges the running acquisition has tried
  held,       \* a thread's open leases, the latest last
  calls, crashes

vars == <<ranges, registry, occupied, guard, locks, pc, mode, todo, tried,
          held, calls, crashes>>

Free == [writer |-> 0, retention |-> 0]

Init ==
  /\ ranges \in Platforms
  /\ registry = [p \in Processes |-> [r \in Roots |-> Free]]
  /\ occupied = [p \in Processes |-> [r \in Roots |-> {}]]
  /\ guard = [p \in Processes |-> NoThread]
  /\ locks = [r \in Roots |-> {}]
  /\ pc = [t \in Threads |-> "idle"]
  /\ mode = [t \in Threads |-> "writer"]
  /\ todo = [t \in Threads |-> <<>>]
  /\ tried = [t \in Threads |-> 0]
  /\ held = [t \in Threads |-> <<>>]
  /\ calls = 0
  /\ crashes = 0

-----------------------------------------------------------------------------
(* Acquisition.                                                             *)

Process(t) == ProcessOf[t]
Root(t) == Head(todo[t])

(* Two locks on one file exclude each other.                                *)
ClashBytesOnly(a, b) == a = b /\ a # Shared
Clash(a, b) == a = All \/ b = All \/ (a = b /\ a # Shared)

Ask(t, m, plan) ==
  /\ pc[t] = "idle"
  /\ calls < MaxCalls
  /\ m = "retention" => Len(plan) = 1
  /\ pc' = [pc EXCEPT ![t] = "wanting"]
  /\ mode' = [mode EXCEPT ![t] = m]
  /\ todo' = [todo EXCEPT ![t] = plan]
  /\ calls' = calls + 1
  /\ UNCHANGED <<ranges, registry, occupied, guard, locks, tried, held,
                 crashes>>

(* A call with these leases left: it returns once there is none.            *)
Unwinds(t, left) ==
  /\ held' = [held EXCEPT ![t] = left]
  /\ pc' = [pc EXCEPT ![t] = IF left = <<>> THEN "idle" ELSE "closing"]
  /\ todo' = [todo EXCEPT ![t] = <<>>]
  /\ tried' = [tried EXCEPT ![t] = 0]

Conflicting(entry, m) ==
  entry.retention > 0 \/ (m = "retention" /\ entry.writer > 0)

(* The process's own registry is asked before the file is opened.           *)
Enter(t) ==
  /\ pc[t] = "wanting"
  /\ guard[Process(t)] = NoThread
  /\ ~Conflicting(registry[Process(t)][Root(t)], mode[t])
  /\ guard' = [guard EXCEPT ![Process(t)] = t]
  /\ pc' = [pc EXCEPT ![t] = "trying"]
  /\ tried' = [tried EXCEPT ![t] = 0]
  /\ UNCHANGED <<ranges, registry, occupied, locks, mode, todo, held, calls,
                 crashes>>

EnterBusy(t) ==
  /\ pc[t] = "wanting"
  /\ guard[Process(t)] = NoThread
  /\ Conflicting(registry[Process(t)][Root(t)], mode[t])
  /\ Unwinds(t, held[t])
  /\ UNCHANGED <<ranges, registry, occupied, guard, locks, mode, calls,
                 crashes>>

(* What the acquisition tries: a retention lock has one range.              *)
Attempts(t) == IF mode[t] = "writer" THEN ranges ELSE <<All>>
Wanted(t) == Attempts(t)[tried[t] + 1]
Skipped(t) ==
  mode[t] = "writer" /\ Wanted(t) \in occupied[Process(t)][Root(t)]
Granted(t) ==
  ~Skipped(t) /\ \A l \in locks[Root(t)] : ~Clash(l.range, Wanted(t))

(* Every acquisition has an open file, and so a lock, of its own.           *)
LockOf(t, i, range) == [owner |-> t, handle |-> i, range |-> range]
NewLock(t) == LockOf(t, Len(held[t]) + 1, Wanted(t))

TryNext(t) ==
  /\ pc[t] = "trying"
  /\ tried[t] < Len(Attempts(t))
  /\ ~Granted(t)
  /\ tried' = [tried EXCEPT ![t] = @ + 1]
  /\ UNCHANGED <<ranges, registry, occupied, guard, locks, pc, mode, todo,
                 held, calls, crashes>>

TryLock(t) ==
  /\ pc[t] = "trying"
  /\ tried[t] < Len(Attempts(t))
  /\ Granted(t)
  /\ locks' = [locks EXCEPT ![Root(t)] = @ \union {NewLock(t)}]
  /\ pc' = [pc EXCEPT ![t] = "locked"]
  /\ UNCHANGED <<ranges, registry, occupied, guard, mode, todo, tried, held,
                 calls, crashes>>

(* Every range was taken, or opening the file failed: out of the guard      *)
(* without a lease.                                                         *)
FailsOpening(t) ==
  /\ pc[t] = "trying"
  /\ tried[t] = 0
  /\ guard' = [guard EXCEPT ![Process(t)] = NoThread]
  /\ Unwinds(t, held[t])
  /\ UNCHANGED <<ranges, registry, occupied, locks, mode, calls, crashes>>

Fails(t) ==
  /\ pc[t] = "trying"
  /\ tried[t] \in {0, Len(Attempts(t))}
  /\ guard' = [guard EXCEPT ![Process(t)] = NoThread]
  /\ Unwinds(t, held[t])
  /\ UNCHANGED <<ranges, registry, occupied, locks, mode, calls, crashes>>

(* A slot is a byte; LOCK_SH has none.                                      *)
Slot(l) ==
  IF l.mode = "writer" /\ l.range # Shared THEN {l.range} ELSE {}
Taken(t) == [root |-> Root(t), mode |-> mode[t], range |-> Wanted(t)]

(* The file is still the one in the root: the lease is entered.             *)
Register(t) ==
  /\ pc[t] = "locked"
  /\ registry' = [registry EXCEPT ![Process(t)][Root(t)][mode[t]] = @ + 1]
  /\ occupied' = [occupied EXCEPT ![Process(t)][Root(t)] =
                    @ \union Slot(Taken(t))]
  /\ held' = [held EXCEPT ![t] = Append(@, Taken(t))]
  /\ guard' = [guard EXCEPT ![Process(t)] = NoThread]
  /\ todo' = [todo EXCEPT ![t] = Tail(@)]
  /\ tried' = [tried EXCEPT ![t] = 0]
  /\ pc' = [pc EXCEPT ![t] = IF Len(todo[t]) = 1 THEN "held" ELSE "wanting"]
  /\ UNCHANGED <<ranges, locks, mode, calls, crashes>>

(* It is not: closing the handle gives the lock back.                       *)
Discard(t) ==
  /\ pc[t] = "locked"
  /\ locks' = [locks EXCEPT ![Root(t)] = @ \ {NewLock(t)}]
  /\ guard' = [guard EXCEPT ![Process(t)] = NoThread]
  /\ Unwinds(t, held[t])
  /\ UNCHANGED <<ranges, registry, occupied, mode, calls, crashes>>

-----------------------------------------------------------------------------
(* Release: the exit stack closes the leases from the latest to the first,  *)
(* after the work is done or when a later acquisition failed.               *)

VacatedNever(o, l) == o
Vacated(o, l) == o \ Slot(l)

Close(t) ==
  LET l == Last(held[t]) IN
    /\ pc[t] \in {"held", "closing"}
    /\ held[t] # <<>>
    /\ guard[Process(t)] = NoThread
    /\ locks' = [locks EXCEPT ![l.root] =
                   @ \ {LockOf(t, Len(held[t]), l.range)}]
    /\ registry' = [registry EXCEPT ![Process(t)][l.root][l.mode] = @ - 1]
    /\ occupied' = [occupied EXCEPT ![Process(t)][l.root] = Vacated(@, l)]
    /\ Unwinds(t, Front(held[t]))
    /\ UNCHANGED <<ranges, guard, mode, calls, crashes>>

(* A process is killed: the operating system gives its locks back.          *)
Crash(p) ==
  LET dead == {t \in Threads : ProcessOf[t] = p} IN
    /\ crashes < MaxCrashes
    /\ crashes' = crashes + 1
    /\ registry' = [registry EXCEPT ![p] = [r \in Roots |-> Free]]
    /\ occupied' = [occupied EXCEPT ![p] = [r \in Roots |-> {}]]
    /\ guard' = [guard EXCEPT ![p] = NoThread]
    /\ locks' = [r \in Roots |-> {l \in locks[r] : l.owner \notin dead}]
    /\ pc' = [t \in Threads |-> IF t \in dead THEN "idle" ELSE pc[t]]
    /\ todo' = [t \in Threads |-> IF t \in dead THEN <<>> ELSE todo[t]]
    /\ tried' = [t \in Threads |-> IF t \in dead THEN 0 ELSE tried[t]]
    /\ held' = [t \in Threads |-> IF t \in dead THEN <<>> ELSE held[t]]
    /\ UNCHANGED <<ranges, mode, calls>>

Step(t) ==
  \/ Enter(t) \/ EnterBusy(t) \/ TryNext(t) \/ TryLock(t) \/ Fails(t)
  \/ Register(t) \/ Discard(t) \/ Close(t)

Next ==
  \/ \E t \in Threads :
       Step(t) \/ \E m \in Modes, plan \in Plans : Ask(t, m, plan)
  \/ \E p \in Processes : Crash(p)

Spec == Init /\ [][Next]_vars
FairSpec == Spec /\ \A t \in Threads : WF_vars(Step(t))

-----------------------------------------------------------------------------
(* Properties.                                                              *)

Leases(t) == ToSet(held[t])
WritersOf(r) ==
  {t \in Threads : \E l \in Leases(t) : l.root = r /\ l.mode = "writer"}
RetainersOf(r) ==
  {t \in Threads : \E l \in Leases(t) : l.root = r /\ l.mode = "retention"}

(* Variables hold what the source stores in them: acquire_lifecycle and     *)
(* the module's registries.                                                 *)
TypeOK ==
  /\ ranges \in Platforms
  /\ registry \in [Processes -> [Roots -> [Modes -> Nat]]]
  /\ occupied \in [Processes -> [Roots -> SUBSET Ranges]]
  /\ guard \in [Processes -> Threads \union {NoThread}]
  /\ locks \in [Roots -> SUBSET
                 [owner : Threads, handle : Nat, range : Ranges \union {All}]]
  /\ pc \in [Threads ->
              {"idle", "wanting", "trying", "locked", "held", "closing"}]
  /\ mode \in [Threads -> Modes]
  /\ todo \in [Threads -> Seq(Roots)]
  /\ tried \in [Threads -> Nat]
  /\ held \in [Threads -> Seq(Lease)]

(* The lease keeps the promise of RootLease over the roots, whatever        *)
(* platform, process, thread or crash.                                      *)
Promise == INSTANCE RootLease WITH
  writing <- [r \in Roots |-> WritersOf(r)],
  retaining <- [r \in Roots |-> RetainersOf(r)]
ImplementsRootLease == Promise!Spec

(* A retention lease and any other lease on its root never coexist, in one  *)
(* process or in two (acquire_lifecycle, _lock).                            *)
Exclusive ==
  \A r \in Roots : \A t \in RetainersOf(r) :
    RetainersOf(r) = {t} /\ WritersOf(r) = {}

(* The registry says what the process holds, no less and no more: an entry  *)
(* that stayed behind would refuse retention, or a slot, until the process  *)
(* ends (LifecycleLease.close, and the rollback of acquire_lifecycle).      *)
OfProcess(p) == {t \in Threads : ProcessOf[t] = p}
HeldBy(p, r, m) ==
  UNION {{t} \X {i \in DOMAIN held[t] : held[t][i].root = r /\ held[t][i].mode = m} :
         t \in OfProcess(p)}
RegistryExact ==
  \A p \in Processes, r \in Roots :
    /\ occupied[p][r] =
         UNION {Slot(held[x[1]][x[2]]) : x \in HeldBy(p, r, "writer")}
    /\ \A m \in Modes : registry[p][r][m] = Cardinality(HeldBy(p, r, m))

(* A call that began comes to its end, with the leases it took given back.  *)
CallsEnd == \A t \in Threads : pc[t] # "idle" ~> pc[t] = "idle"
=============================================================================
