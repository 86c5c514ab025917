----------------------------- MODULE PolicyLock -----------------------------
(* policy_lock.py and the two that use it: ConfigurationStore.update, and   *)
(* the removal of a file by retention.  Threads of one process wait for     *)
(* each other under a condition, processes under a lock of the file.        *)
EXTENDS Naturals

CONSTANTS
  Processes, Threads, ProcessOf, NoThread,
  Changes,      \* bound: the updates called, one of each
  MaxRemovals,  \* bound: removals called
  MaxCrashes    \* bound: processes killed

ASSUME ThreadsAssumption ==
  /\ ProcessOf \in [Threads -> Processes]
  /\ NoThread \notin Threads
ASSUME BoundsAssumption == MaxRemovals \in Nat /\ MaxCrashes \in Nat

VARIABLES
  owner,      \* _owners, per process
  file,       \* whose descriptor has the lock of the operating system
  config,     \* the document in place, as the changes it has
  confirmed,  \* the changes whose update returned
  authority,  \* the documents on which removals acted
  pc,
  seen,       \* the document a thread has read
  change,     \* what an update adds; {} for a removal
  asked, removals, crashes

vars == <<owner, file, config, confirmed, authority, pc, seen, change, asked,
          removals, crashes>>
data == <<config, confirmed, authority>>
bounds == <<asked, removals, crashes>>

Init ==
  /\ owner = [p \in Processes |-> NoThread]
  /\ file = NoThread
  /\ config = {}
  /\ confirmed = {}
  /\ authority = {}
  /\ pc = [t \in Threads |-> "idle"]
  /\ seen = [t \in Threads |-> {}]
  /\ change = [t \in Threads |-> {}]
  /\ asked = {}
  /\ removals = 0
  /\ crashes = 0

Process(t) == ProcessOf[t]
Goes(t, from, to) == pc[t] = from /\ pc' = [pc EXCEPT ![t] = to]
Updates(t) == change[t] # {}

-----------------------------------------------------------------------------
(* The calls.  A removal was authorised by a document read before.          *)

Update(t, c) ==
  /\ c \notin asked
  /\ Goes(t, "idle", "asking")
  /\ change' = [change EXCEPT ![t] = {c}]
  /\ asked' = asked \union {c}
  /\ UNCHANGED <<owner, file, data, seen, removals, crashes>>

Removal(t) ==
  /\ removals < MaxRemovals
  /\ Goes(t, "idle", "asking")
  /\ change' = [change EXCEPT ![t] = {}]
  /\ seen' = [seen EXCEPT ![t] = config]
  /\ removals' = removals + 1
  /\ UNCHANGED <<owner, file, data, asked, crashes>>

-----------------------------------------------------------------------------
(* policy_lock.                                                             *)

Take(t) ==
  /\ Goes(t, "asking", "locking")
  /\ owner[Process(t)] = NoThread
  /\ owner' = [owner EXCEPT ![Process(t)] = t]
  /\ UNCHANGED <<file, data, seen, change, bounds>>

Wait(t) ==
  /\ Goes(t, "asking", "waiting")
  /\ owner[Process(t)] # NoThread
  /\ UNCHANGED <<owner, file, data, seen, change, bounds>>

FileFreeAnyway == TRUE
FileFree == file = NoThread

Lock(t) ==
  /\ Goes(t, "locking", "inside")
  /\ FileFree
  /\ file' = t
  /\ UNCHANGED <<owner, data, seen, change, bounds>>

(* The lock file is replaced, redirected or unreadable; the document is not *)
(* valid; the change is refused; the temporary cannot be written.           *)
Raises(t) ==
  /\ pc[t] \in {"locking", "inside", "loaded", "checked", "committed"}
  /\ pc' = [pc EXCEPT ![t] = "closing"]
  /\ UNCHANGED <<owner, file, data, seen, change, bounds>>

(* The descriptor is closed first, and its lock with it.                    *)
CloseFile(t) ==
  /\ Goes(t, "closing", "leaving")
  /\ file' = IF file = t THEN NoThread ELSE file
  /\ UNCHANGED <<owner, data, seen, change, bounds>>

WokenNever(p) == {}
Woken(p) == {t \in Threads : ProcessOf[t] = p /\ pc[t] = "waiting"}

Leave(t) ==
  /\ pc[t] = "leaving"
  /\ owner' = [owner EXCEPT ![Process(t)] = NoThread]
  /\ pc' = [u \in Threads |->
              IF u = t THEN "idle"
              ELSE IF u \in Woken(Process(t)) THEN "asking" ELSE pc[u]]
  /\ UNCHANGED <<file, data, seen, change, bounds>>

-----------------------------------------------------------------------------
(* What happens inside.                                                     *)

Load(t) ==
  /\ Updates(t)
  /\ Goes(t, "inside", "loaded")
  /\ seen' = [seen EXCEPT ![t] = config]
  /\ UNCHANGED <<owner, file, data, change, bounds>>

(* The temporary is complete; write_document enters the lock again, nested, *)
(* and replaces the document.                                               *)
Commit(t) ==
  /\ Goes(t, "loaded", "committed")
  /\ owner[Process(t)] = t
  /\ config' = seen[t] \union change[t]
  /\ UNCHANGED <<owner, file, confirmed, authority, seen, change, bounds>>

(* The directory is flushed as well, and nothing raises any more.           *)
Confirm(t) ==
  /\ Goes(t, "committed", "closing")
  /\ confirmed' = confirmed \union change[t]
  /\ UNCHANGED <<owner, file, config, authority, seen, change, bounds>>

(* check_policy: the document has to be the one that authorised the run.    *)
SamePolicy(t) == config = seen[t]

Check(t) ==
  /\ ~Updates(t)
  /\ pc[t] = "inside"
  /\ pc' = [pc EXCEPT ![t] = IF SamePolicy(t) THEN "checked" ELSE "closing"]
  /\ UNCHANGED <<owner, file, data, seen, change, bounds>>

Remove(t) ==
  /\ Goes(t, "checked", "closing")
  /\ authority' = authority \union {seen[t]}
  /\ UNCHANGED <<owner, file, config, confirmed, seen, change, bounds>>

Crash(p) ==
  LET dead == {t \in Threads : ProcessOf[t] = p} IN
    /\ crashes < MaxCrashes
    /\ crashes' = crashes + 1
    /\ owner' = [owner EXCEPT ![p] = NoThread]
    /\ file' = IF file \in dead THEN NoThread ELSE file
    /\ pc' = [t \in Threads |-> IF t \in dead THEN "idle" ELSE pc[t]]
    /\ UNCHANGED <<data, seen, change, asked, removals>>

Step(t) ==
  \/ Take(t) \/ Wait(t) \/ Lock(t) \/ Raises(t) \/ CloseFile(t)
  \/ Leave(t) \/ Load(t) \/ Commit(t) \/ Confirm(t) \/ Check(t) \/ Remove(t)

Next ==
  \/ \E t \in Threads :
       Step(t) \/ Removal(t) \/ \E c \in Changes : Update(t, c)
  \/ \E p \in Processes : Crash(p)

Spec == Init /\ [][Next]_vars
FairSpec == Spec /\ \A t \in Threads : WF_vars(Step(t))

-----------------------------------------------------------------------------
(* Properties.                                                              *)

(* Updates are atomic and none is undone by another process's; a removal    *)
(* acts on the document in force (policy_lock, ConfigurationStore.update,   *)
(* and the removal's own check of the policy).                              *)
Register == INSTANCE PolicyRegister
ImplementsPolicyRegister == Register!Spec

(* Whoever waits gets in, and whoever is in gets out: the cleanup never     *)
(* leaves an owner or a sleeper behind (policy_lock's finally).             *)
CallsEnd == \A t \in Threads : pc[t] # "idle" ~> pc[t] = "idle"

(* Inside is one thread, of all processes.                                  *)
Inside(t) == pc[t] \in {"inside", "loaded", "committed", "checked"}
OneInside == \A t, u \in Threads : Inside(t) /\ Inside(u) => t = u
=============================================================================
