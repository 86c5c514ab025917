-------------------------- MODULE PolicyLockProofs --------------------------
(* For any threads and processes: the lock lets one thread in at a time,    *)
(* and what is done inside is what PolicyRegister promises.                 *)
EXTENDS PolicyLock, TLAPS

Waiting == {"idle", "asking", "waiting"}
Within == {"inside", "loaded", "committed", "checked"}
Owning == Within \union {"locking", "closing", "leaving"}

(* What the variables hold; an update adds one change.                      *)
Typed ==
  /\ owner \in [Processes -> Threads \union {NoThread}]
  /\ file \in Threads \union {NoThread}
  /\ pc \in [Threads -> Waiting \union Owning]
  /\ DOMAIN seen = Threads
  /\ change \in [Threads -> {{}} \union {{c} : c \in Changes}]

(* The process's owner until the cleanup has ended, and the holder of the   *)
(* file's lock while inside.                                                *)
Owned == \A t \in Threads : pc[t] \in Owning => owner[Process(t)] = t
Locked == \A t \in Threads : Inside(t) => file = t

(* What was read inside is still in place when it is acted on.              *)
Current == \A t \in Threads : pc[t] \in {"loaded", "checked"} => seen[t] = config
Made ==
  \A t \in Threads :
    /\ pc[t] \in {"loaded", "committed"} => change[t] # {}
    /\ pc[t] = "committed" => change[t] \subseteq config

IInv == Typed /\ Owned /\ Locked /\ Current /\ Made

LEMMA InitIInv == Init => IInv
  BY ThreadsAssumption
  DEF Init, IInv, Typed, Owned, Locked, Current, Made, Inside, Waiting, Within,
      Owning

(* Every action writes values of the right kind.                            *)
LEMMA TypedStep == IInv /\ [Next]_vars => Typed'
<1> SUFFICES ASSUME IInv, [Next]_vars PROVE Typed'
  OBVIOUS
<1> USE ThreadsAssumption DEF IInv, Typed, Waiting, Within, Owning, Process
<1>1. ASSUME NEW t \in Threads, NEW c \in Changes, Update(t, c) PROVE Typed'
  BY <1>1 DEF Update, Goes, data
<1>2. ASSUME NEW t \in Threads, Removal(t) PROVE Typed'
  BY <1>2 DEF Removal, Goes, data
<1>3. ASSUME NEW t \in Threads, Step(t) PROVE Typed'
  <2>1. CASE Take(t)
    BY <2>1 DEF Take, Goes, data, bounds
  <2>2. CASE Wait(t)
    BY <2>2 DEF Wait, Goes, data, bounds
  <2>3. CASE Lock(t)
    BY <2>3 DEF Lock, Goes, data, bounds
  <2>4. CASE Raises(t)
    BY <2>4 DEF Raises, data, bounds
  <2>5. CASE CloseFile(t)
    BY <2>5 DEF CloseFile, Goes, data, bounds
  <2>6. CASE Leave(t)
    BY <2>6 DEF Leave, data, bounds
  <2>7. CASE Load(t)
    BY <2>7 DEF Load, Goes, data, bounds
  <2>8. CASE Commit(t)
    BY <2>8 DEF Commit, Goes, bounds
  <2>9. CASE Confirm(t)
    BY <2>9 DEF Confirm, Goes, bounds
  <2>10. CASE Check(t)
    BY <2>10 DEF Check, data, bounds
  <2>11. CASE Remove(t)
    BY <2>11 DEF Remove, Goes, bounds
  <2> QED
    BY <1>3, <2>1, <2>2, <2>3, <2>4, <2>5, <2>6, <2>7, <2>8, <2>9, <2>10, <2>11
    DEF Step
<1>4. ASSUME NEW p \in Processes, Crash(p) PROVE Typed'
  BY <1>4 DEF Crash, data
<1>5. CASE UNCHANGED vars
  BY <1>5 DEF vars
<1> QED
  BY <1>1, <1>2, <1>3, <1>4, <1>5 DEF Next

(* A thread becomes the owner only when there is none, and stops only at    *)
(* the end of its cleanup, or when it dies with its process.                *)
LEMMA OwnedStep == IInv /\ [Next]_vars => Owned'
<1> SUFFICES ASSUME IInv, [Next]_vars, NEW u \in Threads, pc'[u] \in Owning
             PROVE  owner'[Process(u)] = u
  BY DEF Owned, Process
<1> USE ThreadsAssumption
    DEF IInv, Typed, Owned, Waiting, Within, Owning, Process
<1>1. ASSUME NEW t \in Threads, NEW c \in Changes, Update(t, c)
      PROVE owner'[Process(u)] = u
  BY <1>1 DEF Update, Goes, data
<1>2. ASSUME NEW t \in Threads, Removal(t) PROVE owner'[Process(u)] = u
  BY <1>2 DEF Removal, Goes, data
<1>3. ASSUME NEW t \in Threads, Step(t) PROVE owner'[Process(u)] = u
  <2>1. CASE Take(t)
    BY <2>1 DEF Take, Goes, data, bounds
  <2>2. CASE Wait(t)
    BY <2>2 DEF Wait, Goes, data, bounds
  <2>3. CASE Lock(t)
    BY <2>3 DEF Lock, Goes, data, bounds
  <2>4. CASE Raises(t)
    BY <2>4 DEF Raises, data, bounds
  <2>5. CASE CloseFile(t)
    BY <2>5 DEF CloseFile, Goes, data, bounds
  <2>6. CASE Leave(t)
    BY <2>6 DEF Leave, Woken, data, bounds
  <2>7. CASE Load(t)
    BY <2>7 DEF Load, Goes, data, bounds
  <2>8. CASE Commit(t)
    BY <2>8 DEF Commit, Goes, bounds
  <2>9. CASE Confirm(t)
    BY <2>9 DEF Confirm, Goes, bounds
  <2>10. CASE Check(t)
    BY <2>10 DEF Check, data, bounds
  <2>11. CASE Remove(t)
    BY <2>11 DEF Remove, Goes, bounds
  <2> QED
    BY <1>3, <2>1, <2>2, <2>3, <2>4, <2>5, <2>6, <2>7, <2>8, <2>9, <2>10, <2>11
    DEF Step
<1>4. ASSUME NEW p \in Processes, Crash(p) PROVE owner'[Process(u)] = u
  BY <1>4 DEF Crash, data
<1>5. CASE UNCHANGED vars
  BY <1>5 DEF vars
<1> QED
  BY <1>1, <1>2, <1>3, <1>4, <1>5 DEF Next

(* The file's lock is granted to one thread, and given back after the rest. *)
LEMMA LockedStep == IInv /\ [Next]_vars => Locked'
<1> SUFFICES ASSUME IInv, [Next]_vars, NEW u \in Threads, Inside(u)'
             PROVE  file' = u
  BY DEF Locked
<1> USE ThreadsAssumption
    DEF IInv, Typed, Locked, Inside, Waiting, Within, Owning, Process
<1>1. ASSUME NEW t \in Threads, NEW c \in Changes, Update(t, c)
      PROVE  file' = u
  BY <1>1 DEF Update, Goes, data
<1>2. ASSUME NEW t \in Threads, Removal(t) PROVE file' = u
  BY <1>2 DEF Removal, Goes, data
<1>3. ASSUME NEW t \in Threads, Step(t) PROVE file' = u
  <2>1. CASE Take(t)
    BY <2>1 DEF Take, Goes, data, bounds
  <2>2. CASE Wait(t)
    BY <2>2 DEF Wait, Goes, data, bounds
  <2>3. CASE Lock(t)
    BY <2>3 DEF Lock, FileFree, Goes, data, bounds
  <2>4. CASE Raises(t)
    BY <2>4 DEF Raises, data, bounds
  <2>5. CASE CloseFile(t)
    BY <2>5 DEF CloseFile, Goes, data, bounds
  <2>6. CASE Leave(t)
    BY <2>6 DEF Leave, Woken, data, bounds
  <2>7. CASE Load(t)
    BY <2>7 DEF Load, Updates, Goes, data, bounds
  <2>8. CASE Commit(t)
    BY <2>8 DEF Commit, Goes, bounds
  <2>9. CASE Confirm(t)
    BY <2>9 DEF Confirm, Goes, bounds
  <2>10. CASE Check(t)
    BY <2>10 DEF Check, SamePolicy, Updates, data, bounds
  <2>11. CASE Remove(t)
    BY <2>11 DEF Remove, Goes, bounds
  <2> QED
    BY <1>3, <2>1, <2>2, <2>3, <2>4, <2>5, <2>6, <2>7, <2>8, <2>9, <2>10, <2>11
    DEF Step
<1>4. ASSUME NEW p \in Processes, Crash(p) PROVE file' = u
  BY <1>4 DEF Crash, data
<1>5. CASE UNCHANGED vars
  BY <1>5 DEF vars
<1> QED
  BY <1>1, <1>2, <1>3, <1>4, <1>5 DEF Next

(* Only who is inside changes the document, and nobody else is then.        *)
LEMMA CurrentStep == IInv /\ [Next]_vars => Current'
<1> SUFFICES ASSUME IInv, [Next]_vars, NEW u \in Threads,
                    pc'[u] \in {"loaded", "checked"}
             PROVE  seen'[u] = config'
  BY DEF Current
<1> USE ThreadsAssumption
    DEF IInv, Typed, Locked, Current, Inside, Waiting, Within, Owning, Process
<1>1. ASSUME NEW t \in Threads, NEW c \in Changes, Update(t, c)
      PROVE  seen'[u] = config'
  BY <1>1 DEF Update, Goes, data
<1>2. ASSUME NEW t \in Threads, Removal(t) PROVE seen'[u] = config'
  BY <1>2 DEF Removal, Goes, data
<1>3. ASSUME NEW t \in Threads, Step(t) PROVE seen'[u] = config'
  <2>1. CASE Take(t)
    BY <2>1 DEF Take, Goes, data, bounds
  <2>2. CASE Wait(t)
    BY <2>2 DEF Wait, Goes, data, bounds
  <2>3. CASE Lock(t)
    BY <2>3 DEF Lock, FileFree, Goes, data, bounds
  <2>4. CASE Raises(t)
    BY <2>4 DEF Raises, data, bounds
  <2>5. CASE CloseFile(t)
    BY <2>5 DEF CloseFile, Goes, data, bounds
  <2>6. CASE Leave(t)
    BY <2>6 DEF Leave, Woken, data, bounds
  <2>7. CASE Load(t)
    BY <2>7 DEF Load, Updates, Goes, data, bounds
  <2>8. CASE Commit(t)
    BY <2>8 DEF Commit, Goes, bounds
  <2>9. CASE Confirm(t)
    BY <2>9 DEF Confirm, Goes, bounds
  <2>10. CASE Check(t)
    BY <2>10 DEF Check, SamePolicy, Updates, data, bounds
  <2>11. CASE Remove(t)
    BY <2>11 DEF Remove, Goes, bounds
  <2> QED
    BY <1>3, <2>1, <2>2, <2>3, <2>4, <2>5, <2>6, <2>7, <2>8, <2>9, <2>10, <2>11
    DEF Step
<1>4. ASSUME NEW p \in Processes, Crash(p) PROVE seen'[u] = config'
  BY <1>4 DEF Crash, data
<1>5. CASE UNCHANGED vars
  BY <1>5 DEF vars
<1> QED
  BY <1>1, <1>2, <1>3, <1>4, <1>5 DEF Next

(* For the same reason a committed change is there until it is confirmed.   *)
LEMMA MadeStep == IInv /\ [Next]_vars => Made'
<1> DEFINE Good(u) ==
      /\ pc[u] \in {"loaded", "committed"} => change[u] # {}
      /\ pc[u] = "committed" => change[u] \subseteq config
<1> SUFFICES ASSUME IInv, [Next]_vars, NEW u \in Threads PROVE Good(u)'
  BY DEF Made
<1> USE ThreadsAssumption
    DEF IInv, Typed, Locked, Made, Inside, Waiting, Within, Owning, Process
<1>1. ASSUME NEW t \in Threads, NEW c \in Changes, Update(t, c)
      PROVE  Good(u)'
  BY <1>1 DEF Update, Goes, data
<1>2. ASSUME NEW t \in Threads, Removal(t) PROVE Good(u)'
  BY <1>2 DEF Removal, Goes, data
<1>3. ASSUME NEW t \in Threads, Step(t) PROVE Good(u)'
  <2>1. CASE Take(t)
    BY <2>1 DEF Take, Goes, data, bounds
  <2>2. CASE Wait(t)
    BY <2>2 DEF Wait, Goes, data, bounds
  <2>3. CASE Lock(t)
    BY <2>3 DEF Lock, FileFree, Goes, data, bounds
  <2>4. CASE Raises(t)
    BY <2>4 DEF Raises, data, bounds
  <2>5. CASE CloseFile(t)
    BY <2>5 DEF CloseFile, Goes, data, bounds
  <2>6. CASE Leave(t)
    BY <2>6 DEF Leave, Woken, data, bounds
  <2>7. CASE Load(t)
    BY <2>7 DEF Load, Updates, Goes, data, bounds
  <2>8. CASE Commit(t)
    BY <2>8 DEF Commit, Goes, bounds
  <2>9. CASE Confirm(t)
    BY <2>9 DEF Confirm, Goes, bounds
  <2>10. CASE Check(t)
    BY <2>10 DEF Check, SamePolicy, Updates, data, bounds
  <2>11. CASE Remove(t)
    BY <2>11 DEF Remove, Goes, bounds
  <2> QED
    BY <1>3, <2>1, <2>2, <2>3, <2>4, <2>5, <2>6, <2>7, <2>8, <2>9, <2>10, <2>11
    DEF Step
<1>4. ASSUME NEW p \in Processes, Crash(p) PROVE Good(u)'
  BY <1>4 DEF Crash, data
<1>5. CASE UNCHANGED vars
  BY <1>5 DEF vars
<1> QED
  BY <1>1, <1>2, <1>3, <1>4, <1>5 DEF Next

(* Whoever is inside has the file lock, and the document it read is the one *)
(* on disk until it replaces it (policy_lock, ConfigurationStore.update).   *)
THEOREM Invariance == Spec => []IInv
<1>1. IInv /\ [Next]_vars => IInv'
  BY TypedStep, OwnedStep, LockedStep, CurrentStep, MadeStep DEF IInv
<1> QED
  BY InitIInv, <1>1, PTL DEF Spec

(* Of all threads of all processes one at most is inside (policy_lock).     *)
THEOREM Exclusion == Spec => []OneInside
<1>1. IInv => OneInside
  BY DEF IInv, Locked, OneInside
<1> QED
  BY Invariance, <1>1, PTL

-----------------------------------------------------------------------------
(* The refinement: Commit is the register's change, Confirm its             *)
(* confirmation, Remove its removal; every other step leaves it alone.      *)

LEMMA CommitChanges ==
  ASSUME IInv, NEW t \in Threads, Commit(t)
  PROVE  \E c \in Changes : Register!Change(c)
<1>1. PICK c \in Changes : change[t] = {c}
  BY DEF IInv, Typed, Made, Commit, Goes
<1>2. seen[t] = config
  BY DEF IInv, Current, Commit, Goes
<1> QED
  BY <1>1, <1>2 DEF Commit, Register!Change

LEMMA ConfirmConfirms ==
  ASSUME IInv, NEW t \in Threads, Confirm(t)
  PROVE  \E c \in Changes : Register!Confirm(c)
<1>1. PICK c \in Changes : change[t] = {c}
  BY DEF IInv, Typed, Made, Confirm, Goes
<1>2. c \in config
  BY <1>1 DEF IInv, Made, Confirm, Goes
<1> QED
  BY <1>1, <1>2 DEF Confirm, Register!Confirm

LEMMA RemoveRemoves ==
  ASSUME IInv, NEW t \in Threads, Remove(t)
  PROVE  Register!Remove
BY DEF IInv, Current, Remove, Goes, Register!Remove

LEMMA StepSimulates ==
  IInv /\ [Next]_vars => [Register!Next]_(Register!register)
<1> SUFFICES ASSUME IInv, [Next]_vars
             PROVE  Register!Next \/ UNCHANGED data
  BY DEF data, Register!register
<1>1. ASSUME NEW t \in Threads, Step(t) PROVE Register!Next \/ UNCHANGED data
  <2>1. CASE Commit(t)
    BY <2>1, CommitChanges DEF Register!Next
  <2>2. CASE Confirm(t)
    BY <2>2, ConfirmConfirms DEF Register!Next
  <2>3. CASE Remove(t)
    BY <2>3, RemoveRemoves DEF Register!Next
  <2>4. CASE ~(Commit(t) \/ Confirm(t) \/ Remove(t))
    BY <1>1, <2>4
    DEF Step, Take, Wait, Lock, Raises, CloseFile, Leave, Load, Check
  <2> QED
    BY <2>1, <2>2, <2>3, <2>4
<1>2. ASSUME NEW t \in Threads, Removal(t) \/ \E c \in Changes : Update(t, c)
      PROVE  UNCHANGED data
  BY <1>2 DEF Removal, Update
<1>3. ASSUME NEW p \in Processes, Crash(p) PROVE UNCHANGED data
  BY <1>3 DEF Crash
<1>4. CASE UNCHANGED vars
  BY <1>4 DEF vars, data
<1> QED
  BY <1>1, <1>2, <1>3, <1>4 DEF Next

(* policy_lock with its users implements the register: no update is torn or *)
(* lost to another, and no removal acts on a document that was replaced.    *)
THEOREM Implementation == Spec => ImplementsPolicyRegister
<1>1. Init => Register!Init
  BY DEF Init, Register!Init
<1> QED
  BY <1>1, Invariance, StepSimulates, PTL
  DEF Spec, ImplementsPolicyRegister, Register!Spec

(* So an update that returned stays in the document.                        *)
THEOREM UpdatesKept == Spec => []Register!Kept
<1>1. Register!Init => Register!Kept
  BY DEF Register!Init, Register!Kept
<1>2. Register!Kept /\ [Register!Next]_(Register!register) => Register!Kept'
  BY DEF Register!Kept, Register!Next, Register!register, Register!Change,
         Register!Confirm, Register!Remove
<1> QED
  BY <1>1, <1>2, Implementation, PTL
  DEF ImplementsPolicyRegister, Register!Spec
=============================================================================
