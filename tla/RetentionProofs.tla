--------------------------- MODULE RetentionProofs ---------------------------
(* For any runs, artifacts and policies: an object goes only as the owner   *)
(* was shown it, under the policy in force and with the root to itself,     *)
(* what a run reports is what happened, and the lines of the journal are    *)
(* always a history that the next run accepts.                              *)
EXTENDS Retention, SequenceTheorems, WellFoundedInduction, TLAPS

Places == {"path", "private", "gone"}
Events == {"intent", "attempt", "deleted", "failed", "completed"}
Lines == [event : Events, run : Runs, item : Int]
Snapshots == [policy : Policies, others : Int, version : [Items -> Int]]

(* The phases of a run, each a part of the one before.                      *)
Deleting == {"deleting"}
Proved == {"authorising"} \union Deleting
Moved == {"proving"} \union Proved
Checked == {"moving"} \union Moved
Announced == {"rechecking"} \union Checked
Clean ==
  {"intent", "checking", "attempting", "recording", "completing"} \union Announced
Agreed == {"opening", "failing", "failed"} \union Clean
Holding == {"observing", "confirming", "leaving"} \union Agreed
Phases == {"idle", "asked", "ended"} \union Holding
Counting == {"confirming", "opening"} \union (Clean \ {"completing"})

Typed ==
  /\ place \in [Items -> Places]
  /\ version \in [Items -> Int]
  /\ taker \in [Items -> Runs \union {NoRun}]
  /\ others \in Int
  /\ policy \in Policies
  /\ writing \in [{Root} -> SUBSET (Runs \union {Worker})]
  /\ retaining \in [{Root} -> SUBSET (Runs \union {Worker})]
  /\ audit \in Seq(Lines)
  /\ pc \in [Runs -> Phases]
  /\ guard \in [Runs -> Snapshots]
  /\ auth \in [Runs -> Snapshots]
  /\ index \in [Runs -> Int]

(* A worker that records has its lease.                                     *)
Leased == worker = "working" => Worker \in writing[Root]

Alone(o) == writing[Root] = {} /\ retaining[Root] = {o}
Counted(o) == index[o] \in Items
Attempted(o) == audit # <<>> /\ Last(audit) = Record("attempt", o, index[o])
InOrder(o) ==
  others = auth[o].others /\ \A j \in 1 .. (index[o] - 1) : place[j] = "gone"
Private(o) == place[index[o]] = "private" /\ taker[index[o]] = o
SameBytes(o) == version[index[o]] = auth[o].version[index[o]]
InForce(o) ==
  holder = o /\ policy = auth[o].policy /\ policy \in Authorising

(* What a run has made sure of in each of its phases.                       *)
Sure(o) ==
  /\ pc[o] \in Holding => Alone(o)
  /\ pc[o] \in Agreed => auth[o] = guard[o]
  /\ pc[o] \in Counting => Counted(o)
  /\ pc[o] \in Clean => ~torn
  /\ pc[o] \in Announced => Attempted(o)
  /\ pc[o] \in Checked => InOrder(o)
  /\ pc[o] \in Moved => Private(o)
  /\ pc[o] \in Proved => SameBytes(o)
  /\ pc[o] \in Deleting => InForce(o)

IInv == Typed /\ Leased /\ \A o \in Runs : Sure(o)

-----------------------------------------------------------------------------
(* Types.                                                                   *)

LEMMA LastOfAppend ==
  ASSUME NEW S, NEW s \in Seq(S), NEW x \in S
  PROVE  Append(s, x) \in Seq(S) /\ Append(s, x) # <<>> /\ Last(Append(s, x)) = x
<1>1. /\ Append(s, x) \in Seq(S) /\ Len(Append(s, x)) = Len(s) + 1
      /\ Append(s, x)[Len(s) + 1] = x /\ Len(s) \in Nat
  BY AppendProperties
<1>2. Append(s, x) # <<>>
  BY <1>1, EmptySeq
<1> QED
  BY <1>1, <1>2 DEF Last

LEMMA SnapshotType == Typed => Snapshot \in Snapshots
  BY DEF Typed, Snapshot, Snapshots

LEMMA WrittenType ==
  ASSUME Typed, NEW r \in Lines, Synced(r) \/ AppendFails(r)
  PROVE  audit' \in Seq(Lines)
<1>1. audit' = audit \/ audit' = Append(audit, r)
  BY DEF Synced, AppendFails, Unsynced, NotWritten, Written, Unwritten,
         TornOff, journal
<1>2. audit \in Seq(Lines)
  BY DEF Typed
<1> QED
  BY <1>1, <1>2, LastOfAppend

LEMMA RecordType ==
  ASSUME NEW e \in Events, NEW o \in Runs, NEW i \in Int
  PROVE  Record(e, o, i) \in Lines
BY DEF Record, Lines

-----------------------------------------------------------------------------
(* A run that is not the holder of the root can do nothing to the one that  *)
(* is.                                                                      *)

LEMMA OneHolds ==
  ASSUME IInv, NEW o \in Runs, NEW u \in Runs, o # u, pc[u] \in Holding
  PROVE  pc[o] \in {"idle", "asked", "ended"}
<1>1. pc[o] \notin Holding
  BY DEF IInv, Sure, Alone
<1> QED
  BY <1>1 DEF IInv, Typed, Phases

LEMMA Included ==
  /\ Deleting \subseteq Proved /\ Proved \subseteq Moved /\ Moved \subseteq Checked
  /\ Checked \subseteq Announced /\ Announced \subseteq Clean
  /\ Clean \subseteq Agreed /\ Agreed \subseteq Holding
  /\ Announced \subseteq Counting /\ Counting \subseteq Holding /\ Holding \subseteq Phases
BY DEF Deleting, Proved, Moved, Checked, Announced, Clean, Agreed, Holding,
       Counting, Phases

(* What a run is sure of stays so while nothing it looks at changes.        *)
LEMMA StaysSure ==
  ASSUME IInv, NEW u \in Runs,
         UNCHANGED <<pc[u], auth[u], guard[u], index[u]>>,
         pc[u] \in Holding =>
           /\ Alone(u)'
           /\ UNCHANGED <<place, taker, others, audit, torn>>
           /\ \A i \in Items : place[i] # "path" => version'[i] = version[i]
           /\ holder = u => UNCHANGED <<holder, policy>>
  PROVE  Sure(u)'
<1>1. CASE pc[u] \notin Holding
  BY <1>1, Included DEF Sure
<1>2. CASE pc[u] \in Holding
  <2> USE <1>2
  <2>1. Sure(u)
    BY DEF IInv
  <2>2. pc[u] \in Proved => SameBytes(u)'
    BY <2>1, Included DEF Sure, SameBytes, Private, Counted
  <2>3. pc[u] \in Deleting => InForce(u)'
    BY <2>1 DEF Sure, InForce
  <2> QED
    BY <2>1, <2>2, <2>3 DEF Sure, Counted, Attempted, InOrder, Private
<1> QED
  BY <1>1, <1>2

LEMMA Bystander ==
  ASSUME IInv, NEW o \in Runs, NEW u \in Runs, o # u,
         Step(o) \/ Decline(o) \/ Die(o)
  PROVE  Sure(u)'
<1>1. UNCHANGED <<pc[u], auth[u], guard[u], index[u]>>
  BY DEF IInv, Typed, Step, Preview, TakeLease, Observe, Confirm, OpenAudit, Intent,
         Check, Attempt, Recheck, Move, Prove, Authorise, Delete, RecordDeleted,
         RecordFailed, Complete, Leave, Decline, Die, Ends, Goes, Refuses
<1>2. ASSUME pc[u] \in Holding
      PROVE  /\ Alone(u)'
             /\ UNCHANGED <<place, taker, others, audit, torn, version, policy>>
             /\ holder = u => holder' = holder
  <2>1. pc[o] \in {"idle", "asked", "ended"} /\ Alone(u)
    BY <1>2, OneHolds DEF IInv, Sure
  <2>2. \/ Preview(o) \/ TakeLease(o) \/ Decline(o)
        \/ Die(o) /\ pc[o] = "asked"
    BY <2>1
    DEF Step, Observe, Confirm, OpenAudit, Intent, Check, Attempt, Recheck, Move,
        Prove, Authorise, Delete, RecordDeleted, RecordFailed, Complete, Leave,
        Goes, Die
  <2>3. CASE Preview(o) \/ Decline(o)
    BY <2>1, <2>3
    DEF Preview, Decline, artifacts, service, world, leases, journal, Alone
  <2>4. CASE TakeLease(o)
    <3>1. ~Lease!GrantRetention(o, Root)
      BY <2>1 DEF Alone, Lease!GrantRetention
    <3> QED
      BY <2>1, <2>4, <3>1
      DEF TakeLease, artifacts, service, world, leases, journal, Alone
  <2>5. CASE Die(o)
    <3>1. /\ writing' = [r \in {Root} |-> writing[r] \ {o}]
          /\ retaining' = [r \in {Root} |-> retaining[r] \ {o}]
      BY <2>5 DEF Die, Lease!Vanish
    <3>2. Alone(u)'
      BY <2>1, <3>1 DEF Alone
    <3>3. UNCHANGED <<place, taker, others, audit, torn, version, policy>>
      BY <2>5 DEF Die, artifacts, service, world, journal
    <3>4. pc[o] # "deleting" /\ (holder = u => holder' = holder)
      BY <2>1, <2>5 DEF Die
    <3> QED
      BY <3>2, <3>3, <3>4
  <2> QED
    BY <2>2, <2>3, <2>4, <2>5
<1> QED
  BY <1>1, <1>2, StaysSure

-----------------------------------------------------------------------------
(* The steps of a run.                                                      *)

LEMMA LeaseSteps ==
  ASSUME Typed, NEW o \in Runs,
         \/ Lease!GrantRetention(o, Root) \/ Lease!GiveBack(o, Root)
         \/ Lease!Vanish({o}) \/ UNCHANGED leases
  PROVE  /\ writing' \in [{Root} -> SUBSET (Runs \union {Worker})]
         /\ retaining' \in [{Root} -> SUBSET (Runs \union {Worker})]
         /\ Worker \in writing[Root] => Worker \in writing'[Root]
BY RunsAssumption
   DEF Typed, Lease!GrantRetention, Lease!GiveBack, Lease!Vanish, leases

LEMMA StepWrites ==
  ASSUME IInv, NEW o \in Runs, Step(o) \/ Decline(o) \/ Die(o)
  PROVE  \/ audit' = audit
         \/ \E e \in Events, i \in Int :
               Synced(Record(e, o, i)) \/ AppendFails(Record(e, o, i))
<1>1. /\ index[o] \in Int /\ index[o] - 1 \in Int /\ 0 \in Int
      /\ "intent" \in Events /\ "attempt" \in Events /\ "deleted" \in Events
      /\ "failed" \in Events /\ "completed" \in Events
  BY DEF IInv, Typed, Events
<1>2. CASE Intent(o)
  <2>1. Synced(Record("intent", o, 0)) \/ AppendFails(Record("intent", o, 0))
    BY <1>2 DEF Intent, AppendFails
  <2> QED
    BY <1>1, <2>1
<1>3. CASE Attempt(o)
  BY <1>1, <1>3 DEF Attempt
<1>4. CASE RecordDeleted(o)
  BY <1>1, <1>4 DEF RecordDeleted
<1>5. CASE RecordFailed(o)
  <2>1. PICK i \in Int :
          Synced(Record("failed", o, i)) \/ AppendFails(Record("failed", o, i))
    BY <1>1, <1>5 DEF RecordFailed
  <2> QED
    BY <1>1, <2>1
<1>6. CASE Complete(o)
  BY <1>1, <1>6 DEF Complete
<1>7. CASE ~(\/ Intent(o) \/ Attempt(o) \/ RecordDeleted(o)
             \/ RecordFailed(o) \/ Complete(o))
  BY <1>7
  DEF Step, Preview, TakeLease, Observe, Confirm, OpenAudit, Check, Recheck,
      Move, Prove, Authorise, Delete, Leave, Decline, Die, journal
<1> QED
  BY <1>2, <1>3, <1>4, <1>5, <1>6, <1>7

LEMMA StepPlaces ==
  ASSUME NEW o \in Runs, Step(o) \/ Decline(o) \/ Die(o), ~(Move(o) \/ Delete(o))
  PROVE  UNCHANGED <<place, taker>>
BY DEF Step, Preview, TakeLease, Observe, Confirm, OpenAudit, Intent, Check, Attempt,
       Recheck, Prove, Authorise, RecordDeleted, RecordFailed, Complete, Leave,
       Decline, Die, artifacts

LEMMA StepTypes ==
  ASSUME IInv, NEW o \in Runs, Step(o) \/ Decline(o) \/ Die(o)
  PROVE  Typed' /\ Leased'
<1>1. /\ UNCHANGED <<version, others, policy, worker>>
      /\ \/ Lease!GrantRetention(o, Root) \/ Lease!GiveBack(o, Root)
         \/ Lease!Vanish({o}) \/ UNCHANGED leases
  BY DEF Step, Preview, TakeLease, Observe, Confirm, OpenAudit, Intent,
         Check, Attempt, Recheck, Move, Prove, Authorise, Delete, RecordDeleted,
         RecordFailed, Complete, Leave, Decline, Die, artifacts, service, world
<1>2. /\ writing' \in [{Root} -> SUBSET (Runs \union {Worker})]
      /\ retaining' \in [{Root} -> SUBSET (Runs \union {Worker})]
      /\ Leased'
  BY <1>1, LeaseSteps DEF IInv, Leased
<1>3. pc' \in [Runs -> Phases]
  <2>1. \E x \in Phases : pc' = [pc EXCEPT ![o] = x]
    BY DEF Step, Preview, TakeLease, Observe, Confirm, OpenAudit, Intent, Check,
           Attempt, Recheck, Move, Prove, Authorise, Delete, RecordDeleted,
           RecordFailed, Complete, Leave, Decline, Die, Ends, Goes, Refuses,
           Deleting, Proved, Moved, Checked, Announced, Clean, Agreed, Holding,
           Phases
  <2> QED
    BY <2>1 DEF IInv, Typed
<1>4. guard' \in [Runs -> Snapshots] /\ auth' \in [Runs -> Snapshots]
  <2>1. Snapshot \in Snapshots
    BY SnapshotType DEF IInv
  <2> QED
    BY <2>1
    DEF IInv, Typed, Step, Preview, TakeLease, Observe, Confirm, OpenAudit, Intent,
        Check, Attempt, Recheck, Move, Prove, Authorise, Delete, RecordDeleted,
        RecordFailed, Complete, Leave, Decline, Die, Refuses
<1>5. index' \in [Runs -> Int]
  BY DEF IInv, Typed, Step, Preview, TakeLease, Observe, Confirm, OpenAudit,
         Intent, Check, Attempt, Recheck, Move, Prove, Authorise, Delete,
         RecordDeleted, RecordFailed, Complete, Leave, Decline, Die, Refuses
<1>6. place' \in [Items -> Places] /\ taker' \in [Items -> Runs \union {NoRun}]
  <2>1. CASE Move(o) \/ Delete(o)
    <3>1. /\ place \in [Items -> Places] /\ taker \in [Items -> Runs \union {NoRun}]
          /\ {"private", "gone"} \subseteq Places
      BY DEF IInv, Typed, Places
    <3>2. place' = place \/ \E x \in Places : place' = [place EXCEPT ![index[o]] = x]
      BY <2>1, <3>1 DEF Move, Delete
    <3>3. taker' = taker \/ taker' = [taker EXCEPT ![index[o]] = o]
      BY <2>1 DEF Move, Delete
    <3> QED
      BY <3>1, <3>2, <3>3
  <2>2. CASE ~(Move(o) \/ Delete(o))
    <3>1. UNCHANGED <<place, taker>>
      BY <2>2, StepPlaces
    <3> QED
      BY <3>1 DEF IInv, Typed
  <2> QED
    BY <2>1, <2>2
<1>7. audit' \in Seq(Lines)
  <2>1. \/ audit' = audit
        \/ \E e \in Events, i \in Int :
              Synced(Record(e, o, i)) \/ AppendFails(Record(e, o, i))
    BY StepWrites
  <2> QED
    BY <2>1, RecordType, WrittenType DEF IInv, Typed
<1> QED
  BY <1>1, <1>2, <1>3, <1>4, <1>5, <1>6, <1>7 DEF IInv, Typed

(* A run that is over, or has not begun, claims nothing.                    *)
LEMMA Outside ==
  ASSUME NEW o \in Runs, pc'[o] \in {"idle", "asked", "ended"}
  PROVE  Sure(o)'
BY DEF Sure, Deleting, Proved, Moved, Checked, Announced, Clean, Agreed, Holding,
       Counting

LEMMA EndsSure ==
  ASSUME IInv, NEW o \in Runs,
         Preview(o) \/ Decline(o) \/ Leave(o) \/ Die(o)
  PROVE  Sure(o)'
<1>1. pc'[o] \in {"idle", "asked", "ended"}
  BY DEF Preview, Decline, Leave, Die, Ends, IInv, Typed
<1> QED
  BY <1>1, Outside

(* The steps that hold the lease and leave it alone, by what they add.      *)
LEMMA HoldsOn ==
  ASSUME IInv, NEW o \in Runs, pc[o] \in Holding, UNCHANGED leases
  PROVE  Alone(o)'
BY DEF IInv, Sure, Alone, leases

LEMMA TakeLeaseSure ==
  ASSUME IInv, NEW o \in Runs, TakeLease(o)
  PROVE  Sure(o)'
<1>1. CASE Lease!GrantRetention(o, Root) /\ Goes(o, "asked", "observing")
  <2>1. pc'[o] = "observing" /\ Alone(o)'
    BY <1>1 DEF Goes, Lease!GrantRetention, IInv, Typed, Alone
  <2> QED
    BY <2>1
    DEF Sure, Deleting, Proved, Moved, Checked, Announced, Clean, Agreed, Holding,
        Counting
<1>2. CASE Ends(o)
  BY <1>2, Outside DEF Ends, IInv, Typed
<1> QED
  BY <1>1, <1>2 DEF TakeLease

LEMMA ObserveSure ==
  ASSUME IInv, NEW o \in Runs, Observe(o)
  PROVE  Sure(o)'
<1>1. Alone(o)'
  BY HoldsOn DEF Observe, Holding
<1>2. CASE pc'[o] = "confirming" /\ index'[o] = 1
  BY <1>1, <1>2, ItemsAssumption
  DEF Sure, Counted, Items, Deleting, Proved, Moved, Checked, Announced, Clean,
      Agreed, Holding, Counting
<1>3. CASE pc'[o] = "leaving"
  BY <1>1, <1>3
  DEF Sure, Deleting, Proved, Moved, Checked, Announced, Clean, Agreed, Holding,
      Counting
<1> QED
  BY <1>2, <1>3 DEF Observe, Refuses, IInv, Typed

LEMMA ConfirmSure ==
  ASSUME IInv, NEW o \in Runs, Confirm(o)
  PROVE  Sure(o)'
<1>1. Alone(o)' /\ Counted(o)
  BY HoldsOn DEF Confirm, IInv, Sure, Holding, Counting
<1>2. CASE pc'[o] = "opening" /\ guard[o] = auth[o] /\ UNCHANGED <<guard, auth, index>>
  BY <1>1, <1>2
  DEF Sure, Counted, Deleting, Proved, Moved, Checked, Announced, Clean, Agreed,
      Holding, Counting
<1>3. CASE pc'[o] = "leaving"
  BY <1>1, <1>3
  DEF Sure, Deleting, Proved, Moved, Checked, Announced, Clean, Agreed, Holding,
      Counting
<1> QED
  BY <1>2, <1>3 DEF Confirm, Unchanged, Goes, Refuses, IInv, Typed

LEMMA OpenAuditSure ==
  ASSUME IInv, NEW o \in Runs, OpenAudit(o)
  PROVE  Sure(o)'
<1>1. /\ Alone(o)' /\ Counted(o) /\ auth[o] = guard[o]
      /\ UNCHANGED <<guard, auth, index, torn>>
  BY HoldsOn DEF OpenAudit, IInv, Sure, Holding, Counting, Agreed, journal
<1>2. CASE pc'[o] = "intent" /\ ~torn
  BY <1>1, <1>2
  DEF Sure, Counted, Deleting, Proved, Moved, Checked, Announced, Clean, Agreed,
      Holding, Counting
<1>3. CASE pc'[o] = "leaving"
  BY <1>1, <1>3
  DEF Sure, Deleting, Proved, Moved, Checked, Announced, Clean, Agreed, Holding,
      Counting
<1> QED
  BY <1>2, <1>3 DEF OpenAudit, IInv, Typed

LEMMA IntentSure ==
  ASSUME IInv, NEW o \in Runs, Intent(o)
  PROVE  Sure(o)'
<1>1. /\ Alone(o)' /\ Counted(o) /\ auth[o] = guard[o] /\ ~torn
      /\ UNCHANGED <<guard, auth, index>>
  BY HoldsOn DEF Intent, IInv, Sure, Holding, Counting, Agreed, Clean
<1>2. CASE pc'[o] = "checking" /\ torn' = torn
  BY <1>1, <1>2
  DEF Sure, Counted, Deleting, Proved, Moved, Checked, Announced, Clean, Agreed,
      Holding, Counting
<1>3. CASE pc'[o] = "leaving"
  BY <1>1, <1>3
  DEF Sure, Deleting, Proved, Moved, Checked, Announced, Clean, Agreed, Holding,
      Counting
<1> QED
  BY <1>2, <1>3 DEF Intent, Synced, Written, IInv, Typed

LEMMA CheckSure ==
  ASSUME IInv, NEW o \in Runs, Check(o)
  PROVE  Sure(o)'
<1>1. /\ Alone(o)' /\ Counted(o) /\ auth[o] = guard[o] /\ ~torn
      /\ UNCHANGED <<guard, auth, index, torn>>
  BY HoldsOn DEF Check, IInv, Sure, Holding, Counting, Agreed, Clean, journal
<1>2. pc'[o] \in {"attempting", "failing"}
  BY DEF Check, IInv, Typed
<1> QED
  BY <1>1, <1>2
  DEF Sure, Counted, Deleting, Proved, Moved, Checked, Announced, Clean, Agreed,
      Holding, Counting

LEMMA AttemptSure ==
  ASSUME IInv, NEW o \in Runs, Attempt(o)
  PROVE  Sure(o)'
<1>1. /\ Alone(o)' /\ Counted(o) /\ auth[o] = guard[o] /\ ~torn
      /\ UNCHANGED <<guard, auth, index>>
  BY HoldsOn DEF Attempt, IInv, Sure, Holding, Counting, Agreed, Clean
<1>2. CASE pc'[o] = "rechecking" /\ Synced(Record("attempt", o, index[o]))
  <2>1. Record("attempt", o, index[o]) \in Lines
    BY RecordType DEF Events, IInv, Typed
  <2>2. ~torn' /\ audit' = Append(audit, Record("attempt", o, index[o]))
    BY <1>1, <1>2 DEF Synced, Written
  <2>3. Attempted(o)'
    BY <1>1, <2>1, <2>2, LastOfAppend DEF Attempted, Record, IInv, Typed
  <2> QED
    BY <1>1, <1>2, <2>2, <2>3
    DEF Sure, Counted, Deleting, Proved, Moved, Checked, Announced, Clean, Agreed,
        Holding, Counting
<1>3. CASE pc'[o] = "failing"
  BY <1>1, <1>3
  DEF Sure, Deleting, Proved, Moved, Checked, Announced, Clean, Agreed, Holding,
      Counting
<1> QED
  BY <1>2, <1>3 DEF Attempt, IInv, Typed

LEMMA RecheckSure ==
  ASSUME IInv, NEW o \in Runs, Recheck(o)
  PROVE  Sure(o)'
<1>1. /\ Alone(o)' /\ Counted(o) /\ auth[o] = guard[o] /\ ~torn /\ Attempted(o)
      /\ UNCHANGED <<guard, auth, index, torn, audit, place, others>>
  BY HoldsOn DEF Recheck, IInv, Sure, Holding, Counting, Agreed, Clean, Announced,
                 journal, artifacts, service
<1>2. CASE pc'[o] = "moving" /\ Checks(o)
  <2>1. InOrder(o)
    BY <1>1, <1>2, ItemsAssumption DEF InOrder, Checks, CheckRoot, Counted, Items
  <2> QED
    BY <1>1, <1>2, <2>1
    DEF Sure, Counted, Attempted, InOrder, Deleting, Proved, Moved, Checked,
        Announced, Clean, Agreed, Holding, Counting
<1>3. CASE pc'[o] = "failing"
  BY <1>1, <1>3
  DEF Sure, Deleting, Proved, Moved, Checked, Announced, Clean, Agreed, Holding,
      Counting
<1> QED
  BY <1>2, <1>3 DEF Recheck, IInv, Typed

LEMMA MoveSure ==
  ASSUME IInv, NEW o \in Runs, Move(o)
  PROVE  Sure(o)'
<1>1. /\ Alone(o)' /\ Counted(o) /\ auth[o] = guard[o] /\ ~torn /\ Attempted(o)
      /\ InOrder(o) /\ UNCHANGED <<guard, auth, index, torn, audit, others>>
  BY HoldsOn DEF Move, IInv, Sure, Holding, Counting, Agreed, Clean, Announced,
                 Checked, journal, service
<1>2. CASE pc'[o] = "proving" /\ place' = [place EXCEPT ![index[o]] = "private"]
           /\ taker' = [taker EXCEPT ![index[o]] = o]
  <2>1. Private(o)'
    BY <1>1, <1>2 DEF Private, Counted, IInv, Typed
  <2>2. InOrder(o)'
    BY <1>1, <1>2 DEF InOrder, IInv, Typed
  <2> QED
    BY <1>1, <1>2, <2>1, <2>2
    DEF Sure, Counted, Attempted, Deleting, Proved, Moved, Checked, Announced,
        Clean, Agreed, Holding, Counting
<1>3. CASE pc'[o] = "failing"
  BY <1>1, <1>3
  DEF Sure, Deleting, Proved, Moved, Checked, Announced, Clean, Agreed, Holding,
      Counting
<1> QED
  BY <1>2, <1>3 DEF Move, IInv, Typed

LEMMA ProveSure ==
  ASSUME IInv, NEW o \in Runs, Prove(o)
  PROVE  Sure(o)'
<1>1. /\ Alone(o)' /\ Counted(o) /\ auth[o] = guard[o] /\ ~torn /\ Attempted(o)
      /\ InOrder(o) /\ Private(o)
      /\ UNCHANGED <<guard, auth, index, torn, audit, others, place, taker, version>>
  BY HoldsOn DEF Prove, IInv, Sure, Holding, Counting, Agreed, Clean, Announced,
                 Checked, Moved, journal, service, artifacts
<1>2. CASE pc'[o] = "authorising" /\ Proven(o)
  BY <1>1, <1>2
  DEF Proven, SameBytes, Private, InOrder, Sure, Counted, Attempted, Deleting,
      Proved, Moved, Checked, Announced, Clean, Agreed, Holding, Counting
<1>3. CASE pc'[o] = "failing"
  BY <1>1, <1>3
  DEF Sure, Deleting, Proved, Moved, Checked, Announced, Clean, Agreed, Holding,
      Counting
<1> QED
  BY <1>2, <1>3 DEF Prove, IInv, Typed

LEMMA AuthoriseSure ==
  ASSUME IInv, NEW o \in Runs, Authorise(o)
  PROVE  Sure(o)'
<1>1. /\ Alone(o)' /\ Counted(o) /\ auth[o] = guard[o] /\ ~torn /\ Attempted(o)
      /\ InOrder(o) /\ Private(o) /\ SameBytes(o)
      /\ UNCHANGED <<guard, auth, index, torn, audit, others, place, taker, version,
                     policy>>
  BY HoldsOn DEF Authorise, IInv, Sure, Holding, Counting, Agreed, Clean, Announced,
                 Checked, Moved, Proved, journal, service, artifacts, world
<1>2. CASE pc'[o] = "deleting" /\ Authority(o) /\ holder' = o
  BY <1>1, <1>2
  DEF Authority, CheckPolicy, InForce, SameBytes, Private, InOrder, Sure, Counted,
      Attempted, Deleting, Proved, Moved, Checked, Announced, Clean, Agreed,
      Holding, Counting
<1>3. CASE pc'[o] = "failing"
  BY <1>1, <1>3
  DEF Sure, Deleting, Proved, Moved, Checked, Announced, Clean, Agreed, Holding,
      Counting
<1> QED
  BY <1>2, <1>3 DEF Authorise, IInv, Typed

LEMMA DeleteSure ==
  ASSUME IInv, NEW o \in Runs, Delete(o)
  PROVE  Sure(o)'
<1>1. /\ Alone(o)' /\ Counted(o) /\ auth[o] = guard[o] /\ ~torn
      /\ UNCHANGED <<guard, auth, index, torn>>
  BY HoldsOn DEF Delete, IInv, Sure, Holding, Counting, Agreed, Clean, Announced,
                 Checked, Moved, Proved, Deleting, journal
<1>2. pc'[o] \in {"recording", "failing"}
  BY DEF Delete, IInv, Typed
<1> QED
  BY <1>1, <1>2
  DEF Sure, Counted, Deleting, Proved, Moved, Checked, Announced, Clean, Agreed,
      Holding, Counting

LEMMA RecordDeletedSure ==
  ASSUME IInv, NEW o \in Runs, RecordDeleted(o)
  PROVE  Sure(o)'
<1>1. /\ Alone(o)' /\ Counted(o) /\ auth[o] = guard[o] /\ ~torn
      /\ UNCHANGED <<guard, auth>> /\ index'[o] = index[o] + 1
  BY HoldsOn DEF RecordDeleted, IInv, Typed, Sure, Holding, Counting, Agreed, Clean
<1>2. CASE ~torn' /\ pc'[o] = IF index[o] = N THEN "completing" ELSE "checking"
  <2>1. index[o] # N => Counted(o)'
    BY <1>1, ItemsAssumption DEF Counted, Items
  <2> QED
    BY <1>1, <1>2, <2>1
    DEF Sure, Deleting, Proved, Moved, Checked, Announced, Clean, Agreed, Holding,
        Counting
<1>3. CASE pc'[o] = "failed"
  BY <1>1, <1>3
  DEF Sure, Deleting, Proved, Moved, Checked, Announced, Clean, Agreed, Holding,
      Counting
<1> QED
  BY <1>1, <1>2, <1>3 DEF RecordDeleted, Synced, Written, IInv, Typed

LEMMA LastRecordsSure ==
  ASSUME IInv, NEW o \in Runs, RecordFailed(o) \/ Complete(o)
  PROVE  Sure(o)'
<1>1. Alone(o)' /\ pc'[o] = "leaving"
  BY HoldsOn DEF RecordFailed, Complete, IInv, Typed, Holding, Agreed, Clean
<1> QED
  BY <1>1
  DEF Sure, Deleting, Proved, Moved, Checked, Announced, Clean, Agreed, Holding,
      Counting

LEMMA StepSure ==
  ASSUME IInv, NEW o \in Runs, Step(o) \/ Decline(o) \/ Die(o)
  PROVE  IInv'
<1>1. Sure(o)'
  BY EndsSure, TakeLeaseSure, ObserveSure, ConfirmSure, OpenAuditSure, IntentSure,
     CheckSure, AttemptSure, RecheckSure, MoveSure, ProveSure, AuthoriseSure,
     DeleteSure, RecordDeletedSure, LastRecordsSure
  DEF Step
<1> QED
  BY <1>1, StepTypes, Bystander DEF IInv

-----------------------------------------------------------------------------
(* The steps of the others.                                                 *)

(* The configuration waits for the holder of its lock.                      *)
LEMMA SetPolicySure ==
  ASSUME IInv, NEW p \in Policies, SetPolicy(p)
  PROVE  IInv'
<1>1. Typed' /\ Leased'
  BY DEF SetPolicy, IInv, Typed, Leased, artifacts, service, leases, journal, run
<1>2. ASSUME NEW u \in Runs PROVE Sure(u)'
  <2>1. holder # u /\ UNCHANGED <<pc[u], auth[u], guard[u], index[u]>>
    BY RunsAssumption DEF SetPolicy, run
  <2>2. pc[u] \in Holding =>
          /\ Alone(u)'
          /\ UNCHANGED <<place, taker, others, audit, torn>>
          /\ version' = version
    BY DEF SetPolicy, IInv, Sure, Alone, leases, artifacts, service, journal
  <2> QED
    BY <2>1, <2>2, StaysSure
<1> QED
  BY <1>1, <1>2 DEF IInv

(* What is in quarantine is under an exclusive handle.                      *)
LEMMA TouchSure ==
  ASSUME IInv, NEW i \in Items, Touch(i)
  PROVE  IInv'
<1>1. Typed' /\ Leased'
  BY DEF Touch, IInv, Typed, Leased, service, leases, journal, run
<1>2. ASSUME NEW u \in Runs PROVE Sure(u)'
  <2>1. UNCHANGED <<pc[u], auth[u], guard[u], index[u]>>
    BY DEF Touch, run
  <2>2. pc[u] \in Holding =>
          /\ Alone(u)'
          /\ UNCHANGED <<place, taker, others, audit, torn, holder, policy>>
    BY DEF Touch, IInv, Sure, Alone, leases, service, journal
  <2>3. \A j \in Items : place[j] # "path" => version'[j] = version[j]
    BY DEF Touch, IInv, Typed
  <2> QED
    BY <2>1, <2>2, <2>3, StaysSure
<1> QED
  BY <1>1, <1>2 DEF IInv

LEMMA StartSure ==
  ASSUME IInv, NEW path, Start(path)
  PROVE  IInv'
<1>1. Typed' /\ Leased'
  BY DEF Start, IInv, Typed, Leased, artifacts, leases, journal, run
<1>2. ASSUME NEW u \in Runs PROVE Sure(u)'
  <2>1. UNCHANGED <<pc[u], auth[u], guard[u], index[u]>>
    BY DEF Start, run
  <2>2. pc[u] \in Holding =>
          /\ Alone(u)'
          /\ UNCHANGED <<place, taker, others, audit, torn, version, holder, policy>>
    BY DEF Start, IInv, Sure, Alone, leases, artifacts, journal
  <2> QED
    BY <2>1, <2>2, StaysSure
<1> QED
  BY <1>1, <1>2 DEF IInv

(* The worker gets its lease only while no run has one.                     *)
LEMMA WorkerBeginsSure ==
  ASSUME IInv, WorkerBegins
  PROVE  IInv'
<1>1. Typed' /\ Leased'
  BY DEF WorkerBegins, Lease!GrantWriter, IInv, Typed, Leased, artifacts, leases,
         journal, run, world
<1>2. ASSUME NEW u \in Runs PROVE Sure(u)'
  <2>1. UNCHANGED <<pc[u], auth[u], guard[u], index[u]>>
    BY DEF WorkerBegins, run
  <2>2. pc[u] \in Holding =>
          /\ Alone(u)'
          /\ UNCHANGED <<place, taker, others, audit, torn, version, holder, policy>>
    BY DEF WorkerBegins, Lease!GrantWriter, IInv, Sure, Alone, leases, artifacts,
           journal, world
  <2> QED
    BY <2>1, <2>2, StaysSure
<1> QED
  BY <1>1, <1>2 DEF IInv

(* It cannot be recording while a run holds the root.                       *)
LEMMA WorkerRecordsSure ==
  ASSUME IInv, WorkerRecords
  PROVE  IInv'
<1>1. Typed' /\ Leased'
  BY DEF WorkerRecords, Lease!GiveBack, IInv, Typed, Leased, journal, run, world
<1>2. ASSUME NEW u \in Runs PROVE Sure(u)'
  <2>1. UNCHANGED <<pc[u], auth[u], guard[u], index[u]>>
    BY DEF WorkerRecords, run
  <2>2. pc[u] \notin Holding
    BY DEF WorkerRecords, IInv, Leased, Sure, Alone
  <2> QED
    BY <2>1, <2>2, StaysSure
<1> QED
  BY <1>1, <1>2 DEF IInv

LEMMA InitIInv == Init => IInv
<1> SUFFICES ASSUME Init PROVE IInv
  OBVIOUS
<1>1. Typed
  BY DEF Init, Typed, Places, Phases, Snapshot, Snapshots, Lease!Init
<1>2. \A o \in Runs : Sure(o)
  BY DEF Init, Sure, Deleting, Proved, Moved, Checked, Announced, Clean, Agreed,
      Holding, Counting
<1> QED
  BY <1>1, <1>2 DEF IInv, Leased, Init

LEMMA StepIInv == IInv /\ [Next]_vars => IInv'
<1> SUFFICES ASSUME IInv, [Next]_vars PROVE IInv'
  OBVIOUS
<1>1. CASE UNCHANGED vars
  <2>1. Typed' /\ Leased'
    BY <1>1 DEF vars, IInv, Typed, Leased, artifacts, service, leases, journal, run
  <2>2. \A u \in Runs : Sure(u)'
    <3>1. ASSUME NEW u \in Runs, pc[u] \in Holding PROVE Alone(u)'
      BY <1>1, <3>1 DEF IInv, Sure, Alone, vars, leases
    <3> QED
      BY <1>1, <3>1, StaysSure DEF vars, artifacts, service, journal, run
  <2> QED
    BY <2>1, <2>2 DEF IInv
<1> QED
  BY <1>1, StepSure, SetPolicySure, TouchSure, StartSure, WorkerBeginsSure,
     WorkerRecordsSure
  DEF Next

(* What a run has made sure of holds until the step that relies on it       *)
(* (execute_retention, remove_authorized).                                   *)
THEOREM Invariance == Spec => []IInv
BY InitIInv, StepIInv, PTL DEF Spec

-----------------------------------------------------------------------------
(* The removal.                                                             *)

LEMMA RemovesInDelete ==
  ASSUME IInv, [Next]_vars, NEW i \in Items, Removes(i)
  PROVE  \E o \in Runs : Authorised(o, i)
<1>1. PICK o \in Runs : Delete(o)
  <2>1. CASE UNCHANGED vars
    BY <2>1 DEF Removes, vars, artifacts
  <2>2. ASSUME NEW o \in Runs, Step(o) \/ Decline(o) \/ Die(o) PROVE Delete(o)
    BY <2>2
    DEF Removes, IInv, Typed, Step, Preview, TakeLease, Observe, Confirm, OpenAudit,
        Intent, Check, Attempt, Recheck, Move, Prove, Authorise, RecordDeleted,
        RecordFailed, Complete, Leave, Decline, Die, artifacts
  <2> QED
    BY <2>1, <2>2
    DEF Next, SetPolicy, Touch, Start, WorkerBegins, WorkerRecords, Removes,
        artifacts
<1>2. /\ Alone(o) /\ auth[o] = guard[o] /\ Attempted(o) /\ InOrder(o) /\ Private(o)
      /\ SameBytes(o) /\ InForce(o)
  BY <1>1
  DEF Delete, IInv, Sure, Deleting, Proved, Moved, Checked, Announced, Clean,
      Agreed, Holding, Counting
<1>3. i = index[o]
  BY <1>1 DEF Delete, Removes, IInv, Typed
<1> QED
  BY <1>2, <1>3
  DEF Authorised, Alone, Attempted, InOrder, Private, SameBytes, InForce

(* An object goes only as the next in the order, under the policy, the      *)
(* claims and the bytes the owner was shown, with its attempt recorded and  *)
(* no recording in the root (remove_authorized, mutation_authority).        *)
THEOREM Removal == Spec => RemovalAuthorised
<1>1. IInv /\ [Next]_vars =>
        [\A i \in Items : Removes(i) => \E o \in Runs : Authorised(o, i)]_vars
  BY RemovesInDelete
<1> QED
  BY <1>1, Invariance, PTL DEF Spec, RemovalAuthorised

-----------------------------------------------------------------------------
(* What a run reports.                                                      *)

Early == {"idle", "asked", "observing", "confirming", "opening", "intent"}
Emptied(o, n) == \A j \in 1 .. n : place[j] = "gone" /\ taker[j] = o
Untaken(o) == \A i \in Items : taker[i] # o
Completed(o) == \E n \in DOMAIN audit : audit[n] = Record("completed", o, 0)

Progress(o) ==
  /\ pc[o] \in Early => o \notin started
  /\ pc[o] \in Clean \ {"intent"} => o \in started
  /\ o \notin started => o \notin uncertain /\ Untaken(o)
  /\ pc[o] \in Checked => o \in uncertain
  /\ pc[o] \notin {"recording", "ended"} /\ o \notin uncertain /\ index[o] <= 1
       => Untaken(o)
  /\ pc[o] \in Counting \union {"completing"} => Emptied(o, index[o] - 1)
  /\ pc[o] = "recording" => place[index[o]] = "gone" /\ taker[index[o]] = o
  /\ pc[o] = "completing" => index[o] = N + 1

Reported(o) ==
  /\ o \in durable => pc[o] \in {"leaving", "ended"} /\ Emptied(o, N) /\ Completed(o)
  /\ outcome[o] = "complete" => o \in durable
  /\ outcome[o] \in {"refused", "failed"} => pc[o] = "ended" /\ Untaken(o)

Honest(o) == Progress(o) /\ Reported(o)

Outcomes == {"none", "complete", "refused", "partial", "failed", "dead"}
TInv == IInv /\ outcome \in [Runs -> Outcomes] /\ \A o \in Runs : Honest(o)

(* What a step cannot undo: lines of the journal, and what is gone.  Only   *)
(* one's own moves give one an object.                                      *)
Kept(o) ==
  /\ Completed(o) => Completed(o)'
  /\ \A i \in Items : place[i] = "gone" => place'[i] = "gone" /\ taker'[i] = taker[i]
  /\ Untaken(o) => Untaken(o)'

LEMMA LinesKept ==
  ASSUME IInv, NEW o, UNCHANGED audit \/ \E r \in Lines : audit' = Append(audit, r)
  PROVE  Completed(o) => Completed(o)'
<1>1. CASE UNCHANGED audit
  BY <1>1 DEF Completed, Record
<1>2. ASSUME NEW r \in Lines, audit' = Append(audit, r), Completed(o)
      PROVE  Completed(o)'
  <2>1. audit \in Seq(Lines)
    BY DEF IInv, Typed
  <2>2. PICK n \in DOMAIN audit : audit[n] = Record("completed", o, 0)
    BY <1>2 DEF Completed
  <2>3. n \in DOMAIN audit' /\ audit'[n] = audit[n]
    BY <1>2, <2>1, <2>2
  <2> QED
    BY <2>2, <2>3 DEF Completed, Record
<1> QED
  BY <1>1, <1>2

LEMMA NPositive == N \in Int /\ N >= 1
BY ItemsAssumption

LEMMA StaysHonest ==
  ASSUME TInv, NEW u \in Runs, Kept(u),
         UNCHANGED <<pc[u], index[u], outcome[u]>>,
         u \in started' <=> u \in started,
         u \in uncertain' <=> u \in uncertain,
         u \in durable' <=> u \in durable
  PROVE  Honest(u)'
<1>1. Honest(u)
  BY DEF TInv
<1>2. ASSUME NEW n \in Int, n <= N, Emptied(u, n) PROVE Emptied(u, n)'
  BY <1>2, NPositive DEF Emptied, Kept, Items
<1>3. pc[u] \in Counting => index[u] \in Items
  BY DEF TInv, IInv, Sure, Counted
<1>4. pc[u] \in Counting \union {"completing"} => Emptied(u, index[u] - 1)'
  <2>1. pc[u] \in Counting \union {"completing"} =>
          index[u] - 1 \in Int /\ index[u] - 1 <= N
    BY <1>1, <1>3, NPositive DEF Honest, Progress, Items
  <2> QED
    BY <1>1, <1>2, <2>1 DEF Honest, Progress, Emptied
<1>5. pc[u] = "recording" => place'[index[u]] = "gone" /\ taker'[index[u]] = u
  BY <1>1, <1>3 DEF Honest, Progress, Kept, Counting, Clean
<1>6. Progress(u)'
  BY <1>1, <1>4, <1>5 DEF Honest, Progress, Kept, Emptied
<1>7. u \in durable => Emptied(u, N)'
  BY <1>1, <1>2, NPositive DEF Honest, Reported
<1>8. Reported(u)'
  BY <1>1, <1>7 DEF Honest, Reported, Kept, Emptied
<1> QED
  BY <1>6, <1>8 DEF Honest

LEMMA StepKeeps ==
  ASSUME IInv, NEW o \in Runs, NEW u \in Runs,
         Step(o) \/ Decline(o) \/ Die(o), Move(o) => u # o
  PROVE  Kept(u)
<1>1. UNCHANGED audit \/ \E r \in Lines : audit' = Append(audit, r)
  <2>1. \/ audit' = audit
        \/ \E e \in Events, i \in Int :
              Synced(Record(e, o, i)) \/ AppendFails(Record(e, o, i))
    BY StepWrites
  <2>2. ASSUME NEW r \in Lines, Synced(r) \/ AppendFails(r)
        PROVE  audit' = audit \/ audit' = Append(audit, r)
    BY <2>2
    DEF Synced, AppendFails, Unsynced, NotWritten, Written, Unwritten, TornOff,
        journal
  <2> QED
    BY <2>1, <2>2, RecordType
<1>2. Completed(u) => Completed(u)'
  BY <1>1, LinesKept
<1>3. CASE Move(o)
  BY <1>2, <1>3 DEF Move, Kept, Untaken, IInv, Typed
<1>4. CASE Delete(o)
  BY <1>2, <1>4 DEF Delete, Kept, Untaken, IInv, Typed
<1>5. CASE ~(Move(o) \/ Delete(o))
  <2>1. UNCHANGED <<place, taker>>
    BY <1>5, StepPlaces
  <2> QED
    BY <1>2, <2>1 DEF Kept, Untaken
<1> QED
  BY <1>3, <1>4, <1>5

LEMMA BystanderHonest ==
  ASSUME TInv, NEW o \in Runs, NEW u \in Runs, o # u,
         Step(o) \/ Decline(o) \/ Die(o)
  PROVE  Honest(u)'
<1>1. Kept(u)
  BY StepKeeps DEF TInv
<1>2. UNCHANGED <<pc[u], index[u], outcome[u]>>
  BY DEF TInv, IInv, Typed, Step, Preview, TakeLease, Observe, Confirm, OpenAudit,
         Intent, Check, Attempt, Recheck, Move, Prove, Authorise, Delete,
         RecordDeleted, RecordFailed, Complete, Leave, Decline, Die, Ends, Goes, Refuses
<1>3. /\ u \in started' <=> u \in started
      /\ u \in uncertain' <=> u \in uncertain
      /\ u \in durable' <=> u \in durable
  BY DEF Step, Preview, TakeLease, Observe, Confirm, OpenAudit, Intent, Check,
         Attempt, Recheck, Move, Prove, Authorise, Delete, RecordDeleted,
         RecordFailed, Complete, Leave, Decline, Die, progress
<1> QED
  BY <1>1, <1>2, <1>3, StaysHonest

(* A step that only moves on, and never back into a phase that asks more.   *)
LEMMA MovesOn ==
  ASSUME TInv, NEW o \in Runs, Kept(o), Untaken(o)' <=> Untaken(o),
         UNCHANGED <<place, taker, progress, index[o], outcome[o]>>,
         pc[o] \notin {"recording", "leaving", "ended"},
         pc'[o] \notin {"recording", "completing", "ended"},
         pc'[o] \in Early => pc[o] \in Early,
         pc'[o] \in Clean \ {"intent"} => pc[o] \in Clean \ {"intent"},
         pc'[o] \in Checked => pc[o] \in Checked,
         pc'[o] \in Counting => pc[o] \in Counting
  PROVE  Honest(o)'
<1>1. Honest(o)
  BY DEF TInv
<1>2. Progress(o)'
  BY <1>1 DEF Honest, Progress, Emptied, progress
<1>3. Reported(o)'
  BY <1>1 DEF Honest, Reported, progress
<1> QED
  BY <1>2, <1>3 DEF Honest

LEMMA EarlySteps ==
  ASSUME TInv, NEW o \in Runs,
         Confirm(o) \/ OpenAudit(o) \/ Check(o) \/ Attempt(o) \/ Prove(o)
           \/ Authorise(o) \/ RecordFailed(o)
  PROVE  Honest(o)'
<1>1. Kept(o)
  BY StepKeeps
  DEF TInv, Step, Confirm, OpenAudit, Check, Attempt, Prove, Authorise,
      RecordFailed, Move
<1>2. UNCHANGED <<place, taker, progress, index[o], outcome[o]>>
  BY DEF Confirm, OpenAudit, Check, Attempt, Prove, Authorise, RecordFailed,
      artifacts,
         Refuses
<1>3. Untaken(o)' <=> Untaken(o)
  BY <1>2 DEF Untaken
<1>4. /\ pc[o] \notin {"recording", "leaving", "ended"}
      /\ pc'[o] \notin {"recording", "completing", "ended"}
      /\ pc'[o] \in Early => pc[o] \in Early
      /\ pc'[o] \in Clean \ {"intent"} => pc[o] \in Clean \ {"intent"}
      /\ pc'[o] \in Checked => pc[o] \in Checked
      /\ pc'[o] \in Counting => pc[o] \in Counting
  BY DEF TInv, IInv, Typed, Confirm, OpenAudit, Check, Attempt, Prove, Authorise,
         RecordFailed, Refuses, Goes, Early, Deleting, Proved, Moved, Checked,
         Announced, Clean, Counting
<1> QED
  BY <1>1, <1>2, <1>3, <1>4, MovesOn

(* A run ends with what Outcome makes of its progress.                      *)
LEMMA EndHonest ==
  ASSUME TInv, NEW o \in Runs, Ends(o), Kept(o),
         UNCHANGED <<place, taker, audit, progress, index[o]>>,
         pc[o] \notin {"recording", "ended"}
  PROVE  Honest(o)'
<1>1. Honest(o)
  BY DEF TInv
<1>2. pc'[o] = "ended" /\ outcome'[o] = Outcome(o)
  BY DEF Ends, TInv, IInv, Typed
<1>3. index[o] \in Int
  BY DEF TInv, IInv, Typed
<1>4. Progress(o)'
  BY <1>1, <1>2
  DEF Honest, Progress, Untaken, Early, progress, Deleting, Proved, Moved,
      Checked, Announced, Clean, Counting
<1>5. Outcome(o) \in {"refused", "failed"} => Untaken(o)
  BY <1>1, <1>3 DEF Honest, Progress, Outcome
<1>6. Outcome(o) = "complete" => o \in durable
  BY DEF Outcome
<1>7. Reported(o)'
  BY <1>1, <1>2, <1>5, <1>6
  DEF Honest, Reported, Untaken, Emptied, Completed, Record, progress
<1> QED
  BY <1>4, <1>7 DEF Honest

LEMMA EndingSteps ==
  ASSUME TInv, NEW o \in Runs,
         Preview(o) \/ Decline(o) \/ TakeLease(o) \/ Leave(o) \/ Die(o)
  PROVE  Honest(o)'
<1>1. Kept(o)
  <2>1. ~Move(o)
    BY DEF Move, Preview, TakeLease, Leave, Decline, Die, Ends, TInv, IInv, Typed
  <2> QED
    BY <2>1, StepKeeps DEF TInv, Step
<1>2. UNCHANGED <<place, taker, audit, progress, index[o]>>
  BY DEF Preview, Decline, TakeLease, Leave, Die, artifacts, journal
<1>3. Untaken(o)' <=> Untaken(o)
  BY <1>2 DEF Untaken
<1>4. CASE Ends(o) /\ pc[o] \in {"idle", "asked", "leaving"}
  BY <1>1, <1>2, <1>4, EndHonest
<1>5. CASE /\ pc[o] \in {"idle", "asked"} /\ pc'[o] \in {"asked", "observing"}
           /\ UNCHANGED outcome
  <2>1. /\ pc[o] \in Early /\ pc[o] \notin {"recording", "leaving", "ended"}
        /\ pc'[o] \notin {"recording", "completing", "ended"}
        /\ pc'[o] \notin Clean /\ pc'[o] \notin Checked /\ pc'[o] \notin Counting
    BY <1>5 DEF Early, Deleting, Proved, Moved, Checked, Announced, Clean, Counting
  <2> QED
    BY <1>1, <1>2, <1>3, <1>5, <2>1, MovesOn
<1>6. CASE pc'[o] = "ended" /\ outcome'[o] = "dead"
  <2>1. Honest(o)
    BY DEF TInv
  <2>2. Progress(o)'
    BY <1>2, <1>6, <2>1
    DEF Honest, Progress, Untaken, Early, progress, Deleting, Proved, Moved,
        Checked, Announced, Clean, Counting
  <2>3. Reported(o)'
    BY <1>2, <1>6, <2>1 DEF Honest, Reported, Emptied, Completed, Record, progress
  <2> QED
    BY <2>2, <2>3 DEF Honest
<1> QED
  BY <1>4, <1>5, <1>6
  DEF Preview, Decline, TakeLease, Leave, Die, Goes, TInv, IInv, Typed

LEMMA ObserveHonest ==
  ASSUME TInv, NEW o \in Runs, Observe(o)
  PROVE  Honest(o)'
<1>1. Honest(o) /\ pc[o] = "observing"
  BY DEF TInv, Observe
<1>2. o \notin started /\ o \notin uncertain /\ o \notin durable /\ Untaken(o)
  BY <1>1 DEF Honest, Progress, Reported, Early
<1>3. /\ UNCHANGED <<place, taker, progress, outcome>>
      /\ \/ pc'[o] = "confirming" /\ index'[o] = 1
         \/ pc'[o] = "leaving"
  BY DEF Observe, Refuses, artifacts, TInv, IInv, Typed
<1>4. Progress(o)'
  BY <1>2, <1>3
  DEF Progress, Untaken, Emptied, progress, Deleting, Proved, Moved, Checked,
      Announced, Clean, Counting
<1>5. Reported(o)'
  BY <1>1, <1>2, <1>3 DEF Honest, Reported, progress
<1> QED
  BY <1>4, <1>5 DEF Honest

LEMMA IntentHonest ==
  ASSUME TInv, NEW o \in Runs, Intent(o)
  PROVE  Honest(o)'
<1>1. Honest(o) /\ pc[o] = "intent"
  BY DEF TInv, Intent
<1>2. o \notin started /\ o \notin uncertain /\ o \notin durable /\ Untaken(o)
  BY <1>1 DEF Honest, Progress, Reported, Early
<1>3. /\ UNCHANGED <<place, taker, uncertain, durable, outcome, index>>
      /\ \/ pc'[o] \in {"checking", "leaving"} /\ started' = started \union {o}
         \/ pc'[o] = "leaving" /\ started' = started
  BY DEF Intent, artifacts, TInv, IInv, Typed
<1>4. Emptied(o, index[o] - 1)
  BY <1>1
  DEF Honest, Progress, Deleting, Proved, Moved, Checked, Announced, Clean,
      Counting
<1>5. Progress(o)'
  BY <1>2, <1>3, <1>4
  DEF Progress, Untaken, Emptied, Early, Deleting, Proved, Moved, Checked,
      Announced, Clean, Counting
<1>6. Reported(o)'
  BY <1>1, <1>2, <1>3 DEF Honest, Reported
<1> QED
  BY <1>5, <1>6 DEF Honest

LEMMA RecheckHonest ==
  ASSUME TInv, NEW o \in Runs, Recheck(o)
  PROVE  Honest(o)'
<1>1. Honest(o) /\ pc[o] = "rechecking"
  BY DEF TInv, Recheck
<1>2. /\ UNCHANGED <<place, taker, started, durable, outcome, index>>
      /\ \/ pc'[o] = "moving" /\ uncertain' = uncertain \union {o}
         \/ pc'[o] = "failing" /\ UNCHANGED uncertain
  BY DEF Recheck, artifacts, TInv, IInv, Typed
<1>3. Emptied(o, index[o] - 1) /\ o \notin durable
  BY <1>1
  DEF Honest, Progress, Reported, Deleting, Proved, Moved, Checked, Announced,
      Clean, Counting
<1>4. o \in started
  BY <1>1
  DEF Honest, Progress, Deleting, Proved, Moved, Checked, Announced, Clean,
      Counting
<1>5. Progress(o)'
  BY <1>1, <1>2, <1>3, <1>4
  DEF Honest, Progress, Untaken, Emptied, Early, Deleting, Proved, Moved, Checked,
      Announced, Clean, Counting
<1>6. Reported(o)'
  BY <1>1, <1>2, <1>3 DEF Honest, Reported
<1> QED
  BY <1>5, <1>6 DEF Honest

(* What a run that has an artifact at hand knows of its progress.           *)
LEMMA AtHand ==
  ASSUME TInv, NEW o \in Runs, pc[o] \in Clean \ {"intent", "completing"}
  PROVE  /\ index[o] \in Items /\ index[o] \in Int /\ o \in started
         /\ Emptied(o, index[o] - 1) /\ o \notin durable
         /\ outcome[o] \notin {"complete", "refused", "failed"}
         /\ \A j \in 1 .. (index[o] - 1) : j \in Items /\ j # index[o]
<1>1. Honest(o) /\ Sure(o) /\ index[o] \in Int
  BY DEF TInv, IInv, Typed
<1>2. /\ pc[o] \in Counting /\ pc[o] \in Clean \ {"intent"}
      /\ pc[o] \notin {"leaving", "ended"}
  BY DEF Deleting, Proved, Moved, Checked, Announced, Clean, Counting
<1>3. index[o] \in Items
  BY <1>1, <1>2 DEF Sure, Counted
<1>4. \A j \in 1 .. (index[o] - 1) : j \in Items /\ j # index[o]
  BY <1>1, <1>3, NPositive DEF Items
<1>5. /\ o \in started /\ Emptied(o, index[o] - 1) /\ o \notin durable
      /\ outcome[o] \notin {"complete", "refused", "failed"}
  BY <1>1, <1>2 DEF Honest, Progress, Reported
<1> QED
  BY <1>1, <1>3, <1>4, <1>5

LEMMA MoveHonest ==
  ASSUME TInv, NEW o \in Runs, Move(o)
  PROVE  Honest(o)'
<1>1. pc[o] \in Clean \ {"intent", "completing"} /\ pc[o] \in Checked
  BY DEF Move, Deleting, Proved, Moved, Checked, Announced, Clean, Counting
<1>2. /\ index[o] \in Items /\ o \in started /\ o \in uncertain
      /\ Emptied(o, index[o] - 1) /\ o \notin durable
      /\ outcome[o] \notin {"complete", "refused", "failed"}
      /\ \A j \in 1 .. (index[o] - 1) : j \in Items /\ j # index[o]
  BY <1>1, AtHand DEF TInv, Honest, Progress
<1>3. /\ UNCHANGED <<progress, index, outcome>> /\ pc'[o] \in {"proving", "failing"}
      /\ \A j \in Items : j # index[o] => place'[j] = place[j] /\ taker'[j] = taker[j]
  BY DEF Move, TInv, IInv, Typed
<1>4. Emptied(o, index[o] - 1)'
  BY <1>2, <1>3 DEF Emptied
<1>5. Progress(o)'
  BY <1>2, <1>3, <1>4
  DEF Progress, progress, Early, Deleting, Proved, Moved, Checked, Announced,
      Clean, Counting
<1>6. Reported(o)'
  BY <1>2, <1>3 DEF Reported, progress
<1> QED
  BY <1>5, <1>6 DEF Honest

LEMMA DeleteHonest ==
  ASSUME TInv, NEW o \in Runs, Delete(o)
  PROVE  Honest(o)'
<1>1. pc[o] \in Clean \ {"intent", "completing"} /\ pc[o] \in Checked /\ pc[o] \in Moved
  BY DEF Delete, Deleting, Proved, Moved, Checked, Announced, Clean, Counting
<1>2. /\ index[o] \in Items /\ o \in started /\ o \in uncertain
      /\ Emptied(o, index[o] - 1) /\ o \notin durable /\ taker[index[o]] = o
      /\ outcome[o] \notin {"complete", "refused", "failed"}
      /\ \A j \in 1 .. (index[o] - 1) : j \in Items /\ j # index[o]
  BY <1>1, AtHand DEF TInv, IInv, Sure, Private, Honest, Progress
<1>3. /\ UNCHANGED <<taker, started, durable, index, outcome>>
      /\ \/ pc'[o] = "recording" /\ place'[index[o]] = "gone"
         \/ pc'[o] = "failing" /\ UNCHANGED uncertain
      /\ \A j \in Items : j # index[o] => place'[j] = place[j]
  BY <1>2 DEF Delete, TInv, IInv, Typed
<1>4. Emptied(o, index[o] - 1)'
  BY <1>2, <1>3 DEF Emptied
<1>5. Progress(o)'
  BY <1>2, <1>3, <1>4
  DEF Progress, Early, Deleting, Proved, Moved, Checked, Announced, Clean,
      Counting
<1>6. Reported(o)'
  BY <1>2, <1>3 DEF Reported
<1> QED
  BY <1>5, <1>6 DEF Honest

LEMMA RecordDeletedHonest ==
  ASSUME TInv, NEW o \in Runs, RecordDeleted(o)
  PROVE  Honest(o)'
<1>1. pc[o] = "recording" /\ pc[o] \in Clean \ {"intent", "completing"}
  BY DEF RecordDeleted, Deleting, Proved, Moved, Checked, Announced, Clean, Counting
<1>2. /\ index[o] \in Items /\ index[o] \in Int /\ o \in started
      /\ Emptied(o, index[o] - 1) /\ o \notin durable
      /\ outcome[o] \notin {"complete", "refused", "failed"}
      /\ place[index[o]] = "gone" /\ taker[index[o]] = o
  BY <1>1, AtHand DEF TInv, Honest, Progress
<1>3. /\ UNCHANGED <<place, taker, progress, outcome>> /\ index'[o] = index[o] + 1
      /\ \/ pc'[o] = "completing" /\ index[o] = N
         \/ pc'[o] \in {"checking", "failed"}
  BY DEF RecordDeleted, artifacts, TInv, IInv, Typed
<1>4. Emptied(o, index[o]) /\ index[o] >= 1
  BY <1>2, NPositive DEF Emptied, Items
<1>5. Emptied(o, index[o] - 1)'
  <2>1. index'[o] - 1 = index[o]
    BY <1>2, <1>3
  <2> QED
    BY <1>3, <1>4, <2>1 DEF Emptied
<1>6. index'[o] > 1
  BY <1>2, <1>3, <1>4
<1>7. pc'[o] = "completing" => index'[o] = N + 1
  BY <1>3
<1>8. Progress(o)'
  BY <1>2, <1>3, <1>5, <1>6, <1>7
  DEF Progress, progress, Early, Deleting, Proved, Moved, Checked, Announced,
      Clean, Counting
<1>9. Reported(o)'
  BY <1>2, <1>3 DEF Reported, progress
<1> QED
  BY <1>8, <1>9 DEF Honest

(* The last line is written when the last object is gone.                   *)
LEMMA CompleteHonest ==
  ASSUME TInv, NEW o \in Runs, Complete(o)
  PROVE  Honest(o)'
<1>1. pc[o] = "completing" /\ Honest(o) /\ ~torn /\ audit \in Seq(Lines)
  BY DEF Complete, TInv, IInv, Typed, Sure, Clean
<1>2. /\ index[o] = N + 1 /\ o \in started /\ Emptied(o, N) /\ o \notin durable
      /\ outcome[o] \notin {"complete", "refused", "failed"}
  <2>1. index[o] - 1 = N
    BY <1>1, NPositive DEF Honest, Progress
  <2> QED
    BY <1>1, <2>1 DEF Honest, Progress, Reported, Clean
<1>3. /\ UNCHANGED <<place, taker, index, started, uncertain, outcome>>
      /\ pc'[o] = "leaving"
      /\ \/ Synced(Record("completed", o, 0)) /\ durable' = durable \union {o}
         \/ UNCHANGED durable
  BY DEF Complete, artifacts, TInv, IInv, Typed
<1>4. Progress(o)'
  BY <1>2, <1>3, NPositive
  DEF Progress, Early, Deleting, Proved, Moved, Checked, Announced, Clean,
      Counting
<1>5. Emptied(o, N)'
  BY <1>2, <1>3 DEF Emptied
<1>6. ASSUME Synced(Record("completed", o, 0)) PROVE Completed(o)'
  <2>1. Record("completed", o, 0) \in Lines
    BY RecordType DEF Events
  <2>2. audit' = Append(audit, Record("completed", o, 0))
    BY <1>1, <1>6 DEF Synced, Written
  <2>3. /\ Len(audit) + 1 \in DOMAIN audit'
        /\ audit'[Len(audit) + 1] = Record("completed", o, 0)
    BY <1>1, <2>1, <2>2
  <2> QED
    BY <2>3 DEF Completed, Record
<1>7. Reported(o)'
  BY <1>2, <1>3, <1>5, <1>6 DEF Reported
<1> QED
  BY <1>4, <1>7 DEF Honest

-----------------------------------------------------------------------------
(* The promise of the command line.                                         *)

LEMMA StepOutcome ==
  ASSUME TInv, NEW o \in Runs, Step(o) \/ Decline(o) \/ Die(o)
  PROVE  outcome' \in [Runs -> Outcomes]
<1>1. Outcome(o) \in Outcomes
  BY DEF Outcome, Outcomes
<1>2. \/ outcome' = outcome
      \/ \E x \in Outcomes : outcome' = [outcome EXCEPT ![o] = x]
  BY <1>1
  DEF Step, Preview, TakeLease, Observe, Confirm, OpenAudit, Intent, Check, Attempt,
      Recheck, Move, Prove, Authorise, Delete, RecordDeleted, RecordFailed, Complete,
      Leave, Decline, Die, Ends, Outcomes
<1> QED
  BY <1>2 DEF TInv

LEMMA OthersHonest ==
  ASSUME TInv, UNCHANGED <<place, taker, audit, run>>, IInv'
  PROVE  TInv'
<1>1. ASSUME NEW u \in Runs PROVE Honest(u)'
  <2>1. Kept(u)
    BY DEF Kept, Completed, Record, Untaken
  <2> QED
    BY <2>1, StaysHonest DEF run, progress
<1> QED
  BY <1>1 DEF TInv, run

LEMMA StepTInv == TInv /\ [Next]_vars => TInv'
<1> SUFFICES ASSUME TInv, [Next]_vars PROVE TInv'
  OBVIOUS
<1>1. IInv'
  BY StepIInv DEF TInv
<1>2. ASSUME NEW o \in Runs, Step(o) \/ Decline(o) \/ Die(o) PROVE TInv'
  <2>1. Honest(o)'
    BY <1>2, EarlySteps, EndingSteps, ObserveHonest, IntentHonest, RecheckHonest,
       MoveHonest, DeleteHonest, RecordDeletedHonest, CompleteHonest
    DEF Step
  <2>2. \A u \in Runs : u # o => Honest(u)'
    BY <1>2, BystanderHonest
  <2> QED
    BY <1>1, <1>2, <2>1, <2>2, StepOutcome DEF TInv
<1>3. CASE \/ \E p \in Policies : SetPolicy(p)
           \/ \E i \in Items : Touch(i)
           \/ \E path \in {"target", "other"} : Start(path)
           \/ WorkerBegins \/ WorkerRecords
  <2>1. UNCHANGED <<place, taker, audit, run>>
    BY <1>3
    DEF SetPolicy, Touch, Start, WorkerBegins, WorkerRecords, artifacts, journal
  <2> QED
    BY <1>1, <2>1, OthersHonest
<1>4. CASE UNCHANGED vars
  BY <1>1, <1>4, OthersHonest DEF vars, artifacts, journal
<1> QED
  BY <1>2, <1>3, <1>4 DEF Next

LEMMA InitTInv == Init => TInv
<1> SUFFICES ASSUME Init PROVE TInv
  OBVIOUS
<1>1. ASSUME NEW o \in Runs PROVE Honest(o)
  BY RunsAssumption
  DEF Init, Honest, Progress, Reported, Untaken, Emptied, Early, Deleting, Proved,
      Moved, Checked, Announced, Clean, Counting
<1> QED
  BY <1>1, InitIInv DEF TInv, Init, Outcomes

(* COMPLETE is a session gone and a journal that says so, REFUSED and       *)
(* FAILED have moved nothing (_incomplete, _completed_after_cleanup).       *)
THEOREM Report == Spec => []Truthful
<1>1. ASSUME TInv PROVE Truthful
  <2>1. \A o \in Runs : Reported(o)
    BY <1>1 DEF TInv, Honest
  <2> QED
    BY <2>1 DEF Truthful, Reported, Emptied, Completed, Untaken, Items
<1> QED
  BY <1>1, InitTInv, StepTInv, PTL DEF Spec

-----------------------------------------------------------------------------
(* The history of a journal is a fold over its lines.  FoldLeft picks a     *)
(* function on the sets of the indices read: there is exactly one, for any  *)
(* journal, so that a line more is one more Accept.                         *)

(* What FoldLeft computes, as a function of the indices read.               *)
Reads(f, s) ==
  f = [t \in SUBSET (DOMAIN s) |->
         IF t = {} THEN Fresh ELSE Accept(f[t \ {Max(t)}], s[Max(t)])]
Read(s) == \E f : Reads(f, s) /\ \A g : Reads(g, s) => g = f

LEMMA FoldOf ==
  ASSUME NEW s, NEW f, Reads(f, s), \A g : Reads(g, s) => g = f
  PROVE  FoldLeft(Accept, Fresh, s) = f[DOMAIN s]
<1>1. FoldLeft(Accept, Fresh, s) =
        LET iter == CHOOSE g : Reads(g, s) IN iter[DOMAIN s]
  BY DEF FoldLeft, MapThenFoldSet, Reads
<1>2. (CHOOSE g : Reads(g, s)) = f
  OBVIOUS
<1> QED
  BY <1>1, <1>2

LEMMA Least ==
  ASSUME NEW T, T \subseteq Nat, T # {}
  PROVE  \E x \in T : \A y \in T : x <= y
<1> DEFINE Less == {p \in Nat \X Nat : p[1] < p[2]}
<1>1. IsWellFoundedOn(Less, Nat)
  BY NatLessThanWellFounded DEF OpToRel
<1>2. PICK x \in T : \A y \in T : <<y, x>> \notin Less
  BY <1>1, WFMin
<1>3. ASSUME NEW y \in T PROVE ~(y < x)
  <2>1. <<y, x>> \in Nat \X Nat /\ <<y, x>>[1] = y /\ <<y, x>>[2] = x
    OBVIOUS
  <2> QED
    BY <1>2, <2>1
<1>4. T \subseteq Nat
  OBVIOUS
<1> QED
  BY <1>2, <1>3, <1>4

LEMMA MaxIn ==
  ASSUME NEW n \in Nat, NEW t \in SUBSET (1 .. n), t # {}
  PROVE  Max(t) \in t /\ \A y \in t : Max(t) >= y
<1> DEFINE Below == {n - y : y \in t}
<1>1. Below \subseteq Nat /\ Below # {}
  <2>1. ASSUME NEW y \in t PROVE n - y \in Nat
    <3>1. y \in 1 .. n
      OBVIOUS
    <3> QED
      BY <3>1
  <2> QED
    BY <2>1
<1>2. PICK x \in Below : \A y \in Below : x <= y
  BY <1>1, Least
<1>3. PICK m \in t : x = n - m
  BY <1>2
<1>4. \A y \in t : m >= y
  <2>1. SUFFICES ASSUME NEW y \in t PROVE m >= y
    OBVIOUS
  <2>2. n - y \in Below
    OBVIOUS
  <2> QED
    BY <1>2, <1>3, <2>2
<1> QED
  BY <1>4 DEF Max

LEMMA MaxLast ==
  ASSUME NEW n \in Nat, NEW t \in SUBSET (1 .. n), n \in t
  PROVE  Max(t) = n
<1>1. Max(t) \in t /\ Max(t) >= n
  BY MaxIn
<1>2. Max(t) \in 1 .. n
  BY <1>1
<1> QED
  BY <1>1, <1>2

(* Reading one line more.                                                   *)
LEMMA ReadOneMore ==
  ASSUME NEW s \in Seq(Lines), NEW r \in Lines, Read(s)
  PROVE  /\ Read(Append(s, r))
         /\ FoldLeft(Accept, Fresh, Append(s, r))
              = Accept(FoldLeft(Accept, Fresh, s), r)
<1>1. PICK f : Reads(f, s) /\ \A g : Reads(g, s) => g = f
  BY DEF Read
<1> DEFINE n == Len(s)
           a == Append(s, r)
           G == [t \in SUBSET (1 .. n + 1) |->
                   IF n + 1 \in t THEN Accept(f[t \ {n + 1}], r) ELSE f[t]]
<1>2. /\ n \in Nat /\ DOMAIN s = 1 .. n /\ DOMAIN a = 1 .. n + 1
      /\ a[n + 1] = r /\ \A i \in 1 .. n : a[i] = s[i]
  OBVIOUS
<1> HIDE DEF n, a
<1>3. \A t \in SUBSET (1 .. n) :
        f[t] = IF t = {} THEN Fresh ELSE Accept(f[t \ {Max(t)}], s[Max(t)])
  BY <1>1, <1>2 DEF Reads
<1>4. \A t \in SUBSET (1 .. n + 1) : n + 1 \in t => Max(t) = n + 1
  BY <1>2, MaxLast
<1>5. \A t \in SUBSET (1 .. n) : t # {} => Max(t) \in 1 .. n
  BY <1>2, MaxIn
<1>6. ASSUME NEW t \in SUBSET (1 .. n + 1)
      PROVE  G[t] = IF t = {} THEN Fresh
                    ELSE Accept(G[t \ {Max(t)}], a[Max(t)])
  <2>1. CASE n + 1 \in t
    <3>1. Max(t) = n + 1 /\ t \ {n + 1} \in SUBSET (1 .. n)
      BY <1>2, <1>4, <2>1
    <3>2. G[t] = Accept(f[t \ {n + 1}], r)
      BY <2>1
    <3>3. G[t \ {n + 1}] = f[t \ {n + 1}]
      BY <1>2, <3>1
    <3> QED
      BY <1>2, <2>1, <3>1, <3>2, <3>3
  <2>2. CASE n + 1 \notin t
    <3>1. t \in SUBSET (1 .. n) /\ G[t] = f[t]
      BY <1>2, <2>2
    <3>2. ASSUME t # {}
          PROVE  /\ G[t \ {Max(t)}] = f[t \ {Max(t)}]
                 /\ a[Max(t)] = s[Max(t)]
      <4>1. Max(t) \in 1 .. n
        BY <1>5, <3>1, <3>2
      <4> QED
        BY <1>2, <2>2, <3>1, <4>1
    <3> QED
      BY <1>3, <3>1, <3>2
  <2> QED
    BY <2>1, <2>2
<1>7. Reads(G, a)
  <2>1. G = [t \in SUBSET (1 .. n + 1) |->
               IF t = {} THEN Fresh ELSE Accept(G[t \ {Max(t)}], a[Max(t)])]
    BY <1>6
  <2> QED
    BY <1>2, <2>1 DEF Reads
<1>8. ASSUME NEW k, Reads(k, a)
      PROVE  k = G
  <2>1. /\ k = [t \in SUBSET (1 .. n + 1) |->
                 IF t = {} THEN Fresh ELSE Accept(k[t \ {Max(t)}], a[Max(t)])]
    BY <1>2, <1>8 DEF Reads
  <2>2. \A t \in SUBSET (1 .. n + 1) :
          k[t] = IF t = {} THEN Fresh ELSE Accept(k[t \ {Max(t)}], a[Max(t)])
    BY <2>1
  <2> DEFINE K == [t \in SUBSET (1 .. n) |-> k[t]]
  <2>3. ASSUME NEW t \in SUBSET (1 .. n)
        PROVE  K[t] = IF t = {} THEN Fresh
                      ELSE Accept(K[t \ {Max(t)}], s[Max(t)])
    <3>1. t \in SUBSET (1 .. n + 1) /\ K[t] = k[t]
      BY <1>2
    <3>2. ASSUME t # {}
          PROVE  K[t \ {Max(t)}] = k[t \ {Max(t)}] /\ a[Max(t)] = s[Max(t)]
      BY <1>2, <1>5, <3>2
    <3> QED
      BY <2>2, <3>1, <3>2
  <2>4. K = f
    <3>1. K = [t \in SUBSET (1 .. n) |->
                 IF t = {} THEN Fresh ELSE Accept(K[t \ {Max(t)}], s[Max(t)])]
      BY <2>3
    <3>2. Reads(K, s)
      BY <1>2, <3>1 DEF Reads
    <3> QED
      BY <1>1, <3>2
  <2>5. \A t \in SUBSET (1 .. n) : k[t] = f[t]
    BY <2>4
  <2>6. ASSUME NEW t \in SUBSET (1 .. n + 1)
        PROVE  k[t] = G[t]
    <3>1. CASE n + 1 \in t
      <4>1. t \ {n + 1} \in SUBSET (1 .. n) /\ t # {}
        BY <1>2, <3>1
      <4> QED
        BY <1>2, <1>4, <2>2, <2>5, <3>1, <4>1
    <3>2. CASE n + 1 \notin t
      BY <1>2, <2>5, <3>2
    <3> QED
      BY <3>1, <3>2
  <2> QED
    BY <2>1, <2>6
<1>9. /\ FoldLeft(Accept, Fresh, s) = f[1 .. n]
      /\ FoldLeft(Accept, Fresh, a) = G[1 .. n + 1]
  BY <1>1, <1>2, <1>7, <1>8, FoldOf
<1>10. G[1 .. n + 1] = Accept(f[1 .. n], r)
  <2>1. (1 .. n + 1) \ {n + 1} = 1 .. n /\ n + 1 \in 1 .. n + 1
    BY <1>2
  <2> QED
    BY <2>1
<1> QED
  BY <1>7, <1>8, <1>9, <1>10 DEF Read, a

LEMMA ReadNothing ==
  Read(<<>>) /\ FoldLeft(Accept, Fresh, <<>>) = Fresh
<1> DEFINE F == [t \in SUBSET {} |-> Fresh]
<1>1. DOMAIN <<>> = {} /\ \A t \in SUBSET {} : t = {}
  OBVIOUS
<1>2. Reads(F, <<>>)
  BY <1>1 DEF Reads
<1>3. ASSUME NEW g, Reads(g, <<>>) PROVE g = F
  BY <1>1, <1>3 DEF Reads
<1>4. F[{}] = Fresh
  OBVIOUS
<1> QED
  BY <1>1, <1>2, <1>3, <1>4, FoldOf DEF Read

(* So the history of every journal is read line by line.                    *)
LEMMA EveryRead == \A s \in Seq(Lines) : Read(s)
<1> DEFINE Bad == {k \in Nat : \E s \in Seq(Lines) : Len(s) = k /\ ~Read(s)}
<1> SUFFICES ASSUME Bad # {} PROVE FALSE
  OBVIOUS
<1>1. PICK k \in Bad : \A j \in Bad : k <= j
  BY Least
<1>2. PICK s \in Seq(Lines) : Len(s) = k /\ ~Read(s)
  BY <1>1
<1>3. k # 0
  BY <1>2, ReadNothing, EmptySeq
<1> DEFINE m == k - 1
           front == [i \in 1 .. m |-> s[i]]
<1>4. k \in Nat /\ m \in Nat /\ k = m + 1 /\ s[k] \in Lines
  BY <1>1, <1>2, <1>3
<1>5. front \in Seq(Lines) /\ Len(front) = m
  BY <1>2, <1>4
<1>6. Append(front, s[k]) = s
  BY <1>2, <1>4, <1>5
<1>7. ~Read(front)
  BY <1>2, <1>4, <1>5, <1>6, ReadOneMore
<1>8. m \in Bad
  BY <1>4, <1>5, <1>7
<1> QED
  BY <1>1, <1>4, <1>8

LEMMA HistoryGrows ==
  ASSUME NEW s \in Seq(Lines), NEW r \in Lines
  PROVE  FoldLeft(Accept, Fresh, Append(s, r))
           = Accept(FoldLeft(Accept, Fresh, s), r)
BY EveryRead, ReadOneMore

-----------------------------------------------------------------------------
(* What the history has of the run that writes.                             *)

History == FoldLeft(Accept, Fresh, audit)
Histories ==
  [run : Runs \union {NoRun}, past : SUBSET Runs, index : Nat,
   pending : BOOLEAN, last : Nat, terminal : BOOLEAN, valid : BOOLEAN]

Unannounced == {"idle", "asked", "observing", "confirming", "opening", "intent"}
AtFirst == {"confirming", "opening", "intent"}  \* nothing of the session is gone
Going ==
  {"checking", "attempting", "recording", "completing", "failing", "failed"}
    \union Announced

(* The history is at the artifact at hand, its attempt open or not.         *)
AtLine(o) == History.index = index[o] - 1
Told(o) ==
  /\ pc[o] \in Unannounced => o \notin History.past
  /\ pc[o] \in AtFirst => index[o] = 1
  /\ pc[o] \in Going /\ ~torn =>
       /\ History.run = o /\ History.terminal = FALSE
       /\ pc[o] \in {"checking", "attempting"} =>
            AtLine(o) /\ History.pending = FALSE
       /\ pc[o] \in Announced \union {"recording"} =>
            AtLine(o) /\ History.pending = TRUE
       /\ pc[o] = "completing" => History.index = N /\ History.pending = FALSE
       /\ pc[o] = "failing" => AtLine(o) /\ History.index < N
       /\ pc[o] = "failed" =>
            \/ History.index = index[o] - 2 /\ History.index < N
            \/ /\ History.pending = FALSE
               /\ History.last # 0 /\ History.last = index[o] - 1

HistoryOK == History \in Histories /\ History.valid = TRUE
HInv == IInv /\ HistoryOK /\ \A o \in Runs : Told(o)

LEMMA BeginsTyped ==
  ASSUME NEW o \in Runs, NEW past \in SUBSET Runs
  PROVE  [run |-> o, past |-> past, index |-> 0, pending |-> FALSE, last |-> 0,
          terminal |-> FALSE, valid |-> TRUE] \in Histories
BY DEF Histories

LEMMA AcceptsIntent ==
  ASSUME NEW h \in Histories, h.valid = TRUE, NEW r, r.event = "intent",
         r.run \in Runs, r.run \notin h.past
  PROVE  /\ Accept(h, r) \in Histories
         /\ Accept(h, r).valid = TRUE
         /\ Accept(h, r).run = r.run
         /\ Accept(h, r).past = h.past \union {r.run}
         /\ Accept(h, r).index = 0
         /\ Accept(h, r).pending = FALSE
         /\ Accept(h, r).terminal = FALSE
<1>1. Accept(h, r) = [Fresh EXCEPT !.run = r.run, !.past = h.past \union {r.run}]
  BY DEF Accept, Begins
<1>2. h.past \union {r.run} \in SUBSET Runs
  BY DEF Histories
<1>3. Accept(h, r)
        = [run |-> r.run, past |-> h.past \union {r.run}, index |-> 0,
           pending |-> FALSE, last |-> 0, terminal |-> FALSE, valid |-> TRUE]
  BY <1>1 DEF Fresh
<1>4. Accept(h, r) \in Histories
  BY <1>2, <1>3, BeginsTyped
<1> QED
  BY <1>3, <1>4

LEMMA Updates ==
  ASSUME NEW h \in Histories, NEW i \in Nat
  PROVE  /\ [h EXCEPT !.pending = TRUE, !.last = 0] \in Histories
         /\ [h EXCEPT !.index = i, !.pending = FALSE, !.last = i] \in Histories
         /\ [h EXCEPT !.terminal = TRUE] \in Histories
BY DEF Histories

LEMMA AcceptsAttempt ==
  ASSUME NEW h \in Histories, h.valid = TRUE, NEW o \in Runs, h.run = o,
         h.terminal = FALSE, h.pending = FALSE, h.index < N,
         NEW i \in Int, i = h.index + 1
  PROVE  Accept(h, Record("attempt", o, i))
           = [h EXCEPT !.pending = TRUE, !.last = 0]
<1>1. Fits(h, Record("attempt", o, i))
  BY DEF Fits, Record
<1> QED
  BY <1>1 DEF Accept, Continues, Record

LEMMA AcceptsDeleted ==
  ASSUME NEW h \in Histories, h.valid = TRUE, NEW r, r.event = "deleted",
         r.run = h.run, h.terminal = FALSE, h.pending = TRUE, r.item = h.index + 1
  PROVE  /\ Accept(h, r) \in Histories
         /\ Accept(h, r).valid = TRUE
         /\ Accept(h, r).run = h.run
         /\ Accept(h, r).past = h.past
         /\ Accept(h, r).index = r.item
         /\ Accept(h, r).last = r.item
         /\ Accept(h, r).pending = FALSE
         /\ Accept(h, r).terminal = FALSE
<1>1. Fits(h, r)
  BY DEF Fits
<1>2. Accept(h, r)
        = [h EXCEPT !.index = h.index + 1, !.pending = FALSE, !.last = r.item]
  BY <1>1 DEF Accept, Continues
<1>3. r.item \in Nat
  BY DEF Histories
<1>4. Accept(h, r)
        = [h EXCEPT !.index = r.item, !.pending = FALSE, !.last = r.item]
  BY <1>2
<1>5. Accept(h, r) \in Histories
  BY <1>3, <1>4, Updates
<1> QED
  BY <1>4, <1>5 DEF Histories

LEMMA AcceptsEnd ==
  ASSUME NEW h \in Histories, h.valid = TRUE, NEW r, r.run = h.run,
         h.terminal = FALSE,
         \/ r.event = "completed" /\ h.index = N /\ h.pending = FALSE
         \/ /\ r.event = "failed"
            /\ \/ h.index < N /\ r.item = h.index + 1
               \/ h.pending = FALSE /\ h.last # 0 /\ r.item = h.last
  PROVE  Accept(h, r) = [h EXCEPT !.terminal = TRUE]
<1>1. Fits(h, r)
  BY DEF Fits
<1> QED
  BY <1>1 DEF Accept, Continues

(* What one append does to the history.                                     *)
LEMMA Appends ==
  ASSUME HInv, NEW r \in Lines, Synced(r) \/ AppendFails(r)
  PROVE  /\ torn => torn'
         /\ \/ History' = History
            \/ History' = Accept(History, r) /\ (torn' <=> torn)
         /\ Synced(r) /\ ~torn => History' = Accept(History, r)
<1>1. audit \in Seq(Lines)
  BY DEF HInv, IInv, Typed
<1>2. \/ audit' = audit /\ (torn => torn')
      \/ audit' = Append(audit, r) /\ (torn' <=> torn)
  BY DEF Synced, AppendFails, Unsynced, NotWritten, Written, Unwritten, TornOff,
         journal
<1>3. Synced(r) /\ ~torn => audit' = Append(audit, r)
  BY DEF Synced, Written
<1>4. audit' = Append(audit, r) => History' = Accept(History, r)
  BY <1>1, HistoryGrows DEF History
<1>5. audit' = audit => History' = History
  BY DEF History
<1> QED
  BY <1>2, <1>3, <1>4, <1>5

(* The others: their operation is not the one that writes.                  *)
LEMMA StaysTold ==
  ASSUME HInv, NEW u \in Runs, UNCHANGED <<pc[u], index[u]>>,
         pc[u] \in Unannounced => u \notin History'.past,
         pc[u] \in Going /\ ~torn' => ~torn /\ History' = History
  PROVE  Told(u)'
<1>1. Told(u)
  BY DEF HInv
<1>2. pc'[u] \in Unannounced => u \notin History'.past
  OBVIOUS
<1>3. pc'[u] \in AtFirst => index'[u] = 1
  BY <1>1 DEF Told
<1>4. CASE pc[u] \in Going /\ ~torn'
  BY <1>1, <1>2, <1>3, <1>4 DEF Told, AtLine
<1>5. CASE ~(pc[u] \in Going /\ ~torn')
  BY <1>2, <1>3, <1>5 DEF Told
<1> QED
  BY <1>4, <1>5

LEMMA GoingHolds ==
  /\ Going \subseteq Holding /\ Announced \subseteq Going
  /\ AtFirst \subseteq Unannounced
  /\ Going \intersect Unannounced = {}
  /\ Deleting \union Proved \union Moved \union Checked \subseteq Announced
BY DEF Going, Holding, Agreed, Clean, Announced, Checked, Moved, Proved, Deleting,
       Unannounced, AtFirst

(* A step that writes nothing leaves the history.                           *)
LEMMA QuietTold ==
  ASSUME HInv, NEW o \in Runs, UNCHANGED journal,
         UNCHANGED index \/ index' = [index EXCEPT ![o] = 1],
         NEW phase \in Phases, pc' = [pc EXCEPT ![o] = phase],
         \/ phase \in {"leaving", "ended"}
         \/ /\ pc[o] \in Unannounced /\ phase \in Unannounced
            /\ phase \in AtFirst => index'[o] = 1
         \/ /\ pc[o] = "checking" /\ phase = "attempting" /\ UNCHANGED index
         \/ /\ pc[o] \in Announced /\ UNCHANGED index
            /\ phase \in Announced \union {"recording"}
         \/ /\ pc[o] \in Announced \union {"checking"} /\ UNCHANGED index
            /\ phase = "failing"
  PROVE  Told(o)' /\ History' = History
<1>1. /\ History' = History /\ (torn' <=> torn) /\ Told(o)
      /\ pc'[o] = phase /\ Sure(o)
  BY DEF HInv, IInv, Typed, History, journal
<1>2. CASE phase \in {"leaving", "ended"}
  BY <1>1, <1>2
  DEF Told, Unannounced, AtFirst, Going, Announced, Checked, Moved, Proved,
      Deleting
<1>3. CASE /\ pc[o] \in Unannounced /\ phase \in Unannounced
           /\ phase \in AtFirst => index'[o] = 1
  <2>1. phase \notin Going
    BY <1>3, GoingHolds
  <2> QED
    BY <1>1, <1>3, <2>1 DEF Told
<1>4. CASE pc[o] = "checking" /\ phase = "attempting" /\ UNCHANGED index
  <2>1. /\ pc[o] \in Going /\ phase \in Going
        /\ phase \notin Unannounced /\ phase \notin AtFirst
        /\ phase \notin Announced
    BY <1>4
    DEF Going, Unannounced, AtFirst, Announced, Checked, Moved, Proved, Deleting
  <2> QED
    BY <1>1, <1>4, <2>1 DEF Told, AtLine
<1>5. CASE /\ pc[o] \in Announced /\ UNCHANGED index
           /\ phase \in Announced \union {"recording"}
  <2>1. /\ pc[o] \in Going /\ phase \in Going
        /\ phase \notin Unannounced /\ phase \notin AtFirst
        /\ phase \notin {"checking", "attempting", "completing", "failing", "failed"}
    BY <1>5
    DEF Going, Unannounced, AtFirst, Announced, Checked, Moved, Proved, Deleting
  <2> QED
    BY <1>1, <1>5, <2>1 DEF Told, AtLine
<1>6. CASE /\ pc[o] \in Announced \union {"checking"} /\ UNCHANGED index
           /\ phase = "failing"
  <2>1. /\ pc[o] \in Going /\ phase \in Going
        /\ phase \notin Unannounced /\ phase \notin AtFirst
        /\ phase \notin Announced /\ pc[o] \in Counting
    BY <1>6
    DEF Going, Unannounced, AtFirst, Announced, Checked, Moved, Proved, Deleting,
        Counting, Clean
  <2>2. index[o] \in 1 .. N
    BY <1>1, <2>1 DEF Sure, Counted, Items
  <2>3. ~torn => AtLine(o) /\ History.index < N
    <3>1. ~torn => AtLine(o)
      BY <1>1, <1>6, <2>1 DEF Told
    <3> QED
      BY <2>2, <3>1, NPositive DEF AtLine
  <2> QED
    BY <1>1, <1>6, <2>1, <2>3 DEF Told, AtLine
<1> QED
  BY <1>2, <1>3, <1>4, <1>5, <1>6

Quiet(o) ==
  \/ Preview(o) \/ TakeLease(o) \/ Observe(o) \/ Confirm(o) \/ OpenAudit(o)
  \/ Check(o) \/ Recheck(o) \/ Move(o) \/ Prove(o) \/ Authorise(o)
  \/ Delete(o) \/ Leave(o) \/ Decline(o) \/ Die(o)

LEMMA QuietSteps ==
  ASSUME HInv, NEW o \in Runs, Quiet(o)
  PROVE  Told(o)' /\ History' = History
<1> DEFINE Turns(phase) ==
      /\ phase \in Phases /\ pc' = [pc EXCEPT ![o] = phase]
      /\ \/ phase \in {"leaving", "ended"}
         \/ /\ pc[o] \in Unannounced /\ phase \in Unannounced
            /\ phase \in AtFirst => index'[o] = 1
         \/ /\ pc[o] = "checking" /\ phase = "attempting" /\ UNCHANGED index
         \/ /\ pc[o] \in Announced /\ UNCHANGED index
            /\ phase \in Announced \union {"recording"}
         \/ /\ pc[o] \in Announced \union {"checking"} /\ UNCHANGED index
            /\ phase = "failing"
<1>1. UNCHANGED journal
  BY DEF Quiet, Preview, TakeLease, Observe, Confirm, OpenAudit, Check, Recheck,
         Move, Prove, Authorise, Delete, Leave, Decline, Die
<1>2. UNCHANGED index \/ index' = [index EXCEPT ![o] = 1]
  BY DEF Quiet, Preview, TakeLease, Observe, Confirm, OpenAudit, Check, Recheck,
         Move, Prove, Authorise, Delete, Leave, Decline, Die, Refuses
<1>3. /\ index \in [Runs -> Int]
      /\ pc[o] \in AtFirst => index[o] = 1
  BY DEF HInv, IInv, Typed, Told
<1>4. /\ {"idle", "asked", "observing", "confirming", "opening", "intent", "leaving",
         "ended", "attempting", "failing", "recording"} \subseteq Phases
      /\ Announced \subseteq Phases
  BY DEF Phases, Holding, Agreed, Clean, Announced, Checked, Moved, Proved, Deleting
<1>5. {"rechecking", "moving", "proving", "authorising", "deleting"} \subseteq Announced
  BY DEF Announced, Checked, Moved, Proved, Deleting
<1>6. \E phase : Turns(phase)
  <2>1. CASE Leave(o) \/ Decline(o) \/ Die(o)
    <3>1. Turns("ended")
      BY <1>4, <2>1 DEF Leave, Decline, Die, Ends
    <3> QED
      BY <3>1
  <2>2. CASE Preview(o)
    <3>1. Turns("asked") \/ Turns("ended")
      BY <1>4, <2>2 DEF Preview, Ends, Unannounced, AtFirst
    <3> QED
      BY <3>1
  <2>3. CASE TakeLease(o)
    <3>1. Turns("observing") \/ Turns("ended")
      BY <1>4, <2>3 DEF TakeLease, Goes, Ends, Unannounced, AtFirst
    <3> QED
      BY <3>1
  <2>4. CASE Observe(o)
    <3>1. Turns("confirming") \/ Turns("leaving")
      BY <1>3, <1>4, <2>4 DEF Observe, Refuses, Unannounced, AtFirst
    <3> QED
      BY <3>1
  <2>5. CASE Confirm(o)
    <3>1. Turns("opening") \/ Turns("leaving")
      BY <1>3, <1>4, <2>5 DEF Confirm, Goes, Refuses, Unannounced, AtFirst
    <3> QED
      BY <3>1
  <2>6. CASE OpenAudit(o)
    <3>1. Turns("intent") \/ Turns("leaving")
      BY <1>3, <1>4, <2>6 DEF OpenAudit, Unannounced, AtFirst
    <3> QED
      BY <3>1
  <2>7. CASE Check(o)
    <3>1. Turns("attempting") \/ Turns("failing")
      BY <1>4, <2>7 DEF Check
    <3> QED
      BY <3>1
  <2>8. CASE Recheck(o)
    <3>1. Turns("moving") \/ Turns("failing")
      BY <1>4, <1>5, <2>8 DEF Recheck
    <3> QED
      BY <3>1
  <2>9. CASE Move(o)
    <3>1. Turns("proving") \/ Turns("failing")
      BY <1>4, <1>5, <2>9 DEF Move
    <3> QED
      BY <3>1
  <2>10. CASE Prove(o)
    <3>1. Turns("authorising") \/ Turns("failing")
      BY <1>4, <1>5, <2>10 DEF Prove
    <3> QED
      BY <3>1
  <2>11. CASE Authorise(o)
    <3>1. Turns("deleting") \/ Turns("failing")
      BY <1>4, <1>5, <2>11 DEF Authorise
    <3> QED
      BY <3>1
  <2>12. CASE Delete(o)
    <3>1. Turns("recording") \/ Turns("failing")
      BY <1>4, <1>5, <2>12 DEF Delete
    <3> QED
      BY <3>1
  <2> QED
    BY <2>1, <2>2, <2>3, <2>4, <2>5, <2>6, <2>7, <2>8, <2>9, <2>10, <2>11, <2>12
       DEF Quiet
<1> QED
  BY <1>1, <1>2, <1>6, QuietTold

(* The five lines, each in the phase that writes it.                        *)
Writes(o) ==
  Intent(o) \/ Attempt(o) \/ RecordDeleted(o) \/ RecordFailed(o) \/ Complete(o)

TellsOn(o) ==
  /\ HistoryOK' /\ Told(o)'
  /\ History'.past \subseteq History.past \union {o}

LEMMA Leaving ==
  ASSUME NEW o \in Runs, pc'[o] = "leaving"
  PROVE  Told(o)'
BY DEF Told, Unannounced, AtFirst, Going, Announced, Checked, Moved, Proved, Deleting

LEMMA IntentTold ==
  ASSUME HInv, NEW o \in Runs, Intent(o)
  PROVE  TellsOn(o)
<1> DEFINE r == Record("intent", o, 0)
           h == Accept(History, r)
<1>1. /\ pc[o] = "intent" /\ ~torn /\ o \notin History.past /\ index[o] = 1
      /\ History \in Histories /\ History.valid = TRUE
      /\ pc \in [Runs -> Phases] /\ index' = index
  BY DEF HInv, HistoryOK, IInv, Typed, Sure, Clean, Intent, Told, Unannounced,
         AtFirst
<1>2. r \in Lines
  BY RecordType DEF Events
<1>3. /\ h \in Histories /\ h.valid = TRUE /\ h.run = o
      /\ h.past = History.past \union {o} /\ h.index = 0
      /\ h.pending = FALSE /\ h.terminal = FALSE
  <2>1. r.event = "intent" /\ r.run = o
    BY DEF Record
  <2> HIDE DEF r
  <2> QED
    BY <1>1, <2>1, AcceptsIntent
<1> HIDE DEF h, r
<1>4. \/ Synced(r) /\ pc'[o] = "checking"
      \/ AppendFails(r) /\ pc'[o] = "leaving"
  BY <1>1 DEF Intent, AppendFails, r
<1>5. /\ History' = History \/ History' = h
      /\ Synced(r) => History' = h
  BY <1>1, <1>2, <1>4, Appends DEF h
<1>6. HistoryOK' /\ History'.past \subseteq History.past \union {o}
  BY <1>1, <1>3, <1>5 DEF HistoryOK, Histories
<1>7. ASSUME Synced(r), pc'[o] = "checking" PROVE Told(o)'
  BY <1>1, <1>3, <1>5, <1>7
  DEF Told, AtLine, Unannounced, AtFirst, Announced, Checked, Moved, Proved, Deleting
<1> QED
  BY <1>4, <1>6, <1>7, Leaving DEF TellsOn

LEMMA AttemptTold ==
  ASSUME HInv, NEW o \in Runs, Attempt(o)
  PROVE  TellsOn(o)
<1> DEFINE r == Record("attempt", o, index[o])
           h == Accept(History, r)
<1>1. /\ pc[o] = "attempting" /\ ~torn /\ index[o] \in 1 .. N
      /\ History \in Histories /\ History.valid = TRUE
      /\ pc \in [Runs -> Phases] /\ index' = index
  BY DEF HInv, HistoryOK, IInv, Typed, Sure, Clean, Attempt, Counting, Counted, Items
<1>2. /\ History.run = o /\ History.terminal = FALSE
      /\ History.index = index[o] - 1 /\ History.pending = FALSE
  BY <1>1 DEF HInv, Told, Going, AtLine
<1>3. r \in Lines
  BY <1>1, RecordType DEF Events
<1>4. History.index < N /\ index[o] = History.index + 1 /\ index[o] \in Int
  BY <1>1, <1>2, NPositive
<1>5. h = [History EXCEPT !.pending = TRUE, !.last = 0]
  BY <1>1, <1>2, <1>4, AcceptsAttempt
<1>6. /\ h \in Histories /\ h.valid = TRUE /\ h.run = o
      /\ h.past = History.past /\ h.index = History.index
      /\ h.pending = TRUE /\ h.terminal = FALSE
  <2>1. h \in Histories
    BY <1>1, <1>5, Updates
  <2> QED
    BY <1>1, <1>2, <1>5, <2>1 DEF Histories
<1> HIDE DEF h, r
<1>7. \/ Synced(r) /\ pc'[o] = "rechecking"
      \/ AppendFails(r) /\ pc'[o] = "failing"
  BY <1>1 DEF Attempt, r
<1>8. /\ History' = History \/ History' = h
      /\ Synced(r) => History' = h
  BY <1>1, <1>3, <1>7, Appends DEF h
<1>9. HistoryOK' /\ History'.past \subseteq History.past \union {o}
  BY <1>1, <1>6, <1>8 DEF HistoryOK
<1>10. ASSUME Synced(r), pc'[o] = "rechecking" PROVE Told(o)'
  BY <1>1, <1>2, <1>6, <1>8, <1>10
  DEF Told, AtLine, Unannounced, AtFirst
<1>11. ASSUME pc'[o] = "failing" PROVE Told(o)'
  BY <1>1, <1>2, <1>4, <1>6, <1>8, <1>11
  DEF Told, AtLine, Unannounced, AtFirst, Announced, Checked, Moved, Proved, Deleting
<1> QED
  BY <1>7, <1>9, <1>10, <1>11 DEF TellsOn

LEMMA DeletedTold ==
  ASSUME HInv, NEW o \in Runs, RecordDeleted(o)
  PROVE  TellsOn(o)
<1> DEFINE r == Record("deleted", o, index[o])
           h == Accept(History, r)
<1>1. /\ pc[o] = "recording" /\ ~torn /\ index[o] \in 1 .. N
      /\ History \in Histories /\ History.valid = TRUE
      /\ pc \in [Runs -> Phases] /\ index'[o] = index[o] + 1
  BY DEF HInv, HistoryOK, IInv, Typed, Sure, Clean, RecordDeleted, Counting, Counted,
         Items
<1>2. /\ History.run = o /\ History.terminal = FALSE
      /\ History.index = index[o] - 1 /\ History.pending = TRUE
  BY <1>1 DEF HInv, Told, Going, AtLine
<1>3. r \in Lines
  BY <1>1, RecordType DEF Events
<1>4. /\ History.index < N /\ index[o] = History.index + 1
      /\ index[o] \in Nat /\ index[o] \in Int /\ N \in Int
  BY <1>1, <1>2, NPositive
<1>5. r.event = "deleted" /\ r.run = o /\ r.item = index[o]
  BY DEF Record
<1> HIDE DEF r
<1>6. /\ h \in Histories /\ h.valid = TRUE /\ h.run = o
      /\ h.past = History.past /\ h.index = index[o] /\ h.last = index[o]
      /\ h.pending = FALSE /\ h.terminal = FALSE
  BY <1>1, <1>2, <1>4, <1>5, AcceptsDeleted
<1> HIDE DEF h
<1>7. \/ /\ Synced(r)
         /\ pc'[o] = IF index[o] = N THEN "completing" ELSE "checking"
      \/ AppendFails(r) /\ pc'[o] = "failed"
  BY <1>1 DEF RecordDeleted, r
<1>8. /\ History' = History \/ History' = h
      /\ Synced(r) => History' = h
  BY <1>1, <1>3, <1>7, Appends DEF h
<1>9. HistoryOK' /\ History'.past \subseteq History.past \union {o}
  BY <1>1, <1>6, <1>8 DEF HistoryOK
<1>10. ASSUME Synced(r), pc'[o] = "completing", index[o] = N PROVE Told(o)'
  BY <1>6, <1>8, <1>10
  DEF Told, AtLine, Unannounced, AtFirst, Announced, Checked, Moved, Proved, Deleting
<1>11. ASSUME Synced(r), pc'[o] = "checking" PROVE Told(o)'
  BY <1>1, <1>4, <1>6, <1>8, <1>11
  DEF Told, AtLine, Unannounced, AtFirst, Announced, Checked, Moved, Proved, Deleting
<1>12. ASSUME pc'[o] = "failed" PROVE Told(o)'
  <2>1. /\ History'.run = o /\ History'.terminal = FALSE
        /\ \/ History'.index = index'[o] - 2 /\ History'.index < N
           \/ /\ History'.pending = FALSE
              /\ History'.last # 0 /\ History'.last = index'[o] - 1
    BY <1>1, <1>2, <1>4, <1>6, <1>8
  <2> QED
    BY <1>12, <2>1
    DEF Told, Unannounced, AtFirst, Announced, Checked, Moved, Proved, Deleting
<1> QED
  BY <1>7, <1>9, <1>10, <1>11, <1>12 DEF TellsOn

(* The last line of an operation, from a state in which it is accepted.     *)
LEMMA EndTold ==
  ASSUME HInv, NEW o \in Runs, NEW r \in Lines, Synced(r) \/ AppendFails(r),
         pc'[o] = "leaving", ~torn => Accept(History, r)
                                        = [History EXCEPT !.terminal = TRUE]
  PROVE  TellsOn(o)
<1>1. History \in Histories /\ History.valid = TRUE
  BY DEF HInv, HistoryOK
<1>2. CASE torn
  <2>1. audit' = audit
    BY <1>2 DEF Synced, AppendFails, Unsynced, NotWritten, Written, Unwritten,
               TornOff, journal
  <2>2. History' = History
    BY <2>1 DEF History
  <2> QED
    BY <1>1, <2>2, Leaving DEF TellsOn, HistoryOK
<1>3. CASE ~torn
  <2> DEFINE h == [History EXCEPT !.terminal = TRUE]
  <2>1. h \in Histories
    BY <1>1, Updates
  <2>2. h.valid = TRUE /\ h.past = History.past
    BY <1>1 DEF Histories
  <2>3. History' = History \/ History' = h
    BY <1>3, Appends
  <2> HIDE DEF h
  <2> QED
    BY <1>1, <2>1, <2>2, <2>3, Leaving DEF TellsOn, HistoryOK
<1> QED
  BY <1>2, <1>3

LEMMA FailedTold ==
  ASSUME HInv, NEW o \in Runs, RecordFailed(o)
  PROVE  TellsOn(o)
<1> DEFINE i == IF pc[o] = "failed" THEN index[o] - 1 ELSE index[o]
           r == Record("failed", o, i)
<1>1. /\ pc[o] \in {"failing", "failed"} /\ index[o] \in Int
      /\ History \in Histories /\ History.valid = TRUE /\ pc'[o] = "leaving"
      /\ Synced(r) \/ AppendFails(r)
  BY DEF HInv, HistoryOK, IInv, Typed, RecordFailed
<1>2. i \in Int /\ r \in Lines
  BY <1>1, RecordType DEF Events
<1>3. ASSUME ~torn
      PROVE  /\ History.run = o /\ History.terminal = FALSE
             /\ \/ History.index < N /\ i = History.index + 1
                \/ /\ History.pending = FALSE
                   /\ History.last # 0 /\ i = History.last
  <2>1. Told(o) /\ pc[o] \in Going /\ History.index \in Int
    BY <1>1 DEF HInv, Going, Histories
  <2>2. CASE pc[o] = "failing"
    BY <1>1, <1>3, <2>1, <2>2 DEF Told, AtLine
  <2>3. CASE pc[o] = "failed"
    BY <1>1, <1>3, <2>1, <2>3 DEF Told
  <2> QED
    BY <1>1, <2>2, <2>3
<1>4. r.event = "failed" /\ r.run = o /\ r.item = i
  BY DEF Record
<1> HIDE DEF r, i
<1>5. ~torn => Accept(History, r) = [History EXCEPT !.terminal = TRUE]
  BY <1>1, <1>3, <1>4, AcceptsEnd
<1> QED
  BY <1>1, <1>2, <1>5, EndTold

LEMMA CompleteTold ==
  ASSUME HInv, NEW o \in Runs, Complete(o)
  PROVE  TellsOn(o)
<1> DEFINE r == Record("completed", o, 0)
<1>1. /\ pc[o] = "completing"
      /\ History \in Histories /\ History.valid = TRUE /\ pc'[o] = "leaving"
      /\ Synced(r) \/ AppendFails(r)
  BY DEF HInv, HistoryOK, IInv, Typed, Complete
<1>2. r \in Lines
  BY RecordType DEF Events
<1>3. ~torn => /\ History.run = o /\ History.terminal = FALSE
               /\ History.index = N /\ History.pending = FALSE
  BY <1>1 DEF HInv, Told, Going
<1>4. r.event = "completed" /\ r.run = o
  BY DEF Record
<1> HIDE DEF r
<1>5. ~torn => Accept(History, r) = [History EXCEPT !.terminal = TRUE]
  BY <1>1, <1>3, <1>4, AcceptsEnd
<1> QED
  BY <1>1, <1>2, <1>5, EndTold

(* Of the other runs none is past its announcement while this one writes.   *)
LEMMA BystanderTold ==
  ASSUME HInv, NEW o \in Runs, NEW u \in Runs, o # u,
         \/ Quiet(o) /\ UNCHANGED journal
         \/ Writes(o) /\ TellsOn(o)
  PROVE  Told(u)'
<1>1. UNCHANGED <<pc[u], index[u]>>
  BY DEF HInv, IInv, Typed, Quiet, Writes, Preview, TakeLease, Observe, Confirm,
         OpenAudit, Intent, Check, Attempt, Recheck, Move, Prove, Authorise, Delete,
         RecordDeleted, RecordFailed, Complete, Leave, Decline, Die, Ends, Goes,
         Refuses
<1>2. pc[u] \in Unannounced => u \notin History.past
  BY DEF HInv, Told
<1>3. CASE Quiet(o) /\ UNCHANGED journal
  <2>1. History' = History /\ (torn' <=> torn)
    BY <1>3 DEF History, journal
  <2> QED
    BY <1>1, <1>2, <2>1, StaysTold
<1>4. CASE Writes(o) /\ TellsOn(o)
  <2>1. pc[o] \in Holding
    BY <1>4
    DEF Writes, Intent, Attempt, RecordDeleted, RecordFailed, Complete, Holding,
        Agreed, Clean
  <2>2. pc[u] \in {"idle", "asked", "ended"}
    BY <2>1, OneHolds DEF HInv
  <2>3. pc[u] \notin Going
    BY <2>2 DEF Going, Announced, Checked, Moved, Proved, Deleting
  <2>4. pc[u] \in Unannounced => u \notin History'.past
    BY <1>2, <1>4 DEF TellsOn
  <2> QED
    BY <1>1, <2>3, <2>4, StaysTold
<1> QED
  BY <1>3, <1>4

LEMMA InitHInv == Init => HInv
<1> SUFFICES ASSUME Init PROVE HInv
  OBVIOUS
<1>1. History = Fresh
  BY ReadNothing DEF History, Init
<1>2. HistoryOK
  BY <1>1 DEF HistoryOK, Fresh, Histories
<1>3. ASSUME NEW o \in Runs PROVE Told(o)
  <2>1. pc[o] = "idle" /\ History.past = {}
    BY <1>1 DEF Init, Fresh
  <2> QED
    BY <2>1
    DEF Told, AtFirst, Going, Announced, Checked, Moved, Proved, Deleting
<1> QED
  BY <1>2, <1>3, InitIInv DEF HInv

LEMMA StepHInv == HInv /\ [Next]_vars => HInv'
<1> SUFFICES ASSUME HInv, [Next]_vars PROVE HInv'
  OBVIOUS
<1>1. IInv'
  BY StepIInv DEF HInv
<1>2. ASSUME NEW o \in Runs, Quiet(o) PROVE HInv'
  <2>1. Told(o)' /\ History' = History
    BY <1>2, QuietSteps
  <2>2. UNCHANGED journal
    BY <1>2
    DEF Quiet, Preview, TakeLease, Observe, Confirm, OpenAudit, Check, Recheck, Move,
        Prove, Authorise, Delete, Leave, Decline, Die
  <2>3. \A u \in Runs : u # o => Told(u)'
    BY <1>2, <2>2, BystanderTold
  <2> QED
    BY <1>1, <2>1, <2>3 DEF HInv, HistoryOK
<1>3. ASSUME NEW o \in Runs, Writes(o) PROVE HInv'
  <2>1. TellsOn(o)
    BY <1>3, IntentTold, AttemptTold, DeletedTold, FailedTold, CompleteTold DEF Writes
  <2>2. \A u \in Runs : u # o => Told(u)'
    BY <1>3, <2>1, BystanderTold
  <2> QED
    BY <1>1, <2>1, <2>2 DEF HInv, TellsOn
<1>4. ASSUME UNCHANGED <<journal, pc, index>> PROVE HInv'
  <2>1. History' = History /\ (torn' <=> torn)
    BY <1>4 DEF History, journal
  <2>2. \A u \in Runs : Told(u)'
    BY <1>4, <2>1 DEF HInv, Told, AtLine
  <2> QED
    BY <1>1, <2>1, <2>2 DEF HInv, HistoryOK
<1>5. UNCHANGED <<journal, pc, index>> \/ \E o \in Runs : Quiet(o) \/ Writes(o)
  <2>1. CASE \E o \in Runs : Step(o) \/ Decline(o) \/ Die(o)
    BY <2>1 DEF Step, Quiet, Writes
  <2>2. CASE \/ \E p \in Policies : SetPolicy(p)
             \/ \E i \in Items : Touch(i)
             \/ \E path \in {"target", "other"} : Start(path)
             \/ WorkerBegins \/ WorkerRecords
    BY <2>2 DEF SetPolicy, Touch, Start, WorkerBegins, WorkerRecords, run
  <2>3. CASE UNCHANGED vars
    BY <2>3 DEF vars, run
  <2> QED
    BY <2>1, <2>2, <2>3 DEF Next
<1> QED
  BY <1>2, <1>3, <1>4, <1>5

(* However a run fails, is cut off or dies, and whatever other runs wrote   *)
(* before it, AuditHistory accepts the lines that are complete              *)
(* (RetentionAudit, execute_retention, AuditHistory.accept).                *)
THEOREM AcceptedHistory == Spec => []HistoryAccepted
<1>1. HInv => HistoryAccepted
  BY DEF HInv, HistoryOK, History, HistoryAccepted, Accepts
<1> QED
  BY <1>1, InitHInv, StepHInv, PTL DEF Spec
=============================================================================
