----------------------- MODULE RecordingManagerProofs -----------------------
(***************************************************************************)
(* Proofs about RecordingManager for every number of slots, every set of   *)
(* pages, outputs and rooms, and every combination of failing reads and    *)
(* stores.  TypeOK is proved first, with what ties a controller's phase to *)
(* its job; then that what a pass has read stays sound while the workers   *)
(* move on, from which the exclusiveness of accepted starts follows.       *)
(***************************************************************************)
EXTENDS RecordingManager, TLAPS

(* A controller at work has a job and a parts directory; an unreadable     *)
(* store only ever leaves a blocked controller without one.                *)
SlotOK(c) ==
  /\ c.phase = "idle" => c.job # Corrupt
  /\ c.phase \in Capturing \cup Reconciling => c.job \in Jobs /\ c.parts
  /\ c.phase = "blocked" => \/ c.job \in Jobs /\ c.parts
                            \/ c.job = Corrupt /\ ~c.parts

SlotsOK == \A s \in Slots : SlotOK(mem[s])

DecideAtEnd == pc = "decide" => at = N

(* A slot that was seen available is still free: only the call that holds  *)
(* the lock can put it to work.                                            *)
SeenFree == \A s \in Slots : seen[s].health.available => mem[s].phase = "idle"

TInv == TypeOK /\ SlotsOK /\ DecideAtEnd /\ SeenFree

Verdicts == [owner : Owners \cup {NoOwner}, unknown : BOOLEAN]

-----------------------------------------------------------------------------
LEMMA FactsType == \A job \in Jobs : FactsOf(job) \in Owners
  BY PageOfAssumption DEF FactsOf, Jobs, Owners

LEMMA MergeType ==
  ASSUME NEW prior \in Owners \cup {NoOwner}, NEW facts \in Owners
  PROVE  Merge(prior, facts) \in Verdicts
<1>1. CASE prior = NoOwner
  BY <1>1 DEF Merge, Known, Verdicts
<1>2. CASE prior \in Owners
  <2>1. Completed(prior, facts) \in Owners
    BY <1>2 DEF Completed, Owners
  <2>2. Known(Completed(prior, facts)) \in Verdicts
    BY <2>1 DEF Known, Verdicts
  <2>3. Known(facts) \in Verdicts /\ Unknown(prior) \in Verdicts
    BY <1>2 DEF Known, Unknown, Verdicts
  <2>4. prior # NoOwner
    BY <1>2, OwnerAssumption
  <2>5. QED
    BY <2>2, <2>3, <2>4 DEF Merge
<1>3. QED
  BY <1>1, <1>2

LEMMA AfterStatusType ==
  ASSUME NEW prior \in Owners \cup {NoOwner}, NEW status \in Statuses,
         NEW health \in Healths
  PROVE  AfterStatus(prior, status, health) \in Verdicts
<1>1. status.facts \in Owners \cup {NoOwner}
  BY DEF Statuses
<1>2. [owner |-> prior, unknown |-> FALSE] \in Verdicts
      /\ Unknown(prior) \in Verdicts
  BY DEF Verdicts, Unknown
<1>3. status.facts # NoOwner => Merge(prior, status.facts) \in Verdicts
  BY <1>1, MergeType
<1>4. QED
  BY <1>2, <1>3 DEF AfterStatus

LEMMA AfterReadsType ==
  ASSUME NEW first \in Verdicts, NEW status \in Statuses, NEW health \in Healths
  PROVE  /\ \A facts \in Owners : AfterSnapshot(first, facts) \in Verdicts
         /\ AfterPartial(first) \in Verdicts
         /\ Released \in Verdicts
         /\ \A inactive \in BOOLEAN : AfterRecheck(first, inactive) \in Verdicts
         /\ AfterFailed(first, status, health) \in Verdicts
<1>1. first.owner \in Owners \cup {NoOwner} /\ first.unknown \in BOOLEAN
      /\ first = [owner |-> first.owner, unknown |-> first.unknown]
  BY DEF Verdicts
<1>2. \A facts \in Owners : AfterSnapshot(first, facts) \in Verdicts
  BY <1>1, MergeType DEF AfterSnapshot
<1>3. Released \in Verdicts /\ Unknown(first.owner) \in Verdicts
  BY <1>1 DEF Released, Unknown, Verdicts
<1>4. \A u \in BOOLEAN : [first EXCEPT !.unknown = u] \in Verdicts
  BY DEF Verdicts
<1>5. AfterFailed(first, status, health) \in Verdicts
  BY <1>1, <1>3, <1>4 DEF AfterFailed
<1>6. QED
  BY <1>2, <1>3, <1>5 DEF AfterPartial, AfterRecheck

LEMMA ReadsType ==
  ASSUME NEW c \in Slot
  PROVE  StatusOf(c) \in Statuses /\ HealthOf(c) \in Healths
<1>1. c.job \in Jobs \cup {NoJob, Corrupt}
  BY DEF Slot
<1>2. c.job \in Jobs => FactsOf(c.job) \in Owners
  BY FactsType
<1>3. StatusOf(c).facts \in Owners \cup {NoOwner}
  BY <1>1, <1>2 DEF StatusOf
<1>4. StatusOf(c).state \in {"idle", "job", "broken", "unavailable"}
  BY DEF StatusOf
<1>5. c.parts \in BOOLEAN /\ c.closed \in BOOLEAN
  BY DEF Slot
<1>6. StatusOf(c) \in Statuses
  BY <1>3, <1>4, <1>5 DEF StatusOf, Statuses, Active
<1>7. QED
  BY <1>5, <1>6 DEF HealthOf, Healths, Active, Blocked

LEMMA NoReadsType ==
  NoStatus \in Statuses /\ NoHealth \in Healths /\ NotSeen \in Entry
  BY DEF NoStatus, NoHealth, NotSeen, Statuses, Healths, Entry

-----------------------------------------------------------------------------
(* Jobs keep their type through every update the actions make.             *)
LEMMA JobUpdates ==
  ASSUME NEW job \in Jobs
  PROVE  /\ Settled(job) \in Jobs /\ Stopped(job) \in Jobs
         /\ \A r \in Rooms : [job EXCEPT !.room = r] \in Jobs
         /\ Settled(job) \notin {NoJob, Corrupt}
         /\ Stopped(job) \notin {NoJob, Corrupt}
<1>1. Settled(job) \in Jobs /\ Stopped(job) \in Jobs
      /\ \A r \in Rooms : [job EXCEPT !.room = r] \in Jobs
  BY DEF Settled, Stopped, Jobs, MaybeRoom
<1>2. QED
  BY <1>1, SpecialAssumption

LEMMA InitTInv == Init => TInv
<1> SUFFICES ASSUME Init PROVE TInv
  OBVIOUS
<1>1. IdleSlot \in Slot /\ SlotOK(IdleSlot)
  BY SpecialAssumption DEF IdleSlot, Slot, SlotOK, Phases, Capturing,
     Reconciling, MaybeRoom
<1>2. SlotsOK /\ DecideAtEnd
  BY <1>1 DEF Init, SlotsOK, DecideAtEnd
<1>3. 1 \in Slots
  BY NAssumption DEF Slots
<1>4. seen \in [Slots -> Entry]
  BY NoReadsType DEF Init, Unseen
<1>5. SeenFree
  BY DEF Init, Unseen, NotSeen, NoHealth, SeenFree
<1>6. QED
  BY <1>1, <1>2, <1>3, <1>4, <1>5 DEF TInv, TypeOK, Init

(* A worker's section keeps the types and the tie between phase and job.   *)
LEMMA WorkerTInv ==
  ASSUME TInv, NEW s \in Slots, Worker(s)
  PROVE  TInv'
<1> USE DEF Slot, SlotOK, Phases, Capturing, Reconciling
<1>1. mem[s] \in Slot /\ SlotOK(mem[s]) /\ disk[s] \in Jobs \cup {NoJob, Corrupt}
  BY DEF TInv, TypeOK, SlotsOK
<1>2. /\ \E c \in Slot : SlotOK(c) /\ mem' = [mem EXCEPT ![s] = c]
      /\ \E d \in Jobs \cup {NoJob, Corrupt} : disk' = [disk EXCEPT ![s] = d]
  <2>0. disk' = disk => \E d \in Jobs \cup {NoJob, Corrupt} :
                          disk' = [disk EXCEPT ![s] = d]
    BY <1>1 DEF TInv, TypeOK
  <2>1. CASE PublishRoom(s)
    <3>1. PICK r \in Rooms :
            LET job == [mem[s].job EXCEPT !.room = r] IN
            /\ mem' = [mem EXCEPT ![s].job = job]
            /\ \E d \in Written(s, job) : disk' = [disk EXCEPT ![s] = d]
      BY <2>1, <1>1 DEF PublishRoom, MaybeRoom
    <3> DEFINE job == [mem[s].job EXCEPT !.room = r]
    <3>2. mem[s].job \in Jobs /\ job \in Jobs
      BY <2>1, <1>1, JobUpdates DEF PublishRoom
    <3>3. [mem[s] EXCEPT !.job = job] \in Slot
          /\ SlotOK([mem[s] EXCEPT !.job = job])
          /\ mem' = [mem EXCEPT ![s] = [mem[s] EXCEPT !.job = job]]
      BY <2>1, <1>1, <3>1, <3>2 DEF PublishRoom, TInv, TypeOK
    <3>4. \E d \in Jobs \cup {NoJob, Corrupt} : disk' = [disk EXCEPT ![s] = d]
      BY <1>1, <3>1, <3>2 DEF Written
    <3>5. QED
      BY <3>3, <3>4
  <2>2. CASE WorkerEnds(s)
    <3>1. mem[s].job \in Jobs
      BY <2>2, <1>1 DEF WorkerEnds
    <3>2. PICK job \in {Settled(mem[s].job), mem[s].job}, p \in {"idle", "blocked"} :
            /\ mem' = [mem EXCEPT ![s].phase = p, ![s].job = job]
            /\ \E d \in Written(s, job) : disk' = [disk EXCEPT ![s] = d]
      BY <2>2 DEF WorkerEnds
    <3>3. job \in Jobs
      BY <3>1, JobUpdates
    <3> DEFINE c == [mem[s] EXCEPT !.phase = p, !.job = job]
    <3>4. c \in Slot /\ SlotOK(c) /\ mem' = [mem EXCEPT ![s] = c]
      BY <2>2, <1>1, <3>2, <3>3, SpecialAssumption DEF WorkerEnds, TInv, TypeOK
    <3>5. \E d \in Jobs \cup {NoJob, Corrupt} : disk' = [disk EXCEPT ![s] = d]
      BY <1>1, <3>2, <3>3 DEF Written
    <3>6. QED
      BY <3>4, <3>5
  <2>3. CASE RecoverySaves(s)
    <3> DEFINE c == [mem[s] EXCEPT !.phase = "settling"]
    <3>1. c \in Slot /\ SlotOK(c) /\ mem' = [mem EXCEPT ![s] = c]
      BY <2>3, <1>1 DEF RecoverySaves, TInv, TypeOK
    <3>2. Settled(mem[s].job) \in Jobs
      BY <2>3, <1>1, JobUpdates DEF RecoverySaves
    <3>3. QED
      BY <2>3, <3>1, <3>2 DEF RecoverySaves
  <2>4. CASE RecoverySettles(s)
    <3> DEFINE c == [mem[s] EXCEPT !.phase = "idle", !.job = Settled(mem[s].job)]
    <3>1. Settled(mem[s].job) \in Jobs
      BY <2>4, <1>1, JobUpdates DEF RecoverySettles
    <3>2. c \in Slot /\ SlotOK(c) /\ mem' = [mem EXCEPT ![s] = c]
      BY <2>4, <1>1, <3>1, SpecialAssumption DEF RecoverySettles, TInv, TypeOK
    <3>3. QED
      BY <2>4, <2>0, <3>2 DEF RecoverySettles
  <2>5. CASE RecoveryDecides(s) \/ RecoveryResumes(s) \/ RecoveryBlocks(s)
    <3>1. PICK p \in {"resuming", "resumed", "blocked"} :
            mem' = [mem EXCEPT ![s].phase = p]
      BY <2>5 DEF RecoveryDecides, RecoveryResumes, RecoveryBlocks
    <3> DEFINE c == [mem[s] EXCEPT !.phase = p]
    <3>2. mem[s].phase \in Reconciling
      BY <2>5 DEF RecoveryDecides, RecoveryResumes, RecoveryBlocks
    <3>3. c \in Slot /\ SlotOK(c) /\ mem' = [mem EXCEPT ![s] = c]
      BY <1>1, <3>1, <3>2 DEF TInv, TypeOK
    <3>4. QED
      BY <2>5, <2>0, <3>3 DEF RecoveryDecides, RecoveryResumes, RecoveryBlocks
  <2>6. QED
    BY <2>1, <2>2, <2>3, <2>4, <2>5 DEF Worker
<1>3. mem[s].phase # "idle"
  BY DEF Worker, PublishRoom, WorkerEnds, RecoverySaves, RecoverySettles,
     RecoveryDecides, RecoveryResumes, RecoveryBlocks
<1>4. SeenFree'
  BY <1>2, <1>3 DEF TInv, TypeOK, SeenFree, Worker, scan
<1>5. QED
  BY <1>2, <1>4 DEF TInv, TypeOK, SlotsOK, DecideAtEnd, Worker, scan

(* What every verdict of a pass does to the types.                         *)
LEMMA ConcludeType ==
  ASSUME TInv, NEW verdict \in Verdicts, Conclude(verdict)
  PROVE  /\ owners' \in [Slots -> Owners \cup {NoOwner}]
         /\ seen' \in [Slots -> Entry]
         /\ pc' \in {"status", "decide"} /\ at' \in Slots
         /\ DecideAtEnd'
         /\ \A s \in Slots : seen'[s].health = seen[s].health
<1>1. verdict.owner \in Owners \cup {NoOwner} /\ verdict.unknown \in BOOLEAN
  BY DEF Verdicts
<1>2. [seen[at] EXCEPT !.unknown = verdict.unknown] \in Entry
  BY <1>1 DEF TInv, TypeOK, Entry
<1>3. at # N => at + 1 \in Slots
  BY NAssumption DEF TInv, TypeOK, Slots
<1>4. seen' = [seen EXCEPT ![at] = [seen[at] EXCEPT !.unknown = verdict.unknown]]
  BY DEF Conclude, TInv, TypeOK
<1>5. \A s \in Slots : seen'[s].health = seen[s].health
  BY <1>4 DEF TInv, TypeOK, Entry
<1>6. QED
  BY <1>1, <1>2, <1>3, <1>4, <1>5 DEF Conclude, TInv, TypeOK, DecideAtEnd

LEMMA FirstType ==
  ASSUME TInv
  PROVE  /\ First \in Verdicts
         /\ seen[at].status \in Statuses /\ seen[at].health \in Healths
         /\ owners[at] \in Owners \cup {NoOwner}
  BY DEF TInv, TypeOK, First, Verdicts, Entry

LEMMA ReadTInv ==
  ASSUME TInv, ReadStatus \/ ReadHealth
  PROVE  TInv'
<1>1. at \in Slots /\ mem[at] \in Slot
  BY DEF TInv, TypeOK
<1>2. CASE ReadStatus
  <2>1. PICK status \in Statuses : seen' = [seen EXCEPT ![at].status = status]
    BY <1>1, <1>2, ReadsType, NoReadsType DEF ReadStatus
  <2>2. [seen[at] EXCEPT !.status = status] \in Entry
    BY <1>1 DEF TInv, TypeOK, Entry
  <2>3. seen' = [seen EXCEPT ![at] = [seen[at] EXCEPT !.status = status]]
    BY <2>1 DEF TInv, TypeOK
  <2>4. clean' \in BOOLEAN /\ SeenFree'
    BY <1>2, <2>3 DEF ReadStatus, TInv, TypeOK, SeenFree, Entry, cvars
  <2>5. QED
    BY <1>2, <2>2, <2>3, <2>4 DEF ReadStatus, TInv, TypeOK, SlotsOK,
       DecideAtEnd, cvars
<1>3. CASE ReadHealth
  <2>1. PICK ok \in BOOLEAN :
          LET health == IF ok THEN HealthOf(mem[at]) ELSE NoHealth
              first == AfterStatus(owners[at], seen[at].status, health) IN
          /\ seen' = [seen EXCEPT ![at].health = health,
                                  ![at].unknown = first.unknown]
          /\ owners' = [owners EXCEPT ![at] = first.owner]
          /\ clean' = (clean /\ ok)
    BY <1>3 DEF ReadHealth
  <2> DEFINE health == IF ok THEN HealthOf(mem[at]) ELSE NoHealth
             first == AfterStatus(owners[at], seen[at].status, health)
             entry == [seen[at] EXCEPT !.health = health,
                                       !.unknown = first.unknown]
  <2>2. health \in Healths
    BY <1>1, ReadsType, NoReadsType
  <2>3. first \in Verdicts
    BY <2>2, FirstType, AfterStatusType
  <2>4. first.owner \in Owners \cup {NoOwner} /\ first.unknown \in BOOLEAN
    BY <2>3 DEF Verdicts
  <2> HIDE DEF health, first
  <2>5. entry \in Entry
    BY <1>1, <2>2, <2>4 DEF TInv, TypeOK, Entry
  <2>6. seen' = [seen EXCEPT ![at] = entry]
        /\ owners' = [owners EXCEPT ![at] = first.owner]
    BY <2>1 DEF TInv, TypeOK, health, first
  <2>7. clean' \in BOOLEAN
    BY <2>1 DEF TInv, TypeOK
  <2>8. health.available => mem[at].phase = "idle"
    BY <1>1 DEF health, HealthOf, NoHealth, Active, Blocked, Slot, Phases
  <2>9. SeenFree'
    <3>1. \A t \in Slots : seen'[t].health = IF t = at THEN health
                                             ELSE seen[t].health
      BY <2>6 DEF TInv, TypeOK, Entry
    <3>2. QED
      BY <1>3, <2>8, <3>1 DEF ReadHealth, TInv, SeenFree, cvars
  <2>10. QED
    BY <1>3, <2>4, <2>5, <2>6, <2>7, <2>9 DEF ReadHealth, TInv, TypeOK, SlotsOK,
       DecideAtEnd, cvars
<1>4. QED
  BY <1>2, <1>3

LEMMA OwnershipTInv ==
  ASSUME TInv, ReadOwnership \/ Recheck
  PROVE  TInv'
<1>1. at \in Slots /\ mem[at] \in Slot
  BY DEF TInv, TypeOK
<1>2. /\ clean' \in BOOLEAN
      /\ \/ \E verdict \in Verdicts : Conclude(verdict)
         \/ pc' = "recheck" /\ UNCHANGED <<owners, seen, at>>
  <2>1. CASE ReadOwnership /\ ReadCurrent
    <3>1. FactsOf(mem[at].job) \in Owners
      BY <1>1, <2>1, FactsType DEF ReadCurrent, Current, Slot
    <3>2. SnapshotsOf(mem[at]) \subseteq Owners
      BY <3>1 DEF SnapshotsOf, Owners
    <3>3. QED
      BY <2>1, <3>2, FirstType, AfterReadsType DEF ReadCurrent, TInv, TypeOK
  <2>2. CASE ReadOwnership /\ ReadNotCurrent
    BY <2>2, FirstType, AfterReadsType DEF ReadNotCurrent, TInv, TypeOK
  <2>3. CASE ReadOwnership /\ ~ReadCurrent /\ ~ReadNotCurrent
    BY <2>3, FirstType, AfterReadsType DEF ReadOwnership
  <2>4. CASE Recheck
    <3>1. PICK ok \in BOOLEAN :
            /\ Conclude(AfterRecheck(First, ok /\ ~HealthOf(mem[at]).active))
            /\ clean' = (clean /\ ok)
      BY <2>4 DEF Recheck
    <3>2. (ok /\ ~HealthOf(mem[at]).active) \in BOOLEAN
      OBVIOUS
    <3>3. QED
      BY <3>1, <3>2, FirstType, AfterReadsType DEF TInv, TypeOK
  <2>5. QED
    BY <2>1, <2>2, <2>3, <2>4
<1>3. /\ owners' \in [Slots -> Owners \cup {NoOwner}]
      /\ seen' \in [Slots -> Entry]
      /\ pc' \in {"status", "decide", "recheck"} /\ at' \in Slots
      /\ DecideAtEnd'
      /\ \A s \in Slots : seen'[s].health = seen[s].health
  BY <1>2, ConcludeType DEF TInv, TypeOK, DecideAtEnd
<1>4. SeenFree'
  BY <1>3 DEF ReadOwnership, Recheck, TInv, SeenFree, cvars
<1>5. QED
  BY <1>2, <1>3, <1>4 DEF ReadOwnership, Recheck, TInv, TypeOK, SlotsOK, cvars

(* Letting the lock go leaves the scan in its types.                       *)
LEMMA ReleaseType ==
  ASSUME TInv, Release
  PROVE  /\ pc' = "free" /\ at' \in Slots /\ seen' \in [Slots -> Entry]
         /\ crashes' \in Nat /\ clean' \in BOOLEAN /\ DecideAtEnd'
         /\ SeenFree'
<1>1. SeenFree'
  BY DEF Release, SeenFree, Unseen, NotSeen, NoHealth
<1>2. QED
  BY <1>1, NAssumption, NoReadsType DEF Release, TInv, TypeOK, Unseen, Slots,
     DecideAtEnd

LEMMA NewJobType ==
  ASSUME TInv, NEW r \in Starts
  PROVE  NewJob(r) \in Jobs /\ Settled(NewJob(r)) \in Jobs
<1>1. NewJob(r) \in Jobs
  BY DEF TInv, TypeOK, NewJob, Jobs, Starts, MaybeRoom
<1>2. QED
  BY <1>1, JobUpdates

LEMMA StartTInv ==
  ASSUME TInv, NEW s \in Slots, NEW r \in Starts,
         StartFindsPath(s, r) \/ LaunchFails(s, r) \/ StartAccepted(s, r)
  PROVE  TInv'
<1> USE DEF Slot, SlotOK, Phases, Capturing, Reconciling
<1>1. mem[s] \in Slot /\ SlotOK(mem[s]) /\ disk[s] \in Jobs \cup {NoJob, Corrupt}
      /\ sessions + 1 \in Nat
  BY DEF TInv, TypeOK, SlotsOK
<1>2. NewJob(r) \in Jobs /\ Settled(NewJob(r)) \in Jobs
      /\ Settled(NewJob(r)) \notin {NoJob, Corrupt}
      /\ NewJob(r) \notin {NoJob, Corrupt}
  BY NewJobType, SpecialAssumption
<1>3. CASE StartFindsPath(s, r)
  <2> DEFINE c == [mem[s] EXCEPT !.parts = TRUE]
  <2>1. mem' = [mem EXCEPT ![s] = c] /\ c \in Slot
    BY <1>1, <1>3 DEF StartFindsPath, TInv, TypeOK
  <2>2. mem[s].phase = "idle"
    BY <1>3 DEF StartFindsPath, Allocates, Selected, Offered, TInv, SeenFree
  <2>3. SlotOK(c)
    BY <1>1, <2>2
  <2>4. QED
    BY <1>3, <2>1, <2>3, ReleaseType DEF StartFindsPath, TInv, TypeOK, SlotsOK
<1>4. CASE LaunchFails(s, r)
  <2> DEFINE job == Settled(NewJob(r))
             c == [mem[s] EXCEPT !.job = job, !.parts = TRUE, !.expected = NoRoom]
  <2>0. mem[s].phase = "idle"
    BY <1>4 DEF LaunchFails, Allocates, Selected, Offered, TInv, SeenFree
  <2>1. mem' = [mem EXCEPT ![s] = c] /\ c \in Slot /\ SlotOK(c)
    BY <1>1, <1>2, <1>4, <2>0 DEF LaunchFails, TInv, TypeOK, MaybeRoom
  <2>2. disk' \in [Slots -> Jobs \cup {NoJob, Corrupt}]
    BY <1>1, <1>2, <1>4 DEF LaunchFails, Written, TInv, TypeOK
  <2>3. QED
    BY <1>1, <1>4, <2>1, <2>2, ReleaseType DEF LaunchFails, TInv, TypeOK, SlotsOK
<1>5. CASE StartAccepted(s, r)
  <2> DEFINE c == [phase |-> "running", closed |-> mem[s].closed,
                   parts |-> TRUE, job |-> NewJob(r), expected |-> r.room]
             owner == [FactsOf(NewJob(r)) EXCEPT !.room = r.room]
  <2>1. mem' = [mem EXCEPT ![s] = c] /\ c \in Slot /\ SlotOK(c)
    BY <1>1, <1>2, <1>5 DEF StartAccepted, TInv, TypeOK, Starts
  <2>2. owner \in Owners
    BY <1>2, FactsType DEF Starts, Owners
  <2>3. QED
    BY <1>1, <1>2, <1>5, <2>1, <2>2, ReleaseType
    DEF StartAccepted, TInv, TypeOK, SlotsOK
<1>6. QED
  BY <1>3, <1>4, <1>5

LEMMA StopTInv ==
  ASSUME TInv, NEW s \in Slots, NEW session \in Nat, Stop(s, session)
  PROVE  TInv'
<1>1. mem[s] \in Slot /\ SlotOK(mem[s]) /\ disk[s] \in Jobs \cup {NoJob, Corrupt}
  BY DEF TInv, TypeOK, SlotsOK
<1>2. /\ mem' \in [Slots -> Slot] /\ SlotsOK'
      /\ disk' \in [Slots -> Jobs \cup {NoJob, Corrupt}]
  <2>1. CASE mem[s].phase # "idle" /\ mem[s].parts
    <3> DEFINE job == Stopped(mem[s].job)
               c == [mem[s] EXCEPT !.job = job]
    <3>1. mem[s].job \in Jobs
      BY <1>1, <2>1 DEF SlotOK, Slot, Phases, Capturing, Reconciling
    <3>2. job \in Jobs /\ job \notin {NoJob, Corrupt}
      BY <3>1, JobUpdates
    <3> HIDE DEF job
    <3>3. mem' = [mem EXCEPT ![s] = c] /\ c \in Slot /\ SlotOK(c)
      BY <1>1, <2>1, <3>2 DEF Stop, StopSlot, TInv, TypeOK, Slot, SlotOK, job
    <3>4. \E d \in Written(s, job) : disk' = [disk EXCEPT ![s] = d]
      BY <2>1 DEF Stop, StopSlot, job
    <3>5. QED
      BY <1>1, <3>2, <3>3, <3>4 DEF Written, TInv, TypeOK, SlotsOK
  <2>2. CASE ~(mem[s].phase # "idle" /\ mem[s].parts)
    BY <2>2 DEF Stop, StopSlot, cvars, TInv, TypeOK, SlotsOK
  <2>3. QED
    BY <2>1, <2>2
<1>3. QED
  BY <1>2, ReleaseType DEF Stop, TInv, TypeOK

LEMMA ShutdownSlotTInv ==
  ASSUME TInv, NEW s \in Slots, ShutdownSlot(s)
  PROVE  TInv'
<1>1. mem[s] \in Slot /\ SlotOK(mem[s]) /\ disk[s] \in Jobs \cup {NoJob, Corrupt}
  BY DEF TInv, TypeOK, SlotsOK
<1>2. /\ \E c \in Slot : /\ SlotOK(c) /\ mem' = [mem EXCEPT ![s] = c]
                          /\ c.phase = mem[s].phase
      /\ disk' \in [Slots -> Jobs \cup {NoJob, Corrupt}]
  <2>1. CASE Active(mem[s])
    <3> DEFINE job == Stopped(mem[s].job)
               c == [mem[s] EXCEPT !.closed = TRUE, !.job = job]
    <3>1. mem[s].job \in Jobs
      BY <1>1, <2>1 DEF SlotOK, Active
    <3>2. job \in Jobs /\ job \notin {NoJob, Corrupt}
      BY <3>1, JobUpdates
    <3> HIDE DEF job
    <3>3. c \in Slot /\ SlotOK(c)
      <4>1. c \in Slot
        BY <1>1, <3>2 DEF Slot
      <4>2. SlotOK(c)
        BY <1>1, <2>1, <3>2 DEF Slot, SlotOK, Active
      <4>3. QED
        BY <4>1, <4>2
    <3>6. mem' = [mem EXCEPT ![s] = c]
      BY <1>1, <2>1 DEF ShutdownSlot, TInv, TypeOK, Slot, job
    <3>4. \E d \in Written(s, job) : disk' = [disk EXCEPT ![s] = d]
      BY <2>1 DEF ShutdownSlot, job
    <3>5. QED
      <4>1. disk' \in [Slots -> Jobs \cup {NoJob, Corrupt}]
        BY <1>1, <3>2, <3>4 DEF Written, TInv, TypeOK
      <4>2. c.phase = mem[s].phase
        BY <1>1 DEF Slot
      <4>3. QED
        BY <3>3, <3>6, <4>1, <4>2
  <2>2. CASE ~Active(mem[s])
    <3> DEFINE c == [mem[s] EXCEPT !.closed = TRUE]
    <3>1. mem' = [mem EXCEPT ![s] = c] /\ c \in Slot /\ SlotOK(c)
      BY <1>1, <2>2 DEF ShutdownSlot, TInv, TypeOK, Slot, SlotOK
    <3>2. QED
      BY <1>1, <2>2, <3>1 DEF ShutdownSlot, TInv, TypeOK, Slot
  <2>3. QED
    BY <2>1, <2>2
<1>3. QED
  BY <1>2 DEF ShutdownSlot, TInv, TypeOK, SlotsOK, SeenFree, DecideAtEnd, scan

LEMMA LoadedType ==
  ASSUME NEW stores \in [Slots -> Jobs \cup {NoJob, Corrupt}], NEW s \in Slots
  PROVE  Loaded(s, stores) \in Slot /\ SlotOK(Loaded(s, stores))
<1> USE DEF Slot, SlotOK, Phases, Capturing, Reconciling
<1>1. IdleSlot \in Slot /\ SlotOK(IdleSlot)
  BY SpecialAssumption DEF IdleSlot, MaybeRoom
<1>2. CASE stores[s] = NoJob
  BY <1>1, <1>2 DEF Loaded
<1>3. CASE stores[s] # NoJob /\ (stores[s] = Corrupt \/ Collides(s, stores))
  BY <1>1, <1>3, SpecialAssumption DEF Loaded, IdleSlot
<1>4. CASE stores[s] # NoJob /\ ~(stores[s] = Corrupt \/ Collides(s, stores))
  BY <1>1, <1>4, SpecialAssumption DEF Loaded, IdleSlot
<1>5. QED
  BY <1>2, <1>3, <1>4

LEMMA RestartTInv == TInv /\ Restart => TInv'
<1> SUFFICES ASSUME TInv, Restart PROVE TInv'
  OBVIOUS
<1>1. disk' \in [Slots -> Jobs \cup {NoJob, Corrupt}]
  BY DEF Restart, TInv, TypeOK
<1>2. mem' \in [Slots -> Slot] /\ SlotsOK'
  BY <1>1, LoadedType DEF Restart, SlotsOK
<1>3. SeenFree' /\ DecideAtEnd'
  BY DEF Restart, SeenFree, Unseen, NotSeen, NoHealth, DecideAtEnd
<1>4. seen' \in [Slots -> Entry] /\ at' \in Slots
  BY NoReadsType, NAssumption DEF Restart, Unseen, Slots
<1>5. /\ owners' = [s \in Slots |-> NoOwner] /\ closed' = FALSE
      /\ pc' = "free" /\ claimed' = [s \in Slots |-> FALSE] /\ clean' = TRUE
      /\ crashes' = crashes + 1 /\ sessions' = sessions
  BY DEF Restart
<1>6. owners' \in [Slots -> Owners \cup {NoOwner}]
      /\ claimed' \in [Slots -> BOOLEAN]
  BY <1>5
<1>7. crashes' \in Nat /\ sessions' \in Nat
  BY <1>5 DEF TInv, TypeOK
<1>8. TypeOK'
  BY <1>1, <1>2, <1>4, <1>5, <1>6, <1>7 DEF TypeOK
<1>9. QED
  BY <1>2, <1>3, <1>8 DEF TInv

LEMMA NextTInv == TInv /\ [Next]_vars => TInv'
<1> SUFFICES ASSUME TInv, [Next]_vars PROVE TInv'
  OBVIOUS
<1>1. CASE Call
  BY <1>1, NAssumption DEF Call, TInv, TypeOK, SlotsOK, SeenFree, DecideAtEnd,
     cvars, Slots
<1>2. CASE ReadStatus \/ ReadHealth
  BY <1>2, ReadTInv
<1>3. CASE ReadOwnership \/ Recheck
  BY <1>3, OwnershipTInv
<1>4. CASE Decide
  <2>1. CASE Return
    BY <2>1, ReleaseType DEF Return, TInv, TypeOK, SlotsOK, cvars
  <2>2. ASSUME NEW r \in Starts, StartRejected(r) PROVE TInv'
    BY <2>2, ReleaseType DEF StartRejected, TInv, TypeOK, SlotsOK, cvars
  <2>3. ASSUME NEW r \in Starts, NEW s \in Slots,
               StartFindsPath(s, r) \/ LaunchFails(s, r) \/ StartAccepted(s, r)
        PROVE  TInv'
    BY <2>3, StartTInv
  <2>4. ASSUME NEW s \in Slots, NEW session \in 0..sessions, Stop(s, session)
        PROVE  TInv'
    BY <2>4, StopTInv DEF TInv, TypeOK
  <2>5. QED
    BY <1>4, <2>1, <2>2, <2>3, <2>4 DEF Decide
<1>5. CASE Shutdown
  BY <1>5 DEF Shutdown, TInv, TypeOK, SlotsOK, SeenFree, DecideAtEnd, cvars, scan
<1>6. CASE Restart
  BY <1>6, RestartTInv
<1>7. ASSUME NEW s \in Slots, Worker(s) \/ ShutdownSlot(s) PROVE TInv'
  BY <1>7, WorkerTInv, ShutdownSlotTInv
<1>8. CASE UNCHANGED vars
  BY <1>8 DEF vars, TInv, TypeOK, SlotsOK, SeenFree, DecideAtEnd
<1>9. QED
  BY <1>1, <1>2, <1>3, <1>4, <1>5, <1>6, <1>7, <1>8 DEF Next

THEOREM SpecTInv == Spec => []TInv
  BY InitTInv, NextTInv, PTL DEF Spec

(* Every reachable state of the manager and its controllers has the types  *)
(* TypeOK gives it, for any number of slots and any failing read or store. *)
THEOREM TypeCorrect == Spec => []TypeOK
  BY SpecTInv, PTL DEF TInv

-----------------------------------------------------------------------------
(* What a pass of reads may conclude stays true of the controllers while   *)
(* the lock is held, because their workers only ever give slots up.        *)

(* The owner (or the facts of a status) is the job, perhaps without paths. *)
Matches(owner, job) ==
  /\ owner.session = job.session
  /\ owner.page = PageOf[job.url]
  /\ owner.out \in {NoOutput, job.out}

StatusSound(s) ==
  Current(mem[s]) =>
    /\ seen[s].status.state # "idle"
    /\ seen[s].status.state = "unavailable" \/ seen[s].status.facts # NoOwner
    /\ seen[s].status.facts # NoOwner =>
         /\ Matches(seen[s].status.facts, mem[s].job)
         /\ seen[s].status.facts.out # NoOutput

OwnerSound(s) ==
  Current(mem[s]) /\ owners[s] # NoOwner => Matches(owners[s], mem[s].job)

Kept(s) ==
  claimed[s] /\ Current(mem[s])
    => /\ owners[s] # NoOwner
       /\ owners[s].out = mem[s].job.out
       /\ mem[s].expected # NoRoom => owners[s].room = mem[s].expected

Concluded(s) == pc = "decide" \/ s < at

VerdictSound(s) ==
  /\ Concluded(s) /\ Current(mem[s])
  /\ ~seen[s].unknown /\ seen[s].status.facts = NoOwner
  => owners[s] # NoOwner /\ owners[s].out # NoOutput

RecheckSound == pc = "recheck" => ~Current(mem[at])

SInv == /\ \A s \in Slots : StatusSound(s) /\ OwnerSound(s) /\ Kept(s)
                             /\ VerdictSound(s)
        /\ RecheckSound /\ ExclusiveClaims /\ RoomReservation

(* An action that puts no new session into a slot.                         *)
OnlyGivesUp ==
  \A t \in Slots :
    Current(mem'[t]) => /\ Current(mem[t])
                        /\ mem'[t].job.session = mem[t].job.session
                        /\ mem'[t].job.url = mem[t].job.url
                        /\ mem'[t].job.out = mem[t].job.out
                        /\ mem'[t].expected = mem[t].expected

LEMMA MergeSound ==
  ASSUME NEW job \in Jobs, NEW facts \in Owners, Matches(facts, job),
         NEW prior \in Owners \cup {NoOwner},
         prior # NoOwner => Matches(prior, job)
  PROVE  LET v == Merge(prior, facts) IN
         /\ v.owner # NoOwner /\ Matches(v.owner, job)
         /\ ~v.unknown => v.owner.out # NoOutput
         /\ prior # NoOwner =>
              /\ prior.out = job.out => v.owner.out = job.out
              /\ prior.room # NoRoom => v.owner.room = prior.room
<1>1. job.out # NoOutput
  BY NoneAssumption DEF Jobs
<1>2. facts # NoOwner
  BY OwnerAssumption
<1>3. CASE prior = NoOwner
  BY <1>1, <1>2, <1>3 DEF Merge, Known
<1>4. CASE prior # NoOwner /\ Contradicts(prior, facts)
  BY <1>1, <1>4 DEF Merge, Unknown, Matches
<1>5. CASE prior # NoOwner /\ ~Contradicts(prior, facts)
  <2> DEFINE c == Completed(prior, facts)
  <2>1. Merge(prior, facts) = Known(c)
    BY <1>5 DEF Merge, Matches
  <2>2. c \in Owners /\ Matches(c, job)
    BY <1>5 DEF Completed, Owners, Matches
  <2>3. c # NoOwner
    BY <2>2, OwnerAssumption
  <2>4. /\ prior.out = job.out => c.out = job.out
        /\ prior.room # NoRoom => c.room = prior.room
    BY <1>5 DEF Completed, Matches, Contradicts
  <2> HIDE DEF c
  <2>5. Known(c).owner = c /\ Known(c).unknown = (c.out = NoOutput)
    BY DEF Known
  <2>6. QED
    BY <2>1, <2>2, <2>3, <2>4, <2>5
<1>6. QED
  BY <1>3, <1>4, <1>5

(* Claims stay exclusive and remembered under any such action.             *)
LEMMA GivingUpKeeps ==
  ASSUME SInv, OnlyGivesUp, UNCHANGED <<owners, claimed>>
  PROVE  /\ ExclusiveClaims' /\ RoomReservation'
         /\ \A s \in Slots : OwnerSound(s)' /\ Kept(s)'
<1>1. ExclusiveClaims'
  BY DEF SInv, OnlyGivesUp, ExclusiveClaims, Overlap
<1>2. RoomReservation'
  BY DEF SInv, OnlyGivesUp, RoomReservation
<1>3. \A s \in Slots : OwnerSound(s)'
  BY DEF SInv, OnlyGivesUp, OwnerSound, Matches
<1>4. \A s \in Slots : Kept(s)'
  BY DEF SInv, OnlyGivesUp, Kept
<1>5. QED
  BY <1>1, <1>2, <1>3, <1>4

LEMMA ScanKeeps ==
  ASSUME SInv, OnlyGivesUp, UNCHANGED <<owners, claimed, pc, at, seen>>,
         at \in Slots
  PROVE  SInv'
<1>1. \A s \in Slots : StatusSound(s)'
  BY DEF SInv, OnlyGivesUp, StatusSound, Matches
<1>2. \A s \in Slots : VerdictSound(s)'
  BY DEF SInv, OnlyGivesUp, VerdictSound, Concluded
<1>3. RecheckSound'
  BY DEF SInv, OnlyGivesUp, RecheckSound
<1>4. QED
  BY <1>1, <1>2, <1>3, GivingUpKeeps DEF SInv

(* Forgetting the entries of the call leaves nothing to be wrong about.    *)
LEMMA ReleaseKeeps ==
  ASSUME SInv, OnlyGivesUp, UNCHANGED <<owners, claimed>>, Release
  PROVE  SInv'
<1>1. \A s \in Slots : StatusSound(s)'
  BY DEF Release, StatusSound, Unseen, NotSeen, NoStatus
<1>2. \A s \in Slots : VerdictSound(s)'
  BY NAssumption DEF Release, VerdictSound, Concluded, Slots
<1>3. RecheckSound'
  BY DEF Release, RecheckSound
<1>4. QED
  BY <1>1, <1>2, <1>3, GivingUpKeeps DEF SInv

LEMMA SameIdentity ==
  ASSUME NEW job \in Jobs
  PROVE  \A j \in {Settled(job), Stopped(job)}
                 \cup {[job EXCEPT !.room = r] : r \in Rooms} :
           j.session = job.session /\ j.url = job.url /\ j.out = job.out
  BY DEF Settled, Stopped, Jobs

(* Replacing one controller by one that holds no other session.            *)
LEMMA OneSlotGivesUp ==
  ASSUME TInv, NEW s \in Slots, NEW c, mem' = [mem EXCEPT ![s] = c],
         Current(c) => /\ Current(mem[s])
                       /\ c.job.session = mem[s].job.session
                       /\ c.job.url = mem[s].job.url
                       /\ c.job.out = mem[s].job.out
                       /\ c.expected = mem[s].expected
  PROVE  OnlyGivesUp
  BY DEF OnlyGivesUp, TInv, TypeOK

LEMMA WorkerGivesUp ==
  ASSUME TInv, NEW s \in Slots, Worker(s)
  PROVE  OnlyGivesUp
<1>1. mem[s] \in Slot /\ SlotOK(mem[s])
  BY DEF TInv, TypeOK, SlotsOK
<1>2. mem[s].phase \in Capturing \cup Reconciling
  BY DEF Worker, PublishRoom, WorkerEnds, RecoverySaves, RecoverySettles,
     RecoveryDecides, RecoveryResumes, RecoveryBlocks, Capturing, Reconciling
<1>3. mem[s].job \in Jobs /\ Current(mem[s])
  BY <1>1, <1>2, SpecialAssumption DEF SlotOK, Current, Capturing, Reconciling
<1>4. PICK p \in Phases,
           j \in {mem[s].job, Settled(mem[s].job)}
                   \cup {[mem[s].job EXCEPT !.room = r] : r \in Rooms} :
        mem' = [mem EXCEPT ![s] = [mem[s] EXCEPT !.phase = p, !.job = j]]
  <2> USE <1>1 DEF TInv, TypeOK, Slot, Phases, Capturing, Reconciling
  <2>1. CASE PublishRoom(s)
    <3>1. PICK r \in Rooms : mem' = [mem EXCEPT ![s].job =
                                      [mem[s].job EXCEPT !.room = r]]
      BY <2>1 DEF PublishRoom, MaybeRoom
    <3>2. QED
      BY <3>1
  <2>2. CASE WorkerEnds(s)
    <3>1. PICK job \in {Settled(mem[s].job), mem[s].job}, p \in {"idle", "blocked"} :
            mem' = [mem EXCEPT ![s].phase = p, ![s].job = job]
      BY <2>2 DEF WorkerEnds
    <3>2. mem' = [mem EXCEPT ![s] = [mem[s] EXCEPT !.phase = p, !.job = job]]
      BY <3>1
    <3>3. QED
      BY <3>2
  <2>3. CASE RecoverySettles(s)
    <3>1. mem' = [mem EXCEPT ![s] = [mem[s] EXCEPT !.phase = "idle",
                                                   !.job = Settled(mem[s].job)]]
      BY <2>3 DEF RecoverySettles
    <3>2. QED
      BY <3>1
  <2>4. CASE \/ RecoverySaves(s) \/ RecoveryDecides(s) \/ RecoveryResumes(s)
             \/ RecoveryBlocks(s)
    <3>1. PICK p \in {"settling", "resuming", "resumed", "blocked"} :
            mem' = [mem EXCEPT ![s].phase = p]
      BY <2>4 DEF RecoverySaves, RecoveryDecides, RecoveryResumes, RecoveryBlocks
    <3>2. [mem[s] EXCEPT !.phase = p] = [mem[s] EXCEPT !.phase = p, !.job = mem[s].job]
      OBVIOUS
    <3>3. mem' = [mem EXCEPT ![s] = [mem[s] EXCEPT !.phase = p, !.job = mem[s].job]]
      BY <3>1, <3>2
    <3>4. QED
      BY <3>3
  <2>5. QED
    BY <2>1, <2>2, <2>3, <2>4 DEF Worker
<1> DEFINE c == [mem[s] EXCEPT !.phase = p, !.job = j]
<1>5. j.session = mem[s].job.session /\ j.url = mem[s].job.url
      /\ j.out = mem[s].job.out
  BY <1>3, <1>4, SameIdentity
<1>6. c.job = j /\ c.expected = mem[s].expected
  BY <1>1 DEF Slot
<1>7. QED
  BY <1>3, <1>4, <1>5, <1>6, OneSlotGivesUp

LEMMA StopShutdownGiveUp ==
  ASSUME TInv, NEW s \in Slots,
         StopSlot(s) \/ ShutdownSlot(s)
  PROVE  OnlyGivesUp
<1>1. mem[s] \in Slot /\ SlotOK(mem[s])
  BY DEF TInv, TypeOK, SlotsOK
<1>2. CASE UNCHANGED mem
  BY <1>2 DEF OnlyGivesUp
<1>3. CASE mem' # mem
  <2>1. PICK b \in BOOLEAN, j \in {mem[s].job, Stopped(mem[s].job)} :
          /\ mem' = [mem EXCEPT ![s] = [mem[s] EXCEPT !.closed = b, !.job = j]]
          /\ j = mem[s].job \/ mem[s].job \in Jobs
    <3> USE <1>1 DEF TInv, TypeOK, Slot, SlotOK, Phases
    <3>1. CASE StopSlot(s)
      <4>1. mem' = [mem EXCEPT ![s].job = Stopped(mem[s].job)]
            /\ mem[s].phase # "idle" /\ mem[s].parts
        BY <1>3, <3>1 DEF StopSlot, cvars
      <4>2. QED
        BY <4>1
    <3>2. CASE ShutdownSlot(s) /\ Active(mem[s])
      <4>1. mem' = [mem EXCEPT ![s].closed = TRUE, ![s].job = Stopped(mem[s].job)]
        BY <3>2 DEF ShutdownSlot
      <4>2. mem[s].job \in Jobs
        BY <3>2 DEF Active
      <4>3. QED
        BY <4>1, <4>2
    <3>3. CASE ShutdownSlot(s) /\ ~Active(mem[s])
      BY <3>3 DEF ShutdownSlot
    <3>4. QED
      BY <3>1, <3>2, <3>3
  <2> DEFINE c == [mem[s] EXCEPT !.closed = b, !.job = j]
  <2>2. c.job = j /\ c.expected = mem[s].expected /\ c.phase = mem[s].phase
    BY <1>1 DEF Slot
  <2>3. Current(c) => Current(mem[s])
    BY <2>1, <2>2, SpecialAssumption DEF Current
  <2>4. j.session = mem[s].job.session /\ j.url = mem[s].job.url
        /\ j.out = mem[s].job.out
    BY <2>1, SameIdentity
  <2>5. QED
    BY <2>1, <2>2, <2>3, <2>4, OneSlotGivesUp
<1>4. QED
  BY <1>2, <1>3

-----------------------------------------------------------------------------
(* The reads.                                                              *)

LEMMA CurrentIsBusy ==
  ASSUME TInv, NEW s \in Slots, Current(mem[s])
  PROVE  /\ mem[s].job \in Jobs
         /\ FactsOf(mem[s].job) \in Owners
         /\ Matches(FactsOf(mem[s].job), mem[s].job)
         /\ FactsOf(mem[s].job).out # NoOutput
         /\ ~seen[s].health.available
         /\ Active(mem[s]) \/ Blocked(mem[s])
<1>1. mem[s].job \in Jobs
  BY DEF TInv, TypeOK, Slot, Current
<1>2. Matches(FactsOf(mem[s].job), mem[s].job)
      /\ FactsOf(mem[s].job).out # NoOutput
  BY <1>1, NoneAssumption DEF Matches, FactsOf, Jobs
<1>3. ~seen[s].health.available
  BY DEF TInv, SeenFree, Current
<1>4. Active(mem[s]) \/ Blocked(mem[s])
  BY DEF TInv, TypeOK, Slot, Phases, Active, Blocked, Current
<1>5. QED
  BY <1>1, <1>2, <1>3, <1>4, FactsType

(* Neither reads nor restarts of the scan change what is claimed.          *)
LEMMA ReadsKeepClaims ==
  ASSUME SInv, UNCHANGED <<mem, claimed>>
  PROVE  ExclusiveClaims' /\ RoomReservation'
  BY DEF SInv, ExclusiveClaims, RoomReservation

LEMMA ReadStatusSInv ==
  ASSUME TInv, SInv, ReadStatus
  PROVE  SInv'
<1>1. at \in Slots /\ UNCHANGED <<mem, claimed, owners, at>> /\ pc' = "health"
      /\ pc = "status"
  BY DEF TInv, TypeOK, ReadStatus, cvars
<1>2. PICK status \in {NoStatus, StatusOf(mem[at])} :
        seen' = [seen EXCEPT ![at].status = status]
  BY DEF ReadStatus
<1>3. \A s \in Slots \ {at} : seen'[s] = seen[s]
  BY <1>2 DEF TInv, TypeOK
<1>4. seen'[at].status = status
  BY <1>1, <1>2 DEF TInv, TypeOK, Entry
<1>5. StatusSound(at)'
  <2>1. SUFFICES ASSUME Current(mem[at])
                 PROVE  /\ status.state # "idle"
                        /\ status.state = "unavailable" \/ status.facts # NoOwner
                        /\ status.facts # NoOwner =>
                             /\ Matches(status.facts, mem[at].job)
                             /\ status.facts.out # NoOutput
    BY <1>1, <1>4 DEF StatusSound
  <2>2. mem[at].job # NoJob /\ mem[at].job # Corrupt
    BY <2>1 DEF Current
  <2>3. CASE status = NoStatus
    BY <2>3 DEF NoStatus
  <2>4. CASE status = StatusOf(mem[at])
    <3>1. status.facts = FactsOf(mem[at].job)
      BY <2>2, <2>4 DEF StatusOf
    <3>2. status.state # "idle"
      BY <2>2, <2>4 DEF StatusOf
    <3>3. QED
      BY <1>1, <2>1, <3>1, <3>2, CurrentIsBusy, OwnerAssumption
  <2>5. QED
    BY <2>3, <2>4
<1>6. \A s \in Slots : StatusSound(s)'
  BY <1>1, <1>3, <1>5 DEF StatusSound, SInv
<1>7. \A s \in Slots : VerdictSound(s)'
  BY <1>1, <1>3 DEF VerdictSound, Concluded, SInv, Slots
<1>8. QED
  BY <1>1, <1>6, <1>7, ReadsKeepClaims
  DEF SInv, OwnerSound, Kept, RecheckSound

(* A verdict that matches the job of the slot read, and that leaves no     *)
(* current owner out unless it says so, keeps everything sound.            *)
VerdictFits(verdict) ==
  Current(mem[at]) =>
    /\ verdict.owner # NoOwner => Matches(verdict.owner, mem[at].job)
    /\ ~verdict.unknown /\ seen[at].status.facts = NoOwner =>
         verdict.owner # NoOwner /\ verdict.owner.out # NoOutput
    /\ owners[at] # NoOwner =>
         /\ verdict.owner # NoOwner
         /\ owners[at].out = mem[at].job.out => verdict.owner.out = mem[at].job.out
         /\ owners[at].room # NoRoom => verdict.owner.room = owners[at].room

LEMMA ConcludeSInv ==
  ASSUME TInv, SInv, NEW verdict \in Verdicts, VerdictFits(verdict),
         Conclude(verdict), UNCHANGED <<mem, claimed>>, pc # "decide"
  PROVE  SInv'
<1>1. at \in Slots
  BY DEF TInv, TypeOK
<1>2. /\ owners' = [owners EXCEPT ![at] = verdict.owner]
      /\ \A s \in Slots : seen'[s].status = seen[s].status
      /\ \A s \in Slots \ {at} : seen'[s].unknown = seen[s].unknown
      /\ seen'[at].unknown = verdict.unknown
  BY <1>1 DEF Conclude, TInv, TypeOK, Entry
<1>3. owners'[at] = verdict.owner /\ \A s \in Slots \ {at} : owners'[s] = owners[s]
  BY <1>1, <1>2 DEF TInv, TypeOK
<1>4. \A s \in Slots : Concluded(s)' => s = at \/ Concluded(s)
  BY <1>1 DEF Conclude, Concluded, Slots
<1>5. \A s \in Slots : StatusSound(s)'
  BY <1>2 DEF StatusSound, SInv
<1>6. \A s \in Slots : OwnerSound(s)'
  BY <1>3 DEF OwnerSound, SInv, VerdictFits
<1>7. \A s \in Slots : Kept(s)'
  <2>1. SUFFICES ASSUME claimed[at], Current(mem[at])
                 PROVE  /\ verdict.owner # NoOwner
                        /\ verdict.owner.out = mem[at].job.out
                        /\ mem[at].expected # NoRoom =>
                             verdict.owner.room = mem[at].expected
    BY <1>3 DEF Kept, SInv
  <2>2. Kept(at)
    BY <1>1 DEF SInv
  <2>3. QED
    BY <2>1, <2>2 DEF Kept, VerdictFits
<1>8. \A s \in Slots : VerdictSound(s)'
  BY <1>2, <1>3, <1>4 DEF VerdictSound, SInv, VerdictFits
<1>9. RecheckSound'
  BY DEF RecheckSound, Conclude
<1>10. QED
  BY <1>5, <1>6, <1>7, <1>8, <1>9, ReadsKeepClaims DEF SInv

LEMMA AfterStatusFits ==
  ASSUME TInv, SInv, NEW health \in Healths
  PROVE  LET v == AfterStatus(owners[at], seen[at].status, health) IN
         Current(mem[at]) =>
           /\ v.owner # NoOwner => Matches(v.owner, mem[at].job)
           /\ owners[at] # NoOwner =>
                /\ v.owner # NoOwner
                /\ owners[at].out = mem[at].job.out => v.owner.out = mem[at].job.out
                /\ owners[at].room # NoRoom => v.owner.room = owners[at].room
<1> SUFFICES ASSUME Current(mem[at])
             PROVE  LET v == AfterStatus(owners[at], seen[at].status, health) IN
               /\ v.owner # NoOwner => Matches(v.owner, mem[at].job)
               /\ owners[at] # NoOwner =>
                    /\ v.owner # NoOwner
                    /\ owners[at].out = mem[at].job.out => v.owner.out = mem[at].job.out
                    /\ owners[at].room # NoRoom => v.owner.room = owners[at].room
  OBVIOUS
<1> DEFINE prior == owners[at]
           facts == seen[at].status.facts
<1>1. at \in Slots /\ prior \in Owners \cup {NoOwner}
      /\ facts \in Owners \cup {NoOwner}
  BY DEF TInv, TypeOK, Entry, Statuses
<1>2. mem[at].job \in Jobs /\ (prior # NoOwner => Matches(prior, mem[at].job))
  BY <1>1, CurrentIsBusy DEF SInv, OwnerSound
<1>3. facts # NoOwner => facts \in Owners /\ Matches(facts, mem[at].job)
  BY <1>1 DEF SInv, StatusSound
<1>4. CASE AfterStatus(prior, seen[at].status, health).owner = prior
  BY <1>2, <1>4
<1>5. CASE AfterStatus(prior, seen[at].status, health) = Merge(prior, facts)
           /\ facts # NoOwner
  BY <1>1, <1>2, <1>3, <1>5, MergeSound
<1>6. QED
  BY <1>4, <1>5 DEF AfterStatus, Unknown

LEMMA ReadHealthSInv ==
  ASSUME TInv, SInv, ReadHealth
  PROVE  SInv'
<1>1. at \in Slots /\ mem[at] \in Slot
  BY DEF TInv, TypeOK
<1>2. PICK health \in {HealthOf(mem[at]), NoHealth} :
        LET first == AfterStatus(owners[at], seen[at].status, health) IN
        /\ seen' = [seen EXCEPT ![at].health = health,
                                ![at].unknown = first.unknown]
        /\ owners' = [owners EXCEPT ![at] = first.owner]
  BY DEF ReadHealth
<1> DEFINE first == AfterStatus(owners[at], seen[at].status, health)
<1>3. health \in Healths
  BY <1>1, <1>2, ReadsType, NoReadsType
<1>4. /\ \A s \in Slots : seen'[s].status = seen[s].status
      /\ \A s \in Slots \ {at} : seen'[s].unknown = seen[s].unknown
      /\ owners'[at] = first.owner
      /\ \A s \in Slots \ {at} : owners'[s] = owners[s]
      /\ UNCHANGED <<mem, claimed, at>> /\ pc' = "owner" /\ pc = "health"
  BY <1>1, <1>2 DEF ReadHealth, TInv, TypeOK, Entry, cvars
<1>5. Current(mem[at]) =>
        /\ first.owner # NoOwner => Matches(first.owner, mem[at].job)
        /\ owners[at] # NoOwner =>
             /\ first.owner # NoOwner
             /\ owners[at].out = mem[at].job.out => first.owner.out = mem[at].job.out
             /\ owners[at].room # NoRoom => first.owner.room = owners[at].room
  BY <1>3, AfterStatusFits
<1> HIDE DEF first
<1>6. \A s \in Slots : StatusSound(s)'
  BY <1>4 DEF StatusSound, SInv
<1>7. \A s \in Slots : OwnerSound(s)'
  BY <1>4, <1>5 DEF OwnerSound, SInv
<1>8. \A s \in Slots : Kept(s)'
  <2>1. SUFFICES ASSUME claimed[at], Current(mem[at])
                 PROVE  /\ first.owner # NoOwner
                        /\ first.owner.out = mem[at].job.out
                        /\ mem[at].expected # NoRoom =>
                             first.owner.room = mem[at].expected
    BY <1>4 DEF Kept, SInv
  <2>2. Kept(at)
    BY <1>1 DEF SInv
  <2>3. QED
    BY <1>5, <2>1, <2>2 DEF Kept
<1>9. \A s \in Slots : VerdictSound(s)'
  BY <1>1, <1>4 DEF VerdictSound, Concluded, SInv, Slots
<1>10. QED
  BY <1>4, <1>6, <1>7, <1>8, <1>9, ReadsKeepClaims DEF SInv, RecheckSound

LEMMA OwnershipFits ==
  ASSUME TInv, SInv
  PROVE  /\ \A facts \in Owners :
              (Current(mem[at]) => Matches(facts, mem[at].job))
                => VerdictFits(AfterSnapshot(First, facts))
         /\ VerdictFits(AfterPartial(First))
         /\ ~Current(mem[at]) => \A verdict \in Verdicts : VerdictFits(verdict)
         /\ VerdictFits(AfterFailed(First, seen[at].status, seen[at].health))
<1>1. at \in Slots /\ owners[at] \in Owners \cup {NoOwner}
      /\ First.owner = owners[at] /\ First = [owner |-> owners[at],
                                              unknown |-> seen[at].unknown]
  BY DEF TInv, TypeOK, First
<1>2. Current(mem[at]) => /\ mem[at].job \in Jobs
                          /\ owners[at] # NoOwner => Matches(owners[at], mem[at].job)
                          /\ ~seen[at].health.available
                          /\ seen[at].status.state # "idle"
                          /\ \/ seen[at].status.state = "unavailable"
                             \/ seen[at].status.facts # NoOwner
  BY <1>1, CurrentIsBusy DEF SInv, OwnerSound, StatusSound
<1>3. ASSUME NEW facts \in Owners, Current(mem[at]) => Matches(facts, mem[at].job)
      PROVE  VerdictFits(AfterSnapshot(First, facts))
  BY <1>1, <1>2, <1>3, MergeSound DEF AfterSnapshot, VerdictFits
<1>4. VerdictFits(AfterPartial(First))
  BY <1>1, <1>2 DEF AfterPartial, Unknown, VerdictFits
<1>5. ~Current(mem[at]) => \A verdict \in Verdicts : VerdictFits(verdict)
  BY DEF VerdictFits
<1>6. VerdictFits(AfterFailed(First, seen[at].status, seen[at].health))
  <2> SUFFICES ASSUME Current(mem[at])
               PROVE  VerdictFits(AfterFailed(First, seen[at].status,
                                              seen[at].health))
    BY DEF VerdictFits
  <2>1. OwnsCurrentWork(seen[at].status, seen[at].health)
    BY <1>2 DEF OwnsCurrentWork
  <2> DEFINE v == AfterFailed(First, seen[at].status, seen[at].health)
  <2>2. v.owner = owners[at]
    BY <1>1, <2>1 DEF AfterFailed
  <2>3. ~v.unknown /\ seen[at].status.facts = NoOwner =>
          owners[at] # NoOwner /\ owners[at].out # NoOutput
    <3>1. CASE seen[at].status.state # "unavailable"
      BY <1>2, <3>1
    <3>2. CASE seen[at].status.state = "unavailable"
      BY <1>1, <1>2, <3>2 DEF AfterFailed
    <3>3. QED
      BY <3>1, <3>2
  <2>4. QED
    BY <1>2, <2>2, <2>3 DEF VerdictFits
<1>7. QED
  BY <1>3, <1>4, <1>5, <1>6

LEMMA OwnershipSInv ==
  ASSUME TInv, SInv, ReadOwnership \/ Recheck
  PROVE  SInv'
<1>1. at \in Slots /\ UNCHANGED <<mem, claimed>> /\ pc \in {"owner", "recheck"}
  BY DEF TInv, TypeOK, ReadOwnership, Recheck, cvars
<1>2. /\ First \in Verdicts
      /\ seen[at].status \in Statuses /\ seen[at].health \in Healths
  BY FirstType
<1>3. CASE ReadOwnership /\ ReadCurrent
  <2>1. Current(mem[at]) /\ FactsOf(mem[at].job) \in Owners
        /\ Matches(FactsOf(mem[at].job), mem[at].job)
    BY <1>1, <1>3, CurrentIsBusy DEF ReadCurrent
  <2>2. \A facts \in SnapshotsOf(mem[at]) :
          facts \in Owners /\ Matches(facts, mem[at].job)
    BY <2>1 DEF SnapshotsOf, Owners, Matches
  <2>3. PICK verdict \in Verdicts : VerdictFits(verdict) /\ Conclude(verdict)
    <3>1. CASE \E facts \in SnapshotsOf(mem[at]) :
                 Conclude(AfterSnapshot(First, facts))
      BY <1>2, <2>2, <3>1, AfterReadsType, OwnershipFits
    <3>2. CASE Conclude(AfterPartial(First))
      BY <1>2, <3>2, AfterReadsType, OwnershipFits
    <3>3. QED
      BY <1>3, <3>1, <3>2 DEF ReadCurrent
  <2>4. QED
    BY <1>1, <2>3, ConcludeSInv
<1>4. CASE ReadOwnership /\ ReadNotCurrent
  <2>1. ~Current(mem[at]) /\ pc = "owner"
    BY <1>4 DEF ReadNotCurrent, ReadOwnership
  <2>2. CASE Conclude(Released)
    BY <1>1, <1>2, <2>1, <2>2, AfterReadsType, OwnershipFits, ConcludeSInv
  <2>3. CASE pc' = "recheck" /\ UNCHANGED <<owners, seen, at>>
    <3>1. /\ \A s \in Slots : StatusSound(s)' /\ OwnerSound(s)' /\ Kept(s)'
          /\ RecheckSound'
      BY <1>1, <2>1, <2>3 DEF SInv, StatusSound, OwnerSound, Kept, RecheckSound
    <3>2. \A s \in Slots : VerdictSound(s)'
      BY <1>1, <2>1, <2>3 DEF SInv, VerdictSound, Concluded
    <3>3. QED
      BY <1>1, <3>1, <3>2, ReadsKeepClaims DEF SInv
  <2>4. QED
    BY <1>4, <2>2, <2>3 DEF ReadNotCurrent
<1>5. CASE Conclude(AfterFailed(First, seen[at].status, seen[at].health))
  BY <1>1, <1>2, <1>5, AfterReadsType, OwnershipFits, ConcludeSInv
<1>6. CASE Recheck
  <2>1. PICK ok \in BOOLEAN :
          Conclude(AfterRecheck(First, ok /\ ~HealthOf(mem[at]).active))
    BY <1>6 DEF Recheck
  <2>2. AfterRecheck(First, ok /\ ~HealthOf(mem[at]).active) \in Verdicts
    BY <1>2, AfterReadsType
  <2>3. ~Current(mem[at])
    BY <1>6 DEF Recheck, SInv, RecheckSound
  <2>4. QED
    BY <1>1, <2>1, <2>2, <2>3, OwnershipFits, ConcludeSInv
<1>7. QED
  BY <1>3, <1>4, <1>5, <1>6 DEF ReadOwnership

-----------------------------------------------------------------------------
(* The decisions.  A start is accepted only when every other session at    *)
(* work is known, through its status or the cache, and does not overlap.   *)

LEMMA BusyIsOwned ==
  ASSUME TInv, SInv, pc = "decide", ~Blind, NEW t \in Slots, Current(mem[t]),
         NEW r \in Starts, ~ClashesWith(t, r)
  PROVE  /\ PageOf[mem[t].job.url] # PageOf[r.url]
         /\ ~SamePaths(mem[t].job.out, r.out)
         /\ owners[t] # NoOwner /\ r.room # NoRoom => owners[t].room # r.room
<1>1. ~Offered(t) /\ seen[t].status.state # "idle" /\ ~seen[t].unknown
  BY CurrentIsBusy DEF Offered, SInv, StatusSound, Blind
<1>2. Owned(t)
  BY <1>1 DEF Owned
<1>3. ~Conflict(seen[t].status.facts, r) /\ ~Conflict(owners[t], r)
  BY <1>2 DEF ClashesWith
<1>4. \E facts \in {seen[t].status.facts, owners[t]} :
        facts # NoOwner /\ facts.out # NoOutput /\ Matches(facts, mem[t].job)
  <2>1. CASE seen[t].status.facts # NoOwner
    BY <2>1 DEF SInv, StatusSound
  <2>2. CASE seen[t].status.facts = NoOwner
    BY <1>1, <2>2 DEF SInv, VerdictSound, Concluded, OwnerSound
  <2>3. QED
    BY <2>1, <2>2
<1>5. PICK facts \in {seen[t].status.facts, owners[t]} :
        facts # NoOwner /\ facts.out # NoOutput /\ Matches(facts, mem[t].job)
  BY <1>4
<1>6. facts.out = mem[t].job.out /\ facts.page = PageOf[mem[t].job.url]
  BY <1>5 DEF Matches
<1>7. facts.page # PageOf[r.url] /\ ~SamePaths(facts.out, r.out)
  BY <1>3, <1>5 DEF Conflict
<1>8. QED
  BY <1>3, <1>6, <1>7 DEF Conflict

LEMMA StartSInv ==
  ASSUME TInv, SInv, NEW s \in Slots, NEW r \in Starts, StartAccepted(s, r)
  PROVE  SInv'
<1> DEFINE c == [phase |-> "running", closed |-> mem[s].closed, parts |-> TRUE,
                 job |-> NewJob(r), expected |-> r.room]
           owner == [FactsOf(NewJob(r)) EXCEPT !.room = r.room]
<1>1. /\ pc = "decide" /\ ~Blind /\ \A t \in Slots : ~ClashesWith(t, r)
      /\ Release
  BY DEF StartAccepted, Allocates
<1>2. /\ mem'[s] = c /\ \A t \in Slots \ {s} : mem'[t] = mem[t]
      /\ owners'[s] = owner /\ \A t \in Slots \ {s} : owners'[t] = owners[t]
      /\ claimed'[s] = TRUE /\ \A t \in Slots \ {s} : claimed'[t] = claimed[t]
  BY DEF StartAccepted, TInv, TypeOK
<1>3. NewJob(r).url = r.url /\ NewJob(r).out = r.out
      /\ owner.session = NewJob(r).session
      /\ owner.page = PageOf[r.url] /\ owner.out = r.out /\ owner.room = r.room
  BY DEF NewJob, FactsOf
<1>4. owner # NoOwner
  <2>1. NewJob(r) \in Jobs
    BY NewJobType
  <2>2. owner \in Owners
    BY <2>1, FactsType DEF Starts, Owners
  <2>3. QED
    BY <2>2, OwnerAssumption
<1>5. \A t \in Slots \ {s} : Current(mem[t]) =>
        /\ PageOf[mem[t].job.url] # PageOf[r.url]
        /\ ~SamePaths(mem[t].job.out, r.out)
        /\ owners[t] # NoOwner /\ r.room # NoRoom => owners[t].room # r.room
  BY <1>1, BusyIsOwned
<1> HIDE DEF owner
<1>6. \A t \in Slots : OwnerSound(t)' /\ Kept(t)'
  <2>1. OwnerSound(s)' /\ Kept(s)'
    BY <1>2, <1>3 , <1>4 DEF OwnerSound, Kept, Matches
  <2>2. \A t \in Slots \ {s} : OwnerSound(t)' /\ Kept(t)'
    BY <1>2 DEF SInv, OwnerSound, Kept
  <2>3. QED
    BY <2>1, <2>2
<1>7. ExclusiveClaims'
  <2>1. ASSUME NEW t \in Slots \ {s}, Current(mem[t])
        PROVE  ~Overlap(NewJob(r), mem[t].job) /\ ~Overlap(mem[t].job, NewJob(r))
    BY <1>3, <1>5, <2>1 DEF Overlap, SamePaths
  <2>2. c.job = NewJob(r)
    OBVIOUS
  <2>3. QED
    BY <1>2, <2>1, <2>2 DEF SInv, ExclusiveClaims
<1>8. RoomReservation'
  <2>1. ASSUME NEW t \in Slots \ {s}, Current(mem[t]), claimed[t], r.room # NoRoom
        PROVE  mem[t].expected # r.room
    BY <1>5, <2>1 DEF SInv, Kept
  <2>2. c.expected = r.room
    OBVIOUS
  <2>3. QED
    BY <1>2, <2>1, <2>2 DEF SInv, RoomReservation
<1>9. \A t \in Slots : StatusSound(t)' /\ VerdictSound(t)'
  BY <1>1, NAssumption DEF Release, StatusSound, VerdictSound, Concluded, Slots,
     Unseen, NotSeen, NoStatus
<1>10. RecheckSound'
  BY <1>1 DEF Release, RecheckSound
<1>11. QED
  BY <1>6, <1>7, <1>8, <1>9, <1>10 DEF SInv

(* A start that does not get as far as a worker leaves its slot free.      *)
LEMMA FailedStartSInv ==
  ASSUME TInv, SInv, NEW s \in Slots, NEW r \in Starts,
         StartFindsPath(s, r) \/ LaunchFails(s, r)
  PROVE  SInv'
<1>1. mem[s].phase = "idle" /\ mem[s] \in Slot
  BY DEF StartFindsPath, LaunchFails, Allocates, Selected, Offered, TInv,
     TypeOK, SeenFree
<1>2. Release /\ UNCHANGED owners
  BY DEF StartFindsPath, LaunchFails
<1>3. \E c : mem' = [mem EXCEPT ![s] = c] /\ ~Current(c)
  BY <1>1 DEF StartFindsPath, LaunchFails, Current, Slot, TInv, TypeOK
<1>4. OnlyGivesUp
  BY <1>3, OneSlotGivesUp
<1>5. \A t \in Slots : claimed'[t] => claimed[t]
  BY DEF StartFindsPath, LaunchFails, TInv, TypeOK
<1>6. ExclusiveClaims' /\ RoomReservation'
  BY <1>4, <1>5 DEF SInv, OnlyGivesUp, ExclusiveClaims, RoomReservation, Overlap
<1>7. \A t \in Slots : OwnerSound(t)' /\ Kept(t)'
  BY <1>2, <1>4, <1>5 DEF SInv, OnlyGivesUp, OwnerSound, Kept, Matches
<1>8. \A t \in Slots : StatusSound(t)' /\ VerdictSound(t)'
  BY <1>2, NAssumption DEF Release, StatusSound, VerdictSound, Concluded, Slots,
     Unseen, NotSeen, NoStatus
<1>9. QED
  BY <1>2, <1>6, <1>7, <1>8 DEF SInv, Release, RecheckSound

LEMMA RestartSInv ==
  ASSUME TInv, Restart
  PROVE  SInv'
<1>1. /\ owners' = [s \in Slots |-> NoOwner]
      /\ claimed' = [s \in Slots |-> FALSE]
      /\ pc' = "free" /\ at' = 1 /\ seen' = Unseen
  BY DEF Restart
<1>2. ExclusiveClaims' /\ RoomReservation'
  BY <1>1 DEF ExclusiveClaims, RoomReservation
<1>3. \A s \in Slots : StatusSound(s)' /\ OwnerSound(s)' /\ Kept(s)'
                         /\ VerdictSound(s)'
  BY <1>1, NAssumption DEF StatusSound, OwnerSound, Kept, VerdictSound,
     Concluded, Slots, Unseen, NotSeen, NoStatus
<1>4. QED
  BY <1>1, <1>2, <1>3 DEF SInv, RecheckSound

LEMMA InitSInv == Init => SInv
<1> SUFFICES ASSUME Init PROVE SInv
  OBVIOUS
<1>1. ExclusiveClaims /\ RoomReservation
  BY DEF Init, ExclusiveClaims, RoomReservation
<1>2. \A s \in Slots : StatusSound(s) /\ OwnerSound(s) /\ Kept(s)
                         /\ VerdictSound(s)
  BY NAssumption DEF Init, StatusSound, OwnerSound, Kept, VerdictSound,
     Concluded, Slots, Unseen, NotSeen, NoStatus
<1>3. QED
  BY <1>1, <1>2 DEF Init, SInv, RecheckSound

LEMMA NextSInv == TInv /\ SInv /\ [Next]_vars => SInv'
<1> SUFFICES ASSUME TInv, SInv, [Next]_vars PROVE SInv'
  OBVIOUS
<1>0. at \in Slots
  BY DEF TInv, TypeOK
<1> DEFINE Same == UNCHANGED mem
<1>1. Same => OnlyGivesUp
  BY DEF OnlyGivesUp
<1>2. CASE Call
  <2>1. \A s \in Slots : StatusSound(s)' /\ OwnerSound(s)' /\ Kept(s)'
    BY <1>2 DEF Call, cvars, SInv, StatusSound, OwnerSound, Kept
  <2>2. \A s \in Slots : VerdictSound(s)'
    BY <1>2 DEF Call, VerdictSound, Concluded, Slots
  <2>3. QED
    BY <1>2, <2>1, <2>2, ReadsKeepClaims DEF Call, cvars, SInv, RecheckSound
<1>3. CASE ReadStatus \/ ReadHealth \/ ReadOwnership \/ Recheck
  BY <1>3, ReadStatusSInv, ReadHealthSInv, OwnershipSInv
<1>4. CASE Decide
  <2>1. CASE Return
    BY <1>1, <2>1, ReleaseKeeps DEF Return, cvars
  <2>2. ASSUME NEW r \in Starts, StartRejected(r) PROVE SInv'
    BY <1>1, <2>2, ReleaseKeeps DEF StartRejected, cvars
  <2>3. ASSUME NEW r \in Starts, NEW s \in Slots,
               StartFindsPath(s, r) \/ LaunchFails(s, r) \/ StartAccepted(s, r)
        PROVE  SInv'
    BY <2>3, StartSInv, FailedStartSInv
  <2>4. ASSUME NEW s \in Slots, NEW session \in 0..sessions, Stop(s, session)
        PROVE  SInv'
    BY <2>4, StopShutdownGiveUp, ReleaseKeeps DEF Stop
  <2>5. QED
    BY <1>4, <2>1, <2>2, <2>3, <2>4 DEF Decide
<1>5. CASE Shutdown
  BY <1>0, <1>1, <1>5, ScanKeeps DEF Shutdown, cvars, scan
<1>6. CASE Restart
  BY <1>6, RestartSInv
<1>7. ASSUME NEW s \in Slots, Worker(s) PROVE SInv'
  BY <1>0, <1>7, WorkerGivesUp, ScanKeeps DEF Worker, scan
<1>8. ASSUME NEW s \in Slots, ShutdownSlot(s) PROVE SInv'
  BY <1>0, <1>8, StopShutdownGiveUp, ScanKeeps DEF ShutdownSlot, scan
<1>9. CASE UNCHANGED vars
  BY <1>0, <1>1, <1>9, ScanKeeps DEF vars
<1>10. QED
  BY <1>2, <1>3, <1>4, <1>5, <1>6, <1>7, <1>8, <1>9 DEF Next

THEOREM SpecSInv == Spec => []SInv
  BY InitSInv, NextSInv, SpecTInv, PTL DEF Spec

(* A start accepted by the manager overlaps no session another slot still  *)
(* holds: for any number of slots, spellings, paths and rooms, with every  *)
(* controller read and every durable write free to fail.                   *)
THEOREM ClaimsExclusive == Spec => []ExclusiveClaims
  BY SpecSInv, PTL DEF SInv

(* A room reserved by an accepted start is reserved by no other session,   *)
(* also while its worker has not yet published the room it found.          *)
THEOREM RoomsReserved == Spec => []RoomReservation
  BY SpecSInv, PTL DEF SInv

(* The manager never forgets an accepted session that holds its slot.      *)
THEOREM ClaimsKept == Spec => []ClaimKept
<1>1. SInv => ClaimKept
  BY DEF SInv, ClaimKept, Kept, OwnerSound, Matches
<1>2. QED
  BY <1>1, SpecSInv, PTL

-----------------------------------------------------------------------------
(* No two workers share a path.  A worker starts only through an accepted  *)
(* start, which overlaps no current session, or at a restart, where the    *)
(* later of two interrupted jobs that share a path is not loaded.          *)

LEMMA ActiveIsCurrent ==
  ASSUME TInv
  PROVE  \A s \in Slots : Active(mem[s]) => Current(mem[s])
  BY SpecialAssumption DEF TInv, SlotsOK, SlotOK, Active, Current, Capturing,
     Reconciling

(* An action that puts no controller to work.                              *)
NoneStarts == \A t \in Slots : Active(mem'[t]) => Active(mem[t])

LEMMA IdleWorkKeepsPaths ==
  ASSUME TInv', OnlyGivesUp, NoneStarts, ExclusivePaths
  PROVE  ExclusivePaths'
<1>1. \A t \in Slots : Active(mem'[t]) => Current(mem'[t])
  BY SpecialAssumption DEF TInv, SlotsOK, SlotOK, Active, Current, Capturing,
     Reconciling
<1>2. \A t \in Slots : Active(mem'[t]) =>
        Active(mem[t]) /\ mem'[t].job.out = mem[t].job.out
  BY <1>1 DEF OnlyGivesUp, NoneStarts
<1>3. QED
  BY <1>2 DEF ExclusivePaths

LEMMA SlotStepStartsNone ==
  ASSUME TInv, NEW s \in Slots, Worker(s) \/ StopSlot(s) \/ ShutdownSlot(s)
  PROVE  NoneStarts
<1>1. \A t \in Slots \ {s} : mem'[t] = mem[t]
  BY DEF Worker, PublishRoom, WorkerEnds, RecoverySaves, RecoverySettles,
     RecoveryDecides, RecoveryResumes, RecoveryBlocks, StopSlot, ShutdownSlot,
     cvars, TInv, TypeOK
<1>2. Active(mem'[s]) => Active(mem[s])
  <2>1. CASE Worker(s)
    BY <2>1 DEF Worker, PublishRoom, WorkerEnds, RecoverySaves, RecoverySettles,
       RecoveryDecides, RecoveryResumes, RecoveryBlocks, Active, Capturing,
       Reconciling
  <2>2. CASE StopSlot(s) \/ ShutdownSlot(s)
    BY <2>2 DEF StopSlot, ShutdownSlot, cvars, Active, TInv, TypeOK, Slot
  <2>3. QED
    BY <2>1, <2>2
<1>3. QED
  BY <1>1, <1>2 DEF NoneStarts

LEMMA FailedStartStartsNone ==
  ASSUME TInv, NEW s \in Slots, NEW r \in Starts,
         StartFindsPath(s, r) \/ LaunchFails(s, r)
  PROVE  OnlyGivesUp /\ NoneStarts
<1>1. mem[s].phase = "idle" /\ mem[s] \in Slot
  BY DEF StartFindsPath, LaunchFails, Allocates, Selected, Offered, TInv,
     TypeOK, SeenFree
<1>2. PICK c : mem' = [mem EXCEPT ![s] = c] /\ c.phase = "idle"
  BY <1>1 DEF StartFindsPath, LaunchFails, Slot, TInv, TypeOK
<1>3. ~Current(c) /\ ~Active(c)
  BY <1>2 DEF Current, Active, Capturing, Reconciling
<1>4. NoneStarts
  BY <1>2, <1>3 DEF NoneStarts, TInv, TypeOK
<1>5. QED
  BY <1>2, <1>3, <1>4, OneSlotGivesUp

LEMMA AcceptedKeepsPaths ==
  ASSUME TInv, SInv, ExclusivePaths, NEW s \in Slots, NEW r \in Starts,
         StartAccepted(s, r)
  PROVE  ExclusivePaths'
<1>1. pc = "decide" /\ ~Blind /\ \A t \in Slots : ~ClashesWith(t, r)
  BY DEF StartAccepted, Allocates
<1>2. mem'[s].job.out = r.out /\ \A t \in Slots \ {s} : mem'[t] = mem[t]
  BY DEF StartAccepted, NewJob, TInv, TypeOK
<1>3. \A t \in Slots : Active(mem[t]) => ~SamePaths(mem[t].job.out, r.out)
  BY <1>1, BusyIsOwned, ActiveIsCurrent
<1>4. \A t \in Slots : Active(mem[t]) => ~SamePaths(r.out, mem[t].job.out)
  BY <1>3 DEF SamePaths
<1>5. QED
  BY <1>2, <1>3, <1>4 DEF ExclusivePaths

LEMMA RestartPaths ==
  ASSUME TInv, Restart
  PROVE  ExclusivePaths'
<1>1. SUFFICES ASSUME NEW s \in Slots, NEW t \in Slots, s < t,
                      Active(mem'[s]), Active(mem'[t])
               PROVE  /\ ~SamePaths(mem'[s].job.out, mem'[t].job.out)
                      /\ ~SamePaths(mem'[t].job.out, mem'[s].job.out)
  BY DEF ExclusivePaths, Slots
<1>2. disk' \in [Slots -> Jobs \cup {NoJob, Corrupt}]
      /\ \A u \in Slots : mem'[u] = Loaded(u, disk')
  BY DEF Restart, TInv, TypeOK
<1>3. ASSUME NEW u \in Slots, Active(mem'[u])
      PROVE  /\ mem'[u].job = disk'[u] /\ Interrupted(disk'[u])
             /\ ~Collides(u, disk')
  <2>1. Active(Loaded(u, disk'))
    BY <1>2, <1>3
  <2>2. disk'[u] # NoJob
    BY <2>1 DEF Loaded, IdleSlot, Active, Capturing, Reconciling
  <2>3. ~(disk'[u] = Corrupt \/ Collides(u, disk'))
    BY <2>1, <2>2 DEF Loaded, IdleSlot, Active, Capturing, Reconciling
  <2>4. Loaded(u, disk') = [IdleSlot EXCEPT !.parts = TRUE, !.job = disk'[u],
          !.phase = IF disk'[u].needs THEN "recovering" ELSE "idle"]
    BY <2>2, <2>3 DEF Loaded
  <2>5. disk'[u].needs
    BY <2>1, <2>4 DEF IdleSlot, Active, Capturing, Reconciling
  <2>6. Loaded(u, disk').job = disk'[u]
    BY <2>4 DEF IdleSlot
  <2>7. QED
    BY <1>2, <2>2, <2>3, <2>5, <2>6 DEF Interrupted
<1>4. ~Collides(t, disk') /\ Interrupted(disk'[s]) /\ Interrupted(disk'[t])
  BY <1>1, <1>3
<1>5. ~SamePaths(disk'[s].out, disk'[t].out)
  BY <1>1, <1>4 DEF Collides
<1>6. QED
  BY <1>1, <1>3, <1>5 DEF SamePaths

LEMMA NextPaths ==
  ASSUME TInv, SInv, TInv', ExclusivePaths, [Next]_vars
  PROVE  ExclusivePaths'
<1>1. UNCHANGED mem => ExclusivePaths'
  BY DEF ExclusivePaths
<1>2. CASE Call \/ ReadStatus \/ ReadHealth \/ ReadOwnership \/ Recheck \/ Shutdown
           \/ UNCHANGED vars
  BY <1>1, <1>2 DEF Call, ReadStatus, ReadHealth, ReadOwnership, Recheck,
     Shutdown, vars, cvars
<1>3. CASE Decide
  <2>1. CASE Return
    BY <1>1, <2>1 DEF Return, cvars
  <2>2. ASSUME NEW r \in Starts, StartRejected(r) PROVE ExclusivePaths'
    BY <1>1, <2>2 DEF StartRejected, cvars
  <2>3. ASSUME NEW r \in Starts, NEW s \in Slots,
               StartFindsPath(s, r) \/ LaunchFails(s, r)
        PROVE  ExclusivePaths'
    BY <2>3, FailedStartStartsNone, IdleWorkKeepsPaths
  <2>4. ASSUME NEW r \in Starts, NEW s \in Slots, StartAccepted(s, r)
        PROVE  ExclusivePaths'
    BY <2>4, AcceptedKeepsPaths
  <2>5. ASSUME NEW s \in Slots, NEW session \in 0..sessions, Stop(s, session)
        PROVE  ExclusivePaths'
    BY <2>5, SlotStepStartsNone, StopShutdownGiveUp, IdleWorkKeepsPaths DEF Stop
  <2>6. QED
    BY <1>3, <2>1, <2>2, <2>3, <2>4, <2>5 DEF Decide
<1>4. CASE Restart
  BY <1>4, RestartPaths
<1>5. ASSUME NEW s \in Slots, Worker(s) \/ ShutdownSlot(s) PROVE ExclusivePaths'
  BY <1>5, SlotStepStartsNone, WorkerGivesUp, StopShutdownGiveUp,
     IdleWorkKeepsPaths
<1>6. QED
  BY <1>2, <1>3, <1>4, <1>5 DEF Next

(* Two workers, captures or recoveries, never share an output or a parts   *)
(* directory: for any number of slots and restarts, with reads, writes and *)
(* stores free to fail.                                                    *)
THEOREM PathsExclusive == Spec => []ExclusivePaths
<1>1. Init => ExclusivePaths
  BY DEF Init, ExclusivePaths, IdleSlot, Active, Capturing, Reconciling
<1>2. QED
  BY <1>1, NextPaths, SpecTInv, SpecSInv, PTL DEF Spec

-----------------------------------------------------------------------------
(* A stop.  What a pass read of a slot is still the session the slot holds *)
(* when the stop reaches it, and every controller at work counts as owned. *)

LEMMA StopHits ==
  ASSUME TInv, SInv, NEW s \in Slots, NEW session \in 0..sessions,
         Stop(s, session), ~StopRequested(mem[s]), StopRequested(mem'[s])
  PROVE  IF session # 0 THEN mem[s].job.session = session
         ELSE \A t \in Slots \ {s} : ~Active(mem[t])
<1>1. StopTargets(s, session) /\ StopSlot(s)
  BY DEF Stop
<1>2. Current(mem[s])
  <2>1. mem[s].phase # "idle" /\ mem[s].parts
    BY <1>1 DEF StopSlot, cvars
  <2>2. mem[s].job \in Jobs
    BY <2>1 DEF TInv, TypeOK, SlotsOK, SlotOK, Slot, Phases
  <2>3. QED
    BY <2>1, <2>2, SpecialAssumption DEF Current
<1>3. CASE session # 0
  BY <1>1, <1>2, <1>3 DEF StopTargets, SInv, StatusSound, Matches
<1>4. CASE session = 0
  <2>1. SUFFICES ASSUME NEW t \in Slots, Active(mem[t]) PROVE t = s
    BY <1>4
  <2>2. Current(mem[t])
    BY <2>1, ActiveIsCurrent
  <2>3. ~Offered(t) /\ seen[t].status.state # "idle"
    BY <2>2, CurrentIsBusy DEF Offered, SInv, StatusSound
  <2>4. Owned(t)
    BY <2>3 DEF Owned
  <2>5. QED
    BY <1>1, <1>4, <2>4 DEF StopTargets
<1>5. QED
  BY <1>3, <1>4

(* A stop marks the session it names, or the only one at work: for any     *)
(* number of slots, whatever reads failed and whatever the workers did     *)
(* between the reads and the stop.                                         *)
THEOREM StopsHitTheirOwner == Spec => StopHitsOwner
<1>1. TInv /\ SInv => [\A s \in Slots :
         ~StopRequested(mem[s]) /\ StopRequested(mem'[s])
         => \A session \in 0..sessions :
              Stop(s, session)
              => IF session # 0 THEN mem[s].job.session = session
                 ELSE \A t \in Slots \ {s} : ~Active(mem[t])]_vars
  BY StopHits
<1>2. QED
  BY <1>1, SpecTInv, SpecSInv, PTL DEF StopHitsOwner

-----------------------------------------------------------------------------
(* What the cache remembers never contradicts a controller, also about the *)
(* room: the one its worker published, or until then the reserved one.     *)
RoomOf(c) == IF c.job.room # NoRoom THEN c.job.room ELSE c.expected

RoomFits(owner, c) == owner.room \in {NoRoom, RoomOf(c)}

OwnerRoom(s) ==
  Current(mem[s]) /\ owners[s] # NoOwner => RoomFits(owners[s], mem[s])

StatusRoom(s) ==
  Current(mem[s]) /\ seen[s].status.facts # NoOwner
    => RoomFits(seen[s].status.facts, mem[s])

CleanKnown(s) == clean /\ Concluded(s) => ~seen[s].unknown

CInv == \A s \in Slots : OwnerRoom(s) /\ StatusRoom(s) /\ CleanKnown(s)

(* An action that changes no room a slot's session is known to have.       *)
RoomsStay ==
  \A t \in Slots : Current(mem'[t]) =>
    /\ Current(mem[t])
    /\ RoomOf(mem[t]) # NoRoom => RoomOf(mem'[t]) = RoomOf(mem[t])

LEMMA RoomsStayFit ==
  ASSUME CInv, RoomsStay, UNCHANGED owners
  PROVE  /\ \A s \in Slots : OwnerRoom(s)'
         /\ \A s \in Slots : seen'[s].status = seen[s].status => StatusRoom(s)'
<1>1. ASSUME NEW t \in Slots, NEW owner, Current(mem'[t]), RoomFits(owner, mem[t])
      PROVE  RoomFits(owner, mem'[t])
  BY <1>1 DEF RoomsStay, RoomFits
<1>2. QED
  BY <1>1 DEF CInv, OwnerRoom, StatusRoom, RoomsStay

(* A merge of facts that fit the controller is never refused.              *)
LEMMA MergeRoom ==
  ASSUME NEW job \in Jobs, NEW room,
         NEW facts \in Owners, Matches(facts, job), facts.room \in {NoRoom, room},
         NEW prior \in Owners \cup {NoOwner},
         prior # NoOwner => Matches(prior, job) /\ prior.room \in {NoRoom, room}
  PROVE  LET v == Merge(prior, facts) IN
         /\ v.owner.room \in {NoRoom, room}
         /\ facts.out # NoOutput => ~v.unknown
<1>1. CASE prior = NoOwner
  BY <1>1 DEF Merge, Known
<1>2. CASE prior # NoOwner
  <2>1. prior.session = facts.session /\ ~Contradicts(prior, facts)
    BY <1>2 DEF Matches, Contradicts
  <2> DEFINE c == Completed(prior, facts)
  <2>2. Merge(prior, facts) = Known(c)
    BY <1>2, <2>1 DEF Merge
  <2>3. c.room \in {NoRoom, room}
    BY <1>2 DEF Completed
  <2>4. facts.out # NoOutput => c.out # NoOutput
    BY DEF Completed
  <2> HIDE DEF c
  <2>5. Known(c).owner = c /\ (Known(c).unknown <=> c.out = NoOutput)
    BY DEF Known
  <2>6. QED
    BY <2>2, <2>3, <2>4, <2>5
<1>3. QED
  BY <1>1, <1>2

-----------------------------------------------------------------------------
LEMMA SlotStepRooms ==
  ASSUME TInv, NEW s \in Slots, Worker(s) \/ StopSlot(s) \/ ShutdownSlot(s)
  PROVE  RoomsStay
<1>1. \A t \in Slots \ {s} : mem'[t] = mem[t]
  BY DEF Worker, PublishRoom, WorkerEnds, RecoverySaves, RecoverySettles,
     RecoveryDecides, RecoveryResumes, RecoveryBlocks, StopSlot, ShutdownSlot,
     cvars, TInv, TypeOK
<1>2. OnlyGivesUp
  BY WorkerGivesUp, StopShutdownGiveUp
<1>3. mem[s] \in Slot /\ SlotOK(mem[s])
  BY DEF TInv, TypeOK, SlotsOK
<1>4. Current(mem[s]) /\ Current(mem'[s]) /\ RoomOf(mem[s]) # NoRoom
        => RoomOf(mem'[s]) = RoomOf(mem[s])
  <2> SUFFICES ASSUME Current(mem[s]), Current(mem'[s]), RoomOf(mem[s]) # NoRoom
               PROVE  RoomOf(mem'[s]) = RoomOf(mem[s])
    OBVIOUS
  <2>1. mem[s].job \in Jobs /\ mem'[s].expected = mem[s].expected
    BY <1>2, <1>3 DEF Current, Slot, OnlyGivesUp
  <2>2. CASE PublishRoom(s)
    <3>1. PICK r \in IF mem[s].expected = NoRoom THEN Rooms ELSE {mem[s].expected} :
            mem' = [mem EXCEPT ![s].job = [mem[s].job EXCEPT !.room = r]]
      BY <2>2 DEF PublishRoom
    <3>2. mem[s].job.room = NoRoom
      BY <2>2 DEF PublishRoom
    <3>3. mem'[s].job.room = r
      BY <1>3, <2>1, <3>1 DEF TInv, TypeOK, Slot, Jobs
    <3>4. QED
      BY <2>1, <3>1, <3>2, <3>3 DEF RoomOf
  <2>3. CASE ~PublishRoom(s)
    <3>1. Settled(mem[s].job).room = mem[s].job.room
          /\ Stopped(mem[s].job).room = mem[s].job.room
      BY <2>1 DEF Settled, Stopped, Jobs
    <3>2. mem'[s].job \in {mem[s].job, Settled(mem[s].job), Stopped(mem[s].job)}
      BY <1>3, <2>3 DEF Worker, WorkerEnds, RecoverySaves, RecoverySettles,
         RecoveryDecides, RecoveryResumes, RecoveryBlocks, StopSlot,
         ShutdownSlot, cvars, TInv, TypeOK, Slot
    <3>3. QED
      BY <2>1, <3>1, <3>2 DEF RoomOf
  <2>4. QED
    BY <2>2, <2>3
<1>5. QED
  BY <1>1, <1>2, <1>4 DEF RoomsStay, OnlyGivesUp

LEMMA ReleaseCInv ==
  ASSUME TInv, CInv, RoomsStay, UNCHANGED owners, Release
  PROVE  CInv'
<1>1. \A s \in Slots : StatusRoom(s)' /\ CleanKnown(s)'
  BY DEF Release, StatusRoom, CleanKnown, Unseen, NotSeen, NoStatus
<1>2. QED
  BY <1>1, RoomsStayFit DEF CInv

LEMMA ScanCInv ==
  ASSUME CInv, RoomsStay, UNCHANGED <<owners, scan, clean>>
  PROVE  CInv'
<1>1. \A s \in Slots : CleanKnown(s)'
  BY DEF CInv, CleanKnown, Concluded, scan
<1>2. QED
  BY <1>1, RoomsStayFit DEF CInv, scan

LEMMA ReadStatusCInv ==
  ASSUME TInv, CInv, ReadStatus
  PROVE  CInv'
<1>1. at \in Slots /\ UNCHANGED <<mem, owners, at>> /\ pc' = "health" /\ pc = "status"
      /\ (clean' => clean)
  BY DEF TInv, TypeOK, ReadStatus, cvars
<1>2. PICK status \in {NoStatus, StatusOf(mem[at])} :
        seen' = [seen EXCEPT ![at].status = status]
  BY DEF ReadStatus
<1>3. \A s \in Slots \ {at} : seen'[s] = seen[s]
  BY <1>2 DEF TInv, TypeOK
<1>4. seen'[at].status = status
  BY <1>1, <1>2 DEF TInv, TypeOK, Entry
<1>5. StatusRoom(at)'
  <2>1. SUFFICES ASSUME Current(mem[at]), status.facts # NoOwner
                 PROVE  RoomFits(status.facts, mem[at])
    BY <1>1, <1>4 DEF StatusRoom
  <2>2. status = StatusOf(mem[at])
    BY <1>2, <2>1 DEF NoStatus
  <2>3. status.facts = FactsOf(mem[at].job)
    BY <2>1, <2>2 DEF StatusOf, Current
  <2>4. QED
    BY <2>3 DEF RoomFits, RoomOf, FactsOf
<1>6. \A s \in Slots : StatusRoom(s)'
  BY <1>1, <1>3, <1>5 DEF StatusRoom, CInv
<1>7. \A s \in Slots : CleanKnown(s)'
  BY <1>1, <1>3 DEF CleanKnown, Concluded, CInv, Slots
<1>8. QED
  BY <1>1, <1>6, <1>7 DEF CInv, OwnerRoom

(* A verdict that fits the room, and leaves no owner unknown unless some   *)
(* read of the pass failed.                                                *)
VerdictRoom(verdict) ==
  /\ Current(mem[at]) /\ verdict.owner # NoOwner
       => RoomFits(verdict.owner, mem[at])
  /\ clean' => ~verdict.unknown

LEMMA ConcludeCInv ==
  ASSUME TInv, CInv, NEW verdict \in Verdicts, VerdictRoom(verdict),
         Conclude(verdict), UNCHANGED mem, pc # "decide", clean' => clean
  PROVE  CInv'
<1>1. at \in Slots
  BY DEF TInv, TypeOK
<1>2. /\ owners' = [owners EXCEPT ![at] = verdict.owner]
      /\ \A s \in Slots : seen'[s].status = seen[s].status
      /\ \A s \in Slots \ {at} : seen'[s].unknown = seen[s].unknown
      /\ seen'[at].unknown = verdict.unknown
  BY <1>1 DEF Conclude, TInv, TypeOK, Entry
<1>3. owners'[at] = verdict.owner /\ \A s \in Slots \ {at} : owners'[s] = owners[s]
  BY <1>1, <1>2 DEF TInv, TypeOK
<1>4. \A s \in Slots : Concluded(s)' => s = at \/ Concluded(s)
  BY <1>1 DEF Conclude, Concluded, Slots
<1>5. \A s \in Slots : StatusRoom(s)'
  BY <1>2 DEF StatusRoom, CInv
<1>6. \A s \in Slots : OwnerRoom(s)'
  BY <1>3 DEF OwnerRoom, CInv, VerdictRoom
<1>7. \A s \in Slots : CleanKnown(s)'
  BY <1>2, <1>4 DEF CleanKnown, CInv, VerdictRoom
<1>8. QED
  BY <1>5, <1>6, <1>7 DEF CInv

LEMMA ReadHealthCInv ==
  ASSUME TInv, SInv, CInv, ReadHealth
  PROVE  CInv'
<1>1. at \in Slots /\ mem[at] \in Slot
      /\ owners[at] \in Owners \cup {NoOwner}
      /\ seen[at].status.facts \in Owners \cup {NoOwner}
  BY DEF TInv, TypeOK, Entry, Statuses
<1>2. PICK health \in {HealthOf(mem[at]), NoHealth} :
        LET first == AfterStatus(owners[at], seen[at].status, health) IN
        /\ seen' = [seen EXCEPT ![at].health = health,
                                ![at].unknown = first.unknown]
        /\ owners' = [owners EXCEPT ![at] = first.owner]
  BY DEF ReadHealth
<1> DEFINE first == AfterStatus(owners[at], seen[at].status, health)
<1>3. /\ \A s \in Slots : seen'[s].status = seen[s].status
      /\ \A s \in Slots \ {at} : seen'[s].unknown = seen[s].unknown
      /\ owners'[at] = first.owner
      /\ \A s \in Slots \ {at} : owners'[s] = owners[s]
      /\ UNCHANGED <<mem, at>> /\ pc' = "owner" /\ pc = "health"
      /\ (clean' => clean)
  BY <1>1, <1>2 DEF ReadHealth, TInv, TypeOK, Entry, cvars
<1>4. Current(mem[at]) /\ first.owner # NoOwner => RoomFits(first.owner, mem[at])
  <2>1. SUFFICES ASSUME Current(mem[at]), first.owner # NoOwner
                 PROVE  RoomFits(first.owner, mem[at])
    OBVIOUS
  <2> DEFINE prior == owners[at]
             facts == seen[at].status.facts
  <2>2. mem[at].job \in Jobs
    BY <1>1, <2>1, CurrentIsBusy
  <2>3. prior # NoOwner => Matches(prior, mem[at].job)
                           /\ prior.room \in {NoRoom, RoomOf(mem[at])}
    BY <1>1, <2>1 DEF SInv, OwnerSound, CInv, OwnerRoom, RoomFits
  <2>4. facts # NoOwner => /\ facts \in Owners /\ Matches(facts, mem[at].job)
                           /\ facts.room \in {NoRoom, RoomOf(mem[at])}
    BY <1>1, <2>1 DEF SInv, StatusSound, CInv, StatusRoom, RoomFits
  <2>5. CASE first.owner = prior
    BY <2>1, <2>3, <2>5 DEF RoomFits
  <2>6. CASE first = Merge(prior, facts) /\ facts # NoOwner
    <3>1. prior \in Owners \cup {NoOwner} /\ facts \in Owners
          /\ Matches(facts, mem[at].job)
          /\ facts.room \in {NoRoom, RoomOf(mem[at])}
      BY <1>1, <2>4, <2>6
    <3> HIDE DEF prior, facts
    <3>2. Merge(prior, facts).owner.room \in {NoRoom, RoomOf(mem[at])}
      BY <2>2, <2>3, <3>1, MergeRoom
    <3>3. QED
      BY <2>6, <3>2 DEF RoomFits
  <2>7. QED
    BY <2>5, <2>6 DEF AfterStatus, Unknown
<1> HIDE DEF first
<1>5. \A s \in Slots : StatusRoom(s)'
  BY <1>3 DEF StatusRoom, CInv
<1>6. \A s \in Slots : OwnerRoom(s)'
  BY <1>3, <1>4 DEF OwnerRoom, CInv
<1>7. \A s \in Slots : CleanKnown(s)'
  BY <1>1, <1>3 DEF CleanKnown, Concluded, CInv, Slots
<1>8. QED
  BY <1>5, <1>6, <1>7 DEF CInv

LEMMA SnapshotRoom ==
  ASSUME TInv, SInv, CInv, NEW facts \in SnapshotsOf(mem[at]), Current(mem[at])
  PROVE  LET v == AfterSnapshot(First, facts) IN
         /\ RoomFits(v.owner, mem[at])
         /\ facts = FactsOf(mem[at].job) => ~v.unknown
<1>1. at \in Slots /\ owners[at] \in Owners \cup {NoOwner}
      /\ First.owner = owners[at]
  BY DEF TInv, TypeOK, First
<1>2. /\ mem[at].job \in Jobs
      /\ FactsOf(mem[at].job) \in Owners
      /\ Matches(FactsOf(mem[at].job), mem[at].job)
      /\ FactsOf(mem[at].job).out # NoOutput
  BY <1>1, CurrentIsBusy
<1>3. FactsOf(mem[at].job).room \in {NoRoom, RoomOf(mem[at])}
  BY DEF FactsOf, RoomOf
<1>4. facts \in Owners /\ Matches(facts, mem[at].job)
      /\ facts.room \in {NoRoom, RoomOf(mem[at])}
  BY <1>2, <1>3 DEF SnapshotsOf, Owners, Matches
<1>5. owners[at] # NoOwner => Matches(owners[at], mem[at].job)
                              /\ owners[at].room \in {NoRoom, RoomOf(mem[at])}
  BY <1>1 DEF SInv, OwnerSound, CInv, OwnerRoom, RoomFits
<1>6. QED
  BY <1>1, <1>2, <1>4, <1>5, MergeRoom DEF AfterSnapshot, RoomFits

LEMMA OwnershipCInv ==
  ASSUME TInv, SInv, CInv, ReadOwnership \/ Recheck
  PROVE  CInv'
<1>1. at \in Slots /\ UNCHANGED mem /\ pc \in {"owner", "recheck"}
      /\ owners[at] \in Owners \cup {NoOwner}
      /\ First.owner = owners[at] /\ First \in Verdicts
      /\ seen[at].status \in Statuses /\ seen[at].health \in Healths
      /\ clean \in BOOLEAN
  BY FirstType DEF TInv, TypeOK, ReadOwnership, Recheck, cvars, First
<1>2. Current(mem[at]) /\ owners[at] # NoOwner => RoomFits(owners[at], mem[at])
  BY <1>1 DEF CInv, OwnerRoom
<1>3. CASE ReadOwnership /\ ReadCurrent
  <2>1. Current(mem[at])
    BY <1>3 DEF ReadCurrent
  <2>2. ASSUME NEW facts \in SnapshotsOf(mem[at]),
               Conclude(AfterSnapshot(First, facts)),
               clean' = (clean /\ facts = FactsOf(mem[at].job))
        PROVE  CInv'
    <3>1. VerdictRoom(AfterSnapshot(First, facts))
      BY <2>1, <2>2, SnapshotRoom DEF VerdictRoom
    <3>2. facts \in Owners
      BY <1>1, <2>1, CurrentIsBusy DEF SnapshotsOf, Owners
    <3>3. AfterSnapshot(First, facts) \in Verdicts
      BY <1>1, <3>2, AfterReadsType
    <3>4. QED
      BY <1>1, <2>2, <3>1, <3>3, ConcludeCInv
  <2>3. ASSUME Conclude(AfterPartial(First)), clean' = FALSE
        PROVE  CInv'
    <3>1. VerdictRoom(AfterPartial(First))
      BY <1>1, <1>2, <2>3 DEF VerdictRoom, AfterPartial, Unknown
    <3>2. AfterPartial(First) \in Verdicts
      BY <1>1, AfterReadsType
    <3>3. QED
      BY <1>1, <2>3, <3>1, <3>2, ConcludeCInv
  <2>4. QED
    BY <1>3, <2>2, <2>3 DEF ReadCurrent
<1>4. CASE ReadOwnership /\ ReadNotCurrent
  <2>1. ~Current(mem[at]) /\ pc = "owner" /\ clean' = clean
    BY <1>4 DEF ReadNotCurrent, ReadOwnership
  <2>2. CASE Conclude(Released)
    <3>1. VerdictRoom(Released) /\ Released \in Verdicts
      BY <1>1, <2>1, AfterReadsType DEF VerdictRoom, Released
    <3>2. QED
      BY <1>1, <2>1, <2>2, <3>1, ConcludeCInv
  <2>3. CASE pc' = "recheck" /\ UNCHANGED <<owners, seen, at>>
    BY <1>1, <2>1, <2>3 DEF CInv, OwnerRoom, StatusRoom, CleanKnown, Concluded
  <2>4. QED
    BY <1>4, <2>2, <2>3 DEF ReadNotCurrent
<1>5. CASE Conclude(AfterFailed(First, seen[at].status, seen[at].health))
           /\ clean' = FALSE
  <2> DEFINE v == AfterFailed(First, seen[at].status, seen[at].health)
  <2>1. v.owner \in {owners[at], NoOwner}
    BY <1>1 DEF AfterFailed, Released, Verdicts
  <2>2. VerdictRoom(v)
    BY <1>2, <1>5, <2>1 DEF VerdictRoom
  <2>3. v \in Verdicts
    BY <1>1, AfterReadsType
  <2>4. QED
    BY <1>1, <1>5, <2>2, <2>3, ConcludeCInv
<1>6. CASE Recheck
  <2>1. PICK ok \in BOOLEAN :
          /\ Conclude(AfterRecheck(First, ok /\ ~HealthOf(mem[at]).active))
          /\ clean' = (clean /\ ok)
    BY <1>6 DEF Recheck
  <2> DEFINE v == AfterRecheck(First, ok /\ ~HealthOf(mem[at]).active)
  <2>2. ~Current(mem[at])
    BY <1>6 DEF Recheck, SInv, RecheckSound
  <2>3. ~HealthOf(mem[at]).active
    BY <1>1, <2>2, ActiveIsCurrent DEF HealthOf
  <2>4. ok => ~v.unknown
    BY <2>3 DEF AfterRecheck, Released
  <2>5. VerdictRoom(v)
    BY <2>1, <2>2, <2>4 DEF VerdictRoom
  <2>6. v \in Verdicts
    BY <1>1, AfterReadsType
  <2>7. clean' => clean
    BY <2>1
  <2> HIDE DEF v
  <2>8. Conclude(v)
    BY <2>1 DEF v
  <2>9. QED
    BY <1>1, <2>5, <2>6, <2>7, <2>8, ConcludeCInv
<1>7. QED
  BY <1>3, <1>4, <1>5, <1>6 DEF ReadOwnership

(* The cache entry of an accepted start has the room that was asked for.   *)
LEMMA AcceptedCInv ==
  ASSUME TInv, CInv, NEW s \in Slots, NEW r \in Starts, StartAccepted(s, r)
  PROVE  CInv'
<1>1. /\ mem'[s].job.room = NoRoom /\ mem'[s].expected = r.room
      /\ \A t \in Slots \ {s} : mem'[t] = mem[t] /\ owners'[t] = owners[t]
      /\ owners'[s].room = r.room
  BY DEF StartAccepted, NewJob, FactsOf, TInv, TypeOK
<1>2. \A t \in Slots : OwnerRoom(t)'
  BY <1>1 DEF CInv, OwnerRoom, RoomFits, RoomOf
<1>3. \A t \in Slots : StatusRoom(t)' /\ CleanKnown(t)'
  BY DEF StartAccepted, Release, StatusRoom, CleanKnown, Unseen, NotSeen,
     NoStatus
<1>4. QED
  BY <1>2, <1>3 DEF CInv

LEMMA InitCInv == Init => CInv
  BY DEF Init, CInv, OwnerRoom, StatusRoom, CleanKnown, Unseen, NotSeen, NoStatus

LEMMA RestartCInv == Restart => CInv'
  BY DEF Restart, CInv, OwnerRoom, StatusRoom, CleanKnown, Unseen, NotSeen,
     NoStatus

LEMMA NextCInv == TInv /\ SInv /\ CInv /\ [Next]_vars => CInv'
<1> SUFFICES ASSUME TInv, SInv, CInv, [Next]_vars PROVE CInv'
  OBVIOUS
<1>1. UNCHANGED mem => RoomsStay
  BY DEF RoomsStay
<1>2. CASE Call
  <2>1. \A s \in Slots : CleanKnown(s)'
    BY <1>2 DEF Call, CleanKnown, Concluded, Slots
  <2>2. QED
    BY <1>1, <1>2, <2>1, RoomsStayFit DEF Call, cvars, CInv
<1>3. CASE ReadStatus \/ ReadHealth \/ ReadOwnership \/ Recheck
  BY <1>3, ReadStatusCInv, ReadHealthCInv, OwnershipCInv
<1>4. CASE Decide
  <2>1. CASE Return
    BY <1>1, <2>1, ReleaseCInv DEF Return, cvars
  <2>2. ASSUME NEW r \in Starts, StartRejected(r) PROVE CInv'
    BY <1>1, <2>2, ReleaseCInv DEF StartRejected, cvars
  <2>3. ASSUME NEW r \in Starts, NEW s \in Slots,
               StartFindsPath(s, r) \/ LaunchFails(s, r)
        PROVE  CInv'
    <3>1. OnlyGivesUp /\ Release /\ UNCHANGED owners
      BY <2>3, FailedStartStartsNone DEF StartFindsPath, LaunchFails
    <3>2. \A t \in Slots \ {s} : mem'[t] = mem[t]
      BY <2>3 DEF StartFindsPath, LaunchFails, TInv, TypeOK
    <3>3. mem'[s].phase = "idle"
      BY <2>3 DEF StartFindsPath, LaunchFails, Allocates, Selected, Offered,
         TInv, TypeOK, Slot, SeenFree
    <3>4. RoomsStay
      BY <3>1, <3>2, <3>3 DEF RoomsStay, Current
    <3>5. QED
      BY <3>1, <3>4, ReleaseCInv
  <2>4. ASSUME NEW r \in Starts, NEW s \in Slots, StartAccepted(s, r)
        PROVE  CInv'
    BY <2>4, AcceptedCInv
  <2>5. ASSUME NEW s \in Slots, NEW session \in 0..sessions, Stop(s, session)
        PROVE  CInv'
    BY <2>5, SlotStepRooms, ReleaseCInv DEF Stop
  <2>6. QED
    BY <1>4, <2>1, <2>2, <2>3, <2>4, <2>5 DEF Decide
<1>5. CASE Shutdown
  BY <1>1, <1>5, ScanCInv DEF Shutdown, cvars
<1>6. CASE Restart
  BY <1>6, RestartCInv
<1>7. ASSUME NEW s \in Slots, Worker(s) \/ ShutdownSlot(s) PROVE CInv'
  BY <1>7, SlotStepRooms, ScanCInv DEF Worker, ShutdownSlot
<1>8. CASE UNCHANGED vars
  BY <1>1, <1>8, ScanCInv DEF vars, scan
<1>9. QED
  BY <1>2, <1>3, <1>4, <1>5, <1>6, <1>7, <1>8 DEF Next

(* After a pass in which every read worked, no slot's owner is unknown,    *)
(* whatever earlier passes could not read.                                 *)
THEOREM OwnersAreKnown == Spec => []CleanScanKnowsOwners
<1>1. CInv => CleanScanKnowsOwners
  BY DEF CInv, CleanKnown, Concluded, CleanScanKnowsOwners
<1>2. QED
  BY <1>1, InitCInv, NextCInv, SpecTInv, SpecSInv, PTL DEF Spec
=============================================================================
