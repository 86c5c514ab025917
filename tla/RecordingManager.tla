-------------------------- MODULE RecordingManager --------------------------
(***************************************************************************)
(* tikrec/recording_manager.py: a fixed set of recording controllers, one  *)
(* per slot, behind one allocation lock.  Under the lock a call reads each *)
(* controller in slot order (status, health, ownership and sometimes       *)
(* health again) and then decides.  The workers of the controllers and     *)
(* the shutdown threads take no part in that lock: they interleave with    *)
(* the reads, one controller-lock section at a time.                       *)
(*                                                                         *)
(* A controller is modelled by the contract the manager relies on          *)
(* (recording.py): its phase, the job it shows, and the durable copy of    *)
(* that job.  RecordingController.tla models one controller in full.       *)
(***************************************************************************)
EXTENDS RecordingOwnership

CONSTANTS
  N,            \* number of slots (RECORDING_CAPACITY)
  ReadFaults,   \* which controller reads may fail or be incomplete
  StoreMayFail, \* a durable job write may fail
  MayCorrupt,   \* a store may be found unreadable, for good, at a restart
  MaxStarts,    \* bound: starts accepted or failed in the launch
  MaxCrashes    \* bound: restarts of the service process

ASSUME NAssumption == N \in Nat \ {0}
ASSUME ReadFaultsAssumption ==
  ReadFaults \subseteq {"status", "health", "ownership", "identity", "paths"}
ASSUME SwitchAssumption == StoreMayFail \in BOOLEAN /\ MayCorrupt \in BOOLEAN

Slots == 1..N

VARIABLES
  mem,      \* the controllers, in memory
  disk,     \* the durable job of each slot
  owners,   \* RecordingManager._owners
  closed,   \* RecordingManager._closed
  pc,       \* where the call that holds RecordingManager._lock is
  at,       \* the slot it reads
  seen,     \* the entries it has read
  sessions, \* session ids used so far
  crashes,
  claimed,  \* history: the slot's session was accepted by this process
  clean     \* history: no read of the current call failed

cvars == <<mem, disk>>
scan == <<pc, at, seen>>
vars == <<mem, disk, owners, closed, pc, at, seen, sessions, crashes,
          claimed, clean>>

-----------------------------------------------------------------------------
(* One controller.  "running": a capture worker; "recovering": the startup *)
(* reconciler at work; "settling" or "resuming": it has saved a settled or *)
(* resumed job and not yet updated the memory; "resumed": a worker that    *)
(* continues a recovered job; "blocked": recovery left unresolved.         *)
Capturing == {"running", "resumed"}
Reconciling == {"recovering", "settling", "resuming"}
Phases == Capturing \cup Reconciling \cup {"idle", "blocked"}

Slot == [phase : Phases, closed : BOOLEAN, parts : BOOLEAN,
         job : Jobs \cup {NoJob, Corrupt}, expected : MaybeRoom]

Active(c) == c.phase \in Capturing \cup Reconciling
Blocked(c) == c.phase \in Reconciling \cup {"blocked"}

(* RecordingController.ownership().                                        *)
Current(c) == c.phase # "idle" /\ c.job \notin {NoJob, Corrupt}

(* RecordingController.status(): with a parts directory set and no job,    *)
(* progress_snapshot looks for an "ended_at" the job does not have.        *)
StatusRaises(c) == c.job = NoJob /\ c.parts

StatusOf(c) ==
  [state |-> CASE c.job = NoJob -> "idle" [] c.job = Corrupt -> "broken"
               [] OTHER -> "job",
   active |-> Active(c) /\ c.parts,
   facts |-> IF c.job \in {NoJob, Corrupt} THEN NoOwner ELSE FactsOf(c.job)]
NoStatus == [state |-> "unavailable", active |-> FALSE, facts |-> NoOwner]

HealthOf(c) == [available |-> ~Active(c) /\ ~c.closed /\ ~Blocked(c),
                active |-> Active(c)]
NoHealth == [available |-> FALSE, active |-> FALSE]

Settled(job) == [job EXCEPT !.needs = FALSE]
Stopped(job) == [job EXCEPT !.stop = TRUE]

(* What a durable write of job can leave behind.                           *)
Written(s, job) == IF StoreMayFail THEN {job, disk[s]} ELSE {job}

IdleSlot == [phase |-> "idle", closed |-> FALSE, parts |-> FALSE,
             job |-> NoJob, expected |-> NoRoom]

-----------------------------------------------------------------------------
(* The worker's sections.                                                  *)

PublishRoom(s) ==
  /\ mem[s].phase = "running" /\ mem[s].job.needs
  /\ mem[s].job.room = NoRoom
  /\ \E r \in IF mem[s].expected = NoRoom THEN Rooms ELSE {mem[s].expected} :
       LET job == [mem[s].job EXCEPT !.room = r] IN
       /\ mem' = [mem EXCEPT ![s].job = job]
       /\ \E d \in Written(s, job) : disk' = [disk EXCEPT ![s] = d]

(* The capture worker writes its last job and gives up the slot.  A job    *)
(* that cannot be written, and a resumed job that fails, leave it blocked. *)
WorkerEnds(s) ==
  /\ mem[s].phase \in Capturing
  /\ \E job \in {Settled(mem[s].job), mem[s].job}, p \in {"idle", "blocked"} :
       /\ job.needs \/ (p = "blocked" /\ ~StoreMayFail)
            => mem[s].phase = "resumed"
       /\ job.needs => p = "blocked"
       /\ mem' = [mem EXCEPT ![s].phase = p, ![s].job = job]
       /\ \E d \in Written(s, job) :
            /\ d # job => p = "blocked"
            /\ disk' = [disk EXCEPT ![s] = d]

RecoverySaves(s) ==
  /\ mem[s].phase = "recovering"
  /\ mem' = [mem EXCEPT ![s].phase = "settling"]
  /\ disk' = [disk EXCEPT ![s] = Settled(mem[s].job)]

RecoverySettles(s) ==
  /\ mem[s].phase = "settling"
  /\ mem' = [mem EXCEPT ![s].phase = "idle", ![s].job = Settled(@)]
  /\ UNCHANGED disk

(* Same room, no stop: the resumption is saved before a worker has it.     *)
RecoveryDecides(s) ==
  /\ mem[s].phase = "recovering"
  /\ ~mem[s].job.stop /\ mem[s].job.room # NoRoom
  /\ mem' = [mem EXCEPT ![s].phase = "resuming"]
  /\ UNCHANGED disk

RecoveryResumes(s) ==
  /\ mem[s].phase = "resuming"
  /\ mem' = [mem EXCEPT ![s].phase = "resumed"]
  /\ UNCHANGED disk

RecoveryBlocks(s) ==
  /\ mem[s].phase \in Reconciling
  /\ mem' = [mem EXCEPT ![s].phase = "blocked"]
  /\ UNCHANGED disk

Worker(s) ==
  /\ \/ PublishRoom(s) \/ WorkerEnds(s) \/ RecoverySaves(s)
     \/ RecoverySettles(s) \/ RecoveryDecides(s) \/ RecoveryResumes(s)
     \/ RecoveryBlocks(s)
  /\ UNCHANGED <<owners, closed, scan, sessions, crashes, claimed, clean>>

(* RecordingController.shutdown in the thread RecordingManager.shutdown    *)
(* started for slot s, up to the join.                                     *)
ShutdownSlot(s) ==
  /\ closed /\ ~mem[s].closed
  /\ IF Active(mem[s])
     THEN LET job == Stopped(mem[s].job) IN
          /\ mem' = [mem EXCEPT ![s].closed = TRUE, ![s].job = job]
          /\ \E d \in Written(s, job) : disk' = [disk EXCEPT ![s] = d]
     ELSE mem' = [mem EXCEPT ![s].closed = TRUE] /\ UNCHANGED disk
  /\ UNCHANGED <<owners, closed, scan, sessions, crashes, claimed, clean>>

-----------------------------------------------------------------------------
(* A call of the manager (start, stop or a snapshot) takes the lock and    *)
(* reads every slot; the reads do not depend on which call it is.          *)
Starts == [url : Urls, out : Outputs, room : MaybeRoom]

NotSeen == [status |-> NoStatus, health |-> NoHealth, unknown |-> FALSE]
Unseen == [s \in Slots |-> NotSeen]

Call ==
  /\ pc = "free"
  /\ pc' = "status" /\ at' = 1 /\ clean' = TRUE
  /\ UNCHANGED <<cvars, owners, closed, seen, sessions, crashes, claimed>>

ReadStatus ==
  /\ pc = "status"
  /\ \E ok \in BOOLEAN :
       /\ ok => ~StatusRaises(mem[at])
       /\ ~ok => StatusRaises(mem[at]) \/ "status" \in ReadFaults
       /\ seen' = [seen EXCEPT ![at].status = IF ok THEN StatusOf(mem[at])
                                                    ELSE NoStatus]
       /\ clean' = (clean /\ ok)
  /\ pc' = "health"
  /\ UNCHANGED <<cvars, owners, closed, at, sessions, crashes, claimed>>

ReadHealth ==
  /\ pc = "health"
  /\ \E ok \in BOOLEAN :
       /\ ~ok => "health" \in ReadFaults
       /\ LET health == IF ok THEN HealthOf(mem[at]) ELSE NoHealth
              first == AfterStatus(owners[at], seen[at].status, health) IN
          /\ seen' = [seen EXCEPT ![at].health = health,
                                  ![at].unknown = first.unknown]
          /\ owners' = [owners EXCEPT ![at] = first.owner]
       /\ clean' = (clean /\ ok)
  /\ pc' = "owner"
  /\ UNCHANGED <<cvars, closed, at, sessions, crashes, claimed>>

(* The pass over slot "at" is complete with this verdict.                  *)
Conclude(verdict) ==
  /\ owners' = [owners EXCEPT ![at] = verdict.owner]
  /\ seen' = [seen EXCEPT ![at].unknown = verdict.unknown]
  /\ IF at = N THEN pc' = "decide" /\ at' = at
               ELSE pc' = "status" /\ at' = at + 1

First == [owner |-> owners[at], unknown |-> seen[at].unknown]

SnapshotsOf(c) ==
  {FactsOf(c.job)}
    \cup IF "paths" \in ReadFaults
         THEN {[FactsOf(c.job) EXCEPT !.out = NoOutput]} ELSE {}

ReadCurrent ==
  /\ Current(mem[at])
  /\ \/ \E facts \in SnapshotsOf(mem[at]) :
          /\ Conclude(AfterSnapshot(First, facts))
          /\ clean' = (clean /\ facts = FactsOf(mem[at].job))
     \/ /\ "identity" \in ReadFaults
        /\ Conclude(AfterPartial(First))
        /\ clean' = FALSE

ReadNotCurrent ==
  /\ ~Current(mem[at])
  /\ IF seen[at].health.active
     THEN pc' = "recheck" /\ UNCHANGED <<owners, seen, at>>
     ELSE Conclude(Released)
  /\ UNCHANGED clean

ReadOwnership ==
  /\ pc = "owner"
  /\ \/ ReadCurrent
     \/ ReadNotCurrent
     \/ /\ "ownership" \in ReadFaults
        /\ Conclude(AfterFailed(First, seen[at].status, seen[at].health))
        /\ clean' = FALSE
  /\ UNCHANGED <<cvars, closed, sessions, crashes, claimed>>

Recheck ==
  /\ pc = "recheck"
  /\ \E ok \in BOOLEAN :
       /\ ~ok => "health" \in ReadFaults
       /\ Conclude(AfterRecheck(First, ok /\ ~HealthOf(mem[at]).active))
       /\ clean' = (clean /\ ok)
  /\ UNCHANGED <<cvars, closed, sessions, crashes, claimed>>

-----------------------------------------------------------------------------
(* The decision, with every entry read.  One unknown owner takes every     *)
(* slot out of the allocation.                                             *)
Blind == \E s \in Slots : seen[s].unknown

Offered(s) == /\ seen[s].health.available
              /\ seen[s].status.state # "unavailable" /\ ~Blind

Owned(s) == \/ seen[s].status.active
            \/ ~Offered(s) /\ seen[s].status.state # "idle"

Release == /\ pc' = "free" /\ at' = 1 /\ seen' = Unseen
           /\ clean' = TRUE
           /\ UNCHANGED crashes

(* Mutants: outputs compared without their parts; no page comparison.      *)
ConflictWithoutParts(facts, r) ==
  /\ facts # NoOwner
  /\ \/ facts.out = r.out
     \/ facts.page = PageOf[r.url]
     \/ r.room # NoRoom /\ facts.room = r.room

(* The entry's own facts and the cached owner's both count.                *)
Conflict(facts, r) ==
  /\ facts # NoOwner
  /\ \/ facts.out # NoOutput /\ SamePaths(facts.out, r.out)
     \/ facts.page = PageOf[r.url]
     \/ r.room # NoRoom /\ facts.room = r.room

ClashesWith(s, r) ==
  Owned(s) /\ (Conflict(seen[s].status.facts, r) \/ Conflict(owners[s], r))

Selected(s) == Offered(s) /\ \A t \in Slots : Offered(t) => s <= t

StartRejected(r) ==
  /\ pc = "decide"
  /\ \/ closed \/ Blind
     \/ \E s \in Slots : ClashesWith(s, r)
     \/ \A s \in Slots : ~Offered(s)
  /\ Release
  /\ UNCHANGED <<cvars, owners, closed, sessions, claimed>>

Allocates(s, r) ==
  /\ pc = "decide"
  /\ ~closed /\ ~Blind /\ \A t \in Slots : ~ClashesWith(t, r)
  /\ Selected(s)
  /\ sessions < MaxStarts

(* Mutant: the session id of the job before.                               *)
NewJobStale(r) == [session |-> sessions, url |-> r.url, out |-> r.out,
                   room |-> NoRoom, stop |-> FALSE, needs |-> TRUE]

NewJob(r) == [session |-> sessions + 1, url |-> r.url, out |-> r.out,
              room |-> NoRoom, stop |-> FALSE, needs |-> TRUE]

(* RecordingController.start finds the output or the parts on disk: it has *)
(* already replaced its parts directory.                                   *)
StartFindsPath(s, r) ==
  /\ Allocates(s, r)
  /\ mem' = [mem EXCEPT ![s].parts = TRUE]
  /\ Release
  /\ UNCHANGED <<disk, owners, closed, sessions, claimed>>

(* The first write of the job or the launch of the thread fails, and the   *)
(* failed job is written in turn.                                          *)
LaunchFails(s, r) ==
  /\ Allocates(s, r)
  /\ mem' = [mem EXCEPT ![s].job = Settled(NewJob(r)), ![s].parts = TRUE,
                        ![s].expected = NoRoom]
  /\ \E d \in {Settled(NewJob(r))} \cup Written(s, Settled(NewJob(r)))
                \cup IF StoreMayFail THEN {NewJob(r)} ELSE {} :
       disk' = [disk EXCEPT ![s] = d]
  /\ sessions' = sessions + 1
  /\ claimed' = [claimed EXCEPT ![s] = FALSE]
  /\ Release
  /\ UNCHANGED <<owners, closed>>

StartAccepted(s, r) ==
  /\ Allocates(s, r)
  /\ mem' = [mem EXCEPT ![s] = [phase |-> "running", closed |-> @.closed,
                                parts |-> TRUE, job |-> NewJob(r),
                                expected |-> r.room]]
  /\ disk' = [disk EXCEPT ![s] = NewJob(r)]
  /\ owners' = [owners EXCEPT ![s] =
       [FactsOf(NewJob(r)) EXCEPT !.room = r.room]]
  /\ sessions' = sessions + 1
  /\ claimed' = [claimed EXCEPT ![s] = TRUE]
  /\ Release
  /\ UNCHANGED closed

-----------------------------------------------------------------------------
(* RecordingController.stop; on a failed write the flag stays in memory.   *)
StopSlot(s) ==
  IF mem[s].phase # "idle" /\ mem[s].parts
  THEN LET job == Stopped(mem[s].job) IN
       /\ mem' = [mem EXCEPT ![s].job = job]
       /\ \E d \in Written(s, job) : disk' = [disk EXCEPT ![s] = d]
  ELSE UNCHANGED cvars

(* Mutant: the first owning slot, whatever session is named.               *)
StopTargetsFirst(s, session) ==
  Owned(s) /\ \A t \in Slots : Owned(t) => s <= t

(* session 0 stands for a legacy stop without a session id.                *)
StopTargets(s, session) ==
  /\ Owned(s)
  /\ IF session = 0 THEN \A t \in Slots : Owned(t) => t = s
     ELSE /\ seen[s].status.facts # NoOwner
          /\ seen[s].status.facts.session = session

Stop(s, session) ==
  /\ pc = "decide"
  /\ StopTargets(s, session)
  /\ StopSlot(s)
  /\ Release
  /\ UNCHANGED <<owners, closed, sessions, claimed>>

(* A snapshot; or a stop without an owner, without a session id among      *)
(* several owners, or of a session that is not active: nothing is done.    *)
Return ==
  /\ pc = "decide"
  /\ Release
  /\ UNCHANGED <<cvars, owners, closed, sessions, claimed>>

Shutdown ==
  /\ pc = "free" /\ ~closed
  /\ closed' = TRUE
  /\ UNCHANGED <<cvars, owners, scan, sessions, crashes, claimed, clean>>

-----------------------------------------------------------------------------
(* service_job.independent_job_stores: of two interrupted jobs that share  *)
(* a path, the later slot's store is blocked for this process.             *)
Interrupted(job) == job \notin {NoJob, Corrupt} /\ job.needs

(* Mutant: interrupted jobs are not compared.                              *)
CollidesNever(s, stores) == FALSE

Collides(s, stores) ==
  \E t \in Slots : /\ t < s
                   /\ Interrupted(stores[t]) /\ Interrupted(stores[s])
                   /\ SamePaths(stores[t].out, stores[s].out)

(* RecordingController.__init__.                                           *)
Loaded(s, stores) ==
  IF stores[s] = NoJob THEN IdleSlot
  ELSE IF stores[s] = Corrupt \/ Collides(s, stores)
  THEN [IdleSlot EXCEPT !.phase = "blocked", !.job = Corrupt]
  ELSE [IdleSlot EXCEPT !.parts = TRUE, !.job = stores[s],
          !.phase = IF stores[s].needs THEN "recovering" ELSE "idle"]

(* The process ends, at any point, and is started again.                   *)
Restart ==
  /\ crashes < MaxCrashes
  /\ \E lost \in IF MayCorrupt THEN SUBSET Slots ELSE {{}} :
       disk' = [s \in Slots |-> IF s \in lost THEN Corrupt ELSE disk[s]]
  /\ mem' = [s \in Slots |-> Loaded(s, disk')]
  /\ owners' = [s \in Slots |-> NoOwner]
  /\ closed' = FALSE
  /\ pc' = "free" /\ at' = 1 /\ seen' = Unseen
  /\ claimed' = [s \in Slots |-> FALSE]
  /\ crashes' = crashes + 1
  /\ clean' = TRUE
  /\ UNCHANGED sessions

Init ==
  /\ mem = [s \in Slots |-> IdleSlot]
  /\ disk = [s \in Slots |-> NoJob]
  /\ owners = [s \in Slots |-> NoOwner]
  /\ closed = FALSE
  /\ pc = "free" /\ at = 1 /\ seen = Unseen
  /\ sessions = 0 /\ crashes = 0
  /\ claimed = [s \in Slots |-> FALSE]
  /\ clean = TRUE

Decide ==
  \/ Return
  \/ \E r \in Starts :
       \/ StartRejected(r)
       \/ \E s \in Slots : \/ StartFindsPath(s, r) \/ LaunchFails(s, r)
                           \/ StartAccepted(s, r)
  \/ \E s \in Slots, session \in 0..sessions : Stop(s, session)

Next == \/ Call \/ ReadStatus \/ ReadHealth \/ ReadOwnership \/ Recheck
        \/ Decide \/ Shutdown \/ Restart
        \/ \E s \in Slots : Worker(s) \/ ShutdownSlot(s)

Spec == Init /\ [][Next]_vars

-----------------------------------------------------------------------------
(* Properties.                                                             *)

Entry == [status : Statuses, health : Healths, unknown : BOOLEAN]

(* The state stays in its types: phases, jobs, owners and the scan.        *)
TypeOK ==
  /\ mem \in [Slots -> Slot]
  /\ disk \in [Slots -> Jobs \cup {NoJob, Corrupt}]
  /\ owners \in [Slots -> Owners \cup {NoOwner}]
  /\ closed \in BOOLEAN
  /\ pc \in {"free", "status", "health", "owner", "recheck", "decide"}
  /\ at \in Slots
  /\ seen \in [Slots -> Entry]
  /\ sessions \in Nat /\ crashes \in Nat
  /\ claimed \in [Slots -> BOOLEAN]
  /\ clean \in BOOLEAN

Overlap(j1, j2) == \/ PageOf[j1.url] = PageOf[j2.url]
                   \/ SamePaths(j1.out, j2.out)

(* A start the manager accepted never shares its LIVE page, output or      *)
(* retained parts with a session another slot is still working on, however *)
(* the reads of that slot failed and whatever its worker did meanwhile.    *)
ExclusiveClaims ==
  \A s, t \in Slots :
    s # t /\ claimed[s] /\ Current(mem[s]) /\ Current(mem[t])
      => ~Overlap(mem[s].job, mem[t].job)

(* Two accepted starts that reserved a room never hold the same room, also *)
(* before either worker has published the room it found.                   *)
RoomReservation ==
  \A s, t \in Slots :
    /\ s # t /\ claimed[s] /\ claimed[t]
    /\ Current(mem[s]) /\ Current(mem[t])
    /\ mem[s].expected # NoRoom
    => mem[s].expected # mem[t].expected

(* A failed or partial read never makes the manager forget an accepted     *)
(* session that still holds its slot, or the room reserved for it.         *)
ClaimKept ==
  \A s \in Slots :
    claimed[s] /\ Current(mem[s])
      => /\ owners[s] # NoOwner
         /\ owners[s].session = mem[s].job.session
         /\ owners[s].out = mem[s].job.out
         /\ mem[s].expected # NoRoom => owners[s].room = mem[s].expected

(* With failing stores too, no two workers, captures or recoveries, ever    *)
(* share an output or retained parts, whatever jobs a restart brings back.  *)
ExclusivePaths ==
  \A s, t \in Slots :
    s # t /\ Active(mem[s]) /\ Active(mem[t])
      => ~SamePaths(mem[s].job.out, mem[t].job.out)

(* Once reads work again, one pass knows every owner: an unknown owner is  *)
(* not remembered, and what the cache kept from failed reads does not      *)
(* contradict the controllers.                                             *)
CleanScanKnowsOwners ==
  pc = "decide" /\ clean => \A s \in Slots : ~seen[s].unknown

(* A stop marks the session it names and no other; without a name it marks *)
(* a session only while no other controller is at work.                    *)
StopRequested(c) == c.job \notin {NoJob, Corrupt} /\ c.job.stop

StopHitsOwner ==
  [][\A s \in Slots :
       ~StopRequested(mem[s]) /\ StopRequested(mem'[s])
       => \A session \in 0..sessions :
            Stop(s, session)
            => IF session # 0 THEN mem[s].job.session = session
               ELSE \A t \in Slots \ {s} : ~Active(mem[t])]_vars

=============================================================================
