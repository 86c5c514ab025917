----------------------------- MODULE Retention -----------------------------
(* retention_delete_cli.py, retention_execute.py, retention_mutation.py,    *)
(* retention_authorization.py, retention_audit.py and its history: runs of  *)
(* `tikrec retention delete` on one session, beside a service that records  *)
(* in the same root, a configuration that changes, and files that are       *)
(* touched from outside.  Only Windows deletes.  RootLease stands for the   *)
(* lifecycle lock, and an update of the configuration is atomic, as         *)
(* PolicyRegister promises.                                                 *)
EXTENDS Naturals, Sequences, FiniteSets, SequencesExt

CONSTANTS
  Runs,          \* the calls of the command; their operation ids
  N,             \* the session's artifacts, in their destructive order
  Policies,      \* what a configuration says of the session
  Authorising,   \* the ones that let it be deleted
  Worker,        \* the service's recording thread
  NoRun,
  MaxChanges,    \* bound: updates of the configuration
  MaxTouches,    \* bound: changes of files from outside
  MaxStarts,     \* bound: recordings started
  MaxFaults      \* bound: calls of the system that fail, and crashes

ASSUME ItemsAssumption == N \in Nat /\ N >= 3
ASSUME PoliciesAssumption == Authorising \subseteq Policies
ASSUME RunsAssumption == NoRun \notin Runs /\ Worker \notin Runs
ASSUME BoundsAssumption == {MaxChanges, MaxTouches, MaxStarts, MaxFaults} \subseteq Nat

Items == 1 .. N
Parts == N - 1     \* the emptied directory
Output == N        \* the MP4 goes last
Root == "root"

VARIABLES
  place,      \* of each original artifact: at its path, in quarantine, gone
  version,    \* its bytes and identity
  taker,      \* the run whose private name it has, or had
  occupied,   \* paths where something else appeared
  others,     \* the claims of the root's other sessions
  policy, holder,
  writing, retaining,
  job,        \* the path the service's job file names
  worker,
  audit,      \* the complete lines of the journal
  torn,       \* whether something incomplete follows them
  pc, guard, auth, index,
  started, uncertain, durable,  \* RetentionProgress, as sets of runs
  outcome,
  changes, touches, starts, faults

artifacts == <<place, version, taker, occupied>>
service == <<others, job, worker>>
leases == <<writing, retaining>>
journal == <<audit, torn>>
progress == <<started, uncertain, durable>>
run == <<pc, guard, auth, index, progress, outcome>>
world == <<policy, changes, touches, starts>>
vars == <<artifacts, service, policy, holder, leases, journal, run, changes,
          touches, starts, faults>>

Lease == INSTANCE RootLease WITH Threads <- Runs \union {Worker},
                                 Roots <- {Root}

Snapshot == [policy |-> policy, others |-> others, version |-> version]

Init ==
  /\ place = [i \in Items |-> "path"]
  /\ version = [i \in Items |-> 0]
  /\ taker = [i \in Items |-> NoRun]
  /\ occupied = {}
  /\ others = 0
  /\ policy \in Policies
  /\ holder = NoRun
  /\ Lease!Init
  /\ job = "none"
  /\ worker = "idle"
  /\ audit = <<>>
  /\ torn = FALSE
  /\ pc = [o \in Runs |-> "idle"]
  /\ guard = [o \in Runs |-> Snapshot]
  /\ auth = [o \in Runs |-> Snapshot]
  /\ index = [o \in Runs |-> 0]
  /\ started = {}
  /\ uncertain = {}
  /\ durable = {}
  /\ outcome = [o \in Runs |-> "none"]
  /\ changes = 0
  /\ touches = 0
  /\ starts = 0
  /\ faults = 0

-----------------------------------------------------------------------------
(* The journal.                                                             *)

Record(event, o, i) == [event |-> event, run |-> o, item |-> i]

(* AuditHistory.  Only the latest operation may go on, until its end.       *)
Fresh == [run |-> NoRun, past |-> {}, index |-> 0, pending |-> FALSE,
          last |-> 0, terminal |-> FALSE, valid |-> TRUE]

Begins(h, r) ==
  IF r.run \in h.past THEN [h EXCEPT !.valid = FALSE]
  ELSE [Fresh EXCEPT !.run = r.run, !.past = h.past \union {r.run}]

FitsNextOnly(h, r) ==
  /\ r.run = h.run
  /\ ~h.terminal
  /\ CASE r.event = "completed" -> h.index = N /\ ~h.pending
       [] r.event \in {"failed", "attempt"} -> r.item = h.index + 1
       [] OTHER -> r.item = h.index + 1 /\ h.pending

Fits(h, r) ==
  /\ r.run = h.run
  /\ ~h.terminal
  /\ CASE r.event = "completed" -> h.index = N /\ ~h.pending
       [] r.event = "failed" ->
            \/ h.index < N /\ r.item = h.index + 1
            \/ ~h.pending /\ h.last # 0 /\ r.item = h.last
       [] r.event = "attempt" ->
            h.index < N /\ r.item = h.index + 1 /\ ~h.pending
       [] OTHER -> r.item = h.index + 1 /\ h.pending

Continues(h, r) ==
  CASE r.event \in {"completed", "failed"} -> [h EXCEPT !.terminal = TRUE]
    [] r.event = "attempt" -> [h EXCEPT !.pending = TRUE, !.last = 0]
    [] OTHER -> [h EXCEPT !.index = @ + 1, !.pending = FALSE, !.last = r.item]

Accept(h, r) ==
  IF ~h.valid THEN h
  ELSE IF r.event = "intent" THEN Begins(h, r)
  ELSE IF Fits(h, r) THEN Continues(h, r)
  ELSE [h EXCEPT !.valid = FALSE]

Accepts(records) == FoldLeft(Accept, Fresh, records).valid

(* What one append may come to: a line that follows a torn one is part of   *)
(* it; a sync that fails leaves the line.                                   *)
Written(r) ==
  /\ audit' = IF torn THEN audit ELSE Append(audit, r)
  /\ UNCHANGED torn
Unwritten == UNCHANGED journal
TornOff == torn' = TRUE /\ UNCHANGED audit

Faults == faults < MaxFaults /\ faults' = faults + 1

Synced(r) == Written(r) /\ UNCHANGED faults
Unsynced(r) == Written(r) /\ Faults
NotWritten == (Unwritten \/ TornOff) /\ Faults
AppendFails(r) == Unsynced(r) \/ NotWritten

-----------------------------------------------------------------------------
(* What is looked at.                                                       *)

(* The planner's verdict on the session: nothing is missing, moved or       *)
(* replaced, no unknown name is beside it, and the policy lets it go.       *)
Eligible ==
  /\ \A i \in Items : place[i] = "path"
  /\ occupied = {}
  /\ policy \in Authorising

CheckJobs == job # "target"
CheckPolicy(o) == policy = auth[o].policy /\ policy \in Authorising

(* The other claims are the same; what was deleted stayed away, and what is *)
(* left is what was authorised.                                             *)
CheckRoot(o) ==
  /\ others = auth[o].others
  /\ occupied = {}
  /\ \A i \in Items :
       IF i < index[o] THEN place[i] = "gone"
       ELSE place[i] = "path" /\ version[i] = auth[o].version[i]

Checks(o) == CheckPolicy(o) /\ CheckJobs /\ CheckRoot(o)

-----------------------------------------------------------------------------
(* A run, up to its intent.                                                 *)

Goes(o, from, to) == pc[o] = from /\ pc' = [pc EXCEPT ![o] = to]

OutcomeByCount(o) ==
  IF o \in durable THEN "complete"
  ELSE IF o \notin started THEN "refused"
  ELSE IF index[o] > 1 THEN "partial"
  ELSE "failed"

Outcome(o) ==
  IF o \in durable THEN "complete"
  ELSE IF o \notin started THEN "refused"
  ELSE IF o \in uncertain \/ index[o] > 1 THEN "partial"
  ELSE "failed"

Ends(o) ==
  /\ pc' = [pc EXCEPT ![o] = "ended"]
  /\ outcome' = [outcome EXCEPT ![o] = Outcome(o)]

Preview(o) ==
  /\ pc[o] = "idle"
  /\ \/ /\ Eligible /\ CheckJobs
        /\ pc' = [pc EXCEPT ![o] = "asked"]
        /\ guard' = [guard EXCEPT ![o] = Snapshot]
        /\ UNCHANGED outcome
     \/ ~(Eligible /\ CheckJobs) /\ Ends(o) /\ UNCHANGED guard
  /\ UNCHANGED <<artifacts, service, world, holder, leases, journal, auth,
                 index, progress, faults>>

(* The owner does not type the session's id.                                *)
Decline(o) ==
  /\ pc[o] = "asked"
  /\ Ends(o)
  /\ UNCHANGED <<artifacts, service, world, holder, leases, journal, guard,
                 auth, index, progress, faults>>

TakeLease(o) ==
  /\ pc[o] = "asked"
  /\ \/ Lease!GrantRetention(o, Root) /\ Goes(o, "asked", "observing")
        /\ UNCHANGED outcome
     \/ writing[Root] \union retaining[Root] # {} /\ Ends(o)
        /\ UNCHANGED leases
  /\ UNCHANGED <<artifacts, service, world, holder, journal, guard, auth,
                 index, progress, faults>>

Refuses(o) ==
  /\ pc' = [pc EXCEPT ![o] = "leaving"]
  /\ UNCHANGED <<auth, index>>

Observe(o) ==
  /\ pc[o] = "observing"
  /\ \/ /\ Eligible
        /\ auth' = [auth EXCEPT ![o] = Snapshot]
        /\ index' = [index EXCEPT ![o] = 1]
        /\ pc' = [pc EXCEPT ![o] = "confirming"]
     \/ ~Eligible /\ Refuses(o)
  /\ UNCHANGED <<artifacts, service, world, holder, leases, journal, guard,
                 progress, outcome, faults>>

(* The second observation has to agree with the first, and both with what   *)
(* the owner was shown.                                                     *)
Unchanged(o) == Snapshot = auth[o] /\ guard[o] = auth[o]

Confirm(o) ==
  /\ pc[o] = "confirming"
  /\ IF Eligible /\ Unchanged(o) /\ Checks(o)
       THEN Goes(o, "confirming", "opening") /\ UNCHANGED <<auth, index>>
       ELSE Refuses(o)
  /\ UNCHANGED <<artifacts, service, world, holder, leases, journal, guard,
                 progress, outcome, faults>>

OpenAudit(o) ==
  /\ pc[o] = "opening"
  /\ \/ /\ ~torn /\ Accepts(audit)
        /\ pc' = [pc EXCEPT ![o] = "intent"]
        /\ UNCHANGED faults
     \/ /\ torn \/ ~Accepts(audit)
        /\ pc' = [pc EXCEPT ![o] = "leaving"]
        /\ UNCHANGED faults
     \/ Faults /\ pc' = [pc EXCEPT ![o] = "leaving"]
  /\ UNCHANGED <<artifacts, service, world, holder, leases, journal, guard,
                 auth, index, progress, outcome>>

(* The sync is announced before it begins, so that a run that may have left *)
(* an intent is never reported as a refusal.                                *)
Intent(o) ==
  /\ pc[o] = "intent"
  /\ \/ /\ Synced(Record("intent", o, 0))
        /\ started' = started \union {o}
        /\ pc' = [pc EXCEPT ![o] = "checking"]
     \/ /\ Unsynced(Record("intent", o, 0))
        /\ started' = started \union {o}
        /\ pc' = [pc EXCEPT ![o] = "leaving"]
     \/ /\ NotWritten
        /\ pc' = [pc EXCEPT ![o] = "leaving"]
        /\ UNCHANGED started
  /\ UNCHANGED <<artifacts, service, world, holder, leases, guard, auth,
                 index, uncertain, durable, outcome>>

-----------------------------------------------------------------------------
(* One artifact after the other.                                            *)

Check(o) ==
  /\ pc[o] = "checking"
  /\ pc' = [pc EXCEPT ![o] = IF Checks(o) THEN "attempting" ELSE "failing"]
  /\ UNCHANGED <<artifacts, service, world, holder, leases, journal, guard,
                 auth, index, progress, outcome, faults>>

Attempt(o) ==
  /\ pc[o] = "attempting"
  /\ \/ Synced(Record("attempt", o, index[o]))
        /\ pc' = [pc EXCEPT ![o] = "rechecking"]
     \/ AppendFails(Record("attempt", o, index[o]))
        /\ pc' = [pc EXCEPT ![o] = "failing"]
  /\ UNCHANGED <<artifacts, service, world, holder, leases, guard, auth,
                 index, progress, outcome>>

Recheck(o) ==
  /\ pc[o] = "rechecking"
  /\ \/ /\ Checks(o)
        /\ uncertain' = uncertain \union {o}
        /\ pc' = [pc EXCEPT ![o] = "moving"]
     \/ /\ ~Checks(o)
        /\ pc' = [pc EXCEPT ![o] = "failing"]
        /\ UNCHANGED uncertain
  /\ UNCHANGED <<artifacts, service, world, holder, leases, journal, guard,
                 auth, index, started, durable, outcome, faults>>

(* The handle is exclusive from here to the removal: no byte changes, and   *)
(* the rename moves this object.  Bytes may have changed before under the   *)
(* same identity, which the digest will tell.                               *)
Move(o) ==
  LET i == index[o] IN
    /\ pc[o] = "moving"
    /\ \/ /\ place[i] = "path"
          /\ place' = [place EXCEPT ![i] = "private"]
          /\ taker' = [taker EXCEPT ![i] = o]
          /\ pc' = [pc EXCEPT ![o] = "proving"]
          /\ UNCHANGED faults
       \/ /\ place[i] # "path" \/ version[i] # auth[o].version[i]
          /\ pc' = [pc EXCEPT ![o] = "failing"]
          /\ UNCHANGED <<place, taker, faults>>
       \/ /\ Faults
          /\ pc' = [pc EXCEPT ![o] = "failing"]
          /\ UNCHANGED <<place, taker>>
    /\ UNCHANGED <<version, occupied, service, world, holder, leases, journal,
                   guard, auth, index, progress, outcome>>

Proven(o) ==
  /\ version[index[o]] = auth[o].version[index[o]]
  /\ index[o] \notin occupied

Prove(o) ==
  /\ pc[o] = "proving"
  /\ \/ /\ Proven(o)
        /\ pc' = [pc EXCEPT ![o] = "authorising"]
        /\ UNCHANGED faults
     \/ /\ ~Proven(o)
        /\ pc' = [pc EXCEPT ![o] = "failing"]
        /\ UNCHANGED faults
     \/ Faults /\ pc' = [pc EXCEPT ![o] = "failing"]
  /\ UNCHANGED <<artifacts, service, world, holder, leases, journal, guard,
                 auth, index, progress, outcome>>

(* mutation_authority: inside the policy lock, once more.                   *)
AuthorityOfJobs(o) == CheckJobs
Authority(o) == CheckPolicy(o) /\ CheckJobs

Authorise(o) ==
  /\ pc[o] = "authorising"
  /\ holder = NoRun
  /\ \/ Authority(o) /\ holder' = o /\ pc' = [pc EXCEPT ![o] = "deleting"]
     \/ ~Authority(o) /\ pc' = [pc EXCEPT ![o] = "failing"]
        /\ UNCHANGED holder
  /\ UNCHANGED <<artifacts, service, world, leases, journal, guard, auth,
                 index, progress, outcome, faults>>

(* The object is gone, or not; a path that came back raises afterwards.     *)
Delete(o) ==
  LET i == index[o] IN
    /\ pc[o] = "deleting"
    /\ holder' = NoRun
    /\ \/ /\ place' = [place EXCEPT ![i] = "gone"]
          /\ \/ /\ i \notin occupied
                /\ uncertain' = uncertain \ {o}
                /\ pc' = [pc EXCEPT ![o] = "recording"]
                /\ UNCHANGED faults
             \/ /\ i \in occupied
                /\ pc' = [pc EXCEPT ![o] = "failing"]
                /\ UNCHANGED <<uncertain, faults>>
             \/ /\ Faults
                /\ pc' = [pc EXCEPT ![o] = "failing"]
                /\ UNCHANGED uncertain
       \/ /\ Faults
          /\ pc' = [pc EXCEPT ![o] = "failing"]
          /\ UNCHANGED <<place, uncertain>>
    /\ UNCHANGED <<version, taker, occupied, service, world, leases, journal,
                   guard, auth, index, started, durable, outcome>>

RecordDeleted(o) ==
  LET i == index[o] IN
    /\ pc[o] = "recording"
    /\ \/ /\ Synced(Record("deleted", o, i))
          /\ pc' = [pc EXCEPT ![o] = IF i = N THEN "completing"
                                     ELSE "checking"]
       \/ /\ AppendFails(Record("deleted", o, i))
          /\ pc' = [pc EXCEPT ![o] = "failed"]
    /\ index' = [index EXCEPT ![o] = i + 1]
    /\ UNCHANGED <<artifacts, service, world, holder, leases, guard, auth,
                   progress, outcome>>

(* The failure names the artifact at hand: the next one, or the one whose   *)
(* deletion could not be recorded.                                          *)
RecordFailed(o) ==
  LET r == Record("failed", o, IF pc[o] = "failed" THEN index[o] - 1
                               ELSE index[o]) IN
    /\ pc[o] \in {"failing", "failed"}
    /\ Synced(r) \/ AppendFails(r)
    /\ pc' = [pc EXCEPT ![o] = "leaving"]
    /\ UNCHANGED <<artifacts, service, world, holder, leases, guard, auth,
                   index, progress, outcome>>

Complete(o) ==
  /\ pc[o] = "completing"
  /\ \/ Synced(Record("completed", o, 0))
        /\ durable' = durable \union {o}
     \/ AppendFails(Record("completed", o, 0)) /\ UNCHANGED durable
  /\ pc' = [pc EXCEPT ![o] = "leaving"]
  /\ UNCHANGED <<artifacts, service, world, holder, leases, guard, auth,
                 index, started, uncertain, outcome>>

Leave(o) ==
  /\ pc[o] = "leaving"
  /\ Ends(o)
  /\ Lease!GiveBack(o, Root)
  /\ UNCHANGED <<artifacts, service, world, holder, journal, guard, auth,
                 index, progress, faults>>

(* The process dies: what the operating system held for it is free.         *)
Die(o) ==
  /\ pc[o] \notin {"idle", "ended"}
  /\ Faults
  /\ pc' = [pc EXCEPT ![o] = "ended"]
  /\ outcome' = [outcome EXCEPT ![o] = "dead"]
  /\ holder' = IF holder = o THEN NoRun ELSE holder
  /\ Lease!Vanish({o})
  /\ UNCHANGED <<artifacts, service, world, journal, guard, auth, index,
                 progress>>

-----------------------------------------------------------------------------
(* The others.                                                              *)

SetPolicy(p) ==
  /\ changes < MaxChanges
  /\ holder = NoRun
  /\ policy' = p
  /\ changes' = changes + 1
  /\ UNCHANGED <<artifacts, service, holder, leases, journal, run, touches,
                 starts, faults>>

(* Bytes change, a file is replaced, or a name that was left is taken.      *)
Touch(i) ==
  /\ touches < MaxTouches
  /\ touches' = touches + 1
  /\ \/ place[i] = "path" /\ version' = [version EXCEPT ![i] = 1 - @]
        /\ UNCHANGED occupied
     \/ place[i] # "path" /\ occupied' = occupied \union {i}
        /\ UNCHANGED version
  /\ UNCHANGED <<place, taker, service, policy, holder, leases, journal, run,
                 changes, starts, faults>>

(* RecordingController.start: the job is on disk before the worker asks for *)
(* its lease.  The target's paths are refused while they exist.             *)
Start(path) ==
  /\ starts < MaxStarts
  /\ worker = "idle"
  /\ path = "target" =>
       \A i \in {Parts, Output} : place[i] # "path" /\ i \notin occupied
  /\ job' = path
  /\ worker' = "starting"
  /\ starts' = starts + 1
  /\ UNCHANGED <<artifacts, others, policy, holder, leases, journal, run,
                 changes, touches, faults>>

WorkerBegins ==
  /\ worker = "starting"
  /\ \/ /\ Lease!GrantWriter(Worker, Root)
        /\ worker' = "working"
     \/ /\ retaining[Root] # {}
        /\ worker' = "idle"
        /\ UNCHANGED leases
  /\ UNCHANGED <<artifacts, others, job, world, holder, journal, run, faults>>

(* It makes a session of its own, and with it new claims on the root.       *)
WorkerRecords ==
  /\ worker = "working"
  /\ worker' = "idle"
  /\ others' = others + 1
  /\ occupied' = IF job = "target" THEN occupied \union {Parts, Output}
                 ELSE occupied
  /\ Lease!GiveBack(Worker, Root)
  /\ UNCHANGED <<place, version, taker, job, world, holder, journal, run,
                 faults>>

Step(o) ==
  \/ Preview(o) \/ TakeLease(o) \/ Observe(o) \/ Confirm(o) \/ OpenAudit(o)
  \/ Intent(o) \/ Check(o) \/ Attempt(o) \/ Recheck(o) \/ Move(o) \/ Prove(o)
  \/ Authorise(o) \/ Delete(o) \/ RecordDeleted(o) \/ RecordFailed(o)
  \/ Complete(o) \/ Leave(o)

Next ==
  \/ \E o \in Runs : Step(o) \/ Decline(o) \/ Die(o)
  \/ \E p \in Policies : SetPolicy(p)
  \/ \E i \in Items : Touch(i)
  \/ \E path \in {"target", "other"} : Start(path)
  \/ WorkerBegins \/ WorkerRecords

Spec == Init /\ [][Next]_vars

-----------------------------------------------------------------------------
(* Properties.                                                              *)

(* Every journal a run leaves is one AuditHistory accepts, wherever the run *)
(* failed or died; only a torn line closes the journal (RetentionAudit,     *)
(* execute_retention, AuditHistory.accept).                                 *)
HistoryAccepted == Accepts(audit)

(* What the command reports is what happened: COMPLETE is a session gone    *)
(* and a journal that says so, REFUSED and FAILED have moved nothing        *)
(* (_incomplete, _refused, _completed_after_cleanup).                       *)
Truthful ==
  \A o \in Runs :
    /\ outcome[o] = "complete" =>
         /\ \A i \in Items : place[i] = "gone" /\ taker[i] = o
         /\ \E n \in DOMAIN audit : audit[n] = Record("completed", o, 0)
    /\ outcome[o] \in {"refused", "failed"} =>
         \A i \in Items : taker[i] # o

(* An object goes only under the policy, the claims and the bytes that the  *)
(* owner was shown, as the next in the order, with its attempt as the last  *)
(* line of the journal, and while no recording has the root                 *)
(* (remove_authorized, mutation_authority, _preview_signature).             *)
Authorised(o, i) ==
  /\ policy \in Authorising
  /\ policy = guard[o].policy
  /\ others = guard[o].others
  /\ version[i] = guard[o].version[i]
  /\ place[i] = "private" /\ taker[i] = o
  /\ \A j \in 1 .. (i - 1) : place[j] = "gone"
  /\ audit # <<>> /\ Last(audit) = Record("attempt", o, i)
  /\ writing[Root] = {} /\ retaining[Root] = {o}
Removes(i) == place[i] # "gone" /\ place'[i] = "gone"
RemovalAuthorised ==
  [][\A i \in Items : Removes(i) => \E o \in Runs : Authorised(o, i)]_vars
=============================================================================
