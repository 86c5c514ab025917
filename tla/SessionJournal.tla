--------------------------- MODULE SessionJournal ---------------------------
(***************************************************************************)
(* tikrec/session_journal*.py: the durable journal of capture bindings,    *)
(* finalization tasks and the claims they hold on rooms and paths.  One    *)
(* SQLite transaction per operation (_mutate) makes each of them atomic;   *)
(* any number of callers interleave, each with the revision, generation,   *)
(* attempt and token it read earlier.  A caller that loses the answer of a *)
(* COMMIT does not know whether it happened and replays the operation.     *)
(*                                                                         *)
(* The tables are functions over the sessions.  What an intent says is     *)
(* fixed with its session id; seals and proofs are the caller's evidence,  *)
(* compared with the row they belong to, and are left out, as is the       *)
(* recovery reason, which no operation reads.                              *)
(***************************************************************************)
EXTENDS Integers, FiniteSets, Sequences

CONSTANTS
  Sessions,     \* session ids
  IntentOf,     \* the intent accepted under a session id
  Creators, Rooms, Claims,
  Overlapping,  \* pairs of sessions whose output or parts paths overlap
  Tokens,       \* attempt tokens
  Limit,        \* outstanding units (8 in the code)
  NoRoom, NoClaim, NoSession, NoToken, NoTask, NoAttempt, NoCall,
  MaxRevision,  \* bound: intents and held attempts that only revise
  LostCalls,    \* operations whose COMMIT may go unanswered
  MaxLost       \* bound: answers lost

ASSUME IntentAssumption ==
  /\ IntentOf \in [Sessions -> [creator : Creators, expected : Rooms \cup {NoRoom},
                                claim : Claims \cup {NoClaim}]]
  /\ \A s \in Sessions : IntentOf[s].claim # NoClaim => IntentOf[s].expected # NoRoom
ASSUME OverlapAssumption ==
  \A s, t \in Sessions : <<s, t>> \in Overlapping => <<t, s>> \in Overlapping
ASSUME LimitAssumption == Limit \in Nat /\ MaxLost \in Nat
Slots == {1, 2}

TaskStates == {"queued", "running", "failed", "blocked", "completed"}
Tasks == [state : TaskStates, rev : Nat, attempt : Nat,
          token : Tokens \cup {NoToken}, order : Nat]
Attempts == [session : Sessions, number : Nat,
             state : {"running", "failed", "completed"}]

ASSUME AbsentAssumption ==
  /\ NoRoom \notin Rooms /\ NoClaim \notin Claims
  /\ NoSession \notin Sessions /\ NoToken \notin Tokens
  /\ NoTask \notin Tasks /\ NoAttempt \notin Attempts

VARIABLES
  sessions,  \* the sessions table
  bindings,  \* the capture bindings: the session bound to a slot
  units,     \* outstanding work, a capture or a task
  artifacts, \* sessions that own their output and parts paths
  rooms,     \* the session that owns a room
  tasks, attempts,
  queue,     \* queue_entries: the session of each position
  receipts,  \* automatic_receipts: the session accepted for a claim
  operations, \* the rows of the operations whose answer was lost
  pending,   \* an operation whose COMMIT was not answered
  lost       \* answers lost so far, and the latest id a caller had to keep

tables == <<sessions, bindings, units, artifacts, rooms, tasks, attempts,
            queue, receipts>>
vars == <<tables, operations, pending, lost>>

Unknown == [phase |-> "none", rev |-> 0, stop |-> FALSE, room |-> NoRoom,
            slot |-> 0, gen |-> 0]
CapturePhases == {"reserved", "capturing", "closing"}
Outstanding == {s \in Sessions : units[s] # "none"}

-----------------------------------------------------------------------------
(* session_journal_ownership.py.  RoomOf: row["room"] or expected_room.    *)
RoomOf(s) == IF sessions[s].room # NoRoom THEN sessions[s].room
                                          ELSE IntentOf[s].expected

Conflict(s, rs, ks, t, rt, kt) ==
  \/ rs # NoRoom /\ rs = rt
  \/ /\ IntentOf[s].creator = IntentOf[t].creator
     /\ (ks = "capture" /\ kt = "capture") \/ rs = NoRoom \/ rt = NoRoom
  \/ <<s, t>> \in Overlapping

(* Mutant: only current captures are asked.                                *)
AdmissibleBesideCaptures(s, room) ==
  \A t \in Outstanding \ {s} :
    units[t] = "capture" => ~Conflict(s, room, "capture", t, RoomOf(t), units[t])

(* check_admission.                                                        *)
Admissible(s, room) ==
  \A t \in Outstanding \ {s} : ~Conflict(s, room, "capture", t, RoomOf(t), units[t])

-----------------------------------------------------------------------------
(* session_journal_capture.py.  A call q carries what its caller believes. *)
(* guard_capture: the binding and its generation are the session's own.    *)
Guarded(q) ==
  /\ sessions[q.s].rev = q.rev
  /\ \E b \in Slots : bindings[b] = [session |-> q.s, gen |-> q.gen]

(* An automatic claim already accepted is answered with its session.       *)
Accepted(s) == IntentOf[s].claim # NoClaim /\ receipts[IntentOf[s].claim] = s

Free(q, b) == bindings[b].session = NoSession /\ q.slot \in {0, b}

CanReserve(q) ==
  /\ IntentOf[q.s].claim # NoClaim => receipts[IntentOf[q.s].claim] = NoSession
  /\ sessions[q.s] = Unknown
  /\ Admissible(q.s, IntentOf[q.s].expected)
  /\ Cardinality(Outstanding) < Limit
  /\ \E b \in Slots : Free(q, b)

Reserve(q) ==
  \E b \in Slots :
    /\ Free(q, b) /\ \A d \in Slots : Free(q, d) => b <= d
    /\ sessions' = [sessions EXCEPT ![q.s] =
         [Unknown EXCEPT !.phase = "reserved", !.rev = 1, !.slot = b,
                         !.gen = bindings[b].gen + 1]]
    /\ bindings' = [bindings EXCEPT ![b] = [session |-> q.s, gen |-> @.gen + 1]]
    /\ units' = [units EXCEPT ![q.s] = "capture"]
    /\ artifacts' = artifacts \cup {q.s}
    /\ rooms' = IF IntentOf[q.s].expected = NoRoom THEN rooms
                ELSE [rooms EXCEPT ![IntentOf[q.s].expected] = q.s]
    /\ receipts' = IF IntentOf[q.s].claim = NoClaim THEN receipts
                   ELSE [receipts EXCEPT ![IntentOf[q.s].claim] = q.s]
    /\ UNCHANGED <<tasks, attempts, queue>>

(* The replayed acceptance of an automatic intent under a new operation.   *)
CanReserveAgain(q) == Accepted(q.s)
ReserveAgain(q) == UNCHANGED tables

(* Mutant: a stop committed meanwhile does not keep the writer out.        *)
CanAdmitStopped(q) ==
  /\ Guarded(q) /\ sessions[q.s].phase = "reserved"
  /\ IntentOf[q.s].expected \in {NoRoom, q.room}
  /\ Admissible(q.s, q.room)

CanAdmit(q) ==
  /\ Guarded(q) /\ ~sessions[q.s].stop /\ sessions[q.s].phase = "reserved"
  /\ IntentOf[q.s].expected \in {NoRoom, q.room}
  /\ Admissible(q.s, q.room)

Admit(q) ==
  /\ rooms' = [rooms EXCEPT ![q.room] = IF @ = NoSession THEN q.s ELSE @]
  /\ sessions' = [sessions EXCEPT ![q.s].room = q.room, ![q.s].phase = "capturing",
                                  ![q.s].rev = @ + 1]
  /\ UNCHANGED <<bindings, units, artifacts, tasks, attempts, queue, receipts>>

CanIntend(q) == Guarded(q)

(* capture_intent: what was requested is never taken back.                 *)
Intend(q) ==
  /\ sessions' = [sessions EXCEPT
       ![q.s].phase = IF q.closing THEN "closing" ELSE @,
       ![q.s].stop = @ \/ q.stop, ![q.s].rev = @ + 1]
  /\ UNCHANGED <<bindings, units, artifacts, rooms, tasks, attempts, queue, receipts>>

Unbound(s) == [b \in Slots |-> IF bindings[b].session = s
                               THEN [bindings[b] EXCEPT !.session = NoSession]
                               ELSE bindings[b]]
(* Mutant: the rows stay.                                                  *)
RoomsKept(s) == rooms

RoomsWithout(s) == [r \in Rooms |-> IF rooms[r] = s THEN NoSession ELSE rooms[r]]

CanHandoff(q) ==
  Guarded(q) /\ sessions[q.s].phase = "closing" /\ sessions[q.s].room # NoRoom

(* The sealed capture becomes a queued task with the capture's own unit.   *)
Handoff(q) ==
  /\ sessions' = [sessions EXCEPT ![q.s].phase = "queued", ![q.s].rev = @ + 1]
  /\ queue' = Append(queue, q.s)
  /\ tasks' = [tasks EXCEPT ![q.s] =
       [state |-> "queued", rev |-> 1, attempt |-> 0, token |-> NoToken,
        order |-> Len(queue) + 1]]
  /\ units' = [units EXCEPT ![q.s] = "task"]
  /\ bindings' = Unbound(q.s)
  /\ UNCHANGED <<artifacts, rooms, attempts, receipts>>

CanRelease(q) == Guarded(q) /\ sessions[q.s].phase = "reserved"

(* settle_reservation: nothing was written, nothing is assembled.          *)
Release(q) ==
  /\ sessions' = [sessions EXCEPT ![q.s].phase = "no_assembly", ![q.s].rev = @ + 1]
  /\ units' = [units EXCEPT ![q.s] = "none"]
  /\ artifacts' = artifacts \ {q.s}
  /\ rooms' = RoomsWithout(q.s)
  /\ bindings' = Unbound(q.s)
  /\ UNCHANGED <<tasks, attempts, queue, receipts>>

-----------------------------------------------------------------------------
(* session_journal_tasks.py.                                               *)
Queued(s) == tasks[s] # NoTask /\ tasks[s].state = "queued"
Running(s) == tasks[s] # NoTask /\ tasks[s].state = "running"

(* Mutant: the newest entry first.                                         *)
NewestFirst(s) ==
  Queued(s) /\ \A t \in Sessions : Queued(t) => tasks[s].order >= tasks[t].order

(* The oldest entry first.                                                 *)
Oldest(s) ==
  Queued(s) /\ \A t \in Sessions : Queued(t) => tasks[s].order <= tasks[t].order

(* Nothing to do is an answer as well, and kept as the operation's result. *)
CanClaimNothing(q) == (\E s \in Sessions : Running(s)) \/ \A s \in Sessions : ~Queued(s)
ClaimNothing(q) == UNCHANGED tables

(* Mutant: beside a running attempt.                                       *)
CanClaimBeside(q) ==
  attempts[q.token] = NoAttempt /\ \E s \in Sessions : Queued(s)

CanClaim(q) ==
  /\ attempts[q.token] = NoAttempt
  /\ \A s \in Sessions : ~Running(s)
  /\ \E s \in Sessions : Queued(s)

Claim(q) ==
  \E s \in Sessions :
    /\ Oldest(s)
    /\ attempts' = [attempts EXCEPT ![q.token] =
         [session |-> s, number |-> tasks[s].attempt + 1, state |-> "running"]]
    /\ tasks' = [tasks EXCEPT ![s].state = "running", ![s].rev = @ + 1,
                              ![s].attempt = @ + 1, ![s].token = q.token]
    /\ sessions' = [sessions EXCEPT ![s].phase = "running", ![s].rev = @ + 1]
    /\ UNCHANGED <<bindings, units, artifacts, rooms, queue, receipts>>

(* Mutant: the attempt's token is enough.                                  *)
CurrentAttempt(q) ==
  tasks[q.s] # NoTask /\ tasks[q.s].attempt = q.attempt /\ tasks[q.s].token = q.token

(* _guard: the caller's revision, attempt and token are the task's.        *)
Current(q) ==
  /\ tasks[q.s] # NoTask /\ tasks[q.s].rev = q.rev
  /\ tasks[q.s].attempt = q.attempt /\ tasks[q.s].token = q.token

AtWork(q) == Current(q) /\ Running(q.s)

Hold(q) ==
  /\ tasks' = [tasks EXCEPT ![q.s].rev = @ + 1]
  /\ UNCHANGED <<sessions, bindings, units, artifacts, rooms, attempts, queue, receipts>>

(* The task, its attempt and its session take a state together.            *)
Reach(q, state) ==
  /\ tasks' = [tasks EXCEPT ![q.s].state = state, ![q.s].rev = @ + 1]
  /\ attempts' = [attempts EXCEPT ![q.token].state = state]
  /\ sessions' = [sessions EXCEPT ![q.s].phase = state, ![q.s].rev = @ + 1]

Fail(q) ==
  /\ Reach(q, "failed")
  /\ UNCHANGED <<bindings, units, artifacts, rooms, queue, receipts>>

CanRetry(q) == Current(q) /\ tasks[q.s].state = "failed"

(* Back to the tail of the queue, with the unit it never gave up.          *)
Retry(q) ==
  /\ queue' = Append(queue, q.s)
  /\ tasks' = [tasks EXCEPT ![q.s].state = "queued", ![q.s].rev = @ + 1,
                            ![q.s].order = Len(queue) + 1]
  /\ sessions' = [sessions EXCEPT ![q.s].phase = "queued", ![q.s].rev = @ + 1]
  /\ UNCHANGED <<bindings, units, artifacts, rooms, attempts, receipts>>

CanBlock(q) == Queued(q.s) /\ tasks[q.s].rev = q.rev

Block(q) ==
  /\ tasks' = [tasks EXCEPT ![q.s].state = "blocked", ![q.s].rev = @ + 1]
  /\ sessions' = [sessions EXCEPT ![q.s].phase = "blocked", ![q.s].rev = @ + 1]
  /\ UNCHANGED <<bindings, units, artifacts, rooms, attempts, queue, receipts>>

(* Completion releases the unit and every claim with it.                   *)
Settle(q) ==
  /\ Reach(q, "completed")
  /\ units' = [units EXCEPT ![q.s] = "none"]
  /\ artifacts' = artifacts \ {q.s}
  /\ rooms' = RoomsWithout(q.s)
  /\ UNCHANGED <<bindings, queue, receipts>>

-----------------------------------------------------------------------------
(* Operations.                                                             *)
CaptureCalls(op) == [op : {op}, s : Sessions, gen : Nat, rev : Nat]
AttemptCalls(op) == [op : {op}, s : Sessions, rev : Nat, attempt : Nat, token : Tokens]
Calls ==
  [op : {"reserve"}, s : Sessions, slot : {0} \cup Slots]
  \cup [op : {"admit"}, s : Sessions, gen : Nat, rev : Nat, room : Rooms]
  \cup [op : {"capture_intent"}, s : Sessions, gen : Nat, rev : Nat,
        closing : BOOLEAN, stop : BOOLEAN]
  \cup CaptureCalls("handoff") \cup CaptureCalls("settle_reservation")
  \cup [op : {"claim_next"}, token : Tokens]
  \cup AttemptCalls("hold_attempt") \cup AttemptCalls("fail_task")
  \cup AttemptCalls("retry_failed") \cup AttemptCalls("settle_task")
  \cup [op : {"block_queued"}, s : Sessions, rev : Nat]

(* The transaction of a call that is not refused.                          *)
Apply(q) ==
  \/ q.op = "reserve" /\ CanReserve(q) /\ Reserve(q)
  \/ q.op = "reserve" /\ CanReserveAgain(q) /\ ReserveAgain(q)
  \/ q.op = "admit" /\ CanAdmit(q) /\ Admit(q)
  \/ q.op = "capture_intent" /\ CanIntend(q) /\ Intend(q)
  \/ q.op = "handoff" /\ CanHandoff(q) /\ Handoff(q)
  \/ q.op = "settle_reservation" /\ CanRelease(q) /\ Release(q)
  \/ q.op = "claim_next" /\ CanClaimNothing(q) /\ ClaimNothing(q)
  \/ q.op = "claim_next" /\ CanClaim(q) /\ Claim(q)
  \/ q.op = "hold_attempt" /\ AtWork(q) /\ Hold(q)
  \/ q.op = "fail_task" /\ AtWork(q) /\ Fail(q)
  \/ q.op = "retry_failed" /\ CanRetry(q) /\ Retry(q)
  \/ q.op = "block_queued" /\ CanBlock(q) /\ Block(q)
  \/ q.op = "settle_task" /\ AtWork(q) /\ Settle(q)

Can(q) ==
  \/ q.op = "reserve" /\ (CanReserve(q) \/ CanReserveAgain(q))
  \/ q.op = "admit" /\ CanAdmit(q)
  \/ q.op = "capture_intent" /\ CanIntend(q)
  \/ q.op = "handoff" /\ CanHandoff(q)
  \/ q.op = "settle_reservation" /\ CanRelease(q)
  \/ q.op = "claim_next" /\ (CanClaimNothing(q) \/ CanClaim(q))
  \/ q.op \in {"hold_attempt", "fail_task", "settle_task"} /\ AtWork(q)
  \/ q.op = "retry_failed" /\ CanRetry(q)
  \/ q.op = "block_queued" /\ CanBlock(q)

(* The call would change the tables, and not only be answered.             *)
CanWork(q) ==
  \/ q.op = "reserve" /\ CanReserve(q)
  \/ q.op = "claim_next" /\ CanClaim(q)
  \/ q.op \notin {"reserve", "claim_next"} /\ Can(q)

(* The operation's row, inserted by the transaction of its call; worked    *)
(* stands for the result it keeps.                                         *)
Record(id, q) ==
  operations' = [operations EXCEPT ![id] = [call |-> q, worked |-> tables' # tables]]

Unanswered(q) ==
  /\ pending = NoCall /\ lost < MaxLost /\ q.op \in LostCalls
  /\ pending' = [id |-> lost + 1, call |-> q] /\ lost' = lost + 1

(* _mutate: the operation is committed and answered, and its id is never   *)
(* presented again; or its answer is lost and the caller keeps the id,     *)
(* whether it was committed or not.                                        *)
Commit(q) ==
  /\ Apply(q)
  /\ \/ UNCHANGED <<operations, pending, lost>>
     \/ Unanswered(q) /\ Record(lost + 1, q)

CommitLost(q) ==
  /\ Can(q)
  /\ Unanswered(q)
  /\ UNCHANGED <<tables, operations>>

Found(id) == operations[id] # NoCall

(* The row of the id answers the call it was inserted for, and refuses any *)
(* other; without a row the call is decided on the tables as they are now. *)
Answered(p) == Found(p.id) /\ operations[p.id].call = p.call
Refused(p) == IF Found(p.id) THEN operations[p.id].call # p.call ELSE ~Can(p.call)

(* The caller replays the operation with the same id and arguments.        *)
Replay ==
  /\ pending # NoCall
  /\ \/ Answered(pending) /\ UNCHANGED <<tables, operations>>
     \/ /\ ~Found(pending.id) /\ Apply(pending.call)
        /\ Record(pending.id, pending.call)
     \/ Refused(pending) /\ UNCHANGED <<tables, operations>>
  /\ pending' = NoCall /\ UNCHANGED lost

(* What a caller can hold: it read the rows at some time, now at the       *)
(* latest; an older revision is refused and changes nothing.               *)
CaptureHeld(s) ==
  [op : {"handoff", "settle_reservation"}, s : {s}, gen : {sessions[s].gen},
   rev : {sessions[s].rev}]
  \cup [op : {"admit"}, s : {s}, gen : {sessions[s].gen}, rev : {sessions[s].rev},
        room : Rooms]
  \cup {q \in [op : {"capture_intent"}, s : {s}, gen : {sessions[s].gen},
               rev : {sessions[s].rev}, closing : BOOLEAN, stop : BOOLEAN] :
          /\ q.closing \/ q.stop
          /\ \/ q.rev < MaxRevision
             \/ q.closing /\ sessions[s].phase = "capturing"
             \/ ~q.closing /\ ~sessions[s].stop /\ sessions[s].phase = "reserved"}

TaskHeld(s) ==
  [op : {"block_queued"}, s : {s}, rev : {tasks[s].rev}]
  \cup {q \in [op : {"hold_attempt", "fail_task", "retry_failed", "settle_task"},
               s : {s}, rev : {tasks[s].rev}, attempt : {tasks[s].attempt},
               token : Tokens \cap {tasks[s].token}] :
          q.op = "hold_attempt" => q.rev <= MaxRevision + 1}

Believed ==
  [op : {"reserve"}, s : Sessions, slot : {0, 1}]
  \cup [op : {"claim_next"}, token : Tokens]
  \cup (UNION {CaptureHeld(s) : s \in {t \in Sessions : units[t] = "capture"}})
  \cup (UNION {TaskHeld(s) : s \in {t \in Sessions : units[t] = "task"}})

Init ==
  /\ sessions = [s \in Sessions |-> Unknown]
  /\ bindings = [b \in Slots |-> [session |-> NoSession, gen |-> 0]]
  /\ units = [s \in Sessions |-> "none"]
  /\ artifacts = {}
  /\ rooms = [r \in Rooms |-> NoSession]
  /\ tasks = [s \in Sessions |-> NoTask]
  /\ attempts = [t \in Tokens |-> NoAttempt]
  /\ queue = <<>>
  /\ receipts = [c \in Claims |-> NoSession]
  /\ operations = [id \in 1..MaxLost |-> NoCall]
  /\ pending = NoCall /\ lost = 0

Next == \/ \E q \in Believed : Commit(q) \/ CommitLost(q)
        \/ Replay

Spec == Init /\ [][Next]_vars

-----------------------------------------------------------------------------
(* Properties.                                                             *)
Phases == {"none", "no_assembly"} \cup CapturePhases \cup TaskStates

Rows == [phase : Phases, rev : Nat, stop : BOOLEAN, room : Rooms \cup {NoRoom},
         slot : {0} \cup Slots, gen : Nat]
Bindings == [session : Sessions \cup {NoSession}, gen : Nat]

(* The tables keep their schema.                                           *)
TypeOK ==
  /\ sessions \in [Sessions -> Rows]
  /\ bindings \in [Slots -> Bindings]
  /\ units \in [Sessions -> {"none", "capture", "task"}]
  /\ artifacts \subseteq Sessions
  /\ rooms \in [Rooms -> Sessions \cup {NoSession}]
  /\ tasks \in [Sessions -> Tasks \cup {NoTask}]
  /\ attempts \in [Tokens -> Attempts \cup {NoAttempt}]
  /\ queue \in Seq(Sessions)
  /\ receipts \in [Claims -> Sessions \cup {NoSession}]
  /\ operations \in [1..MaxLost -> {NoCall} \cup [call : Calls, worked : BOOLEAN]]
  /\ pending \in {NoCall} \cup [id : 1..MaxLost, call : Calls]
  /\ lost \in 0..MaxLost

(* audit, one unit: a capture holds the binding of its slot under its own  *)
(* generation and no task; a task holds no binding, shares its state with  *)
(* its session, stands in the queue at its latest entry, and its token is  *)
(* that of its latest attempt.                                             *)
CaptureSound(s) ==
  /\ sessions[s].phase \in CapturePhases /\ tasks[s] = NoTask
  /\ sessions[s].slot \in Slots
  /\ bindings[sessions[s].slot] = [session |-> s, gen |-> sessions[s].gen]

AttemptSound(s) ==
  /\ attempts[tasks[s].token] # NoAttempt
  /\ attempts[tasks[s].token].session = s
  /\ attempts[tasks[s].token].number = tasks[s].attempt
  /\ attempts[tasks[s].token].state =
       IF tasks[s].state \in {"queued", "blocked"} THEN "failed" ELSE tasks[s].state

TaskSound(s) ==
  /\ tasks[s] # NoTask /\ tasks[s].state # "completed"
  /\ sessions[s].phase = tasks[s].state
  /\ \A b \in Slots : bindings[b].session # s
  /\ tasks[s].order \in 1..Len(queue) /\ queue[tasks[s].order] = s
  /\ \A p \in 1..Len(queue) : queue[p] = s => p <= tasks[s].order
  /\ IF tasks[s].token = NoToken THEN tasks[s].state \in {"queued", "blocked"}
                                 ELSE AttemptSound(s)

ClaimsSound(s) ==
  /\ s \in artifacts
  /\ \A r \in Rooms : rooms[r] = s <=> r = RoomOf(s)

(* Nothing outstanding: every row the session owned has been released.     *)
Released(s) ==
  /\ sessions[s].phase \in {"none", "no_assembly", "completed"}
  /\ tasks[s] = NoTask \/ tasks[s].state = "completed"
  /\ s \notin artifacts
  /\ \A r \in Rooms : rooms[r] # s
  /\ \A b \in Slots : bindings[b].session # s

(* No sequence of operations reaches a state that the audit refuses: it    *)
(* would refuse every later operation as well, and the journal with it.    *)
AuditPasses ==
  /\ \A s \in Sessions :
       /\ units[s] = "capture" => CaptureSound(s) /\ ClaimsSound(s)
       /\ units[s] = "task" => TaskSound(s) /\ ClaimsSound(s)
       /\ units[s] = "none" => Released(s)
  /\ \A t \in Tokens :
       attempts[t] # NoAttempt /\ attempts[t].state = "running"
         => \E s \in Sessions : Running(s) /\ tasks[s].token = t

(* No two outstanding sessions own the same room or path, and two captures *)
(* of a creator never run together, although rooms become known only on    *)
(* admission and a handed-off task gives way to the creator's next LIVE.   *)
OwnersSeparate ==
  \A s, t \in Outstanding :
    s # t => ~Conflict(s, RoomOf(s), units[s], t, RoomOf(t), units[t])

(* At most one finalizer, whatever becomes of its caller or its answer.    *)
OneFinalizer == \A s, t \in Sessions : Running(s) /\ Running(t) => s = t

(* Outstanding work is bounded, and handing a capture off takes no unit.   *)
Bounded == Cardinality(Outstanding) <= Limit

(* Each queue entry is worked off by one attempt: no attempt is repeated   *)
(* on an entry, and a retried task always has a new one.                   *)
EntriesOf(s) == {p \in 1..Len(queue) : queue[p] = s}

(* No entry overtakes another: behind a queued task nothing has been       *)
(* claimed, so that a task retried for ever starves nobody.                *)
NoOvertaking ==
  \A s \in Sessions : Queued(s) =>
    \A p \in tasks[s].order + 1 .. Len(queue) :
      /\ tasks[queue[p]] # NoTask /\ tasks[queue[p]].order = p
      /\ tasks[queue[p]].state \in {"queued", "blocked"}

(* What a call has done is not done again: not by a replay, nor by the     *)
(* same call under another id, however far others have moved the rows it   *)
(* names since.                                                            *)
CommittedOnce ==
  \A id \in 1..MaxLost :
    Found(id) /\ operations[id].worked => ~CanWork(operations[id].call)

(* A committed stop is never taken back, and no reservation it was made    *)
(* for is admitted to write.                                               *)
StopFinal ==
  [][\A s \in Sessions :
       sessions[s].stop => /\ sessions'[s].stop
                           /\ sessions[s].phase = "reserved"
                                => sessions'[s].phase # "capturing"]_vars

(* Equal revisions mean equal rows: every change of a row is a revision of *)
(* it, so that a caller's guard never passes on a row it has not seen.     *)
RevisionsCount ==
  [][\A s \in Sessions :
       /\ sessions'[s] # sessions[s] => sessions'[s].rev = sessions[s].rev + 1
       /\ tasks[s] # NoTask /\ tasks'[s] # tasks[s]
            => tasks'[s].rev = tasks[s].rev + 1]_vars
=============================================================================
