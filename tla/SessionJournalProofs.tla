------------------------ MODULE SessionJournalProofs ------------------------
(***************************************************************************)
(* Proofs about SessionJournal for any set of sessions, intents, rooms and *)
(* tokens and any limit.  Every step lemma is about every call, whatever   *)
(* revision, generation, attempt and token its caller sends; the calls of  *)
(* the specification (Believed) are some of them.                          *)
(***************************************************************************)
EXTENDS SessionJournal, FiniteSetTheorems, TLAPS

(* The tables' part of TypeOK.                                             *)
TablesOK ==
  /\ sessions \in [Sessions -> Rows]
  /\ bindings \in [Slots -> Bindings]
  /\ units \in [Sessions -> {"none", "capture", "task"}]
  /\ artifacts \subseteq Sessions
  /\ rooms \in [Rooms -> Sessions \cup {NoSession}]
  /\ tasks \in [Sessions -> Tasks \cup {NoTask}]
  /\ attempts \in [Tokens -> Attempts \cup {NoAttempt}]
  /\ queue \in Seq(Sessions)
  /\ receipts \in [Claims -> Sessions \cup {NoSession}]

CaptureOps == {"admit", "capture_intent", "handoff", "settle_reservation"}
AttemptOps == {"hold_attempt", "fail_task", "retry_failed", "settle_task"}

-----------------------------------------------------------------------------
(* What a call carries.                                                    *)
LEMMA CallFields ==
  ASSUME NEW q \in Calls
  PROVE  /\ q.op = "reserve" => q.s \in Sessions /\ q.slot \in {0, 1, 2}
         /\ q.op \in CaptureOps => q.s \in Sessions /\ q.gen \in Nat /\ q.rev \in Nat
         /\ q.op = "admit" => q.room \in Rooms
         /\ q.op = "capture_intent" => q.closing \in BOOLEAN /\ q.stop \in BOOLEAN
         /\ q.op = "claim_next" => q.token \in Tokens
         /\ q.op \in AttemptOps => /\ q.s \in Sessions /\ q.rev \in Nat
                                   /\ q.attempt \in Nat /\ q.token \in Tokens
         /\ q.op = "block_queued" => q.s \in Sessions /\ q.rev \in Nat
<1> USE DEF CaptureOps, AttemptOps
<1>1. CASE q \in [op : {"reserve"}, s : Sessions, slot : {0} \cup Slots]
  BY <1>1 DEF Slots
<1>2. CASE q \in [op : {"admit"}, s : Sessions, gen : Nat, rev : Nat, room : Rooms]
  BY <1>2
<1>3. CASE q \in [op : {"capture_intent"}, s : Sessions, gen : Nat, rev : Nat,
                  closing : BOOLEAN, stop : BOOLEAN]
  BY <1>3
<1>4. CASE q \in CaptureCalls("handoff") \cup CaptureCalls("settle_reservation")
  BY <1>4 DEF CaptureCalls
<1>5. CASE q \in [op : {"claim_next"}, token : Tokens]
  BY <1>5
<1>6. CASE q \in AttemptCalls("hold_attempt") \cup AttemptCalls("fail_task")
                 \cup AttemptCalls("retry_failed") \cup AttemptCalls("settle_task")
  BY <1>6 DEF AttemptCalls
<1>7. CASE q \in [op : {"block_queued"}, s : Sessions, rev : Nat]
  BY <1>7
<1>8. QED
  BY <1>1, <1>2, <1>3, <1>4, <1>5, <1>6, <1>7 DEF Calls

(* A row given a phase, or a task a state, and its next revision.          *)
LEMMA RowPhase ==
  ASSUME NEW row \in Rows, NEW phase \in Phases
  PROVE  [row EXCEPT !.phase = phase, !.rev = @ + 1] \in Rows
<1> DEFINE entered == [row EXCEPT !.phase = phase]
<1>1. entered \in Rows
  BY DEF Rows
<1>2. [entered EXCEPT !.rev = @ + 1] \in Rows
  <2> HIDE DEF entered
  <2> QED
    BY <1>1 DEF Rows
<1>3. QED
  BY <1>2

LEMMA PhaseOf ==
  ASSUME TablesOK, NEW s \in Sessions, NEW phase \in Phases
  PROVE  [sessions EXCEPT ![s].phase = phase, ![s].rev = @ + 1]
           \in [Sessions -> Rows]
<1>1. [sessions[s] EXCEPT !.phase = phase, !.rev = @ + 1] \in Rows
  BY RowPhase DEF TablesOK
<1>2. [sessions EXCEPT ![s].phase = phase, ![s].rev = @ + 1]
        = [sessions EXCEPT ![s] = [sessions[s] EXCEPT !.phase = phase, !.rev = @ + 1]]
  BY DEF TablesOK
<1>3. QED
  BY <1>1, <1>2 DEF TablesOK

LEMMA TaskState ==
  ASSUME NEW task \in Tasks, NEW state \in TaskStates
  PROVE  [task EXCEPT !.state = state, !.rev = @ + 1] \in Tasks
<1> DEFINE entered == [task EXCEPT !.state = state]
<1>1. entered \in Tasks
  BY DEF Tasks
<1>2. [entered EXCEPT !.rev = @ + 1] \in Tasks
  <2> HIDE DEF entered
  <2> QED
    BY <1>1 DEF Tasks
<1>3. QED
  BY <1>2

LEMMA ReserveType ==
  ASSUME TablesOK, NEW q \in Calls, q.op = "reserve", Reserve(q)
  PROVE  TablesOK'
<1>1. q.s \in Sessions
  BY CallFields
<1>2. PICK b \in Slots :
        /\ sessions' = [sessions EXCEPT ![q.s] =
             [Unknown EXCEPT !.phase = "reserved", !.rev = 1, !.slot = b,
                             !.gen = bindings[b].gen + 1]]
        /\ bindings' = [bindings EXCEPT ![b] = [session |-> q.s, gen |-> @.gen + 1]]
  BY DEF Reserve
<1>3. bindings[b].gen + 1 \in Nat
  BY DEF TablesOK, Bindings
<1>4. [Unknown EXCEPT !.phase = "reserved", !.rev = 1, !.slot = b,
                      !.gen = bindings[b].gen + 1] \in Rows
  BY <1>3 DEF Unknown, Rows, Phases, CapturePhases
<1>5. sessions' \in [Sessions -> Rows]
  BY <1>1, <1>2, <1>4 DEF TablesOK
<1>6. bindings' \in [Slots -> Bindings]
  BY <1>1, <1>2, <1>3 DEF TablesOK, Bindings
<1>7. /\ units' = [units EXCEPT ![q.s] = "capture"]
      /\ artifacts' = artifacts \cup {q.s}
      /\ UNCHANGED <<tasks, attempts, queue>>
  BY DEF Reserve
<1>8. rooms' \in [Rooms -> Sessions \cup {NoSession}]
  <2>1. \/ rooms' = rooms
        \/ rooms' = [rooms EXCEPT ![IntentOf[q.s].expected] = q.s]
    BY DEF Reserve
  <2>2. QED
    BY <1>1, <2>1 DEF TablesOK
<1>9. receipts' \in [Claims -> Sessions \cup {NoSession}]
  <2>1. \/ receipts' = receipts
        \/ receipts' = [receipts EXCEPT ![IntentOf[q.s].claim] = q.s]
    BY DEF Reserve
  <2>2. QED
    BY <1>1, <2>1 DEF TablesOK
<1>10. QED
  BY <1>1, <1>5, <1>6, <1>7, <1>8, <1>9 DEF TablesOK

LEMMA AdmitType ==
  ASSUME TablesOK, NEW q \in Calls, q.op = "admit", Admit(q)
  PROVE  TablesOK'
<1>1. q.s \in Sessions /\ q.room \in Rooms
  BY CallFields DEF CaptureOps
<1>2. sessions' \in [Sessions -> Rows]
  <2> DEFINE roomed == [sessions EXCEPT ![q.s].room = q.room]
  <2>1. roomed \in [Sessions -> Rows]
    <3>1. sessions \in [Sessions -> Rows] /\ sessions[q.s] \in Rows
      BY <1>1 DEF TablesOK
    <3>2. [sessions[q.s] EXCEPT !.room = q.room] \in Rows
      BY <1>1, <3>1 DEF Rows
    <3> QED
      BY <1>1, <3>1, <3>2
  <2>2. [roomed[q.s] EXCEPT !.phase = "capturing", !.rev = @ + 1] \in Rows
    <3> HIDE DEF roomed
    <3> QED
      BY <1>1, <2>1, RowPhase DEF Phases, CapturePhases
  <2>3. sessions' = [roomed EXCEPT ![q.s] =
                       [roomed[q.s] EXCEPT !.phase = "capturing", !.rev = @ + 1]]
    BY <1>1 DEF Admit, TablesOK
  <2>4. QED
    <3> HIDE DEF roomed
    <3> QED
      BY <1>1, <2>1, <2>2, <2>3
<1>3. rooms' \in [Rooms -> Sessions \cup {NoSession}]
  BY <1>1 DEF TablesOK, Admit
<1>4. QED
  BY <1>2, <1>3 DEF TablesOK, Admit

LEMMA IntendType ==
  ASSUME TablesOK, NEW q \in Calls, q.op = "capture_intent", Intend(q)
  PROVE  TablesOK'
<1>1. q.s \in Sessions /\ q.closing \in BOOLEAN /\ q.stop \in BOOLEAN
  BY CallFields DEF CaptureOps
<1>2. sessions[q.s] \in Rows
  BY <1>1 DEF TablesOK
<1>3. [sessions[q.s] EXCEPT
         !.phase = IF q.closing THEN "closing" ELSE @,
         !.stop = @ \/ q.stop, !.rev = @ + 1] \in Rows
  <2> DEFINE entered == [sessions[q.s] EXCEPT !.phase = IF q.closing THEN "closing" ELSE @]
             told == [entered EXCEPT !.stop = @ \/ q.stop]
  <2>1. entered \in Rows
    BY <1>1, <1>2 DEF Rows, Phases, CapturePhases
  <2>2. told \in Rows
    <3>1. \A p \in BOOLEAN : [entered EXCEPT !.stop = p] \in Rows
      <4> HIDE DEF entered
      <4> QED
        BY <2>1 DEF Rows
    <3>2. (entered.stop \/ q.stop) \in BOOLEAN
      OBVIOUS
    <3>3. QED
      BY <3>1, <3>2
  <2>3. [told EXCEPT !.rev = @ + 1] \in Rows
    <3> HIDE DEF told
    <3> QED
      BY <2>2 DEF Rows
  <2>4. QED
    BY <2>3
<1>4. sessions' = [sessions EXCEPT ![q.s] = [sessions[q.s] EXCEPT
         !.phase = IF q.closing THEN "closing" ELSE @,
         !.stop = @ \/ q.stop, !.rev = @ + 1]]
  BY <1>1, <1>2 DEF Intend, TablesOK
<1>5. QED
  BY <1>1, <1>3, <1>4 DEF TablesOK, Intend

LEMMA UnboundType ==
  ASSUME TablesOK, NEW s \in Sessions
  PROVE  /\ Unbound(s) \in [Slots -> Bindings]
         /\ RoomsWithout(s) \in [Rooms -> Sessions \cup {NoSession}]
  BY DEF TablesOK, Unbound, RoomsWithout, Bindings

LEMMA HandoffType ==
  ASSUME TablesOK, NEW q \in Calls, q.op = "handoff", Handoff(q)
  PROVE  TablesOK'
<1>1. q.s \in Sessions
  BY CallFields DEF CaptureOps
<1>2. sessions' \in [Sessions -> Rows]
  BY <1>1, PhaseOf DEF Handoff, Phases, TaskStates
<1>3. Len(queue) + 1 \in Nat /\ queue' \in Seq(Sessions)
  BY <1>1 DEF TablesOK, Handoff
<1>4. [state |-> "queued", rev |-> 1, attempt |-> 0, token |-> NoToken,
       order |-> Len(queue) + 1] \in Tasks
  BY <1>3 DEF Tasks, TaskStates
<1>5. tasks' \in [Sessions -> Tasks \cup {NoTask}]
  BY <1>1, <1>4 DEF TablesOK, Handoff
<1>6. bindings' \in [Slots -> Bindings]
  BY <1>1, UnboundType DEF Handoff
<1>7. units' \in [Sessions -> {"none", "capture", "task"}]
  BY <1>1 DEF TablesOK, Handoff
<1>8. QED
  BY <1>2, <1>3, <1>5, <1>6, <1>7 DEF TablesOK, Handoff

LEMMA ReleaseType ==
  ASSUME TablesOK, NEW q \in Calls, q.op = "settle_reservation", Release(q)
  PROVE  TablesOK'
<1>1. q.s \in Sessions
  BY CallFields DEF CaptureOps
<1>2. sessions' \in [Sessions -> Rows]
  BY <1>1, PhaseOf DEF Release, Phases
<1>3. bindings' \in [Slots -> Bindings]
      /\ rooms' \in [Rooms -> Sessions \cup {NoSession}]
  BY <1>1, UnboundType DEF Release
<1>4. units' \in [Sessions -> {"none", "capture", "task"}]
  BY <1>1 DEF TablesOK, Release
<1>5. QED
  BY <1>2, <1>3, <1>4 DEF TablesOK, Release

LEMMA ClaimType ==
  ASSUME TablesOK, NEW q \in Calls, q.op = "claim_next", Claim(q)
  PROVE  TablesOK'
<1>1. q.token \in Tokens
  BY CallFields
<1>2. PICK s \in Sessions :
        /\ Oldest(s)
        /\ attempts' = [attempts EXCEPT ![q.token] =
             [session |-> s, number |-> tasks[s].attempt + 1, state |-> "running"]]
        /\ tasks' = [tasks EXCEPT ![s].state = "running", ![s].rev = @ + 1,
                                  ![s].attempt = @ + 1, ![s].token = q.token]
        /\ sessions' = [sessions EXCEPT ![s].phase = "running", ![s].rev = @ + 1]
  BY DEF Claim
<1>3. tasks[s] \in Tasks
  BY <1>2 DEF Oldest, Queued, TablesOK
<1>4. tasks' \in [Sessions -> Tasks \cup {NoTask}]
  BY <1>1, <1>2, <1>3 DEF TablesOK, Tasks, TaskStates
<1>5. attempts' \in [Tokens -> Attempts \cup {NoAttempt}]
  BY <1>1, <1>2, <1>3 DEF TablesOK, Attempts, Tasks
<1>6. sessions' \in [Sessions -> Rows]
  BY <1>2, PhaseOf DEF Phases, TaskStates
<1>7. UNCHANGED <<bindings, units, artifacts, rooms, queue, receipts>>
  BY DEF Claim
<1>8. QED
  BY <1>4, <1>5, <1>6, <1>7 DEF TablesOK

LEMMA HoldType ==
  ASSUME TablesOK, NEW q \in Calls, q.op = "hold_attempt", Current(q), Hold(q)
  PROVE  TablesOK'
<1>1. q.s \in Sessions /\ tasks[q.s] \in Tasks
  BY CallFields DEF AttemptOps, Current, TablesOK
<1>2. tasks' \in [Sessions -> Tasks \cup {NoTask}]
  <2>1. [tasks[q.s] EXCEPT !.rev = @ + 1] \in Tasks
    BY <1>1 DEF Tasks
  <2>2. tasks' = [tasks EXCEPT ![q.s] = [tasks[q.s] EXCEPT !.rev = @ + 1]]
    BY <1>1 DEF Hold, TablesOK
  <2>3. QED
    BY <1>1, <2>1, <2>2 DEF TablesOK
<1>3. QED
  BY <1>2 DEF TablesOK, Hold

LEMMA ReachType ==
  ASSUME TablesOK, NEW q, q.s \in Sessions, q.token \in Tokens,
         tasks[q.s] \in Tasks, attempts[q.token] \in Attempts,
         NEW state \in {"failed", "completed"}, Reach(q, state)
  PROVE  /\ sessions' \in [Sessions -> Rows]
         /\ tasks' \in [Sessions -> Tasks \cup {NoTask}]
         /\ attempts' \in [Tokens -> Attempts \cup {NoAttempt}]
<1>1. sessions' \in [Sessions -> Rows]
  BY PhaseOf DEF Reach, Phases, TaskStates
<1>2. tasks' \in [Sessions -> Tasks \cup {NoTask}]
  BY DEF TablesOK, Reach, Tasks, TaskStates
<1>3. attempts' \in [Tokens -> Attempts \cup {NoAttempt}]
  BY DEF TablesOK, Reach, Attempts
<1>4. QED
  BY <1>1, <1>2, <1>3

LEMMA RetryType ==
  ASSUME TablesOK, NEW q \in Calls, q.op = "retry_failed", Current(q), Retry(q)
  PROVE  TablesOK'
<1>1. q.s \in Sessions /\ tasks[q.s] \in Tasks
  BY CallFields DEF AttemptOps, Current, TablesOK
<1>2. Len(queue) + 1 \in Nat /\ queue' \in Seq(Sessions)
  BY <1>1 DEF TablesOK, Retry
<1>3. tasks' \in [Sessions -> Tasks \cup {NoTask}]
  <2> DEFINE queued == [tasks[q.s] EXCEPT !.state = "queued", !.rev = @ + 1]
  <2>1. queued \in Tasks
    BY <1>1, TaskState DEF TaskStates
  <2>2. [queued EXCEPT !.order = Len(queue) + 1] \in Tasks
    <3> HIDE DEF queued
    <3> QED
      BY <1>2, <2>1 DEF Tasks
  <2>3. tasks' = [tasks EXCEPT ![q.s] = [queued EXCEPT !.order = Len(queue) + 1]]
    BY <1>1 DEF Retry, TablesOK
  <2>4. QED
    <3> HIDE DEF queued
    <3> QED
      BY <1>1, <2>2, <2>3 DEF TablesOK
<1>4. sessions' \in [Sessions -> Rows]
  BY <1>1, PhaseOf DEF Retry, Phases, TaskStates
<1>5. QED
  BY <1>2, <1>3, <1>4 DEF TablesOK, Retry

LEMMA BlockType ==
  ASSUME TablesOK, NEW q \in Calls, q.op = "block_queued", Queued(q.s), Block(q)
  PROVE  TablesOK'
<1>1. q.s \in Sessions /\ tasks[q.s] \in Tasks
  BY CallFields DEF Queued, TablesOK
<1>2. tasks' \in [Sessions -> Tasks \cup {NoTask}]
  BY <1>1 DEF TablesOK, Block, Tasks, TaskStates
<1>3. sessions' \in [Sessions -> Rows]
  BY <1>1, PhaseOf DEF Block, Phases, TaskStates
<1>4. QED
  BY <1>2, <1>3 DEF TablesOK, Block
-----------------------------------------------------------------------------
(* The invariant: the audit passes; beside it, a reserved session has no   *)
(* room of its own yet, and a session id that was never used no task.      *)
RowOK(s) ==
  /\ sessions[s].phase = "reserved" => sessions[s].room = NoRoom
  /\ sessions[s].phase = "none" => tasks[s] = NoTask

Sound(s) ==
  /\ units[s] = "capture" => CaptureSound(s) /\ ClaimsSound(s)
  /\ units[s] = "task" => TaskSound(s) /\ ClaimsSound(s)
  /\ units[s] = "none" => Released(s)
  /\ RowOK(s)

AttemptsSound ==
  \A t \in Tokens :
    attempts[t] # NoAttempt /\ attempts[t].state = "running"
      => \E s \in Sessions : Running(s) /\ tasks[s].token = t

TInv == TablesOK /\ (\A s \in Sessions : Sound(s)) /\ AttemptsSound

(* What a step leaves of a session it is not about keeps it sound.         *)
Apart(t) ==
  /\ sessions'[t] = sessions[t] /\ units'[t] = units[t] /\ tasks'[t] = tasks[t]
  /\ t \in artifacts' <=> t \in artifacts
  /\ \A r \in Rooms : rooms'[r] = t <=> rooms[r] = t
  /\ \A b \in Slots : /\ bindings[b].session = t => bindings'[b] = bindings[b]
                      /\ bindings'[b].session = t => bindings[b].session = t
  /\ Len(queue') >= Len(queue)
  /\ \A p \in 1..Len(queue) : queue'[p] = queue[p]
  /\ \A p \in Len(queue) + 1 .. Len(queue') : queue'[p] # t
  /\ \A k \in Tokens : attempts[k] # NoAttempt /\ attempts[k].session = t
                         => attempts'[k] = attempts[k]

LEMMA ApartSound ==
  ASSUME TInv, NEW t \in Sessions, Apart(t)
  PROVE  Sound(t)'
<1> USE DEF Apart
<1>1. Sound(t)
  BY DEF TInv
<1>2. RowOK(t)'
  BY <1>1 DEF Sound, RowOK
<1>3. (RoomOf(t))' = RoomOf(t)
  BY DEF RoomOf
<1>4. ClaimsSound(t) => ClaimsSound(t)'
  BY <1>3 DEF ClaimsSound
<1>5. CaptureSound(t) => CaptureSound(t)'
  <2> SUFFICES ASSUME CaptureSound(t) PROVE CaptureSound(t)'
    OBVIOUS
  <2>1. sessions[t].slot \in Slots
        /\ bindings[sessions[t].slot] = [session |-> t, gen |-> sessions[t].gen]
    BY DEF CaptureSound
  <2>2. bindings'[sessions[t].slot] = bindings[sessions[t].slot]
    BY <2>1
  <2>3. QED
    BY <2>1, <2>2 DEF CaptureSound
<1>6. Released(t) => Released(t)'
  BY DEF Released
<1>7. TaskSound(t) => TaskSound(t)'
  <2> SUFFICES ASSUME TaskSound(t) PROVE TaskSound(t)'
    OBVIOUS
  <2>1. tasks[t] \in Tasks /\ Len(queue) \in Nat
    BY DEF TaskSound, TInv, TablesOK
  <2>2. tasks[t].token # NoToken => tasks[t].token \in Tokens
    BY <2>1 DEF Tasks
  <2>3. tasks[t].token # NoToken =>
          attempts'[tasks[t].token] = attempts[tasks[t].token] /\ AttemptSound(t)
    BY <2>2 DEF TaskSound, AttemptSound
  <2>4. tasks[t].token # NoToken => AttemptSound(t)'
    BY <2>3 DEF AttemptSound
  <2>5. tasks[t].order \in 1..Len(queue') /\ queue'[tasks[t].order] = t
    BY <2>1 DEF TaskSound
  <2>6. \A p \in 1..Len(queue') : queue'[p] = t => p <= tasks[t].order
    BY <2>1 DEF TaskSound
  <2>7. \A b \in Slots : bindings'[b].session # t
    BY DEF TaskSound
  <2>8. QED
    BY <2>4, <2>5, <2>6, <2>7 DEF TaskSound
<1>8. QED
  BY <1>1, <1>2, <1>4, <1>5, <1>6, <1>7 DEF Sound

(* Only a capture is bound, and an owned room belongs to an outstanding    *)
(* session whose room it is.                                               *)
LEMMA BoundCapture ==
  ASSUME TInv, NEW s \in Sessions, NEW b \in Slots, bindings[b].session = s
  PROVE  units[s] = "capture" /\ CaptureSound(s) /\ ClaimsSound(s)
<1>1. Sound(s) /\ units[s] \in {"none", "capture", "task"}
  BY DEF TInv, TablesOK
<1>2. QED
  BY <1>1 DEF Sound, Released, TaskSound

LEMMA RoomOwned ==
  ASSUME TInv, NEW r \in Rooms, rooms[r] # NoSession
  PROVE  /\ rooms[r] \in Outstanding
         /\ RoomOf(rooms[r]) = r
<1>1. rooms[r] \in Sessions
  BY DEF TInv, TablesOK
<1>2. Sound(rooms[r]) /\ units[rooms[r]] \in {"none", "capture", "task"}
  BY <1>1 DEF TInv, TablesOK
<1>3. units[rooms[r]] # "none"
  BY <1>2 DEF Sound, Released
<1>4. ClaimsSound(rooms[r])
  BY <1>2, <1>3 DEF Sound
<1>5. QED
  BY <1>1, <1>3, <1>4 DEF ClaimsSound, Outstanding

(* A task that is not completed is outstanding and sound.                  *)
LEMMA UnitOfTask ==
  ASSUME TInv, NEW s \in Sessions, tasks[s] # NoTask, tasks[s].state # "completed"
  PROVE  units[s] = "task" /\ TaskSound(s) /\ ClaimsSound(s)
<1>1. Sound(s) /\ units[s] \in {"none", "capture", "task"}
  BY DEF TInv, TablesOK
<1>2. QED
  BY <1>1 DEF Sound, Released, CaptureSound

-----------------------------------------------------------------------------
(* One lemma per operation: it keeps the tables typed and the audit sound. *)
LEMMA ReserveKeeps ==
  ASSUME TInv, NEW q \in Calls, q.op = "reserve", CanReserve(q), Reserve(q)
  PROVE  TInv'
<1> DEFINE s == q.s
<1>1. s \in Sessions /\ TablesOK
  BY CallFields DEF TInv
<1>2. sessions[s] = Unknown
  BY DEF CanReserve
<1>3. units[s] = "none" /\ tasks[s] = NoTask /\ Released(s)
  <2>1. Sound(s) /\ units[s] \in {"none", "capture", "task"}
        /\ tasks[s] \in Tasks \cup {NoTask}
    BY <1>1 DEF TInv, TablesOK
  <2>2. sessions[s].phase = "none"
    BY <1>2 DEF Unknown
  <2>3. ~CaptureSound(s)
    BY <2>2 DEF CaptureSound, CapturePhases
  <2>4. ~TaskSound(s)
    BY <2>1, <2>2 DEF TaskSound, Tasks, TaskStates
  <2>5. QED
    BY <2>1, <2>2, <2>3, <2>4 DEF Sound, RowOK
<1>4. PICK b \in Slots :
        /\ bindings[b].session = NoSession
        /\ sessions' = [sessions EXCEPT ![s] =
             [Unknown EXCEPT !.phase = "reserved", !.rev = 1, !.slot = b,
                             !.gen = bindings[b].gen + 1]]
        /\ bindings' = [bindings EXCEPT ![b] = [session |-> s, gen |-> @.gen + 1]]
  BY DEF Reserve, Free
<1>5. /\ units' = [units EXCEPT ![s] = "capture"]
      /\ artifacts' = artifacts \cup {s}
      /\ rooms' = IF IntentOf[s].expected = NoRoom THEN rooms
                  ELSE [rooms EXCEPT ![IntentOf[s].expected] = s]
      /\ UNCHANGED <<tasks, attempts, queue>>
  BY DEF Reserve
<1>6. IntentOf[s].expected \in Rooms \cup {NoRoom}
  BY <1>1, IntentAssumption
<1>7. ASSUME NEW t \in Sessions \ {s} PROVE Sound(t)'
  <2>1. \A r \in Rooms : rooms'[r] = t <=> rooms[r] = t
    <3>1. CASE IntentOf[s].expected = NoRoom
      BY <1>5, <3>1
    <3>2. CASE IntentOf[s].expected \in Rooms
      <4>1. rooms[IntentOf[s].expected] # t
        <5>1. SUFFICES ASSUME rooms[IntentOf[s].expected] = t PROVE FALSE
          OBVIOUS
        <5>2. t \in Outstanding /\ RoomOf(t) = IntentOf[s].expected
          BY <3>2, <5>1, RoomOwned, AbsentAssumption
        <5>3. QED
          BY <3>2, <5>2, AbsentAssumption DEF CanReserve, Admissible, Conflict
      <4>2. rooms' = [rooms EXCEPT ![IntentOf[s].expected] = s]
        BY <1>5, <3>2, AbsentAssumption
      <4>3. QED
        BY <1>1, <4>1, <4>2 DEF TablesOK
    <3>3. QED
      BY <1>6, <3>1, <3>2
  <2>2. \A d \in Slots : /\ bindings[d].session = t => bindings'[d] = bindings[d]
                         /\ bindings'[d].session = t => bindings[d].session = t
    BY <1>1, <1>4, AbsentAssumption DEF TablesOK
  <2>3. sessions'[t] = sessions[t] /\ units'[t] = units[t] /\ tasks'[t] = tasks[t]
        /\ (t \in artifacts' <=> t \in artifacts)
    BY <1>1, <1>4, <1>5 DEF TablesOK
  <2>4. Len(queue) \in Nat
    BY <1>1 DEF TablesOK
  <2>5. Apart(t)
    BY <1>5, <2>1, <2>2, <2>3, <2>4 DEF Apart
  <2>6. QED
    BY <2>5, ApartSound
<1>8. sessions'[s] = [Unknown EXCEPT !.phase = "reserved", !.rev = 1, !.slot = b,
                                     !.gen = bindings[b].gen + 1]
  BY <1>1, <1>4 DEF TablesOK
<1>9. sessions'[s].phase = "reserved" /\ sessions'[s].room = NoRoom
      /\ sessions'[s].slot = b /\ sessions'[s].gen = bindings[b].gen + 1
  BY <1>8 DEF Unknown
<1>10. Sound(s)'
  <2>1. bindings'[b] = [session |-> s, gen |-> bindings[b].gen + 1]
    BY <1>1, <1>4 DEF TablesOK
  <2>2. CaptureSound(s)'
    BY <1>3, <1>5, <1>9, <2>1 DEF CaptureSound, CapturePhases
  <2>3. \A r \in Rooms : rooms'[r] = s <=> r = IntentOf[s].expected
    <3>1. CASE IntentOf[s].expected = NoRoom
      BY <1>3, <1>5, <3>1, AbsentAssumption DEF Released
    <3>2. CASE IntentOf[s].expected \in Rooms
      <4>1. rooms' = [rooms EXCEPT ![IntentOf[s].expected] = s]
        BY <1>5, <3>2, AbsentAssumption
      <4>2. QED
        BY <1>1, <1>3, <4>1, <3>2 DEF Released, TablesOK
    <3>3. QED
      BY <1>6, <3>1, <3>2
  <2>4. (RoomOf(s))' = IntentOf[s].expected
    BY <1>9 DEF RoomOf
  <2>5. ClaimsSound(s)'
    BY <1>5, <2>3, <2>4 DEF ClaimsSound
  <2>6. units'[s] = "capture"
    BY <1>1, <1>5 DEF TablesOK
  <2>7. RowOK(s)'
    BY <1>9 DEF RowOK
  <2>8. QED
    BY <2>2, <2>5, <2>6, <2>7 DEF Sound
<1>11. AttemptsSound'
  BY <1>5 DEF TInv, AttemptsSound, Running
<1>12. TablesOK'
  BY <1>1, ReserveType
<1>13. QED
  BY <1>7, <1>10, <1>11, <1>12 DEF TInv

LEMMA GuardedCapture ==
  ASSUME TInv, NEW q, q.s \in Sessions, Guarded(q)
  PROVE  /\ units[q.s] = "capture" /\ tasks[q.s] = NoTask
         /\ CaptureSound(q.s) /\ ClaimsSound(q.s) /\ RowOK(q.s)
<1>1. PICK b \in Slots : bindings[b] = [session |-> q.s, gen |-> q.gen]
  BY DEF Guarded
<1>2. bindings[b].session = q.s
  BY <1>1
<1>3. units[q.s] = "capture" /\ CaptureSound(q.s) /\ ClaimsSound(q.s)
  BY <1>2, BoundCapture
<1>4. QED
  BY <1>3 DEF CaptureSound, TInv, Sound

LEMMA AdmitKeeps ==
  ASSUME TInv, NEW q \in Calls, q.op = "admit", CanAdmit(q), Admit(q)
  PROVE  TInv'
<1> DEFINE s == q.s
           r == q.room
<1>1. s \in Sessions /\ r \in Rooms /\ TablesOK
  BY CallFields DEF TInv, CaptureOps
<1>2. /\ units[s] = "capture" /\ tasks[s] = NoTask
      /\ CaptureSound(s) /\ ClaimsSound(s) /\ sessions[s].room = NoRoom
  BY <1>1, GuardedCapture DEF CanAdmit, RowOK
<1>3. rooms' = [rooms EXCEPT ![r] = IF @ = NoSession THEN s ELSE @]
      /\ UNCHANGED <<bindings, units, artifacts, tasks, attempts, queue>>
      /\ sessions' = [sessions EXCEPT ![s].room = r, ![s].phase = "capturing",
                                      ![s].rev = @ + 1]
  BY DEF Admit
<1>4. rooms[r] \in {NoSession, s}
  <2>1. SUFFICES ASSUME rooms[r] \notin {NoSession, s} PROVE FALSE
    OBVIOUS
  <2>2. rooms[r] \in Outstanding \ {s} /\ RoomOf(rooms[r]) = r
    BY <1>1, <2>1, RoomOwned
  <2>3. r # NoRoom
    BY <1>1, AbsentAssumption
  <2>4. QED
    BY <2>2, <2>3 DEF CanAdmit, Admissible, Conflict
<1>5. rooms' = [rooms EXCEPT ![r] = s]
  BY <1>1, <1>3, <1>4 DEF TablesOK
<1>6. ASSUME NEW t \in Sessions \ {s} PROVE Sound(t)'
  <2>1. \A x \in Rooms : rooms'[x] = t <=> rooms[x] = t
    BY <1>1, <1>4, <1>5, AbsentAssumption DEF TablesOK
  <2>2. sessions'[t] = sessions[t]
    BY <1>1, <1>3 DEF TablesOK
  <2>3. Len(queue) \in Nat
    BY <1>1 DEF TablesOK
  <2>4. Apart(t)
    BY <1>3, <2>1, <2>2, <2>3 DEF Apart
  <2>5. QED
    BY <2>4, ApartSound
<1>7. sessions'[s].room = r /\ sessions'[s].phase = "capturing"
      /\ sessions'[s].slot = sessions[s].slot /\ sessions'[s].gen = sessions[s].gen
  BY <1>1, <1>3 DEF TablesOK, Rows
<1>8. Sound(s)'
  <2>1. CaptureSound(s)'
    BY <1>2, <1>3, <1>7 DEF CaptureSound, CapturePhases
  <2>2. (RoomOf(s))' = r
    BY <1>1, <1>7, AbsentAssumption DEF RoomOf
  <2>3. \A x \in Rooms : rooms'[x] = s <=> x = r
    <3>1. \A x \in Rooms : rooms[x] = s => x = r
      BY <1>1, <1>2, AbsentAssumption DEF ClaimsSound, RoomOf, CanAdmit
    <3>2. QED
      BY <1>1, <1>5, <3>1 DEF TablesOK
  <2>4. ClaimsSound(s)'
    BY <1>2, <1>3, <2>2, <2>3 DEF ClaimsSound
  <2>5. RowOK(s)'
    BY <1>7 DEF RowOK
  <2>6. QED
    BY <1>2, <1>3, <2>1, <2>4, <2>5 DEF Sound
<1>9. AttemptsSound'
  BY <1>3 DEF TInv, AttemptsSound, Running
<1>10. TablesOK'
  BY <1>1, AdmitType
<1>11. QED
  BY <1>6, <1>8, <1>9, <1>10 DEF TInv

LEMMA IntendKeeps ==
  ASSUME TInv, NEW q \in Calls, q.op = "capture_intent", CanIntend(q), Intend(q)
  PROVE  TInv'
<1> DEFINE s == q.s
<1>1. s \in Sessions /\ TablesOK
  BY CallFields DEF TInv, CaptureOps
<1>2. /\ units[s] = "capture" /\ tasks[s] = NoTask
      /\ CaptureSound(s) /\ ClaimsSound(s) /\ RowOK(s)
  BY <1>1, GuardedCapture DEF CanIntend
<1>3. sessions' = [sessions EXCEPT
        ![s].phase = IF q.closing THEN "closing" ELSE @,
        ![s].stop = @ \/ q.stop, ![s].rev = @ + 1]
      /\ UNCHANGED <<bindings, units, artifacts, rooms, tasks, attempts, queue>>
  BY DEF Intend
<1>4. ASSUME NEW t \in Sessions \ {s} PROVE Sound(t)'
  <2>1. sessions'[t] = sessions[t] /\ Len(queue) \in Nat
    BY <1>1, <1>3 DEF TablesOK
  <2>2. Apart(t)
    BY <1>3, <2>1 DEF Apart
  <2>3. QED
    BY <2>2, ApartSound
<1>5. /\ sessions'[s].phase \in {sessions[s].phase, "closing"}
      /\ sessions'[s].room = sessions[s].room
      /\ sessions'[s].slot = sessions[s].slot /\ sessions'[s].gen = sessions[s].gen
  BY <1>1, <1>3 DEF TablesOK, Rows
<1>6. Sound(s)'
  <2>1. CaptureSound(s)'
    BY <1>2, <1>3, <1>5 DEF CaptureSound, CapturePhases
  <2>2. (RoomOf(s))' = RoomOf(s)
    BY <1>5 DEF RoomOf
  <2>3. ClaimsSound(s)'
    BY <1>2, <1>3, <2>2 DEF ClaimsSound
  <2>4. RowOK(s)'
    BY <1>2, <1>3, <1>5 DEF RowOK
  <2>5. QED
    BY <1>2, <1>3, <2>1, <2>3, <2>4 DEF Sound
<1>7. AttemptsSound'
  BY <1>3 DEF TInv, AttemptsSound, Running
<1>8. TablesOK'
  BY <1>1, IntendType
<1>9. QED
  BY <1>4, <1>6, <1>7, <1>8 DEF TInv

(* Unbinding a session and dropping its rooms touches no other.            *)
LEMMA OthersKept ==
  ASSUME TablesOK, NEW s \in Sessions, NEW t \in Sessions \ {s}
  PROVE  /\ \A b \in Slots : /\ bindings[b].session = t => Unbound(s)[b] = bindings[b]
                             /\ Unbound(s)[b].session = t => bindings[b].session = t
         /\ \A r \in Rooms : RoomsWithout(s)[r] = t <=> rooms[r] = t
         /\ \A b \in Slots : Unbound(s)[b].session # s
         /\ \A r \in Rooms : RoomsWithout(s)[r] # s
  BY AbsentAssumption DEF TablesOK, Bindings, Unbound, RoomsWithout

LEMMA HandoffKeeps ==
  ASSUME TInv, NEW q \in Calls, q.op = "handoff", CanHandoff(q), Handoff(q)
  PROVE  TInv'
<1> DEFINE s == q.s
<1>1. s \in Sessions /\ TablesOK /\ Len(queue) \in Nat
  BY CallFields DEF TInv, CaptureOps, TablesOK
<1>2. /\ units[s] = "capture" /\ tasks[s] = NoTask
      /\ CaptureSound(s) /\ ClaimsSound(s) /\ RowOK(s)
  BY <1>1, GuardedCapture DEF CanHandoff
<1>3. /\ sessions' = [sessions EXCEPT ![s].phase = "queued", ![s].rev = @ + 1]
      /\ queue' = Append(queue, s)
      /\ tasks' = [tasks EXCEPT ![s] =
           [state |-> "queued", rev |-> 1, attempt |-> 0, token |-> NoToken,
            order |-> Len(queue) + 1]]
      /\ units' = [units EXCEPT ![s] = "task"]
      /\ bindings' = Unbound(s)
      /\ UNCHANGED <<artifacts, rooms, attempts>>
  BY DEF Handoff
<1>4. /\ Len(queue') = Len(queue) + 1 /\ queue'[Len(queue) + 1] = s
      /\ \A p \in 1..Len(queue) : queue'[p] = queue[p]
  BY <1>1, <1>3 DEF TablesOK
<1>5. ASSUME NEW t \in Sessions \ {s} PROVE Sound(t)'
  <2>1. sessions'[t] = sessions[t] /\ units'[t] = units[t] /\ tasks'[t] = tasks[t]
    BY <1>1, <1>3 DEF TablesOK
  <2>2. \A b \in Slots : /\ bindings[b].session = t => bindings'[b] = bindings[b]
                         /\ bindings'[b].session = t => bindings[b].session = t
    BY <1>1, <1>3, OthersKept
  <2>3. \A p \in Len(queue) + 1 .. Len(queue') : queue'[p] # t
    BY <1>1, <1>4
  <2>4. Apart(t)
    BY <1>1, <1>3, <1>4, <2>1, <2>2, <2>3 DEF Apart
  <2>5. QED
    BY <2>4, ApartSound
<1>6. Sound(s)'
  <2>1. tasks'[s] = [state |-> "queued", rev |-> 1, attempt |-> 0,
                     token |-> NoToken, order |-> Len(queue) + 1]
        /\ sessions'[s].phase = "queued" /\ sessions'[s].room = sessions[s].room
    BY <1>1, <1>3 DEF TablesOK, Rows
  <2>2. tasks'[s] # NoTask
    <3>1. tasks'[s] \in Tasks
      BY <1>1, <2>1 DEF Tasks, TaskStates
    <3>2. QED
      BY <3>1, AbsentAssumption
  <2>3. \A b \in Slots : bindings'[b].session # s
    BY <1>1, <1>3, AbsentAssumption DEF Unbound
  <2>4. \A p \in 1..Len(queue') : queue'[p] = s => p <= Len(queue) + 1
    BY <1>1, <1>4
  <2>5. TaskSound(s)'
    BY <1>1, <1>4, <2>1, <2>2, <2>3, <2>4 DEF TaskSound
  <2>6. ClaimsSound(s)'
    BY <1>2, <1>3, <2>1 DEF ClaimsSound, RoomOf
  <2>7. units'[s] = "task"
    BY <1>1, <1>3 DEF TablesOK
  <2>8. QED
    BY <2>1, <2>5, <2>6, <2>7 DEF Sound, RowOK
<1>7. AttemptsSound'
  <2>1. \A t \in Sessions : Running(t) => t # s /\ tasks'[t] = tasks[t]
    BY <1>1, <1>2, <1>3 DEF Running, TablesOK
  <2>2. QED
    BY <1>3, <2>1 DEF TInv, AttemptsSound, Running
<1>8. TablesOK'
  BY <1>1, HandoffType
<1>9. QED
  BY <1>5, <1>6, <1>7, <1>8 DEF TInv

LEMMA ReleaseKeeps ==
  ASSUME TInv, NEW q \in Calls, q.op = "settle_reservation", CanRelease(q), Release(q)
  PROVE  TInv'
<1> DEFINE s == q.s
<1>1. s \in Sessions /\ TablesOK /\ Len(queue) \in Nat
  BY CallFields DEF TInv, CaptureOps, TablesOK
<1>2. units[s] = "capture" /\ tasks[s] = NoTask
  BY <1>1, GuardedCapture DEF CanRelease
<1>3. /\ sessions' = [sessions EXCEPT ![s].phase = "no_assembly", ![s].rev = @ + 1]
      /\ units' = [units EXCEPT ![s] = "none"]
      /\ artifacts' = artifacts \ {s}
      /\ rooms' = RoomsWithout(s)
      /\ bindings' = Unbound(s)
      /\ UNCHANGED <<tasks, attempts, queue>>
  BY DEF Release
<1>4. ASSUME NEW t \in Sessions \ {s} PROVE Sound(t)'
  <2>1. sessions'[t] = sessions[t] /\ units'[t] = units[t] /\ tasks'[t] = tasks[t]
        /\ (t \in artifacts' <=> t \in artifacts)
    BY <1>1, <1>3 DEF TablesOK
  <2>2. /\ \A b \in Slots : /\ bindings[b].session = t => bindings'[b] = bindings[b]
                            /\ bindings'[b].session = t => bindings[b].session = t
        /\ \A r \in Rooms : rooms'[r] = t <=> rooms[r] = t
    BY <1>1, <1>3, OthersKept
  <2>3. Apart(t)
    BY <1>1, <1>3, <2>1, <2>2 DEF Apart
  <2>4. QED
    BY <2>3, ApartSound
<1>5. Sound(s)'
  <2>1. sessions'[s].phase = "no_assembly" /\ units'[s] = "none" /\ tasks'[s] = NoTask
    BY <1>1, <1>2, <1>3 DEF TablesOK, Rows
  <2>2. /\ \A b \in Slots : bindings'[b].session # s
        /\ \A r \in Rooms : rooms'[r] # s
    BY <1>1, <1>3, AbsentAssumption DEF Unbound, RoomsWithout
  <2>3. Released(s)'
    BY <1>3, <2>1, <2>2 DEF Released
  <2>4. QED
    BY <2>1, <2>3 DEF Sound, RowOK
<1>6. AttemptsSound'
  BY <1>3 DEF TInv, AttemptsSound, Running
<1>7. TablesOK'
  BY <1>1, ReleaseType
<1>8. QED
  BY <1>4, <1>5, <1>6, <1>7 DEF TInv

LEMMA ClaimKeeps ==
  ASSUME TInv, NEW q \in Calls, q.op = "claim_next", CanClaim(q), Claim(q)
  PROVE  TInv'
<1>1. q.token \in Tokens /\ TablesOK /\ Len(queue) \in Nat
  BY CallFields DEF TInv, TablesOK
<1>2. PICK s \in Sessions :
        /\ Oldest(s)
        /\ attempts' = [attempts EXCEPT ![q.token] =
             [session |-> s, number |-> tasks[s].attempt + 1, state |-> "running"]]
        /\ tasks' = [tasks EXCEPT ![s].state = "running", ![s].rev = @ + 1,
                                  ![s].attempt = @ + 1, ![s].token = q.token]
        /\ sessions' = [sessions EXCEPT ![s].phase = "running", ![s].rev = @ + 1]
  BY DEF Claim
<1>3. UNCHANGED <<bindings, units, artifacts, rooms, queue>>
  BY DEF Claim
<1>4. /\ tasks[s] \in Tasks /\ tasks[s].state = "queued"
      /\ units[s] = "task" /\ TaskSound(s) /\ ClaimsSound(s)
  <2>1. tasks[s] # NoTask /\ tasks[s].state = "queued"
    BY <1>2 DEF Oldest, Queued
  <2>2. QED
    BY <1>1, <2>1, UnitOfTask DEF TablesOK
<1>5. /\ tasks'[s].state = "running" /\ tasks'[s].attempt = tasks[s].attempt + 1
      /\ tasks'[s].token = q.token /\ tasks'[s].order = tasks[s].order
      /\ \A t \in Sessions \ {s} : tasks'[t] = tasks[t] /\ sessions'[t] = sessions[t]
      /\ sessions'[s].phase = "running" /\ sessions'[s].room = sessions[s].room
  BY <1>1, <1>2, <1>4 DEF TablesOK, Tasks, Rows
<1>6. /\ attempts'[q.token] = [session |-> s, number |-> tasks[s].attempt + 1,
                               state |-> "running"]
      /\ \A k \in Tokens \ {q.token} : attempts'[k] = attempts[k]
  BY <1>1, <1>2 DEF TablesOK
<1>7. TablesOK'
  BY <1>1, ClaimType
<1>8. tasks'[s] # NoTask /\ q.token # NoToken /\ attempts'[q.token] # NoAttempt
  <2>1. tasks'[s] \in Tasks
    <3>1. [tasks EXCEPT ![s].state = "running", ![s].rev = @ + 1,
                        ![s].attempt = @ + 1, ![s].token = q.token][s]
            = [tasks[s] EXCEPT !.state = "running", !.rev = @ + 1,
                               !.attempt = @ + 1, !.token = q.token]
      BY <1>1 DEF TablesOK
    <3>2. [tasks[s] EXCEPT !.state = "running", !.rev = @ + 1,
                           !.attempt = @ + 1, !.token = q.token] \in Tasks
      <4>1. tasks[s].attempt + 1 \in Nat
        BY <1>4 DEF Tasks
      <4> DEFINE entered == [tasks[s] EXCEPT !.state = "running", !.rev = @ + 1]
      <4>2. entered \in Tasks
        BY <1>4, TaskState DEF TaskStates
      <4> DEFINE counted == [entered EXCEPT !.attempt = @ + 1]
      <4>3. counted \in Tasks
        <5> HIDE DEF entered
        <5> QED
          BY <4>2 DEF Tasks
      <4>4. [counted EXCEPT !.token = q.token] \in Tasks
        <5> HIDE DEF counted
        <5> QED
          BY <1>1, <4>3 DEF Tasks
      <4>5. QED
        BY <4>4
    <3>3. QED
      BY <1>2, <3>1, <3>2
  <2>2. attempts'[q.token] \in Attempts
    BY <1>4, <1>6 DEF Attempts, Tasks
  <2>3. QED
    BY <1>1, <2>1, <2>2, AbsentAssumption
<1>9. ASSUME NEW t \in Sessions \ {s} PROVE Sound(t)'
  <2>1. \A k \in Tokens : attempts[k] # NoAttempt /\ attempts[k].session = t
                            => attempts'[k] = attempts[k]
    BY <1>6 DEF CanClaim
  <2>2. Apart(t)
    BY <1>1, <1>3, <1>5, <2>1 DEF Apart
  <2>3. QED
    BY <2>2, ApartSound
<1>10. Sound(s)'
  <2>1. AttemptSound(s)'
    BY <1>5, <1>6, <1>8 DEF AttemptSound
  <2>2. TaskSound(s)'
    BY <1>3, <1>4, <1>5, <1>8, <2>1 DEF TaskSound
  <2>3. ClaimsSound(s)'
    BY <1>3, <1>4, <1>5 DEF ClaimsSound, RoomOf
  <2>4. QED
    BY <1>3, <1>4, <1>5, <2>2, <2>3 DEF Sound, RowOK
<1>11. AttemptsSound'
  <2>1. Running(s)'
    BY <1>5, <1>8 DEF Running
  <2>2. \A k \in Tokens \ {q.token} :
          attempts'[k] # NoAttempt => attempts'[k].state # "running"
    BY <1>6 DEF TInv, AttemptsSound, CanClaim
  <2>3. QED
    BY <1>5, <2>1, <2>2 DEF AttemptsSound
<1>12. QED
  BY <1>7, <1>9, <1>10, <1>11 DEF TInv

(* hold_attempt only revises the running task.                             *)
LEMMA HoldKeeps ==
  ASSUME TInv, NEW q \in Calls, q.op = "hold_attempt", AtWork(q), Hold(q)
  PROVE  TInv'
<1> DEFINE s == q.s
<1>1. /\ s \in Sessions /\ TablesOK /\ Len(queue) \in Nat
      /\ tasks[s] \in Tasks /\ tasks[s].state = "running"
  BY CallFields DEF TInv, AttemptOps, TablesOK, AtWork, Running
<1>2. units[s] = "task" /\ TaskSound(s) /\ ClaimsSound(s)
  BY <1>1, UnitOfTask, AbsentAssumption
<1>3. /\ tasks' = [tasks EXCEPT ![s].rev = @ + 1]
      /\ UNCHANGED <<sessions, bindings, units, artifacts, rooms, attempts, queue>>
  BY DEF Hold
<1>4. TablesOK'
  BY <1>1, HoldType DEF AtWork
<1>5. /\ \A t \in Sessions \ {s} : tasks'[t] = tasks[t]
      /\ tasks'[s].state = tasks[s].state /\ tasks'[s].token = tasks[s].token
      /\ tasks'[s].attempt = tasks[s].attempt /\ tasks'[s].order = tasks[s].order
  BY <1>1, <1>3 DEF TablesOK, Tasks
<1>6. tasks'[s] # NoTask
  <2>1. [tasks[s] EXCEPT !.rev = @ + 1] \in Tasks
    BY <1>1 DEF Tasks
  <2>2. tasks'[s] = [tasks[s] EXCEPT !.rev = @ + 1]
    BY <1>1, <1>3 DEF TablesOK
  <2>3. QED
    BY <2>1, <2>2, AbsentAssumption
<1>7. ASSUME NEW t \in Sessions \ {s} PROVE Sound(t)'
  <2>1. Apart(t)
    BY <1>1, <1>3, <1>5 DEF Apart
  <2>2. QED
    BY <2>1, ApartSound
<1>8. Sound(s)'
  <2>1. TaskSound(s)'
    BY <1>2, <1>3, <1>5, <1>6 DEF TaskSound, AttemptSound
  <2>2. ClaimsSound(s)'
    BY <1>2, <1>3 DEF ClaimsSound, RoomOf
  <2>3. RowOK(s)'
    BY <1>1, <1>2, <1>3 DEF TaskSound, RowOK
  <2>4. QED
    BY <1>2, <1>3, <2>1, <2>2, <2>3 DEF Sound
<1>9. AttemptsSound'
  BY <1>3, <1>5, <1>6 DEF TInv, AttemptsSound, Running
<1>10. QED
  BY <1>4, <1>7, <1>8, <1>9 DEF TInv

(* fail_task and settle_task: the running task is at its latest attempt.   *)
LEMMA AtWorkTask ==
  ASSUME TInv, NEW q \in Calls, q.op \in AttemptOps, AtWork(q)
  PROVE  /\ q.s \in Sessions /\ q.token \in Tokens /\ TablesOK /\ Len(queue) \in Nat
         /\ tasks[q.s] \in Tasks /\ tasks[q.s].state = "running"
         /\ tasks[q.s].token = q.token
         /\ units[q.s] = "task" /\ TaskSound(q.s) /\ ClaimsSound(q.s)
         /\ attempts[q.token] \in Attempts /\ attempts[q.token].session = q.s
         /\ attempts[q.token].number = tasks[q.s].attempt
<1>1. q.s \in Sessions /\ q.token \in Tokens /\ TablesOK
  BY CallFields DEF TInv, AttemptOps
<1>2. tasks[q.s] \in Tasks /\ tasks[q.s].state = "running"
      /\ tasks[q.s].token = q.token /\ Len(queue) \in Nat
  BY <1>1 DEF AtWork, Current, Running, TablesOK
<1>3. units[q.s] = "task" /\ TaskSound(q.s) /\ ClaimsSound(q.s)
  BY <1>1, <1>2, UnitOfTask, AbsentAssumption
<1>4. AttemptSound(q.s)
  BY <1>1, <1>2, <1>3, AbsentAssumption DEF TaskSound
<1>5. QED
  BY <1>1, <1>2, <1>3, <1>4 DEF AttemptSound, TablesOK

LEMMA ReachFields ==
  ASSUME TablesOK, NEW q, q.s \in Sessions, q.token \in Tokens,
         tasks[q.s] \in Tasks, attempts[q.token] \in Attempts,
         NEW state \in {"failed", "completed"}, Reach(q, state)
  PROVE  /\ tasks'[q.s] # NoTask /\ tasks'[q.s].state = state
         /\ tasks'[q.s].token = tasks[q.s].token
         /\ tasks'[q.s].attempt = tasks[q.s].attempt
         /\ tasks'[q.s].order = tasks[q.s].order
         /\ sessions'[q.s].phase = state /\ sessions'[q.s].room = sessions[q.s].room
         /\ attempts'[q.token] # NoAttempt /\ attempts'[q.token].state = state
         /\ attempts'[q.token].session = attempts[q.token].session
         /\ attempts'[q.token].number = attempts[q.token].number
         /\ \A t \in Sessions \ {q.s} : tasks'[t] = tasks[t] /\ sessions'[t] = sessions[t]
         /\ \A k \in Tokens \ {q.token} : attempts'[k] = attempts[k]
<1>1. /\ tasks' = [tasks EXCEPT ![q.s].state = state, ![q.s].rev = @ + 1]
      /\ attempts' = [attempts EXCEPT ![q.token].state = state]
      /\ sessions' = [sessions EXCEPT ![q.s].phase = state, ![q.s].rev = @ + 1]
  BY DEF Reach
<1>2. tasks'[q.s] = [tasks[q.s] EXCEPT !.state = state, !.rev = @ + 1]
  BY <1>1 DEF TablesOK
<1>3. tasks'[q.s] # NoTask
  <2>1. [tasks[q.s] EXCEPT !.state = state, !.rev = @ + 1] \in Tasks
    BY TaskState DEF TaskStates
  <2>2. QED
    BY <1>2, <2>1, AbsentAssumption
<1>4. /\ tasks'[q.s].state = state
      /\ tasks'[q.s].token = tasks[q.s].token
      /\ tasks'[q.s].attempt = tasks[q.s].attempt
      /\ tasks'[q.s].order = tasks[q.s].order
  BY <1>2 DEF Tasks
<1>5. attempts'[q.token] = [attempts[q.token] EXCEPT !.state = state]
  BY <1>1 DEF TablesOK
<1>6. [attempts[q.token] EXCEPT !.state = state] \in Attempts
  BY DEF Attempts
<1>7. /\ attempts'[q.token] # NoAttempt /\ attempts'[q.token].state = state
      /\ attempts'[q.token].session = attempts[q.token].session
      /\ attempts'[q.token].number = attempts[q.token].number
  BY <1>5, <1>6, AbsentAssumption DEF Attempts
<1>8. sessions'[q.s].phase = state /\ sessions'[q.s].room = sessions[q.s].room
  BY <1>1 DEF TablesOK, Rows
<1>9. /\ \A t \in Sessions \ {q.s} : tasks'[t] = tasks[t] /\ sessions'[t] = sessions[t]
      /\ \A k \in Tokens \ {q.token} : attempts'[k] = attempts[k]
  BY <1>1 DEF TablesOK
<1>10. QED
  BY <1>3, <1>4, <1>7, <1>8, <1>9

LEMMA FailKeeps ==
  ASSUME TInv, NEW q \in Calls, q.op = "fail_task", AtWork(q), Fail(q)
  PROVE  TInv'
<1> DEFINE s == q.s
<1>1. /\ s \in Sessions /\ q.token \in Tokens /\ TablesOK /\ Len(queue) \in Nat
      /\ tasks[s] \in Tasks /\ tasks[s].state = "running" /\ tasks[s].token = q.token
      /\ units[s] = "task" /\ TaskSound(s) /\ ClaimsSound(s)
      /\ attempts[q.token] \in Attempts /\ attempts[q.token].session = s
      /\ attempts[q.token].number = tasks[s].attempt
  BY AtWorkTask DEF AttemptOps
<1>2. Reach(q, "failed") /\ UNCHANGED <<bindings, units, artifacts, rooms, queue, receipts>>
  BY DEF Fail
<1>3. /\ tasks'[s] # NoTask /\ tasks'[s].state = "failed" /\ tasks'[s].token = q.token
      /\ tasks'[s].attempt = tasks[s].attempt /\ tasks'[s].order = tasks[s].order
      /\ sessions'[s].phase = "failed" /\ sessions'[s].room = sessions[s].room
      /\ attempts'[q.token] # NoAttempt /\ attempts'[q.token].state = "failed"
      /\ attempts'[q.token].session = s /\ attempts'[q.token].number = tasks[s].attempt
      /\ \A t \in Sessions \ {s} : tasks'[t] = tasks[t] /\ sessions'[t] = sessions[t]
      /\ \A k \in Tokens \ {q.token} : attempts'[k] = attempts[k]
  BY <1>1, <1>2, ReachFields
<1>4. TablesOK'
  BY <1>1, <1>2, ReachType DEF TablesOK
<1>5. ASSUME NEW t \in Sessions \ {s} PROVE Sound(t)'
  <2>1. Apart(t)
    BY <1>1, <1>2, <1>3 DEF Apart
  <2>2. QED
    BY <2>1, ApartSound
<1>6. Sound(s)'
  <2>1. AttemptSound(s)'
    BY <1>3 DEF AttemptSound
  <2>2. TaskSound(s)'
    BY <1>1, <1>2, <1>3, <2>1 DEF TaskSound
  <2>3. ClaimsSound(s)'
    BY <1>1, <1>2, <1>3 DEF ClaimsSound, RoomOf
  <2>4. QED
    BY <1>1, <1>2, <1>3, <2>2, <2>3 DEF Sound, RowOK
<1>7. AttemptsSound'
  BY <1>1, <1>3 DEF TInv, AttemptsSound, Running
<1>8. QED
  BY <1>4, <1>5, <1>6, <1>7 DEF TInv

LEMMA SettleKeeps ==
  ASSUME TInv, NEW q \in Calls, q.op = "settle_task", AtWork(q), Settle(q)
  PROVE  TInv'
<1> DEFINE s == q.s
<1>1. /\ s \in Sessions /\ q.token \in Tokens /\ TablesOK /\ Len(queue) \in Nat
      /\ tasks[s] \in Tasks /\ tasks[s].state = "running" /\ tasks[s].token = q.token
      /\ units[s] = "task" /\ TaskSound(s)
      /\ attempts[q.token] \in Attempts /\ attempts[q.token].session = s
  BY AtWorkTask DEF AttemptOps
<1>2. /\ Reach(q, "completed")
      /\ units' = [units EXCEPT ![s] = "none"]
      /\ artifacts' = artifacts \ {s}
      /\ rooms' = RoomsWithout(s)
      /\ UNCHANGED <<bindings, queue, receipts>>
  BY DEF Settle
<1>3. /\ tasks'[s] # NoTask /\ tasks'[s].state = "completed"
      /\ sessions'[s].phase = "completed"
      /\ attempts'[q.token].state = "completed"
      /\ \A t \in Sessions \ {s} : tasks'[t] = tasks[t] /\ sessions'[t] = sessions[t]
      /\ \A k \in Tokens \ {q.token} : attempts'[k] = attempts[k]
  BY <1>1, <1>2, ReachFields
<1>4. TablesOK'
  <2>1. rooms' \in [Rooms -> Sessions \cup {NoSession}]
    BY <1>1, <1>2, UnboundType
  <2>2. units' \in [Sessions -> {"none", "capture", "task"}]
    BY <1>1, <1>2 DEF TablesOK
  <2>3. QED
    BY <1>1, <1>2, <2>1, <2>2, ReachType DEF TablesOK
<1>5. ASSUME NEW t \in Sessions \ {s} PROVE Sound(t)'
  <2>1. \A r \in Rooms : rooms'[r] = t <=> rooms[r] = t
    BY <1>1, <1>2, OthersKept
  <2>2. units'[t] = units[t] /\ (t \in artifacts' <=> t \in artifacts)
    BY <1>1, <1>2 DEF TablesOK
  <2>3. Apart(t)
    BY <1>1, <1>2, <1>3, <2>1, <2>2 DEF Apart
  <2>4. QED
    BY <2>3, ApartSound
<1>6. Sound(s)'
  <2>1. \A r \in Rooms : rooms'[r] # s
    BY <1>1, <1>2, AbsentAssumption DEF RoomsWithout
  <2>2. \A b \in Slots : bindings'[b].session # s
    BY <1>1, <1>2 DEF TaskSound
  <2>3. Released(s)'
    BY <1>2, <1>3, <2>1, <2>2 DEF Released
  <2>4. units'[s] = "none"
    BY <1>1, <1>2 DEF TablesOK
  <2>5. QED
    BY <1>3, <2>3, <2>4 DEF Sound, RowOK
<1>7. AttemptsSound'
  BY <1>1, <1>3 DEF TInv, AttemptsSound, Running
<1>8. QED
  BY <1>4, <1>5, <1>6, <1>7 DEF TInv

LEMMA RetryKeeps ==
  ASSUME TInv, NEW q \in Calls, q.op = "retry_failed", CanRetry(q), Retry(q)
  PROVE  TInv'
<1> DEFINE s == q.s
<1>1. /\ s \in Sessions /\ TablesOK /\ Len(queue) \in Nat
      /\ tasks[s] \in Tasks /\ tasks[s].state = "failed"
  BY CallFields DEF TInv, AttemptOps, TablesOK, CanRetry, Current
<1>2. units[s] = "task" /\ TaskSound(s) /\ ClaimsSound(s)
  BY <1>1, UnitOfTask, AbsentAssumption
<1>3. /\ queue' = Append(queue, s)
      /\ tasks' = [tasks EXCEPT ![s].state = "queued", ![s].rev = @ + 1,
                                ![s].order = Len(queue) + 1]
      /\ sessions' = [sessions EXCEPT ![s].phase = "queued", ![s].rev = @ + 1]
      /\ UNCHANGED <<bindings, units, artifacts, rooms, attempts>>
  BY DEF Retry
<1>4. TablesOK'
  BY <1>1, RetryType DEF CanRetry
<1>5. /\ \A t \in Sessions \ {s} : tasks'[t] = tasks[t] /\ sessions'[t] = sessions[t]
      /\ tasks'[s].state = "queued" /\ tasks'[s].token = tasks[s].token
      /\ tasks'[s].attempt = tasks[s].attempt /\ tasks'[s].order = Len(queue) + 1
      /\ sessions'[s].phase = "queued" /\ sessions'[s].room = sessions[s].room
      /\ UNCHANGED <<bindings, units, artifacts, rooms, attempts>>
  BY <1>1, <1>3 DEF TablesOK, Tasks, Rows
<1>6. tasks'[s] # NoTask
  <2> DEFINE queued == [tasks[s] EXCEPT !.state = "queued", !.rev = @ + 1]
  <2>1. queued \in Tasks
    BY <1>1, TaskState DEF TaskStates
  <2>2. [queued EXCEPT !.order = Len(queue) + 1] \in Tasks
    <3> HIDE DEF queued
    <3> QED
      BY <1>1, <2>1 DEF Tasks
  <2>3. tasks'[s] = [queued EXCEPT !.order = Len(queue) + 1]
    BY <1>1, <1>3 DEF TablesOK
  <2>4. QED
    BY <2>2, <2>3, AbsentAssumption
<1>7. /\ Len(queue') = Len(queue) + 1 /\ queue'[Len(queue) + 1] = s
      /\ \A p \in 1..Len(queue) : queue'[p] = queue[p]
  BY <1>1, <1>3 DEF TablesOK
<1>8. ASSUME NEW t \in Sessions \ {s} PROVE Sound(t)'
  <2>1. \A p \in Len(queue) + 1 .. Len(queue') : queue'[p] # t
    BY <1>1, <1>7
  <2>2. Apart(t)
    BY <1>1, <1>5, <1>7, <2>1 DEF Apart
  <2>3. QED
    BY <2>2, ApartSound
<1>9. Sound(s)'
  <2>1. tasks[s].token # NoToken /\ AttemptSound(s)
    BY <1>1, <1>2 DEF TaskSound
  <2>2. AttemptSound(s)'
    BY <1>1, <1>3, <1>5, <2>1 DEF AttemptSound
  <2>3. \A p \in 1..Len(queue') : queue'[p] = s => p <= Len(queue) + 1
    BY <1>1, <1>7
  <2>4. TaskSound(s)'
    BY <1>1, <1>2, <1>5, <1>6, <1>7, <2>1, <2>2, <2>3 DEF TaskSound
  <2>5. ClaimsSound(s)'
    BY <1>2, <1>3, <1>5 DEF ClaimsSound, RoomOf
  <2>6. QED
    BY <1>2, <1>3, <1>5, <2>4, <2>5 DEF Sound, RowOK
<1>10. AttemptsSound'
  <2>1. \A t \in Sessions : Running(t) => t # s
    BY <1>1 DEF Running
  <2>2. QED
    BY <1>5, <2>1 DEF TInv, AttemptsSound, Running
<1>11. QED
  BY <1>4, <1>8, <1>9, <1>10 DEF TInv

LEMMA BlockKeeps ==
  ASSUME TInv, NEW q \in Calls, q.op = "block_queued", CanBlock(q), Block(q)
  PROVE  TInv'
<1> DEFINE s == q.s
<1>1. /\ s \in Sessions /\ TablesOK /\ Len(queue) \in Nat
      /\ tasks[s] \in Tasks /\ tasks[s].state = "queued"
  BY CallFields DEF TInv, TablesOK, CanBlock, Queued
<1>2. units[s] = "task" /\ TaskSound(s) /\ ClaimsSound(s)
  BY <1>1, UnitOfTask, AbsentAssumption
<1>3. /\ tasks' = [tasks EXCEPT ![s].state = "blocked", ![s].rev = @ + 1]
      /\ sessions' = [sessions EXCEPT ![s].phase = "blocked", ![s].rev = @ + 1]
      /\ UNCHANGED <<bindings, units, artifacts, rooms, attempts, queue>>
  BY DEF Block
<1>4. TablesOK'
  BY <1>1, BlockType DEF CanBlock
<1>5. /\ \A t \in Sessions \ {s} : tasks'[t] = tasks[t] /\ sessions'[t] = sessions[t]
      /\ tasks'[s].state = "blocked" /\ tasks'[s].token = tasks[s].token
      /\ tasks'[s].attempt = tasks[s].attempt /\ tasks'[s].order = tasks[s].order
      /\ sessions'[s].phase = "blocked" /\ sessions'[s].room = sessions[s].room
      /\ UNCHANGED <<bindings, units, artifacts, rooms, attempts, queue>>
  BY <1>1, <1>3 DEF TablesOK, Tasks, Rows
<1>6. tasks'[s] # NoTask
  <2>1. tasks'[s] = [tasks[s] EXCEPT !.state = "blocked", !.rev = @ + 1]
    BY <1>1, <1>3 DEF TablesOK
  <2>2. [tasks[s] EXCEPT !.state = "blocked", !.rev = @ + 1] \in Tasks
    BY <1>1, TaskState DEF TaskStates
  <2>3. QED
    BY <2>1, <2>2, AbsentAssumption
<1>7. ASSUME NEW t \in Sessions \ {s} PROVE Sound(t)'
  <2>1. Apart(t)
    BY <1>1, <1>5 DEF Apart
  <2>2. QED
    BY <2>1, ApartSound
<1>8. Sound(s)'
  <2>1. TaskSound(s)'
    BY <1>1, <1>2, <1>5, <1>6 DEF TaskSound, AttemptSound
  <2>2. ClaimsSound(s)'
    BY <1>2, <1>3, <1>5 DEF ClaimsSound, RoomOf
  <2>3. QED
    BY <1>2, <1>3, <1>5, <2>1, <2>2 DEF Sound, RowOK
<1>9. AttemptsSound'
  <2>1. \A t \in Sessions : Running(t) => t # s
    BY <1>1 DEF Running
  <2>2. QED
    BY <1>5, <2>1 DEF TInv, AttemptsSound, Running
<1>10. QED
  BY <1>4, <1>7, <1>8, <1>9 DEF TInv

-----------------------------------------------------------------------------
(* Every step is the transaction of some call, or leaves the tables alone. *)
LEMMA BelievedAreCalls == TInv => Believed \subseteq Calls
<1> SUFFICES ASSUME TInv, NEW q \in Believed PROVE q \in Calls
  OBVIOUS
<1>1. \A s \in Sessions : sessions[s].gen \in Nat /\ sessions[s].rev \in Nat
  BY DEF TInv, TablesOK, Rows
<1>2. \A s \in Sessions : units[s] = "task" =>
        tasks[s].rev \in Nat /\ tasks[s].attempt \in Nat
  <2>1. \A s \in Sessions : units[s] = "task" => tasks[s] \in Tasks
    BY DEF TInv, TablesOK, Sound, TaskSound
  <2>2. QED
    BY <2>1 DEF Tasks
<1>3. \/ q \in [op : {"reserve"}, s : Sessions, slot : {0, 1}]
      \/ q \in [op : {"claim_next"}, token : Tokens]
      \/ \E s \in Sessions : q \in CaptureHeld(s)
      \/ \E s \in Sessions : units[s] = "task" /\ q \in TaskHeld(s)
  <2> DEFINE reserves == [op : {"reserve"}, s : Sessions, slot : {0, 1}]
             claims == [op : {"claim_next"}, token : Tokens]
             ofCaptures == UNION {CaptureHeld(s) :
                                    s \in {t \in Sessions : units[t] = "capture"}}
             ofTasks == UNION {TaskHeld(s) :
                                 s \in {t \in Sessions : units[t] = "task"}}
  <2>1. q \in reserves \/ q \in claims \/ q \in ofCaptures \/ q \in ofTasks
    <3>1. q \in reserves \cup claims \cup ofCaptures \cup ofTasks
      BY DEF Believed
    <3> HIDE DEF reserves, claims, ofCaptures, ofTasks
    <3>2. QED
      BY <3>1
  <2>2. ASSUME q \in UNION {CaptureHeld(s) :
                            s \in {t \in Sessions : units[t] = "capture"}}
        PROVE  \E s \in Sessions : q \in CaptureHeld(s)
    BY <2>2, Zenon
  <2>3. ASSUME q \in UNION {TaskHeld(s) :
                            s \in {t \in Sessions : units[t] = "task"}}
        PROVE  \E s \in Sessions : units[s] = "task" /\ q \in TaskHeld(s)
    BY <2>3, Zenon
  <2>4. QED
    BY <2>1, <2>2, <2>3, Zenon
<1>4. CASE \E s \in Sessions : q \in CaptureHeld(s)
  <2>1. \/ q \in CaptureCalls("handoff") \/ q \in CaptureCalls("settle_reservation")
        \/ q \in [op : {"admit"}, s : Sessions, gen : Nat, rev : Nat, room : Rooms]
        \/ q \in [op : {"capture_intent"}, s : Sessions, gen : Nat, rev : Nat,
                  closing : BOOLEAN, stop : BOOLEAN]
    BY <1>1, <1>4 DEF CaptureHeld, CaptureCalls
  <2>2. QED
    BY <2>1 DEF Calls
<1>5. CASE \E s \in Sessions : units[s] = "task" /\ q \in TaskHeld(s)
  <2>1. \/ q \in [op : {"block_queued"}, s : Sessions, rev : Nat]
        \/ \E op \in AttemptOps : q \in AttemptCalls(op)
    BY <1>2, <1>5 DEF TaskHeld, AttemptCalls, AttemptOps
  <2>2. QED
    BY <2>1 DEF Calls, AttemptOps
<1>6. QED
  BY <1>3, <1>4, <1>5 DEF Calls, Slots

(* What is recorded of the calls whose answer was lost.                    *)
HistoryOK ==
  /\ operations \in [1..MaxLost -> {NoCall} \cup [call : Calls, worked : BOOLEAN]]
  /\ pending \in {NoCall} \cup [id : 1..MaxLost, call : Calls]
  /\ lost \in 0..MaxLost

LEMMA RecordType ==
  ASSUME HistoryOK, NEW id \in 1..MaxLost, NEW q \in Calls, Record(id, q)
  PROVE  operations' \in [1..MaxLost -> {NoCall} \cup [call : Calls, worked : BOOLEAN]]
<1>1. PICK w \in BOOLEAN : w = (tables' # tables)
  OBVIOUS
<1>2. [call |-> q, worked |-> w] \in [call : Calls, worked : BOOLEAN]
  OBVIOUS
<1>3. operations' = [operations EXCEPT ![id] = [call |-> q, worked |-> w]]
  BY <1>1, Zenon DEF Record
<1>4. QED
  BY <1>2, <1>3 DEF HistoryOK

LEMMA UnansweredType ==
  ASSUME HistoryOK, NEW q \in Calls, Unanswered(q)
  PROVE  /\ lost + 1 \in 1..MaxLost /\ lost' \in 0..MaxLost
         /\ pending' \in [id : 1..MaxLost, call : Calls]
  BY LimitAssumption DEF HistoryOK, Unanswered

LEMMA Steps ==
  ASSUME TInv, HistoryOK, [Next]_vars
  PROVE  /\ HistoryOK'
         /\ UNCHANGED tables \/ \E q \in Calls : Apply(q)
<1>1. CASE UNCHANGED vars
  BY <1>1 DEF vars, HistoryOK
<1>2. ASSUME NEW q \in Believed, Commit(q)
      PROVE  HistoryOK' /\ Apply(q) /\ q \in Calls
  <2>1. q \in Calls
    BY BelievedAreCalls
  <2>2. CASE UNCHANGED <<operations, pending, lost>>
    BY <1>2, <2>1, <2>2 DEF Commit, HistoryOK
  <2>3. CASE Unanswered(q) /\ Record(lost + 1, q)
    BY <1>2, <2>1, <2>3, UnansweredType, RecordType DEF Commit, HistoryOK
  <2>4. QED
    BY <1>2, <2>2, <2>3 DEF Commit
<1>3. ASSUME NEW q \in Believed, CommitLost(q)
      PROVE  HistoryOK' /\ UNCHANGED tables
  BY <1>3, BelievedAreCalls, UnansweredType DEF CommitLost, HistoryOK
<1>4. CASE Replay
  <2>1. pending.id \in 1..MaxLost /\ pending.call \in Calls
    BY <1>4 DEF Replay, HistoryOK
  <2>2. pending' = NoCall /\ lost' = lost
    BY <1>4 DEF Replay
  <2>3. UNCHANGED tables \/ Apply(pending.call)
    BY <1>4 DEF Replay
  <2>4. \/ operations' = operations
        \/ Record(pending.id, pending.call)
    BY <1>4 DEF Replay
  <2>5. operations' \in [1..MaxLost -> {NoCall} \cup [call : Calls, worked : BOOLEAN]]
    BY <2>1, <2>4, RecordType DEF HistoryOK
  <2>6. QED
    BY <2>1, <2>2, <2>3, <2>5 DEF HistoryOK
<1>5. QED
  BY <1>1, <1>2, <1>3, <1>4 DEF Next

LEMMA UnchangedKeeps == TInv /\ UNCHANGED tables => TInv'
<1> SUFFICES ASSUME TInv, UNCHANGED tables PROVE TInv'
  OBVIOUS
<1>1. /\ sessions' = sessions /\ bindings' = bindings /\ units' = units
      /\ artifacts' = artifacts /\ rooms' = rooms /\ tasks' = tasks
      /\ attempts' = attempts /\ queue' = queue /\ receipts' = receipts
  BY DEF tables
<1>2. TablesOK' /\ AttemptsSound'
  BY <1>1 DEF TInv, TablesOK, AttemptsSound, Running
<1>3. ASSUME NEW s \in Sessions PROVE Sound(s)'
  <2>1. Sound(s)
    BY DEF TInv
  <2>2. QED
    BY <1>1, <2>1 DEF Sound, CaptureSound, TaskSound, AttemptSound, ClaimsSound,
       Released, RowOK, RoomOf
<1>4. QED
  BY <1>2, <1>3 DEF TInv

LEMMA ApplyKeeps ==
  ASSUME TInv, NEW q \in Calls, Apply(q)
  PROVE  TInv'
<1>1. CASE q.op = "reserve" /\ CanReserve(q) /\ Reserve(q)
  BY <1>1, ReserveKeeps
<1>2. CASE q.op = "admit" /\ CanAdmit(q) /\ Admit(q)
  BY <1>2, AdmitKeeps
<1>3. CASE q.op = "capture_intent" /\ CanIntend(q) /\ Intend(q)
  BY <1>3, IntendKeeps
<1>4. CASE q.op = "handoff" /\ CanHandoff(q) /\ Handoff(q)
  BY <1>4, HandoffKeeps
<1>5. CASE q.op = "settle_reservation" /\ CanRelease(q) /\ Release(q)
  BY <1>5, ReleaseKeeps
<1>6. CASE q.op = "claim_next" /\ CanClaim(q) /\ Claim(q)
  BY <1>6, ClaimKeeps
<1>7. CASE q.op = "hold_attempt" /\ AtWork(q) /\ Hold(q)
  BY <1>7, HoldKeeps
<1>8. CASE q.op = "fail_task" /\ AtWork(q) /\ Fail(q)
  BY <1>8, FailKeeps
<1>9. CASE q.op = "retry_failed" /\ CanRetry(q) /\ Retry(q)
  BY <1>9, RetryKeeps
<1>10. CASE q.op = "block_queued" /\ CanBlock(q) /\ Block(q)
  BY <1>10, BlockKeeps
<1>11. CASE q.op = "settle_task" /\ AtWork(q) /\ Settle(q)
  BY <1>11, SettleKeeps
<1>12. CASE UNCHANGED tables
  BY <1>12, UnchangedKeeps
<1>13. QED
  BY <1>1, <1>2, <1>3, <1>4, <1>5, <1>6, <1>7, <1>8, <1>9, <1>10, <1>11, <1>12
     DEF Apply, ReserveAgain, ClaimNothing

LEMMA InitTInv == Init => TInv /\ HistoryOK
<1> SUFFICES ASSUME Init PROVE TInv /\ HistoryOK
  OBVIOUS
<1>1. Unknown \in Rows
  BY DEF Unknown, Rows, Phases
<1>2. TablesOK
  <2>1. [session |-> NoSession, gen |-> 0] \in Bindings
    BY DEF Bindings
  <2>2. QED
    BY <1>1, <2>1 DEF Init, TablesOK
<1>3. ASSUME NEW s \in Sessions PROVE Sound(s)
  BY AbsentAssumption DEF Init, Sound, Released, RowOK, Unknown
<1>4. AttemptsSound
  BY DEF Init, AttemptsSound
<1>5. HistoryOK
  BY LimitAssumption DEF Init, HistoryOK
<1>6. QED
  BY <1>2, <1>3, <1>4, <1>5 DEF TInv

(* The tables stay typed and the audit accepts them, for ever.             *)
THEOREM SpecTInv == Spec => [](TInv /\ HistoryOK)
<1>1. Init => TInv /\ HistoryOK
  BY InitTInv
<1>2. TInv /\ HistoryOK /\ [Next]_vars => TInv' /\ HistoryOK'
  BY Steps, ApplyKeeps, UnchangedKeeps
<1>3. QED
  BY <1>1, <1>2, PTL DEF Spec

(* Type correctness.                                                       *)
THEOREM TypeCorrect == Spec => []TypeOK
<1>1. TInv /\ HistoryOK => TypeOK
  BY DEF TInv, TablesOK, HistoryOK, TypeOK
<1>2. QED
  BY <1>1, SpecTInv, PTL

(* No sequence of operations leaves the journal in a state its own audit   *)
(* refuses (session_journal_checks.py): no operation bricks it.            *)
THEOREM AuditAlwaysPasses == Spec => []AuditPasses
<1>1. TInv /\ HistoryOK => AuditPasses
  BY DEF TInv, Sound, AttemptsSound, AuditPasses
<1>2. QED
  BY <1>1, SpecTInv, PTL

-----------------------------------------------------------------------------
(* Ownership.  A conflict has no direction, and giving way to a capture is *)
(* not less than giving way to a task.                                     *)
LEMMA ConflictSymmetric ==
  ASSUME NEW s \in Sessions, NEW t \in Sessions, NEW rs, NEW rt, NEW ks, NEW kt,
         Conflict(s, rs, ks, t, rt, kt)
  PROVE  Conflict(t, rt, kt, s, rs, ks)
  BY OverlapAssumption DEF Conflict

LEMMA ConflictCapture ==
  ASSUME NEW s \in Sessions, NEW t \in Sessions, NEW rs, NEW rt,
         NEW ks, NEW kt, NEW ms, NEW mt,
         ms = ks \/ ms # "capture", mt = kt \/ mt # "capture",
         Conflict(s, rs, ms, t, rt, mt)
  PROVE  Conflict(s, rs, ks, t, rt, kt)
  BY DEF Conflict

(* No new session, and those that stay have the room they had.             *)
LEMMA SeparateKept ==
  ASSUME OwnersSeparate,
         \A s \in Sessions : units'[s] # "none" =>
           /\ units[s] # "none"
           /\ units'[s] = units[s] \/ units'[s] = "task"
           /\ sessions'[s].room = sessions[s].room
  PROVE  OwnersSeparate'
<1> SUFFICES ASSUME NEW s \in Outstanding', NEW t \in Outstanding', s # t,
                    Conflict(s, (RoomOf(s))', units'[s], t, (RoomOf(t))', units'[t])
             PROVE  FALSE
  BY DEF OwnersSeparate
<1>1. s \in Sessions /\ t \in Sessions /\ s \in Outstanding /\ t \in Outstanding
  BY DEF Outstanding
<1>2. (RoomOf(s))' = RoomOf(s) /\ (RoomOf(t))' = RoomOf(t)
  BY <1>1 DEF RoomOf, Outstanding
<1>3. /\ units'[s] = units[s] \/ units'[s] # "capture"
      /\ units'[t] = units[t] \/ units'[t] # "capture"
  BY <1>1 DEF Outstanding
<1>4. Conflict(s, RoomOf(s), units[s], t, RoomOf(t), units[t])
  BY <1>1, <1>2, <1>3, ConflictCapture
<1>5. QED
  BY <1>1, <1>4 DEF OwnersSeparate

(* One session becomes a capture with a room it was admissible for.        *)
LEMMA SeparateAdmitted ==
  ASSUME OwnersSeparate, NEW s \in Sessions, NEW room,
         Admissible(s, room), (RoomOf(s))' = room, units'[s] = "capture",
         \A t \in Sessions \ {s} : units'[t] = units[t] /\ sessions'[t] = sessions[t]
  PROVE  OwnersSeparate'
<1>1. \A t \in Sessions \ {s} : (RoomOf(t))' = RoomOf(t)
  BY DEF RoomOf
<1>2. \A t \in Outstanding' \ {s} : t \in Outstanding /\ t \in Sessions
  BY DEF Outstanding
<1>3. \A t \in Outstanding' \ {s} :
        ~Conflict(s, (RoomOf(s))', units'[s], t, (RoomOf(t))', units'[t])
  BY <1>1, <1>2 DEF Admissible
<1>4. \A t \in Outstanding' \ {s} :
        ~Conflict(t, (RoomOf(t))', units'[t], s, (RoomOf(s))', units'[s])
  BY <1>2, <1>3, ConflictSymmetric
<1>5. \A t, u \in Outstanding' \ {s} :
        t # u => ~Conflict(t, (RoomOf(t))', units'[t], u, (RoomOf(u))', units'[u])
  BY <1>1, <1>2 DEF OwnersSeparate
<1>6. QED
  BY <1>3, <1>4, <1>5 DEF OwnersSeparate

LEMMA ApplySeparate ==
  ASSUME TInv, OwnersSeparate, NEW q \in Calls, Apply(q)
  PROVE  OwnersSeparate'
<1>1. TablesOK
  BY DEF TInv
<1>2. CASE q.op = "reserve" /\ CanReserve(q) /\ Reserve(q)
  <2>1. q.s \in Sessions
    BY <1>2, CallFields
  <2>2. \E b \in Slots : sessions' = [sessions EXCEPT ![q.s] =
           [Unknown EXCEPT !.phase = "reserved", !.rev = 1, !.slot = b,
                           !.gen = bindings[b].gen + 1]]
    BY <1>2 DEF Reserve
  <2>3. units' = [units EXCEPT ![q.s] = "capture"]
    BY <1>2 DEF Reserve
  <2>4. sessions'[q.s].room = NoRoom
        /\ \A t \in Sessions \ {q.s} : sessions'[t] = sessions[t]
    BY <1>1, <2>1, <2>2 DEF TablesOK, Unknown
  <2>5. (RoomOf(q.s))' = IntentOf[q.s].expected
    BY <2>4 DEF RoomOf
  <2>6. units'[q.s] = "capture" /\ \A t \in Sessions \ {q.s} : units'[t] = units[t]
    BY <1>1, <2>1, <2>3 DEF TablesOK
  <2>7. Admissible(q.s, IntentOf[q.s].expected)
    BY <1>2 DEF CanReserve
  <2>8. QED
    BY <2>1, <2>4, <2>5, <2>6, <2>7, SeparateAdmitted
<1>3. CASE q.op = "admit" /\ CanAdmit(q) /\ Admit(q)
  <2>1. q.s \in Sessions /\ q.room \in Rooms /\ units[q.s] = "capture"
    BY <1>3, CallFields, GuardedCapture DEF CaptureOps, CanAdmit
  <2>2. /\ sessions' = [sessions EXCEPT ![q.s].room = q.room,
                          ![q.s].phase = "capturing", ![q.s].rev = @ + 1]
        /\ units' = units
    BY <1>3 DEF Admit
  <2>3. sessions'[q.s].room = q.room
        /\ \A t \in Sessions \ {q.s} : sessions'[t] = sessions[t]
    BY <1>1, <2>1, <2>2 DEF TablesOK, Rows
  <2>4. (RoomOf(q.s))' = q.room
    BY <2>1, <2>3, AbsentAssumption DEF RoomOf
  <2>5. Admissible(q.s, q.room)
    BY <1>3 DEF CanAdmit
  <2>6. QED
    BY <2>1, <2>2, <2>3, <2>4, <2>5, SeparateAdmitted
<1>4. CASE q.op = "capture_intent" /\ CanIntend(q) /\ Intend(q)
  <2>1. /\ q.s \in Sessions /\ units' = units
        /\ sessions' = [sessions EXCEPT
             ![q.s].phase = IF q.closing THEN "closing" ELSE @,
             ![q.s].stop = @ \/ q.stop, ![q.s].rev = @ + 1]
    BY <1>4, CallFields DEF Intend, CaptureOps
  <2>2. \A s \in Sessions : sessions'[s].room = sessions[s].room
    BY <1>1, <2>1 DEF TablesOK, Rows
  <2>3. QED
    BY <2>1, <2>2, SeparateKept
<1>5. ASSUME NEW phase, q.s \in Sessions,
             sessions' = [sessions EXCEPT ![q.s].phase = phase, ![q.s].rev = @ + 1]
      PROVE  \A s \in Sessions : sessions'[s].room = sessions[s].room
  BY <1>1, <1>5 DEF TablesOK, Rows
<1>6. CASE q.op = "handoff" /\ CanHandoff(q) /\ Handoff(q)
  <2>1. q.s \in Sessions /\ units[q.s] = "capture"
    BY <1>6, CallFields, GuardedCapture DEF CaptureOps, CanHandoff
  <2>2. units' = [units EXCEPT ![q.s] = "task"]
        /\ sessions' = [sessions EXCEPT ![q.s].phase = "queued", ![q.s].rev = @ + 1]
    BY <1>6 DEF Handoff
  <2>3. \A s \in Sessions : units'[s] # "none" =>
          units[s] # "none" /\ (units'[s] = units[s] \/ units'[s] = "task")
    BY <1>1, <2>1, <2>2 DEF TablesOK
  <2>4. QED
    BY <1>5, <2>1, <2>2, <2>3, SeparateKept
<1>7. CASE \/ q.op = "settle_reservation" /\ CanRelease(q) /\ Release(q)
           \/ q.op = "settle_task" /\ AtWork(q) /\ Settle(q)
  <2>1. q.s \in Sessions
    BY <1>7, CallFields DEF CaptureOps, AttemptOps
  <2>2. units' = [units EXCEPT ![q.s] = "none"]
        /\ \E phase \in {"no_assembly", "completed"} :
             sessions' = [sessions EXCEPT ![q.s].phase = phase, ![q.s].rev = @ + 1]
    BY <1>7 DEF Release, Settle, Reach
  <2>3. \A s \in Sessions : units'[s] # "none" => units'[s] = units[s]
    BY <1>1, <2>1, <2>2 DEF TablesOK
  <2>4. QED
    BY <1>5, <2>1, <2>2, <2>3, SeparateKept
<1>8. CASE q.op = "claim_next" /\ CanClaim(q) /\ Claim(q)
  <2>1. units' = units /\ \E s \in Sessions :
          sessions' = [sessions EXCEPT ![s].phase = "running", ![s].rev = @ + 1]
    BY <1>8 DEF Claim
  <2>2. \A s \in Sessions : sessions'[s].room = sessions[s].room
    BY <1>1, <2>1 DEF TablesOK, Rows
  <2>3. QED
    BY <2>1, <2>2, SeparateKept
<1>9. CASE \/ q.op = "fail_task" /\ AtWork(q) /\ Fail(q)
           \/ q.op = "retry_failed" /\ CanRetry(q) /\ Retry(q)
           \/ q.op = "block_queued" /\ CanBlock(q) /\ Block(q)
  <2>1. q.s \in Sessions
    BY <1>9, CallFields DEF AttemptOps
  <2>2. units' = units /\ \E phase \in {"failed", "queued", "blocked"} :
          sessions' = [sessions EXCEPT ![q.s].phase = phase, ![q.s].rev = @ + 1]
    BY <1>9 DEF Fail, Reach, Retry, Block
  <2>3. QED
    BY <1>5, <2>1, <2>2, SeparateKept
<1>10. CASE q.op = "hold_attempt" /\ AtWork(q) /\ Hold(q)
  <2>1. units' = units /\ sessions' = sessions
    BY <1>10 DEF Hold
  <2>2. QED
    BY <2>1, SeparateKept
<1>11. CASE UNCHANGED tables
  <2>1. units' = units /\ sessions' = sessions
    BY <1>11 DEF tables
  <2>2. QED
    BY <2>1, SeparateKept
<1>12. QED
  BY <1>2, <1>3, <1>4, <1>6, <1>7, <1>8, <1>9, <1>10, <1>11
     DEF Apply, ReserveAgain, ClaimNothing

(* No two outstanding sessions ever own the same room or path, and no two  *)
(* captures of a creator run together (session_journal_ownership.py).      *)
THEOREM OwnersStaySeparate == Spec => []OwnersSeparate
<1>1. Init => OwnersSeparate
  BY DEF Init, OwnersSeparate, Outstanding
<1>2. UNCHANGED tables /\ OwnersSeparate => OwnersSeparate'
  BY DEF tables, OwnersSeparate, Outstanding, RoomOf
<1>3. TInv /\ HistoryOK /\ OwnersSeparate /\ [Next]_vars => OwnersSeparate'
  BY <1>2, Steps, ApplySeparate
<1>4. QED
  BY <1>1, <1>3, SpecTInv, PTL DEF Spec

-----------------------------------------------------------------------------
(* Tasks.  What a transaction may do to the tasks and to the queue.        *)
Claimed(s, k) ==
  /\ Oldest(s) /\ \A t \in Sessions : ~Running(t)
  /\ queue' = queue
  /\ tasks' = [tasks EXCEPT ![s].state = "running", ![s].rev = @ + 1,
                            ![s].attempt = @ + 1, ![s].token = k]

Ended(s, state) ==
  /\ tasks[s] # NoTask /\ queue' = queue
  /\ \/ Running(s) /\ state \in {"failed", "completed"}
     \/ Queued(s) /\ state = "blocked"
  /\ tasks' = [tasks EXCEPT ![s].state = state, ![s].rev = @ + 1]

Held(s) ==
  /\ Running(s) /\ queue' = queue
  /\ tasks' = [tasks EXCEPT ![s].rev = @ + 1]

Retried(s) ==
  /\ tasks[s] # NoTask /\ tasks[s].state = "failed"
  /\ queue' = Append(queue, s)
  /\ tasks' = [tasks EXCEPT ![s].state = "queued", ![s].rev = @ + 1,
                            ![s].order = Len(queue) + 1]

Created(s) ==
  /\ tasks[s] = NoTask
  /\ queue' = Append(queue, s)
  /\ tasks' = [tasks EXCEPT ![s] =
       [state |-> "queued", rev |-> 1, attempt |-> 0, token |-> NoToken,
        order |-> Len(queue) + 1]]

LEMMA ApplyTasks ==
  ASSUME TInv, NEW q \in Calls, Apply(q)
  PROVE  \/ tasks' = tasks /\ queue' = queue
         \/ \E s \in Sessions, k \in Tokens : Claimed(s, k)
         \/ \E s \in Sessions, state \in {"failed", "completed", "blocked"} :
              Ended(s, state)
         \/ \E s \in Sessions : Held(s) \/ Retried(s) \/ Created(s)
<1>1. CASE q.op = "claim_next" /\ CanClaim(q) /\ Claim(q)
  <2>1. q.token \in Tokens
    BY <1>1, CallFields
  <2>2. QED
    BY <1>1, <2>1 DEF Claim, CanClaim, Claimed
<1>2. CASE \/ q.op = "fail_task" /\ AtWork(q) /\ Fail(q)
           \/ q.op = "settle_task" /\ AtWork(q) /\ Settle(q)
  <2>1. q.s \in Sessions
    BY <1>2, CallFields DEF AttemptOps
  <2>2. Ended(q.s, "failed") \/ Ended(q.s, "completed")
    BY <1>2 DEF AtWork, Current, Fail, Settle, Reach, Ended
  <2>3. QED
    BY <2>1, <2>2
<1>3. CASE q.op = "block_queued" /\ CanBlock(q) /\ Block(q)
  <2>1. q.s \in Sessions
    BY <1>3, CallFields
  <2>2. Ended(q.s, "blocked")
    BY <1>3 DEF CanBlock, Queued, Block, Ended
  <2>3. QED
    BY <2>1, <2>2
<1>4. CASE \/ q.op = "hold_attempt" /\ AtWork(q) /\ Hold(q)
           \/ q.op = "retry_failed" /\ CanRetry(q) /\ Retry(q)
  <2>1. q.s \in Sessions
    BY <1>4, CallFields DEF AttemptOps
  <2>2. Held(q.s) \/ Retried(q.s)
    BY <1>4 DEF AtWork, CanRetry, Current, Hold, Retry, Held, Retried
  <2>3. QED
    BY <2>1, <2>2
<1>5. CASE q.op = "handoff" /\ CanHandoff(q) /\ Handoff(q)
  <2>1. q.s \in Sessions /\ tasks[q.s] = NoTask
    BY <1>5, CallFields, GuardedCapture DEF CaptureOps, CanHandoff
  <2>2. Created(q.s)
    BY <1>5, <2>1 DEF Handoff, Created
  <2>3. QED
    BY <2>1, <2>2
<1>6. CASE \/ Reserve(q) \/ Admit(q) \/ Intend(q) \/ Release(q) \/ UNCHANGED tables
  BY <1>6 DEF Reserve, Admit, Intend, Release, tables
<1>7. QED
  BY <1>1, <1>2, <1>3, <1>4, <1>5, <1>6 DEF Apply, ReserveAgain, ClaimNothing

LEMMA ApplyOneFinalizer ==
  ASSUME TInv, OneFinalizer, NEW q \in Calls, Apply(q)
  PROVE  OneFinalizer'
<1>1. TablesOK
  BY DEF TInv
<1>2. CASE tasks' = tasks
  BY <1>2 DEF OneFinalizer, Running
<1>3. ASSUME NEW s \in Sessions, NEW k \in Tokens, Claimed(s, k) PROVE OneFinalizer'
  <2>1. \A t \in Sessions \ {s} : tasks'[t] = tasks[t]
    BY <1>1, <1>3 DEF Claimed, TablesOK
  <2>2. QED
    BY <1>3, <2>1 DEF Claimed, OneFinalizer, Running
<1>4. ASSUME NEW s \in Sessions, NEW state \in {"failed", "completed", "blocked"},
             Ended(s, state)
      PROVE  OneFinalizer'
  <2>1. \A t \in Sessions \ {s} : tasks'[t] = tasks[t]
    BY <1>1, <1>4 DEF Ended, TablesOK
  <2>2. tasks'[s].state = state
    BY <1>1, <1>4, AbsentAssumption DEF Ended, TablesOK, Tasks
  <2>3. QED
    BY <2>1, <2>2 DEF OneFinalizer, Running
<1>5. ASSUME NEW s \in Sessions, Held(s) PROVE OneFinalizer'
  <2>1. \A t \in Sessions \ {s} : tasks'[t] = tasks[t]
    BY <1>1, <1>5 DEF Held, TablesOK
  <2>2. QED
    BY <1>5, <2>1 DEF Held, OneFinalizer, Running
<1>6. ASSUME NEW s \in Sessions, Retried(s) \/ Created(s) PROVE OneFinalizer'
  <2>1. \A t \in Sessions \ {s} : tasks'[t] = tasks[t]
    BY <1>1, <1>6 DEF Retried, Created, TablesOK
  <2>2. tasks'[s].state = "queued"
    BY <1>1, <1>6 DEF Retried, Created, TablesOK, Tasks
  <2>3. QED
    BY <2>1, <2>2 DEF OneFinalizer, Running
<1>7. QED
  BY <1>2, <1>3, <1>4, <1>5, <1>6, ApplyTasks

(* At most one finalizer is at work (session_journal_tasks.py:31).         *)
THEOREM SpecOneFinalizer == Spec => []OneFinalizer
<1>1. Init => OneFinalizer
  BY DEF Init, OneFinalizer, Running
<1>2. UNCHANGED tables /\ OneFinalizer => OneFinalizer'
  BY DEF tables, OneFinalizer, Running
<1>3. TInv /\ HistoryOK /\ OneFinalizer /\ [Next]_vars => OneFinalizer'
  BY <1>2, Steps, ApplyOneFinalizer
<1>4. QED
  BY <1>1, <1>3, SpecTInv, PTL DEF Spec

(* A task that is not completed stands in the queue at its latest entry.   *)
LEMMA Standing ==
  ASSUME TInv, NEW s \in Sessions, tasks[s] # NoTask, tasks[s].state # "completed"
  PROVE  /\ tasks[s].order \in 1..Len(queue) /\ queue[tasks[s].order] = s
         /\ \A p \in 1..Len(queue) : queue[p] = s => p <= tasks[s].order
  BY UnitOfTask DEF TaskSound

(* A step after which a queued task's queue behind it is what it was.      *)
LEMMA OvertakingKept ==
  ASSUME TInv, NoOvertaking, NEW s \in Sessions, Queued(s),
         tasks'[s].order = tasks[s].order, queue' = queue,
         NEW u \in Sessions, \A t \in Sessions \ {u} : tasks'[t] = tasks[t],
         \A p \in tasks[s].order + 1 .. Len(queue) : queue[p] = u =>
            /\ tasks'[u] # NoTask /\ tasks'[u].order = p
            /\ tasks'[u].state \in {"queued", "blocked"}
  PROVE  \A p \in tasks'[s].order + 1 .. Len(queue') :
           /\ tasks'[queue'[p]] # NoTask /\ tasks'[queue'[p]].order = p
           /\ tasks'[queue'[p]].state \in {"queued", "blocked"}
<1>1. tasks[s].order \in Nat /\ Len(queue) \in Nat
      /\ \A p \in 1..Len(queue) : queue[p] \in Sessions
  BY AbsentAssumption DEF Queued, TInv, TablesOK, Tasks
<1>2. SUFFICES ASSUME NEW p \in tasks[s].order + 1 .. Len(queue)
               PROVE  /\ tasks'[queue[p]] # NoTask /\ tasks'[queue[p]].order = p
                      /\ tasks'[queue[p]].state \in {"queued", "blocked"}
  OBVIOUS
<1>3. queue[p] \in Sessions
  BY <1>1
<1>4. CASE queue[p] = u
  BY <1>4
<1>5. CASE queue[p] # u
  BY <1>3, <1>5 DEF NoOvertaking
<1>6. QED
  BY <1>4, <1>5

(* A new entry at the tail of the queue overtakes nothing.                 *)
LEMMA OvertakingAppended ==
  ASSUME TInv, NoOvertaking, NEW u \in Sessions, queue' = Append(queue, u),
         \A t \in Sessions \ {u} : tasks'[t] = tasks[t],
         ~Queued(u),
         tasks[u] # NoTask => tasks[u].state \notin {"queued", "blocked"},
         tasks'[u] # NoTask, tasks'[u].state = "queued",
         tasks'[u].order = Len(queue) + 1
  PROVE  NoOvertaking'
<1>1. Len(queue) \in Nat /\ \A p \in 1..Len(queue) : queue[p] \in Sessions
  BY DEF TInv, TablesOK
<1>2. /\ Len(queue') = Len(queue) + 1 /\ queue'[Len(queue) + 1] = u
      /\ \A p \in 1..Len(queue) : queue'[p] = queue[p]
  BY <1>1 DEF TInv, TablesOK
<1>3. SUFFICES ASSUME NEW s \in Sessions, Queued(s)',
                      NEW p \in tasks'[s].order + 1 .. Len(queue')
               PROVE  /\ tasks'[queue'[p]] # NoTask /\ tasks'[queue'[p]].order = p
                      /\ tasks'[queue'[p]].state \in {"queued", "blocked"}
  BY DEF NoOvertaking
<1>4. CASE s = u
  BY <1>1, <1>2, <1>4
<1>5. CASE s # u
  <2>1. tasks'[s] = tasks[s] /\ Queued(s)
    BY <1>3, <1>5 DEF Queued
  <2>2. tasks[s].order \in Nat
    BY <2>1, AbsentAssumption DEF Queued, TInv, TablesOK, Tasks
  <2>3. tasks[s].order \in 1..Len(queue)
    BY <2>1, Standing DEF Queued
  <2>4. CASE p = Len(queue) + 1
    BY <1>2, <2>4
  <2>5. CASE p # Len(queue) + 1
    <3>1. p \in tasks[s].order + 1 .. Len(queue) /\ queue'[p] = queue[p]
      BY <1>1, <1>2, <1>3, <2>1, <2>2, <2>3, <2>5
    <3>2. /\ tasks[queue[p]] # NoTask /\ tasks[queue[p]].order = p
          /\ tasks[queue[p]].state \in {"queued", "blocked"}
      BY <2>1, <3>1 DEF NoOvertaking
    <3>3. queue[p] \in Sessions \ {u}
      BY <1>1, <2>2, <3>1, <3>2
    <3>4. QED
      BY <3>1, <3>2, <3>3
  <2>6. QED
    BY <2>4, <2>5
<1>6. QED
  BY <1>4, <1>5

LEMMA ApplyNoOvertaking ==
  ASSUME TInv, NoOvertaking, NEW q \in Calls, Apply(q)
  PROVE  NoOvertaking'
<1>1. TablesOK /\ Len(queue) \in Nat
  BY DEF TInv, TablesOK
<1>2. CASE tasks' = tasks /\ queue' = queue
  BY <1>2 DEF NoOvertaking, Queued
<1>3. ASSUME NEW u \in Sessions, NEW k \in Tokens, Claimed(u, k)
      PROVE  NoOvertaking'
  <2>1. /\ queue' = queue /\ \A t \in Sessions \ {u} : tasks'[t] = tasks[t]
        /\ Queued(u) /\ tasks[u] \in Tasks
    BY <1>1, <1>3 DEF Claimed, Oldest, Queued, TablesOK
  <2>2. tasks'[u].state = "running"
    BY <1>1, <1>3, <2>1 DEF Claimed, TablesOK, Tasks
  <2>3. ASSUME NEW s \in Sessions, Queued(s)'
        PROVE  \A p \in tasks'[s].order + 1 .. Len(queue') :
                 /\ tasks'[queue'[p]] # NoTask /\ tasks'[queue'[p]].order = p
                 /\ tasks'[queue'[p]].state \in {"queued", "blocked"}
    <3>1. s # u /\ tasks'[s] = tasks[s] /\ Queued(s)
      BY <2>1, <2>2, <2>3 DEF Queued
    <3>2. tasks[u].order <= tasks[s].order
      BY <1>3, <3>1 DEF Claimed, Oldest
    <3>3. /\ tasks[u].order \in Nat /\ tasks[s].order \in Nat
          /\ \A p \in 1..Len(queue) : queue[p] = u => p <= tasks[u].order
      BY <1>1, <2>1, <3>1, Standing, AbsentAssumption DEF Queued, TablesOK, Tasks
    <3>4. \A p \in tasks[s].order + 1 .. Len(queue) : queue[p] # u
      BY <1>1, <3>2, <3>3
    <3>5. QED
      BY <2>1, <3>1, <3>4, OvertakingKept
  <2>4. QED
    BY <2>3 DEF NoOvertaking
<1>4. ASSUME NEW u \in Sessions, NEW state \in {"failed", "completed", "blocked"},
             Ended(u, state)
      PROVE  NoOvertaking'
  <2>1. /\ queue' = queue /\ \A t \in Sessions \ {u} : tasks'[t] = tasks[t]
        /\ tasks[u] \in Tasks /\ tasks'[u].state = state
        /\ tasks'[u].order = tasks[u].order
    BY <1>1, <1>4 DEF Ended, TablesOK, Tasks
  <2>2. tasks'[u] # NoTask
    <3>1. tasks'[u] = [tasks[u] EXCEPT !.state = state, !.rev = @ + 1]
      BY <1>1, <1>4 DEF Ended, TablesOK
    <3>2. state \in TaskStates
      BY DEF TaskStates
    <3>3. tasks[u] \in Tasks
      BY <2>1
    <3>4. [tasks[u] EXCEPT !.state = state, !.rev = @ + 1] \in Tasks
      BY <3>2, <3>3, TaskState, Zenon
    <3>5. QED
      BY <3>1, <3>4, AbsentAssumption
  <2>3. ASSUME NEW s \in Sessions, Queued(s)'
        PROVE  \A p \in tasks'[s].order + 1 .. Len(queue') :
                 /\ tasks'[queue'[p]] # NoTask /\ tasks'[queue'[p]].order = p
                 /\ tasks'[queue'[p]].state \in {"queued", "blocked"}
    <3>1. s # u /\ tasks'[s] = tasks[s] /\ Queued(s)
      BY <2>1, <2>3 DEF Queued
    <3>2. \A p \in tasks[s].order + 1 .. Len(queue) : queue[p] = u =>
            /\ tasks'[u] # NoTask /\ tasks'[u].order = p
            /\ tasks'[u].state \in {"queued", "blocked"}
      <4>1. \A p \in tasks[s].order + 1 .. Len(queue) : queue[p] = u =>
              tasks[u].order = p /\ tasks[u].state \in {"queued", "blocked"}
        BY <3>1 DEF NoOvertaking
      <4>2. tasks[u].state \in {"queued", "blocked"} => state = "blocked"
        BY <1>4 DEF Ended, Running, Queued
      <4>3. QED
        BY <2>1, <2>2, <4>1, <4>2
    <3>3. QED
      BY <2>1, <3>1, <3>2, OvertakingKept
  <2>4. QED
    BY <2>3 DEF NoOvertaking
<1>5. ASSUME NEW u \in Sessions, Held(u) PROVE NoOvertaking'
  <2>1. /\ queue' = queue /\ \A t \in Sessions \ {u} : tasks'[t] = tasks[t]
        /\ tasks[u] \in Tasks /\ tasks[u].state = "running"
    BY <1>1, <1>5 DEF Held, Running, TablesOK
  <2>2. tasks'[u].state = "running"
    BY <1>1, <1>5, <2>1 DEF Held, TablesOK, Tasks
  <2>3. ASSUME NEW s \in Sessions, Queued(s)'
        PROVE  \A p \in tasks'[s].order + 1 .. Len(queue') :
                 /\ tasks'[queue'[p]] # NoTask /\ tasks'[queue'[p]].order = p
                 /\ tasks'[queue'[p]].state \in {"queued", "blocked"}
    <3>1. s # u /\ tasks'[s] = tasks[s] /\ Queued(s)
      BY <2>1, <2>2, <2>3 DEF Queued
    <3>2. \A p \in tasks[s].order + 1 .. Len(queue) : queue[p] # u
      BY <2>1, <3>1 DEF NoOvertaking
    <3>3. QED
      BY <2>1, <3>1, <3>2, OvertakingKept
  <2>4. QED
    BY <2>3 DEF NoOvertaking
<1>6. ASSUME NEW u \in Sessions, Retried(u) PROVE NoOvertaking'
  <2>1. /\ queue' = Append(queue, u) /\ \A t \in Sessions \ {u} : tasks'[t] = tasks[t]
        /\ tasks[u] \in Tasks /\ tasks[u].state = "failed"
        /\ tasks'[u].state = "queued" /\ tasks'[u].order = Len(queue) + 1
    BY <1>1, <1>6 DEF Retried, TablesOK, Tasks
  <2>2. tasks'[u] # NoTask
    <3> DEFINE queued == [tasks[u] EXCEPT !.state = "queued", !.rev = @ + 1]
    <3>1. queued \in Tasks
      BY <2>1, TaskState DEF TaskStates
    <3>2. [queued EXCEPT !.order = Len(queue) + 1] \in Tasks
      <4> HIDE DEF queued
      <4> QED
        BY <1>1, <3>1 DEF Tasks
    <3>3. tasks'[u] = [queued EXCEPT !.order = Len(queue) + 1]
      BY <1>1, <1>6 DEF Retried, TablesOK
    <3>4. QED
      BY <3>2, <3>3, AbsentAssumption
  <2>3. QED
    BY <2>1, <2>2, OvertakingAppended DEF Queued
<1>7. ASSUME NEW u \in Sessions, Created(u) PROVE NoOvertaking'
  <2>1. /\ queue' = Append(queue, u) /\ \A t \in Sessions \ {u} : tasks'[t] = tasks[t]
        /\ tasks[u] = NoTask
        /\ tasks'[u] = [state |-> "queued", rev |-> 1, attempt |-> 0,
                        token |-> NoToken, order |-> Len(queue) + 1]
    BY <1>1, <1>7 DEF Created, TablesOK
  <2>2. tasks'[u] \in Tasks
    BY <1>1, <2>1 DEF Tasks, TaskStates
  <2>3. tasks'[u] # NoTask /\ ~Queued(u)
    BY <2>1, <2>2, AbsentAssumption DEF Queued
  <2>4. QED
    BY <2>1, <2>3, OvertakingAppended
<1>8. QED
  BY <1>2, <1>3, <1>4, <1>5, <1>6, <1>7, ApplyTasks

(* Behind a queued task nothing has been claimed: a task that is retried   *)
(* for ever starves nobody (session_journal_tasks.py:31).                  *)
THEOREM SpecNoOvertaking == Spec => []NoOvertaking
<1>1. Init => NoOvertaking
  BY DEF Init, NoOvertaking, Queued
<1>2. UNCHANGED tables /\ NoOvertaking => NoOvertaking'
  BY DEF tables, NoOvertaking, Queued
<1>3. TInv /\ HistoryOK /\ NoOvertaking /\ [Next]_vars => NoOvertaking'
  BY <1>2, Steps, ApplyNoOvertaking
<1>4. QED
  BY <1>1, <1>3, SpecTInv, PTL DEF Spec

-----------------------------------------------------------------------------
(* Rows.  What a transaction may do to a row of the sessions.              *)
LEMMA ApplyRows ==
  ASSUME TInv, NEW q \in Calls, Apply(q), NEW s \in Sessions
  PROVE  /\ sessions'[s] # sessions[s] => sessions'[s].rev = sessions[s].rev + 1
         /\ sessions[s].stop => /\ sessions'[s].stop
                                /\ sessions[s].phase = "reserved"
                                     => sessions'[s].phase # "capturing"
<1>1. TablesOK /\ sessions \in [Sessions -> Rows]
  BY DEF TInv, TablesOK
<1>2. CASE q.op = "reserve" /\ CanReserve(q) /\ Reserve(q)
  <2>1. q.s \in Sessions /\ sessions[q.s] = Unknown
    BY <1>2, CallFields DEF CanReserve
  <2>2. sessions[q.s].rev = 0 /\ ~sessions[q.s].stop
    BY <2>1 DEF Unknown
  <2>3. PICK b \in Slots : sessions' = [sessions EXCEPT ![q.s] =
           [Unknown EXCEPT !.phase = "reserved", !.rev = 1, !.slot = b,
                           !.gen = bindings[b].gen + 1]]
    BY <1>2 DEF Reserve
  <2>4. sessions'[q.s] = [Unknown EXCEPT !.phase = "reserved", !.rev = 1, !.slot = b,
                                         !.gen = bindings[b].gen + 1]
    BY <1>1, <2>1, <2>3
  <2>5. sessions'[q.s].rev = 1
    BY <2>4 DEF Unknown
  <2>6. s # q.s => sessions'[s] = sessions[s]
    BY <1>1, <2>3
  <2>7. QED
    BY <2>2, <2>5, <2>6
<1>3. CASE q.op = "admit" /\ CanAdmit(q) /\ Admit(q)
  <2>1. q.s \in Sessions /\ ~sessions[q.s].stop
        /\ sessions' = [sessions EXCEPT ![q.s].room = q.room,
                          ![q.s].phase = "capturing", ![q.s].rev = @ + 1]
    BY <1>3, CallFields DEF CaptureOps, CanAdmit, Admit
  <2>2. sessions'[q.s].rev = sessions[q.s].rev + 1
        /\ (s # q.s => sessions'[s] = sessions[s])
    BY <1>1, <2>1 DEF Rows
  <2>3. QED
    BY <2>1, <2>2
<1>4. CASE q.op = "capture_intent" /\ CanIntend(q) /\ Intend(q)
  <2>1. q.s \in Sessions
        /\ sessions' = [sessions EXCEPT
             ![q.s].phase = IF q.closing THEN "closing" ELSE @,
             ![q.s].stop = @ \/ q.stop, ![q.s].rev = @ + 1]
    BY <1>4, CallFields DEF CaptureOps, Intend
  <2>2. s # q.s => sessions'[s] = sessions[s]
    BY <1>1, <2>1
  <2>3. sessions'[q.s].rev = sessions[q.s].rev + 1
        /\ sessions'[q.s].phase \in {sessions[q.s].phase, "closing"}
    BY <1>1, <2>1 DEF Rows
  <2>4. sessions'[q.s].stop = (sessions[q.s].stop \/ q.stop)
    BY <1>1, <2>1 DEF Rows
  <2>5. QED
    BY <2>2, <2>3, <2>4
<1>5. ASSUME NEW u \in Sessions, NEW phase \in Phases \ {"capturing"},
             sessions' = [sessions EXCEPT ![u].phase = phase, ![u].rev = @ + 1]
      PROVE  /\ sessions'[s] # sessions[s] => sessions'[s].rev = sessions[s].rev + 1
             /\ sessions[s].stop => /\ sessions'[s].stop
                                    /\ sessions[s].phase = "reserved"
                                         => sessions'[s].phase # "capturing"
  <2>1. s # u => sessions'[s] = sessions[s]
    BY <1>1, <1>5
  <2>2. sessions'[u].rev = sessions[u].rev + 1 /\ sessions'[u].phase = phase
    BY <1>1, <1>5 DEF Rows
  <2>3. sessions'[u].stop = sessions[u].stop
    BY <1>1, <1>5 DEF Rows
  <2>4. QED
    BY <2>1, <2>2, <2>3
<1>6. CASE Handoff(q) \/ Release(q) \/ Fail(q) \/ Retry(q) \/ Block(q) \/ Settle(q)
  <2>1. CASE q.s \in Sessions
    <3>1. \E phase \in Phases \ {"capturing"} :
            sessions' = [sessions EXCEPT ![q.s].phase = phase, ![q.s].rev = @ + 1]
      BY <1>6 DEF Handoff, Release, Fail, Retry, Block, Settle, Reach, Phases, TaskStates
    <3>2. QED
      BY <1>5, <2>1, <3>1
  <2>2. CASE q.s \notin Sessions
    <3>1. sessions' = sessions
      <4>1. \E phase \in Phases :
              sessions' = [sessions EXCEPT ![q.s].phase = phase, ![q.s].rev = @ + 1]
        BY <1>6 DEF Handoff, Release, Fail, Retry, Block, Settle, Reach, Phases,
                    TaskStates
      <4>2. QED
        BY <1>1, <2>2, <4>1
    <3>2. QED
      BY <3>1
  <2>3. QED
    BY <2>1, <2>2
<1>7. CASE Claim(q)
  <2>1. \E u \in Sessions :
          sessions' = [sessions EXCEPT ![u].phase = "running", ![u].rev = @ + 1]
    BY <1>7 DEF Claim
  <2>2. "running" \in Phases \ {"capturing"}
    BY DEF Phases, TaskStates
  <2>3. QED
    BY <1>5, <2>1, <2>2
<1>8. CASE Hold(q) \/ UNCHANGED tables
  BY <1>8 DEF Hold, tables
<1>9. QED
  BY <1>2, <1>3, <1>4, <1>6, <1>7, <1>8 DEF Apply, ReserveAgain, ClaimNothing

LEMMA ApplyTaskRows ==
  ASSUME TInv, NEW q \in Calls, Apply(q), NEW s \in Sessions,
         tasks[s] # NoTask, tasks'[s] # tasks[s]
  PROVE  tasks'[s].rev = tasks[s].rev + 1
<1>1. TablesOK /\ tasks[s] \in Tasks
  BY DEF TInv, TablesOK
<1>2. ASSUME NEW u \in Sessions, NEW k \in Tokens, Claimed(u, k)
      PROVE  tasks'[s].rev = tasks[s].rev + 1
  <2>1. s = u
    BY <1>1, <1>2 DEF Claimed, TablesOK
  <2>2. QED
    BY <1>1, <1>2, <2>1 DEF Claimed, TablesOK, Tasks
<1>3. ASSUME NEW u \in Sessions, NEW state \in {"failed", "completed", "blocked"},
             Ended(u, state)
      PROVE  tasks'[s].rev = tasks[s].rev + 1
  <2>1. s = u
    BY <1>1, <1>3 DEF Ended, TablesOK
  <2>2. QED
    BY <1>1, <1>3, <2>1 DEF Ended, TablesOK, Tasks
<1>4. ASSUME NEW u \in Sessions, Held(u) \/ Retried(u) \/ Created(u)
      PROVE  tasks'[s].rev = tasks[s].rev + 1
  <2>1. s = u
    BY <1>1, <1>4 DEF Held, Retried, Created, TablesOK
  <2>2. QED
    BY <1>1, <1>4, <2>1 DEF Held, Retried, Created, TablesOK, Tasks
<1>5. QED
  BY <1>2, <1>3, <1>4, ApplyTasks

(* A committed stop is never taken back, and no reservation it was made    *)
(* for is admitted to write (session_journal_capture.py).                  *)
THEOREM StopStaysFinal == Spec => StopFinal
<1>1. TInv /\ HistoryOK /\ [Next]_vars =>
        [\A s \in Sessions :
           sessions[s].stop => /\ sessions'[s].stop
                               /\ sessions[s].phase = "reserved"
                                    => sessions'[s].phase # "capturing"]_vars
  BY Steps, ApplyRows DEF tables
<1>2. QED
  BY <1>1, SpecTInv, PTL DEF Spec, StopFinal

(* Every change of a row is a new revision of it, so a guard on the        *)
(* revision never passes on a row its caller has not seen.                 *)
THEOREM EveryChangeRevises == Spec => RevisionsCount
<1>1. TInv /\ HistoryOK /\ [Next]_vars =>
        [\A s \in Sessions :
           /\ sessions'[s] # sessions[s] => sessions'[s].rev = sessions[s].rev + 1
           /\ tasks[s] # NoTask /\ tasks'[s] # tasks[s]
                => tasks'[s].rev = tasks[s].rev + 1]_vars
  BY Steps, ApplyRows, ApplyTaskRows DEF tables
<1>2. QED
  BY <1>1, SpecTInv, PTL DEF Spec, RevisionsCount

-----------------------------------------------------------------------------
(* Outstanding work.                                                       *)
LEMMA ApplyUnits ==
  ASSUME TInv, NEW q \in Calls, Apply(q)
  PROVE  \/ Outstanding' \subseteq Outstanding
         \/ /\ Cardinality(Outstanding) < Limit
            /\ Outstanding' = Outstanding \cup {q.s}
<1>1. units \in [Sessions -> {"none", "capture", "task"}]
  BY DEF TInv, TablesOK
<1>2. CASE q.op = "reserve" /\ CanReserve(q) /\ Reserve(q)
  <2>1. q.s \in Sessions /\ Cardinality(Outstanding) < Limit
        /\ units' = [units EXCEPT ![q.s] = "capture"]
    BY <1>2, CallFields DEF CanReserve, Reserve
  <2>2. QED
    BY <1>1, <2>1 DEF Outstanding
<1>3. CASE q.op = "handoff" /\ CanHandoff(q) /\ Handoff(q)
  <2>1. q.s \in Sessions /\ units[q.s] = "capture"
        /\ units' = [units EXCEPT ![q.s] = "task"]
    BY <1>3, CallFields, GuardedCapture DEF CaptureOps, CanHandoff, Handoff
  <2>2. QED
    BY <1>1, <2>1 DEF Outstanding
<1>4. CASE Release(q) \/ Settle(q)
  <2>1. units' = [units EXCEPT ![q.s] = "none"]
    BY <1>4 DEF Release, Settle
  <2>2. QED
    BY <1>1, <2>1 DEF Outstanding
<1>5. CASE \/ Admit(q) \/ Intend(q) \/ Claim(q) \/ Hold(q) \/ Fail(q) \/ Retry(q)
           \/ Block(q) \/ UNCHANGED tables
  <2>1. units' = units
    BY <1>5 DEF Admit, Intend, Claim, Hold, Fail, Retry, Block, tables
  <2>2. QED
    BY <2>1 DEF Outstanding
<1>6. QED
  BY <1>2, <1>3, <1>4, <1>5 DEF Apply, ReserveAgain, ClaimNothing

BInv == IsFiniteSet(Outstanding) /\ Bounded

LEMMA ApplyBounded ==
  ASSUME TInv, BInv, NEW q \in Calls, Apply(q)
  PROVE  BInv'
<1>1. CASE Outstanding' \subseteq Outstanding
  <2>1. IsFiniteSet(Outstanding') /\ Cardinality(Outstanding') <= Cardinality(Outstanding)
    BY <1>1, FS_Subset DEF BInv
  <2>2. Cardinality(Outstanding') \in Nat /\ Cardinality(Outstanding) \in Nat
    BY <2>1, FS_CardinalityType DEF BInv
  <2>3. QED
    BY <2>1, <2>2, LimitAssumption DEF BInv, Bounded
<1>2. CASE /\ Cardinality(Outstanding) < Limit
           /\ Outstanding' = Outstanding \cup {q.s}
  <2>1. /\ IsFiniteSet(Outstanding')
        /\ \/ Cardinality(Outstanding') = Cardinality(Outstanding)
           \/ Cardinality(Outstanding') = Cardinality(Outstanding) + 1
    BY <1>2, FS_AddElement DEF BInv
  <2>2. Cardinality(Outstanding) \in Nat
    BY FS_CardinalityType DEF BInv
  <2>3. QED
    BY <1>2, <2>1, <2>2, LimitAssumption DEF BInv, Bounded
<1>3. QED
  BY <1>1, <1>2, ApplyUnits

(* Outstanding captures and tasks never exceed the limit, although a       *)
(* handoff takes no unit of its own (session_journal_capture.py).          *)
THEOREM OutstandingBounded == Spec => []Bounded
<1>1. Init => BInv
  <2>1. Init => Outstanding = {}
    BY DEF Init, Outstanding
  <2>2. IsFiniteSet({}) /\ Cardinality({}) = 0
    BY FS_EmptySet
  <2>3. QED
    BY <2>1, <2>2, LimitAssumption DEF BInv, Bounded
<1>2. UNCHANGED tables /\ BInv => BInv'
  BY DEF tables, BInv, Bounded, Outstanding
<1>3. TInv /\ HistoryOK /\ BInv /\ [Next]_vars => BInv'
  BY <1>2, Steps, ApplyBounded
<1>4. BInv => Bounded
  BY DEF BInv
<1>5. QED
  BY <1>1, <1>3, <1>4, SpecTInv, PTL DEF Spec

-----------------------------------------------------------------------------
(* Replays.  A call that did its work has moved the rows it names past     *)
(* what its caller believed, for ever, and no guard lets it pass again.    *)
Passed(q) ==
  /\ q.op = "reserve" => sessions[q.s].rev > 0
  /\ q.op \in CaptureOps => sessions[q.s].rev > q.rev
  /\ q.op \in AttemptOps \cup {"block_queued"} =>
       tasks[q.s] # NoTask /\ tasks[q.s].rev > q.rev
  /\ q.op = "claim_next" => attempts[q.token] # NoAttempt

LEMMA PassedIdles ==
  ASSUME TInv, NEW q \in Calls, Passed(q)
  PROVE  ~CanWork(q)
<1> USE DEF Passed, CanWork, CaptureOps, AttemptOps
<1>1. CASE q.op = "reserve"
  <2>1. q.s \in Sessions /\ sessions[q.s] # Unknown
    BY <1>1, CallFields DEF Unknown
  <2>2. QED
    BY <1>1, <2>1 DEF CanReserve
<1>2. CASE q.op = "claim_next"
  BY <1>2 DEF CanClaim
<1>3. CASE q.op \in CaptureOps
  <2>1. q.rev \in Nat /\ sessions[q.s].rev > q.rev
    BY <1>3, CallFields
  <2>2. sessions[q.s].rev # q.rev
    BY <2>1
  <2>3. ~Guarded(q)
    BY <2>2 DEF Guarded
  <2>4. QED
    BY <1>3, <2>3 DEF Can, CanAdmit, CanIntend, CanHandoff, CanRelease
<1>4. CASE q.op \in AttemptOps \cup {"block_queued"}
  <2>1. q.rev \in Nat /\ tasks[q.s].rev > q.rev
    BY <1>4, CallFields
  <2>2. tasks[q.s].rev # q.rev
    BY <2>1
  <2>3. ~Current(q) /\ ~CanBlock(q)
    BY <2>2 DEF Current, CanBlock
  <2>4. QED
    BY <1>4, <2>3 DEF Can, AtWork, CanRetry
<1>5. CASE q.op \notin {"reserve", "claim_next", "block_queued"} \cup CaptureOps
                         \cup AttemptOps
  BY <1>5 DEF Can
<1>6. QED
  BY <1>1, <1>2, <1>3, <1>4, <1>5

(* An attempt's row is never removed.                                      *)
LEMMA AttemptsStay ==
  ASSUME TInv, NEW q \in Calls, Apply(q), NEW k \in Tokens,
         attempts[k] # NoAttempt
  PROVE  attempts'[k] # NoAttempt
<1>1. attempts \in [Tokens -> Attempts \cup {NoAttempt}] /\ attempts[k] \in Attempts
  BY DEF TInv, TablesOK
<1>2. CASE attempts' = attempts
  BY <1>2
<1>3. CASE q.op = "claim_next" /\ CanClaim(q) /\ Claim(q)
  <2>1. q.token # k
    BY <1>3 DEF CanClaim
  <2>2. attempts'[k] = attempts[k]
    BY <1>1, <1>3, <2>1 DEF Claim
  <2>3. QED
    BY <2>2
<1>4. ASSUME NEW state \in {"failed", "completed"}, Reach(q, state)
      PROVE  attempts'[k] # NoAttempt
  <2>1. \/ attempts'[k] = attempts[k]
        \/ attempts'[k] = [attempts[k] EXCEPT !.state = state]
    BY <1>1, <1>4 DEF Reach
  <2>2. [attempts[k] EXCEPT !.state = state] \in Attempts
    BY <1>1 DEF Attempts
  <2>3. QED
    BY <2>1, <2>2, AbsentAssumption
<1>5. QED
  BY <1>2, <1>3, <1>4 DEF Apply, Reserve, ReserveAgain, ClaimNothing, Admit, Intend,
     Handoff, Release, Hold, Fail, Retry, Block, Settle, tables

LEMMA RevisionsGrow ==
  ASSUME TInv, NEW q \in Calls, Apply(q), NEW s \in Sessions
  PROVE  /\ sessions'[s].rev \in Nat /\ sessions'[s].rev >= sessions[s].rev
         /\ tasks[s] # NoTask => /\ tasks'[s] # NoTask
                                 /\ tasks'[s].rev >= tasks[s].rev
<1>1. sessions[s] \in Rows /\ TablesOK
  BY DEF TInv, TablesOK
<1>2. sessions'[s] \in Rows
  BY ApplyKeeps DEF TInv, TablesOK
<1>3. sessions'[s].rev >= sessions[s].rev
  BY <1>1, <1>2, ApplyRows DEF Rows
<1>4. ASSUME tasks[s] # NoTask
      PROVE  tasks'[s] # NoTask /\ tasks'[s].rev >= tasks[s].rev
  <2>1. tasks[s] \in Tasks
    BY <1>1, <1>4 DEF TablesOK
  <2>2. tasks'[s] # NoTask
    <3>1. CASE tasks'[s] = tasks[s]
      BY <1>4, <3>1
    <3>2. CASE \E k \in Tokens : Claimed(s, k)
      BY <1>1, <2>1, <3>2, AbsentAssumption DEF Claimed, TablesOK, Tasks,
         TaskStates
    <3>3. ASSUME NEW state \in {"failed", "completed", "blocked"},
                 Ended(s, state)
          PROVE  tasks'[s] # NoTask
      <4>1. [tasks[s] EXCEPT !.state = state, !.rev = @ + 1] \in Tasks
        BY <2>1, TaskState DEF TaskStates
      <4>2. tasks'[s] = [tasks[s] EXCEPT !.state = state, !.rev = @ + 1]
        BY <1>1, <3>3 DEF Ended, TablesOK
      <4>3. QED
        BY <4>1, <4>2, AbsentAssumption
    <3>4. CASE Held(s)
      <4>1. [tasks[s] EXCEPT !.rev = @ + 1] \in Tasks
        BY <2>1 DEF Tasks
      <4>2. tasks'[s] = [tasks[s] EXCEPT !.rev = @ + 1]
        BY <1>1, <3>4 DEF Held, TablesOK
      <4> QED
        BY <4>1, <4>2, AbsentAssumption
    <3>5. CASE Retried(s)
      BY <1>1, <2>1, <3>5, AbsentAssumption DEF Retried, TablesOK, Tasks,
         TaskStates
    <3>6. CASE Created(s)
      BY <1>4, <3>6 DEF Created
    <3>7. ASSUME NEW u \in Sessions \ {s},
                 \/ \E k \in Tokens : Claimed(u, k)
                 \/ \E state \in {"failed", "completed", "blocked"} :
                      Ended(u, state)
                 \/ Held(u) \/ Retried(u) \/ Created(u)
          PROVE  tasks'[s] = tasks[s]
      BY <1>1, <3>7 DEF Claimed, Ended, Held, Retried, Created, TablesOK
    <3>8. QED
      BY <3>1, <3>2, <3>3, <3>4, <3>5, <3>6, <3>7, ApplyTasks
  <2>3. tasks'[s].rev = tasks[s].rev \/ tasks'[s].rev = tasks[s].rev + 1
    BY <1>4, ApplyTaskRows
  <2>4. QED
    BY <2>1, <2>2, <2>3 DEF Tasks
<1>5. QED
  BY <1>2, <1>3, <1>4 DEF Rows

LEMMA PassedStays ==
  ASSUME TInv, NEW q \in Calls, Apply(q), NEW p \in Calls, Passed(p)
  PROVE  Passed(p)'
<1>1. CASE p.op = "reserve"
  <2>1. p.s \in Sessions /\ sessions[p.s].rev > 0
    BY <1>1, CallFields DEF Passed
  <2>2. sessions'[p.s].rev > 0
    BY <2>1, RevisionsGrow DEF TInv, TablesOK, Rows
  <2>3. QED
    BY <1>1, <2>2 DEF Passed, CaptureOps, AttemptOps
<1>2. CASE p.op \in CaptureOps
  <2>1. p.s \in Sessions /\ p.rev \in Nat /\ sessions[p.s].rev > p.rev
    BY <1>2, CallFields DEF Passed
  <2>2. sessions'[p.s].rev > p.rev
    BY <2>1, RevisionsGrow DEF TInv, TablesOK, Rows
  <2>3. QED
    BY <1>2, <2>2 DEF Passed, CaptureOps, AttemptOps
<1>3. CASE p.op \in AttemptOps \cup {"block_queued"}
  <2>1. p.s \in Sessions /\ p.rev \in Nat /\ tasks[p.s] # NoTask
        /\ tasks[p.s].rev > p.rev
    BY <1>3, CallFields DEF Passed
  <2>2. tasks[p.s] \in Tasks /\ tasks'[p.s] \in Tasks
    BY <2>1, ApplyKeeps, RevisionsGrow DEF TInv, TablesOK
  <2>3. tasks'[p.s] # NoTask /\ tasks'[p.s].rev > p.rev
    BY <2>1, <2>2, RevisionsGrow DEF Tasks
  <2>4. QED
    BY <1>3, <2>3 DEF Passed, CaptureOps, AttemptOps
<1>4. CASE p.op = "claim_next"
  <2>1. p.token \in Tokens /\ attempts[p.token] # NoAttempt
    BY <1>4, CallFields DEF Passed
  <2>2. attempts'[p.token] # NoAttempt
    BY <2>1, AttemptsStay
  <2>3. QED
    BY <1>4, <2>2 DEF Passed, CaptureOps, AttemptOps
<1>5. CASE p.op \notin {"reserve", "claim_next", "block_queued"} \cup CaptureOps
                         \cup AttemptOps
  BY <1>5 DEF Passed
<1>6. QED
  BY <1>1, <1>2, <1>3, <1>4, <1>5

LEMMA ReserveRow ==
  ASSUME TInv, NEW q \in Calls, q.op = "reserve", Reserve(q)
  PROVE  sessions'[q.s].rev = 1
<1>1. q.s \in Sessions
  BY CallFields
<1>2. PICK b \in Slots : sessions' = [sessions EXCEPT ![q.s] =
        [Unknown EXCEPT !.phase = "reserved", !.rev = 1, !.slot = b,
                        !.gen = bindings[b].gen + 1]]
  BY DEF Reserve
<1>3. QED
  BY <1>1, <1>2 DEF Unknown, TInv, TablesOK

(* What a transaction does to the row its own guard compared.              *)
LEMMA ApplyPasses ==
  ASSUME TInv, NEW q \in Calls, Apply(q), tables' # tables
  PROVE  Passed(q)'
<1>1. TablesOK
  BY DEF TInv
<1>2. CASE q.op = "reserve" /\ CanReserve(q) /\ Reserve(q)
  BY <1>2, ReserveRow DEF Passed, CaptureOps, AttemptOps
<1>3. CASE (CanReserveAgain(q) /\ ReserveAgain(q)) \/ (CanClaimNothing(q) /\ ClaimNothing(q))
  BY <1>3 DEF ReserveAgain, ClaimNothing
<1>4. CASE \/ q.op = "admit" /\ CanAdmit(q) /\ Admit(q)
           \/ q.op = "capture_intent" /\ CanIntend(q) /\ Intend(q)
           \/ q.op = "handoff" /\ CanHandoff(q) /\ Handoff(q)
           \/ q.op = "settle_reservation" /\ CanRelease(q) /\ Release(q)
  <2>1. q.s \in Sessions /\ q.rev \in Nat /\ sessions[q.s].rev = q.rev
    BY <1>4, CallFields DEF CaptureOps, CanAdmit, CanIntend, CanHandoff,
       CanRelease, Guarded
  <2>2. sessions'[q.s].rev = q.rev + 1
    <3>1. CASE Admit(q)
      BY <1>1, <2>1, <3>1 DEF Admit, TablesOK, Rows
    <3>2. CASE Intend(q)
      BY <1>1, <2>1, <3>2 DEF Intend, TablesOK, Rows
    <3>3. CASE Handoff(q) \/ Release(q)
      BY <1>1, <2>1, <3>3 DEF Handoff, Release, TablesOK, Rows
    <3>4. QED
      BY <1>4, <3>1, <3>2, <3>3
  <2>3. QED
    BY <1>4, <2>1, <2>2 DEF Passed, CaptureOps, AttemptOps
<1>5. CASE q.op = "claim_next" /\ CanClaim(q) /\ Claim(q)
  <2>1. q.token \in Tokens
    BY <1>5, CallFields
  <2>2. PICK s \in Sessions :
          /\ Oldest(s)
          /\ attempts' = [attempts EXCEPT ![q.token] =
               [session |-> s, number |-> tasks[s].attempt + 1, state |-> "running"]]
    BY <1>5 DEF Claim
  <2>3. attempts'[q.token]
          = [session |-> s, number |-> tasks[s].attempt + 1, state |-> "running"]
    BY <1>1, <2>1, <2>2 DEF TablesOK
  <2>4. tasks[s].attempt + 1 \in Nat
    BY <1>1, <2>2 DEF Oldest, Queued, TablesOK, Tasks
  <2>5. QED
    BY <1>5, <2>3, <2>4, AbsentAssumption DEF Passed, CaptureOps, AttemptOps, Attempts
<1>6. CASE \/ q.op = "hold_attempt" /\ AtWork(q) /\ Hold(q)
           \/ q.op = "fail_task" /\ AtWork(q) /\ Fail(q)
           \/ q.op = "retry_failed" /\ CanRetry(q) /\ Retry(q)
           \/ q.op = "settle_task" /\ AtWork(q) /\ Settle(q)
           \/ q.op = "block_queued" /\ CanBlock(q) /\ Block(q)
  <2>1. /\ q.s \in Sessions /\ q.rev \in Nat
        /\ tasks[q.s] # NoTask /\ tasks[q.s].rev = q.rev
    BY <1>6, CallFields DEF AttemptOps, AtWork, CanRetry, Current, CanBlock,
       Queued
  <2>2. tasks[q.s] \in Tasks
    BY <1>1, <2>1 DEF TablesOK
  <2>3. tasks'[q.s].rev = q.rev + 1
    <3>1. CASE Hold(q)
      BY <1>1, <2>1, <2>2, <3>1 DEF Hold, TablesOK, Tasks
    <3>2. CASE Fail(q) \/ Settle(q)
      BY <1>1, <2>1, <2>2, <3>2 DEF Fail, Settle, Reach, TablesOK, Tasks
    <3>3. CASE Retry(q) \/ Block(q)
      BY <1>1, <2>1, <2>2, <3>3 DEF Retry, Block, TablesOK, Tasks
    <3>4. QED
      BY <1>6, <3>1, <3>2, <3>3
  <2>4. tasks'[q.s] # NoTask
    BY <2>1, RevisionsGrow
  <2>5. QED
    BY <1>6, <2>1, <2>3, <2>4 DEF Passed, CaptureOps, AttemptOps
<1>7. QED
  BY <1>2, <1>3, <1>4, <1>5, <1>6 DEF Apply

(* The rows of the calls that did their work.                              *)
Worked(id) == Found(id) /\ operations[id].worked

WInv == \A id \in 1..MaxLost : Worked(id) => Passed(operations[id].call)

LEMMA WorkedPassed ==
  ASSUME TInv, HistoryOK, WInv, NEW q \in Calls, Apply(q),
         NEW id \in 1..MaxLost,
         operations' = operations \/ Record(id, q)
  PROVE  WInv'
<1> SUFFICES ASSUME NEW i \in 1..MaxLost, Worked(i)'
             PROVE  Passed(operations[i].call)'
  BY DEF WInv
<1>1. CASE operations'[i] = operations[i]
  <2>1. Worked(i)
    BY <1>1 DEF Worked, Found
  <2>2. PICK c \in Calls : c = operations[i].call
    BY <2>1 DEF HistoryOK, Worked, Found
  <2>3. Passed(c)'
    BY <2>1, <2>2, PassedStays DEF WInv
  <2>4. c = operations'[i].call
    BY <1>1, <2>2
  <2>5. QED
    BY <2>3, <2>4 DEF Passed
<1>2. CASE Record(id, q) /\ i = id
  <2> DEFINE changed == tables' # tables
  <2>1. operations'[i] = [call |-> q, worked |-> changed]
    BY <1>2, Zenon DEF Record, HistoryOK
  <2>2. changed /\ operations'[i].call = q
    <3> HIDE DEF changed
    <3> QED
      BY <2>1 DEF Worked
  <2>3. Passed(q)'
    BY <2>2, ApplyPasses
  <2>4. QED
    BY <2>2, <2>3 DEF Passed
<1>3. CASE Record(id, q) /\ i # id
  <2>1. operations'[i] = operations[i]
    BY <1>3, Zenon DEF Record, HistoryOK
  <2>2. QED
    BY <1>1, <2>1
<1>4. QED
  BY <1>1, <1>2, <1>3

LEMMA WorkedKeeps ==
  ASSUME TInv, HistoryOK, WInv, [Next]_vars
  PROVE  WInv'
<1>1. CASE UNCHANGED <<tables, operations>>
  BY <1>1 DEF WInv, Worked, Found, Passed, tables
<1>2. ASSUME NEW q \in Believed, Commit(q) PROVE WInv'
  <2>1. q \in Calls /\ Apply(q)
    BY <1>2, BelievedAreCalls DEF Commit
  <2>2. CASE Unanswered(q) /\ Record(lost + 1, q)
    BY <2>1, <2>2, UnansweredType, WorkedPassed
  <2>3. CASE operations' = operations
    <3>1. CASE \E id \in 1..MaxLost : TRUE
      BY <2>1, <2>3, <3>1, WorkedPassed
    <3>2. QED
      BY <3>1 DEF WInv
  <2>4. QED
    BY <1>2, <2>2, <2>3 DEF Commit
<1>3. ASSUME NEW q \in Believed, CommitLost(q) PROVE WInv'
  BY <1>1, <1>3 DEF CommitLost
<1>4. CASE Replay
  <2>1. pending.id \in 1..MaxLost /\ pending.call \in Calls
    BY <1>4 DEF Replay, HistoryOK
  <2>2. \/ UNCHANGED <<tables, operations>>
        \/ Apply(pending.call) /\ Record(pending.id, pending.call)
    BY <1>4 DEF Replay
  <2>3. QED
    BY <1>1, <2>1, <2>2, WorkedPassed
<1>5. QED
  BY <1>1, <1>2, <1>3, <1>4 DEF Next, vars

(* What a call has done is never done again (session_journal_store.py,     *)
(* _mutate): whatever others commit after it, every row it names has moved *)
(* past the revision, attempt or token its caller holds, so that neither a *)
(* replay nor a repetition under another id passes a guard.                *)
THEOREM WorkIsDoneOnce == Spec => []CommittedOnce
<1>1. Init => WInv
  BY DEF Init, WInv, Worked, Found
<1>2. TInv /\ HistoryOK /\ WInv => CommittedOnce
  <2> SUFFICES ASSUME TInv, HistoryOK, WInv, NEW id \in 1..MaxLost,
                      Found(id), operations[id].worked = TRUE
               PROVE  ~CanWork(operations[id].call)
    BY DEF CommittedOnce, HistoryOK, Found
  <2>1. operations[id].call \in Calls
    BY DEF HistoryOK, Found
  <2>2. Passed(operations[id].call)
    BY DEF WInv, Worked
  <2>3. QED
    BY <2>1, <2>2, PassedIdles
<1>3. QED
  BY <1>1, <1>2, WorkedKeeps, SpecTInv, PTL DEF Spec
=============================================================================
