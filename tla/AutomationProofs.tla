-------------------------- MODULE AutomationProofs --------------------------
(* For any creators, slots, rooms and crashes: an automatic start has its   *)
(* claim in the file, a room is consumed only when it had a recording, and  *)
(* no LIVE is started again while the job of its start is on record.        *)
EXTENDS Automation, WellFoundedInduction, TLAPS

Attempting == {"start", "skip", "halt", "promote"}
Working == {"apply", "classify", "select"} \cup Attempting

Claims == [creator : Creators, room : RoomNumbers, out : Nat \ {0}, prior : Nat]
States == [consumed : [Creators -> RoomNumbers], claim : Claims \cup {NoClaim}]
Recordings ==
  [phase : {"active", "blocked", "settled"}, creator : Creators, session : Nat,
   room : RoomNumbers, expected : RoomNumbers, out : Nat, broken : BOOLEAN]
Idle ==
  [phase : {"idle"}, creator : {0}, session : {0}, room : {0}, expected : {0},
   out : {0}, broken : BOOLEAN]
Slots == Idle \cup Recordings

Typed ==
  /\ world \in [Creators -> [room : RoomNumbers, live : BOOLEAN]]
  /\ slots \in [SlotIds -> Slots]
  /\ obs \in [Creators -> [state : {"unknown", "offline", "live"},
                           room : RoomNumbers]]
  /\ pc \in {"load", "poll"} \cup Working
  /\ todo \in SUBSET Creators
  /\ state \in States
  /\ disk \in States
  /\ sessions \in Nat
  /\ taken \in [Creators -> [RoomNumbers -> SUBSET Nat]]
  /\ recorded \in [Creators -> SUBSET RoomNumbers]

(* While the coordinator works, what it remembers is in the file; between   *)
(* its attempts no claim is pending.                                        *)
Synced ==
  /\ pc # "poll" => operational /\ ~stopping
  /\ operational /\ pc # "load" => state = disk
  /\ pc \in Attempting => state.claim # NoClaim
  /\ operational /\ pc \in {"poll", "apply", "classify", "select"}
       => state.claim = NoClaim

TInv == Typed /\ Synced

-----------------------------------------------------------------------------
(* Helpers.                                                                 *)

LEMMA MinIn ==
  ASSUME NEW S \in SUBSET Nat, S # {}
  PROVE  /\ Min(S) \in S
         /\ \E x \in S : \A y \in S : x <= y
<1> DEFINE Less == {p \in Nat \X Nat : p[1] < p[2]}
<1>1. IsWellFoundedOn(Less, Nat)
  BY NatLessThanWellFounded DEF OpToRel
<1>2. PICK x \in S : \A y \in S : <<y, x>> \notin Less
  BY <1>1, WFMin
<1>3. ASSUME NEW y \in S, ~(x <= y) PROVE FALSE
  <2>1. y < x /\ x \in Nat /\ y \in Nat
    BY <1>3
  <2>2. <<y, x>> \in Nat \X Nat /\ <<y, x>>[1] < <<y, x>>[2]
    BY <2>1
  <2> QED
    BY <1>2, <2>2
<1> QED
  BY <1>3 DEF Min

LEMMA OutputAdded ==
  ASSUME NEW C, NEW R, NEW f \in [C -> [R -> SUBSET Nat]], NEW c \in C, NEW r \in R,
         NEW o \in Nat, NEW g, g = [f EXCEPT ![c][r] = @ \cup {o}]
  PROVE  /\ g \in [C -> [R -> SUBSET Nat]]
         /\ \A d \in C, q \in R :
              g[d][q] = IF d = c /\ q = r THEN f[c][r] \cup {o} ELSE f[d][q]
<1>1. f[c] \in [R -> SUBSET Nat] /\ f[c][r] \in SUBSET Nat
  OBVIOUS
<1>2. [f[c] EXCEPT ![r] = f[c][r] \cup {o}] \in [R -> SUBSET Nat]
  BY <1>1
<1>3. g = [f EXCEPT ![c] = [f[c] EXCEPT ![r] = f[c][r] \cup {o}]]
  OBVIOUS
<1> QED
  BY <1>2, <1>3

LEMMA Numbers ==
  /\ RoomNumbers \subseteq Nat /\ 0 \in RoomNumbers
  /\ SlotIds \subseteq Nat
  /\ Creators \subseteq Nat /\ 0 \notin Creators
  BY BoundsAssumption, SizeAssumption, CreatorsAssumption DEF RoomNumbers, SlotIds

(* The manager selects the first slot it offers.                            *)
LEMMA SomeSelected ==
  ASSUME \E s \in SlotIds : Offered(s)
  PROVE  (CHOOSE s \in SlotIds : Selected(s)) \in SlotIds
<1> DEFINE S == {s \in SlotIds : Offered(s)}
<1>1. S \in SUBSET Nat /\ S # {}
  BY Numbers
<1>2. PICK s \in S : \A t \in S : s <= t
  BY <1>1, MinIn
<1> QED
  BY <1>2 DEF Selected

(* _replace_state, in its two outcomes.                                     *)
Saved(new, next, rest) ==
  /\ disk' = new /\ state' = new /\ pc' = next /\ todo' = rest
  /\ operational' = operational
Failed(new) ==
  /\ disk' \in {disk, new} /\ state' = state
  /\ operational' = FALSE /\ pc' = "poll" /\ todo' = {}

LEMMA ReplaceEnds ==
  ASSUME NEW new, NEW next, NEW rest, Replace(new, next, rest)
  PROVE  Saved(new, next, rest) \/ Failed(new)
  BY DEF Replace, Saved, Failed, EndCycle

(* What the coordinator writes.                                             *)
LEMMA Written ==
  ASSUME NEW s \in States
  PROVE  /\ Cleared(s) \in States
         /\ Cleared(s).claim = NoClaim /\ Cleared(s).consumed = s.consumed
         /\ s.claim # NoClaim =>
              /\ Promoted(s) \in States
              /\ Promoted(s).claim = NoClaim
              /\ Promoted(s).consumed =
                   [s.consumed EXCEPT ![s.claim.creator] = s.claim.room]
              /\ s.claim \in Claims
  BY DEF Cleared, Promoted, States, Claims

LEMMA RearmedTyped ==
  ASSUME Typed, NEW c \in Creators
  PROVE  Rearmed(c) \in RoomNumbers
  BY Numbers DEF Typed, Rearmed, States

LEMMA StartedTyped ==
  ASSUME sessions \in Nat, NEW c \in Creators, NEW e \in RoomNumbers,
         NEW o \in Nat, NEW p \in {"active", "settled"}
  PROVE  Started(c, e, o, p) \in Slots
  BY Numbers DEF Started, Slots, Idle, Recordings

(* A slot keeps its creator through what its worker does.                   *)
LEMMA SlotKept ==
  ASSUME NEW x \in Slots
  PROVE  /\ [x EXCEPT !.broken = TRUE] \in Slots
         /\ x.phase = "active" => \A r \in RoomNumbers : [x EXCEPT !.room = r] \in Slots
         /\ x.phase = "active" => [x EXCEPT !.phase = "settled"] \in Slots
         /\ x.phase = "active" => [x EXCEPT !.phase = "blocked"] \in Slots
         /\ [x EXCEPT !.broken = FALSE,
                      !.phase = IF @ = "blocked" THEN "active" ELSE @] \in Slots
         /\ x.phase # "idle" => x.creator \in Creators
  BY DEF Slots, Idle, Recordings

(* The claim of the next creator, while a slot is offered.                  *)
LEMMA SelectClaims ==
  ASSUME Typed, todo # {}, \E s \in SlotIds : Offered(s)
  PROVE  /\ Min(todo) \in todo /\ Min(todo) \in Creators
         /\ ClaimFor(Min(todo)) \in Claims /\ ClaimFor(Min(todo)) # NoClaim
<1> DEFINE c == Min(todo)
<1>1. c \in todo /\ c \in Creators
  BY MinIn, Numbers DEF Typed
<1>2. Fingerprint \in Nat
  <2>1. slots[CHOOSE s \in SlotIds : Selected(s)] \in Slots
    BY SomeSelected DEF Typed
  <2> QED
    BY <2>1 DEF Fingerprint, Slots, Idle, Recordings
<1>3. obs[c].room \in RoomNumbers
  <2>1. obs[c] \in [state : {"unknown", "offline", "live"}, room : RoomNumbers]
    BY <1>1 DEF Typed
  <2> QED
    BY <2>1
<1>4. sessions + 1 \in Nat \ {0}
  BY DEF Typed
<1> HIDE DEF c
<1>5. ClaimFor(c) \in Claims
  BY <1>1, <1>2, <1>3, <1>4 DEF ClaimFor, Claims
<1>6. ClaimFor(c).creator # NoClaim.creator
  BY <1>1, Numbers DEF ClaimFor, NoClaim
<1> QED
  BY <1>1, <1>5, <1>6 DEF c

LEMMA InitTInv == Init => TInv
<1> SUFFICES ASSUME Init PROVE TInv
  OBVIOUS
<1>1. NoClaim \notin Claims
  BY Numbers DEF NoClaim, Claims
<1>2. Empty \in States
  BY Numbers DEF Empty, States
<1>3. IdleSlot \in Slots
  BY DEF IdleSlot, Slots, Idle
<1> QED
  BY <1>2, <1>3, Numbers
  DEF Init, TInv, Typed, Synced, Working, Attempting, Unknown, Empty

-----------------------------------------------------------------------------
(* Types.                                                                   *)

(* What the environment does leaves the coordinator alone.                  *)
Aside == UNCHANGED <<pc, todo, state, disk, operational, stopping>>

LEMMA EnvironmentTyped ==
  ASSUME Typed,
         \/ \E c \in Creators : Creator(c) \/ Poll(c)
         \/ \E s \in SlotIds : \/ PublishRoom(s) \/ JobEnds(s) \/ ManualRejected(s)
                               \/ \E c \in Creators : ManualStart(s, c)
  PROVE  Typed' /\ Aside
<1> USE Numbers DEF Typed, Aside
<1>1. ASSUME NEW c \in Creators, Creator(c) PROVE Typed' /\ Aside
  <2>1. CASE EndLive(c)
    <3>1. world' = [world EXCEPT ![c].live = FALSE]
      BY <2>1 DEF EndLive
    <3>2. world' \in [Creators -> [room : RoomNumbers, live : BOOLEAN]]
      BY ONLY <3>1, world \in [Creators -> [room : RoomNumbers, live : BOOLEAN]]
    <3> QED
      BY <1>1, <3>2 DEF Creator, monitor, history
  <2>2. CASE GoLive(c)
    <3>1. PICK r \in 1 .. MaxRooms : world' = [world EXCEPT ![c] = [room |-> r, live |-> TRUE]]
      BY <2>2 DEF GoLive
    <3>2. r \in RoomNumbers
      BY BoundsAssumption DEF RoomNumbers
    <3> QED
      BY <1>1, <3>1, <3>2 DEF Creator, monitor, history
  <2> QED
    BY <1>1, <2>1, <2>2 DEF Creator
<1>2. ASSUME NEW c \in Creators, Poll(c) PROVE Typed' /\ Aside
  BY <1>2 DEF Poll, Offline, Unknown, history
<1>3. ASSUME NEW s \in SlotIds, PublishRoom(s) PROVE Typed' /\ Aside
  <2>1. slots[s].creator \in Creators /\ slots[s].phase = "active"
    BY <1>3, SlotKept DEF PublishRoom
  <2>2. world[slots[s].creator].room \in RoomNumbers
    BY <2>1
  <2> QED
    BY <1>3, <2>1, <2>2, SlotKept DEF PublishRoom, monitor
<1>4. ASSUME NEW s \in SlotIds, JobEnds(s) PROVE Typed' /\ Aside
  <2>1. slots' \in [SlotIds -> Slots]
    <3>1. CASE slots' = [slots EXCEPT ![s].phase = "settled"]
      BY <1>4, <3>1, SlotKept DEF JobEnds
    <3>2. CASE slots' = [slots EXCEPT ![s].phase = "blocked"]
      BY <1>4, <3>2, SlotKept DEF JobEnds
    <3> QED
      BY <1>4, <3>1, <3>2 DEF JobEnds
  <2> QED
    BY <1>4, <2>1 DEF JobEnds, monitor, history
<1>5. ASSUME NEW s \in SlotIds, ManualRejected(s) PROVE Typed' /\ Aside
  BY <1>5, SlotKept DEF ManualRejected, monitor, history
<1>6. ASSUME NEW s \in SlotIds, NEW c \in Creators, ManualStart(s, c)
      PROVE  Typed' /\ Aside
  <2>1. Started(c, 0, 0, "active") \in Slots
    BY StartedTyped
  <2> QED
    BY <1>6, <2>1 DEF ManualStart, monitor, history
<1> QED
  BY <1>1, <1>2, <1>3, <1>4, <1>5, <1>6

(* A save keeps memory and file together, or ends the coordinator's work.   *)
LEMMA ReplaceTInv ==
  ASSUME TInv, pc # "poll", NEW new \in States, NEW next \in {"poll"} \cup Working,
         NEW rest \in SUBSET Creators, Replace(new, next, rest),
         next \in Attempting <=> new.claim # NoClaim,
         UNCHANGED <<world, slots, obs, stopping, sessions, recorded>>,
         taken' \in [Creators -> [RoomNumbers -> SUBSET Nat]]
  PROVE  TInv'
<1>1. CASE Saved(new, next, rest)
  BY <1>1 DEF Saved, TInv, Typed, Synced, Working, Attempting
<1>2. CASE Failed(new)
  BY <1>2 DEF Failed, TInv, Typed, Synced, Working, Attempting
<1> QED
  BY <1>1, <1>2, ReplaceEnds

LEMMA DisableTInv ==
  ASSUME TInv, pc # "poll", Disable,
         UNCHANGED <<world, slots, obs, stopping, sessions, taken, recorded>>
  PROVE  TInv'
  BY DEF Disable, EndCycle, TInv, Typed, Synced, Working, Attempting

LEMMA CoordinatorTInv ==
  ASSUME TInv, Coordinator
  PROVE  TInv'
<1> USE Numbers
<1>1. CASE CycleCompleted
  BY <1>1 DEF CycleCompleted, TInv, Typed, Synced, Working, Attempting, history
<1>2. CASE Apply
  <2> DEFINE new == [state EXCEPT !.consumed = [c \in Creators |-> Rearmed(c)]]
  <2>1. new \in States /\ new.claim = NoClaim /\ state.claim = NoClaim
    BY <1>2, RearmedTyped DEF Apply, TInv, Typed, Synced, States, Working
  <2>2. taken' \in [Creators -> [RoomNumbers -> SUBSET Nat]]
    BY <1>2 DEF Apply, TInv, Typed
  <2>3. UNCHANGED <<world, slots, obs, stopping, sessions, recorded>>
    BY <1>2 DEF Apply, Coordinating
  <2>4. CASE Disable /\ UNCHANGED taken
    BY <1>2, <2>3, <2>4, DisableTInv DEF Apply
  <2>5. CASE pc' = "classify" /\ UNCHANGED <<todo, state, disk, operational>>
    BY <1>2, <2>2, <2>3, <2>5, <2>1 DEF Apply, TInv, Typed, Synced, Working, Attempting
  <2>6. CASE Replace(new, "classify", {})
    <3> HIDE DEF new
    <3> QED
      BY <1>2, <2>1, <2>2, <2>3, <2>6, ReplaceTInv DEF Apply, Working, Attempting
  <2> QED
    BY <1>2, <2>4, <2>5, <2>6 DEF Apply
<1>3. CASE Classify
  BY <1>3 DEF Classify, Coordinating, TInv, Typed, Synced, Working, Attempting, history
<1>4. CASE Select
  <2>1. UNCHANGED <<world, slots, obs, stopping, sessions, taken, recorded>>
    BY <1>4 DEF Select, Coordinating, history
  <2>2. CASE EndCycle /\ UNCHANGED <<state, disk, operational>>
    BY <1>4, <2>1, <2>2 DEF Select, EndCycle, TInv, Typed, Synced, Working, Attempting
  <2>3. CASE todo' \subseteq todo /\ UNCHANGED <<pc, state, disk, operational>>
    BY <1>4, <2>1, <2>3 DEF Select, TInv, Typed, Synced, Working, Attempting
  <2>4. ASSUME todo # {}, \E s \in SlotIds : Offered(s),
               Replace([state EXCEPT !.claim = ClaimFor(Min(todo))], "start",
                       todo \ {Min(todo)})
        PROVE  TInv'
    <3> DEFINE new == [state EXCEPT !.claim = ClaimFor(Min(todo))]
    <3>1. new \in States /\ new.claim # NoClaim
      BY <2>4, SelectClaims DEF TInv, Typed, States
    <3>2. Replace(new, "start", todo \ {Min(todo)})
      BY <2>4
    <3>3. /\ pc # "poll" /\ taken' \in [Creators -> [RoomNumbers -> SUBSET Nat]]
          /\ todo \ {Min(todo)} \in SUBSET Creators
      BY <1>4, <2>1 DEF Select, TInv, Typed
    <3> HIDE DEF new
    <3> QED
      BY <2>1, <3>1, <3>2, <3>3, ReplaceTInv DEF Working, Attempting
  <2> QED
    BY <1>4, <2>2, <2>3, <2>4 DEF Select
<1>5. CASE Attempt
  <2>1. /\ UNCHANGED <<world, obs, stopping, state, disk, operational>>
        /\ pc = "start" /\ pc' \in {"skip", "halt", "promote"} /\ todo' = todo
    BY <1>5 DEF Attempt, Coordinating, StartAccepted, StartDuplicate, StartRejected
  <2>2. state.claim \in Claims
    BY <2>1 DEF TInv, Typed, Synced, States, Attempting
  <2>3. /\ \A p \in {"active", "settled"}, e \in {0, state.claim.room} :
             Started(state.claim.creator, e, state.claim.out, p) \in Slots
    BY <2>2, StartedTyped DEF Claims, TInv, Typed
  <2>4. slots' \in [SlotIds -> Slots]
    <3>1. CASE StartAccepted
      BY <3>1, <2>3 DEF StartAccepted, TInv, Typed
    <3>2. CASE StartDuplicate
      BY <3>2 DEF StartDuplicate, TInv, Typed
    <3>3. CASE StartRejected
      <4>1. CASE UNCHANGED slots
        BY <4>1 DEF TInv, Typed
      <4>2. ASSUME NEW s \in SlotIds, slots' = [slots EXCEPT ![s].broken = TRUE]
            PROVE  slots' \in [SlotIds -> Slots]
        BY <4>2, SlotKept DEF TInv, Typed
      <4>3. ASSUME NEW s \in SlotIds,
                   slots' = [slots EXCEPT ![s] =
                     Started(state.claim.creator, 0, state.claim.out, "settled")]
            PROVE  slots' \in [SlotIds -> Slots]
        BY <4>3, <2>3 DEF TInv, Typed
      <4> QED
        BY <3>3, <4>1, <4>2, <4>3 DEF StartRejected
    <3> QED
      BY <1>5, <3>1, <3>2, <3>3 DEF Attempt
  <2>5. sessions' \in Nat
    BY <1>5 DEF Attempt, StartAccepted, StartDuplicate, StartRejected, TInv, Typed
  <2>6. /\ taken' \in [Creators -> [RoomNumbers -> SUBSET Nat]]
        /\ recorded' \in [Creators -> SUBSET RoomNumbers]
    <3>1. state.claim.creator \in Creators /\ state.claim.room \in RoomNumbers
      BY <2>2 DEF Claims
    <3>2. taken' \in [Creators -> [RoomNumbers -> SUBSET Nat]]
      <4>1. CASE taken' = [taken EXCEPT ![state.claim.creator][state.claim.room] =
                                          @ \cup {state.claim.out}]
        <5>1. taken \in [Creators -> [RoomNumbers -> SUBSET Nat]]
          BY DEF TInv, Typed
        <5> HIDE Numbers
        <5> DEFINE k == state.claim.creator
                   r == state.claim.room
                   o == state.claim.out
        <5>2. /\ taken' = [taken EXCEPT ![k][r] = @ \cup {o}]
              /\ k \in Creators /\ r \in RoomNumbers /\ o \in Nat
          BY <2>2, <3>1, <4>1 DEF Claims
        <5> HIDE DEF k, r, o
        <5> QED
          BY ONLY <5>1, <5>2, OutputAdded
      <4>2. CASE UNCHANGED taken
        BY <4>2 DEF TInv, Typed
      <4> QED
        BY <1>5, <4>1, <4>2 DEF Attempt
    <3>3. recorded' \in [Creators -> SUBSET RoomNumbers]
      <4>1. CASE recorded' = recorded
        BY <4>1 DEF TInv, Typed
      <4>2. CASE recorded' = [recorded EXCEPT ![state.claim.creator] = @ \cup {state.claim.room}]
        BY <4>2, <3>1 DEF TInv, Typed
      <4> QED
        BY <1>5, <4>1, <4>2 DEF Attempt
    <3> QED
      BY <3>2, <3>3
  <2> QED
    BY <2>1, <2>4, <2>5, <2>6 DEF TInv, Typed, Synced, Working, Attempting
<1>6. CASE Rejected
  <2> DEFINE new == Cleared(state)
  <2>1. new \in States /\ new.claim = NoClaim
    BY Written DEF TInv, Typed
  <2>2. /\ UNCHANGED <<world, slots, obs, stopping, sessions, recorded>>
        /\ taken' \in [Creators -> [RoomNumbers -> SUBSET Nat]]
        /\ pc # "poll" /\ todo \in SUBSET Creators
    BY <1>6 DEF Rejected, Coordinating, history, TInv, Typed
  <2>3. Replace(new, "select", todo) \/ Replace(new, "poll", {})
    BY <1>6 DEF Rejected
  <2> HIDE DEF new
  <2>4. CASE Replace(new, "select", todo)
    BY <2>1, <2>2, <2>4, ReplaceTInv DEF Working, Attempting
  <2>5. CASE Replace(new, "poll", {})
    <3>1. "poll" \in {"poll"} \cup Working /\ "poll" \notin Attempting
      BY DEF Working, Attempting
    <3>2. {} \in SUBSET Creators
      OBVIOUS
    <3> QED
      BY <2>1, <2>2, <2>5, <3>1, <3>2, ReplaceTInv
  <2> QED
    BY <2>3, <2>4, <2>5
<1>7. CASE Promote
  <2> DEFINE new == Promoted(state)
  <2>1. new \in States /\ new.claim = NoClaim
    BY <1>7, Written DEF Promote, TInv, Typed, Synced, Attempting
  <2>2. /\ UNCHANGED <<world, slots, obs, stopping, sessions, recorded>>
        /\ taken' \in [Creators -> [RoomNumbers -> SUBSET Nat]]
        /\ pc # "poll" /\ todo \in SUBSET Creators
    BY <1>7 DEF Promote, Coordinating, history, TInv, Typed
  <2>3. Replace(new, "select", todo)
    BY <1>7 DEF Promote
  <2> HIDE DEF new
  <2> QED
    BY <2>1, <2>2, <2>3, ReplaceTInv DEF Working, Attempting
<1>8. CASE Load
  <2> DEFINE new == IF MatchesClaim(disk.claim) THEN Promoted(disk) ELSE Cleared(disk)
  <2>1. disk.claim # NoClaim => new \in States /\ new.claim = NoClaim
    BY Written DEF TInv, Typed
  <2> QED
    BY <1>8, <2>1
    DEF Load, Disable, EndCycle, Coordinating, history, TInv, Typed, Synced, Working, Attempting
<1> QED
  BY <1>1, <1>2, <1>3, <1>4, <1>5, <1>6, <1>7, <1>8 DEF Coordinator

LEMMA RestartTInv ==
  ASSUME TInv, Restart
  PROVE  TInv'
<1>1. slots' \in [SlotIds -> Slots]
  BY SlotKept DEF Restart, TInv, Typed
<1>2. Empty \in States
  BY Numbers DEF Empty, States
<1> QED
  BY <1>1, <1>2, Numbers
  DEF Restart, history, TInv, Typed, Synced, Working, Attempting, Unknown

LEMMA StepTInv == TInv /\ [Next]_vars => TInv'
<1> SUFFICES ASSUME TInv, [Next]_vars PROVE TInv'
  OBVIOUS
<1>1. CASE \/ \E c \in Creators : Creator(c) \/ Poll(c)
           \/ \E s \in SlotIds : \/ PublishRoom(s) \/ JobEnds(s) \/ ManualRejected(s)
                                 \/ \E c \in Creators : ManualStart(s, c)
  BY <1>1, EnvironmentTyped DEF TInv, Synced, Aside
<1>2. CASE Stop
  BY <1>2 DEF Stop, monitor, history, TInv, Typed, Synced, Working, Attempting
<1>3. CASE UNCHANGED vars
  BY <1>3 DEF vars, monitor, history, TInv, Typed, Synced
<1> QED
  BY <1>1, <1>2, <1>3, CoordinatorTInv, RestartTInv DEF Next

(* What the coordinator remembers is in the state file whenever it acts     *)
(* (automation.py _replace_state, _load_and_reconcile).                     *)
THEOREM Invariance == Spec => []TInv
BY InitTInv, StepTInv, PTL DEF Spec

(* Only an attempt adds an output; a re-arm takes a creator's outputs away. *)
LEMMA OnlyAttemptsTake ==
  ASSUME [Next]_vars, NEW c \in Creators, NEW r \in RoomNumbers,
         ~(taken'[c][r] \subseteq taken[c][r])
  PROVE  Attempt /\ taken' # taken
<1>1. taken' # taken
  OBVIOUS
<1>2. CASE Apply
  <2>1. taken' = [d \in Creators |-> IF obs[d].state = "offline"
                    THEN [q \in RoomNumbers |-> {}] ELSE taken[d]]
    BY <1>1, <1>2 DEF Apply
  <2>2. taken'[c] = IF obs[c].state = "offline"
                      THEN [q \in RoomNumbers |-> {}] ELSE taken[c]
    BY <2>1
  <2> QED
    BY <2>2
<1> QED
  BY <1>1, <1>2
  DEF Next, Coordinator, CycleCompleted, Classify, Select, Rejected, Promote, Load,
      Stop, Restart, Creator, Poll, PublishRoom, JobEnds, ManualRejected, ManualStart,
      vars, history

LEMMA ClaimedStep ==
  ASSUME TInv, [Next]_vars, NEW c \in Creators, NEW r \in RoomNumbers,
         ~(taken'[c][r] \subseteq taken[c][r])
  PROVE  operational /\ ~stopping /\ disk.claim.creator = c /\ disk.claim.room = r
<1>1. Attempt /\ taken' # taken
  BY OnlyAttemptsTake
<1>2. /\ pc = "start"
      /\ taken' = [taken EXCEPT ![state.claim.creator][state.claim.room] =
                                  @ \cup {state.claim.out}]
  BY <1>1 DEF Attempt, StartAccepted
<1>3. operational /\ ~stopping /\ state = disk /\ disk.claim \in Claims
  BY <1>2 DEF TInv, Typed, Synced, States, Attempting
<1>4. disk.claim.creator = c /\ disk.claim.room = r
  <2> DEFINE k == state.claim.creator
             q == state.claim.room
             o == state.claim.out
  <2>1. k \in Creators /\ q \in RoomNumbers /\ o \in Nat
    BY <1>3 DEF Claims
  <2>2. taken \in [Creators -> [RoomNumbers -> SUBSET Nat]]
    BY DEF TInv, Typed
  <2>3. taken' = [taken EXCEPT ![k][q] = @ \cup {o}]
    BY <1>2
  <2>4. k = c /\ q = r
    <3> HIDE DEF k, q, o
    <3> QED
      BY ONLY <2>1, <2>2, <2>3, OutputAdded, c \in Creators, r \in RoomNumbers,
          ~(taken'[c][r] \subseteq taken[c][r])
  <2> QED
    BY <1>3, <2>4
<1> QED
  BY <1>3, <1>4

(* An automatic start is made while the coordinator works and was not       *)
(* stopped, and its claim is in the file (automation.py _attempt).          *)
THEOREM Claimed == Spec => StartsClaimed
<1>1. TInv /\ [Next]_vars
        => [\A c \in Creators, r \in RoomNumbers :
              ~(taken'[c][r] \subseteq taken[c][r])
                => /\ operational /\ ~stopping
                   /\ disk.claim.creator = c /\ disk.claim.room = r]_vars
  BY ClaimedStep
<1> QED
  BY <1>1, Invariance, PTL DEF Spec, StartsClaimed

-----------------------------------------------------------------------------
(* Recorded rooms.                                                          *)

(* A slot's own output is no newer than the latest session; one that has    *)
(* the claim's output was started for it, and the room of a recording is    *)
(* published before it is seen.                                             *)
Numbered ==
  /\ \A s \in SlotIds : slots[s].out <= sessions
  /\ disk.claim.out <= sessions + 1
Known ==
  \A s \in SlotIds :
    /\ disk.claim # NoClaim /\ slots[s].out = disk.claim.out
       /\ slots[s].creator = disk.claim.creator
         => disk.claim.room \in recorded[disk.claim.creator]
    /\ slots[s].room # 0 => slots[s].room \in recorded[slots[s].creator]
Kept ==
  \A c \in Creators : disk.consumed[c] # 0 => disk.consumed[c] \in recorded[c]
Began == pc = "promote" => state.claim.room \in recorded[state.claim.creator]

RInv == Numbered /\ Known /\ Kept /\ Began

LEMMA InitRInv == Init => RInv
  BY Numbers
  DEF Init, RInv, Numbered, Known, Kept, Began, IdleSlot, Empty, NoClaim

(* Records stay, and slots that keep their output and creator with them.    *)
LEMMA RecordsGrow ==
  ASSUME TInv, RInv, sessions <= sessions', sessions' \in Nat,
         disk' = disk, state' = state, pc' = "promote" => pc = "promote",
         \A c \in Creators : recorded[c] \subseteq recorded'[c],
         \A s \in SlotIds :
           \/ /\ slots'[s].out = slots[s].out /\ slots'[s].creator = slots[s].creator
              /\ slots'[s].room = slots[s].room \/ slots'[s].room \in recorded'[slots[s].creator]
           \/ slots'[s].out = 0 /\ slots'[s].room = 0
  PROVE  RInv'
<1> USE Numbers
<1>1. /\ \A s \in SlotIds : slots[s] \in Slots
      /\ disk.claim \in Claims \cup {NoClaim}
      /\ pc = "promote" => state.claim \in Claims
      /\ sessions \in Nat
  BY DEF TInv, Typed, Synced, States, Attempting
<1>2. Numbered'
  BY <1>1 DEF RInv, Numbered, Slots, Idle, Recordings, Claims, NoClaim
<1>3. Known'
  <2> SUFFICES ASSUME NEW s \in SlotIds
               PROVE  /\ disk.claim # NoClaim /\ slots'[s].out = disk.claim.out
                         /\ slots'[s].creator = disk.claim.creator
                           => disk.claim.room \in recorded'[disk.claim.creator]
                      /\ slots'[s].room # 0 => slots'[s].room \in recorded'[slots'[s].creator]
    BY DEF Known
  <2>1. slots[s].room # 0 => slots[s].creator \in Creators
    BY <1>1 DEF Slots, Idle, Recordings
  <2> QED
    BY <1>1, <2>1 DEF RInv, Known, Claims
<1>4. Kept'
  BY DEF RInv, Kept
<1>5. Began'
  BY <1>1 DEF RInv, Began, Claims
<1> QED
  BY <1>2, <1>3, <1>4, <1>5 DEF RInv

LEMMA EnvironmentRInv ==
  ASSUME TInv, RInv,
         \/ \E c \in Creators : Creator(c) \/ Poll(c)
         \/ \E s \in SlotIds : \/ PublishRoom(s) \/ JobEnds(s) \/ ManualRejected(s)
                               \/ \E c \in Creators : ManualStart(s, c)
  PROVE  RInv'
<1> USE Numbers
<1>0. sessions \in Nat /\ slots \in [SlotIds -> Slots] /\ DOMAIN recorded = Creators
  BY DEF TInv, Typed
<1>1. ASSUME NEW c \in Creators, Creator(c) \/ Poll(c) PROVE RInv'
  BY <1>0, <1>1, RecordsGrow DEF Creator, Poll, monitor, history
<1>2. ASSUME NEW s \in SlotIds, PublishRoom(s) PROVE RInv'
  <2> DEFINE c == slots[s].creator
             r == world[c].room
  <2>1. slots' = [slots EXCEPT ![s].room = r] /\ recorded' = [recorded EXCEPT ![c] = @ \cup {r}]
    BY <1>2 DEF PublishRoom
  <2>2. c \in Creators /\ slots[s] \in Recordings
    BY <1>0, <1>2 DEF PublishRoom, Slots, Idle, Recordings
  <2>3. /\ \A d \in Creators : recorded[d] \subseteq recorded'[d]
        /\ r \in recorded'[c]
    BY <1>0, <2>1, <2>2
  <2>4. /\ slots'[s].out = slots[s].out /\ slots'[s].creator = slots[s].creator
        /\ slots'[s].room = r
        /\ \A t \in SlotIds \ {s} : slots'[t] = slots[t]
    BY <1>0, <2>1, <2>2 DEF Recordings
  <2>5. UNCHANGED <<sessions, disk, state, pc>>
    BY <1>2 DEF PublishRoom
  <2> HIDE DEF r
  <2> QED
    BY <1>0, <2>3, <2>4, <2>5, RecordsGrow
<1>3. ASSUME NEW s \in SlotIds, JobEnds(s) \/ ManualRejected(s) PROVE RInv'
  <2>1. \A t \in SlotIds : /\ slots'[t].out = slots[t].out
                           /\ slots'[t].creator = slots[t].creator
                           /\ slots'[t].room = slots[t].room
    BY <1>0, <1>3 DEF JobEnds, ManualRejected, Slots, Idle, Recordings
  <2>2. UNCHANGED <<sessions, disk, state, pc, recorded>>
    BY <1>3 DEF JobEnds, ManualRejected, history
  <2> QED
    BY <1>0, <2>1, <2>2, RecordsGrow
<1>4. ASSUME NEW s \in SlotIds, NEW c \in Creators, ManualStart(s, c) PROVE RInv'
  <2>1. /\ slots'[s].out = 0 /\ slots'[s].room = 0
        /\ \A t \in SlotIds \ {s} : slots'[t] = slots[t]
    BY <1>0, <1>4 DEF ManualStart, Started
  <2>2. UNCHANGED <<disk, state, pc, recorded>> /\ sessions' = sessions + 1
    BY <1>4 DEF ManualStart, history
  <2> QED
    BY <1>0, <2>1, <2>2, RecordsGrow
<1> QED
  BY <1>1, <1>2, <1>3, <1>4

(* What a save writes may be in the file or not; both are sound.            *)
LEMMA ReplaceRInv ==
  ASSUME TInv, RInv, NEW new \in States, NEW next, NEW rest,
         Replace(new, next, rest),
         UNCHANGED <<slots, sessions, recorded>>, next # "promote",
         \/ new.claim = NoClaim
         \/ new.claim.out = sessions + 1,
         \A c \in Creators : new.consumed[c] # 0 => new.consumed[c] \in recorded[c]
  PROVE  RInv'
<1> USE Numbers
<1>1. /\ \A s \in SlotIds : slots[s].out \in Nat
      /\ sessions \in Nat /\ state \in States
  BY DEF TInv, Typed, Slots, Idle, Recordings
<1>2. disk' \in {disk, new} /\ pc' # "promote"
  BY ReplaceEnds DEF Saved, Failed
<1>3. Numbered'
  BY <1>1, <1>2 DEF RInv, Numbered, NoClaim
<1>4. Known'
  <2>1. CASE disk' = disk
    BY <2>1 DEF RInv, Known
  <2>2. CASE disk' = new
    BY <1>1, <2>2 DEF RInv, Numbered, Known, NoClaim
  <2> QED
    BY <1>2, <2>1, <2>2
<1>5. Kept'
  BY <1>2 DEF RInv, Kept
<1> QED
  BY <1>2, <1>3, <1>4, <1>5 DEF RInv, Began

LEMMA SameRecords ==
  ASSUME TInv, RInv, UNCHANGED <<slots, sessions, recorded, disk>>, pc' # "promote"
  PROVE  RInv'
  BY DEF RInv, Numbered, Known, Kept, Began

LEMMA AttemptRInv ==
  ASSUME TInv, RInv, Attempt
  PROVE  RInv'
<1> USE Numbers
<1> DEFINE c == state.claim.creator
           r == state.claim.room
<1>1. /\ pc = "start" /\ state = disk /\ disk' = disk /\ state' = state
      /\ disk.claim \in Claims
  BY DEF Attempt, StartAccepted, StartDuplicate, StartRejected, Coordinating,
         TInv, Typed, Synced, States, Attempting
<1>2. /\ sessions \in Nat /\ slots \in [SlotIds -> Slots]
      /\ recorded \in [Creators -> SUBSET RoomNumbers]
  BY DEF TInv, Typed
<1>3. CASE sessions' = sessions
  <2>1. recorded' = recorded /\ pc' # "promote"
    BY <1>2, <1>3 DEF Attempt, StartAccepted, StartDuplicate, StartRejected
  <2>2. \A t \in SlotIds : /\ slots'[t].out = slots[t].out
                           /\ slots'[t].creator = slots[t].creator
                           /\ slots'[t].room = slots[t].room
    BY <1>2, <1>3
    DEF Attempt, StartAccepted, StartDuplicate, StartRejected, Slots, Idle, Recordings
  <2> QED
    BY <1>1, <1>2, <1>3, <2>1, <2>2, RecordsGrow
<1>4. CASE sessions' # sessions
  <2>1. /\ sessions' = sessions + 1
        /\ recorded' = [recorded EXCEPT ![c] = @ \cup {r}]
    BY <1>2, <1>4 DEF Attempt, StartAccepted, StartDuplicate, StartRejected
  <2>2. PICK s \in SlotIds :
          /\ slots'[s].out = disk.claim.out /\ slots'[s].creator = c /\ slots'[s].room = 0
          /\ \A t \in SlotIds \ {s} : slots'[t] = slots[t]
    BY <1>1, <1>2, <1>4
    DEF Attempt, StartAccepted, StartDuplicate, StartRejected, Started
  <2>3. /\ c \in Creators /\ r \in recorded'[c]
        /\ \A d \in Creators : recorded[d] \subseteq recorded'[d]
    BY <1>1, <1>2, <2>1 DEF Claims
  <2>4. \A t \in SlotIds : /\ slots[t].out \in Nat
                           /\ slots[t].room # 0 => slots[t].creator \in Creators
    BY <1>2 DEF Slots, Idle, Recordings
  <2>5. Numbered'
    BY <1>1, <1>2, <2>1, <2>2, <2>4 DEF RInv, Numbered, Claims
  <2>6. Known'
    <3> SUFFICES ASSUME NEW t \in SlotIds
                 PROVE  /\ disk.claim.room \in recorded'[disk.claim.creator]
                        /\ slots'[t].room # 0 => slots'[t].room \in recorded'[slots'[t].creator]
      BY <1>1 DEF Known
    <3>1. CASE t = s
      BY <3>1, <1>1, <2>2, <2>3
    <3>2. CASE t # s
      BY <3>2, <1>1, <2>2, <2>3, <2>4 DEF RInv, Known
    <3> QED
      BY <3>1, <3>2
  <2>7. Kept' /\ Began'
    BY <1>1, <2>3 DEF RInv, Kept, Began
  <2> QED
    BY <2>5, <2>6, <2>7 DEF RInv
<1> QED
  BY <1>3, <1>4

LEMMA CoordinatorRInv ==
  ASSUME TInv, RInv, Coordinator
  PROVE  RInv'
<1> USE Numbers
<1>0. /\ pc # "poll" => state = disk \/ pc = "load"
      /\ state \in States /\ disk \in States
  BY DEF TInv, Typed, Synced
<1>1. CASE CycleCompleted \/ Classify
  BY <1>1, SameRecords DEF CycleCompleted, Classify, Coordinating, history
<1>2. CASE Apply
  <2> DEFINE new == [state EXCEPT !.consumed = [c \in Creators |-> Rearmed(c)]]
  <2>1. /\ new \in States /\ new.claim = NoClaim
        /\ \A c \in Creators : new.consumed[c] = Rearmed(c)
    BY <1>2, RearmedTyped DEF Apply, TInv, Typed, Synced, States, Working
  <2>2. UNCHANGED <<slots, sessions, recorded>>
    BY <1>2 DEF Apply, Coordinating
  <2>3. ASSUME NEW c \in Creators, Rearmed(c) # 0 PROVE Rearmed(c) \in recorded[c]
    <3>1. CASE obs[c].state = "live" /\ MatchesObservation(c)
      BY <2>3, <3>1 DEF Rearmed, MatchesObservation, RInv, Known
    <3>2. CASE Rearmed(c) = disk.consumed[c]
      BY <2>3, <3>2 DEF RInv, Kept
    <3> QED
      BY <1>0, <1>2, <2>3, <3>1, <3>2 DEF Apply, Rearmed
  <2>4. CASE UNCHANGED disk /\ pc' # "promote"
    BY <2>2, <2>4, SameRecords
  <2>5. CASE Replace(new, "classify", {})
    <3> HIDE DEF new
    <3> QED
      BY <2>1, <2>2, <2>3, <2>5, ReplaceRInv
  <2> QED
    BY <1>2, <2>4, <2>5 DEF Apply, Disable, EndCycle
<1>3. CASE Select
  <2>1. UNCHANGED <<slots, sessions, recorded>>
    BY <1>3 DEF Select, history
  <2>2. CASE UNCHANGED disk /\ pc' # "promote"
    BY <2>1, <2>2, SameRecords
  <2>3. ASSUME todo # {}, \E s \in SlotIds : Offered(s),
               Replace([state EXCEPT !.claim = ClaimFor(Min(todo))], "start",
                       todo \ {Min(todo)})
        PROVE  RInv'
    <3> DEFINE new == [state EXCEPT !.claim = ClaimFor(Min(todo))]
    <3>1. state = disk
      BY <1>0, <1>3 DEF Select
    <3>2. /\ new \in States /\ new.consumed = disk.consumed
          /\ new.claim.out = sessions + 1
      BY <1>0, <2>3, <3>1, SelectClaims DEF States, ClaimFor, TInv
    <3>3. Replace(new, "start", todo \ {Min(todo)})
      BY <2>3
    <3> HIDE DEF new
    <3> QED
      BY <2>1, <3>2, <3>3, ReplaceRInv DEF RInv, Kept
  <2> QED
    BY <1>3, <2>2, <2>3 DEF Select, EndCycle
<1>4. CASE Rejected
  <2> DEFINE new == Cleared(state)
  <2>1. /\ new \in States /\ new.claim = NoClaim /\ new.consumed = disk.consumed
        /\ UNCHANGED <<slots, sessions, recorded>>
    BY <1>0, <1>4, Written DEF Rejected, history
  <2>2. Replace(new, "select", todo) \/ Replace(new, "poll", {})
    BY <1>4 DEF Rejected
  <2> HIDE DEF new
  <2>3. CASE Replace(new, "select", todo)
    BY <2>1, <2>3, ReplaceRInv DEF RInv, Kept
  <2>4. CASE Replace(new, "poll", {})
    BY <2>1, <2>4, ReplaceRInv DEF RInv, Kept
  <2> QED
    BY <2>2, <2>3, <2>4
<1>5. CASE Promote
  <2> DEFINE new == Promoted(state)
  <2>1. /\ new \in States /\ new.claim = NoClaim /\ state.claim \in Claims
        /\ new.consumed = [disk.consumed EXCEPT ![state.claim.creator] = state.claim.room]
        /\ UNCHANGED <<slots, sessions, recorded>>
    BY <1>0, <1>5, Written DEF Promote, history, TInv, Synced, Attempting
  <2>2. \A c \in Creators : new.consumed[c] # 0 => new.consumed[c] \in recorded[c]
    BY <1>0, <1>5, <2>1 DEF Promote, RInv, Kept, Began, Claims, States
  <2>3. Replace(new, "select", todo)
    BY <1>5 DEF Promote
  <2> HIDE DEF new
  <2> QED
    BY <2>1, <2>2, <2>3, ReplaceRInv
<1>6. CASE Load
  <2>1. UNCHANGED <<slots, sessions, recorded>> /\ pc' = "poll"
    BY <1>6 DEF Load, Disable, EndCycle, history
  <2>2. CASE disk' = disk
    BY <2>1, <2>2, SameRecords
  <2>3. CASE disk.claim # NoClaim /\ disk' = Cleared(disk)
    <3>1. disk'.claim = NoClaim /\ disk'.consumed = disk.consumed
      BY <1>0, <2>3, Written
    <3> QED
      BY <2>1, <3>1
      DEF RInv, Numbered, Known, Kept, Began, NoClaim, TInv, Typed, Slots, Idle, Recordings
  <2>4. CASE disk.claim # NoClaim /\ MatchesClaim(disk.claim) /\ disk' = Promoted(disk)
    <3>1. disk.claim.room \in recorded[disk.claim.creator] /\ disk.claim \in Claims
      BY <1>0, <2>4, Written DEF MatchesClaim, RInv, Known
    <3>2. /\ disk'.claim = NoClaim
          /\ disk'.consumed = [disk.consumed EXCEPT ![disk.claim.creator] = disk.claim.room]
      BY <1>0, <2>4, Written
    <3>3. Numbered' /\ Known' /\ Began'
      BY <2>1, <3>2
      DEF RInv, Numbered, Known, Began, NoClaim, TInv, Typed, Slots, Idle, Recordings
    <3>4. Kept'
      BY <1>0, <2>1, <3>1, <3>2 DEF RInv, Kept, States, Claims
    <3> QED
      BY <3>3, <3>4 DEF RInv
  <2> QED
    BY <1>6, <2>2, <2>3, <2>4 DEF Load, Disable
<1>7. CASE Attempt
  BY <1>7, AttemptRInv
<1> QED
  BY <1>1, <1>2, <1>3, <1>4, <1>5, <1>6, <1>7 DEF Coordinator

LEMMA SlotsRestarted ==
  ASSUME slots \in [SlotIds -> Slots], Restart, NEW s \in SlotIds
  PROVE  /\ slots'[s].out = slots[s].out /\ slots'[s].creator = slots[s].creator
         /\ slots'[s].room = slots[s].room /\ slots'[s].session = slots[s].session
<1> DEFINE x == slots[s]
           p == IF x.phase = "blocked" THEN "active" ELSE x.phase
<1>1. slots'[s] = [x EXCEPT !.broken = FALSE, !.phase = p]
  BY DEF Restart
<1>2. x \in Idle \/ x \in Recordings
  BY DEF Slots
<1> HIDE DEF x, p
<1>3. /\ slots'[s].out = x.out /\ slots'[s].creator = x.creator
      /\ slots'[s].room = x.room /\ slots'[s].session = x.session
  BY ONLY <1>1, <1>2 DEF Idle, Recordings
<1> QED
  BY <1>3 DEF x

LEMMA StepRInv == TInv /\ RInv /\ [Next]_vars => RInv'
<1> SUFFICES ASSUME TInv, RInv, [Next]_vars PROVE RInv'
  OBVIOUS
<1>1. CASE Stop \/ UNCHANGED vars
  BY <1>1 DEF Stop, vars, history, RInv, Numbered, Known, Kept, Began
<1>2. CASE Restart
  <2>1. \A t \in SlotIds : /\ slots'[t].out = slots[t].out
                           /\ slots'[t].creator = slots[t].creator
                           /\ slots'[t].room = slots[t].room
    BY <1>2, SlotsRestarted DEF TInv, Typed
  <2>2. UNCHANGED <<sessions, disk, recorded>> /\ pc' = "load"
    BY <1>2 DEF Restart, history
  <2> QED
    BY <2>1, <2>2 DEF RInv, Numbered, Known, Kept, Began
<1> QED
  BY <1>1, <1>2, CoordinatorRInv, EnvironmentRInv DEF Next

(* A consumed room had a recording of its own: a claim found at the start   *)
(* is promoted only when its start happened (automation_jobs.py,            *)
(* _load_and_reconcile).                                                    *)
THEOREM Recorded == Spec => []ConsumedWasRecorded
<1>1. RInv /\ TInv => ConsumedWasRecorded
  BY Numbers DEF RInv, Kept, ConsumedWasRecorded
<1> QED
  BY <1>1, InitRInv, StepRInv, Invariance, PTL DEF Spec

-----------------------------------------------------------------------------
(* No LIVE is started again while the job of its start is on record.        *)

(* Rooms open in order, and no room of a creator that was observed, claimed *)
(* or consumed is newer than what the creator and its observation show.     *)
Reached(c, r) == r <= world[c].room /\ (obs[c].state = "live" => r <= obs[c].room)
Ordered ==
  \A c \in Creators :
    /\ obs[c].state = "live" => obs[c].room <= world[c].room
    /\ Reached(c, disk.consumed[c])
    /\ disk.claim.creator = c =>
         Reached(c, disk.claim.room) /\ disk.consumed[c] <= disk.claim.room

(* An attempt has an output of its own.                                     *)
Fresh ==
  \A c \in Creators, r \in RoomNumbers :
    /\ taken[c][r] \subseteq 1..sessions
    /\ pc = "start" => disk.claim.out \notin taken[c][r]

(* A start on record is consumed, or its claim is still in the file.        *)
Pending(c, r, o) ==
  /\ disk.claim.creator = c /\ disk.claim.room = r /\ disk.claim.out = o
  /\ pc \notin {"start", "skip", "halt"}
Covered ==
  \A s \in SlotIds, c \in Creators, r \in RoomNumbers :
    slots[s].creator = c /\ slots[s].out \in taken[c][r]
      => r <= disk.consumed[c] \/ Pending(c, r, slots[s].out)

(* What is still to be started is newer than what is consumed.              *)
Untried ==
  /\ pc \in {"select"} \cup Attempting =>
       \A c \in todo : obs[c].state = "live" /\ disk.consumed[c] < obs[c].room
  /\ pc \in Attempting => disk.claim.creator \notin todo
  /\ pc = "start" => disk.consumed[disk.claim.creator] < disk.claim.room

OInv == Ordered /\ Fresh /\ Covered /\ Untried

LEMMA InitOInv == Init => OInv
<1> SUFFICES ASSUME Init PROVE OInv
  OBVIOUS
<1> USE Numbers
<1>1. disk.claim = NoClaim /\ NoClaim.creator = 0 /\ pc = "load"
  BY DEF Init, Empty, NoClaim
<1>2. \A c \in Creators, r \in RoomNumbers : taken[c][r] = {}
  BY DEF Init
<1>3. Ordered
  BY <1>1 DEF Init, Ordered, Reached, Empty, Unknown
<1>4. Fresh /\ Covered
  BY <1>1, <1>2 DEF Fresh, Covered
<1>5. Untried
  BY <1>1 DEF Untried, Attempting
<1> QED
  BY <1>3, <1>4, <1>5 DEF OInv

(* The numbers the invariant compares.                                      *)
LEMMA Counts ==
  ASSUME TInv
  PROVE  /\ \A c \in Creators :
              /\ world[c].room \in Nat /\ obs[c].room \in RoomNumbers
              /\ disk.consumed[c] \in RoomNumbers
         /\ sessions \in Nat
         /\ disk.claim \in Claims \cup {NoClaim}
         /\ disk.claim.creator \in Creators =>
              disk.claim \in Claims /\ disk.claim.room \in RoomNumbers
<1>1. /\ disk.claim \in Claims \cup {NoClaim} /\ disk.consumed \in [Creators -> RoomNumbers]
  BY DEF TInv, Typed, States
<1>2. \A c \in Creators : /\ world[c] \in [room : RoomNumbers, live : BOOLEAN]
                          /\ obs[c] \in [state : {"unknown", "offline", "live"},
                                        room : RoomNumbers]
  BY DEF TInv, Typed
<1>3. disk.claim.creator \in Creators =>
        disk.claim \in Claims /\ disk.claim.room \in RoomNumbers
  <2>1. NoClaim.creator = 0
    BY DEF NoClaim
  <2>2. disk.claim \in Claims => disk.claim.room \in RoomNumbers
    BY DEF Claims
  <2> QED
    BY <1>1, <2>1, <2>2, Numbers
<1>4. sessions \in Nat
  BY DEF TInv, Typed
<1> QED
  BY <1>1, <1>2, <1>3, <1>4, Numbers

(* Steps beside the coordinator: rooms grow, observations are current, and  *)
(* a slot keeps its output and creator or begins a manual recording.        *)
LEMMA AsideOInv ==
  ASSUME TInv, TInv', OInv,
         UNCHANGED <<disk, taken>>, sessions <= sessions',
         \/ pc' = pc /\ todo' = todo
         \/ pc' = "load"
         \/ pc = "poll" /\ pc' = "apply",
         \A c \in Creators :
           /\ world[c].room <= world'[c].room
           /\ \/ obs'[c] = obs[c]
              \/ /\ obs'[c].state = "live" /\ obs'[c].room = world'[c].room
                 /\ pc = "poll" /\ pc' = "poll"
              \/ obs'[c].state # "live" /\ pc' \in {"load", "poll"},
         \A s \in SlotIds :
           \/ slots'[s].out = slots[s].out /\ slots'[s].creator = slots[s].creator
           \/ slots'[s].out = 0
  PROVE  OInv'
<1> USE Numbers
<1>0. /\ \A c \in Creators :
           /\ world[c].room \in Nat /\ world'[c].room \in Nat
           /\ obs[c].room \in Nat /\ obs'[c].room \in Nat
           /\ disk.consumed[c] \in Nat
      /\ sessions \in Nat /\ sessions' \in Nat
      /\ disk.claim.creator \in Creators => disk.claim.room \in Nat
  <2>1. /\ \A c \in Creators : world'[c] \in [room : RoomNumbers, live : BOOLEAN]
        /\ \A c \in Creators : obs'[c] \in [state : {"unknown", "offline", "live"},
                                          room : RoomNumbers]
        /\ sessions' \in Nat
    BY DEF TInv, Typed
  <2> QED
    BY <2>1, Counts
<1>1. ASSUME NEW c \in Creators, NEW r \in Nat, Reached(c, r) PROVE Reached(c, r)'
  <2>1. r <= world'[c].room
    <3>1. r <= world[c].room /\ world[c].room <= world'[c].room
      BY <1>1 DEF Reached
    <3>2. r \in Nat /\ world[c].room \in Nat /\ world'[c].room \in Nat
      BY <1>0
    <3> QED
      BY ONLY <3>1, <3>2
  <2>2. ASSUME obs'[c].state = "live" PROVE r <= obs'[c].room
    <3>1. CASE obs'[c] = obs[c]
      BY <1>1, <2>2, <3>1 DEF Reached
    <3>2. CASE obs'[c].room = world'[c].room
      BY <2>1, <3>2
    <3> QED
      BY <2>2, <3>1, <3>2
  <2> QED
    BY <2>1, <2>2 DEF Reached
<1>2. Ordered'
  <2>1. \A c \in Creators : obs'[c].state = "live" => obs'[c].room <= world'[c].room
    BY <1>0 DEF OInv, Ordered
  <2>2. \A c \in Creators :
          /\ Reached(c, disk.consumed[c])'
          /\ disk'.claim.creator = c =>
               Reached(c, disk.claim.room)' /\ disk'.consumed[c] <= disk'.claim.room
    BY <1>0, <1>1 DEF OInv, Ordered
  <2> QED
    BY <2>1, <2>2 DEF Ordered
<1>3. Fresh'
  <2>1. 1..sessions \subseteq 1..sessions'
    BY <1>0
  <2>2. pc' = "start" => pc = "start"
    OBVIOUS
  <2> QED
    BY <2>1, <2>2 DEF OInv, Fresh
<1>4. Covered'
  <2> SUFFICES ASSUME NEW s \in SlotIds, NEW c \in Creators, NEW r \in RoomNumbers,
                      slots'[s].creator = c, slots'[s].out \in taken[c][r]
               PROVE  r <= disk.consumed[c] \/ Pending(c, r, slots[s].out)'
    BY DEF Covered
  <2>1. slots'[s].out # 0
    BY <1>0 DEF OInv, Fresh
  <2>2. slots'[s].out = slots[s].out /\ slots[s].creator = c
    BY <2>1
  <2>3. r <= disk.consumed[c] \/ Pending(c, r, slots[s].out)
    BY <2>2 DEF OInv, Covered
  <2>4. pc' \notin {"start", "skip", "halt"} \/ pc' = pc
    OBVIOUS
  <2> QED
    BY <2>2, <2>3, <2>4 DEF Pending
<1>5. Untried'
  <2>1. CASE pc' \in {"poll", "load", "apply"}
    BY <2>1 DEF Untried, Attempting
  <2>2. CASE pc' = pc /\ todo' = todo /\ \A c \in Creators : obs'[c] = obs[c]
    <3>1. todo \subseteq Creators
      BY DEF TInv, Typed
    <3> QED
      BY <2>2, <3>1 DEF OInv, Untried
  <2> QED
    BY <2>1, <2>2
<1> QED
  BY <1>2, <1>3, <1>4, <1>5 DEF OInv

(* A step that writes the file only, and may take a creator's outputs away. *)
LEMMA FileOInv ==
  ASSUME TInv, TInv', OInv, UNCHANGED <<world, obs, slots, sessions>>,
         \A c \in Creators, r \in RoomNumbers : taken'[c][r] \in {{}, taken[c][r]},
         \A c \in Creators :
           /\ Reached(c, disk'.consumed[c])
           /\ disk'.claim.creator = c =>
                Reached(c, disk'.claim.room) /\ disk'.consumed[c] <= disk'.claim.room,
         pc' = "start" => disk'.claim.out \notin 1..sessions,
         \A s \in SlotIds, c \in Creators, r \in RoomNumbers :
           slots[s].creator = c /\ slots[s].out \in taken'[c][r]
             => r <= disk'.consumed[c] \/ Pending(c, r, slots[s].out)',
         Untried'
  PROVE  OInv'
<1>1. Ordered'
  BY DEF OInv, Ordered, Reached
<1>2. \A c \in Creators, r \in RoomNumbers : taken'[c][r] \subseteq 1..sessions
  <2> SUFFICES ASSUME NEW c \in Creators, NEW r \in RoomNumbers
               PROVE  taken'[c][r] \subseteq 1..sessions
    OBVIOUS
  <2>1. taken'[c][r] = {} \/ taken'[c][r] = taken[c][r]
    OBVIOUS
  <2>2. taken[c][r] \subseteq 1..sessions
    BY DEF OInv, Fresh
  <2> QED
    BY <2>1, <2>2
<1>3. Fresh'
  BY <1>2 DEF Fresh
<1>4. Covered'
  BY DEF Covered
<1> QED
  BY <1>1, <1>3, <1>4 DEF OInv

(* Between two attempts no claim is pending, and all that is on record is   *)
(* consumed.                                                                *)
Settled ==
  \A s \in SlotIds, c \in Creators, r \in RoomNumbers :
    slots[s].creator = c /\ slots[s].out \in taken[c][r] => r <= disk.consumed[c]

LEMMA Consumed ==
  ASSUME TInv, OInv, pc \in {"classify", "apply", "select", "start", "skip", "halt"}
  PROVE  Settled
<1>1. pc \in {"classify", "apply", "select"} => disk.claim.creator = 0
  BY DEF TInv, Synced, NoClaim
<1> QED
  BY <1>1, Numbers DEF OInv, Covered, Pending, Settled

LEMMA ApplyOInv ==
  ASSUME TInv, TInv', OInv, Apply
  PROVE  OInv'
<1> USE Numbers
<1> DEFINE new == [state EXCEPT !.consumed = [c \in Creators |-> Rearmed(c)]]
<1>1. /\ UNCHANGED <<world, obs, slots, sessions>> /\ pc = "apply"
      /\ state = disk /\ disk \in States
      /\ disk.claim.creator = 0
  BY DEF Apply, Coordinating, TInv, Typed, Synced, NoClaim
<1>2. /\ new.claim = disk.claim /\ \A c \in Creators : new.consumed[c] = Rearmed(c)
  BY <1>1 DEF States
<1> HIDE DEF new
<1>3. /\ disk' \in {disk, new}
      /\ pc' \in {"poll", "classify"}
      /\ \/ UNCHANGED <<taken, disk>>
         \/ \A c \in Creators : taken'[c] = IF obs[c].state = "offline"
                                        THEN [r \in RoomNumbers |-> {}] ELSE taken[c]
  BY ReplaceEnds DEF Apply, Disable, EndCycle, Saved, Failed, new
<1>4. ASSUME NEW c \in Creators, NEW r \in RoomNumbers
      PROVE  /\ taken'[c][r] \in {{}, taken[c][r]}
             /\ taken'[c][r] # {} => obs[c].state # "offline" \/ disk' = disk
  BY <1>3
<1>5. ASSUME NEW c \in Creators
      PROVE  /\ Reached(c, Rearmed(c))
             /\ obs[c].state # "offline" => disk.consumed[c] <= Rearmed(c)
  <2>1. /\ world[c].room \in Nat /\ obs[c].room \in Nat /\ disk.consumed[c] \in Nat
    BY Counts
  <2>2. /\ Reached(c, disk.consumed[c])
        /\ obs[c].state = "live" => obs[c].room <= world[c].room
    BY DEF OInv, Ordered
  <2>3. \/ obs[c].state = "live" /\ Rearmed(c) = obs[c].room
        \/ obs[c].state = "offline" /\ Rearmed(c) = 0
        \/ Rearmed(c) = disk.consumed[c]
    BY <1>1 DEF Rearmed
  <2> QED
    BY <2>1, <2>2, <2>3 DEF Reached
<1>6. \A c \in Creators : Reached(c, disk'.consumed[c])
  BY <1>2, <1>3, <1>5 DEF OInv, Ordered
<1>7. ASSUME NEW s \in SlotIds, NEW c \in Creators, NEW r \in RoomNumbers,
             slots[s].creator = c, slots[s].out \in taken'[c][r]
      PROVE  r <= disk'.consumed[c]
  <2>1. slots[s].out \in taken[c][r] /\ taken'[c][r] # {}
    BY <1>4, <1>7
  <2>2. r <= disk.consumed[c] /\ disk.consumed[c] \in Nat
    BY <1>1, <1>7, <2>1, Consumed, Counts DEF Settled
  <2>3. CASE disk' = disk
    BY <2>2, <2>3
  <2>4. CASE disk' = new /\ disk' # disk
    <3>1. disk'.consumed[c] = Rearmed(c) /\ Rearmed(c) \in Nat
      BY <1>2, <2>4, RearmedTyped DEF TInv
    <3>2. disk.consumed[c] <= Rearmed(c)
      BY <1>4, <1>5, <2>1, <2>4
    <3>3. r \in Nat
      OBVIOUS
    <3> QED
      BY <2>2, <3>1, <3>2, <3>3
  <2> QED
    BY <1>3, <2>3, <2>4
<1>8. Untried'
  BY <1>3 DEF Untried, Attempting
<1>9. \A c \in Creators : disk'.claim.creator # c
  BY <1>1, <1>2, <1>3
<1>10. pc' # "start"
  BY <1>3
<1> QED
  BY <1>1, <1>4, <1>6, <1>7, <1>8, <1>9, <1>10, FileOInv

LEMMA ClassifyOInv ==
  ASSUME TInv, TInv', OInv, Classify
  PROVE  OInv'
<1> USE Numbers
<1>1. /\ UNCHANGED <<world, obs, slots, sessions, disk, taken>> /\ pc = "classify"
      /\ pc' \in {"poll", "select"} /\ state = disk
      /\ disk.claim.creator = 0
  BY DEF Classify, Coordinating, history, TInv, Synced, NoClaim
<1>2. ASSUME NEW c \in todo'
      PROVE  c \in Creators /\ obs[c].state = "live" /\ disk.consumed[c] < obs[c].room
  <2>1. c \in Creators /\ obs[c].state = "live" /\ disk.consumed[c] # obs[c].room
    BY <1>1, <1>2 DEF Classify, Suppressed
  <2>2. /\ disk.consumed[c] <= obs[c].room
        /\ obs[c].room \in Nat /\ disk.consumed[c] \in Nat
    BY <2>1, Counts DEF OInv, Ordered, Reached
  <2> QED
    BY <2>1, <2>2
<1>3. Untried'
  BY <1>1, <1>2 DEF Untried, Attempting
<1>4. \A c \in Creators :
        /\ Reached(c, disk'.consumed[c])
        /\ disk'.claim.creator = c =>
             Reached(c, disk'.claim.room) /\ disk'.consumed[c] <= disk'.claim.room
  BY <1>1 DEF OInv, Ordered
<1> QED
  BY <1>1, <1>3, <1>4, Consumed, FileOInv DEF Settled

(* A claim made for a LIVE newer than what its creator consumed.            *)
LEMMA NewClaimOInv ==
  ASSUME TInv, TInv', OInv, UNCHANGED <<world, obs, slots, sessions, taken>>,
         Untried', Settled, NEW c \in Creators, obs[c].state = "live",
         disk'.consumed = disk.consumed, disk'.claim.creator = c,
         disk'.claim.room = obs[c].room, disk'.claim.out = sessions + 1
  PROVE  OInv'
<1>1. Reached(c, obs[c].room) /\ disk.consumed[c] <= obs[c].room
  <2>1. obs[c].room \in Nat
    BY Counts, Numbers
  <2> QED
    BY <2>1 DEF OInv, Ordered, Reached
<1>2. \A d \in Creators :
        /\ Reached(d, disk'.consumed[d])
        /\ disk'.claim.creator = d =>
             Reached(d, disk'.claim.room) /\ disk'.consumed[d] <= disk'.claim.room
  BY <1>1 DEF OInv, Ordered
<1>3. disk'.claim.out \notin 1..sessions
  BY Counts
<1>4. \A s \in SlotIds, d \in Creators, r \in RoomNumbers :
        slots[s].creator = d /\ slots[s].out \in taken'[d][r]
          => r <= disk'.consumed[d] \/ Pending(d, r, slots[s].out)'
  BY DEF Settled
<1> QED
  BY <1>2, <1>3, <1>4, FileOInv

LEMMA SelectOInv ==
  ASSUME TInv, TInv', OInv, Select
  PROVE  OInv'
<1> USE Numbers
<1>1. /\ UNCHANGED <<world, obs, slots, sessions, taken>> /\ pc = "select"
      /\ state = disk /\ disk \in States /\ disk.claim.creator = 0
      /\ todo \subseteq Creators
  BY DEF Select, Coordinating, history, TInv, Typed, Synced, NoClaim
<1>2. Settled
  BY <1>1, Consumed
<1>3. ASSUME disk' = disk, todo' \subseteq todo, pc' \in {"poll", "select"}
      PROVE  OInv'
  <2>1. Untried'
    BY <1>1, <1>3 DEF OInv, Untried, Attempting
  <2>2. \A c \in Creators :
          /\ Reached(c, disk'.consumed[c])
          /\ disk'.claim.creator = c =>
               Reached(c, disk'.claim.room) /\ disk'.consumed[c] <= disk'.claim.room
    BY <1>3 DEF OInv, Ordered
  <2> QED
    BY <1>1, <1>2, <1>3, <2>1, <2>2, FileOInv DEF Settled
<1>4. ASSUME todo # {}, \E s \in SlotIds : Offered(s),
             Replace([state EXCEPT !.claim = ClaimFor(Min(todo))], "start",
                     todo \ {Min(todo)})
      PROVE  OInv'
  <2> DEFINE c == Min(todo)
             new == [state EXCEPT !.claim = ClaimFor(Min(todo))]
  <2>1. c \in todo /\ c \in Creators
    BY <1>4, SelectClaims DEF TInv
  <2>2. /\ new.consumed = disk.consumed
        /\ new.claim.creator = c /\ new.claim.room = obs[c].room
        /\ new.claim.out = sessions + 1
    BY <1>1 DEF States, ClaimFor
  <2>3. Replace(new, "start", todo \ {c})
    BY <1>4
  <2>4. obs[c].state = "live" /\ disk.consumed[c] < obs[c].room
    BY <1>1, <2>1 DEF OInv, Untried
  <2> HIDE DEF new, c
  <2>5. CASE pc' = "start" /\ todo' = todo \ {c} /\ disk' = new
    <3>1. Untried'
      BY <1>1, <2>2, <2>4, <2>5 DEF OInv, Untried, Attempting
    <3> QED
      BY <1>1, <1>2, <2>1, <2>2, <2>4, <2>5, <3>1, NewClaimOInv
  <2>6. CASE pc' = "poll" /\ disk' = new
    <3>1. Untried'
      BY <2>6 DEF Untried, Attempting
    <3> QED
      BY <1>1, <1>2, <2>1, <2>2, <2>4, <2>6, <3>1, NewClaimOInv
  <2>7. CASE pc' = "poll" /\ todo' = {} /\ disk' = disk
    BY <1>3, <2>7
  <2> QED
    BY <2>3, <2>5, <2>6, <2>7, ReplaceEnds DEF Saved, Failed
<1> QED
  BY <1>1, <1>3, <1>4 DEF Select, EndCycle

(* The job a start writes is the first with its output; what was on record  *)
(* before is consumed, and the new one is covered by the claim.             *)
LEMMA AttemptOInv ==
  ASSUME TInv, TInv', RInv, OInv, Attempt
  PROVE  OInv'
<1> USE Numbers
<1> DEFINE k == disk.claim.creator
           q == disk.claim.room
           o == disk.claim.out
<1>1. /\ UNCHANGED <<world, obs, disk>> /\ pc = "start" /\ todo' = todo
      /\ state = disk /\ disk.claim \in Claims
      /\ todo \subseteq Creators
      /\ pc' \in {"skip", "halt", "promote"}
  BY DEF Attempt, Coordinating, StartAccepted, StartDuplicate, StartRejected,
         TInv, Typed, Synced, States, Attempting
<1>2. k \in Creators /\ q \in RoomNumbers /\ o \in Nat \ {0} /\ o <= sessions + 1
  BY <1>1 DEF Claims, RInv, Numbered
<1>3. /\ sessions \in Nat /\ slots \in [SlotIds -> Slots]
      /\ taken \in [Creators -> [RoomNumbers -> SUBSET Nat]]
  BY DEF TInv, Typed
<1>4. /\ Settled
      /\ \A c \in Creators, r \in RoomNumbers :
           o \notin taken[c][r] /\ taken[c][r] \subseteq 1..sessions
  BY <1>1, Consumed DEF OInv, Fresh
<1>5. Ordered' /\ Untried'
  BY <1>1 DEF OInv, Ordered, Reached, Untried, Attempting
<1>6. /\ sessions' \in Nat /\ sessions <= sessions'
      /\ \A s \in SlotIds :
           \/ slots'[s].out = slots[s].out /\ slots'[s].creator = slots[s].creator
           \/ slots'[s].out = o /\ slots'[s].creator = k
  <2>1. CASE UNCHANGED <<slots, sessions>>
    BY <1>3, <2>1
  <2>2. ASSUME NEW s \in SlotIds, slots' = [slots EXCEPT ![s].broken = TRUE], sessions' = sessions
        PROVE  <1>6
    <3>1. slots'[s].out = slots[s].out /\ slots'[s].creator = slots[s].creator
      BY <1>3, <2>2 DEF Slots, Idle, Recordings
    <3>2. \A t \in SlotIds \ {s} : slots'[t] = slots[t]
      BY <1>3, <2>2
    <3> QED
      BY <1>3, <2>2, <3>1, <3>2
  <2>3. ASSUME NEW s \in SlotIds, NEW e, NEW p,
               slots' = [slots EXCEPT ![s] = Started(k, e, o, p)], sessions' = sessions + 1
        PROVE  <1>6
    <3>1. slots'[s].out = o /\ slots'[s].creator = k
      BY <1>3, <2>3 DEF Started
    <3>2. \A t \in SlotIds \ {s} : slots'[t] = slots[t]
      BY <1>3, <2>3
    <3> QED
      BY <1>3, <2>3, <3>1, <3>2
  <2> QED
    BY <1>1, <2>1, <2>2, <2>3 DEF Attempt, StartAccepted, StartDuplicate, StartRejected
<1>7. CASE taken' = taken
  <2>1. Fresh'
    <3>1. 1..sessions \subseteq 1..sessions'
      BY <1>3, <1>6
    <3> QED
      BY <1>1, <1>4, <1>7, <3>1 DEF Fresh
  <2>2. Covered'
    BY <1>1, <1>4, <1>6, <1>7 DEF Settled, Covered
  <2> QED
    BY <1>5, <2>1, <2>2 DEF OInv
<1>8. CASE StartAccepted /\ taken' = [taken EXCEPT ![k][q] = @ \cup {o}]
  <2>1. \A c \in Creators, r \in RoomNumbers :
          taken'[c][r] = IF c = k /\ r = q THEN taken[k][q] \cup {o} ELSE taken[c][r]
    <3>1. taken' = [taken EXCEPT ![k][q] = @ \cup {o}] /\ k \in Creators /\ q \in RoomNumbers
          /\ o \in Nat
      BY <1>2, <1>8
    <3> HIDE DEF k, q, o
    <3> QED
      BY ONLY <1>3, <3>1, OutputAdded
  <2>2. sessions' = sessions + 1 /\ pc' = "promote"
    BY <1>8 DEF StartAccepted
  <2> HIDE DEF k, q, o
  <2>3. Fresh'
    <3>1. 1..sessions \subseteq 1..sessions' /\ o \in 1..sessions'
      BY <1>2, <1>3, <2>2
    <3>2. ASSUME NEW c \in Creators, NEW r \in RoomNumbers
          PROVE  taken'[c][r] \subseteq 1..sessions'
      BY <1>2, <1>4, <2>1, <3>1
    <3> QED
      BY <2>2, <3>2 DEF Fresh
  <2>4. Covered'
    <3> SUFFICES ASSUME NEW s \in SlotIds, NEW c \in Creators, NEW r \in RoomNumbers,
                        slots'[s].creator = c, slots'[s].out \in taken'[c][r]
                 PROVE  r <= disk.consumed[c] \/ Pending(c, r, slots[s].out)'
      BY <1>1 DEF Covered
    <3>1. CASE slots'[s].out = o
      <4>1. c = k /\ r = q
        BY <1>4, <2>1, <3>1
      <4> QED
        BY <1>1, <2>2, <3>1, <4>1 DEF Pending, k, q, o
    <3>2. CASE slots'[s].out # o
      <4>1. slots'[s].out = slots[s].out /\ slots[s].creator = c
        BY <1>6, <3>2
      <4>2. slots[s].out \in taken[c][r]
        BY <2>1, <3>2, <4>1
      <4> QED
        BY <1>4, <4>1, <4>2 DEF Settled
    <3> QED
      BY <3>1, <3>2
  <2> QED
    BY <1>5, <2>3, <2>4 DEF OInv
<1> QED
  BY <1>1, <1>7, <1>8 DEF Attempt

(* What ends a claim: it is cleared when all that is on record is consumed, *)
(* or promoted; a failed save leaves either of the two in the file.         *)
LEMMA SettleOInv ==
  ASSUME TInv, TInv', OInv, UNCHANGED <<world, obs, slots, sessions, taken>>,
         disk.claim # NoClaim,
         pc' = "poll" \/ (pc' = "select" /\ pc \in Attempting /\ todo' = todo),
         \/ disk' = disk /\ pc' = "poll"
         \/ disk' = Promoted(disk)
         \/ disk' = Cleared(disk) /\ Settled
  PROVE  OInv'
<1> USE Numbers
<1> DEFINE k == disk.claim.creator
           q == disk.claim.room
<1>1. /\ disk \in States /\ disk.claim \in Claims
      /\ k \in Creators /\ q \in RoomNumbers /\ q \in Nat
      /\ disk.consumed \in [Creators -> RoomNumbers]
      /\ todo \subseteq Creators
  BY Counts DEF TInv, Typed, States, Claims
<1>2. CASE disk' = disk /\ pc' = "poll"
  <2>1. \A c \in Creators :
          /\ Reached(c, disk'.consumed[c])
          /\ disk'.claim.creator = c =>
               Reached(c, disk'.claim.room) /\ disk'.consumed[c] <= disk'.claim.room
    BY <1>2 DEF OInv, Ordered
  <2>2. \A s \in SlotIds, c \in Creators, r \in RoomNumbers :
          slots[s].creator = c /\ slots[s].out \in taken'[c][r]
            => r <= disk'.consumed[c] \/ Pending(c, r, slots[s].out)'
    BY <1>2 DEF OInv, Covered, Pending
  <2>3. Untried'
    BY <1>2 DEF Untried, Attempting
  <2> QED
    BY <1>2, <2>1, <2>2, <2>3, FileOInv
<1>3. CASE disk' \in {Cleared(disk), Promoted(disk)}
  <2>1. disk'.claim.creator = 0
    <3>1. Cleared(disk).claim = NoClaim /\ Promoted(disk).claim = NoClaim
      BY <1>1, Written
    <3>2. disk'.claim = NoClaim
      BY <1>3, <3>1
    <3> QED
      BY <3>2 DEF NoClaim
  <2>2. \A c \in Creators : \/ disk'.consumed[c] = disk.consumed[c]
                            \/ c = k /\ disk'.consumed[c] = q
    <3>1. CASE disk' = Cleared(disk)
      <4>1. disk'.consumed = disk.consumed
        BY <1>1, <3>1, Written
      <4> QED
        BY <4>1
    <3>2. CASE disk' = Promoted(disk)
      <4>1. disk'.consumed = [disk.consumed EXCEPT ![k] = q]
        BY <1>1, <3>2, Written
      <4> HIDE DEF k, q
      <4> QED
        BY <1>1, <4>1
    <3> QED
      BY <1>3, <3>1, <3>2
  <2>3. \A c \in Creators : Reached(c, disk.consumed[c]) /\ (k = c => Reached(c, q))
    BY DEF OInv, Ordered
  <2>4. \A c \in Creators : Reached(c, disk'.consumed[c])
    BY <2>2, <2>3
  <2>5. ASSUME NEW s \in SlotIds, NEW c \in Creators, NEW r \in RoomNumbers,
               slots[s].creator = c, slots[s].out \in taken[c][r]
        PROVE  r <= disk'.consumed[c]
    <3>1. r \in Nat /\ disk.consumed[c] \in Nat
      BY <1>1
    <3>2. CASE disk' = Cleared(disk) /\ Settled
      <4>1. disk'.consumed = disk.consumed
        BY <1>1, <3>2, Written
      <4> QED
        BY <2>5, <3>2, <4>1 DEF Settled
    <3>3. CASE disk' = Promoted(disk)
      <4>1. disk'.consumed = [disk.consumed EXCEPT ![k] = q]
        BY <1>1, <3>3, Written
      <4>2. r <= disk.consumed[c] \/ (c = k /\ r = q)
        BY <2>5 DEF OInv, Covered, Pending
      <4>3. c = k => disk.consumed[c] <= q
        BY DEF OInv, Ordered
      <4>4. disk'.consumed[c] = IF c = k THEN q ELSE disk.consumed[c]
        BY <1>1, <4>1
      <4> HIDE DEF k, q
      <4> QED
        BY <1>1, <3>1, <4>2, <4>3, <4>4
    <3>4. CASE disk' = disk
      <4>1. disk.claim = NoClaim
        BY <1>1, <1>3, <3>4, Written
      <4> QED
        BY <4>1
    <3> QED
      BY <2>5, <3>2, <3>3, <3>4
  <2>6. \A c \in Creators : disk'.claim.creator # c
    BY <2>1
  <2>7. Untried'
    <3>1. CASE pc' = "poll"
      BY <3>1 DEF Untried, Attempting
    <3>2. CASE pc' = "select" /\ pc \in Attempting /\ todo' = todo
      <4>1. \A c \in todo : c # k /\ obs[c].state = "live" /\ disk.consumed[c] < obs[c].room
        BY <3>2 DEF OInv, Untried
      <4>2. \A c \in todo : disk'.consumed[c] = disk.consumed[c]
        BY <1>1, <2>2, <4>1
      <4> QED
        BY <3>2, <4>1, <4>2 DEF Untried, Attempting
    <3> QED
      BY <3>1, <3>2
  <2> QED
    BY <1>1, <2>1, <2>4, <2>5, <2>6, <2>7, FileOInv
<1> QED
  BY <1>2, <1>3

LEMMA RejectedOInv ==
  ASSUME TInv, TInv', OInv, Rejected
  PROVE  OInv'
<1>1. /\ UNCHANGED <<world, obs, slots, sessions, taken>> /\ pc \in {"skip", "halt"}
      /\ state = disk /\ disk.claim # NoClaim
  BY DEF Rejected, Coordinating, history, TInv, Synced, Attempting
<1>2. /\ disk' \in {disk, Cleared(disk)}
      /\ \/ pc' = "poll"
         \/ pc' = "select" /\ todo' = todo /\ disk' = Cleared(disk)
  BY <1>1, ReplaceEnds DEF Rejected, Saved, Failed
<1>3. Settled
  BY <1>1, Consumed
<1>4. /\ pc' = "poll" \/ (pc' = "select" /\ pc \in Attempting /\ todo' = todo)
      /\ \/ disk' = disk /\ pc' = "poll"
         \/ disk' = Cleared(disk)
  BY <1>1, <1>2 DEF Attempting
<1> QED
  BY <1>1, <1>3, <1>4, SettleOInv

LEMMA PromoteOInv ==
  ASSUME TInv, TInv', OInv, Promote
  PROVE  OInv'
<1>1. /\ UNCHANGED <<world, obs, slots, sessions, taken>> /\ pc = "promote"
      /\ state = disk /\ disk.claim # NoClaim
  BY DEF Promote, Coordinating, history, TInv, Synced, Attempting
<1>2. Saved(Promoted(disk), "select", todo) \/ Failed(Promoted(disk))
  <2>1. Replace(Promoted(disk), "select", todo)
    BY <1>1 DEF Promote
  <2> QED
    BY <2>1, ReplaceEnds
<1>3. /\ pc' = "poll" \/ (pc' = "select" /\ pc \in Attempting /\ todo' = todo)
      /\ \/ disk' = disk /\ pc' = "poll"
         \/ disk' = Promoted(disk)
  BY <1>1, <1>2 DEF Saved, Failed, Attempting
<1> QED
  BY <1>1, <1>3, SettleOInv

(* At start-up a claim is cleared only when no job has its output, and then *)
(* it covers no start on record.                                            *)
LEMMA LoadOInv ==
  ASSUME TInv, TInv', OInv, Load
  PROVE  OInv'
<1>1. /\ UNCHANGED <<world, obs, slots, sessions, taken>> /\ pc = "load" /\ pc' = "poll"
  BY DEF Load, Coordinating, history, Disable, EndCycle
<1>2. CASE disk' = disk
  <2>1. Untried'
    BY <1>1 DEF Untried, Attempting
  <2>2. \A c \in Creators :
          /\ Reached(c, disk'.consumed[c])
          /\ disk'.claim.creator = c =>
               Reached(c, disk'.claim.room) /\ disk'.consumed[c] <= disk'.claim.room
    BY <1>2 DEF OInv, Ordered
  <2>3. \A s \in SlotIds, c \in Creators, r \in RoomNumbers :
          slots[s].creator = c /\ slots[s].out \in taken'[c][r]
            => r <= disk'.consumed[c] \/ Pending(c, r, slots[s].out)'
    BY <1>1, <1>2 DEF OInv, Covered, Pending
  <2>4. \A c \in Creators, r \in RoomNumbers : taken'[c][r] \in {{}, taken[c][r]}
    BY <1>1
  <2> QED
    BY <1>1, <2>1, <2>2, <2>3, <2>4, FileOInv
<1>3. CASE disk' # disk
  <2>1. /\ disk.claim # NoClaim
        /\ \/ disk' = Promoted(disk)
           \/ disk' = Cleared(disk) /\ ~MatchesClaim(disk.claim)
    BY <1>3 DEF Load, Disable
  <2>2. ~MatchesClaim(disk.claim) => Settled
    BY DEF MatchesClaim, OInv, Covered, Pending, Settled
  <2> QED
    BY <1>1, <2>1, <2>2, SettleOInv
<1> QED
  BY <1>2, <1>3

LEMMA AsideStepsOInv ==
  ASSUME TInv, TInv', OInv,
         \/ CycleCompleted \/ Stop \/ Restart
         \/ \E c \in Creators : Creator(c) \/ Poll(c)
         \/ \E s \in SlotIds : \/ PublishRoom(s) \/ JobEnds(s) \/ ManualRejected(s)
                               \/ \E c \in Creators : ManualStart(s, c)
  PROVE  OInv'
<1> USE Numbers
<1>0. /\ sessions \in Nat /\ slots \in [SlotIds -> Slots]
      /\ world \in [Creators -> [room : RoomNumbers, live : BOOLEAN]]
      /\ DOMAIN obs = Creators
      /\ \A c \in Creators : world[c].room \in Nat
  BY Counts DEF TInv, Typed
<1>1. CASE CycleCompleted \/ Stop
  <2>1. /\ UNCHANGED <<world, obs, slots, sessions, disk, taken, todo>>
        /\ pc' = pc \/ (pc' = "apply" /\ pc = "poll")
    BY <1>1 DEF CycleCompleted, Stop, history, monitor
  <2>2. /\ \A c \in Creators : world[c].room <= world'[c].room /\ obs'[c] = obs[c]
        /\ \A s \in SlotIds : slots'[s].out = slots[s].out /\ slots'[s].creator = slots[s].creator
        /\ sessions <= sessions'
    BY <1>0, <2>1
  <2> QED
    BY <2>1, <2>2, AsideOInv
<1>2. CASE Restart
  <2>1. /\ UNCHANGED <<world, sessions, disk, taken>> /\ pc' = "load"
        /\ \A c \in Creators : obs'[c].state # "live"
    BY <1>2 DEF Restart, history, Unknown
  <2>2. \A s \in SlotIds : slots'[s].out = slots[s].out /\ slots'[s].creator = slots[s].creator
    BY <1>0, <1>2, SlotsRestarted
  <2>3. /\ \A c \in Creators : world[c].room <= world'[c].room
        /\ sessions <= sessions'
    BY <1>0, <2>1
  <2> QED
    BY <2>1, <2>2, <2>3, AsideOInv
<1>3. ASSUME NEW c \in Creators, Creator(c) PROVE OInv'
  <2>1. UNCHANGED <<obs, slots, sessions, disk, taken, pc, todo>>
    BY <1>3 DEF Creator, history, monitor
  <2>2. \A d \in Creators : world[d].room <= world'[d].room
    BY <1>0, <1>3 DEF Creator, GoLive, EndLive
  <2> QED
    BY <1>0, <2>1, <2>2, AsideOInv
<1>4. ASSUME NEW c \in Creators, Poll(c) PROVE OInv'
  <2>1. UNCHANGED <<world, slots, sessions, disk, taken, pc, todo>> /\ pc = "poll"
    BY <1>4 DEF Poll, history
  <2>2. \A d \in Creators :
          \/ obs'[d] = obs[d]
          \/ obs'[d].state = "live" /\ obs'[d].room = world'[d].room
          \/ obs'[d].state # "live"
    BY <1>0, <1>4 DEF Poll, Unknown, Offline
  <2> QED
    BY <1>0, <2>1, <2>2, AsideOInv
<1>5. ASSUME NEW s \in SlotIds, PublishRoom(s) \/ JobEnds(s) \/ ManualRejected(s)
      PROVE  OInv'
  <2>1. UNCHANGED <<world, obs, sessions, disk, taken, pc, todo>>
    BY <1>5 DEF PublishRoom, JobEnds, ManualRejected, history, monitor
  <2>2. slots'[s].out = slots[s].out /\ slots'[s].creator = slots[s].creator
    <3>1. slots[s] \in Idle \/ slots[s] \in Recordings
      BY <1>0 DEF Slots
    <3>2. \/ slots'[s] = [slots[s] EXCEPT !.room = world[slots[s].creator].room]
          \/ \E p \in {"settled", "blocked"} : slots'[s] = [slots[s] EXCEPT !.phase = p]
          \/ slots'[s] = [slots[s] EXCEPT !.broken = TRUE]
      BY <1>0, <1>5 DEF PublishRoom, JobEnds, ManualRejected
    <3> QED
      BY ONLY <3>1, <3>2 DEF Idle, Recordings
  <2>3. \A t \in SlotIds \ {s} : slots'[t] = slots[t]
    BY <1>0, <1>5 DEF PublishRoom, JobEnds, ManualRejected
  <2>4. /\ \A t \in SlotIds : slots'[t].out = slots[t].out /\ slots'[t].creator = slots[t].creator
        /\ \A c \in Creators : world[c].room <= world'[c].room /\ obs'[c] = obs[c]
        /\ sessions <= sessions'
    BY <1>0, <2>1, <2>2, <2>3
  <2> QED
    BY <2>1, <2>4, AsideOInv
<1>6. ASSUME NEW s \in SlotIds, NEW c \in Creators, ManualStart(s, c) PROVE OInv'
  <2>1. UNCHANGED <<world, obs, disk, taken, pc, todo>> /\ sessions' = sessions + 1
    BY <1>6 DEF ManualStart, history, monitor
  <2>2. \A t \in SlotIds : slots'[t].out = 0 \/ slots'[t] = slots[t]
    BY <1>0, <1>6 DEF ManualStart, Started
  <2> QED
    BY <1>0, <2>1, <2>2, AsideOInv
<1> QED
  BY <1>1, <1>2, <1>3, <1>4, <1>5, <1>6

LEMMA StepOInv == TInv /\ RInv /\ OInv /\ [Next]_vars => OInv'
<1> SUFFICES ASSUME TInv, RInv, OInv, [Next]_vars PROVE OInv'
  OBVIOUS
<1>0. TInv'
  BY StepTInv
<1>1. CASE UNCHANGED vars
  BY <1>1 DEF vars, history, monitor, OInv, Ordered, Reached, Fresh, Covered, Pending, Untried
<1>2. CASE Next
  BY <1>0, <1>2, ApplyOInv, ClassifyOInv, SelectOInv, AttemptOInv, RejectedOInv,
     PromoteOInv, LoadOInv, AsideStepsOInv DEF Next, Coordinator
<1> QED
  BY <1>1, <1>2

(* For any number of slots, a LIVE is not started automatically again while *)
(* a slot has the job of its start, whatever is observed, whatever saves    *)
(* fail and wherever the process crashes (automation.py _attempt,           *)
(* _load_and_reconcile; automation_jobs.py).                                *)
THEOREM NotRepeated == Spec => NoRepeatOnRecord
<1>1. ASSUME TInv, OInv, [Next]_vars, NEW c \in Creators, NEW r \in RoomNumbers,
             OnRecord(c, r)
      PROVE  taken'[c][r] \subseteq taken[c][r]
  <2> SUFFICES ASSUME ~(taken'[c][r] \subseteq taken[c][r])
               PROVE  FALSE
    OBVIOUS
  <2>1. Attempt /\ taken' # taken
    BY <1>1, OnlyAttemptsTake
  <2>2. pc = "start"
    BY <2>1 DEF Attempt, StartAccepted
  <2>3. disk.claim.creator = c /\ disk.claim.room = r
    BY <1>1, ClaimedStep
  <2>4. r <= disk.consumed[c]
    BY <1>1, <2>2, Consumed DEF OnRecord, Settled
  <2>5. disk.consumed[c] < r
    BY <1>1, <2>2, <2>3 DEF OInv, Untried, Attempting
  <2>6. r \in Nat /\ disk.consumed[c] \in Nat
    BY <1>1, Counts, Numbers
  <2> QED
    BY <2>4, <2>5, <2>6
<1>2. TInv /\ OInv /\ [Next]_vars
        => [\A c \in Creators, r \in RoomNumbers :
              OnRecord(c, r) => taken'[c][r] \subseteq taken[c][r]]_vars
  BY <1>1
<1> QED
  BY <1>2, InitRInv, StepRInv, InitOInv, StepOInv, Invariance, PTL DEF Spec, NoRepeatOnRecord
====
