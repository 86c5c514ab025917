----------------------------- MODULE Automation -----------------------------
(***************************************************************************)
(* Unattended starts: the creator monitor (tikrec/monitoring.py) observes  *)
(* every configured creator once per cycle and hands the finished cycle to *)
(* the coordinator (automation.py), which starts recordings of the LIVEs   *)
(* it has not consumed yet.  A durable claim (automation_state.py) spans   *)
(* each start, so that a restart can tell from the controllers' jobs       *)
(* (automation_jobs.py) whether the start was accepted.                    *)
(*                                                                         *)
(* The coordinator's lock is held for a whole cycle.  Manual starts, the   *)
(* workers of the slots and a crash interleave with its steps.  The        *)
(* recording manager is modelled by its contract: duplicates refused, the  *)
(* first free slot taken, jobs durable (RecordingManager.tla has it in     *)
(* full).  Rooms of a creator are numbered in the order they open, 0 for   *)
(* none; an output is numbered apart from any other, 0 for a manual one.   *)
(***************************************************************************)
EXTENDS Naturals, FiniteSets, FiniteSetsExt

CONSTANTS
  Creators,     \* monitored creators, numbered in lexical order
  N,            \* number of slots
  ManualStarts, \* HTTP clients start recordings too
  StoreMayFail, \* reads and writes of the automation state may fail
  Faults,       \* observations, admission and starts may fail
  MaxRooms,     \* bound: rooms a creator opens
  MaxSessions,  \* bound: recordings started
  MaxCrashes    \* bound: restarts of the process

ASSUME CreatorsAssumption == Creators \subseteq Nat \ {0} /\ IsFiniteSet(Creators)
ASSUME SizeAssumption == N \in Nat \ {0}
ASSUME BoundsAssumption == {MaxRooms, MaxSessions, MaxCrashes} \subseteq Nat
ASSUME SwitchAssumption == {ManualStarts, StoreMayFail, Faults} \subseteq BOOLEAN

VARIABLES
  world,     \* what the creators do
  slots,     \* the controllers, as the manager shows them
  obs,       \* the monitor's observations
  polled,    \* creators observed in this cycle
  pc,        \* the coordinator's next step; "poll" while the monitor polls
  todo,      \* ready creators this cycle has not attempted yet
  state,     \* AutomationCoordinator._state
  disk,      \* the automation state file
  operational, stopping,
  sessions, crashes,
  taken,     \* history: outputs of a room's automatic starts since the re-arm
  recorded   \* history: rooms that had a recording of their own

monitor == <<obs, polled>>
history == <<taken, recorded>>
vars == <<world, slots, monitor, pc, todo, state, disk, operational, stopping,
          sessions, crashes, history>>

RoomNumbers == 0..MaxRooms
SlotIds == 1..N

NoClaim == [creator |-> 0, room |-> 0, out |-> 0, prior |-> 0]
Empty == [consumed |-> [c \in Creators |-> 0], claim |-> NoClaim]

IdleSlot == [phase |-> "idle", creator |-> 0, session |-> 0, room |-> 0,
             expected |-> 0, out |-> 0, broken |-> FALSE]
Unknown == [state |-> "unknown", room |-> 0]
Offline == [state |-> "offline", room |-> 0]

-----------------------------------------------------------------------------
(* The manager's contract.  broken: a start rejected on a controller that  *)
(* never had a job, whose status raises from then on.                      *)
Owned(s) == slots[s].phase \in {"active", "blocked"}
Offered(s) == ~Owned(s) /\ ~slots[s].broken
Selected(s) == Offered(s) /\ \A t \in SlotIds : Offered(t) => s <= t
Duplicate(c) == \E s \in SlotIds : Owned(s) /\ slots[s].creator = c
JobsRaise == \E s \in SlotIds : slots[s].broken

Started(c, expected, out, phase) ==
  [phase |-> phase, creator |-> c, session |-> sessions + 1, room |-> 0,
   expected |-> expected, out |-> out, broken |-> FALSE]

(* prior_session_id_for_start: 0 for an idle slot.                         *)
Fingerprint == slots[CHOOSE s \in SlotIds : Selected(s)].session

MatchesObservation(c) ==
  \E s \in SlotIds : /\ Owned(s) /\ slots[s].creator = c
                     /\ slots[s].room = obs[c].room

(* Mutants: by creator alone; among the recordings still at work.          *)
MatchesByCreator(claim) ==
  \E s \in SlotIds : slots[s].creator = claim.creator
MatchesAtWork(claim) ==
  \E s \in SlotIds : /\ Owned(s) /\ slots[s].creator = claim.creator
                     /\ slots[s].out = claim.out

(* jobs_match_claim.                                                       *)
MatchesClaim(claim) ==
  \E s \in SlotIds : /\ slots[s].creator = claim.creator
                     /\ slots[s].out = claim.out

(* jobs_prove_no_claimed_start.                                            *)
ProvesNoStart(claim) ==
  IF N > 1 /\ claim.prior = 0
  THEN \E s \in SlotIds : slots[s].phase = "idle"
  ELSE \E s \in SlotIds : slots[s].session = claim.prior

-----------------------------------------------------------------------------
(* The environment: creators, HTTP clients and the slots' workers.         *)
GoLive(c) ==
  \E r \in {world[c].room, world[c].room + 1} \cap 1..MaxRooms :
    /\ [room |-> r, live |-> TRUE] # world[c]
    /\ world' = [world EXCEPT ![c] = [room |-> r, live |-> TRUE]]

EndLive(c) ==
  /\ world[c].live
  /\ world' = [world EXCEPT ![c].live = FALSE]

Creator(c) ==
  /\ GoLive(c) \/ EndLive(c)
  /\ UNCHANGED <<slots, monitor, pc, todo, state, disk, operational, stopping,
                 sessions, crashes, history>>

ManualStart(s, c) ==
  /\ ManualStarts /\ pc # "load" /\ ~stopping
  /\ Selected(s) /\ ~Duplicate(c) /\ sessions < MaxSessions
  /\ slots' = [slots EXCEPT ![s] = Started(c, 0, 0, "active")]
  /\ sessions' = sessions + 1
  /\ UNCHANGED <<world, monitor, pc, todo, state, disk, operational, stopping,
                 crashes, history>>

(* The output or its parts directory exists.                               *)
ManualRejected(s) ==
  /\ ManualStarts /\ pc # "load" /\ ~stopping
  /\ Selected(s) /\ slots[s].phase = "idle"
  /\ slots' = [slots EXCEPT ![s].broken = TRUE]
  /\ UNCHANGED <<world, monitor, pc, todo, state, disk, operational, stopping,
                 sessions, crashes, history>>

(* A worker publishes the room it resolved, an automatic one only the room *)
(* it was started for.                                                     *)
PublishRoom(s) ==
  /\ slots[s].phase = "active" /\ slots[s].room = 0
  /\ LET c == slots[s].creator IN
     /\ world[c].live
     /\ slots[s].expected \in {0, world[c].room}
     /\ slots' = [slots EXCEPT ![s].room = world[c].room]
     /\ recorded' = [recorded EXCEPT ![c] = @ \cup {world[c].room}]
  /\ UNCHANGED <<world, monitor, pc, todo, state, disk, operational, stopping,
                 sessions, crashes, taken>>

JobEnds(s) ==
  /\ slots[s].phase = "active"
  /\ \/ slots' = [slots EXCEPT ![s].phase = "settled"]
     \/ Faults /\ slots' = [slots EXCEPT ![s].phase = "blocked"]
  /\ UNCHANGED <<world, monitor, pc, todo, state, disk, operational, stopping,
                 sessions, crashes, history>>

-----------------------------------------------------------------------------
(* The monitor.                                                            *)
Poll(c) ==
  /\ pc = "poll" /\ ~stopping /\ c \notin polled
  /\ \E o \in {IF world[c].live THEN [state |-> "live", room |-> world[c].room]
                                ELSE Offline}
                \cup IF Faults THEN {Unknown} ELSE {} :
       obs' = [obs EXCEPT ![c] = o]
  /\ polled' = polled \cup {c}
  /\ UNCHANGED <<world, slots, pc, todo, state, disk, operational, stopping,
                 sessions, crashes, history>>

(* The coordinator takes its lock, unless it was stopped meanwhile.        *)
CycleCompleted ==
  /\ pc = "poll" /\ polled = Creators /\ ~stopping
  /\ polled' = {}
  /\ pc' = IF operational THEN "apply" ELSE "poll"
  /\ UNCHANGED <<world, slots, obs, todo, state, disk, operational, stopping,
                 sessions, crashes, history>>

-----------------------------------------------------------------------------
(* The coordinator.                                                        *)
EndCycle == pc' = "poll" /\ todo' = {}

Disable == operational' = FALSE /\ EndCycle /\ UNCHANGED <<state, disk>>

(* Mutant: a failed save is ignored.                                       *)
ReplaceIgnored(new, next, rest) ==
  /\ disk' \in {new} \cup IF StoreMayFail THEN {disk} ELSE {}
  /\ state' = new /\ pc' = next /\ todo' = rest
  /\ UNCHANGED operational

(* _replace_state: a save that fails may have replaced the file; it ends   *)
(* the cycle and every later one of this process.                          *)
Replace(new, next, rest) ==
  \/ /\ disk' = new /\ state' = new
     /\ pc' = next /\ todo' = rest
     /\ UNCHANGED operational
  \/ /\ StoreMayFail
     /\ disk' \in {disk, new}
     /\ operational' = FALSE /\ EndCycle
     /\ UNCHANGED state

Coordinating == UNCHANGED <<world, obs, polled, stopping, crashes>>

(* _apply_rearm_and_existing_job, for one creator.                         *)
Rearmed(c) ==
  IF obs[c].state = "live" /\ MatchesObservation(c) THEN obs[c].room
  ELSE IF obs[c].state = "offline" THEN 0 ELSE state.consumed[c]

Apply ==
  /\ pc = "apply"
  /\ IF JobsRaise
     THEN Disable /\ UNCHANGED taken
     ELSE LET new == [state EXCEPT !.consumed = [c \in Creators |-> Rearmed(c)]] IN
          /\ IF new = state
             THEN pc' = "classify" /\ UNCHANGED <<todo, state, disk, operational>>
             ELSE Replace(new, "classify", {})
          /\ taken' = [c \in Creators |-> IF obs[c].state = "offline"
                                            THEN [r \in RoomNumbers |-> {}] ELSE taken[c]]
  /\ Coordinating /\ UNCHANGED <<slots, sessions, recorded>>


Suppressed(c) == state.consumed[c] = obs[c].room

(* Admission: a slot is available and the storage usable.                  *)
Classify ==
  /\ pc = "classify"
  /\ \/ todo' = {c \in Creators : /\ obs[c].state = "live" /\ ~Suppressed(c)
                                  /\ \E s \in SlotIds : Offered(s)}
     \/ Faults /\ todo' = {}
  /\ pc' = IF todo' = {} THEN "poll" ELSE "select"
  /\ Coordinating /\ UNCHANGED <<slots, state, disk, operational, sessions, history>>

ClaimFor(c) == [creator |-> c, room |-> obs[c].room, out |-> sessions + 1,
                prior |-> Fingerprint]

(* The first creator left is admitted again, its claim made durable.       *)
Select ==
  /\ pc = "select"
  /\ IF todo = {} THEN EndCycle /\ UNCHANGED <<state, disk, operational>>
     ELSE LET c == Min(todo) IN
       \/ /\ \E s \in SlotIds : Offered(s)
          /\ Replace([state EXCEPT !.claim = ClaimFor(c)], "start", todo \ {c})
       \/ /\ Faults /\ todo' = todo \ {c}
          /\ UNCHANGED <<pc, state, disk, operational>>
       \/ /\ Faults \/ \A s \in SlotIds : ~Offered(s)
          /\ EndCycle /\ UNCHANGED <<state, disk, operational>>
  /\ Coordinating /\ UNCHANGED <<slots, sessions, history>>

StartDuplicate ==
  /\ pc = "start" /\ Duplicate(state.claim.creator)
  /\ pc' = "skip"
  /\ UNCHANGED <<slots, sessions, todo>>

(* Busy, or an exception: the path exists, or the launch failed after the  *)
(* job was written.                                                        *)
StartRejected ==
  /\ pc = "start" /\ ~Duplicate(state.claim.creator)
  /\ \/ (Faults \/ \A s \in SlotIds : ~Offered(s)) /\ UNCHANGED <<slots, sessions>>
     \/ /\ Faults
        /\ \E s \in SlotIds : /\ Selected(s) /\ slots[s].phase = "idle"
                              /\ slots' = [slots EXCEPT ![s].broken = TRUE]
        /\ UNCHANGED sessions
     \/ /\ Faults /\ sessions < MaxSessions
        /\ \E s \in SlotIds :
             /\ Selected(s)
             /\ slots' = [slots EXCEPT ![s] =
                  Started(state.claim.creator, 0, state.claim.out, "settled")]
        /\ sessions' = sessions + 1
  /\ pc' = "halt"
  /\ UNCHANGED todo

StartAccepted ==
  /\ pc = "start" /\ ~Duplicate(state.claim.creator)
  /\ sessions < MaxSessions
  /\ \E s \in SlotIds :
       /\ Selected(s)
       /\ slots' = [slots EXCEPT ![s] = Started(state.claim.creator, state.claim.room,
                                                state.claim.out, "active")]
  /\ sessions' = sessions + 1
  /\ pc' = "promote"
  /\ UNCHANGED todo

Attempt ==
  /\ \/ /\ StartAccepted
        /\ taken' = [taken EXCEPT ![state.claim.creator][state.claim.room] =
                                    @ \cup {state.claim.out}]
     \/ (StartDuplicate \/ StartRejected) /\ UNCHANGED taken
  /\ recorded' = IF sessions' = sessions THEN recorded
                 ELSE [recorded EXCEPT ![state.claim.creator] = @ \cup {state.claim.room}]
  /\ Coordinating /\ UNCHANGED <<state, disk, operational>>

Promoted(s) == [consumed |-> [s.consumed EXCEPT ![s.claim.creator] = s.claim.room],
                claim |-> NoClaim]
Cleared(s) == [s EXCEPT !.claim = NoClaim]

(* A rejected claim is cleared; only a duplicate lets the cycle go on.     *)
Rejected ==
  /\ \/ pc = "skip" /\ Replace(Cleared(state), "select", todo)
     \/ pc = "halt" /\ Replace(Cleared(state), "poll", {})
  /\ Coordinating /\ UNCHANGED <<slots, sessions, history>>

Promote ==
  /\ pc = "promote"
  /\ Replace(Promoted(state), "select", todo)
  /\ Coordinating /\ UNCHANGED <<slots, sessions, history>>

-----------------------------------------------------------------------------
(* Shutdown waits for the lock; a crash waits for nothing.                 *)
Stop ==
  /\ pc = "poll" /\ ~stopping
  /\ stopping' = TRUE
  /\ UNCHANGED <<world, slots, monitor, pc, todo, state, disk, operational,
                 sessions, crashes, history>>

Restart ==
  /\ crashes < MaxCrashes
  /\ crashes' = crashes + 1
  /\ slots' = [s \in SlotIds |-> [slots[s] EXCEPT !.broken = FALSE,
                 !.phase = IF @ = "blocked" THEN "active" ELSE @]]
  /\ obs' = [c \in Creators |-> Unknown] /\ polled' = {}
  /\ pc' = "load" /\ todo' = {} /\ state' = Empty
  /\ operational' = TRUE /\ stopping' = FALSE
  /\ UNCHANGED <<world, disk, sessions, history>>

(* _load_and_reconcile, before any handler runs.                           *)
Load ==
  /\ pc = "load"
  /\ \/ StoreMayFail /\ Disable
     \/ /\ disk.claim = NoClaim
        /\ state' = disk /\ EndCycle /\ UNCHANGED <<disk, operational>>
     \/ /\ disk.claim # NoClaim
        /\ LET claim == disk.claim
               new == IF MatchesClaim(claim) THEN Promoted(disk) ELSE Cleared(disk) IN
           IF MatchesClaim(claim) \/ ProvesNoStart(claim)
           THEN \/ disk' = new /\ state' = new /\ EndCycle /\ UNCHANGED operational
                \/ /\ StoreMayFail
                   /\ disk' \in {disk, new} /\ state' = disk
                   /\ operational' = FALSE /\ EndCycle
           ELSE state' = disk /\ operational' = FALSE /\ EndCycle /\ UNCHANGED disk
  /\ Coordinating /\ UNCHANGED <<slots, sessions, history>>

Init ==
  /\ world = [c \in Creators |-> [room |-> 0, live |-> FALSE]]
  /\ slots = [s \in SlotIds |-> IdleSlot]
  /\ obs = [c \in Creators |-> Unknown] /\ polled = {}
  /\ pc = "load" /\ todo = {}
  /\ state = Empty /\ disk = Empty
  /\ operational = TRUE /\ stopping = FALSE
  /\ sessions = 0 /\ crashes = 0
  /\ taken = [c \in Creators |-> [r \in RoomNumbers |-> {}]]
  /\ recorded = [c \in Creators |-> {}]

Coordinator ==
  \/ CycleCompleted \/ Apply \/ Classify \/ Select \/ Attempt \/ Rejected
  \/ Promote \/ Load

Next ==
  \/ Coordinator \/ Stop \/ Restart
  \/ \E c \in Creators : Creator(c) \/ Poll(c)
  \/ \E s \in SlotIds : \/ PublishRoom(s) \/ JobEnds(s) \/ ManualRejected(s)
                        \/ \E c \in Creators : ManualStart(s, c)

Spec == Init /\ [][Next]_vars

(* The monitor's thread runs and its resolver calls return; so does the    *)
(* coordinator, called by that thread.  Recordings end.  What is tried     *)
(* again and again does not fail for ever: an observation, an admission, a *)
(* start.                                                                  *)
FairSpec ==
  /\ Spec /\ WF_vars(Coordinator)
  /\ \A c \in Creators : /\ WF_vars(Poll(c))
                         /\ SF_vars(Poll(c) /\ obs'[c] # Unknown)
  /\ \A s \in SlotIds : WF_vars(JobEnds(s))
  /\ SF_vars(Classify /\ todo' # {})
  /\ SF_vars(Select /\ pc' = "start")
  /\ SF_vars(Attempt /\ pc' = "promote")

-----------------------------------------------------------------------------
(* Properties.                                                             *)
(* While a controller still has the job of an automatic start, whatever    *)
(* ended it, its LIVE is not started again before the creator has been     *)
(* observed offline: not after a restart between any two steps of the      *)
(* start, nor after any failed write of the state.                         *)
OnRecord(c, r) ==
  \E s \in SlotIds : slots[s].creator = c /\ slots[s].out \in taken[c][r]

NoRepeatOnRecord ==
  [][\A c \in Creators, r \in RoomNumbers :
       OnRecord(c, r) => taken'[c][r] \subseteq taken[c][r]]_vars

(* What the documentation says beyond that (SERVICE.md:360): a LIVE is     *)
(* started automatically once until the creator is observed offline.       *)
OncePerLive ==
  \A c \in Creators, r \in RoomNumbers : Cardinality(taken[c][r]) <= 1

(* No LIVE is given up unrecorded: a consumed room had a recording of its  *)
(* own, so a claim whose start never happened is not taken for one that    *)
(* did.                                                                    *)
ConsumedWasRecorded ==
  \A c \in Creators, r \in 1..MaxRooms :
    disk.consumed[c] = r => r \in recorded[c]

(* An automatic start is made by a coordinator that is running and not     *)
(* stopped, with its claim in the state file.                              *)
StartsClaimed ==
  [][\A c \in Creators, r \in RoomNumbers :
       ~(taken'[c][r] \subseteq taken[c][r])
         => /\ operational /\ ~stopping
            /\ disk.claim.creator = c /\ disk.claim.room = r]_vars

=============================================================================
