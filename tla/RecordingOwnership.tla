------------------------- MODULE RecordingOwnership -------------------------
(***************************************************************************)
(* tikrec/recording_ownership.py: what the recording manager remembers of  *)
(* the session each slot works on, and how one pass of reads (rich status, *)
(* health, narrow ownership, sometimes health again) updates that memory   *)
(* or declares the slot's owner unknown.                                   *)
(*                                                                         *)
(* A LIVE page is compared by PageOf (creator case ignored), an output by  *)
(* its resolved path, and the retained parts directory by PartsOf: two     *)
(* outputs may differ and share the parts stem (a.mp4 and a.MP4).          *)
(***************************************************************************)
EXTENDS Naturals

CONSTANTS
  Urls,      \* accepted public LIVE page spellings
  Pages,     \* page identities
  PageOf,    \* page identity of a spelling
  Outputs,   \* absolute .mp4 paths
  Parts,     \* retained parts directories
  PartsOf,   \* the parts directory derived from an output
  Rooms,     \* canonical room identities
  NoRoom,    \* room_id is None
  NoOutput,  \* output_path and parts_directory are None in an owner
  NoOwner,   \* no cache entry
  NoJob,     \* the controller's initial job: state "idle"
  Corrupt    \* the job of a controller whose store could not be loaded

ASSUME PageOfAssumption == PageOf \in [Urls -> Pages]
ASSUME PartsOfAssumption == PartsOf \in [Outputs -> Parts]
ASSUME NoneAssumption == NoRoom \notin Rooms /\ NoOutput \notin Outputs

MaybeRoom == Rooms \cup {NoRoom}

(* The allowlisted facts of one recording.  needs: the state it is in is   *)
(* not terminal, so that a restart would reconcile it.                     *)
Jobs == [session : Nat \ {0}, url : Urls, out : Outputs, room : MaybeRoom,
         stop : BOOLEAN, needs : BOOLEAN]

ASSUME SpecialAssumption == /\ NoJob \notin Jobs /\ Corrupt \notin Jobs
                            /\ NoJob # Corrupt

Owners == [session : Nat \ {0}, page : Pages, room : MaybeRoom,
           out : Outputs \cup {NoOutput}]

ASSUME OwnerAssumption == NoOwner \notin Owners

(* What a caller of status() and health() sees; the facts of a status      *)
(* without a session identity are NoOwner.                                 *)
Statuses == [state : {"idle", "job", "broken", "unavailable"},
             active : BOOLEAN, facts : Owners \cup {NoOwner}]
Healths == [available : BOOLEAN, active : BOOLEAN]

FactsOf(job) == [session |-> job.session, page |-> PageOf[job.url],
                 room |-> job.room, out |-> job.out]

OwnsCurrentWork(status, health) ==
  status.active \/ (~health.available /\ status.state # "idle")

SamePaths(o1, o2) == o1 = o2 \/ PartsOf[o1] = PartsOf[o2]

-----------------------------------------------------------------------------
(* OwnerCache._merge: facts of the same session never lose a room or path  *)
(* already known, and facts that contradict it are refused.                *)
Contradicts(prior, facts) ==
  \/ prior.page # facts.page
  \/ prior.room # NoRoom /\ facts.room # NoRoom /\ prior.room # facts.room
  \/ prior.out # NoOutput /\ facts.out # NoOutput /\ prior.out # facts.out

(* Mutant: the latest facts win, also over a reserved room.                *)
CompletedByLatest(prior, facts) == facts

Completed(prior, facts) ==
  [session |-> facts.session, page |-> facts.page,
   room |-> IF facts.room = NoRoom THEN prior.room ELSE facts.room,
   out |-> IF facts.out = NoOutput THEN prior.out ELSE facts.out]

Known(owner) == [owner |-> owner, unknown |-> owner.out = NoOutput]
Unknown(owner) == [owner |-> owner, unknown |-> TRUE]

Merge(prior, facts) ==
  IF prior = NoOwner THEN Known(facts)
  ELSE IF prior.session # facts.session THEN Known(facts)
  ELSE IF Contradicts(prior, facts) THEN Unknown(prior)
  ELSE Known(Completed(prior, facts))

-----------------------------------------------------------------------------
(* OwnerCache.refresh, first half: a readable status of current work is    *)
(* merged; without an identity it leaves the owner unknown.                *)
AfterStatus(prior, status, health) ==
  IF status.state = "unavailable" \/ ~OwnsCurrentWork(status, health)
  THEN [owner |-> prior, unknown |-> FALSE]
  ELSE IF status.facts = NoOwner THEN Unknown(prior)
  ELSE Merge(prior, status.facts)

(* The narrow ownership read: its facts, "partial" (current, but without   *)
(* a usable identity), "settled" (current is False) or "failed".           *)
AfterSnapshot(first, snapshot) == Merge(first.owner, snapshot)

AfterPartial(first) == Unknown(first.owner)

Released == [owner |-> NoOwner, unknown |-> FALSE]

(* Mutant: no second health read; the earlier activity is believed.        *)
AfterNoRecheck(first, inactive) == Unknown(first.owner)

(* The second health read, made when a settled snapshot contradicts an     *)
(* earlier active health: only an affirmative "not active" releases.       *)
AfterRecheck(first, inactive) ==
  IF inactive THEN Released ELSE Unknown(first.owner)

(* Mutant: an unreadable status counts as a slot that is free.             *)
AfterFailedOpen(first, status, health) ==
  IF status.state # "unavailable" /\ OwnsCurrentWork(status, health)
  THEN first ELSE Released

(* No narrow read: weaker evidence decides, and fails closed.              *)
AfterFailed(first, status, health) ==
  IF status.state # "unavailable"
  THEN IF OwnsCurrentWork(status, health)
       THEN [first EXCEPT !.unknown = @ \/ first.owner = NoOwner]
       ELSE Released
  ELSE IF first.owner # NoOwner
       THEN [first EXCEPT !.unknown = \/ first.owner.room = NoRoom
                                      \/ first.owner.out = NoOutput]
       ELSE [first EXCEPT !.unknown = health.active \/ ~health.available]
=============================================================================
