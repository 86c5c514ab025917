----------------------------- MODULE LiveCapture -----------------------------
(***************************************************************************)
(* capture_live (live.py) with its connections, its outages, the records   *)
(* it leaves in connections.jsonl and session.json, its crashes, and the   *)
(* resumes that read those records back (session_resume.py).  The network  *)
(* answers as it likes; the page may show another room.                    *)
(***************************************************************************)
EXTENDS PartWriter, Sequences

CONSTANTS Rooms, NoRoom, NoManifest,
          MaxFailures, MaxEmpty,  \* consecutive failures, empty connections
          Checks,                 \* offline answers that prove the end
          Window,                 \* the recovery window, counted in waits
          MaxConnections, MaxCrashes, MaxResumes,
          StopsBeforeConnecting   \* a stop may precede a resume's connection

ASSUME LiveAssumption ==
  /\ MaxFailures \in Nat \ {0} /\ MaxEmpty \in Nat \ {0}
  /\ Checks \in Nat \ {0} /\ Window \in Nat \ {0}
  /\ StopsBeforeConnecting \in BOOLEAN
  /\ NoRoom \notin Rooms

VARIABLES pc,        \* where capture_live is, "idle" when no process runs it
          m,         \* its local variables
          stop,      \* the stop event
          manifest,  \* session.json
          log,       \* the connection and resume lines of connections.jsonl
          torn,      \* the last line of the log is cut
          proof,     \* history: what the latest answers prove of the LIVE's end
          waits,     \* history: outage waits since media was last retained
          crashes, resumes

disk == <<manifest, log, torn>>
written == <<files, partial, writer>>
history == <<proof, waits, crashes, resumes>>
vars == <<files, partial, writer, pc, m, stop, manifest, log, torn, proof,
          waits, crashes, resumes>>

Least(a, b) == IF a < b THEN a ELSE b
Largest(S) == CHOOSE n \in S \cup {0} : \A k \in S : k <= n

Memory(number, room, started) ==
  [number |-> number, next |-> Count + 1, all |-> Count, saved |-> room, room |-> room,
   fails |-> 0, empty |-> 0, outage |-> FALSE, elapsed |-> 0,
   started |-> started, fresh |-> started, pending |-> <<>>, tries |-> 0,
   outcome |-> "none"]

HasMedia == writer.retained > 0

(***************************************************************************)
(* The head of the loop: the wait of an outage or of a retry, and the next *)
(* connection.                                                             *)
(***************************************************************************)
Wait ==
  /\ pc = "top" /\ ~stop /\ ~m.outage
  /\ pc' = "attempt"
  /\ UNCHANGED <<written, m, stop, disk, history>>

OutageWait ==
  /\ pc = "top" /\ ~stop /\ m.outage
  /\ waits' = waits + 1
  /\ \/ /\ m.elapsed + 1 < Window
        /\ m' = [m EXCEPT !.elapsed = @ + 1]
        /\ pc' = "attempt"
     \/ /\ m.elapsed + 1 >= Window
        /\ m' = [m EXCEPT !.outage = FALSE]
        /\ pc' = "fail"
  /\ UNCHANGED <<written, stop, disk, proof, crashes, resumes>>

StopAtTop ==
  /\ pc = "top" /\ stop
  /\ m.fresh => StopsBeforeConnecting
  /\ m' = [m EXCEPT !.outage = FALSE, !.outcome = "interrupted"]
  /\ pc' = "finish"
  /\ UNCHANGED <<written, stop, disk, history>>

Attempt ==
  /\ pc = "attempt" /\ m.number < MaxConnections
  /\ m' = [m EXCEPT !.number = @ + 1, !.tries = 0, !.fresh = FALSE]
  /\ writer' = Fresh(m.next)
  /\ pc' = "resolve"
  /\ UNCHANGED <<files, partial, stop, disk, history>>

(***************************************************************************)
(* resolve_live_url_confirmed over resolve_bound_live.                     *)
(***************************************************************************)
Ends(outcome) == m' = [m EXCEPT !.outcome = outcome] /\ pc' = "record"

OtherRoom(room) == m.saved # NoRoom /\ room # m.saved

Live(room) ==
  /\ pc \in {"resolve", "confirm"} /\ ~stop
  /\ \/ /\ OtherRoom(room)
        /\ Ends("live_changed")
        /\ proof' = Checks
     \/ /\ ~OtherRoom(room)
        /\ m' = [m EXCEPT !.room = room, !.saved = IF @ = NoRoom THEN room ELSE @]
        /\ pc' = "identify"
        /\ proof' = 0
  /\ UNCHANGED <<written, stop, disk, waits, crashes, resumes>>

ConfirmedAtOnce == TRUE
Confirmed == m.all = 0 \/ m.tries + 1 = Checks

Offline ==
  /\ pc \in {"resolve", "confirm"} /\ ~stop
  /\ proof' = Least(proof + 1, Checks)
  /\ \/ Confirmed /\ Ends("offline")
     \/ /\ ~Confirmed
        /\ m' = [m EXCEPT !.tries = @ + 1]
        /\ pc' = "confirm"
  /\ UNCHANGED <<written, stop, disk, waits, crashes, resumes>>

Unresolved ==
  /\ pc \in {"resolve", "confirm"} /\ ~stop
  /\ \E outcome \in {"resolver_error", "resolution_error"} : Ends(outcome)
  /\ proof' = 0
  /\ UNCHANGED <<written, stop, disk, waits, crashes, resumes>>

StopResolving ==
  /\ pc \in {"resolve", "confirm", "identify"} /\ stop
  /\ Ends("interrupted")
  /\ UNCHANGED <<written, stop, disk, history>>

(***************************************************************************)
(* The session begins with the first room that answers: its manifest, the  *)
(* attempts made before it, and the room.                                  *)
(***************************************************************************)
Append1(record) == log' = Append(log, record)

Prepare ==
  /\ pc = "identify" /\ ~stop /\ ~m.started
  /\ manifest' = [status |-> "recording", connections |-> m.number, parts |-> 0,
                  room |-> NoRoom, final |-> "pending"]
  /\ m' = [m EXCEPT !.started = TRUE]
  /\ pc' = "pending"
  /\ UNCHANGED <<written, stop, log, torn, history>>

AppendPending ==
  /\ pc = "pending" /\ m.pending # <<>>
  /\ Append1(Head(m.pending))
  /\ m' = [m EXCEPT !.pending = Tail(@)]
  /\ UNCHANGED <<written, pc, stop, manifest, torn, history>>

RecordRoom ==
  /\ \/ pc = "pending" /\ m.pending = <<>>
     \/ pc = "identify" /\ ~stop /\ m.started
  /\ manifest' = [manifest EXCEPT !.room = IF @ = NoRoom THEN m.room ELSE @]
  /\ pc' = "write"
  /\ UNCHANGED <<written, m, stop, log, torn, history>>

(***************************************************************************)
(* The connection: its tags, and how it ends.  A stop wins over a failure. *)
(***************************************************************************)
Tag ==
  /\ pc = "write" /\ ~stop
  /\ Tags(m.room)
  /\ UNCHANGED <<pc, m, stop, disk, history>>

ConnectionEnds(outcome) ==
  /\ pc = "write"
  /\ (outcome = "interrupted") <=> stop
  /\ outcome = "refresh" => writer.config = NoConfig /\ ~writer.aac
  /\ CloseWriter
  /\ Ends(outcome)
  /\ UNCHANGED <<stop, disk, history>>

(***************************************************************************)
(* close_record: the line of the log, then the counts of the manifest.     *)
(* Resolver failures inside an outage are not written one by one.          *)
(***************************************************************************)
Persisted == m.outcome = "resolver_error" => ~m.outage

ConnectionRecord ==
  [kind |-> "connection", number |-> m.number,
   first |-> IF HasMedia THEN m.next ELSE 0,
   last |-> IF HasMedia THEN m.next + writer.retained - 1 ELSE 0]

NextPart == m.next + writer.retained

Record ==
  /\ pc = "record"
  /\ IF m.started /\ Persisted THEN Append1(ConnectionRecord) ELSE UNCHANGED log
  /\ m' = [m EXCEPT !.all = @ + writer.retained, !.next = NextPart,
                    !.pending = IF m.started THEN @ ELSE Append(@, ConnectionRecord)]
  /\ pc' = IF m.started /\ Persisted THEN "count" ELSE "after"
  /\ UNCHANGED <<written, stop, manifest, torn, history>>

Counts ==
  /\ pc = "count"
  /\ manifest' = [manifest EXCEPT !.connections = m.number, !.parts = m.all]
  /\ pc' = "after"
  /\ UNCHANGED <<written, m, stop, log, torn, history>>

(***************************************************************************)
(* What the outcome of a connection leads to.                              *)
(***************************************************************************)
Fails == IF HasMedia THEN 0 ELSE Least(m.fails + 1, MaxFailures)
Empties == IF HasMedia THEN 0 ELSE m.empty
Waited == IF HasMedia THEN 0 ELSE waits

AfterClosed ==
  /\ pc = "after" /\ m.outcome = "closed"
  /\ LET empties == IF HasMedia THEN 0 ELSE m.empty + 1 IN
       /\ m' = [m EXCEPT !.fails = 0, !.empty = empties,
                         !.outage = @ /\ ~HasMedia]
       /\ pc' = IF empties >= MaxEmpty THEN "fail" ELSE "top"
  /\ waits' = Waited
  /\ UNCHANGED <<written, stop, disk, proof, crashes, resumes>>

(* A network failure enters an outage, or belongs to the one that is open:  *)
(* the window runs from the first failure since media was retained.         *)
ElapsedAnew == 0
Elapsed == IF m.outage /\ ~HasMedia THEN m.elapsed ELSE 0

AfterTransient ==
  /\ pc = "after" /\ m.outcome \in {"resolver_error", "network"}
  /\ m' = [m EXCEPT !.fails = Fails, !.empty = Empties,
                    !.outage = m.saved # NoRoom, !.elapsed = Elapsed]
  /\ pc' = IF m.saved = NoRoom /\ Fails >= MaxFailures THEN "fail" ELSE "top"
  /\ waits' = Waited
  /\ UNCHANGED <<written, stop, disk, proof, crashes, resumes>>

AfterRefresh ==
  /\ pc = "after" /\ m.outcome = "refresh"
  /\ m' = [m EXCEPT !.fails = Fails, !.empty = Empties,
                    !.outage = @ /\ m.all > 0]
  /\ pc' = IF m.all = 0 \/ Fails >= MaxFailures THEN "fail" ELSE "top"
  /\ waits' = Waited
  /\ UNCHANGED <<written, stop, disk, proof, crashes, resumes>>

AfterEnd ==
  /\ pc = "after"
  /\ m.outcome \in {"offline", "live_changed", "interrupted",
                    "resolution_error", "capture_error"}
  /\ m' = [m EXCEPT !.outage = FALSE]
  /\ pc' = IF \/ m.outcome \in {"resolution_error", "capture_error"}
              \/ m.outcome = "offline" /\ m.all = 0
           THEN "fail" ELSE "finish"
  /\ UNCHANGED <<written, stop, disk, history>>

(***************************************************************************)
(* The end of the capture: finish_live and fail_live.                      *)
(***************************************************************************)
Interrupted == m.outcome = "interrupted"
Counted == [manifest EXCEPT !.connections = m.number, !.parts = m.all]

Finish ==
  /\ pc = "finish"
  /\ \/ /\ m.all > 0
        /\ manifest' = [Counted EXCEPT !.final = "running"]
        /\ pc' = "encode"
     \/ /\ m.all = 0
        /\ manifest' = IF m.started
                       THEN [Counted EXCEPT !.final = "not_started",
                               !.status = IF Interrupted THEN "interrupted" ELSE "completed"]
                       ELSE manifest
        /\ pc' = "idle"
  /\ UNCHANGED <<written, m, stop, log, torn, history>>

Encode ==
  /\ pc = "encode"
  /\ \/ manifest' = [manifest EXCEPT !.final = "completed",
                       !.status = IF Interrupted THEN "interrupted" ELSE "completed"]
     \/ manifest' = [manifest EXCEPT !.final = "failed", !.status = "failed"]
  /\ pc' = "idle"
  /\ UNCHANGED <<written, m, stop, log, torn, history>>

Fail ==
  /\ pc = "fail"
  /\ manifest' = IF m.started
                 THEN [Counted EXCEPT !.final = "not_started", !.status = "failed"]
                 ELSE manifest
  /\ pc' = "idle"
  /\ UNCHANGED <<written, m, stop, log, torn, history>>

RequestStop ==
  /\ pc # "idle" /\ ~stop
  /\ stop' = TRUE
  /\ UNCHANGED <<written, pc, m, disk, history>>

(* The process dies: the open part stays a partial, and a line being        *)
(* appended may be cut.                                                     *)
Appending == pc \in {"record", "pending", "after", "resume"}
Crash ==
  /\ pc # "idle" /\ crashes < MaxCrashes
  /\ crashes' = crashes + 1
  /\ pc' = "idle"
  /\ m' = Memory(0, NoRoom, FALSE)
  /\ stop' = FALSE
  /\ torn' \in IF Appending THEN BOOLEAN ELSE {torn}
  /\ writer' = Fresh(1)
  /\ UNCHANGED <<files, partial, manifest, log, proof, waits, resumes>>

(***************************************************************************)
(* What later processes read of the session: _read_connections and the     *)
(* counts of the manifest.                                                 *)
(***************************************************************************)
Claims(record) == IF record.kind = "connection" /\ record.first > 0
                  THEN record.first..record.last ELSE {}

LogReads ==
  \A j \in DOMAIN log :
    /\ \A i \in 1..j - 1 :
         /\ log[i].number < log[j].number
              \/ /\ log[i].kind = "resume" /\ log[j].kind = "connection"
                 /\ log[i].number = log[j].number
         /\ Claims(log[i]) \cap Claims(log[j]) = {}
    /\ Claims(log[j]) \subseteq 1..Count
    /\ log[j].kind = "resume" => log[j].next \in 1..Count + 1

Logged == Largest({log[i].number : i \in DOMAIN log})

Predates == manifest.status # "recording" /\ Logged > manifest.connections

Accepted == /\ ~torn /\ LogReads /\ ~Predates
            /\ manifest.parts <= Count
            /\ manifest.status = "recording" \/ manifest.parts = Count

(* The crash partial becomes the next part (writer_recovery.py).            *)
RecoverPartial ==
  /\ pc = "idle" /\ manifest # NoManifest /\ Kept /\ Sound(partial)
  /\ manifest.status = "recording" /\ manifest.final = "pending"
  /\ ~torn /\ LogReads /\ manifest.parts <= Count
  /\ files' = Closed
  /\ partial' = NoPart
  /\ manifest' = [manifest EXCEPT !.parts = Count + 1]
  /\ UNCHANGED <<writer, pc, m, stop, log, torn, history>>

(* prepare_resume and begin_resume: the manifest first, then the line that  *)
(* reserves the next connection number.                                     *)
ContinuesManifest == manifest.connections + 1
Continues == Largest({manifest.connections, Logged}) + 1

Resume ==
  /\ pc = "idle" /\ resumes < MaxResumes
  /\ manifest # NoManifest /\ Discoverable /\ Count > 0 /\ Accepted
  /\ manifest.status \in {"recording", "interrupted", "failed"}
  /\ manifest.final \in {"pending", "not_started"}
  /\ manifest.room # NoRoom
  /\ Continues <= MaxConnections
  /\ manifest' = [manifest EXCEPT !.status = "recording", !.final = "pending",
                    !.connections = Continues, !.parts = Count]
  /\ m' = Memory(Continues - 1, manifest.room, TRUE)
  /\ resumes' = resumes + 1
  /\ waits' = 0 /\ proof' = 0
  /\ stop' = FALSE
  /\ pc' = "resume"
  /\ UNCHANGED <<written, log, torn, crashes>>

ReserveConnection ==
  /\ pc = "resume"
  /\ Append1([kind |-> "resume", number |-> m.number + 1, next |-> m.next])
  /\ pc' = "top"
  /\ UNCHANGED <<written, m, stop, manifest, torn, history>>

Init ==
  /\ WriterInit
  /\ pc = "top" /\ m = Memory(0, NoRoom, FALSE) /\ stop = FALSE
  /\ manifest = NoManifest /\ log = <<>> /\ torn = FALSE
  /\ proof = 0 /\ waits = 0 /\ crashes = 0 /\ resumes = 0

Next ==
  \/ Wait \/ OutageWait \/ StopAtTop \/ Attempt
  \/ \E room \in Rooms : Live(room)
  \/ Offline \/ Unresolved \/ StopResolving
  \/ Prepare \/ AppendPending \/ RecordRoom
  \/ Tag
  \/ \E outcome \in {"closed", "network", "refresh", "capture_error", "interrupted"} :
       ConnectionEnds(outcome)
  \/ Record \/ Counts
  \/ AfterClosed \/ AfterTransient \/ AfterRefresh \/ AfterEnd
  \/ Finish \/ Encode \/ Fail
  \/ RequestStop \/ Crash
  \/ RecoverPartial \/ Resume \/ ReserveConnection

Spec == Init /\ [][Next]_vars
(***************************************************************************)
(* Properties.                                                             *)
(***************************************************************************)
(* The numbers the capture carries in memory and the directory agree over   *)
(* reconnects, crashes, recovered partials and resumes: the parts are       *)
(* numbered without a gap, the next number is never taken, each part passes *)
(* the structural check that resume and recovery apply, and all the media   *)
(* is of the one room the manifest names.                                   *)
SessionSound ==
  /\ DOMAIN files = 1..Count
  /\ pc = "write" => writer.start + writer.retained = Count + 1
  /\ \A i \in DOMAIN files : Sound(files[i]) /\ files[i].room = manifest.room

(* Whatever a capture leaves behind, by returning, failing or dying between *)
(* any two of its writes, is accepted by the readers of its evidence, but   *)
(* for a line cut by the crash; and without a crash each part is claimed by *)
(* a connection.                                                            *)
EvidenceAccepted ==
  pc = "idle" /\ manifest # NoManifest /\ ~torn =>
    /\ Accepted
    /\ crashes = 0 => UNION {Claims(log[i]) : i \in DOMAIN log} = DOMAIN files

(* A session is closed as completed only when its LIVE was proven over: by  *)
(* so many offline answers in a row, or by another room on the page.        *)
EndProven ==
  manifest # NoManifest /\ manifest.status = "completed" /\ m.all > 0 => proof = Checks

(* Patience is bounded: with no media retained in between, a capture never  *)
(* waits out more than one recovery window, however its failures, empty     *)
(* connections and resolutions of the room alternate.                       *)
PatienceBounded == waits <= Window

(* SERVICE.md: a stopped job's finalization is retried.  It needs a closed  *)
(* manifest that has not fallen behind the log.                             *)
ManifestCurrent == pc = "idle" /\ manifest # NoManifest => ~Predates
=============================================================================
