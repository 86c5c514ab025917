------------------------- MODULE RecordingController -------------------------
(***************************************************************************)
(* One recording controller (tikrec/recording.py) with the worker it owns: *)
(* a capture (recording_worker.py, live.py, live_resume.py) or, after a    *)
(* restart, the startup reconciler (reconciliation.py), which may hand     *)
(* over to a resumed capture.  HTTP handlers call start, stop and shutdown *)
(* concurrently; each holds the controller's lock for one section, and so  *)
(* does the worker where it touches shared state.  Between two sections    *)
(* anything may happen, a crash of the process included.                   *)
(*                                                                         *)
(* Not distinguished: writes of the job that change no field kept here     *)
(* (network observations), and the diagnostics returned with an outcome.   *)
(***************************************************************************)
EXTENDS SessionStorage

CONSTANTS
  StoreMayFail,    \* a write of the job store may fail, a read of storage too
  PartialsRemain,  \* the process may crash while the writer has a part open
  StopsInRecovery, \* stop and shutdown may be called before recovery settles
  RelockMayFail,   \* a resumed capture may be refused the writer lease, which
                   \* it takes inside the one recovery holds (an I/O fault)
  MaxStarts,       \* bound: starts
  MaxCrashes       \* bound: restarts of the process

ASSUME SwitchAssumption == /\ StoreMayFail \in BOOLEAN
                           /\ PartialsRemain \in BOOLEAN
                           /\ StopsInRecovery \in BOOLEAN
                           /\ RelockMayFail \in BOOLEAN
ASSUME BoundAssumption == {MaxStarts, MaxCrashes} \subseteq Nat

VARIABLES
  job,      \* RecordingController._job
  active, blocked, closed,
  event,    \* the stop Event the worker checks
  down,     \* the call of shutdown
  wpc,      \* the worker's next section; "none" without a worker
  resumed,  \* the worker continues a recovered session
  rjob,     \* the reconciler's own copy of the job
  plan,     \* the reconciler will preserve an encoder artifact
  disk,     \* the job store
  files,    \* the session's manifest and media files
  starts, crashes,
  stopped,     \* history: a stop of this session was acknowledged
  afterStop,   \* history: media was written after it
  promotions   \* history: outputs promoted in this session

memory == <<active, blocked, closed, event, down>>
counters == <<starts, crashes>>
history == <<stopped, afterStop, promotions>>
vars == <<job, memory, wpc, resumed, rjob, plan, disk, files, counters, history>>

CapturePhases == {"lease", "reopen", "resolve", "resolving", "identify", "prepare",
                  "open", "recording", "reconnect", "finish", "mark", "encode",
                  "encoding", "close", "returned", "raised", "outage", "settle"}
RecoveryPhases == {"rlease", "load", "observe", "inspect", "compare", "claim",
                   "marked", "preserve", "publish", "record", "decide", "proven",
                   "ask", "rresolve", "entered", "routage", "recovered", "expired", "found", "resuming", "finalize",
                   "rmark", "rpreserve", "rencode", "rencoding", "rclose",
                   "rcomplete", "settled", "resume", "exhausted", "rfailed"}

Available == ~active /\ ~closed /\ ~blocked

SaveUnflushed(j, ok) == ok /\ disk' \in {disk, j}

(* JobStateStore.save of j; a write that fails may have replaced the file. *)
Save(j, ok) ==
  IF Valid(j) THEN IF ok THEN disk' = j ELSE StoreMayFail /\ disk' \in {disk, j}
              ELSE ~ok /\ UNCHANGED disk

-----------------------------------------------------------------------------
(* Calls of the HTTP handlers.                                             *)

Start ==
  /\ Available /\ starts < MaxStarts
  /\ Save(NewJob, TRUE)
  /\ job' = NewJob /\ active' = TRUE /\ event' = FALSE
  /\ wpc' = "lease" /\ resumed' = FALSE
  /\ files' = NoFiles
  /\ starts' = starts + 1
  /\ stopped' = FALSE /\ afterStop' = FALSE /\ promotions' = 0
  /\ UNCHANGED <<blocked, closed, down, rjob, plan, crashes>>

(* The first write or the launch of the thread fails, and the failed job   *)
(* is written in turn.  While the old job is the durable one its files are *)
(* the ones kept here.                                                     *)
StartFails ==
  /\ Available /\ starts < MaxStarts
  /\ job' = [NewJob EXCEPT !.state = "failed", !.ended = TRUE]
  /\ disk' \in {job'} \cup IF StoreMayFail THEN {NewJob, disk} ELSE {}
  /\ event' = FALSE
  /\ starts' = starts + 1
  /\ IF disk' = disk
     THEN UNCHANGED <<files, history>>
     ELSE /\ files' = NoFiles /\ stopped' = FALSE /\ afterStop' = FALSE
          /\ promotions' = 0
  /\ UNCHANGED <<active, blocked, closed, down, wpc, resumed, rjob, plan, crashes>>

Stop ==
  /\ active \/ blocked
  /\ job # NoJob
  /\ StopsInRecovery \/ ~blocked
  /\ job' = [job EXCEPT !.stop = TRUE]
  /\ \E ok \in BOOLEAN :
       /\ Save(job', ok)
       /\ event' = (event \/ ok)
       /\ stopped' = (stopped \/ ok)
  /\ UNCHANGED <<active, blocked, closed, down, wpc, resumed, rjob, plan, files,
                 counters, afterStop, promotions>>

(* A write that fails leaves shutdown by its exception: no event, no join. *)
Shutdown ==
  /\ down = "up"
  /\ StopsInRecovery \/ ~blocked
  /\ closed' = TRUE
  /\ \E ok \in BOOLEAN :
       /\ IF active THEN job' = [job EXCEPT !.stop = TRUE] /\ Save(job', ok)
                    ELSE ok /\ UNCHANGED <<job, disk>>
       /\ event' = (event \/ ok)
       /\ down' = IF ok THEN "joining" ELSE "raised"
  /\ UNCHANGED <<active, blocked, wpc, resumed, rjob, plan, files, counters, history>>

ShutdownReturns ==
  /\ down = "joining" /\ wpc = "none"
  /\ down' = "returned"
  /\ UNCHANGED <<job, active, blocked, closed, event, wpc, resumed, rjob, plan,
                 disk, files, counters, history>>

-----------------------------------------------------------------------------
(* The capture worker.  SetState is RecordingController._state.            *)
Outage == job.state = "reconnecting" /\ job.room

SetStateInMemory(s, ok) == ok /\ job' = [job EXCEPT !.state = s] /\ UNCHANGED disk

SetState(s, ok) ==
  /\ job' = [job EXCEPT !.state = s]
  /\ IF s = job.state THEN ok /\ UNCHANGED disk ELSE Save(job', ok)

Capturing == UNCHANGED <<memory, resumed, rjob, plan, counters, stopped>>
NoWrite == UNCHANGED <<job, disk>>
NoMedia == UNCHANGED <<files, afterStop, promotions>>

Lease ==
  /\ wpc = "lease"
  /\ wpc' = IF resumed THEN "reopen" ELSE "resolve"
  /\ Capturing /\ NoWrite /\ NoMedia

LeaseFails ==
  /\ wpc = "lease" /\ (resumed => RelockMayFail)
  /\ job' = [job EXCEPT !.state = "failed", !.ended = TRUE]
  /\ \E ok \in BOOLEAN : Save(job', ok) /\ blocked' = (resumed \/ ~ok)
  /\ active' = FALSE /\ wpc' = "none" /\ resumed' = FALSE
  /\ UNCHANGED <<closed, event, down, rjob, plan, files, counters, history>>

(* capture_live_resume up to its first connection.                         *)
Reopen ==
  /\ wpc = "reopen"
  /\ \/ Resumable(files) /\ files' = Reopened(files) /\ wpc' = "resolve"
     \/ (~Resumable(files) \/ StoreMayFail) /\ wpc' = "raised" /\ UNCHANGED files
  /\ Capturing /\ NoWrite /\ UNCHANGED <<afterStop, promotions>>

(* The top of capture_live's loop, an attempt in an outage keeping its state. *)
Resolve ==
  /\ wpc = "resolve"
  /\ \/ event /\ wpc' = "finish" /\ NoWrite /\ UNCHANGED files
     \/ ~event /\ Outage /\ wpc' = "outage" /\ files' = CaptureFailed(files) /\ NoWrite
     \/ /\ ~event
        /\ \E ok \in BOOLEAN :
             /\ \/ SetState("resolving", ok)
                \/ Outage /\ SetState("reconnecting", ok)
             /\ wpc' = IF ok THEN "resolving" ELSE "raised"
             /\ files' = IF ok THEN files ELSE CaptureFailed(files)
  /\ Capturing /\ UNCHANGED <<afterStop, promotions>>

(* The resolution returns; a stop seen meanwhile prevails over its answer. *)
Resolved ==
  /\ wpc = "resolving"
  /\ \/ event /\ wpc' = "finish" /\ UNCHANGED files
     \/ ~event /\ wpc' \in {"identify", "reconnect"} /\ UNCHANGED files
     \/ ~event /\ (files.parts \/ job.room) /\ wpc' = "finish" /\ UNCHANGED files
     \/ ~event /\ wpc' = "raised" /\ files' = CaptureFailed(files)
  /\ Capturing /\ NoWrite /\ UNCHANGED <<afterStop, promotions>>

(* RecordingController._identity; without a room nothing is recorded.      *)
Identify ==
  /\ wpc = "identify"
  /\ \E room, ok \in BOOLEAN :
       /\ job' = [job EXCEPT !.room = @ \/ room]
       /\ IF job' = job THEN ok /\ UNCHANGED disk ELSE Save(job', ok)
       /\ wpc' = IF ok THEN "prepare" ELSE "raised"
       /\ files' = IF ok THEN files ELSE CaptureFailed(files)
  /\ Capturing /\ UNCHANGED <<afterStop, promotions>>

Prepare ==
  /\ wpc = "prepare"
  /\ files' = Prepared(files, job.room) /\ wpc' = "open"
  /\ Capturing /\ NoWrite /\ UNCHANGED <<afterStop, promotions>>

Open ==
  /\ wpc = "open"
  /\ \E ok \in BOOLEAN :
       /\ SetState("recording", ok)
       /\ wpc' = IF ok THEN "recording" ELSE "raised"
       /\ files' = IF ok THEN files ELSE CaptureFailed(files)
  /\ Capturing /\ UNCHANGED <<afterStop, promotions>>

(* A tag is written at the check of the Event that lets it pass.           *)
WriterWrites ==
  /\ wpc = "recording" /\ ~event
  /\ files' = [files EXCEPT !.partial = "writer"]
  /\ afterStop' = (afterStop \/ stopped)
  /\ UNCHANGED <<wpc, promotions>> /\ Capturing /\ NoWrite

ConnectionEnds ==
  /\ wpc = "recording"
  /\ \/ wpc' = (IF event THEN "finish" ELSE "reconnect") /\ files' = PartClosed(files)
     \/ wpc' = "raised" /\ files' = CaptureFailed(PartClosed(files))
  /\ Capturing /\ NoWrite /\ UNCHANGED <<afterStop, promotions>>

(* After a lost connection: wait for the next one, or give up.             *)
Reconnect ==
  /\ wpc = "reconnect"
  /\ \/ /\ \E ok \in BOOLEAN : /\ SetState("reconnecting", ok)
                               /\ wpc' = IF ok THEN "resolve" ELSE "raised"
        /\ UNCHANGED files
     \/ wpc' = "raised" /\ files' = CaptureFailed(files) /\ NoWrite
  /\ Capturing /\ UNCHANGED <<afterStop, promotions>>

(* finish_live.                                                            *)
Finish ==
  /\ wpc = "finish"
  /\ \/ /\ files.parts
        /\ \E ok \in BOOLEAN : /\ SetState("finalizing", ok)
                               /\ wpc' = IF ok THEN "mark" ELSE "raised"
        /\ UNCHANGED files
     \/ ~files.parts /\ files' = EndedEmpty(files) /\ wpc' = "returned" /\ NoWrite
     \/ StoreMayFail /\ wpc' = "raised" /\ NoWrite /\ UNCHANGED files
  /\ Capturing /\ UNCHANGED <<afterStop, promotions>>

MarkFinalizing ==
  /\ wpc = "mark"
  /\ files' = [files EXCEPT !.fin = "running"] /\ wpc' = "encode"
  /\ Capturing /\ NoWrite /\ UNCHANGED <<afterStop, promotions>>

(* finalize_parts refuses what exists already.                             *)
Encode(from, running, refused) ==
  /\ wpc = from
  /\ IF files.temp \/ OutputExists(files)
     THEN files' = [EncodingFailed(files) EXCEPT !.temp = files.temp] /\ wpc' = refused
     ELSE files' = Encoding(files) /\ wpc' = running
  /\ Capturing /\ NoWrite /\ UNCHANGED <<afterStop, promotions>>

EncoderEnds(from, promoted, failed) ==
  /\ wpc = from
  /\ \/ files' = Promoted(files) /\ wpc' = promoted /\ promotions' = promotions + 1
     \/ files' = EncodingFailed(files) /\ wpc' = failed /\ UNCHANGED promotions
  /\ Capturing /\ NoWrite /\ UNCHANGED afterStop

CompleteManifest(from, next) ==
  /\ wpc = from
  /\ files' = Completed(files) /\ wpc' = next
  /\ Capturing /\ NoWrite /\ UNCHANGED <<afterStop, promotions>>

FailedResumeStateFinal(s) == "failed"

(* A resume that fails stays recoverable, in the phase it reached.         *)
FailedResumeState(s) == IF s = "finalizing" THEN s ELSE "recovering"

(* The worker's two locked sections: its result, then its end.             *)
WorkerResult ==
  /\ wpc \in {"returned", "raised", "outage"}
  /\ wpc' = "settle"
  /\ job' = CASE wpc = "returned" -> [job EXCEPT !.state = "completed",
                                                 !.done = files.fin = "completed"]
              [] wpc = "raised" /\ resumed ->
                   [job EXCEPT !.state = FailedResumeState(@), !.mark = FALSE]
              [] OTHER -> [job EXCEPT !.state = "failed"]
  /\ blocked' = CASE wpc = "outage" -> FALSE
                  [] wpc = "raised" /\ resumed -> TRUE
                  [] OTHER -> blocked
  /\ UNCHANGED <<active, closed, event, down, resumed, rjob, plan, disk, files,
                 counters, history>>

Settle ==
  /\ wpc = "settle"
  /\ job' = [job EXCEPT !.ended = TRUE]
  /\ \E ok \in BOOLEAN : Save(job', ok) /\ blocked' = (blocked \/ ~ok)
  /\ active' = FALSE /\ wpc' = "none" /\ resumed' = FALSE
  /\ UNCHANGED <<closed, event, down, rjob, plan, files, counters, history>>

-----------------------------------------------------------------------------
(* The startup worker: RecordingController._recover and                    *)
(* StartupReconciler.reconcile on its own copy rjob of the job.            *)
Recovering == UNCHANGED <<memory, resumed, counters, history>>
Looking == Recovering /\ UNCHANGED <<job, disk, files>>

(* _recovery_observed.                                                     *)
Observed(j) == [j EXCEPT !.stop = @ \/ job.stop]

MergedBlind(j) == j

(* _save_recovery: a stop arriving during resolution wins over the resume. *)
Merged(j) ==
  IF job.stop /\ j.state = "resuming"
  THEN [j EXCEPT !.stop = TRUE, !.state = "finalizing", !.resumes = job.resumes]
  ELSE Observed(j)

(* Reading fails, or what is read is refused: evidence stays untouched.    *)
Refused(accepted) == (~accepted \/ StoreMayFail) /\ wpc' = "rfailed"

SaveRecovery(j, next) ==
  \E ok \in BOOLEAN :
    /\ Save(Merged(j), ok)
    /\ rjob' = IF ok THEN Merged(j) ELSE rjob
    /\ wpc' = IF ok THEN next ELSE "rfailed"

RecoveryLease ==
  /\ wpc = "rlease"
  /\ wpc' = "load" /\ Looking /\ UNCHANGED <<rjob, plan>>

RecoveryLeaseFails ==
  /\ wpc = "rlease"
  /\ job' = [job EXCEPT !.state = "recovering", !.mark = FALSE]
  /\ active' = FALSE /\ blocked' = TRUE /\ wpc' = "none"
  /\ UNCHANGED <<closed, event, down, resumed, rjob, plan, disk, files, counters, history>>

(* The job loaded still needs reconciliation: handlers write only memory's *)
(* copy of it, which does.                                                 *)
Load ==
  /\ wpc = "load"
  /\ \/ rjob' = disk /\ wpc' = "observe"
     \/ Refused(TRUE) /\ UNCHANGED rjob
  /\ Looking /\ UNCHANGED plan

Observe ==
  /\ wpc = "observe"
  /\ job' = Observed([rjob EXCEPT !.state = "reconciling"])
  /\ wpc' = "inspect"
  /\ Recovering /\ UNCHANGED <<rjob, plan, disk, files>>

Inspect ==
  /\ wpc = "inspect"
  /\ \/ /\ Inspectable(rjob, files)
        /\ wpc' = IF files.partial = "none" THEN "decide" ELSE "compare"
     \/ Refused(Inspectable(rjob, files))
  /\ Looking /\ UNCHANGED <<rjob, plan>>

(* verify_writer_ownership, and the comparison in save_if_current.         *)
Compare ==
  /\ wpc = "compare"
  /\ \/ disk = rjob /\ wpc' = IF Marker(rjob) THEN "preserve" ELSE "claim"
     \/ Refused(disk = rjob)
  /\ Looking /\ UNCHANGED <<rjob, plan>>

ClaimedUnmarked(j) == [j EXCEPT !.state = "recovering"]

(* The rest of save_if_current: no lock spans it and the comparison.       *)
Claimed(j) == [j EXCEPT !.state = "recovering", !.mark = TRUE]

Claim ==
  /\ wpc = "claim"
  /\ \E ok \in BOOLEAN :
       /\ Save(Claimed(rjob), ok)
       /\ rjob' = IF ok THEN Claimed(rjob) ELSE rjob
       /\ wpc' = IF ok THEN "marked" ELSE "rfailed"
  /\ Recovering /\ UNCHANGED <<job, plan, files>>

ObserveClaim ==
  /\ wpc = "marked"
  /\ job' = Observed(rjob) /\ wpc' = "preserve"
  /\ Recovering /\ UNCHANGED <<rjob, plan, disk, files>>

(* recover_writer_partial and record_writer_recovery, each mutation only   *)
(* while the job is still the durable one.                                 *)
Artifact(f, next) ==
  \/ disk = rjob /\ wpc' = next /\ files' = f
  \/ Refused(disk = rjob) /\ UNCHANGED files

Preserve ==
  /\ wpc = "preserve"
  /\ IF files.partial = "writer"
     THEN Artifact([files EXCEPT !.partial = "evidence"], "publish")
     ELSE wpc' = "publish" /\ UNCHANGED files
  /\ Recovering /\ UNCHANGED <<job, disk, rjob, plan>>

(* The copy may hold no valid media.                                       *)
Publish ==
  /\ wpc = "publish"
  /\ \/ /\ files.partial = "evidence"
        /\ Artifact([files EXCEPT !.partial = "published", !.parts = TRUE], "record")
     \/ files.partial = "published" /\ wpc' = "record" /\ UNCHANGED files
     \/ wpc' = "rfailed" /\ UNCHANGED files
  /\ Recovering /\ UNCHANGED <<job, disk, rjob, plan>>

RecordRecovery ==
  /\ wpc = "record"
  /\ Artifact([files EXCEPT !.partial = "none"], "decide")
  /\ Recovering /\ UNCHANGED <<job, disk, rjob, plan>>

(* What the storage and the saved phase call for.                          *)
Decide ==
  /\ wpc = "decide"
  /\ plan' = files.temp
  /\ LET planned == PartialPlanned(rjob, files)
         missing == files.fin = "completed" /\ ~OutputExists(files)
         ended == rjob.stop \/ rjob.state = "finalizing"
         resumable == MayResume(rjob) /\ Resumable(files) /\ files.named IN
     \/ planned /\ OutputExists(files) /\ OutputProven(files) /\ wpc' = "proven"
     \/ planned /\ ~OutputExists(files) /\ ~missing /\ ended /\ wpc' = "finalize"
     \/ planned /\ ~OutputExists(files) /\ ~missing /\ ~ended /\ resumable /\ wpc' = "ask"
     \/ Refused(/\ planned
                /\ IF OutputExists(files) THEN OutputProven(files)
                   ELSE ~missing /\ (ended \/ resumable))
  /\ Looking /\ UNCHANGED rjob

(* _completed.                                                             *)
CompleteJob ==
  /\ wpc \in {"proven", "rcomplete"}
  /\ SaveRecovery([rjob EXCEPT !.state = "completed", !.done = TRUE, !.ended = TRUE,
                               !.mark = FALSE], "settled")
  /\ Recovering /\ UNCHANGED <<job, plan, files>>

(* should_stop, before anything is resolved.                               *)
Ask ==
  /\ wpc = "ask"
  /\ wpc' = IF job.stop THEN "finalize" ELSE "rresolve"
  /\ rjob' = Observed(rjob)
  /\ Looking /\ UNCHANGED plan

StoppedWhenCopied == event /\ rjob.stop /\ wpc' = "finalize" /\ UNCHANGED rjob

(* resolve_startup_patiently with what it notifies: the first attempt, and *)
(* those of an outage.                                                     *)
Stopped == event /\ wpc' = "finalize" /\ rjob' = [rjob EXCEPT !.stop = TRUE]
Answered == ~event /\ wpc' \in {"finalize", "rfailed"} /\ UNCHANGED rjob

ResolveRoom ==
  /\ wpc = "rresolve"
  /\ \/ (Stopped \/ Answered) /\ UNCHANGED disk
     \/ ~event /\ wpc' = "found" /\ UNCHANGED <<rjob, disk>>
     \/ ~event /\ SaveRecovery([rjob EXCEPT !.state = "reconnecting", !.mark = FALSE], "entered")
  /\ Recovering /\ UNCHANGED <<job, plan, files>>

RetryRoom ==
  /\ wpc = "routage"
  /\ \/ (Stopped \/ Answered) /\ UNCHANGED <<disk, files>>
     \/ /\ ~event /\ UNCHANGED files
        /\ SaveRecovery([rjob EXCEPT !.state = "reconciling", !.mark = FALSE], "recovered")
     \/ ~event /\ wpc' = "expired" /\ files' = CaptureFailed(files) /\ UNCHANGED <<disk, rjob>>
  /\ Recovering /\ UNCHANGED <<job, plan>>

ObserveOutage ==
  /\ wpc \in {"entered", "recovered"}
  /\ job' = Observed(rjob)
  /\ wpc' = IF wpc = "entered" THEN "routage" ELSE "found"
  /\ Recovering /\ UNCHANGED <<rjob, plan, disk, files>>

(* The recovery window is exhausted: the room's end stays unproven.        *)
GiveUp ==
  /\ wpc = "expired"
  /\ SaveRecovery([rjob EXCEPT !.state = "failed", !.ended = TRUE, !.mark = FALSE], "exhausted")
  /\ Recovering /\ UNCHANGED <<job, plan, files>>

ResumeOf(j) == [j EXCEPT !.state = "resuming", !.resumes = @ + 1, !.mark = FALSE]

(* The account shows the saved room, or another one.                       *)
Found ==
  /\ wpc = "found"
  /\ \/ LET next == ResumeOf(rjob) IN
        SaveRecovery(next, IF Merged(next).stop THEN "finalize" ELSE "resuming")
     \/ wpc' = "finalize" /\ UNCHANGED <<rjob, disk>>
  /\ Recovering /\ UNCHANGED <<job, plan, files>>

ObserveResume ==
  /\ wpc = "resuming"
  /\ job' = Observed(rjob) /\ wpc' = "resume"
  /\ Recovering /\ UNCHANGED <<rjob, plan, disk, files>>

(* _finalize: the phase is durable before the manifest and the encoder.    *)
Finalize ==
  /\ wpc = "finalize"
  /\ SaveRecovery([rjob EXCEPT !.state = "finalizing", !.mark = FALSE], "rmark")
  /\ Recovering /\ UNCHANGED <<job, plan, files>>

MarkRecovery ==
  /\ wpc = "rmark"
  /\ job' = Observed(rjob)
  /\ \/ files' = [files EXCEPT !.fin = "running"]
        /\ wpc' = IF plan THEN "rpreserve" ELSE "rencode"
     \/ Refused(TRUE) /\ UNCHANGED files
  /\ Recovering /\ UNCHANGED <<disk, rjob, plan>>

PreserveEncoderPartial ==
  /\ wpc = "rpreserve"
  /\ files' = [files EXCEPT !.temp = FALSE, !.kept = TRUE] /\ wpc' = "rencode"
  /\ Recovering /\ UNCHANGED <<job, disk, rjob, plan>>

BlocksNothing(pc) == FALSE

(* ReconciliationResult.blocked.                                           *)
Blocks(pc) == pc = "rfailed"

(* The outcome is applied in one section; a resume keeps the worker.       *)
Outcome ==
  /\ wpc \in {"settled", "exhausted", "rfailed", "resume"}
  /\ job' = CASE wpc # "rfailed" -> Observed(rjob)
              [] rjob = NoJob -> [job EXCEPT !.state = "recovering", !.mark = FALSE]
              [] OTHER -> [Observed(rjob) EXCEPT !.state = "recovering", !.mark = FALSE]
  /\ blocked' = Blocks(wpc)
  /\ active' = (wpc = "resume")
  /\ resumed' = (wpc = "resume")
  /\ wpc' = IF wpc = "resume" THEN "lease" ELSE "none"
  /\ rjob' = NoJob /\ plan' = FALSE
  /\ UNCHANGED <<closed, event, down, disk, files, counters,
                 stopped, afterStop, promotions>>

-----------------------------------------------------------------------------
(* The process dies at any point and is started again; the constructor     *)
(* reads the store and reserves the slot before a handler can run.         *)
Restarted(j, reserved, pc) ==
  /\ job' = j /\ active' = (pc # "none") /\ blocked' = reserved /\ wpc' = pc

Restart ==
  /\ crashes < MaxCrashes
  /\ PartialsRemain \/ files.partial # "writer"
  /\ crashes' = crashes + 1
  /\ closed' = FALSE /\ event' = FALSE /\ down' = "up"
  /\ resumed' = FALSE /\ rjob' = NoJob /\ plan' = FALSE
  /\ \/ StoreMayFail /\ Restarted(NoJob, TRUE, "none")
     \/ disk = NoJob /\ Restarted(NoJob, FALSE, "none")
     \/ disk # NoJob /\ ~NeedsReconciliation(disk) /\ Restarted(disk, FALSE, "none")
     \/ /\ disk # NoJob /\ NeedsReconciliation(disk)
        /\ \/ Restarted([disk EXCEPT !.state = "reconciling"], TRUE, "rlease")
           \/ Restarted([disk EXCEPT !.state = "recovering"], TRUE, "none")
  /\ UNCHANGED <<disk, files, starts, history>>

Init ==
  /\ job = NoJob /\ disk = NoJob /\ rjob = NoJob /\ files = NoFiles
  /\ active = FALSE /\ blocked = FALSE /\ closed = FALSE /\ event = FALSE
  /\ down = "up" /\ wpc = "none" /\ resumed = FALSE /\ plan = FALSE
  /\ starts = 0 /\ crashes = 0
  /\ stopped = FALSE /\ afterStop = FALSE /\ promotions = 0

Capture ==
  \/ Lease \/ LeaseFails \/ Reopen \/ Resolve \/ Resolved \/ Identify \/ Prepare \/ Open
  \/ WriterWrites \/ ConnectionEnds \/ Reconnect \/ Finish \/ MarkFinalizing
  \/ Encode("encode", "encoding", "raised")
  \/ EncoderEnds("encoding", "close", "raised")
  \/ CompleteManifest("close", "returned")
  \/ WorkerResult \/ Settle

Recovery ==
  \/ RecoveryLease \/ RecoveryLeaseFails \/ Load \/ Observe \/ Inspect
  \/ Compare \/ Claim \/ ObserveClaim \/ Preserve \/ Publish \/ RecordRecovery
  \/ Decide \/ Ask \/ ResolveRoom \/ RetryRoom \/ ObserveOutage \/ GiveUp
  \/ Found \/ ObserveResume \/ Finalize \/ MarkRecovery \/ PreserveEncoderPartial
  \/ Encode("rencode", "rencoding", "rfailed")
  \/ EncoderEnds("rencoding", "rclose", "rfailed")
  \/ CompleteManifest("rclose", "rcomplete")
  \/ CompleteJob \/ Outcome

Calls == Start \/ StartFails \/ Stop \/ Shutdown \/ ShutdownReturns

Next == Calls \/ Capture \/ Recovery \/ Restart

Spec == Init /\ [][Next]_vars

(* Threads run; resolvers, waits and the encoder return.                   *)
FairSpec == Spec /\ WF_vars(Capture) /\ WF_vars(Recovery) /\ WF_vars(ShutdownReturns)

-----------------------------------------------------------------------------
(* Properties.                                                             *)

(* After an acknowledged stop no media is written, in this process or by a *)
(* resumed capture of a later one: the intent is durable before the answer. *)
StopHonoured == ~afterStop

(* A session's output is promoted at most once, whatever restarts it sees: *)
(* finalization is retried, but never behind an output already published.  *)
OutputOnce == promotions <= 1

(* A durable claim that finalization completed is backed by the output and *)
(* by the closed manifest: the manifest is completed before the job.       *)
CompletedIsProven ==
  disk # NoJob /\ disk.done =>
    files.output /\ files.man = "closed" /\ files.fin = "completed"

(* A slot offered to a new start holds no durable work: a start overwrites *)
(* the job store, and with it the only record that could be recovered.     *)
FreeSlotSettled ==
  ~active /\ ~blocked => disk = NoJob \/ ~NeedsReconciliation(disk)

(* The room named by the manifest was durable in the job first, so that a  *)
(* crash at any point leaves an identity recovery can match.               *)
RoomDurableFirst == files.named => disk # NoJob /\ disk.room

(* An encoder that runs has its phase in the job and in the manifest: what *)
(* it leaves behind after a crash can be told from a foreign file.         *)
EncoderOwned ==
  files.temp => files.fin = "running" /\ disk # NoJob /\ disk.state = "finalizing"

(* Writer evidence that recovery has moved is recognized by the next one.  *)
EvidenceRetryable ==
  files.partial \in {"evidence", "published"} => disk # NoJob /\ Inspectable(disk, files)

(* A blocked, idle slot still has the intent it is blocked for.            *)
BlockedKeepsIntent ==
  blocked /\ ~active => disk # NoJob /\ NeedsReconciliation(disk)

(* A stop signalled ends in an inactive slot, unless the process dies.     *)
StopEnds == event /\ active ~> ~active \/ ~event

(* A shutdown that joins the worker returns.                               *)
ShutdownEnds == down = "joining" ~> down # "joining"

(* A stop that became durable stays so.                                    *)
StopDurable ==
  [][disk # NoJob /\ disk.stop /\ starts' = starts => disk'.stop]_vars
=============================================================================
