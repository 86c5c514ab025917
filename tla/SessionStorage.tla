---------------------------- MODULE SessionStorage ----------------------------
(***************************************************************************)
(* What survives a process: the durable intent of one recording            *)
(* (tikrec/job_state.py), its session manifest and the files beside it,    *)
(* and what a restart may conclude from them (recovery_session.py,         *)
(* session_resume.py, finalization_recovery.py, writer_recovery.py).       *)
(*                                                                         *)
(* A job's room is known or not; "reconnecting" stands for reconnecting,   *)
(* recovering_network and recovery_wait, which no decision tells apart.    *)
(* mark: the recovery reason is "writer_partial_recovery".  A manifest     *)
(* that is "closed" has status completed or interrupted.                   *)
(***************************************************************************)
EXTENDS Naturals

CaptureStates == {"resolving", "recording", "reconnecting", "recovering",
                  "reconciling", "resuming"}
TerminalStates == {"completed", "failed"}

JobStates == [state : CaptureStates \cup TerminalStates \cup {"finalizing"},
              stop : BOOLEAN, room : BOOLEAN, resumes : Nat, done : BOOLEAN,
              ended : BOOLEAN, mark : BOOLEAN]

NoJob == [state |-> "idle"]

NewJob == [state |-> "resolving", stop |-> FALSE, room |-> FALSE, resumes |-> 0,
           done |-> FALSE, ended |-> FALSE, mark |-> FALSE]

(* JobState.validate: a terminal job has an end.                           *)
Valid(job) == job.state \in TerminalStates => job.ended

NeedsReconciliation(job) == job.state \notin TerminalStates /\ ~job.done

MayResume(job) == /\ NeedsReconciliation(job) /\ job.state \in CaptureStates
                  /\ ~job.stop /\ job.room

-----------------------------------------------------------------------------
(* man, fin: status of the manifest and of its finalization; named: it     *)
(* records the room; parts: a completed part exists; partial: the writer's *)
(* crash artifact, as written, preserved as evidence, or published as a    *)
(* part the manifest does not record yet; temp: the encoder's artifact;    *)
(* kept: an earlier one, preserved.                                        *)
Files == [man : {"none", "recording", "closed", "failed"},
          fin : {"pending", "not_started", "running", "completed", "failed"},
          named : BOOLEAN, parts : BOOLEAN,
          partial : {"none", "writer", "evidence", "published"},
          temp : BOOLEAN, kept : BOOLEAN, output : BOOLEAN]

NoFiles == [man |-> "none", fin |-> "pending", named |-> FALSE, parts |-> FALSE,
            partial |-> "none", temp |-> FALSE, kept |-> FALSE, output |-> FALSE]

Marker(job) == job.state = "recovering" /\ job.mark

(* writer_recovery._active_ownership.                                      *)
ActiveOwnership(job, f) ==
  /\ ~job.stop /\ job.room
  /\ job.state = "recording" \/ Marker(job)
  /\ f.man = "recording" /\ f.named
  /\ f.fin \in {"pending", "not_started"}
  /\ ~f.output /\ ~f.temp

(* inspect_recovery_session with inspect_writer_storage.                   *)
Inspectable(job, f) ==
  /\ f.man # "none"
  /\ f.named => job.room
  /\ CASE f.partial = "none" -> f.parts
       [] f.partial = "writer" -> ActiveOwnership(job, f)
       [] OTHER -> Marker(job) /\ ActiveOwnership(job, f)

(* plan_finalization_partial does not refuse what it finds.                *)
PartialPlanned(job, f) ==
  f.temp => /\ ~f.output /\ ~f.kept
            /\ job.state = "finalizing" /\ f.fin = "running"

OutputRecorded(f) == f.output /\ f.fin = "completed"

OutputExists(f) == f.output

OutputPresent(f) == f.output

(* completed_output_is_proven.                                             *)
OutputProven(f) == f.output /\ f.man = "closed" /\ f.fin = "completed"

(* prepare_resume accepts the storage.                                     *)
Resumable(f) ==
  /\ f.man \in {"recording", "failed"}
  /\ f.fin \in {"pending", "not_started"}
  /\ f.parts /\ f.partial = "none"
  /\ ~f.output /\ ~f.temp

-----------------------------------------------------------------------------
(* Updates of the manifest (manifest.py) and of the media files.           *)
Reopened(f) == [f EXCEPT !.man = "recording", !.fin = "pending"]

Prepared(f, room) ==
  [f EXCEPT !.man = IF @ = "none" THEN "recording" ELSE @,
            !.named = @ \/ room]

(* The writer's close path publishes what it wrote as a part.              *)
PartClosed(f) == [f EXCEPT !.parts = @ \/ f.partial = "writer",
                           !.partial = "none"]

CaptureFailed(f) == IF f.man = "none" THEN f
                    ELSE [f EXCEPT !.man = "failed", !.fin = "not_started"]

EndedEmpty(f) == IF f.man = "none" THEN f
                 ELSE [f EXCEPT !.man = "closed", !.fin = "not_started"]

Encoding(f) == [f EXCEPT !.temp = TRUE]
Promoted(f) == [f EXCEPT !.temp = FALSE, !.output = TRUE]
EncodingFailed(f) == [f EXCEPT !.temp = FALSE, !.man = "failed", !.fin = "failed"]
Completed(f) == [f EXCEPT !.man = "closed", !.fin = "completed"]
=============================================================================
