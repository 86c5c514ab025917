----------------------- MODULE RecordingControllerProofs -----------------------
(* For any number of starts and crashes: what the controller's job, the job *)
(* store and the session's files keep to each other.                        *)
EXTENDS RecordingController, TLAPS

Jobs == JobStates \cup {NoJob}

Typed ==
  /\ job \in Jobs /\ disk \in Jobs /\ rjob \in Jobs
  /\ files \in Files
  /\ active \in BOOLEAN /\ blocked \in BOOLEAN /\ closed \in BOOLEAN
  /\ event \in BOOLEAN /\ resumed \in BOOLEAN /\ plan \in BOOLEAN
  /\ stopped \in BOOLEAN /\ afterStop \in BOOLEAN
  /\ wpc \in {"none"} \cup CapturePhases \cup RecoveryPhases
  /\ starts \in Nat /\ crashes \in Nat /\ promotions \in Nat

(* A worker is active, a recovery holds the slot blocked until its outcome, *)
(* and whoever may write the job has one to write over.                     *)
Phases ==
  /\ active <=> wpc # "none"
  /\ wpc \in RecoveryPhases => blocked /\ ~resumed
  /\ wpc \in RecoveryPhases \ {"rlease", "load", "rfailed"} => rjob # NoJob
  /\ wpc \in {"rlease", "load"} => rjob = NoJob
  /\ wpc \in CapturePhases => rjob = NoJob /\ (blocked => resumed /\ wpc = "settle")
  /\ wpc = "none" => rjob = NoJob /\ ~resumed
  /\ active => job # NoJob
  /\ active \/ blocked => job = NoJob \/ disk # NoJob

TInv == Typed /\ Phases

-----------------------------------------------------------------------------
(* Jobs and files.                                                          *)

LEMMA NoJobApart == NoJob \notin JobStates
  BY DEF NoJob, JobStates, CaptureStates, TerminalStates

(* JobStateStore.save leaves the old job or the new one.                    *)
LEMMA SaveEnds ==
  ASSUME NEW j, NEW ok \in BOOLEAN, Save(j, ok)
  PROVE  /\ disk' \in {disk, j}
         /\ ok => disk' = j /\ Valid(j)
         /\ ~ok => StoreMayFail \/ ~Valid(j)
  BY DEF Save

LEMMA SaveRecoveryEnds ==
  ASSUME NEW j, NEW next, SaveRecovery(j, next)
  PROVE  \/ disk' = Merged(j) /\ rjob' = Merged(j) /\ wpc' = next
         \/ disk' \in {disk, Merged(j)} /\ rjob' = rjob /\ wpc' = "rfailed"
  BY SaveEnds DEF SaveRecovery

Phase == CaptureStates \cup TerminalStates \cup {"finalizing"}

LEMMA JobTyped ==
  ASSUME NEW j \in JobStates, NEW s \in Phase, NEW b \in BOOLEAN
  PROVE  /\ [j EXCEPT !.stop = TRUE] \in JobStates
         /\ [j EXCEPT !.ended = TRUE] \in JobStates
         /\ [j EXCEPT !.room = @ \/ b] \in JobStates
         /\ [j EXCEPT !.state = s] \in JobStates
         /\ [j EXCEPT !.state = s, !.ended = TRUE] \in JobStates
         /\ [j EXCEPT !.state = s, !.done = b] \in JobStates
         /\ [j EXCEPT !.state = s, !.mark = b] \in JobStates
         /\ [j EXCEPT !.state = s, !.ended = TRUE, !.mark = FALSE] \in JobStates
         /\ [j EXCEPT !.state = s, !.done = TRUE, !.ended = TRUE, !.mark = FALSE]
              \in JobStates
<1> USE DEF JobStates, Phase
<1>1. [j EXCEPT !.room = @ \/ b] \in JobStates
  <2>1. CASE b = TRUE
    BY <2>1
  <2>2. CASE b = FALSE
    BY <2>2
  <2> QED
    BY <2>1, <2>2
<1>2. /\ [j EXCEPT !.stop = TRUE] \in JobStates
      /\ [j EXCEPT !.ended = TRUE] \in JobStates
      /\ [j EXCEPT !.state = s] \in JobStates
      /\ [j EXCEPT !.state = s, !.ended = TRUE] \in JobStates
  OBVIOUS
<1>3. /\ [j EXCEPT !.state = s, !.done = b] \in JobStates
      /\ [j EXCEPT !.state = s, !.mark = b] \in JobStates
  OBVIOUS
<1>4. /\ [j EXCEPT !.state = s, !.ended = TRUE, !.mark = FALSE] \in JobStates
      /\ [j EXCEPT !.state = s, !.done = TRUE, !.ended = TRUE, !.mark = FALSE]
           \in JobStates
  OBVIOUS
<1> HIDE DEF JobStates
<1> QED
  BY <1>1, <1>2, <1>3, <1>4

LEMMA JobsMade ==
  ASSUME NEW j \in JobStates
  PROVE  /\ Claimed(j) \in JobStates
         /\ ResumeOf(j) \in JobStates
         /\ FailedResumeState(j.state) \in Phase \ TerminalStates
         /\ NewJob \in JobStates
<1> USE DEF JobStates, Phase, CaptureStates, TerminalStates
<1>1. Claimed(j) \in JobStates
  BY DEF Claimed
<1>2. ResumeOf(j) \in JobStates
  <2>1. j.resumes + 1 \in Nat
    OBVIOUS
  <2> QED
    BY <2>1 DEF ResumeOf
<1>3. FailedResumeState(j.state) \in Phase \ TerminalStates
  BY DEF FailedResumeState
<1>4. NewJob \in JobStates
  BY DEF NewJob
<1> QED
  BY <1>1, <1>2, <1>3, <1>4

LEMMA MergedTyped ==
  ASSUME NEW j \in JobStates, job \in JobStates
  PROVE  Observed(j) \in JobStates /\ Merged(j) \in JobStates
<1> USE DEF JobStates, CaptureStates, TerminalStates
<1>1. (j.stop \/ job.stop) \in BOOLEAN
  OBVIOUS
<1>2. Observed(j) \in JobStates
  BY <1>1 DEF Observed
<1>3. CASE job.stop /\ j.state = "resuming"
  <2>1. job.resumes \in Nat /\ "finalizing" \in CaptureStates \cup TerminalStates \cup {"finalizing"}
    OBVIOUS
  <2>2. [j EXCEPT !.stop = TRUE, !.state = "finalizing", !.resumes = job.resumes] \in JobStates
    BY <2>1
  <2> QED
    BY ONLY <1>3, <1>2, <2>2 DEF Merged
<1>4. CASE ~(job.stop /\ j.state = "resuming")
  BY ONLY <1>2, <1>4 DEF Merged
<1> QED
  BY <1>2, <1>3, <1>4

LEMMA FilesTyped ==
  ASSUME NEW f \in Files, NEW b \in BOOLEAN, NEW p \in {"none", "writer", "evidence", "published"}
  PROVE  /\ Reopened(f) \in Files /\ PartClosed(f) \in Files
         /\ CaptureFailed(f) \in Files /\ EndedEmpty(f) \in Files
         /\ Encoding(f) \in Files /\ Promoted(f) \in Files
         /\ EncodingFailed(f) \in Files /\ Completed(f) \in Files
         /\ Prepared(f, b) \in Files
         /\ [EncodingFailed(f) EXCEPT !.temp = f.temp] \in Files
         /\ [f EXCEPT !.partial = p] \in Files
         /\ [f EXCEPT !.partial = p, !.parts = TRUE] \in Files
         /\ [f EXCEPT !.fin = "running"] \in Files
         /\ [f EXCEPT !.temp = FALSE, !.kept = TRUE] \in Files
<1> USE DEF Files
<1>1. Reopened(f) \in Files /\ CaptureFailed(f) \in Files /\ EndedEmpty(f) \in Files
  <2>1. Reopened(f) \in Files
    BY DEF Reopened
  <2>2. CaptureFailed(f) \in Files
    BY DEF CaptureFailed
  <2>3. EndedEmpty(f) \in Files
    BY DEF EndedEmpty
  <2> QED
    BY <2>1, <2>2, <2>3
<1>2. PartClosed(f) \in Files
  <2>1. (f.parts \/ f.partial = "writer") \in BOOLEAN
    OBVIOUS
  <2> QED
    BY <2>1 DEF PartClosed
<1>3. Encoding(f) \in Files /\ Promoted(f) \in Files
  BY DEF Encoding, Promoted
<1>4. EncodingFailed(f) \in Files /\ Completed(f) \in Files
  BY DEF EncodingFailed, Completed
<1>5. [EncodingFailed(f) EXCEPT !.temp = f.temp] \in Files
  BY DEF EncodingFailed
<1>6. Prepared(f, b) \in Files
  <2>1. CASE b = TRUE
    BY <2>1 DEF Prepared
  <2>2. CASE b = FALSE
    BY <2>2 DEF Prepared
  <2> QED
    BY <2>1, <2>2
<1>7. /\ [f EXCEPT !.partial = p] \in Files
      /\ [f EXCEPT !.partial = p, !.parts = TRUE] \in Files
      /\ [f EXCEPT !.fin = "running"] \in Files
      /\ [f EXCEPT !.temp = FALSE, !.kept = TRUE] \in Files
  OBVIOUS
<1> QED
  BY <1>1, <1>2, <1>3, <1>4, <1>5, <1>6, <1>7

LEMMA NoFilesTyped == NoFiles \in Files
  BY DEF NoFiles, Files

LEMMA InitTInv == Init => TInv
<1> SUFFICES ASSUME Init PROVE TInv
  OBVIOUS
<1>1. Typed
  BY NoFilesTyped DEF Init, Typed, Jobs
<1>2. Phases
  BY DEF Init, Phases, CapturePhases, RecoveryPhases
<1> QED
  BY <1>1, <1>2 DEF TInv

-----------------------------------------------------------------------------
(* What the sections of a capture, of a recovery and the calls do to the    *)
(* job, the store and the phase.                                            *)

(* Two jobs that differ in their state and room only.                       *)
SameIntent(j, k) ==
  /\ j.stop = k.stop /\ j.resumes = k.resumes /\ j.done = k.done
  /\ j.ended = k.ended /\ j.mark = k.mark

LEMMA SetStateEnds ==
  ASSUME job \in JobStates, NEW s \in Phase, NEW ok \in BOOLEAN, SetState(s, ok)
  PROVE  /\ job' \in JobStates /\ disk' \in {disk, job'}
         /\ job'.state = s /\ job'.room = job.room /\ SameIntent(job', job)
         /\ ok => disk' = job' \/ (job'.state = job.state /\ disk' = disk)
<1>1. job' = [job EXCEPT !.state = s]
  BY DEF SetState
<1>2. job' \in JobStates
  BY <1>1, JobTyped
<1>3. job'.state = s /\ job'.room = job.room /\ SameIntent(job', job)
  BY <1>1 DEF JobStates, SameIntent
<1>4. disk' \in {disk, job'} /\ (ok => disk' = job' \/ (s = job.state /\ disk' = disk))
  BY SaveEnds DEF SetState
<1> QED
  BY <1>2, <1>3, <1>4

Ending == {"returned", "raised", "outage"}
Working == CapturePhases \ (Ending \cup {"settle"})

CaptureWork ==
  \/ Lease \/ Reopen \/ Resolve \/ Resolved \/ Identify \/ Prepare \/ Open
  \/ WriterWrites \/ ConnectionEnds \/ Reconnect \/ Finish \/ MarkFinalizing
  \/ Encode("encode", "encoding", "raised")
  \/ EncoderEnds("encoding", "close", "raised")
  \/ CompleteManifest("close", "returned")

LEMMA CaptureStep ==
  ASSUME TInv, CaptureWork
  PROVE  /\ Capturing
         /\ wpc \in Working /\ wpc' \in Working \cup Ending
         /\ job \in JobStates /\ job' \in JobStates /\ SameIntent(job', job)
         /\ disk' \in {disk, job'}
         /\ files' \in Files /\ afterStop' \in BOOLEAN /\ promotions' \in Nat
<1>0. /\ Typed /\ (active => job \in JobStates)
      /\ wpc # "none" => active
  BY DEF TInv, Typed, Phases, Jobs
<1>1. ASSUME job' = job, disk' = disk, wpc \in Working, job \in JobStates
      PROVE  job' \in JobStates /\ SameIntent(job', job) /\ disk' \in {disk, job'}
  BY <1>1 DEF SameIntent
<1>2. CASE Lease \/ Reopen \/ Resolved \/ Prepare
  <2>1. wpc \in Working /\ job \in JobStates
    BY <1>0, <1>2 DEF Lease, Reopen, Resolved, Prepare, Working, CapturePhases, Ending
  <2>2. /\ Capturing /\ job' = job /\ disk' = disk
        /\ wpc' \in Working \cup Ending
        /\ afterStop' = afterStop /\ promotions' = promotions
    BY <1>2 DEF Lease, Reopen, Resolved, Prepare, NoWrite, NoMedia, Working, CapturePhases, Ending
  <2>3. files' \in Files
    <3>1. files \in Files /\ job.room \in BOOLEAN
      BY <1>0, <2>1 DEF Typed, JobStates
    <3> QED
      BY <1>2, <3>1, FilesTyped DEF Lease, Reopen, Resolved, Prepare, NoMedia
  <2> QED
    BY <1>0, <1>1, <2>1, <2>2, <2>3 DEF Typed
<1>3. CASE WriterWrites \/ ConnectionEnds
  <2>1. wpc \in Working /\ job \in JobStates
    BY <1>0, <1>3 DEF WriterWrites, ConnectionEnds, Working, CapturePhases, Ending
  <2>2. /\ Capturing /\ job' = job /\ disk' = disk
        /\ wpc' \in Working \cup Ending
        /\ afterStop' \in {afterStop, afterStop \/ stopped} /\ promotions' = promotions
    BY <1>3 DEF WriterWrites, ConnectionEnds, NoWrite, Working, CapturePhases, Ending
  <2>3. files' \in Files
    BY <1>0, <1>3, FilesTyped DEF WriterWrites, ConnectionEnds, Typed
  <2> QED
    BY <1>0, <1>1, <2>1, <2>2, <2>3 DEF Typed
<1>4. CASE \/ MarkFinalizing
           \/ Encode("encode", "encoding", "raised")
           \/ EncoderEnds("encoding", "close", "raised")
           \/ CompleteManifest("close", "returned")
  <2>1. wpc \in Working /\ job \in JobStates
    BY <1>0, <1>4 DEF MarkFinalizing, Encode, EncoderEnds, CompleteManifest, Working,
                      CapturePhases, Ending
  <2>2. /\ Capturing /\ job' = job /\ disk' = disk
        /\ wpc' \in Working \cup Ending
        /\ afterStop' = afterStop /\ promotions' \in {promotions, promotions + 1}
    BY <1>4 DEF MarkFinalizing, Encode, EncoderEnds, CompleteManifest, NoWrite, Working,
                CapturePhases, Ending
  <2>3. files' \in Files
    BY <1>0, <1>4, FilesTyped
    DEF MarkFinalizing, Encode, EncoderEnds, CompleteManifest, Typed
  <2> QED
    BY <1>0, <1>1, <2>1, <2>2, <2>3 DEF Typed
<1>5. CASE Resolve \/ Open \/ Reconnect \/ Finish
  <2>1. wpc \in Working /\ job \in JobStates
    BY <1>0, <1>5 DEF Resolve, Open, Reconnect, Finish, Working, CapturePhases, Ending
  <2>2. /\ Capturing /\ wpc' \in Working \cup Ending
        /\ afterStop' = afterStop /\ promotions' = promotions
    BY <1>5 DEF Resolve, Open, Reconnect, Finish, Working, CapturePhases, Ending
  <2>3. \/ job' = job /\ disk' = disk
        \/ \E s \in Phase, ok \in BOOLEAN : SetState(s, ok)
    BY <1>5 DEF Resolve, Open, Reconnect, Finish, NoWrite, Phase, CaptureStates
  <2>4. files' \in Files
    BY <1>0, <1>5, FilesTyped DEF Resolve, Open, Reconnect, Finish, Typed
  <2> QED
    BY <1>0, <1>1, <2>1, <2>2, <2>3, <2>4, SetStateEnds DEF Typed
<1>6. CASE Identify
  <2>1. wpc \in Working /\ job \in JobStates
    BY <1>0, <1>6 DEF Identify, Working, CapturePhases, Ending
  <2>2. /\ Capturing /\ wpc' \in Working \cup Ending
        /\ afterStop' = afterStop /\ promotions' = promotions
    BY <1>6 DEF Identify, Working, CapturePhases, Ending
  <2>3. PICK room \in BOOLEAN : job' = [job EXCEPT !.room = @ \/ room]
    BY <1>6 DEF Identify
  <2>4. job' \in JobStates /\ SameIntent(job', job)
    <3>1. job' \in JobStates
      BY <2>1, <2>3, JobTyped DEF Phase
    <3> QED
      BY <2>1, <2>3, <3>1 DEF JobStates, SameIntent
  <2>5. disk' \in {disk, job'}
    BY <1>6, SaveEnds DEF Identify
  <2>6. files' \in Files
    BY <1>0, <1>6, FilesTyped DEF Identify, Typed
  <2> QED
    BY <1>0, <2>1, <2>2, <2>4, <2>5, <2>6 DEF Typed
<1> QED
  BY <1>2, <1>3, <1>4, <1>5, <1>6 DEF CaptureWork

(* The reconciler looks, loads the job, hears of a stop, shows its copy to  *)
(* the handlers, or saves it.                                               *)
Loaded == wpc = "load" /\ wpc' = "observe" /\ rjob' = disk /\ UNCHANGED <<job, disk>>
Heard ==
  /\ UNCHANGED <<job, disk>>
  /\ rjob' = Observed(rjob) \/ (event /\ rjob' = [rjob EXCEPT !.stop = TRUE])
Shown ==
  /\ UNCHANGED <<disk, rjob>>
  /\ job' \in {Observed(rjob), Observed([rjob EXCEPT !.state = "reconciling"])}
Kept(j) ==
  /\ j \in JobStates /\ j.stop = rjob.stop /\ j.room = rjob.room
  /\ j.done = rjob.done \/ wpc \in {"proven", "rcomplete"}
SavedCopy(j) ==
  /\ job' = job
  /\ \/ disk' = Merged(j) /\ rjob' = Merged(j)
     \/ disk' \in {disk, Merged(j)} /\ rjob' = rjob /\ wpc' = "rfailed"
SavedClaim ==
  /\ job' = job
  /\ \/ disk' = Claimed(rjob) /\ rjob' = Claimed(rjob) /\ wpc' = "marked"
     \/ disk' \in {disk, Claimed(rjob)} /\ rjob' = rjob /\ wpc' = "rfailed"

RecoveryWork ==
  \/ RecoveryLease \/ Load \/ Observe \/ Inspect
  \/ Compare \/ Claim \/ ObserveClaim \/ Preserve \/ Publish \/ RecordRecovery
  \/ Decide \/ Ask \/ ResolveRoom \/ RetryRoom \/ ObserveOutage \/ GiveUp
  \/ Found \/ ObserveResume \/ Finalize \/ MarkRecovery \/ PreserveEncoderPartial
  \/ Encode("rencode", "rencoding", "rfailed")
  \/ EncoderEnds("rencoding", "rclose", "rfailed")
  \/ CompleteManifest("rclose", "rcomplete")
  \/ CompleteJob

RecoveryEnding == {"settled", "exhausted", "resume"}
Early == {"rlease", "load"}

RecoveryMoves ==
  /\ wpc \in RecoveryPhases \ (RecoveryEnding \cup {"rfailed"})
  /\ wpc' \in RecoveryPhases \ {"rlease"}
  /\ wpc' = "load" <=> wpc = "rlease"

RecoveryAccess ==
  \/ UNCHANGED <<job, disk, rjob>> /\ (wpc = "load" => wpc' = "rfailed")
  \/ Loaded
  \/ /\ rjob \in JobStates /\ wpc \notin Early
     /\ \/ Heard
        \/ Shown
        \/ SavedClaim /\ wpc = "claim"
        \/ \E j : Kept(j) /\ SavedCopy(j)

Watching == UNCHANGED <<memory, resumed, counters, stopped, afterStop>>

LEMMA WatchingIs ==
  /\ Recovering => Watching /\ UNCHANGED promotions
  /\ Capturing /\ UNCHANGED afterStop => Watching /\ UNCHANGED <<rjob, plan>>
  BY DEF Recovering, Capturing, Watching, memory, counters, history

LEMMA RecoveryStep ==
  ASSUME TInv, RecoveryWork
  PROVE  /\ Watching
         /\ RecoveryMoves
         /\ RecoveryAccess
         /\ job \in JobStates /\ disk \in JobStates
         /\ files' \in Files /\ plan' \in BOOLEAN /\ promotions' \in Nat
<1>0. /\ Typed /\ (wpc # "none" => active)
      /\ active => job \in JobStates /\ disk \in JobStates
      /\ wpc \in RecoveryPhases \ {"rlease", "load", "rfailed"} => rjob \in JobStates
  BY DEF TInv, Typed, Phases, Jobs
<1>a. ASSUME Watching, RecoveryMoves, RecoveryAccess, files' \in Files,
             plan' \in BOOLEAN, promotions' \in {promotions, promotions + 1}
      PROVE  /\ job \in JobStates /\ disk \in JobStates
             /\ promotions' \in Nat
  <2>1. wpc # "none"
    BY <1>a DEF RecoveryMoves, RecoveryPhases
  <2>2. promotions' \in Nat
    BY <1>0, <1>a DEF Typed
  <2> QED
    BY <1>0, <2>1, <2>2
<1>1. CASE \/ RecoveryLease \/ Inspect \/ Compare \/ Preserve \/ Publish
           \/ RecordRecovery \/ Decide \/ PreserveEncoderPartial
  <2> USE DEF RecoveryLease, Inspect, Compare, Preserve, Publish, RecordRecovery, Decide,
              PreserveEncoderPartial, Artifact, Refused
  <2>1. Recovering /\ UNCHANGED <<job, disk, rjob>> /\ wpc # "load"
    BY <1>1 DEF Looking
  <2>4. RecoveryMoves
    BY <1>1 DEF RecoveryMoves, RecoveryPhases, RecoveryEnding
  <2>2. plan' \in BOOLEAN
    BY <1>0, <1>1 DEF Typed, Files
  <2>3. files' \in Files
    BY <1>0, <1>1, FilesTyped DEF Typed, Looking
  <2> QED
    BY ONLY WatchingIs, <1>a, <2>1, <2>2, <2>3, <2>4 DEF RecoveryAccess
<1>2. CASE \/ Encode("rencode", "rencoding", "rfailed")
           \/ EncoderEnds("rencoding", "rclose", "rfailed")
           \/ CompleteManifest("rclose", "rcomplete")
  <2> USE DEF Encode, EncoderEnds, CompleteManifest
  <2>1. /\ Capturing /\ UNCHANGED <<job, disk, afterStop>> /\ wpc # "load"
        /\ promotions' \in {promotions, promotions + 1}
    BY <1>2 DEF NoWrite
  <2>2. RecoveryMoves
    BY <1>2 DEF RecoveryMoves, RecoveryPhases, RecoveryEnding
  <2>3. files' \in Files
    BY <1>0, <1>2, FilesTyped DEF Typed
  <2>4. plan \in BOOLEAN
    BY <1>0 DEF Typed
  <2> QED
    BY ONLY WatchingIs, <1>a, <2>1, <2>2, <2>3, <2>4 DEF RecoveryAccess
<1>3. CASE Load
  <2>1. /\ Recovering /\ UNCHANGED <<job, disk, files, plan>>
        /\ Loaded \/ (rjob' = rjob /\ wpc' = "rfailed")
    BY <1>3 DEF Load, Looking, Loaded, Refused
  <2>2. RecoveryMoves
    BY <1>3 DEF Load, Refused, RecoveryMoves, RecoveryPhases, RecoveryEnding
  <2>3. plan \in BOOLEAN /\ files \in Files
    BY <1>0 DEF Typed
  <2> QED
    BY ONLY WatchingIs, <1>a, <2>1, <2>2, <2>3 DEF RecoveryAccess
<1>b. ASSUME RecoveryMoves, wpc \notin Early
      PROVE  rjob \in JobStates
  BY <1>0, <1>b DEF RecoveryMoves, Early
<1>4. CASE Observe \/ ObserveClaim \/ ObserveOutage \/ ObserveResume \/ MarkRecovery
  <2> USE DEF Observe, ObserveClaim, ObserveOutage, ObserveResume, MarkRecovery, Refused
  <2>1. Recovering /\ UNCHANGED <<disk, rjob, plan>>
    BY <1>4
  <2>2. Shown
    BY <1>4 DEF Shown
  <2>3. files' \in Files
    BY <1>0, <1>4, FilesTyped DEF Typed
  <2>4. RecoveryMoves /\ wpc \notin Early
    BY <1>4 DEF RecoveryMoves, RecoveryPhases, RecoveryEnding, Early
  <2>5. plan \in BOOLEAN
    BY <1>0 DEF Typed
  <2> QED
    BY ONLY WatchingIs, <1>a, <1>b, <2>1, <2>2, <2>3, <2>4, <2>5 DEF RecoveryAccess
<1>5. CASE Claim
  <2>1. /\ Recovering /\ UNCHANGED <<job, files, plan>>
        /\ wpc = "claim"
    BY <1>5 DEF Claim
  <2>2. SavedClaim
    BY <1>5, <2>1, SaveEnds DEF Claim, SavedClaim
  <2>3. RecoveryMoves /\ wpc \notin Early
    BY <1>5 DEF Claim, RecoveryMoves, RecoveryPhases, RecoveryEnding, Early
  <2>4. plan \in BOOLEAN /\ files \in Files
    BY <1>0 DEF Typed
  <2> QED
    BY ONLY WatchingIs, <1>a, <1>b, <2>1, <2>2, <2>3, <2>4 DEF RecoveryAccess
<1>6. ASSUME NEW j, NEW next, Kept(j), SaveRecovery(j, next), job' = job
      PROVE  \E k : Kept(k) /\ SavedCopy(k)
  BY <1>6, SaveRecoveryEnds DEF SavedCopy
<1>7. ASSUME NEW s \in Phase, rjob \in JobStates
      PROVE  /\ Kept([rjob EXCEPT !.state = s, !.mark = FALSE])
             /\ Kept([rjob EXCEPT !.state = s, !.ended = TRUE, !.mark = FALSE])
  <2>1. /\ [rjob EXCEPT !.state = s, !.mark = FALSE] \in JobStates
        /\ [rjob EXCEPT !.state = s, !.ended = TRUE, !.mark = FALSE] \in JobStates
    BY <1>7, JobTyped
  <2> QED
    BY <1>7, <2>1 DEF Kept, JobStates
<1>8. ASSUME NEW j, NEW next \in RecoveryPhases \ Early, SaveRecovery(j, next)
      PROVE  wpc' \in RecoveryPhases \ Early
  BY <1>8 DEF SaveRecovery, RecoveryPhases, Early
<1>9. CASE GiveUp \/ Found \/ Finalize \/ CompleteJob
  <2> USE DEF GiveUp, Found, Finalize, CompleteJob
  <2>1. Recovering /\ UNCHANGED <<job, files, plan>>
    BY <1>9
  <2>2. /\ wpc \in {"expired", "found", "finalize", "proven", "rcomplete"}
        /\ RecoveryMoves /\ wpc \notin Early
    <3>1. wpc' \in RecoveryPhases \ Early
      BY <1>9, <1>8 DEF RecoveryPhases, Early
    <3> QED
      BY <1>9, <3>1 DEF RecoveryMoves, RecoveryPhases, RecoveryEnding, Early
  <2>3. rjob \in JobStates
    BY <1>b, <2>2
  <2>4. UNCHANGED <<disk, rjob>> \/ \E k : Kept(k) /\ SavedCopy(k)
    <3>1. Kept(ResumeOf(rjob))
      BY <2>3, JobsMade DEF Kept, ResumeOf, JobStates
    <3>2. wpc \in {"proven", "rcomplete"} =>
            Kept([rjob EXCEPT !.state = "completed", !.done = TRUE, !.ended = TRUE,
                              !.mark = FALSE])
      <4>1. [rjob EXCEPT !.state = "completed", !.done = TRUE, !.ended = TRUE,
                         !.mark = FALSE] \in JobStates
        BY <2>3, JobTyped DEF Phase, TerminalStates
      <4> QED
        BY <2>3, <4>1 DEF Kept, JobStates
    <3>3. /\ Kept([rjob EXCEPT !.state = "failed", !.ended = TRUE, !.mark = FALSE])
          /\ Kept([rjob EXCEPT !.state = "finalizing", !.mark = FALSE])
      BY <1>7, <2>3 DEF Phase, TerminalStates
    <3> QED
      BY <1>6, <1>9, <2>1, <3>1, <3>2, <3>3
  <2>5. plan \in BOOLEAN /\ files \in Files
    BY <1>0 DEF Typed
  <2> QED
    BY ONLY WatchingIs, <1>a, <2>1, <2>2, <2>3, <2>4, <2>5 DEF RecoveryAccess
<1>10. CASE Ask \/ ResolveRoom \/ RetryRoom
  <2> USE DEF Ask, ResolveRoom, RetryRoom, Stopped, Answered
  <2>1. Recovering /\ UNCHANGED <<job, plan>>
    BY <1>10 DEF Looking
  <2>2. /\ wpc \in {"ask", "rresolve", "routage"}
        /\ RecoveryMoves /\ wpc \notin Early
    <3>1. wpc' \in RecoveryPhases \ Early
      BY <1>10, <1>8 DEF RecoveryPhases, Early
    <3> QED
      BY <1>10, <3>1 DEF RecoveryMoves, RecoveryPhases, RecoveryEnding, Early
  <2>3. rjob \in JobStates
    BY <1>b, <2>2
  <2>4. UNCHANGED <<disk, rjob>> \/ Heard \/ \E k : Kept(k) /\ SavedCopy(k)
    <3>1. /\ Kept([rjob EXCEPT !.state = "reconnecting", !.mark = FALSE])
          /\ Kept([rjob EXCEPT !.state = "reconciling", !.mark = FALSE])
      BY <1>7, <2>3 DEF Phase, CaptureStates
    <3> QED
      BY <1>6, <1>10, <2>1, <3>1 DEF Heard, Looking
  <2>5. files' \in Files
    BY <1>0, <1>10, FilesTyped DEF Typed, Looking
  <2>6. plan \in BOOLEAN
    BY <1>0 DEF Typed
  <2> QED
    BY ONLY WatchingIs, <1>a, <2>1, <2>2, <2>3, <2>4, <2>5, <2>6 DEF RecoveryAccess
<1> QED
  BY <1>1, <1>2, <1>3, <1>4, <1>5, <1>9, <1>10 DEF RecoveryWork

(* Splits Next: ordinary sections, and the steps that begin or end a worker *)
(* or come from outside.                                                    *)
LEMMA NextSplit ==
  ASSUME Next
  PROVE  \/ CaptureWork \/ RecoveryWork
         \/ Start \/ StartFails \/ Stop \/ Shutdown \/ ShutdownReturns
         \/ LeaseFails \/ WorkerResult \/ Settle \/ RecoveryLeaseFails \/ Outcome
         \/ Restart
  BY DEF Next, Calls, Capture, Recovery, CaptureWork, RecoveryWork

LEMMA NewJobTyped ==
  /\ NewJob \in JobStates
  /\ [NewJob EXCEPT !.state = "failed", !.ended = TRUE] \in JobStates
<1>1. NewJob \in JobStates
  BY DEF JobStates, NewJob, CaptureStates
<1> QED
  BY <1>1, JobTyped DEF Phase, TerminalStates

LEMMA SaveKeepsJobs ==
  ASSUME disk \in Jobs, NEW j \in JobStates, NEW ok \in BOOLEAN, Save(j, ok)
  PROVE  /\ disk' \in Jobs
         /\ disk # NoJob => disk' # NoJob
  BY SaveEnds, NoJobApart DEF Jobs

LEMMA JobsMadeByFailures ==
  ASSUME NEW j \in JobStates
  PROVE  /\ [j EXCEPT !.state = "failed"] \in JobStates
         /\ [j EXCEPT !.state = "failed", !.ended = TRUE] \in JobStates
         /\ [j EXCEPT !.state = "recovering", !.mark = FALSE] \in JobStates
         /\ [j EXCEPT !.state = "recovering"] \in JobStates
         /\ [j EXCEPT !.state = "reconciling"] \in JobStates
  BY JobTyped DEF Phase, CaptureStates, TerminalStates

-----------------------------------------------------------------------------
(* Type correctness.                                                        *)

LEMMA StepTInv ==
  ASSUME TInv, Next
  PROVE  TInv'
<1>0. /\ Typed /\ Phases
      /\ active \/ (blocked /\ job # NoJob) => job \in JobStates /\ disk \in JobStates
      /\ disk \in Jobs /\ files \in Files
  BY DEF TInv, Typed, Phases, Jobs
<1>1. CASE CaptureWork
  <2>1. /\ Capturing
        /\ wpc \in Working /\ wpc' \in Working \cup Ending
        /\ job \in JobStates /\ job' \in JobStates
        /\ disk' \in {disk, job'}
        /\ files' \in Files /\ afterStop' \in BOOLEAN /\ promotions' \in Nat
    BY <1>1, CaptureStep
  <2>2. Typed'
    BY <1>0, <2>1 DEF Typed, Jobs, Capturing, memory, counters, Working, CapturePhases, Ending
  <2>3. wpc' \in CapturePhases \ {"settle"} /\ wpc \in CapturePhases \ {"settle"}
    BY <2>1 DEF Working, CapturePhases, Ending
  <2>4. wpc' \notin RecoveryPhases /\ wpc' # "none" /\ wpc # "none"
    BY <2>3 DEF CapturePhases, RecoveryPhases
  <2>5. Phases'
    BY <1>0, <2>1, <2>3, <2>4, NoJobApart DEF Phases, Capturing, memory, Jobs
  <2> QED
    BY <2>2, <2>5 DEF TInv
<1>2. CASE RecoveryWork
  <2>1. /\ Watching /\ RecoveryMoves /\ RecoveryAccess
        /\ job \in JobStates /\ disk \in JobStates
        /\ files' \in Files /\ plan' \in BOOLEAN /\ promotions' \in Nat
    BY <1>2, RecoveryStep
  <2>2. /\ job' \in JobStates /\ disk' \in JobStates /\ rjob' \in Jobs
        /\ wpc \notin Early => rjob' \in JobStates
        /\ wpc = "load" => rjob' \in JobStates \/ wpc' = "rfailed"
    <3>1. CASE Loaded
      BY <2>1, <3>1 DEF Loaded, Jobs, Early
    <3>2. CASE rjob \in JobStates /\ Heard
      <4>1. rjob' \in JobStates
        BY <2>1, <3>2, MergedTyped, JobTyped DEF Heard, Phase, CaptureStates
      <4> QED
        BY <2>1, <3>2, <4>1 DEF Heard, Jobs
    <3>3. CASE rjob \in JobStates /\ Shown
      <4>1. [rjob EXCEPT !.state = "reconciling"] \in JobStates
        BY <3>3, JobsMadeByFailures
      <4> QED
        BY <2>1, <3>3, <4>1, MergedTyped DEF Shown, Jobs
    <3>4. CASE rjob \in JobStates /\ SavedClaim
      BY <2>1, <3>4, JobsMade DEF SavedClaim, Jobs
    <3>5. ASSUME NEW j, Kept(j), SavedCopy(j), rjob \in JobStates
          PROVE  /\ job' \in JobStates /\ disk' \in JobStates
                 /\ rjob' \in JobStates
      <4>1. Merged(j) \in JobStates
        BY <2>1, <3>5, MergedTyped DEF Kept
      <4> QED
        BY <2>1, <3>5, <4>1 DEF SavedCopy
    <3>6. CASE UNCHANGED <<job, disk, rjob>> /\ (wpc = "load" => wpc' = "rfailed")
      <4>1. rjob \in Jobs /\ (wpc \notin Early => rjob \in JobStates)
        BY <1>0, <2>1 DEF Typed, Phases, RecoveryMoves, Early, Jobs
      <4> QED
        BY <2>1, <3>6, <4>1
    <3> QED
      BY <2>1, <3>1, <3>2, <3>3, <3>4, <3>5, <3>6 DEF RecoveryAccess, Jobs, Early
  <2>3. /\ wpc \in RecoveryPhases /\ wpc' \in RecoveryPhases
        /\ wpc' = "load" <=> wpc = "rlease"
        /\ wpc' # "rlease"
    BY <2>1 DEF RecoveryMoves
  <2>4. Typed'
    BY <1>0, <2>1, <2>2, <2>3 DEF Typed, Jobs, Watching, memory, counters
  <2>5. wpc' \notin CapturePhases /\ wpc' # "none" /\ wpc # "none"
    BY <2>3 DEF CapturePhases, RecoveryPhases
  <2>7. wpc \in Early => rjob = NoJob
    BY <1>0 DEF Phases, Early
  <2>8. wpc' \in Early => rjob' = NoJob
    BY <2>1, <2>3, <2>7 DEF Early, RecoveryAccess, Loaded
  <2>6. Phases'
    BY <1>0, <2>1, <2>2, <2>3, <2>5, <2>7, <2>8, NoJobApart
    DEF Phases, Watching, memory, Early
  <2> QED
    BY <2>4, <2>6 DEF TInv
<1>3. CASE Start
  <2>1. /\ job' = NewJob /\ disk' = NewJob /\ files' = NoFiles /\ rjob' = rjob
        /\ wpc' = "lease" /\ active' = TRUE /\ resumed' = FALSE /\ event' = FALSE
        /\ ~blocked /\ ~active
        /\ starts' = starts + 1
        /\ stopped' = FALSE /\ afterStop' = FALSE /\ promotions' = 0
        /\ UNCHANGED <<blocked, closed, plan, crashes>>
    BY <1>3 DEF Start, Available, Save, Valid, NewJob, TerminalStates
  <2>2. NewJob \in JobStates /\ rjob = NoJob
    BY <1>0, <2>1, NewJobTyped DEF Phases
  <2>3. Typed'
    <3>1. starts' \in Nat /\ promotions' \in Nat /\ wpc' \in CapturePhases
      BY <1>0, <2>1 DEF Typed, CapturePhases
    <3> QED
      BY <1>0, <2>1, <2>2, <3>1, NoFilesTyped DEF Typed, Jobs
  <2>4. Phases'
    BY <1>0, <2>1, <2>2, NoJobApart DEF Phases, CapturePhases, RecoveryPhases
  <2> QED
    BY <2>3, <2>4 DEF TInv
<1>4. CASE StartFails
  <2>1. /\ job' = [NewJob EXCEPT !.state = "failed", !.ended = TRUE]
        /\ ~blocked /\ ~active /\ event' = FALSE
        /\ starts' = starts + 1
        /\ UNCHANGED <<active, blocked, closed, wpc, resumed, rjob, plan, crashes>>
    BY <1>4 DEF StartFails, Available
  <2>5. disk' \in {job', NewJob, disk}
    BY <1>4 DEF StartFails
  <2>6. /\ files' \in {files, NoFiles}
        /\ stopped' \in {stopped, FALSE} /\ afterStop' \in {afterStop, FALSE}
        /\ promotions' \in {promotions, 0}
    BY <1>4 DEF StartFails, history
  <2>2. NewJob \in JobStates /\ job' \in JobStates
    BY <2>1, NewJobTyped
  <2>3. Typed'
    <3>1. starts' \in Nat /\ promotions' \in Nat
      BY <1>0, <2>1, <2>6 DEF Typed
    <3>2. stopped' \in BOOLEAN /\ afterStop' \in BOOLEAN
      BY <1>0, <2>6 DEF Typed
    <3>3. job' \in Jobs /\ disk' \in Jobs /\ files' \in Files
      BY <1>0, <2>2, <2>5, <2>6, NoFilesTyped DEF Jobs
    <3> QED
      BY <1>0, <2>1, <3>1, <3>2, <3>3 DEF Typed
  <2>4. Phases'
    BY <1>0, <2>1 DEF Phases
  <2> QED
    BY <2>3, <2>4 DEF TInv
<1>5. CASE Stop \/ Shutdown
  <2>1. /\ \/ UNCHANGED <<job, disk>>
           \/ /\ job \in JobStates
              /\ job' = [job EXCEPT !.stop = TRUE]
              /\ \E ok \in BOOLEAN : Save(job', ok)
        /\ event' \in BOOLEAN /\ stopped' \in BOOLEAN
        /\ closed' \in BOOLEAN
        /\ UNCHANGED <<active, blocked, wpc, resumed, rjob, plan, files, starts,
                       crashes, afterStop, promotions>>
    BY <1>0, <1>5 DEF Stop, Shutdown, counters, history, Typed
  <2>2. /\ job' \in Jobs /\ disk' \in Jobs
        /\ job # NoJob => job' # NoJob
        /\ job = NoJob => job' = NoJob
        /\ disk # NoJob => disk' # NoJob
    BY <1>0, <2>1, JobTyped, SaveKeepsJobs, NoJobApart DEF Typed, Jobs, Phase
  <2>3. Typed'
    BY <1>0, <2>1, <2>2 DEF Typed
  <2>4. Phases'
    BY <1>0, <2>1, <2>2 DEF Phases
  <2> QED
    BY <2>3, <2>4 DEF TInv
<1>6. CASE ShutdownReturns
  BY <1>0, <1>6 DEF ShutdownReturns, counters, history, TInv, Typed, Phases
<1>7. CASE LeaseFails \/ Settle
  <2>1. /\ wpc \in {"lease", "settle"} /\ active' = FALSE /\ wpc' = "none" /\ resumed' = FALSE
        /\ \/ job' = [job EXCEPT !.state = "failed", !.ended = TRUE]
           \/ job' = [job EXCEPT !.ended = TRUE]
        /\ \E ok \in BOOLEAN : Save(job', ok)
        /\ blocked' \in BOOLEAN
        /\ UNCHANGED <<closed, event, rjob, plan, files, starts, crashes,
                       stopped, afterStop, promotions>>
    BY <1>0, <1>7 DEF LeaseFails, Settle, counters, history, Typed
  <2>2. /\ job \in JobStates /\ disk \in JobStates /\ job' \in JobStates
        /\ wpc \in CapturePhases
    BY <1>0, <2>1, JobTyped, JobsMadeByFailures DEF Phases, CapturePhases, Phase, TerminalStates
  <2>3. disk' \in JobStates
    BY <2>1, <2>2, SaveEnds
  <2>4. Typed'
    BY <1>0, <2>1, <2>2, <2>3 DEF Typed, Jobs
  <2>5. Phases'
    BY <1>0, <2>1, <2>2, <2>3, NoJobApart DEF Phases, RecoveryPhases, CapturePhases
  <2> QED
    BY <2>4, <2>5 DEF TInv
<1>8. CASE WorkerResult
  <2>1. /\ wpc \in CapturePhases \ {"settle"} /\ wpc' = "settle"
        /\ UNCHANGED <<active, closed, event, resumed, rjob, plan, disk, files, starts,
                       crashes, stopped, afterStop, promotions>>
        /\ blocked' = TRUE => blocked \/ resumed
        /\ blocked' \in BOOLEAN
    BY <1>0, <1>8 DEF WorkerResult, CapturePhases, counters, history, Typed
  <2>2. job \in JobStates /\ disk \in JobStates /\ (files.fin = "completed") \in BOOLEAN
    BY <1>0, <2>1 DEF Phases, CapturePhases
  <2>3. job' \in JobStates
    <3>1. /\ [job EXCEPT !.state = "completed", !.done = files.fin = "completed"] \in JobStates
          /\ [job EXCEPT !.state = FailedResumeState(@), !.mark = FALSE] \in JobStates
          /\ [job EXCEPT !.state = "failed"] \in JobStates
      BY <2>2, JobTyped, JobsMade DEF Phase, TerminalStates
    <3> QED
      BY <1>8, <3>1 DEF WorkerResult
  <2>4. Typed'
    BY <1>0, <2>1, <2>3 DEF Typed, Jobs, CapturePhases
  <2>5. Phases'
    BY <1>0, <2>1, <2>2, <2>3, NoJobApart DEF Phases, RecoveryPhases, CapturePhases, Typed
  <2> QED
    BY <2>4, <2>5 DEF TInv
<1>9. CASE RecoveryLeaseFails \/ Outcome
  <2>1. /\ wpc \in RecoveryPhases
        /\ wpc = "rlease" \/ (rjob' = NoJob /\ plan' = FALSE)
        /\ plan' \in BOOLEAN
        /\ UNCHANGED <<closed, event, disk, files, starts, crashes, stopped, afterStop,
                       promotions>>
        /\ blocked' \in BOOLEAN
        /\ \/ active' = FALSE /\ wpc' = "none" /\ resumed' = FALSE
           \/ active' = TRUE /\ wpc' = "lease" /\ resumed' = TRUE /\ blocked' = FALSE
        /\ rjob' \in {rjob, NoJob}
    <3>1. CASE RecoveryLeaseFails
      <4>1. wpc = "rlease" /\ ~resumed /\ resumed \in BOOLEAN /\ plan \in BOOLEAN
        BY <1>0, <3>1 DEF RecoveryLeaseFails, Typed, Phases, RecoveryPhases
      <4>2. /\ blocked' = TRUE /\ active' = FALSE /\ wpc' = "none"
            /\ UNCHANGED <<closed, event, resumed, rjob, plan, disk, files, starts, crashes,
                           stopped, afterStop, promotions>>
        BY <3>1 DEF RecoveryLeaseFails, counters, history
      <4> QED
        BY <4>1, <4>2 DEF RecoveryPhases
    <3>3. CASE Outcome
      <4>1. wpc \in RecoveryPhases /\ blocked' \in BOOLEAN
        BY <3>3 DEF Outcome, Blocks, RecoveryPhases
      <4>2. CASE wpc = "resume"
        BY <3>3, <4>1, <4>2 DEF Outcome, Blocks, counters
      <4>3. CASE wpc # "resume"
        BY <3>3, <4>1, <4>3 DEF Outcome, counters
      <4> QED
        BY <4>2, <4>3
    <3> QED
      BY <1>9, <3>1, <3>3
  <2>2. job \in JobStates /\ disk \in JobStates
    BY <1>0, <2>1 DEF Phases, RecoveryPhases
  <2>3. job' \in JobStates
    <3>1. [job EXCEPT !.state = "recovering", !.mark = FALSE] \in JobStates
      BY <2>2, JobsMadeByFailures
    <3>2. rjob \in JobStates =>
            /\ Observed(rjob) \in JobStates
            /\ [Observed(rjob) EXCEPT !.state = "recovering", !.mark = FALSE] \in JobStates
      BY <2>2, MergedTyped, JobsMadeByFailures
    <3>3. rjob \in JobStates \/ wpc = "rlease" \/ (wpc = "rfailed" /\ rjob = NoJob)
      BY <1>0, <1>9, <2>1 DEF RecoveryLeaseFails, Outcome, Typed, Phases, RecoveryPhases, Jobs
    <3> QED
      BY <1>9, <3>1, <3>2, <3>3 DEF RecoveryLeaseFails, Outcome
  <2>4. rjob' = NoJob
    BY <1>0, <2>1 DEF Phases
  <2>5. Typed'
    BY <1>0, <2>1, <2>3, <2>4 DEF Typed, Jobs, CapturePhases
  <2>6. Phases'
    BY <1>0, <2>1, <2>2, <2>3, <2>4, NoJobApart DEF Phases, RecoveryPhases, CapturePhases
  <2> QED
    BY <2>5, <2>6 DEF TInv
<1>10. CASE Restart
  <2>1. /\ crashes' = crashes + 1
        /\ closed' = FALSE /\ event' = FALSE /\ resumed' = FALSE /\ rjob' = NoJob
        /\ plan' = FALSE
        /\ UNCHANGED <<disk, files, starts, stopped, afterStop, promotions>>
        /\ \/ /\ job' \in {NoJob, disk} /\ active' = FALSE /\ blocked' \in BOOLEAN
              /\ wpc' = "none" /\ (blocked' => job' = NoJob)
           \/ /\ disk # NoJob
              /\ \/ job' = [disk EXCEPT !.state = "reconciling"]
                    /\ active' = TRUE /\ blocked' = TRUE /\ wpc' = "rlease"
                 \/ job' = [disk EXCEPT !.state = "recovering"]
                    /\ active' = FALSE /\ blocked' = TRUE /\ wpc' = "none"
    BY <1>10 DEF Restart, Restarted, history
  <2>2. disk \in Jobs
    BY <1>0
  <2>3. disk # NoJob => /\ disk \in JobStates
                        /\ [disk EXCEPT !.state = "reconciling"] \in JobStates
                        /\ [disk EXCEPT !.state = "recovering"] \in JobStates
    BY <2>2, JobsMadeByFailures DEF Jobs
  <2>4. job' \in Jobs /\ (active' => job' # NoJob)
    BY <2>1, <2>2, <2>3, NoJobApart DEF Jobs
  <2>5. Typed'
    <3>1. crashes' \in Nat
      BY <1>0, <2>1 DEF Typed
    <3>2. wpc' \in {"none", "rlease"} /\ active' \in BOOLEAN /\ blocked' \in BOOLEAN
      BY <2>1
    <3> QED
      BY <1>0, <2>1, <2>4, <3>1, <3>2 DEF Typed, Jobs, RecoveryPhases
  <2>6. Phases'
    BY <2>1, <2>4 DEF Phases, RecoveryPhases, CapturePhases
  <2> QED
    BY <2>5, <2>6 DEF TInv
<1> QED
  BY NextSplit, <1>1, <1>2, <1>3, <1>4, <1>5, <1>6, <1>7, <1>8, <1>9, <1>10

(* Invariant TInv: every field keeps its range, and the slot's flags, the   *)
(* worker and its copies of the job agree with the section it runs          *)
(* (recording.py, reconciliation.py).                                       *)
THEOREM TypeCorrect == Spec => []TInv
<1>1. Init => TInv
  BY InitTInv
<1>2. TInv /\ [Next]_vars => TInv'
  <2>1. ASSUME TInv, UNCHANGED vars PROVE TInv'
    BY <2>1 DEF TInv, Typed, Phases, vars, memory, counters, history
  <2> QED
    BY <2>1, StepTInv
<1> QED
  BY <1>1, <1>2, PTL DEF Spec

-----------------------------------------------------------------------------
(* The output is promoted once.                                             *)

(* The promotions of a session are counted by its output, which an encoder  *)
(* running does not have yet.                                               *)
OutputInv ==
  /\ promotions = IF files.output THEN 1 ELSE 0
  /\ wpc \in {"encoding", "rencoding"} => ~files.output

LEMMA StepOutput ==
  ASSUME TInv, OutputInv, Next
  PROVE  OutputInv'
<1>0. files \in Files /\ wpc \in {"none"} \cup CapturePhases \cup RecoveryPhases
  BY DEF TInv, Typed
<1>1. ASSUME files'.output = files.output, promotions' = promotions,
             wpc' \notin {"encoding", "rencoding"} \/ wpc' = wpc
      PROVE  OutputInv'
  BY <1>1 DEF OutputInv
<1>6. ASSUME NEW from \in {"encoding", "rencoding"},
             NEW promoted, NEW failed, EncoderEnds(from, promoted, failed),
             {promoted, failed} \cap {"encoding", "rencoding"} = {}
      PROVE  OutputInv'
  <2>1. wpc' \notin {"encoding", "rencoding"} /\ ~files.output /\ promotions = 0
    BY <1>6 DEF OutputInv, EncoderEnds
  <2>2. \/ files'.output = TRUE /\ promotions' = promotions + 1
        \/ files'.output = files.output /\ promotions' = promotions
    BY <1>0, <1>6 DEF EncoderEnds, Promoted, EncodingFailed, Files
  <2> QED
    BY <2>1, <2>2 DEF OutputInv
<1>2. CASE CaptureWork
  <2>1. CASE \/ Lease \/ Reopen \/ Resolve \/ Resolved \/ Identify \/ Prepare \/ Open
             \/ WriterWrites \/ ConnectionEnds \/ Reconnect \/ Finish \/ MarkFinalizing
    <3>1. promotions' = promotions /\ (wpc' \notin {"encoding", "rencoding"} \/ wpc' = wpc)
      BY <2>1 DEF Lease, Reopen, Resolve, Resolved, Identify, Prepare, Open, WriterWrites,
                  ConnectionEnds, Reconnect, Finish, MarkFinalizing, NoMedia
    <3>2. files'.output = files.output
      BY <1>0, <2>1
      DEF Lease, Reopen, Resolve, Resolved, Identify, Prepare, Open, WriterWrites,
          ConnectionEnds, Reconnect, Finish, MarkFinalizing, NoMedia, Files, Reopened,
          CaptureFailed, Prepared, PartClosed, EndedEmpty
    <3> QED
      BY <1>1, <3>1, <3>2
  <2>2. CASE CompleteManifest("close", "returned")
    BY <1>0, <1>1, <2>2 DEF CompleteManifest, Completed, Files
  <2>3. CASE Encode("encode", "encoding", "raised")
    BY <1>0, <1>1, <2>3
    DEF OutputInv, Encode, OutputExists, Encoding, EncodingFailed, Files
  <2>4. CASE EncoderEnds("encoding", "close", "raised")
    BY <1>6, <2>4
  <2> QED
    BY <1>2, <2>1, <2>2, <2>3, <2>4 DEF CaptureWork
<1>3. CASE RecoveryWork
  <2>1. CASE \/ RecoveryLease \/ Load \/ Observe \/ Inspect \/ Compare \/ Claim
             \/ ObserveClaim \/ Preserve \/ Publish \/ RecordRecovery \/ Decide
             \/ Ask \/ ResolveRoom \/ RetryRoom \/ ObserveOutage \/ GiveUp \/ Found
             \/ ObserveResume \/ Finalize \/ MarkRecovery \/ PreserveEncoderPartial
             \/ CompleteJob
    <3>1. promotions' = promotions
      BY <2>1
      DEF RecoveryLease, Load, Observe, Inspect, Compare, Claim, ObserveClaim, Preserve,
          Publish, RecordRecovery, Decide, Ask, ResolveRoom, RetryRoom, ObserveOutage,
          GiveUp, Found, ObserveResume, Finalize, MarkRecovery, PreserveEncoderPartial,
          CompleteJob, Looking, Recovering, history
    <3>2. wpc' \notin {"encoding", "rencoding"}
      BY <2>1
      DEF RecoveryLease, Load, Observe, Inspect, Compare, Claim, ObserveClaim, Preserve,
          Publish, RecordRecovery, Decide, Ask, ResolveRoom, RetryRoom, ObserveOutage,
          GiveUp, Found, ObserveResume, Finalize, MarkRecovery, PreserveEncoderPartial,
          CompleteJob, Artifact, Refused, SaveRecovery, Stopped, Answered
    <3>3. files'.output = files.output
      BY <1>0, <2>1
      DEF RecoveryLease, Load, Observe, Inspect, Compare, Claim, ObserveClaim, Preserve,
          Publish, RecordRecovery, Decide, Ask, ResolveRoom, RetryRoom, ObserveOutage,
          GiveUp, Found, ObserveResume, Finalize, MarkRecovery, PreserveEncoderPartial,
          CompleteJob, Looking, Artifact, Files, CaptureFailed
    <3> QED
      BY <1>1, <3>1, <3>2, <3>3
  <2>2. CASE CompleteManifest("rclose", "rcomplete")
    BY <1>0, <1>1, <2>2 DEF CompleteManifest, Completed, Files
  <2>3. CASE Encode("rencode", "rencoding", "rfailed")
    BY <1>0, <1>1, <2>3
    DEF OutputInv, Encode, OutputExists, Encoding, EncodingFailed, Files
  <2>4. CASE EncoderEnds("rencoding", "rclose", "rfailed")
    BY <1>6, <2>4
  <2> QED
    BY <1>3, <2>1, <2>2, <2>3, <2>4 DEF RecoveryWork
<1>4. CASE Start \/ StartFails
  <2>1. wpc' \notin {"encoding", "rencoding"} \/ wpc' = wpc
    BY <1>4 DEF Start, StartFails
  <2>2. CASE files' = NoFiles /\ promotions' = 0
    <3>1. wpc' \notin {"encoding", "rencoding"}
      BY <1>4 DEF TInv, Phases, Start, StartFails, Available
    <3> QED
      BY <2>2, <3>1 DEF OutputInv, NoFiles
  <2>3. CASE UNCHANGED <<files, history>>
    BY <1>1, <2>1, <2>3 DEF history
  <2> QED
    BY <1>4, <2>2, <2>3 DEF Start, StartFails
<1>5. CASE \/ Stop \/ Shutdown \/ ShutdownReturns \/ LeaseFails \/ WorkerResult \/ Settle
           \/ RecoveryLeaseFails \/ Outcome \/ Restart
  BY <1>1, <1>5
  DEF Stop, Shutdown, ShutdownReturns, LeaseFails, WorkerResult, Settle,
      RecoveryLeaseFails, Outcome, Restart, Restarted, history
<1> QED
  BY NextSplit, <1>2, <1>3, <1>4, <1>5

(* Invariant OutputOnce: a session's output is promoted at most once,       *)
(* whatever restarts and retries of finalization it sees: finalize_parts    *)
(* refuses what exists, and nothing removes an output (finalization.py).    *)
THEOREM OutputPromotedOnce == Spec => []OutputOnce
<1>1. Init => OutputInv
  BY DEF Init, OutputInv, NoFiles
<1>2. TInv /\ OutputInv /\ [Next]_vars => OutputInv'
  BY StepOutput DEF vars, history, OutputInv
<1>3. OutputInv => OutputOnce
  BY DEF OutputInv, OutputOnce
<1> QED
  BY TypeCorrect, <1>1, <1>2, <1>3, PTL DEF Spec

-----------------------------------------------------------------------------
(* What is durable as completed is proven.                                  *)

LEMMA MergedIs ==
  ASSUME NEW j \in JobStates, job \in JobStates
  PROVE  /\ Observed(j).done = j.done /\ Observed(j).room = j.room
         /\ Observed(j).state = j.state
         /\ Observed(j).stop <=> j.stop \/ job.stop
         /\ Merged(j).done = j.done /\ Merged(j).room = j.room
         /\ Merged(j).stop <=> j.stop \/ job.stop
         /\ IF job.stop /\ j.state = "resuming" THEN Merged(j).state = "finalizing"
                                               ELSE Merged(j).state = j.state
<1> USE DEF JobStates
<1>1. /\ Observed(j).done = j.done /\ Observed(j).room = j.room
      /\ Observed(j).state = j.state
      /\ Observed(j).stop <=> j.stop \/ job.stop
  BY DEF Observed
<1> QED
  BY <1>1 DEF Merged

(* What a section of the recovery leaves in the fields it does not decide:  *)
(* they come from the reconciler's copy, and a stop heard is kept.          *)
LEMMA AccessIs ==
  ASSUME RecoveryAccess, job \in JobStates, disk \in JobStates, wpc \notin Early
  PROVE  /\ UNCHANGED <<job, disk, rjob>> \/ rjob \in JobStates
         /\ job'.room \in {job.room, rjob.room}
         /\ disk'.room \in {disk.room, rjob.room} /\ rjob'.room = rjob.room
         /\ wpc \notin {"proven", "rcomplete"} =>
              /\ job'.done \in {job.done, rjob.done}
              /\ disk'.done \in {disk.done, rjob.done} /\ rjob'.done = rjob.done
         /\ job.stop => job'.stop
         /\ wpc # "claim" => disk'.stop = disk.stop \/ (disk'.stop <=> rjob.stop \/ job.stop)
         /\ rjob.stop => rjob'.stop
         /\ rjob'.stop => rjob.stop \/ job.stop \/ event
<1>1. CASE UNCHANGED <<job, disk, rjob>>
  BY <1>1
<1>2. CASE rjob \in JobStates /\ Heard
  <2>1. CASE rjob' = Observed(rjob)
    BY <1>2, <2>1, MergedIs DEF Heard
  <2>2. CASE event /\ rjob' = [rjob EXCEPT !.stop = TRUE]
    BY <1>2, <2>2 DEF Heard, JobStates
  <2> QED
    BY <1>2, <2>1, <2>2 DEF Heard
<1>3. CASE rjob \in JobStates /\ Shown
  <2>1. /\ [rjob EXCEPT !.state = "reconciling"] \in JobStates
        /\ [rjob EXCEPT !.state = "reconciling"].room = rjob.room
        /\ [rjob EXCEPT !.state = "reconciling"].done = rjob.done
        /\ [rjob EXCEPT !.state = "reconciling"].stop = rjob.stop
    BY <1>3, JobsMadeByFailures DEF JobStates
  <2> QED
    BY <1>3, <2>1, MergedIs DEF Shown
<1>4. CASE rjob \in JobStates /\ SavedClaim /\ wpc = "claim"
  <2>1. /\ Claimed(rjob).room = rjob.room /\ Claimed(rjob).done = rjob.done
        /\ Claimed(rjob).stop = rjob.stop
    BY <1>4 DEF Claimed, JobStates
  <2> QED
    BY <1>4, <2>1 DEF SavedClaim
<1>5. ASSUME NEW j, Kept(j), SavedCopy(j), rjob \in JobStates
      PROVE  /\ job'.room \in {job.room, rjob.room}
             /\ disk'.room \in {disk.room, rjob.room} /\ rjob'.room = rjob.room
             /\ wpc \notin {"proven", "rcomplete"} =>
                  /\ job'.done \in {job.done, rjob.done}
                  /\ disk'.done \in {disk.done, rjob.done} /\ rjob'.done = rjob.done
             /\ job.stop => job'.stop
             /\ disk'.stop = disk.stop \/ (disk'.stop <=> rjob.stop \/ job.stop)
             /\ rjob.stop => rjob'.stop
             /\ rjob'.stop => rjob.stop \/ job.stop \/ event
  <2>1. /\ Merged(j).done = j.done /\ Merged(j).room = j.room
        /\ Merged(j).stop <=> j.stop \/ job.stop
    BY <1>5, MergedIs DEF Kept
  <2> QED
    BY <1>5, <2>1 DEF Kept, SavedCopy
<1> QED
  BY <1>1, <1>2, <1>3, <1>4, <1>5 DEF RecoveryAccess, Loaded, Early

(* Only the worker that saw the manifest completed holds a job that says so. *)
ProvenInv ==
  /\ disk # NoJob /\ disk.done =>
       OutputProven(files) /\ wpc \in {"none", "settle", "settled", "rfailed"}
  /\ job # NoJob /\ job.done => OutputProven(files) /\ wpc \in {"none", "settle"}
  /\ rjob # NoJob /\ rjob.done => OutputProven(files) /\ wpc = "settled"
  /\ wpc \in {"close", "rclose"} => files.output
  /\ wpc \in {"proven", "rcomplete"} => OutputProven(files)
  /\ wpc = "returned" /\ files.fin = "completed" => OutputProven(files)
  /\ files.man = "none" => files.fin # "completed"

LEMMA StepProven ==
  ASSUME TInv, ProvenInv, Next
  PROVE  ProvenInv'
<1>0. /\ files \in Files /\ disk \in Jobs /\ rjob \in Jobs
      /\ active => job \in JobStates /\ disk \in JobStates
      /\ active <=> wpc # "none"
  BY DEF TInv, Typed, Phases, Jobs
<1>1. CASE CaptureWork
  <2>1. /\ wpc \in Working /\ wpc' \in Working \cup Ending
        /\ job \in JobStates /\ job' \in JobStates /\ SameIntent(job', job)
        /\ disk' \in {disk, job'} /\ rjob' = rjob
    BY <1>1, CaptureStep DEF Capturing
  <2>2. /\ disk \in JobStates /\ rjob = NoJob
    BY <1>0, <2>1 DEF TInv, Phases, Working, CapturePhases, Ending
  <2>3. wpc \notin {"none", "settle", "settled", "rfailed"}
    BY <2>1 DEF Working, CapturePhases, Ending
  <2>4. ~job.done /\ ~disk.done
    BY <2>1, <2>2, <2>3, NoJobApart DEF ProvenInv
  <2>5. ~job'.done /\ ~disk'.done
    BY <2>1, <2>4 DEF SameIntent
  <2>6. /\ wpc' = "close" => files'.output
        /\ wpc' \notin {"rclose", "proven", "rcomplete"}
        /\ wpc' = "returned" /\ files'.fin = "completed" => OutputProven(files')
        /\ files'.man = "none" => files'.fin # "completed"
    <3>1. CASE \/ Lease \/ Reopen \/ Resolve \/ Resolved \/ Identify \/ Prepare \/ Open
               \/ WriterWrites \/ ConnectionEnds \/ Reconnect
      BY <1>0, <3>1
      DEF ProvenInv, Lease, Reopen, Resolve, Resolved, Identify, Prepare, Open, WriterWrites,
          ConnectionEnds, Reconnect, NoMedia, Files, Reopened,
          CaptureFailed, Prepared, PartClosed
    <3>2. CASE Finish \/ MarkFinalizing
      BY <1>0, <3>2
      DEF ProvenInv, Finish, MarkFinalizing, Files, EndedEmpty
    <3>3. CASE Encode("encode", "encoding", "raised")
      BY <1>0, <3>3 DEF ProvenInv, Encode, Encoding, EncodingFailed, Files
    <3>4. CASE EncoderEnds("encoding", "close", "raised")
      BY <1>0, <3>4 DEF ProvenInv, EncoderEnds, Promoted, EncodingFailed, Files
    <3>5. CASE CompleteManifest("close", "returned")
      BY <1>0, <3>5 DEF ProvenInv, CompleteManifest, Completed, Files, OutputProven
    <3> QED
      BY <1>1, <3>1, <3>2, <3>3, <3>4, <3>5 DEF CaptureWork
  <2> QED
    BY <2>1, <2>2, <2>5, <2>6 DEF ProvenInv
<1>2. CASE RecoveryWork
  <2>1. /\ RecoveryMoves /\ RecoveryAccess
        /\ job \in JobStates /\ disk \in JobStates
    BY <1>2, RecoveryStep
  <2>2. /\ wpc \notin {"none", "settle", "settled", "rfailed"}
        /\ wpc' \notin {"none", "settle", "close", "returned"}
    BY <2>1 DEF RecoveryMoves, RecoveryPhases, RecoveryEnding
  <2>3. ~job.done /\ ~disk.done /\ (rjob # NoJob => ~rjob.done)
    BY <2>1, <2>2, NoJobApart DEF ProvenInv
  <2>4. CASE wpc \notin {"proven", "rcomplete"}
    <3>1. ~job'.done /\ ~disk'.done /\ (rjob' # NoJob => ~rjob'.done)
      <4>1. CASE wpc \in Early
        BY <2>1, <2>3, <4>1 DEF RecoveryAccess, Loaded
      <4>2. CASE wpc \notin Early
        <5>1. UNCHANGED <<job, disk, rjob>> \/ rjob \in JobStates
          BY <2>1, <4>2, AccessIs
        <5>2. /\ job'.done \in {job.done, rjob.done}
              /\ disk'.done \in {disk.done, rjob.done} /\ rjob'.done = rjob.done
          BY <2>1, <2>4, <4>2, AccessIs
        <5> QED
          BY <2>3, <5>1, <5>2, NoJobApart
      <4> QED
        BY <4>1, <4>2
    <3>2. /\ wpc' = "rclose" => files'.output
          /\ wpc' \in {"proven", "rcomplete"} => OutputProven(files')
          /\ files'.man = "none" => files'.fin # "completed"
      <4>1. CASE \/ RecoveryLease \/ Load \/ Observe \/ Inspect \/ Compare \/ Claim
                 \/ ObserveClaim \/ Preserve \/ Publish \/ RecordRecovery \/ Decide
                 \/ Ask \/ ResolveRoom \/ RetryRoom \/ ObserveOutage \/ GiveUp \/ Found
                 \/ ObserveResume \/ Finalize \/ MarkRecovery \/ PreserveEncoderPartial
        <5>1. wpc' # "rclose" /\ wpc' # "rcomplete"
          BY <4>1
          DEF RecoveryLease, Load, Observe, Inspect, Compare, Claim, ObserveClaim, Preserve,
              Publish, RecordRecovery, Decide, Ask, ResolveRoom, RetryRoom, ObserveOutage,
              GiveUp, Found, ObserveResume, Finalize, MarkRecovery, PreserveEncoderPartial,
              Artifact, Refused, SaveRecovery, Stopped, Answered
        <5>2. wpc' = "proven" => OutputProven(files')
          <6>1. CASE Decide
            BY <6>1 DEF Decide, Looking, Refused
          <6>2. CASE ~Decide
            BY <4>1, <6>2
            DEF RecoveryLease, Load, Observe, Inspect, Compare, Claim, ObserveClaim, Preserve,
                Publish, RecordRecovery, Ask, ResolveRoom, RetryRoom, ObserveOutage,
                GiveUp, Found, ObserveResume, Finalize, MarkRecovery, PreserveEncoderPartial,
                Artifact, Refused, SaveRecovery, Stopped, Answered
          <6> QED
            BY <6>1, <6>2
        <5>3. files'.man = "none" => files'.fin # "completed"
          BY <1>0, <4>1
          DEF ProvenInv, RecoveryLease, Load, Observe, Inspect, Compare, Claim, ObserveClaim,
              Preserve, Publish, RecordRecovery, Decide, Ask, ResolveRoom, RetryRoom,
              ObserveOutage, GiveUp, Found, ObserveResume, Finalize, MarkRecovery,
              PreserveEncoderPartial, Looking, Artifact, Files, CaptureFailed
        <5> QED
          BY <5>1, <5>2, <5>3
      <4>2. CASE Encode("rencode", "rencoding", "rfailed")
        BY <1>0, <4>2 DEF ProvenInv, Encode, Encoding, EncodingFailed, Files
      <4>3. CASE EncoderEnds("rencoding", "rclose", "rfailed")
        BY <1>0, <4>3 DEF ProvenInv, EncoderEnds, Promoted, EncodingFailed, Files
      <4>4. CASE CompleteManifest("rclose", "rcomplete")
        BY <1>0, <4>4 DEF ProvenInv, CompleteManifest, Completed, Files, OutputProven
      <4>5. ~CompleteJob
        BY <2>4 DEF CompleteJob
      <4> QED
        BY <1>2, <4>1, <4>2, <4>3, <4>4, <4>5 DEF RecoveryWork
    <3> QED
      BY <2>2, <3>1, <3>2 DEF ProvenInv
  <2>5. CASE wpc \in {"proven", "rcomplete"}
    <3>1. CompleteJob
      BY <1>2, <2>5
      DEF RecoveryWork, RecoveryLease, Load, Observe, Inspect, Compare, Claim, ObserveClaim,
          Preserve, Publish, RecordRecovery, Decide, Ask, ResolveRoom, RetryRoom,
          ObserveOutage, GiveUp, Found, ObserveResume, Finalize, MarkRecovery,
          PreserveEncoderPartial, Encode, EncoderEnds, CompleteManifest
    <3>2. OutputProven(files) /\ files' = files /\ job' = job
      BY <2>5, <3>1 DEF ProvenInv, CompleteJob
    <3>3. /\ wpc' = "settled" \/ (wpc' = "rfailed" /\ rjob' = rjob)
      BY <3>1, SaveRecoveryEnds DEF CompleteJob
    <3> QED
      BY <2>3, <3>2, <3>3 DEF ProvenInv, OutputProven
  <2> QED
    BY <2>4, <2>5
<1>3. CASE Start
  <2>1. /\ job' = NewJob /\ disk' = NewJob /\ files' = NoFiles /\ wpc' = "lease"
        /\ rjob' = rjob /\ rjob = NoJob
    BY <1>3 DEF TInv, Phases, Start, Available, Save, Valid, NewJob, TerminalStates
  <2> QED
    BY <2>1 DEF ProvenInv, NoFiles, NewJob, NoJob
<1>4. CASE StartFails
  <2>1. /\ wpc' = "none" /\ rjob' = NoJob
        /\ job' = [NewJob EXCEPT !.state = "failed", !.ended = TRUE]
        /\ \/ disk' = disk /\ files' = files
           \/ disk' \in {NewJob, job'} /\ files' = NoFiles
    BY <1>4 DEF TInv, Phases, StartFails, Available
  <2>2. job'.done = FALSE /\ NewJob.done = FALSE
    BY <2>1, NewJobTyped DEF NewJob
  <2>3. files'.man = "none" => files'.fin # "completed"
    BY <2>1 DEF ProvenInv, NoFiles
  <2>4. disk' # NoJob /\ disk'.done => OutputProven(files')
    BY <2>1, <2>2 DEF ProvenInv, OutputProven
  <2> QED
    BY <2>1, <2>2, <2>3, <2>4 DEF ProvenInv, OutputProven
<1>5. CASE Stop \/ Shutdown \/ ShutdownReturns
  <2>1. /\ \/ UNCHANGED <<job, disk>>
           \/ /\ job \in JobStates
              /\ job' = [job EXCEPT !.stop = TRUE]
              /\ \E ok \in BOOLEAN : Save(job', ok)
        /\ UNCHANGED <<wpc, rjob, files>>
    BY <1>0, <1>5 DEF Stop, Shutdown, ShutdownReturns, TInv, Typed, Jobs
  <2>2. CASE UNCHANGED <<job, disk>>
    BY <2>1, <2>2 DEF ProvenInv, OutputProven
  <2>3. CASE /\ job \in JobStates
             /\ job' = [job EXCEPT !.stop = TRUE]
             /\ \E ok \in BOOLEAN : Save(job', ok)
    <3>1. disk' \in {disk, job'}
      BY <2>3, SaveEnds
    <3>2. job'.done = job.done /\ job # NoJob
      BY <2>3, NoJobApart DEF JobStates
    <3> QED
      BY <2>1, <3>1, <3>2 DEF ProvenInv, OutputProven
  <2> QED
    BY <2>1, <2>2, <2>3
<1>6. CASE LeaseFails \/ WorkerResult \/ Settle
  <2>1. /\ job \in JobStates /\ disk \in JobStates /\ rjob = NoJob /\ rjob' = NoJob
        /\ files' = files /\ wpc' \in {"none", "settle"}
    BY <1>0, <1>6 DEF LeaseFails, WorkerResult, Settle, TInv, Phases, CapturePhases
  <2>2. disk' \in {disk, job'}
    BY <1>6, SaveEnds DEF LeaseFails, WorkerResult, Settle
  <2>3. job'.done => OutputProven(files)
    <3>1. job.done => OutputProven(files)
      BY <2>1, NoJobApart DEF ProvenInv
    <3>2. CASE WorkerResult /\ wpc = "returned"
      BY <2>1, <3>2 DEF WorkerResult, ProvenInv, JobStates
    <3>3. CASE WorkerResult /\ wpc # "returned"
      BY <2>1, <3>1, <3>3 DEF WorkerResult, JobStates
    <3>4. CASE LeaseFails \/ Settle
      BY <2>1, <3>1, <3>4 DEF LeaseFails, Settle, JobStates
    <3> QED
      BY <1>6, <3>2, <3>3, <3>4
  <2>4. disk.done => OutputProven(files)
    BY <2>1, NoJobApart DEF ProvenInv
  <2> QED
    BY <2>1, <2>2, <2>3, <2>4 DEF ProvenInv, OutputProven
<1>7. CASE RecoveryLeaseFails \/ Outcome
  <2>1. /\ job \in JobStates /\ disk \in JobStates /\ rjob' = NoJob
        /\ files' = files /\ disk' = disk /\ wpc' \in {"none", "lease"}
        /\ wpc \in {"rlease", "settled", "exhausted", "rfailed", "resume"}
        /\ wpc' = "lease" <=> wpc = "resume"
    BY <1>0, <1>7 DEF RecoveryLeaseFails, Outcome, TInv, Phases, RecoveryPhases
  <2>2. ~job.done /\ (disk.done => OutputProven(files) /\ wpc # "resume")
    BY <2>1, NoJobApart DEF ProvenInv
  <2>3. job'.done => OutputProven(files) /\ wpc # "resume"
    <3>1. [job EXCEPT !.state = "recovering", !.mark = FALSE].done = job.done
      BY <2>1 DEF JobStates
    <3>2. CASE RecoveryLeaseFails
      BY <2>2, <3>1, <3>2 DEF RecoveryLeaseFails
    <3>3. CASE Outcome /\ rjob = NoJob
      BY <2>1, <2>2, <3>1, <3>3 DEF Outcome, TInv, Phases, RecoveryPhases
    <3>4. CASE Outcome /\ rjob # NoJob
      <4>1. rjob \in JobStates
        BY <1>0, <3>4 DEF Jobs
      <4>2. rjob.done => OutputProven(files) /\ wpc = "settled"
        BY <3>4 DEF ProvenInv
      <4>3. job'.done = rjob.done
        <5>1. Observed(rjob) \in JobStates /\ Observed(rjob).done = rjob.done
          BY <2>1, <4>1, MergedIs, MergedTyped
        <5>2. [Observed(rjob) EXCEPT !.state = "recovering", !.mark = FALSE].done = rjob.done
          BY <5>1 DEF JobStates
        <5> QED
          BY <3>4, <5>1, <5>2 DEF Outcome
      <4> QED
        BY <4>2, <4>3
    <3> QED
      BY <1>7, <3>2, <3>3, <3>4
  <2> QED
    BY <2>1, <2>2, <2>3 DEF ProvenInv, OutputProven
<1>8. CASE Restart
  <2>1. /\ disk' = disk /\ files' = files /\ rjob' = NoJob /\ wpc' \in {"none", "rlease"}
        /\ \/ job' = NoJob
           \/ job' = disk /\ wpc' = "none"
           \/ /\ disk # NoJob /\ NeedsReconciliation(disk)
              /\ job' \in {[disk EXCEPT !.state = "reconciling"],
                           [disk EXCEPT !.state = "recovering"]}
        /\ wpc' = "rlease" => disk # NoJob /\ NeedsReconciliation(disk)
    BY <1>8 DEF Restart, Restarted
  <2>2. disk # NoJob /\ disk.done => OutputProven(files)
    BY DEF ProvenInv
  <2>3. disk # NoJob => disk \in JobStates
    BY <1>0 DEF Jobs
  <2>4. /\ job' # NoJob /\ job'.done => OutputProven(files) /\ wpc' = "none"
        /\ disk # NoJob /\ disk.done => wpc' = "none"
    BY <2>1, <2>2, <2>3 DEF NeedsReconciliation, JobStates
  <2> QED
    BY <2>1, <2>2, <2>4 DEF ProvenInv, OutputProven
<1> QED
  BY NextSplit, <1>1, <1>2, <1>3, <1>4, <1>5, <1>6, <1>7, <1>8

(* Invariant CompletedIsProven: a job durable as completed has its output   *)
(* and its closed manifest: the manifest is completed before the job        *)
(* (recording_worker.py, recovery_finalization.py).                         *)
THEOREM CompletedProven == Spec => []CompletedIsProven
<1>1. Init => ProvenInv
  BY DEF Init, ProvenInv, NoFiles
<1>2. TInv /\ ProvenInv /\ [Next]_vars => ProvenInv'
  <2>1. ASSUME ProvenInv, UNCHANGED vars PROVE ProvenInv'
    BY <2>1 DEF vars, ProvenInv, OutputProven
  <2> QED
    BY <2>1, StepProven
<1>3. ProvenInv => CompletedIsProven
  BY DEF ProvenInv, CompletedIsProven, OutputProven
<1> QED
  BY TypeCorrect, <1>1, <1>2, <1>3, PTL DEF Spec

-----------------------------------------------------------------------------
(* The steps from outside, those that end a worker, and a start.            *)

LEMMA CallStep ==
  ASSUME TInv, Stop \/ Shutdown \/ ShutdownReturns
  PROVE  /\ UNCHANGED <<active, blocked, wpc, resumed, rjob, plan, files, starts, crashes,
                        afterStop, promotions>>
         /\ \/ UNCHANGED <<job, disk>>
            \/ /\ job \in JobStates /\ job' = [job EXCEPT !.stop = TRUE]
               /\ job' \in JobStates
               /\ disk' \in {disk, job'} /\ disk \in JobStates
               /\ active \/ blocked
               /\ StopsInRecovery \/ ~blocked
         /\ event' => event \/ ~active \/ (job' # NoJob /\ job'.stop)
         /\ stopped' => stopped \/ (disk' = job' /\ job' # NoJob /\ job'.stop)
         /\ stopped' => stopped \/ event'
         /\ event => event'
<1>1. /\ job \in JobStates \/ job = NoJob
      /\ active \/ (blocked /\ job # NoJob) => job \in JobStates /\ disk \in JobStates
  BY DEF TInv, Typed, Phases, Jobs
<1>2. ASSUME job \in JobStates
      PROVE  [job EXCEPT !.stop = TRUE] \in JobStates /\ [job EXCEPT !.stop = TRUE].stop
  <2>1. [job EXCEPT !.stop = TRUE] \in JobStates
    BY <1>2, JobTyped DEF Phase, CaptureStates
  <2> QED
    BY <1>2, <2>1 DEF JobStates
<1>3. CASE Stop
  <2>1. job \in JobStates /\ disk \in JobStates
    BY <1>1, <1>3 DEF Stop
  <2>2. PICK ok \in BOOLEAN : /\ Save(job', ok) /\ event' = (event \/ ok)
                              /\ stopped' = (stopped \/ ok)
    BY <1>3 DEF Stop
  <2>3. disk' \in {disk, job'} /\ (ok => disk' = job')
    BY <2>2, SaveEnds
  <2>4. /\ job' = [job EXCEPT !.stop = TRUE]
        /\ active \/ blocked
        /\ StopsInRecovery \/ ~blocked
        /\ UNCHANGED <<active, blocked, wpc, resumed, rjob, plan, files, starts, crashes,
                       afterStop, promotions>>
    BY <1>3 DEF Stop, counters
  <2>5. job' \in JobStates /\ job'.stop /\ job' # NoJob
    BY <1>2, <2>1, <2>4, NoJobApart
  <2>6. CASE ok = TRUE
    BY <2>1, <2>2, <2>3, <2>4, <2>5, <2>6
  <2>7. CASE ok = FALSE
    BY <2>1, <2>2, <2>3, <2>4, <2>5, <2>7
  <2> QED
    BY <2>6, <2>7
<1>4. CASE Shutdown
  <2>1. PICK ok \in BOOLEAN :
          /\ IF active THEN job' = [job EXCEPT !.stop = TRUE] /\ Save(job', ok)
                       ELSE ok /\ UNCHANGED <<job, disk>>
          /\ event' = (event \/ ok)
    BY <1>4 DEF Shutdown
  <2>2. /\ StopsInRecovery \/ ~blocked
        /\ stopped' = stopped
        /\ UNCHANGED <<active, blocked, wpc, resumed, rjob, plan, files, starts, crashes,
                       afterStop, promotions>>
    BY <1>4 DEF Shutdown, counters, history
  <2>3. CASE active
    BY <1>1, <1>2, <2>1, <2>2, <2>3, SaveEnds, NoJobApart
  <2>4. CASE ~active
    BY <2>1, <2>2, <2>4
  <2> QED
    BY <2>3, <2>4
<1>5. CASE ShutdownReturns
  BY <1>5 DEF ShutdownReturns, counters, history
<1> QED
  BY <1>3, <1>4, <1>5

LEMMA EndStep ==
  ASSUME TInv, LeaseFails \/ WorkerResult \/ Settle
  PROVE  /\ UNCHANGED <<event, rjob, plan, files, starts, crashes, stopped, afterStop,
                        promotions>>
         /\ wpc \in CapturePhases /\ wpc' \in {"none", "settle"}
         /\ wpc' = "none" <=> ~active'
         /\ job \in JobStates /\ disk \in JobStates /\ job' \in JobStates /\ rjob = NoJob
         /\ disk' \in {disk, job'}
         /\ job'.stop = job.stop /\ job'.room = job.room
<1>1. /\ wpc \in CapturePhases /\ wpc' \in {"none", "settle"}
      /\ UNCHANGED <<event, rjob, plan, files, starts, crashes, stopped, afterStop,
                     promotions>>
  BY DEF LeaseFails, WorkerResult, Settle, CapturePhases, counters, history
<1>2. TInv'
  BY StepTInv DEF Next, Capture
<1>3. job \in JobStates /\ disk \in JobStates /\ rjob = NoJob /\ active
  BY <1>1 DEF TInv, Typed, Phases, Jobs, CapturePhases
<1>4. wpc' = "none" <=> ~active'
  BY <1>2 DEF TInv, Phases
<1>5. disk' \in {disk, job'}
  BY SaveEnds DEF LeaseFails, WorkerResult, Settle
<1>6. job' \in JobStates /\ job'.stop = job.stop /\ job'.room = job.room
  <2>1. job'.stop = job.stop /\ job'.room = job.room /\ job' # NoJob
    BY <1>3 DEF LeaseFails, WorkerResult, Settle, JobStates, NoJob
  <2> QED
    BY <1>2, <2>1 DEF TInv, Typed, Jobs
<1> QED
  BY <1>1, <1>3, <1>4, <1>5, <1>6

LEMMA OutcomeStep ==
  ASSUME TInv, RecoveryLeaseFails \/ Outcome
  PROVE  /\ UNCHANGED <<event, disk, files, starts, crashes, stopped, afterStop, promotions>>
         /\ wpc \in {"rlease", "settled", "exhausted", "rfailed", "resume"}
         /\ wpc' \in {"none", "lease"} /\ (wpc' = "none" <=> ~active')
         /\ wpc' = "lease" <=> wpc = "resume"
         /\ job \in JobStates /\ disk \in JobStates /\ job' \in JobStates /\ rjob' = NoJob
         /\ wpc \notin {"rlease", "rfailed"} => rjob \in JobStates
         /\ IF rjob = NoJob
            THEN job'.stop = job.stop /\ job'.room = job.room
            ELSE /\ rjob \in JobStates
                 /\ job'.stop <=> rjob.stop \/ job.stop
                 /\ job'.room = rjob.room
<1>1. /\ wpc \in {"rlease", "settled", "exhausted", "rfailed", "resume"}
      /\ wpc' \in {"none", "lease"} /\ (wpc' = "lease" <=> wpc = "resume")
      /\ UNCHANGED <<event, disk, files, starts, crashes, stopped, afterStop, promotions>>
  BY DEF RecoveryLeaseFails, Outcome, counters, history
<1>2. TInv'
  BY StepTInv DEF Next, Recovery
<1>3. /\ job \in JobStates /\ disk \in JobStates
      /\ rjob = NoJob \/ rjob \in JobStates
      /\ wpc \notin {"rlease", "rfailed"} => rjob # NoJob
      /\ wpc = "rlease" => rjob = NoJob
  BY <1>1 DEF TInv, Typed, Phases, Jobs, RecoveryPhases
<1>4. (wpc' = "none" <=> ~active') /\ rjob' = NoJob
  BY <1>1, <1>2 DEF TInv, Phases, CapturePhases
<1>5. CASE rjob = NoJob
  <2>1. job' = [job EXCEPT !.state = "recovering", !.mark = FALSE]
    BY <1>1, <1>3, <1>5 DEF RecoveryLeaseFails, Outcome
  <2>2. job' \in JobStates
    BY <1>3, <2>1, JobsMadeByFailures
  <2>3. job'.stop = job.stop /\ job'.room = job.room
    BY <1>3, <2>1 DEF JobStates
  <2> QED
    BY <1>1, <1>3, <1>4, <1>5, <2>2, <2>3
<1>6. CASE rjob # NoJob
  <2>1. /\ Observed(rjob) \in JobStates
        /\ Observed(rjob).stop <=> rjob.stop \/ job.stop
        /\ Observed(rjob).room = rjob.room
    BY <1>3, <1>6, MergedIs, MergedTyped
  <2>2. /\ [Observed(rjob) EXCEPT !.state = "recovering", !.mark = FALSE] \in JobStates
        /\ [Observed(rjob) EXCEPT !.state = "recovering", !.mark = FALSE].stop
             = Observed(rjob).stop
        /\ [Observed(rjob) EXCEPT !.state = "recovering", !.mark = FALSE].room = rjob.room
    <3>1. [Observed(rjob) EXCEPT !.state = "recovering", !.mark = FALSE] \in JobStates
      BY <2>1, JobsMadeByFailures
    <3> QED
      BY <2>1, <3>1 DEF JobStates
  <2>3. job' \in {Observed(rjob),
                  [Observed(rjob) EXCEPT !.state = "recovering", !.mark = FALSE]}
    BY <1>3, <1>6 DEF RecoveryLeaseFails, Outcome
  <2> QED
    BY <1>1, <1>3, <1>4, <1>6, <2>1, <2>2, <2>3
<1> QED
  BY <1>5, <1>6

LEMMA StartStep ==
  ASSUME TInv, Start \/ StartFails
  PROVE  /\ ~active /\ ~blocked /\ blocked' = FALSE /\ wpc = "none" /\ rjob = NoJob
         /\ rjob' = NoJob /\ starts' # starts /\ wpc' \in {"none", "lease"}
         /\ wpc' = "lease" => /\ job' = NewJob /\ disk' = NewJob
                              /\ event' = FALSE /\ active' = TRUE
         /\ wpc' = "none" =>
              ~active' /\ job' = [NewJob EXCEPT !.state = "failed", !.ended = TRUE]
         /\ \/ /\ disk' = disk /\ wpc' = "none"
               /\ UNCHANGED <<files, stopped, afterStop, promotions>>
            \/ /\ disk' \in {NewJob, job'} /\ files' = NoFiles /\ stopped' = FALSE
               /\ afterStop' = FALSE /\ promotions' = 0
<1>1. /\ ~active /\ ~blocked /\ wpc = "none" /\ rjob = NoJob /\ starts \in Nat
      /\ blocked = FALSE
  BY DEF TInv, Typed, Phases, Start, StartFails, Available
<1>2. CASE Start
  BY <1>1, <1>2 DEF Start, Save, Valid, NewJob, TerminalStates
<1>3. CASE StartFails
  <2>1. /\ disk' \in {job', NewJob, disk}
        /\ IF disk' = disk THEN UNCHANGED <<files, history>>
           ELSE files' = NoFiles /\ stopped' = FALSE /\ afterStop' = FALSE /\ promotions' = 0
    BY <1>3 DEF StartFails
  <2>2. /\ starts' = starts + 1 /\ UNCHANGED <<active, blocked, wpc, rjob>>
        /\ job' = [NewJob EXCEPT !.state = "failed", !.ended = TRUE]
    BY <1>3 DEF StartFails
  <2> QED
    BY <1>1, <2>1, <2>2 DEF history
<1> QED
  BY <1>2, <1>3

LEMMA RestartStep ==
  ASSUME TInv, Restart
  PROVE  /\ UNCHANGED <<disk, files, starts, stopped, afterStop, promotions>>
         /\ event' = FALSE /\ rjob' = NoJob
         /\ wpc' \in {"none", "rlease"} /\ (active' <=> wpc' = "rlease")
         /\ \/ /\ job' = NoJob /\ wpc' = "none" /\ blocked' \in BOOLEAN
               /\ (blocked' = TRUE => StoreMayFail) /\ (blocked' = FALSE => disk = NoJob)
            \/ /\ job' = disk /\ disk \in JobStates /\ wpc' = "none" /\ blocked' = FALSE
               /\ ~NeedsReconciliation(disk)
            \/ /\ disk \in JobStates /\ NeedsReconciliation(disk) /\ blocked' = TRUE
               /\ job' \in JobStates /\ job'.stop = disk.stop /\ job'.room = disk.room
               /\ NeedsReconciliation(job')
<1>1. disk \in JobStates \/ disk = NoJob
  BY DEF TInv, Typed, Jobs
<1>2. /\ UNCHANGED <<disk, files, starts, stopped, afterStop, promotions>>
      /\ event' = FALSE /\ rjob' = NoJob
  BY DEF Restart, history
<1>3. \/ StoreMayFail /\ Restarted(NoJob, TRUE, "none")
      \/ disk = NoJob /\ Restarted(NoJob, FALSE, "none")
      \/ disk # NoJob /\ ~NeedsReconciliation(disk) /\ Restarted(disk, FALSE, "none")
      \/ /\ disk # NoJob /\ NeedsReconciliation(disk)
         /\ \/ Restarted([disk EXCEPT !.state = "reconciling"], TRUE, "rlease")
            \/ Restarted([disk EXCEPT !.state = "recovering"], TRUE, "none")
  BY DEF Restart
<1>4. ASSUME NEW s \in {"reconciling", "recovering"}, disk \in JobStates,
             NeedsReconciliation(disk)
      PROVE  /\ [disk EXCEPT !.state = s] \in JobStates
             /\ [disk EXCEPT !.state = s].stop = disk.stop
             /\ [disk EXCEPT !.state = s].room = disk.room
             /\ NeedsReconciliation([disk EXCEPT !.state = s])
  <2>1. [disk EXCEPT !.state = s] \in JobStates
    BY <1>4, JobsMadeByFailures
  <2> QED
    BY <1>4, <2>1 DEF NeedsReconciliation, JobStates, TerminalStates
<1> QED
  BY <1>1, <1>2, <1>3, <1>4 DEF Restarted

-----------------------------------------------------------------------------
(* The room is durable in the job before the manifest names it.             *)

Streaming == {"lease", "reopen", "resolve", "resolving", "identify", "prepare",
              "open", "recording", "reconnect"}

(* The store never knows a room the handlers' job does not, and while a     *)
(* capture runs, or a recovery, it knows the one they have.                 *)
RoomInv ==
  /\ files.named => disk # NoJob /\ disk.room
  /\ (active \/ blocked) /\ job # NoJob => (disk.room => job.room)
  /\ wpc \in Streaming => (job.room => disk.room)
  /\ wpc \in RecoveryPhases => job.room = disk.room /\ (rjob # NoJob => rjob.room = disk.room)

LEMMA RoomCapture ==
  ASSUME TInv, RoomInv, CaptureWork
  PROVE  RoomInv'
<1>0. /\ Capturing
      /\ wpc \in Working /\ wpc' \in Working \cup Ending
      /\ job \in JobStates /\ job' \in JobStates /\ disk' \in {disk, job'}
      /\ files \in Files
  BY CaptureStep DEF TInv, Typed
<1>1. /\ disk \in JobStates /\ active
      /\ wpc' \notin RecoveryPhases
  BY <1>0 DEF TInv, Typed, Phases, Jobs, Working, Ending, CapturePhases, RecoveryPhases
<1>2. disk.room => job.room
  BY <1>0, <1>1, NoJobApart DEF RoomInv
<1>3. ASSUME job'.room = job.room, files'.named = files.named \/ (disk' = disk /\ disk.room),
             wpc' \in Streaming => \/ disk' = job'
                                   \/ disk' = disk /\ wpc \in Streaming
      PROVE  RoomInv'
  BY <1>0, <1>1, <1>2, <1>3, NoJobApart DEF RoomInv
<1>4. CASE Identify
  <2>1. PICK room, ok \in BOOLEAN :
          /\ job' = [job EXCEPT !.room = @ \/ room]
          /\ IF job' = job THEN ok /\ UNCHANGED disk ELSE Save(job', ok)
          /\ wpc' = IF ok THEN "prepare" ELSE "raised"
          /\ files' = IF ok THEN files ELSE CaptureFailed(files)
    BY <1>4 DEF Identify
  <2>2. files'.named = files.named
    BY <1>0, <2>1 DEF CaptureFailed, Files
  <2>3. job.room => job'.room
    BY <1>0, <2>1 DEF JobStates
  <2>4. wpc' \in Streaming => disk' = job' \/ (job' = job /\ disk' = disk /\ wpc \in Streaming)
    BY <1>4, <2>1, SaveEnds DEF Streaming, Identify
  <2> QED
    BY <1>0, <1>1, <1>2, <2>2, <2>3, <2>4, NoJobApart DEF RoomInv
<1>5. CASE \/ Lease \/ Reopen \/ Resolved \/ Prepare \/ WriterWrites \/ ConnectionEnds
           \/ MarkFinalizing \/ Encode("encode", "encoding", "raised")
           \/ EncoderEnds("encoding", "close", "raised")
           \/ CompleteManifest("close", "returned")
  <2>1. job' = job /\ disk' = disk
    BY <1>5 DEF Lease, Reopen, Resolved, Prepare, WriterWrites, ConnectionEnds,
                MarkFinalizing, Encode, EncoderEnds, CompleteManifest, NoWrite
  <2>2. wpc' \in Streaming => wpc \in Streaming
    BY <1>5 DEF Lease, Reopen, Resolved, Prepare, WriterWrites, ConnectionEnds,
                MarkFinalizing, Encode, EncoderEnds, CompleteManifest, Streaming
  <2>3. CASE Prepare
    <3>1. job.room => disk.room
      BY <2>3 DEF RoomInv, Prepare, Streaming
    <3>2. files'.named = files.named \/ job.room
      BY <1>0, <2>3 DEF Prepare, Prepared, Files, JobStates
    <3> QED
      BY <1>3, <2>1, <2>2, <3>1, <3>2
  <2>4. CASE ~Prepare
    <3>1. files'.named = files.named
      BY <1>0, <1>5, <2>4
      DEF Lease, Reopen, Resolved, WriterWrites, ConnectionEnds, MarkFinalizing, Encode,
          EncoderEnds, CompleteManifest, NoMedia, Files, Reopened, CaptureFailed, PartClosed,
          Encoding, EncodingFailed, Promoted, Completed
    <3> QED
      BY <1>3, <2>1, <2>2, <3>1
  <2> QED
    BY <2>3, <2>4
<1>6. CASE Resolve \/ Open \/ Reconnect \/ Finish
  <2>1. files'.named = files.named
    BY <1>0, <1>6 DEF Resolve, Open, Reconnect, Finish, Files, CaptureFailed, EndedEmpty
  <2>2. CASE job' = job /\ disk' = disk
    <3>1. wpc' \in Streaming => wpc \in Streaming
      BY <1>6 DEF Resolve, Open, Reconnect, Finish, Streaming
    <3> QED
      BY <1>3, <2>1, <2>2, <3>1
  <2>3. ASSUME NEW s \in Phase, NEW ok \in BOOLEAN, SetState(s, ok),
               wpc \in Streaming \cup {"finish"}, ~ok => wpc' = "raised",
               wpc' \in Streaming => wpc \in Streaming
        PROVE  RoomInv'
    <3>1. /\ job'.room = job.room
          /\ ok => disk' = job' \/ disk' = disk
      BY <1>0, <2>3, SetStateEnds
    <3>2. wpc' \in Streaming => ok
      BY <2>3 DEF Streaming
    <3> QED
      BY <1>3, <2>1, <2>3, <3>1, <3>2
  <2>4. \/ job' = job /\ disk' = disk
        \/ \E s \in Phase, ok \in BOOLEAN :
             /\ SetState(s, ok) /\ wpc \in Streaming \cup {"finish"}
             /\ ~ok => wpc' = "raised"
             /\ wpc' \in Streaming => wpc \in Streaming
    <3>1. {"resolving", "recording", "reconnecting", "finalizing"} \subseteq Phase
      BY DEF Phase, CaptureStates
    <3>2. CASE Resolve
      BY <3>1, <3>2 DEF Resolve, NoWrite, Streaming
    <3>3. CASE Open \/ Reconnect
      BY <3>1, <3>3 DEF Open, Reconnect, NoWrite, Streaming
    <3>4. CASE Finish
      BY <3>1, <3>4 DEF Finish, NoWrite, Streaming
    <3> QED
      BY <1>6, <3>2, <3>3, <3>4
  <2> QED
    BY <2>2, <2>3, <2>4
<1> QED
  BY <1>4, <1>5, <1>6 DEF CaptureWork

LEMMA RoomRecovery ==
  ASSUME TInv, RoomInv, RecoveryWork
  PROVE  RoomInv'
<1>0. /\ RecoveryMoves /\ RecoveryAccess
      /\ job \in JobStates /\ disk \in JobStates /\ files \in Files
  BY RecoveryStep DEF TInv, Typed
<1>1. /\ wpc \in RecoveryPhases /\ wpc' \in RecoveryPhases
      /\ wpc' \notin Streaming
  BY <1>0 DEF RecoveryMoves, RecoveryPhases, Streaming
<1>2. job.room = disk.room /\ (rjob # NoJob => rjob.room = disk.room)
  BY <1>1 DEF RoomInv
<1>3. /\ job'.room = job.room /\ disk'.room = disk.room
      /\ rjob' # NoJob => rjob'.room = disk.room
      /\ disk' # NoJob
  <2>1. disk' # NoJob
    <3>1. TInv'
      BY StepTInv DEF Next, Recovery, RecoveryWork
    <3>2. wpc' # "none"
      BY <1>1 DEF RecoveryPhases
    <3> QED
      BY <3>1, <3>2 DEF TInv, Phases
  <2>2. CASE wpc \in Early
    BY <1>0, <1>2, <2>1, <2>2 DEF RecoveryAccess, Loaded
  <2>3. CASE wpc \notin Early
    <3>1. /\ UNCHANGED <<job, disk, rjob>> \/ rjob \in JobStates
          /\ job'.room \in {job.room, rjob.room}
          /\ disk'.room \in {disk.room, rjob.room} /\ rjob'.room = rjob.room
      BY <1>0, <2>3, AccessIs
    <3> QED
      BY <1>2, <2>1, <3>1, NoJobApart
  <2> QED
    BY <2>2, <2>3
<1>4. files'.named = files.named
  BY <1>0
  DEF RecoveryWork, RecoveryLease, Load, Observe, Inspect, Compare, Claim, ObserveClaim,
      Preserve, Publish, RecordRecovery, Decide, Ask, ResolveRoom, RetryRoom, ObserveOutage,
      GiveUp, Found, ObserveResume, Finalize, MarkRecovery, PreserveEncoderPartial,
      Encode, EncoderEnds, CompleteManifest, CompleteJob, Looking, Artifact,
      Files, CaptureFailed, Encoding, EncodingFailed, Promoted, Completed
<1> QED
  BY <1>1, <1>2, <1>3, <1>4 DEF RoomInv

LEMMA StepRoom ==
  ASSUME TInv, RoomInv, Next
  PROVE  RoomInv'
<1>1. CASE CaptureWork
  BY <1>1, RoomCapture
<1>2. CASE RecoveryWork
  BY <1>2, RoomRecovery
<1>3. CASE Start \/ StartFails
  <2>1. NewJob.room = FALSE /\ [NewJob EXCEPT !.state = "failed", !.ended = TRUE].room = FALSE
    BY DEF NewJob
  <2>2. NoFiles.named = FALSE /\ NewJob # NoJob
    BY NewJobTyped, NoJobApart DEF NoFiles
  <2>3. /\ ~active /\ blocked' = FALSE /\ rjob' = NoJob /\ wpc' \in {"none", "lease"}
        /\ wpc' = "lease" => job' = NewJob /\ disk' = NewJob
        /\ wpc' = "none" => ~active'
        /\ \/ disk' = disk /\ files' = files
           \/ files' = NoFiles
    BY <1>3, StartStep
  <2> QED
    BY <2>1, <2>2, <2>3 DEF RoomInv, Streaming, RecoveryPhases
<1>4. CASE Stop \/ Shutdown \/ ShutdownReturns
  <2>1. /\ UNCHANGED <<active, blocked, wpc, rjob, files>>
        /\ \/ UNCHANGED <<job, disk>>
           \/ /\ job \in JobStates /\ job' = [job EXCEPT !.stop = TRUE]
              /\ job' \in JobStates
              /\ disk' \in {disk, job'} /\ disk \in JobStates
              /\ active \/ blocked
    BY <1>4, CallStep
  <2>2. CASE UNCHANGED <<job, disk>>
    BY <2>1, <2>2 DEF RoomInv
  <2>3. CASE job \in JobStates /\ job' = [job EXCEPT !.stop = TRUE] /\ ~UNCHANGED <<job, disk>>
    <3>1. job'.room = job.room
      BY <2>3 DEF JobStates
    <3>2. /\ disk \in JobStates /\ disk' \in JobStates
          /\ disk' \in {disk, job'} /\ (active \/ blocked)
      BY <2>1, <2>3
    <3>3. disk.room => job.room
      BY <2>3, <3>2, NoJobApart DEF RoomInv
    <3>4. wpc \in RecoveryPhases => disk'.room = disk.room
      BY <3>1, <3>2 DEF RoomInv
    <3> QED
      BY <2>1, <3>1, <3>2, <3>3, <3>4, NoJobApart DEF RoomInv
  <2> QED
    BY <2>1, <2>2, <2>3
<1>5. CASE LeaseFails \/ WorkerResult \/ Settle
  <2>1. /\ UNCHANGED <<rjob, files>>
        /\ wpc \in CapturePhases /\ wpc' \in {"none", "settle"}
        /\ job \in JobStates /\ disk \in JobStates /\ job' \in JobStates /\ rjob = NoJob
        /\ disk' \in {disk, job'} /\ job'.room = job.room
    BY <1>5, EndStep
  <2>2. active
    BY <2>1 DEF TInv, Phases, CapturePhases
  <2>3. disk.room => job.room
    BY <2>1, <2>2, NoJobApart DEF RoomInv
  <2>4. wpc' \notin RecoveryPhases /\ wpc' \notin Streaming
    BY <2>1 DEF RecoveryPhases, Streaming
  <2> QED
    BY <2>1, <2>3, <2>4, NoJobApart DEF RoomInv
<1>6. CASE RecoveryLeaseFails \/ Outcome
  <2>1. /\ UNCHANGED <<disk, files>> /\ wpc' \in {"none", "lease"} /\ rjob' = NoJob
        /\ wpc \in {"rlease", "settled", "exhausted", "rfailed", "resume"}
        /\ job \in JobStates /\ disk \in JobStates /\ job' \in JobStates
        /\ IF rjob = NoJob THEN job'.room = job.room ELSE job'.room = rjob.room
    BY <1>6, OutcomeStep
  <2>2. job'.room = disk.room
    BY <2>1 DEF RoomInv, RecoveryPhases
  <2>3. wpc' \notin RecoveryPhases
    BY <2>1 DEF RecoveryPhases
  <2> QED
    BY <2>1, <2>2, <2>3 DEF RoomInv
<1>7. CASE Restart
  <2>1. /\ disk' = disk /\ files' = files /\ rjob' = NoJob /\ wpc' \in {"none", "rlease"}
        /\ \/ job' = NoJob /\ wpc' = "none"
           \/ job' = disk /\ wpc' = "none"
           \/ job' \in JobStates /\ job'.room = disk.room
    BY <1>7, RestartStep
  <2>2. wpc' \notin Streaming
    BY <2>1 DEF Streaming
  <2>3. wpc' = "none" => wpc' \notin RecoveryPhases
    BY DEF RecoveryPhases
  <2> QED
    BY <2>1, <2>2, <2>3 DEF RoomInv
<1> QED
  BY NextSplit, <1>1, <1>2, <1>3, <1>4, <1>5, <1>6, <1>7

(* Invariant RoomDurableFirst: a manifest names a room only once the job    *)
(* that records it is durable, so that a crash at any point leaves an       *)
(* identity recovery can match (recording.py, live.py).                     *)
THEOREM RoomIsDurableFirst == Spec => []RoomDurableFirst
<1>1. Init => RoomInv
  BY DEF Init, RoomInv, NoFiles, Streaming, RecoveryPhases
<1>2. TInv /\ RoomInv /\ [Next]_vars => RoomInv'
  BY StepRoom DEF vars, memory, RoomInv
<1>3. RoomInv => RoomDurableFirst
  BY DEF RoomInv, RoomDurableFirst
<1> QED
  BY TypeCorrect, <1>1, <1>2, <1>3, PTL DEF Spec

-----------------------------------------------------------------------------
(* The writer's crash artifact, under a store of jobs nobody else writes    *)
(* while recovery claims it: no part is open at a crash, or no call comes   *)
(* before recovery has settled.                                             *)

Claiming == {"compare", "claim", "marked", "preserve", "publish", "record"}

(* Without an open part at a crash there is nothing to claim.               *)
NoEvidence ==
  /\ files.partial \in {"none", "writer"}
  /\ files.partial = "writer" => wpc = "recording"
  /\ wpc \notin Claiming

LEMMA StepNoEvidence ==
  ASSUME ~PartialsRemain, TInv, NoEvidence, Next
  PROVE  NoEvidence'
<1>0. files \in Files
  BY DEF TInv, Typed
<1>1. CASE CaptureWork
  <2>1. wpc' \notin Claiming
    BY <1>1, CaptureStep DEF Claiming, Working, Ending, CapturePhases
  <2>2. CASE WriterWrites \/ ConnectionEnds
    BY <1>0, <2>1, <2>2
    DEF NoEvidence, WriterWrites, ConnectionEnds, PartClosed, CaptureFailed, Files
  <2>3. CASE ~WriterWrites /\ ~ConnectionEnds
    <3>1. wpc # "recording"
      BY <1>1, <2>3
      DEF CaptureWork, Lease, Reopen, Resolve, Resolved, Identify, Prepare, Open,
          Reconnect, Finish, MarkFinalizing, Encode, EncoderEnds, CompleteManifest
    <3>2. files'.partial = files.partial
      BY <1>0, <1>1, <2>3
      DEF CaptureWork, Lease, Reopen, Resolve, Resolved, Identify, Prepare, Open,
          Reconnect, Finish, MarkFinalizing, Encode, EncoderEnds, CompleteManifest,
          NoMedia, Files, Reopened, CaptureFailed, Prepared, EndedEmpty, Encoding,
          EncodingFailed, Promoted, Completed
    <3> QED
      BY <2>1, <3>1, <3>2 DEF NoEvidence
  <2> QED
    BY <2>2, <2>3
<1>2. CASE RecoveryWork
  <2>1. RecoveryMoves
    BY <1>2, RecoveryStep
  <2>2. wpc # "recording" /\ files.partial = "none" /\ wpc \notin Claiming
    BY <2>1 DEF NoEvidence, RecoveryMoves, RecoveryPhases
  <2>3. /\ files'.partial = "none"
        /\ wpc' \notin Claiming
    BY <1>0, <1>2, <2>2
    DEF RecoveryWork, RecoveryLease, Load, Observe, Inspect, Compare, Claim, ObserveClaim,
        Preserve, Publish, RecordRecovery, Decide, Ask, ResolveRoom, RetryRoom,
        ObserveOutage, GiveUp, Found, ObserveResume, Finalize, MarkRecovery,
        PreserveEncoderPartial, Encode, EncoderEnds, CompleteManifest, CompleteJob,
        Looking, Refused, SaveRecovery, Stopped, Answered, Claiming,
        Files, CaptureFailed, Encoding, EncodingFailed, Promoted, Completed
  <2> QED
    BY <2>3 DEF NoEvidence
<1>3. CASE Start \/ StartFails
  <2>1. /\ wpc = "none" /\ wpc' \in {"none", "lease"}
        /\ files' = files \/ files' = NoFiles
    BY <1>3, StartStep
  <2> QED
    BY <2>1 DEF NoEvidence, NoFiles, Claiming
<1>4. CASE Stop \/ Shutdown \/ ShutdownReturns
  BY <1>4, CallStep DEF NoEvidence
<1>5. CASE LeaseFails \/ WorkerResult \/ Settle
  <2>1. wpc # "recording" /\ files' = files /\ wpc' \in {"none", "settle"}
    BY <1>5 DEF LeaseFails, WorkerResult, Settle
  <2> QED
    BY <2>1 DEF NoEvidence, Claiming
<1>6. CASE RecoveryLeaseFails \/ Outcome
  <2>1. wpc # "recording" /\ files' = files /\ wpc' \in {"none", "lease"}
    BY <1>6 DEF RecoveryLeaseFails, Outcome
  <2> QED
    BY <2>1 DEF NoEvidence, Claiming
<1>7. CASE Restart
  <2>1. files.partial # "writer"
    BY <1>7 DEF Restart
  <2>2. files' = files /\ wpc' \in {"none", "rlease"}
    BY <1>7, RestartStep
  <2> QED
    BY <2>1, <2>2 DEF NoEvidence, Claiming
<1> QED
  BY NextSplit, <1>1, <1>2, <1>3, <1>4, <1>5, <1>6, <1>7

(* Invariant NoEvidence: while the process dies only between two parts, no  *)
(* partial file is ever claimed, moved or published (writer_recovery.py).   *)
THEOREM NothingToClaim == ASSUME ~PartialsRemain PROVE Spec => []NoEvidence
<1>1. Init => NoEvidence
  BY DEF Init, NoEvidence, NoFiles, Claiming
<1>2. TInv /\ NoEvidence /\ [Next]_vars => NoEvidence'
  BY StepNoEvidence DEF vars, NoEvidence
<1> QED
  BY TypeCorrect, <1>1, <1>2, PTL DEF Spec

(* With no call before recovery has settled, the copy it claims with is the *)
(* durable job, and only the owner's artifact is ever moved.                *)
Unclaimed == RecoveryPhases \ ({"rlease", "load", "observe", "inspect", "rfailed"} \cup Claiming)

EvidenceInv ==
  /\ EvidenceRetryable
  /\ wpc \in CapturePhases /\ files.partial # "none" =>
       files.partial = "writer" /\ wpc = "recording"
  /\ wpc \in {"observe", "inspect"} \cup Claiming => disk = rjob
  /\ wpc \in Claiming => ActiveOwnership(disk, files)
  /\ wpc = "compare" => files.partial = "writer" \/ Marker(disk)
  /\ wpc = "claim" => files.partial = "writer"
  /\ wpc \in {"marked", "preserve", "publish", "record"} => Marker(disk)
  /\ wpc \in Unclaimed => files.partial = "none"

LEMMA EvidenceRecovery ==
  ASSUME TInv, EvidenceInv, RecoveryWork
  PROVE  EvidenceInv'
<1>0. /\ RecoveryMoves
      /\ job \in JobStates /\ disk \in JobStates /\ files \in Files
  BY RecoveryStep DEF TInv, Typed
<1>1. /\ wpc' \notin CapturePhases
  BY <1>0 DEF RecoveryMoves, RecoveryPhases, CapturePhases
<1>2. ASSUME files' = files, disk' = disk, wpc' \in {"load", "rfailed"}
      PROVE  EvidenceInv'
  BY <1>2 DEF EvidenceInv, EvidenceRetryable, Claiming, CapturePhases, Unclaimed
<1>3. CASE RecoveryLease \/ Load \/ Observe
  <2>1. files' = files /\ disk' = disk
    BY <1>3 DEF RecoveryLease, Load, Observe, Looking
  <2>2. \/ wpc' \in {"load", "rfailed"}
        \/ wpc' = "observe" /\ rjob' = disk
        \/ wpc' = "inspect" /\ wpc = "observe" /\ rjob' = rjob
    BY <1>3 DEF RecoveryLease, Load, Observe, Refused
  <2> QED
    BY <1>2, <2>1, <2>2
    DEF EvidenceInv, EvidenceRetryable, Claiming, CapturePhases, Unclaimed
<1>4. CASE Inspect \/ Compare
  <2>1. files' = files /\ disk' = disk /\ rjob' = rjob /\ disk = rjob
    BY <1>4 DEF Inspect, Compare, Looking, EvidenceInv, Claiming
  <2>2. CASE Inspect
    <3>1. \/ wpc' = "rfailed"
          \/ wpc' = "decide" /\ files.partial = "none"
          \/ /\ wpc' = "compare" /\ ActiveOwnership(disk, files)
             /\ files.partial = "writer" \/ Marker(disk)
      BY <1>0, <2>1, <2>2 DEF Inspect, Refused, Inspectable, Files
    <3> QED
      BY <1>2, <2>1, <3>1
      DEF EvidenceInv, EvidenceRetryable, Claiming, CapturePhases, Unclaimed
  <2>3. CASE Compare
    <3>1. \/ wpc' = "rfailed"
          \/ wpc' = "preserve" /\ Marker(disk) /\ ActiveOwnership(disk, files)
          \/ wpc' = "claim" /\ files.partial = "writer" /\ ActiveOwnership(disk, files)
      BY <2>1, <2>3 DEF Compare, Refused, EvidenceInv, Claiming
    <3> QED
      BY <1>2, <2>1, <3>1
      DEF EvidenceInv, EvidenceRetryable, Claiming, CapturePhases, Unclaimed
  <2> QED
    BY <1>4, <2>2, <2>3
<1>5. CASE Claim
  <2>1. /\ files' = files /\ files.partial = "writer" /\ disk = rjob
        /\ ActiveOwnership(disk, files)
    BY <1>5 DEF Claim, EvidenceInv, Claiming
  <2>2. \/ wpc' = "rfailed"
        \/ wpc' = "marked" /\ rjob' = Claimed(disk) /\ disk' = Claimed(disk)
    BY <1>5, <2>1, SaveEnds DEF Claim
  <2>3. ActiveOwnership(Claimed(disk), files) /\ Marker(Claimed(disk))
    BY <1>0, <2>1 DEF ActiveOwnership, Marker, Claimed, JobStates
  <2> QED
    BY <2>1, <2>2, <2>3
    DEF EvidenceInv, EvidenceRetryable, Claiming, CapturePhases, Unclaimed
<1>6. CASE ObserveClaim
  BY <1>6
  DEF ObserveClaim, EvidenceInv, EvidenceRetryable, Claiming, CapturePhases, Unclaimed
<1>7. CASE Preserve \/ Publish \/ RecordRecovery
  <2>1. disk' = disk /\ rjob' = rjob /\ disk = rjob
    BY <1>7 DEF Preserve, Publish, RecordRecovery, EvidenceInv, Claiming
  <2>2. Marker(disk) /\ ActiveOwnership(disk, files)
    BY <1>7 DEF Preserve, Publish, RecordRecovery, EvidenceInv, Claiming
  <2>3. \/ files' = files
        \/ files' = [files EXCEPT !.partial = "evidence"]
        \/ files' = [files EXCEPT !.partial = "published", !.parts = TRUE]
        \/ files' = [files EXCEPT !.partial = "none"] /\ wpc = "record"
    BY <1>7 DEF Preserve, Publish, RecordRecovery, Artifact
  <2>4. \/ wpc' \in {"publish", "record", "rfailed"}
        \/ wpc' = "decide" /\ files' = [files EXCEPT !.partial = "none"]
    BY <1>7 DEF Preserve, Publish, RecordRecovery, Artifact, Refused
  <2>5. ActiveOwnership(disk, files') /\ files'.man = "recording" /\ files' \in Files
    BY <1>0, <2>2, <2>3 DEF ActiveOwnership, Files
  <2>6. Inspectable(disk, files') \/ files'.partial \in {"none", "writer"}
    BY <2>2, <2>5 DEF Inspectable, ActiveOwnership, Files
  <2>7. wpc' = "decide" => files'.partial = "none"
    BY <1>0, <2>4 DEF Files
  <2>8. EvidenceRetryable'
    BY <1>0, <2>1, <2>6, NoJobApart DEF EvidenceRetryable
  <2> QED
    BY <2>1, <2>2, <2>4, <2>5, <2>7, <2>8
    DEF EvidenceInv, Claiming, CapturePhases, Unclaimed
<1>8. CASE \/ Decide \/ Ask \/ ResolveRoom \/ RetryRoom \/ ObserveOutage \/ GiveUp
           \/ Found \/ ObserveResume \/ Finalize \/ MarkRecovery \/ PreserveEncoderPartial
           \/ Encode("rencode", "rencoding", "rfailed")
           \/ EncoderEnds("rencoding", "rclose", "rfailed")
           \/ CompleteManifest("rclose", "rcomplete")
           \/ CompleteJob
  <2>1. wpc \in Unclaimed
    BY <1>8
    DEF Decide, Ask, ResolveRoom, RetryRoom, ObserveOutage, GiveUp, Found, ObserveResume,
        Finalize, MarkRecovery, PreserveEncoderPartial, Encode, EncoderEnds,
        CompleteManifest, CompleteJob, Unclaimed, RecoveryPhases, Claiming
  <2>2. files'.partial = "none"
    BY <1>0, <1>8, <2>1
    DEF EvidenceInv, Decide, Ask, ResolveRoom, RetryRoom, ObserveOutage, GiveUp, Found,
        ObserveResume, Finalize, MarkRecovery, PreserveEncoderPartial, Encode, EncoderEnds,
        CompleteManifest, CompleteJob, Looking, Files, CaptureFailed, Encoding,
        EncodingFailed, Promoted, Completed
  <2>3. wpc' \in Unclaimed \cup {"rfailed"}
    BY <1>8
    DEF Decide, Ask, ResolveRoom, RetryRoom, ObserveOutage, GiveUp, Found, ObserveResume,
        Finalize, MarkRecovery, PreserveEncoderPartial, Encode, EncoderEnds,
        CompleteManifest, CompleteJob, Refused, SaveRecovery, Stopped, Answered,
        Unclaimed, RecoveryPhases, Claiming
  <2> QED
    BY <1>1, <2>2, <2>3
    DEF EvidenceInv, EvidenceRetryable, Claiming, Unclaimed, RecoveryPhases
<1> QED
  BY <1>3, <1>4, <1>5, <1>6, <1>7, <1>8 DEF RecoveryWork

LEMMA StepEvidence ==
  ASSUME ~StopsInRecovery, TInv, EvidenceInv, Next
  PROVE  EvidenceInv'
<1>0. files \in Files
  BY DEF TInv, Typed
<1>a. ASSUME files'.partial \in {"none", "writer"},
             wpc' \in CapturePhases \cup {"none"},
             files'.partial = "writer" => wpc' \in {"none", "recording"}
      PROVE  EvidenceInv'
  BY <1>a
  DEF EvidenceInv, EvidenceRetryable, Claiming, CapturePhases, Unclaimed, RecoveryPhases
<1>1. CASE CaptureWork
  <2>1. wpc \in CapturePhases /\ wpc' \in CapturePhases
    BY <1>1, CaptureStep DEF Working, Ending, CapturePhases
  <2>2. CASE WriterWrites \/ ConnectionEnds
    BY <1>0, <1>a, <2>1, <2>2
    DEF WriterWrites, ConnectionEnds, PartClosed, CaptureFailed, Files
  <2>3. CASE ~WriterWrites /\ ~ConnectionEnds
    <3>1. wpc # "recording"
      BY <1>1, <2>3
      DEF CaptureWork, Lease, Reopen, Resolve, Resolved, Identify, Prepare, Open,
          Reconnect, Finish, MarkFinalizing, Encode, EncoderEnds, CompleteManifest
    <3>2. files'.partial = files.partial
      BY <1>0, <1>1, <2>3
      DEF CaptureWork, Lease, Reopen, Resolve, Resolved, Identify, Prepare, Open,
          Reconnect, Finish, MarkFinalizing, Encode, EncoderEnds, CompleteManifest,
          NoMedia, Files, Reopened, CaptureFailed, Prepared, EndedEmpty, Encoding,
          EncodingFailed, Promoted, Completed
    <3> QED
      BY <1>a, <2>1, <3>1, <3>2 DEF EvidenceInv
  <2> QED
    BY <2>2, <2>3
<1>2. CASE RecoveryWork
  BY <1>2, EvidenceRecovery
<1>3. CASE Start \/ StartFails
  <2>1. /\ wpc' \in {"none", "lease"}
        /\ \/ disk' = disk /\ files' = files /\ wpc' = "none"
           \/ files' = NoFiles
    BY <1>3, StartStep
  <2> QED
    BY <2>1
    DEF EvidenceInv, EvidenceRetryable, NoFiles, Claiming, CapturePhases, Unclaimed,
        RecoveryPhases
<1>4. CASE Stop \/ Shutdown \/ ShutdownReturns
  <2>1. /\ UNCHANGED <<active, blocked, wpc, rjob, files>>
        /\ UNCHANGED <<job, disk>> \/ (active /\ ~blocked)
    BY <1>4, CallStep
  <2>2. CASE active /\ ~blocked
    <3>1. wpc \in CapturePhases
      BY <2>2 DEF TInv, Typed, Phases
    <3>2. files.partial \in {"none", "writer"}
      BY <1>0, <3>1 DEF EvidenceInv
    <3> QED
      BY <1>a, <2>1, <3>1, <3>2 DEF EvidenceInv
  <2>3. CASE UNCHANGED <<job, disk>>
    BY <2>1, <2>3 DEF EvidenceInv, EvidenceRetryable
  <2> QED
    BY <2>1, <2>2, <2>3
<1>5. CASE LeaseFails \/ WorkerResult \/ Settle
  <2>1. wpc \in CapturePhases \ {"recording"} /\ files' = files /\ wpc' \in {"none", "settle"}
    BY <1>5 DEF LeaseFails, WorkerResult, Settle, CapturePhases
  <2> QED
    BY <1>a, <2>1 DEF EvidenceInv, CapturePhases
<1>6. CASE RecoveryLeaseFails \/ Outcome
  <2>1. /\ files' = files /\ disk' = disk /\ wpc' \in {"none", "lease"}
        /\ wpc' = "lease" <=> wpc = "resume"
    BY <1>6, OutcomeStep
  <2>2. CASE wpc' = "lease"
    BY <1>a, <2>1, <2>2 DEF EvidenceInv, Unclaimed, RecoveryPhases, Claiming, CapturePhases
  <2>3. CASE wpc' = "none"
    BY <2>1, <2>3
    DEF EvidenceInv, EvidenceRetryable, Claiming, CapturePhases, Unclaimed, RecoveryPhases
  <2> QED
    BY <2>1, <2>2, <2>3
<1>7. CASE Restart
  <2>1. files' = files /\ disk' = disk /\ wpc' \in {"none", "rlease"}
    BY <1>7, RestartStep
  <2> QED
    BY <2>1
    DEF EvidenceInv, EvidenceRetryable, Claiming, CapturePhases, Unclaimed, RecoveryPhases
<1> QED
  BY NextSplit, <1>1, <1>2, <1>3, <1>4, <1>5, <1>6, <1>7

(* Invariant EvidenceInv: while nobody stops inside a recovery, the copy it *)
(* claims an artifact with is the durable job (save_if_current in           *)
(* job_state.py), and what it moves the next recovery recognizes.           *)
THEOREM ClaimsAreCurrent == ASSUME ~StopsInRecovery PROVE Spec => []EvidenceInv
<1>1. Init => EvidenceInv
  BY DEF Init, EvidenceInv, EvidenceRetryable, NoFiles, Claiming, CapturePhases, Unclaimed,
         RecoveryPhases
<1>2. TInv /\ EvidenceInv /\ [Next]_vars => EvidenceInv'
  BY StepEvidence DEF vars, EvidenceInv, EvidenceRetryable
<1> QED
  BY TypeCorrect, <1>1, <1>2, PTL DEF Spec

(* Invariant EvidenceRetryable: evidence that recovery has moved is         *)
(* recognized by the next one (writer_recovery.py).                         *)
THEOREM EvidenceIsRetryable ==
  ASSUME ~(PartialsRemain /\ StopsInRecovery)
  PROVE  Spec => []EvidenceRetryable
<1>1. NoEvidence => EvidenceRetryable
  BY DEF NoEvidence, EvidenceRetryable
<1>2. EvidenceInv => EvidenceRetryable
  BY DEF EvidenceInv
<1>3. CASE ~PartialsRemain
  BY <1>1, <1>3, NothingToClaim, PTL
<1>4. CASE ~StopsInRecovery
  BY <1>2, <1>4, ClaimsAreCurrent, PTL
<1> QED
  BY <1>3, <1>4

-----------------------------------------------------------------------------
(* An acknowledged stop is honoured, and stays durable.                     *)

(* The claim of a partial does not write over a stop.                       *)
ClaimCurrent == wpc = "claim" => (disk.stop => rjob.stop)

(* The store's stop is the handlers', a signal to the worker is in the job, *)
(* and the worker, or the copy it goes on with, has heard of a stop.        *)
StopInv ==
  /\ StopHonoured
  /\ stopped => disk # NoJob /\ disk.stop
  /\ (active \/ blocked) /\ job # NoJob => (disk.stop => job.stop)
  /\ active /\ event => job.stop
  /\ wpc \in CapturePhases => (stopped => event)
  /\ rjob # NoJob => (rjob.stop => job.stop) /\ (stopped => event \/ rjob.stop)
  /\ wpc \in {"resuming", "resume"} => ~rjob.stop

LEMMA StopCapture ==
  ASSUME TInv, StopInv, CaptureWork
  PROVE  StopInv' /\ (disk.stop => disk'.stop)
<1>1. /\ Capturing
      /\ wpc \in Working /\ wpc' \in Working \cup Ending
      /\ job \in JobStates /\ job' \in JobStates /\ SameIntent(job', job)
      /\ disk' \in {disk, job'}
  BY CaptureStep
<1>2. /\ disk \in JobStates /\ active /\ rjob = NoJob
      /\ wpc \in CapturePhases /\ wpc' \in CapturePhases
      /\ wpc' \notin {"resuming", "resume"}
  BY <1>1 DEF TInv, Typed, Phases, Jobs, Working, Ending, CapturePhases
<1>3. job'.stop = job.stop /\ (disk.stop => job.stop)
  BY <1>1, <1>2, NoJobApart DEF StopInv, SameIntent
<1>4. /\ UNCHANGED <<active, blocked, event, rjob, stopped>>
  BY <1>1 DEF Capturing, memory
<1>5. ~afterStop'
  <2>1. CASE WriterWrites
    BY <1>2, <2>1 DEF WriterWrites, StopInv, StopHonoured
  <2>2. CASE ~WriterWrites
    <3>1. afterStop' = afterStop
      BY <2>2
      DEF CaptureWork, Lease, Reopen, Resolve, Resolved, Identify, Prepare, Open,
          ConnectionEnds, Reconnect, Finish, MarkFinalizing, Encode, EncoderEnds,
          CompleteManifest, NoMedia
    <3> QED
      BY <3>1 DEF StopInv, StopHonoured
  <2> QED
    BY <2>1, <2>2
<1> QED
  BY <1>1, <1>2, <1>3, <1>4, <1>5, NoJobApart DEF StopInv, StopHonoured

LEMMA StopRecovery ==
  ASSUME TInv, StopInv, ClaimCurrent, RecoveryWork
  PROVE  StopInv' /\ (disk.stop => disk'.stop)
<1>1. /\ Watching /\ RecoveryMoves /\ RecoveryAccess
      /\ job \in JobStates /\ disk \in JobStates
  BY RecoveryStep
<1>2. /\ UNCHANGED <<active, blocked, event, stopped, afterStop>>
      /\ wpc \in RecoveryPhases /\ wpc' \notin CapturePhases /\ active
  <2>1. UNCHANGED <<active, blocked, event, stopped, afterStop>>
    BY <1>1 DEF Watching, memory
  <2>2. wpc \in RecoveryPhases /\ wpc' \notin CapturePhases
    BY <1>1 DEF RecoveryMoves, RecoveryPhases, CapturePhases
  <2> QED
    BY <2>1, <2>2 DEF TInv, Phases, RecoveryPhases
<1>3. /\ disk.stop => job.stop
      /\ event => job.stop
      /\ rjob # NoJob => (rjob.stop => job.stop) /\ (stopped => event \/ rjob.stop)
      /\ stopped => disk.stop
  BY <1>1, <1>2, NoJobApart DEF StopInv
<1>4. disk' # NoJob
  <2>1. TInv'
    BY StepTInv DEF Next, Recovery, RecoveryWork
  <2> QED
    BY <1>2, <2>1 DEF TInv, Phases
<1>5. /\ job.stop => job'.stop
      /\ disk.stop => disk'.stop
      /\ disk'.stop => job'.stop
      /\ rjob' # NoJob => (rjob'.stop => job'.stop) /\ (stopped => event \/ rjob'.stop)
  <2>1. CASE wpc \in Early
    <3>1. UNCHANGED <<job, disk>> /\ (rjob' = rjob \/ rjob' = disk)
      BY <1>1, <2>1 DEF RecoveryAccess, Loaded
    <3> QED
      BY <1>3, <3>1
  <2>2. CASE wpc \notin Early
    <3>1. /\ UNCHANGED <<job, disk, rjob>> \/ rjob \in JobStates
          /\ job.stop => job'.stop
          /\ wpc # "claim" => disk'.stop = disk.stop \/ (disk'.stop <=> rjob.stop \/ job.stop)
          /\ rjob.stop => rjob'.stop
          /\ rjob'.stop => rjob.stop \/ job.stop \/ event
      BY <1>1, <2>2, AccessIs
    <3>2. CASE wpc = "claim"
      <4>1. CASE UNCHANGED <<job, disk, rjob>>
        BY <1>3, <4>1
      <4>2. CASE ~UNCHANGED <<job, disk, rjob>>
        <5>1. /\ job' = job /\ rjob \in JobStates
              /\ disk' \in {disk, Claimed(rjob)}
          <6>1. Claim
            BY <3>2
            DEF RecoveryWork, RecoveryLease, Load, Observe, Inspect, Compare, ObserveClaim,
                Preserve, Publish, RecordRecovery, Decide, Ask, ResolveRoom, RetryRoom,
                ObserveOutage, GiveUp, Found, ObserveResume, Finalize, MarkRecovery,
                PreserveEncoderPartial, Encode, EncoderEnds, CompleteManifest, CompleteJob
          <6> QED
            BY <3>1, <4>2, <6>1, SaveEnds DEF Claim
        <5>2. Claimed(rjob).stop = rjob.stop
          BY <5>1 DEF Claimed, JobStates
        <5>3. disk.stop => rjob.stop
          BY <3>2 DEF ClaimCurrent
        <5>4. rjob # NoJob
          BY <5>1, NoJobApart
        <5> QED
          BY <1>3, <3>1, <5>1, <5>2, <5>3, <5>4
      <4> QED
        BY <4>1, <4>2
    <3>3. CASE wpc # "claim" /\ UNCHANGED <<job, disk, rjob>>
      BY <1>3, <3>3
    <3>4. CASE wpc # "claim" /\ rjob \in JobStates
      <4>1. rjob # NoJob
        BY <3>4, NoJobApart
      <4> QED
        BY <1>3, <3>1, <3>4, <4>1
    <3> QED
      BY <3>1, <3>2, <3>3, <3>4
  <2> QED
    BY <2>1, <2>2
<1>6. wpc' \in {"resuming", "resume"} => ~rjob'.stop
  <2>1. CASE ObserveResume
    BY <2>1 DEF ObserveResume, StopInv
  <2>2. CASE Found
    <3>1. ASSUME SaveRecovery(ResumeOf(rjob),
                   IF Merged(ResumeOf(rjob)).stop THEN "finalize" ELSE "resuming")
          PROVE  wpc' \in {"resuming", "resume"} => ~rjob'.stop
      BY <3>1 DEF SaveRecovery
    <3> QED
      BY <2>2, <3>1 DEF Found
  <2>3. CASE ~ObserveResume /\ ~Found
    BY <2>3
    DEF RecoveryWork, RecoveryLease, Load, Observe, Inspect, Compare, Claim, ObserveClaim,
        Preserve, Publish, RecordRecovery, Decide, Ask, ResolveRoom, RetryRoom,
        ObserveOutage, GiveUp, Finalize, MarkRecovery, PreserveEncoderPartial, Encode,
        EncoderEnds, CompleteManifest, CompleteJob, Artifact, Refused, SaveRecovery,
        Stopped, Answered
  <2> QED
    BY <2>1, <2>2, <2>3
<1> QED
  BY <1>2, <1>3, <1>4, <1>5, <1>6 DEF StopInv, StopHonoured

LEMMA StepStop ==
  ASSUME TInv, StopInv, ClaimCurrent, Next
  PROVE  StopInv' /\ (disk # NoJob /\ disk.stop /\ starts' = starts => disk'.stop)
<1>1. CASE CaptureWork
  BY <1>1, StopCapture
<1>2. CASE RecoveryWork
  BY <1>2, StopRecovery
<1>3. CASE Start \/ StartFails
  <2>1. /\ ~active /\ ~blocked /\ blocked' = FALSE /\ rjob' = NoJob
        /\ starts' # starts /\ wpc' \in {"none", "lease"}
        /\ wpc' = "lease" => /\ job' = NewJob /\ disk' = NewJob
                             /\ event' = FALSE /\ active' = TRUE
        /\ wpc' = "none" => ~active'
        /\ \/ disk' = disk /\ wpc' = "none" /\ UNCHANGED <<stopped, afterStop>>
           \/ stopped' = FALSE /\ afterStop' = FALSE
    BY <1>3, StartStep
  <2>2. ~NewJob.stop /\ "none" \notin CapturePhases
    BY DEF NewJob, CapturePhases
  <2> QED
    BY <2>1, <2>2 DEF StopInv, StopHonoured
<1>4. CASE Stop \/ Shutdown \/ ShutdownReturns
  <2>1. /\ UNCHANGED <<active, blocked, wpc, rjob, afterStop>>
        /\ \/ UNCHANGED <<job, disk>>
           \/ /\ job \in JobStates /\ job' = [job EXCEPT !.stop = TRUE]
              /\ job' \in JobStates
              /\ disk' \in {disk, job'} /\ disk \in JobStates
              /\ active \/ blocked
        /\ event' => event \/ ~active \/ (job' # NoJob /\ job'.stop)
        /\ stopped' => stopped \/ (disk' = job' /\ job' # NoJob /\ job'.stop)
        /\ stopped' => stopped \/ event'
        /\ event => event'
    BY <1>4, CallStep
  <2>2. CASE UNCHANGED <<job, disk>>
    BY <2>1, <2>2 DEF StopInv, StopHonoured
  <2>3. CASE job \in JobStates /\ job' = [job EXCEPT !.stop = TRUE] /\ ~UNCHANGED <<job, disk>>
    <3>1. job'.stop /\ job' # NoJob /\ disk' # NoJob /\ disk # NoJob
          /\ disk' \in {disk, job'}
      BY <2>1, <2>3, NoJobApart DEF JobStates
    <3>2. (stopped' => disk'.stop) /\ (disk.stop => disk'.stop)
      BY <2>1, <3>1 DEF StopInv
    <3> QED
      BY <2>1, <3>1, <3>2 DEF StopInv, StopHonoured
  <2> QED
    BY <2>1, <2>2, <2>3
<1>5. CASE LeaseFails \/ WorkerResult \/ Settle
  <2>1. /\ UNCHANGED <<event, rjob, stopped, afterStop>>
        /\ wpc \in CapturePhases /\ wpc' \in {"none", "settle"}
        /\ wpc' = "none" <=> ~active'
        /\ job \in JobStates /\ disk \in JobStates /\ job' \in JobStates /\ rjob = NoJob
        /\ disk' \in {disk, job'} /\ job'.stop = job.stop
    BY <1>5, EndStep
  <2>2. active
    BY <2>1 DEF TInv, Phases, CapturePhases
  <2>3. (disk.stop => job.stop) /\ disk' # NoJob /\ job' # NoJob
    BY <2>1, <2>2, NoJobApart DEF StopInv
  <2>4. (stopped => disk'.stop) /\ (disk.stop => disk'.stop)
    BY <2>1, <2>3 DEF StopInv
  <2> QED
    BY <2>1, <2>2, <2>3, <2>4 DEF StopInv, StopHonoured
<1>6. CASE RecoveryLeaseFails \/ Outcome
  <2>1. /\ UNCHANGED <<event, disk, stopped, afterStop>>
        /\ wpc \in {"rlease", "settled", "exhausted", "rfailed", "resume"}
        /\ wpc' \in {"none", "lease"} /\ (wpc' = "none" <=> ~active')
        /\ wpc' = "lease" <=> wpc = "resume"
        /\ job \in JobStates /\ disk \in JobStates /\ job' \in JobStates /\ rjob' = NoJob
        /\ wpc \notin {"rlease", "rfailed"} => rjob \in JobStates
        /\ job.stop => job'.stop
    BY <1>6, OutcomeStep
  <2>2. active
    BY <2>1 DEF TInv, Phases
  <2>3. (disk.stop => job'.stop) /\ (event => job'.stop)
    BY <2>1, <2>2, NoJobApart DEF StopInv
  <2>4. wpc' = "lease" => (stopped => event)
    BY <2>1, NoJobApart DEF StopInv
  <2>5. "none" \notin CapturePhases
    BY DEF CapturePhases
  <2> QED
    BY <2>1, <2>3, <2>4, <2>5 DEF StopInv, StopHonoured
<1>7. CASE Restart
  <2>1. /\ UNCHANGED <<disk, stopped, afterStop>>
        /\ event' = FALSE /\ rjob' = NoJob /\ wpc' \in {"none", "rlease"}
        /\ \/ job' = NoJob
           \/ job' = disk
           \/ job'.stop = disk.stop
    BY <1>7, RestartStep
  <2>2. wpc' \notin CapturePhases
    BY <2>1 DEF CapturePhases
  <2> QED
    BY <2>1, <2>2 DEF StopInv, StopHonoured
<1> QED
  BY NextSplit, <1>1, <1>2, <1>3, <1>4, <1>5, <1>6, <1>7

LEMMA ClaimIsCurrent ==
  ASSUME NoEvidence \/ EvidenceInv
  PROVE  ClaimCurrent
  BY DEF NoEvidence, EvidenceInv, ClaimCurrent, Claiming

(* Invariant StopInv: an acknowledged stop is durable, known to whoever may *)
(* write the job, and signalled to whoever may write media (recording.py,   *)
(* reconciliation.py); every step is taken in such a state.                 *)
THEOREM StopsAreHeard ==
  ASSUME ~(PartialsRemain /\ StopsInRecovery)
  PROVE  Spec => []StopInv /\ [][Next /\ TInv /\ StopInv /\ ClaimCurrent]_vars
<1>1. Init => StopInv
  BY DEF Init, StopInv, StopHonoured, CapturePhases
<1>2. TInv /\ StopInv /\ ClaimCurrent /\ [Next]_vars => StopInv'
  <2>1. ASSUME StopInv, UNCHANGED vars PROVE StopInv'
    BY <2>1 DEF vars, memory, history, StopInv, StopHonoured
  <2> QED
    BY <2>1, StepStop
<1>3. Spec => []ClaimCurrent
  <2>1. CASE ~PartialsRemain
    BY <2>1, NothingToClaim, ClaimIsCurrent, PTL
  <2>2. CASE ~StopsInRecovery
    BY <2>2, ClaimsAreCurrent, ClaimIsCurrent, PTL
  <2> QED
    BY <2>1, <2>2
<1> QED
  BY TypeCorrect, <1>1, <1>2, <1>3, PTL DEF Spec

(* Invariant StopHonoured: after an acknowledged stop no media is written,  *)
(* in this process or by the resumed capture of a later one (recording.py). *)
THEOREM StopIsHonoured ==
  ASSUME ~(PartialsRemain /\ StopsInRecovery)
  PROVE  Spec => []StopHonoured
<1>1. StopInv => StopHonoured
  BY DEF StopInv
<1> QED
  BY <1>1, StopsAreHeard, PTL

(* Property StopDurable: no later write of the job loses a durable stop:    *)
(* every writer's copy has merged it (_save_recovery, save_if_current).     *)
THEOREM StopStaysDurable ==
  ASSUME ~(PartialsRemain /\ StopsInRecovery)
  PROVE  Spec => StopDurable
<1>1. TInv /\ StopInv /\ ClaimCurrent /\ Next =>
        (disk # NoJob /\ disk.stop /\ starts' = starts => disk'.stop)
  BY StepStop
<1> QED
  BY <1>1, StopsAreHeard, PTL DEF StopDurable

-----------------------------------------------------------------------------
(* What an encoder leaves behind is recognized.                             *)

(* Phases of a recovery that found no encoder artifact, or dealt with it.   *)
Clean == {"compare", "claim", "marked", "preserve", "publish", "record", "ask", "rresolve",
          "entered", "routage", "recovered", "expired", "found", "resuming", "resume",
          "proven", "rencode", "rclose", "rcomplete", "settled", "exhausted"}

Planned == {"ask", "rresolve", "entered", "routage", "recovered", "expired", "found",
            "finalize", "rmark"}

EncoderInv ==
  /\ EncoderOwned
  /\ wpc \in CapturePhases /\ files.temp => wpc = "encoding"
  /\ wpc \in {"mark", "encode", "encoding"} =>
       job.state = "finalizing" /\ disk.state = "finalizing"
  /\ wpc \in Streaming \cup {"finish"} => disk.state = job.state
  /\ wpc \in {"encode", "encoding", "rpreserve", "rencode", "rencoding"} =>
       files.fin = "running"
  /\ wpc \in {"rmark", "rpreserve", "rencode", "rencoding"} => disk.state = "finalizing"
  /\ wpc \in Clean => ~files.temp
  /\ wpc \in Planned => (plan <=> files.temp)
  /\ wpc \in {"resuming", "resume"} => rjob.state = "resuming" /\ disk.state = "resuming"

(* No manifest update but the encoder's touches its artifact.               *)
LEMMA TempKept ==
  ASSUME NEW f \in Files
  PROVE  /\ Reopened(f).temp = f.temp /\ \A b : Prepared(f, b).temp = f.temp
         /\ PartClosed(f).temp = f.temp
         /\ CaptureFailed(f).temp = f.temp /\ CaptureFailed(PartClosed(f)).temp = f.temp
         /\ [f EXCEPT !.partial = "writer"].temp = f.temp
<1>1. Reopened(f).temp = f.temp /\ \A b : Prepared(f, b).temp = f.temp
  BY DEF Files, Reopened, Prepared
<1>2. PartClosed(f).temp = f.temp /\ [f EXCEPT !.partial = "writer"].temp = f.temp
  BY DEF Files, PartClosed
<1>3. ASSUME NEW g \in Files
      PROVE  CaptureFailed(g).temp = g.temp
  BY DEF Files, CaptureFailed
<1>4. PartClosed(f) \in Files
  BY FilesTyped
<1> QED
  BY <1>1, <1>2, <1>3, <1>4

LEMMA EncoderCapture ==
  ASSUME TInv, EncoderInv, CaptureWork
  PROVE  EncoderInv'
<1>0. /\ wpc \in Working /\ wpc' \in Working \cup Ending
      /\ job \in JobStates /\ job' \in JobStates /\ disk' \in {disk, job'}
      /\ files \in Files
  BY CaptureStep DEF TInv, Typed
<1>1. /\ wpc \in CapturePhases /\ wpc' \in CapturePhases
      /\ wpc' \notin Clean /\ wpc' \notin Planned
      /\ wpc' \notin {"rmark", "rpreserve", "rencode", "rencoding", "resuming", "resume"}
  BY <1>0 DEF Working, Ending, CapturePhases, Clean, Planned
<1>a. ASSUME wpc' \notin {"mark", "encode", "encoding"}, ~files'.temp,
             wpc' \in Streaming \cup {"finish"} => disk'.state = job'.state
      PROVE  EncoderInv'
  BY <1>1, <1>a DEF EncoderInv, EncoderOwned
<1>2. CASE \/ Lease \/ Reopen \/ Resolved \/ Identify \/ Prepare \/ WriterWrites
           \/ ConnectionEnds
  <2>1. wpc \in Streaming
    BY <1>2
    DEF Lease, Reopen, Resolved, Identify, Prepare, WriterWrites, ConnectionEnds, Streaming
  <2>2. ~files'.temp
    <3>1. ~files.temp
      BY <1>1, <2>1 DEF EncoderInv, Streaming
    <3>2. CASE Lease \/ Reopen \/ Resolved \/ Identify
      BY <1>0, <3>1, <3>2, TempKept DEF Lease, Reopen, Resolved, Identify, NoMedia
    <3>3. CASE Prepare \/ WriterWrites \/ ConnectionEnds
      <4>1. \/ \E b : files' = Prepared(files, b)
            \/ files' = [files EXCEPT !.partial = "writer"]
            \/ files' = PartClosed(files)
            \/ files' = CaptureFailed(PartClosed(files))
        BY <3>3 DEF Prepare, WriterWrites, ConnectionEnds
      <4>2. files \in Files
        BY <1>0
      <4>3. /\ \A b : Prepared(files, b).temp = files.temp
            /\ PartClosed(files).temp = files.temp
            /\ CaptureFailed(PartClosed(files)).temp = files.temp
            /\ [files EXCEPT !.partial = "writer"].temp = files.temp
        BY ONLY <4>2, TempKept
      <4> QED
        BY ONLY <3>1, <4>1, <4>3
    <3> QED
      BY <1>2, <3>2, <3>3
  <2>3. disk'.state = job'.state
    <3>1. job'.state = job.state
      BY <1>0, <1>2
      DEF Lease, Reopen, Resolved, Identify, Prepare, WriterWrites, ConnectionEnds, NoWrite,
          JobStates
    <3> QED
      BY <1>0, <2>1, <3>1 DEF EncoderInv
  <2>4. wpc' \notin {"mark", "encode", "encoding"}
    BY <1>2
    DEF Lease, Reopen, Resolved, Identify, Prepare, WriterWrites, ConnectionEnds
  <2> QED
    BY <1>a, <2>2, <2>3, <2>4
<1>3. ASSUME NEW s \in Phase, NEW ok \in BOOLEAN, SetState(s, ok),
             wpc \in Streaming \cup {"finish"}
      PROVE  ok => disk'.state = job'.state /\ job'.state = s
  <2>1. ok => disk' = job' \/ (job'.state = job.state /\ disk' = disk)
    BY <1>0, <1>3, SetStateEnds
  <2>2. job'.state = s
    BY <1>0, <1>3, SetStateEnds
  <2> QED
    BY <1>3, <2>1, <2>2 DEF EncoderInv
<1>4. {"resolving", "recording", "reconnecting", "finalizing"} \subseteq Phase
  BY DEF Phase, CaptureStates
<1>5. CASE Resolve \/ Open \/ Reconnect
  <2>1. wpc \in Streaming
    BY <1>5 DEF Resolve, Open, Reconnect, Streaming
  <2>2. ~files'.temp
    BY <1>0, <1>1, <1>5, <2>1
    DEF EncoderInv, Resolve, Open, Reconnect, Files, CaptureFailed, Streaming
  <2>3. wpc' \notin {"mark", "encode", "encoding"}
    BY <1>5 DEF Resolve, Open, Reconnect
  <2>4. \/ job' = job /\ disk' = disk
        \/ \E s \in Phase, ok \in BOOLEAN : SetState(s, ok) /\ (~ok => wpc' = "raised")
    BY <1>4, <1>5 DEF Resolve, Open, Reconnect, NoWrite
  <2>5. wpc' \in Streaming \cup {"finish"} => disk'.state = job'.state
    <3>1. "raised" \notin Streaming \cup {"finish"}
      BY DEF Streaming
    <3> QED
      BY <1>3, <2>1, <2>4, <3>1 DEF EncoderInv
  <2> QED
    BY <1>a, <2>2, <2>3, <2>5
<1>6. CASE Finish
  <2>1. wpc = "finish" /\ ~files.temp
    BY <1>1, <1>6 DEF Finish, EncoderInv
  <2>2. ~files'.temp
    BY <1>0, <1>6, <2>1 DEF Finish, EndedEmpty, Files
  <2>3. wpc' = "mark" => disk'.state = job'.state /\ job'.state = "finalizing"
    BY <1>3, <1>4, <1>6, <2>1 DEF Finish
  <2>4. wpc' \in {"mark", "raised", "returned"}
    BY <1>6 DEF Finish
  <2> QED
    BY <1>1, <2>2, <2>3, <2>4 DEF EncoderInv, EncoderOwned, Streaming
<1>7. CASE \/ MarkFinalizing \/ Encode("encode", "encoding", "raised")
           \/ EncoderEnds("encoding", "close", "raised")
           \/ CompleteManifest("close", "returned")
  <2>1. job' = job /\ disk' = disk /\ wpc' \notin Streaming \cup {"finish", "mark"}
    BY <1>7
    DEF MarkFinalizing, Encode, EncoderEnds, CompleteManifest, NoWrite, Streaming
  <2>2. CASE MarkFinalizing
    BY <1>0, <1>1, <2>1, <2>2 DEF MarkFinalizing, EncoderInv, EncoderOwned, Files
  <2>3. CASE Encode("encode", "encoding", "raised")
    <3>1. /\ ~files.temp /\ files.fin = "running" /\ disk # NoJob
          /\ job.state = "finalizing" /\ disk.state = "finalizing"
      BY <1>0, <1>1, <2>3 DEF Encode, EncoderInv, TInv, Phases, CapturePhases
    <3>2. \/ wpc' = "encoding" /\ files'.fin = "running"
          \/ wpc' = "raised" /\ ~files'.temp
      BY <1>0, <2>3, <3>1 DEF Encode, Encoding, EncodingFailed, Files
    <3> QED
      BY <1>1, <2>1, <3>1, <3>2 DEF EncoderInv, EncoderOwned
  <2>4. CASE EncoderEnds("encoding", "close", "raised")
    BY <1>0, <1>a, <2>1, <2>4 DEF EncoderEnds, Promoted, EncodingFailed, Files
  <2>5. CASE CompleteManifest("close", "returned")
    BY <1>0, <1>1, <1>a, <2>1, <2>5 DEF CompleteManifest, Completed, Files, EncoderInv
  <2> QED
    BY <1>7, <2>2, <2>3, <2>4, <2>5
<1> QED
  BY <1>2, <1>5, <1>6, <1>7 DEF CaptureWork

LEMMA EncoderRecovery ==
  ASSUME TInv, EncoderInv, RecoveryWork
  PROVE  EncoderInv'
<1>0. /\ RecoveryMoves
      /\ job \in JobStates /\ disk \in JobStates /\ files \in Files /\ plan \in BOOLEAN
      /\ wpc \in RecoveryPhases \ {"rlease", "load", "rfailed"} => rjob \in JobStates
  BY RecoveryStep DEF TInv, Typed, Phases, Jobs
<1>1. /\ wpc' \in RecoveryPhases /\ wpc' \notin CapturePhases
      /\ wpc' \notin Streaming \cup {"finish", "mark", "encode", "encoding"}
  BY <1>0 DEF RecoveryMoves, RecoveryPhases, CapturePhases, Streaming
<1>2. disk' # NoJob
  <2>1. TInv'
    BY StepTInv DEF Next, Recovery, RecoveryWork
  <2>2. wpc' # "none"
    BY <1>1 DEF RecoveryPhases
  <2> QED
    BY <2>1, <2>2 DEF TInv, Phases
<1>a. ASSUME ~files'.temp,
             wpc' \notin {"rmark", "rpreserve", "rencode", "rencoding", "resuming", "resume"},
             wpc' \in Planned => ~plan'
      PROVE  EncoderInv'
  BY <1>1, <1>a DEF EncoderInv, EncoderOwned
<1>3. CASE RecoveryLease \/ Load \/ Observe
  <2>1. files' = files /\ disk' = disk /\ wpc' \in {"load", "observe", "inspect", "rfailed"}
    BY <1>3 DEF RecoveryLease, Load, Observe, Looking, Refused
  <2> QED
    BY <1>1, <2>1 DEF EncoderInv, EncoderOwned, Clean, Planned
<1>4. CASE Inspect
  <2>1. files' = files /\ disk' = disk /\ wpc' \in {"decide", "compare", "rfailed"}
    BY <1>4 DEF Inspect, Looking, Refused
  <2>2. wpc' = "compare" => ~files.temp
    BY <1>0, <1>4 DEF Inspect, Refused, Inspectable, ActiveOwnership, Files
  <2> QED
    BY <1>1, <2>1, <2>2 DEF EncoderInv, EncoderOwned, Clean, Planned
<1>5. CASE Compare \/ Claim \/ ObserveClaim \/ Preserve \/ Publish \/ RecordRecovery
  <2>1. ~files.temp
    BY <1>5
    DEF Compare, Claim, ObserveClaim, Preserve, Publish, RecordRecovery, EncoderInv, Clean
  <2>2. ~files'.temp
    BY <1>0, <1>5, <2>1
    DEF Compare, Claim, ObserveClaim, Preserve, Publish, RecordRecovery, Looking, Artifact,
        Files
  <2>3. wpc' \in {"claim", "marked", "preserve", "publish", "record", "decide", "rfailed"}
    BY <1>5
    DEF Compare, Claim, ObserveClaim, Preserve, Publish, RecordRecovery, Artifact, Refused
  <2> QED
    BY <1>a, <2>2, <2>3 DEF Planned
<1>6. CASE Decide
  <2>1. files' = files /\ disk' = disk /\ plan' = files.temp
    BY <1>6 DEF Decide, Looking
  <2>2. /\ wpc' \in {"proven", "finalize", "ask", "rfailed"}
        /\ wpc' \in {"proven", "ask"} => ~files.temp
    BY <1>6 DEF Decide, Refused, PartialPlanned, OutputExists, Resumable
  <2> QED
    BY <1>1, <2>1, <2>2 DEF EncoderInv, EncoderOwned, Clean, Planned
<1>7. CASE Ask \/ ResolveRoom \/ RetryRoom \/ ObserveOutage \/ GiveUp
  <2>1. ~files.temp /\ (wpc # "expired" => ~plan)
    BY <1>7
    DEF Ask, ResolveRoom, RetryRoom, ObserveOutage, GiveUp, EncoderInv, Clean, Planned
  <2>2. ~files'.temp /\ plan' = plan
    BY <1>0, <1>7, <2>1
    DEF Ask, ResolveRoom, RetryRoom, ObserveOutage, GiveUp, Looking, Files, CaptureFailed
  <2>3. /\ wpc' \in {"finalize", "rresolve", "rfailed", "found", "entered", "recovered",
                     "expired", "routage", "exhausted"}
        /\ wpc = "expired" => wpc' \in {"exhausted", "rfailed"}
    BY <1>7
    DEF Ask, ResolveRoom, RetryRoom, ObserveOutage, GiveUp, SaveRecovery, Stopped, Answered
  <2> QED
    BY <1>a, <2>1, <2>2, <2>3 DEF Planned
<1>8. CASE Found \/ ObserveResume
  <2>1. ~files.temp /\ files' = files /\ plan' = plan /\ (wpc = "found" => ~plan)
    BY <1>8 DEF Found, ObserveResume, EncoderInv, Clean, Planned
  <2>2. CASE ObserveResume
    <3>1. rjob.state = "resuming" /\ disk.state = "resuming"
      BY <2>2 DEF ObserveResume, EncoderInv
    <3>2. wpc' = "resume" /\ rjob' = rjob /\ disk' = disk
      BY <2>2 DEF ObserveResume
    <3> QED
      BY <1>1, <2>1, <3>1, <3>2 DEF EncoderInv, EncoderOwned, Planned
  <2>3. CASE Found
    <3>1. \/ wpc' \in {"finalize", "rfailed"}
          \/ /\ wpc' = "resuming" /\ ~Merged(ResumeOf(rjob)).stop
             /\ disk' = Merged(ResumeOf(rjob)) /\ rjob' = Merged(ResumeOf(rjob))
      BY <2>3, SaveEnds DEF Found, SaveRecovery
    <3>2. ~Merged(ResumeOf(rjob)).stop => Merged(ResumeOf(rjob)).state = "resuming"
      <4>1. rjob \in JobStates
        BY <1>0, <2>3 DEF Found, RecoveryPhases
      <4>2. ResumeOf(rjob) \in JobStates /\ ResumeOf(rjob).state = "resuming"
        BY <4>1, JobsMade DEF ResumeOf, JobStates
      <4> QED
        BY <1>0, <4>2, MergedIs
    <3> QED
      BY <1>1, <1>2, <2>1, <2>3, <3>1, <3>2 DEF Found, EncoderInv, EncoderOwned, Planned
  <2> QED
    BY <1>8, <2>2, <2>3
<1>9. CASE Finalize \/ MarkRecovery
  <2>1. plan' = plan /\ (plan <=> files.temp)
    BY <1>9 DEF Finalize, MarkRecovery, EncoderInv, Planned
  <2>2. CASE Finalize
    <3>1. rjob \in JobStates
      BY <1>0, <2>2 DEF Finalize, RecoveryPhases
    <3>2. /\ [rjob EXCEPT !.state = "finalizing", !.mark = FALSE] \in JobStates
          /\ [rjob EXCEPT !.state = "finalizing", !.mark = FALSE].state = "finalizing"
      <4>1. [rjob EXCEPT !.state = "finalizing", !.mark = FALSE] \in JobStates
        BY <3>1, JobTyped DEF Phase
      <4> QED
        BY <3>1, <4>1 DEF JobStates
    <3>3. Merged([rjob EXCEPT !.state = "finalizing", !.mark = FALSE]).state = "finalizing"
      BY <1>0, <3>2, MergedIs
    <3>4. /\ files' = files
          /\ \/ wpc' = "rmark" /\ disk'.state = "finalizing"
             \/ wpc' = "rfailed" /\ (disk' = disk \/ disk'.state = "finalizing")
      BY <2>2, <3>3, SaveRecoveryEnds DEF Finalize
    <3> QED
      BY <1>1, <1>2, <2>1, <3>4 DEF EncoderInv, EncoderOwned, Clean, Planned
  <2>3. CASE MarkRecovery
    <3>1. /\ disk' = disk /\ disk.state = "finalizing"
          /\ \/ files' = [files EXCEPT !.fin = "running"]
                /\ wpc' = IF plan THEN "rpreserve" ELSE "rencode"
             \/ wpc' = "rfailed" /\ files' = files
      BY <2>3 DEF MarkRecovery, Refused, EncoderInv
    <3>2. CASE wpc' = "rfailed" /\ files' = files
      BY <1>1, <3>1, <3>2 DEF EncoderInv, EncoderOwned, Clean, Planned
    <3>3. CASE /\ files' = [files EXCEPT !.fin = "running"]
               /\ wpc' = IF plan THEN "rpreserve" ELSE "rencode"
      <4>1. (files'.temp <=> files.temp) /\ files'.fin = "running"
        BY <1>0, <3>3 DEF Files
      <4>2. wpc' = "rpreserve" \/ (wpc' = "rencode" /\ ~files'.temp)
        BY <2>1, <3>3, <4>1
      <4> QED
        BY <1>1, <1>2, <3>1, <4>1, <4>2 DEF EncoderInv, EncoderOwned, Clean, Planned
    <3> QED
      BY <3>1, <3>2, <3>3
  <2> QED
    BY <1>9, <2>2, <2>3
<1>10. CASE PreserveEncoderPartial \/ Encode("rencode", "rencoding", "rfailed")
  <2>1. disk' = disk /\ disk.state = "finalizing" /\ files.fin = "running"
    BY <1>10 DEF PreserveEncoderPartial, Encode, NoWrite, EncoderInv
  <2>2. CASE PreserveEncoderPartial
    <3>1. wpc' = "rencode" /\ ~files'.temp /\ files'.fin = "running"
      BY <1>0, <2>1, <2>2 DEF PreserveEncoderPartial, Files
    <3> QED
      BY <1>1, <1>2, <2>1, <3>1 DEF EncoderInv, EncoderOwned, Planned
  <2>3. CASE Encode("rencode", "rencoding", "rfailed")
    <3>1. ~files.temp
      BY <2>3 DEF Encode, EncoderInv, Clean
    <3>2. \/ wpc' = "rencoding" /\ files'.fin = "running"
          \/ wpc' = "rfailed" /\ ~files'.temp
      BY <1>0, <2>1, <2>3, <3>1 DEF Encode, Encoding, EncodingFailed, Files
    <3> QED
      BY <1>1, <1>2, <2>1, <3>2 DEF EncoderInv, EncoderOwned, Clean, Planned
  <2> QED
    BY <1>10, <2>2, <2>3
<1>11. CASE \/ EncoderEnds("rencoding", "rclose", "rfailed")
            \/ CompleteManifest("rclose", "rcomplete")
            \/ CompleteJob
  <2>1. ~files'.temp
    BY <1>0, <1>11
    DEF EncoderEnds, CompleteManifest, CompleteJob, EncoderInv, Clean, Files, Promoted,
        EncodingFailed, Completed
  <2>2. wpc' \in {"rclose", "rfailed", "rcomplete", "settled"}
    BY <1>11 DEF EncoderEnds, CompleteManifest, CompleteJob, SaveRecovery
  <2> QED
    BY <1>a, <2>1, <2>2 DEF Planned
<1> QED
  BY <1>3, <1>4, <1>5, <1>6, <1>7, <1>8, <1>9, <1>10, <1>11 DEF RecoveryWork

LEMMA StepEncoder ==
  ASSUME ~StopsInRecovery, TInv, EncoderInv, Next
  PROVE  EncoderInv'
<1>1. CASE CaptureWork
  BY <1>1, EncoderCapture
<1>2. CASE RecoveryWork
  BY <1>2, EncoderRecovery
<1>3. CASE Start \/ StartFails
  <2>1. /\ wpc' \in {"none", "lease"}
        /\ wpc' = "lease" => job' = NewJob /\ disk' = NewJob
        /\ \/ disk' = disk /\ files' = files /\ wpc' = "none"
           \/ files' = NoFiles
    BY <1>3, StartStep
  <2>2. ~NoFiles.temp
    BY DEF NoFiles
  <2> QED
    BY <2>1, <2>2
    DEF EncoderInv, EncoderOwned, Streaming, CapturePhases, Clean, Planned
<1>4. CASE Stop \/ Shutdown \/ ShutdownReturns
  <2>1. /\ UNCHANGED <<active, blocked, wpc, rjob, plan, files>>
        /\ \/ UNCHANGED <<job, disk>>
           \/ /\ job \in JobStates /\ job' = [job EXCEPT !.stop = TRUE]
              /\ disk' \in {disk, job'} /\ disk \in JobStates /\ job' \in JobStates
              /\ active /\ ~blocked
    BY <1>4, CallStep
  <2>2. CASE UNCHANGED <<job, disk>>
    BY <2>1, <2>2 DEF EncoderInv, EncoderOwned
  <2>3. CASE /\ job \in JobStates /\ job' = [job EXCEPT !.stop = TRUE]
             /\ disk' \in {disk, job'} /\ disk \in JobStates /\ job' \in JobStates
             /\ active /\ ~blocked
    <3>1. wpc \in CapturePhases /\ wpc \notin RecoveryPhases
      BY <2>3 DEF TInv, Typed, Phases
    <3>2. job'.state = job.state /\ disk' # NoJob
      BY <2>3, NoJobApart DEF JobStates
    <3>3. /\ wpc \notin Clean /\ wpc \notin Planned
          /\ wpc \notin {"rmark", "rpreserve", "rencode", "rencoding", "resuming", "resume"}
      BY <3>1 DEF CapturePhases, Clean, Planned
    <3> QED
      BY <2>1, <2>3, <3>1, <3>2, <3>3 DEF EncoderInv, EncoderOwned
  <2> QED
    BY <2>1, <2>2, <2>3
<1>5. CASE LeaseFails \/ WorkerResult \/ Settle
  <2>1. wpc \in CapturePhases \ {"encoding"} /\ files' = files /\ wpc' \in {"none", "settle"}
    BY <1>5 DEF LeaseFails, WorkerResult, Settle, CapturePhases
  <2> QED
    BY <2>1 DEF EncoderInv, EncoderOwned, Streaming, Clean, Planned
<1>6. CASE RecoveryLeaseFails \/ Outcome
  <2>1. /\ UNCHANGED <<disk, files>> /\ wpc' \in {"none", "lease"}
        /\ wpc' = "lease" <=> wpc = "resume"
        /\ job \in JobStates
        /\ wpc \notin {"rlease", "rfailed"} => rjob \in JobStates
    BY <1>6, OutcomeStep
  <2>2. CASE wpc' = "none"
    BY <2>1, <2>2 DEF EncoderInv, EncoderOwned, Streaming, CapturePhases, Clean, Planned
  <2>3. CASE wpc' = "lease"
    <3>0. wpc = "resume" /\ rjob \in JobStates /\ Outcome
      BY <1>6, <2>1, <2>3 DEF RecoveryLeaseFails
    <3>a. rjob # NoJob
      BY <3>0, NoJobApart
    <3>b. job' = Observed(rjob)
      BY <3>0, <3>a DEF Outcome
    <3>1. job' = Observed(rjob) /\ rjob \in JobStates /\ wpc = "resume"
      BY <3>0, <3>b
    <3>2. job'.state = disk'.state
      BY <2>1, <3>1, MergedIs DEF EncoderInv
    <3>3. ~files'.temp
      BY <2>1, <3>1 DEF EncoderInv, Clean
    <3> QED
      BY <2>1, <2>3, <3>2, <3>3
      DEF EncoderInv, EncoderOwned, Streaming, CapturePhases, Clean, Planned
  <2> QED
    BY <2>1, <2>2, <2>3
<1>7. CASE Restart
  <2>1. files' = files /\ disk' = disk /\ wpc' \in {"none", "rlease"}
    BY <1>7, RestartStep
  <2> QED
    BY <2>1 DEF EncoderInv, EncoderOwned, Streaming, CapturePhases, Clean, Planned
<1> QED
  BY NextSplit, <1>1, <1>2, <1>3, <1>4, <1>5, <1>6, <1>7

(* Invariant EncoderOwned: an encoder that runs, or that a crash left       *)
(* behind, has its phase in the manifest and in the durable job             *)
(* (live.py, recovery_finalization.py).                                     *)
THEOREM EncoderIsOwned == ASSUME ~StopsInRecovery PROVE Spec => []EncoderOwned
<1>1. Init => EncoderInv
  BY DEF Init, EncoderInv, EncoderOwned, NoFiles, Streaming, CapturePhases, Clean, Planned
<1>2. TInv /\ EncoderInv /\ [Next]_vars => EncoderInv'
  BY StepEncoder DEF vars, EncoderInv, EncoderOwned
<1>3. EncoderInv => EncoderOwned
  BY DEF EncoderInv
<1> QED
  BY TypeCorrect, <1>1, <1>2, <1>3, PTL DEF Spec

-----------------------------------------------------------------------------
(* A free slot holds no durable work, and a blocked one keeps it.           *)

LEMMA SaveSucceeds ==
  ASSUME ~StoreMayFail, NEW j, Valid(j), NEW ok \in BOOLEAN, Save(j, ok)
  PROVE  ok /\ disk' = j
  BY DEF Save

(* Who must end a job ends it: a worker that is done leaves a terminal job, *)
(* or the slot blocked, and so does a recovery.                             *)
FreeInv ==
  /\ FreeSlotSettled
  /\ wpc = "settle" => blocked \/ job.state \in TerminalStates
  /\ wpc \in {"settled", "exhausted"} => ~NeedsReconciliation(disk)

(* The reconciler ends a job in one write of its copy.                      *)
LEMMA CopyEnds ==
  ASSUME ~StoreMayFail, NEW j \in JobStates, job \in JobStates, NEW next,
         j.state \in TerminalStates, j.ended, SaveRecovery(j, next)
  PROVE  wpc' = next /\ disk' = Merged(j) /\ ~NeedsReconciliation(disk')
<1>1. Merged(j) = Observed(j)
  BY DEF Merged, TerminalStates
<1>2. Observed(j).ended /\ Observed(j).state \in TerminalStates
  BY DEF Observed, JobStates
<1>3. PICK ok \in BOOLEAN : Save(Merged(j), ok) /\ wpc' = IF ok THEN next ELSE "rfailed"
  BY DEF SaveRecovery
<1>4. ok /\ disk' = Merged(j)
  BY <1>1, <1>2, <1>3, SaveSucceeds DEF Valid
<1> QED
  BY <1>1, <1>2, <1>3, <1>4 DEF NeedsReconciliation

LEMMA EndedCopies ==
  ASSUME NEW j \in JobStates
  PROVE  /\ [j EXCEPT !.state = "failed", !.ended = TRUE, !.mark = FALSE] \in JobStates
         /\ [j EXCEPT !.state = "failed", !.ended = TRUE, !.mark = FALSE].state = "failed"
         /\ [j EXCEPT !.state = "failed", !.ended = TRUE, !.mark = FALSE].ended
         /\ [j EXCEPT !.state = "completed", !.done = TRUE, !.ended = TRUE, !.mark = FALSE]
              \in JobStates
         /\ [j EXCEPT !.state = "completed", !.done = TRUE, !.ended = TRUE,
                      !.mark = FALSE].state = "completed"
         /\ [j EXCEPT !.state = "completed", !.done = TRUE, !.ended = TRUE,
                      !.mark = FALSE].ended
<1>1. /\ [j EXCEPT !.state = "failed", !.ended = TRUE, !.mark = FALSE] \in JobStates
      /\ [j EXCEPT !.state = "completed", !.done = TRUE, !.ended = TRUE, !.mark = FALSE]
           \in JobStates
  BY JobTyped DEF Phase, TerminalStates
<1> QED
  BY <1>1 DEF JobStates

(* Only these two sections of a recovery reach an end without a resume.     *)
LEMMA RecoveryEnds ==
  ASSUME RecoveryWork, wpc' \in {"settled", "exhausted"}
  PROVE  CompleteJob \/ GiveUp
<1>1. CASE \/ RecoveryLease \/ Load \/ Observe \/ Inspect \/ Compare \/ Claim \/ ObserveClaim
           \/ Preserve \/ Publish \/ RecordRecovery \/ Decide \/ Ask
  BY <1>1
  DEF RecoveryLease, Load, Observe, Inspect, Compare, Claim, ObserveClaim, Preserve, Publish,
      RecordRecovery, Decide, Ask, Refused, Artifact
<1>2. CASE \/ ResolveRoom \/ RetryRoom \/ ObserveOutage \/ Found \/ ObserveResume \/ Finalize
           \/ MarkRecovery \/ PreserveEncoderPartial
  BY <1>2
  DEF ResolveRoom, RetryRoom, ObserveOutage, Found, ObserveResume, Finalize, MarkRecovery,
      PreserveEncoderPartial, Refused, Stopped, Answered, SaveRecovery
<1>3. CASE \/ Encode("rencode", "rencoding", "rfailed")
           \/ EncoderEnds("rencoding", "rclose", "rfailed")
           \/ CompleteManifest("rclose", "rcomplete")
  BY <1>3 DEF Encode, EncoderEnds, CompleteManifest
<1> QED
  BY <1>1, <1>2, <1>3 DEF RecoveryWork

LEMMA StepFree ==
  ASSUME ~StoreMayFail, ~StopsInRecovery, TInv, FreeInv, Next
  PROVE  FreeInv'
<1>0. /\ active => job \in JobStates /\ disk \in JobStates
      /\ active <=> wpc # "none"
      /\ wpc \in RecoveryPhases => blocked
      /\ wpc \in RecoveryPhases \ {"rlease", "load", "rfailed"} => rjob \in JobStates
  BY DEF TInv, Typed, Phases, Jobs
<1>1. CASE CaptureWork
  <2>1. wpc \in Working /\ wpc' \in Working \cup Ending /\ active' = active
    BY <1>1, CaptureStep DEF Capturing, memory
  <2>2. active' /\ wpc' \notin {"settle", "settled", "exhausted"}
    BY <1>0, <2>1 DEF Working, Ending, CapturePhases
  <2> QED
    BY <2>2 DEF FreeInv, FreeSlotSettled
<1>2. CASE RecoveryWork
  <2>1. Watching /\ RecoveryMoves /\ job \in JobStates
    BY <1>2, RecoveryStep
  <2>2. active' /\ wpc' # "settle"
    BY <1>0, <2>1 DEF Watching, memory, RecoveryMoves, RecoveryPhases
  <2>3. ASSUME CompleteJob \/ GiveUp
        PROVE  ~NeedsReconciliation(disk')
    <3>1. rjob \in JobStates
      BY <1>0, <2>3 DEF CompleteJob, GiveUp, RecoveryPhases
    <3>2. CASE CompleteJob
      <4> DEFINE j == [rjob EXCEPT !.state = "completed", !.done = TRUE, !.ended = TRUE,
                                   !.mark = FALSE]
      <4>1. SaveRecovery(j, "settled")
        BY <3>2 DEF CompleteJob
      <4>2. j \in JobStates /\ j.state \in TerminalStates /\ j.ended
        BY <3>1, EndedCopies DEF TerminalStates
      <4> HIDE DEF j
      <4> QED
        BY <2>1, <4>1, <4>2, CopyEnds
    <3>3. CASE GiveUp
      <4> DEFINE j == [rjob EXCEPT !.state = "failed", !.ended = TRUE, !.mark = FALSE]
      <4>1. SaveRecovery(j, "exhausted")
        BY <3>3 DEF GiveUp
      <4>2. j \in JobStates /\ j.state \in TerminalStates /\ j.ended
        BY <3>1, EndedCopies DEF TerminalStates
      <4> HIDE DEF j
      <4> QED
        BY <2>1, <4>1, <4>2, CopyEnds
    <3> QED
      BY <2>3, <3>2, <3>3
  <2> QED
    BY <1>2, <2>2, <2>3, RecoveryEnds DEF FreeInv, FreeSlotSettled
<1>3. CASE Start \/ StartFails
  <2>1. /\ wpc' \in {"none", "lease"} /\ (wpc' = "lease" => active' = TRUE)
        /\ wpc' = "none" => job' = [NewJob EXCEPT !.state = "failed", !.ended = TRUE]
    BY <1>3, StartStep
  <2>2. CASE wpc' = "lease"
    BY <2>1, <2>2 DEF FreeInv, FreeSlotSettled
  <2>3. CASE wpc' = "none"
    <3>1. disk' = job'
      BY <1>3, <2>3 DEF Start, StartFails
    <3>2. job'.state = "failed"
      BY <2>1, <2>3 DEF NewJob
    <3> QED
      BY <2>3, <3>1, <3>2 DEF FreeInv, FreeSlotSettled, NeedsReconciliation, TerminalStates
  <2> QED
    BY <2>1, <2>2, <2>3
<1>4. CASE Stop \/ Shutdown \/ ShutdownReturns
  <2>1. /\ UNCHANGED <<active, blocked, wpc>>
        /\ \/ UNCHANGED <<job, disk>>
           \/ /\ job \in JobStates /\ job' = [job EXCEPT !.stop = TRUE]
              /\ active \/ blocked
              /\ ~blocked
    BY <1>4, CallStep
  <2>2. CASE UNCHANGED <<job, disk>>
    BY <2>1, <2>2 DEF FreeInv, FreeSlotSettled
  <2>3. CASE job \in JobStates /\ job' = [job EXCEPT !.stop = TRUE] /\ active /\ ~blocked
    <3>1. job'.state = job.state /\ wpc \notin {"settled", "exhausted"}
      BY <1>0, <2>3 DEF JobStates, RecoveryPhases
    <3> QED
      BY <2>1, <2>3, <3>1 DEF FreeInv, FreeSlotSettled
  <2> QED
    BY <2>1, <2>2, <2>3
<1>5. CASE LeaseFails
  <2>1. job \in JobStates /\ job' = [job EXCEPT !.state = "failed", !.ended = TRUE]
    BY <1>0, <1>5 DEF LeaseFails
  <2>2. job'.state = "failed" /\ job'.ended
    BY <2>1 DEF JobStates
  <2>3. disk' = job'
    BY <1>5, <2>2, SaveSucceeds DEF LeaseFails, Valid
  <2>4. wpc' = "none"
    BY <1>5 DEF LeaseFails
  <2> QED
    BY <2>2, <2>3, <2>4 DEF FreeInv, FreeSlotSettled, NeedsReconciliation, TerminalStates
<1>6. CASE WorkerResult
  <2>1. job \in JobStates /\ active' /\ wpc' = "settle"
    BY <1>0, <1>6 DEF WorkerResult
  <2>2. blocked' \/ job'.state \in TerminalStates
    BY <1>6, <2>1 DEF WorkerResult, JobStates, TerminalStates
  <2> QED
    BY <2>1, <2>2 DEF FreeInv, FreeSlotSettled
<1>7. CASE Settle
  <2>1. /\ job \in JobStates /\ job' = [job EXCEPT !.ended = TRUE] /\ wpc' = "none"
        /\ blocked \/ job.state \in TerminalStates
    BY <1>0, <1>7 DEF Settle, FreeInv
  <2>2. job'.state = job.state /\ job'.ended
    BY <2>1 DEF JobStates
  <2>3. PICK ok \in BOOLEAN : Save(job', ok) /\ blocked' = (blocked \/ ~ok)
    BY <1>7 DEF Settle
  <2>4. ok /\ disk' = job'
    BY <2>2, <2>3, SaveSucceeds DEF Valid
  <2>5. ~blocked' => job.state \in TerminalStates
    BY <2>1, <2>3, <2>4
  <2> QED
    BY <2>1, <2>2, <2>4, <2>5 DEF FreeInv, FreeSlotSettled, NeedsReconciliation
<1>8. CASE RecoveryLeaseFails \/ Outcome
  <2>1. /\ disk' = disk /\ wpc' \in {"none", "lease"} /\ (wpc' = "none" <=> ~active')
    BY <1>8, OutcomeStep
  <2>2. blocked' \/ active' \/ wpc \in {"settled", "exhausted"}
    BY <1>8 DEF RecoveryLeaseFails, Outcome, Blocks
  <2> QED
    BY <2>1, <2>2 DEF FreeInv, FreeSlotSettled
<1>9. CASE Restart
  <2>1. /\ disk' = disk /\ wpc' \in {"none", "rlease"}
        /\ blocked' \/ disk = NoJob \/ ~NeedsReconciliation(disk)
    BY <1>9, RestartStep
  <2> QED
    BY <2>1 DEF FreeInv, FreeSlotSettled
<1> QED
  BY NextSplit, <1>1, <1>2, <1>3, <1>4, <1>5, <1>6, <1>7, <1>8, <1>9

(* Invariant FreeSlotSettled: while the store can be written, a slot that   *)
(* is offered to a new start holds no durable job that a restart would      *)
(* have to reconcile (recording.py, recording_worker.py).                   *)
THEOREM FreeSlotIsSettled ==
  ASSUME ~StoreMayFail, ~StopsInRecovery
  PROVE  Spec => []FreeSlotSettled
<1>1. Init => FreeInv
  BY DEF Init, FreeInv, FreeSlotSettled
<1>2. TInv /\ FreeInv /\ [Next]_vars => FreeInv'
  BY StepFree DEF vars, memory, FreeInv, FreeSlotSettled
<1>3. FreeInv => FreeSlotSettled
  BY DEF FreeInv
<1> QED
  BY TypeCorrect, <1>1, <1>2, <1>3, PTL DEF Spec

(* A job stays unsettled from the restart that found it to the end of its   *)
(* recovery, in the store, for the handlers and in the reconciler's copy.   *)
BlockedInv ==
  /\ blocked => job # NoJob
  /\ wpc \in RecoveryPhases \ {"settled", "exhausted"} =>
       /\ NeedsReconciliation(disk) /\ NeedsReconciliation(job)
       /\ rjob # NoJob => NeedsReconciliation(rjob)
  /\ blocked /\ ~active => NeedsReconciliation(disk) /\ NeedsReconciliation(job)
  /\ wpc \in CapturePhases \ {"settle"} => ~job.done
  /\ wpc = "settle" /\ blocked => NeedsReconciliation(job)

(* What is written while a recovery lasts is unsettled like its source.     *)
LEMMA Unsettled ==
  ASSUME NEW j \in JobStates, NeedsReconciliation(j), job \in JobStates
  PROVE  /\ NeedsReconciliation([j EXCEPT !.stop = TRUE])
         /\ NeedsReconciliation(Observed(j)) /\ NeedsReconciliation(Merged(j))
         /\ NeedsReconciliation(Claimed(j)) /\ NeedsReconciliation(ResumeOf(j))
         /\ \A s \in Phase \ TerminalStates :
              /\ NeedsReconciliation([j EXCEPT !.state = s])
              /\ NeedsReconciliation([j EXCEPT !.state = s, !.mark = FALSE])
<1>1. NeedsReconciliation([j EXCEPT !.stop = TRUE])
  BY DEF NeedsReconciliation, JobStates
<1>2. NeedsReconciliation(Observed(j)) /\ NeedsReconciliation(Merged(j))
  BY MergedIs DEF NeedsReconciliation, TerminalStates
<1>3. NeedsReconciliation(Claimed(j)) /\ NeedsReconciliation(ResumeOf(j))
  BY DEF NeedsReconciliation, JobStates, Claimed, ResumeOf, TerminalStates
<1>4. ASSUME NEW s \in Phase \ TerminalStates
      PROVE  /\ NeedsReconciliation([j EXCEPT !.state = s])
             /\ NeedsReconciliation([j EXCEPT !.state = s, !.mark = FALSE])
  BY DEF NeedsReconciliation, JobStates
<1> QED
  BY <1>1, <1>2, <1>3, <1>4

(* The sections of a recovery that save its copy and go on.                 *)
LEMMA CopyKept ==
  ASSUME RecoveryWork, rjob \in JobStates, job \in JobStates, NeedsReconciliation(rjob),
         ResolveRoom \/ RetryRoom \/ Found \/ Finalize
  PROVE  /\ job' = job
         /\ disk' = disk \/ NeedsReconciliation(disk')
         /\ NeedsReconciliation(rjob')
<1>1. ASSUME NEW s \in Phase \ TerminalStates, NEW next,
             SaveRecovery([rjob EXCEPT !.state = s, !.mark = FALSE], next)
      PROVE  /\ disk' = disk \/ NeedsReconciliation(disk')
             /\ NeedsReconciliation(rjob')
  <2> DEFINE j == [rjob EXCEPT !.state = s, !.mark = FALSE]
  <2>1. j \in JobStates /\ NeedsReconciliation(j)
    BY JobTyped, Unsettled
  <2>2. SaveRecovery(j, next)
    BY <1>1
  <2> HIDE DEF j
  <2>3. NeedsReconciliation(Merged(j))
    BY <2>1, Unsettled
  <2> QED
    BY <2>2, <2>3, SaveRecoveryEnds
<1>2. ASSUME NEW next, SaveRecovery(ResumeOf(rjob), next)
      PROVE  /\ disk' = disk \/ NeedsReconciliation(disk')
             /\ NeedsReconciliation(rjob')
  <2>1. ResumeOf(rjob) \in JobStates /\ NeedsReconciliation(ResumeOf(rjob))
    BY JobsMade, Unsettled
  <2>2. NeedsReconciliation(Merged(ResumeOf(rjob)))
    BY <2>1, Unsettled
  <2> QED
    BY <1>2, <2>2, SaveRecoveryEnds
<1>3. job' = job
  BY DEF ResolveRoom, RetryRoom, Found, Finalize
<1>4. ASSUME Stopped \/ Answered
      PROVE  NeedsReconciliation(rjob')
  BY <1>4, Unsettled DEF Stopped, Answered
<1>5. /\ "reconnecting" \in Phase \ TerminalStates /\ "reconciling" \in Phase \ TerminalStates
      /\ "finalizing" \in Phase \ TerminalStates
  BY DEF Phase, CaptureStates, TerminalStates
<1>6. CASE ResolveRoom
  <2>1. \/ (Stopped \/ Answered) /\ disk' = disk
        \/ rjob' = rjob /\ disk' = disk
        \/ SaveRecovery([rjob EXCEPT !.state = "reconnecting", !.mark = FALSE], "entered")
    BY <1>6 DEF ResolveRoom
  <2> QED
    BY <1>1, <1>3, <1>4, <1>5, <2>1
<1>7. CASE RetryRoom
  <2>1. \/ (Stopped \/ Answered) /\ disk' = disk
        \/ rjob' = rjob /\ disk' = disk
        \/ SaveRecovery([rjob EXCEPT !.state = "reconciling", !.mark = FALSE], "recovered")
    BY <1>7 DEF RetryRoom
  <2> QED
    BY <1>1, <1>3, <1>4, <1>5, <2>1
<1>8. CASE Found
  <2>1. \/ rjob' = rjob /\ disk' = disk
        \/ \E next : SaveRecovery(ResumeOf(rjob), next)
    BY <1>8 DEF Found
  <2> QED
    BY <1>2, <1>3, <2>1
<1>9. CASE Finalize
  BY <1>1, <1>3, <1>5, <1>9 DEF Finalize
<1> QED
  BY <1>6, <1>7, <1>8, <1>9

LEMMA BlockedRecovery ==
  ASSUME ~StoreMayFail, TInv, BlockedInv, RecoveryWork
  PROVE  BlockedInv'
<1>1. /\ Watching /\ RecoveryMoves /\ RecoveryAccess
      /\ job \in JobStates /\ disk \in JobStates
  BY RecoveryStep
<1>2. /\ wpc \in RecoveryPhases \ {"settled", "exhausted"}
      /\ wpc' \in RecoveryPhases
      /\ active' = active /\ blocked' = blocked /\ active
  BY <1>1 DEF RecoveryMoves, RecoveryEnding, Watching, memory, TInv, Phases, RecoveryPhases
<1>3. /\ NeedsReconciliation(disk) /\ NeedsReconciliation(job)
      /\ rjob # NoJob => NeedsReconciliation(rjob)
      /\ rjob \in JobStates => NeedsReconciliation(rjob)
  BY <1>2, NoJobApart DEF BlockedInv
<1>4. wpc' \notin CapturePhases /\ wpc' # "settle"
  BY <1>2 DEF RecoveryPhases, CapturePhases
<1>5. job' # NoJob
  <2>1. TInv'
    BY StepTInv DEF Next, RecoveryWork, Recovery
  <2> QED
    BY <1>2, <2>1 DEF TInv, Phases
<1>6. ASSUME /\ NeedsReconciliation(disk') /\ NeedsReconciliation(job')
             /\ rjob' # NoJob => NeedsReconciliation(rjob')
      PROVE  BlockedInv'
  BY <1>2, <1>4, <1>5, <1>6 DEF BlockedInv
<1>7. CASE UNCHANGED <<job, disk, rjob>>
  BY <1>3, <1>6, <1>7
<1>8. CASE Loaded
  BY <1>3, <1>6, <1>8 DEF Loaded
<1>9. CASE rjob \in JobStates /\ Heard
  <2>1. NeedsReconciliation(rjob')
    BY <1>1, <1>3, <1>9, Unsettled DEF Heard
  <2> QED
    BY <1>3, <1>6, <1>9, <2>1 DEF Heard
<1>10. CASE rjob \in JobStates /\ Shown
  <2>1. /\ [rjob EXCEPT !.state = "reconciling"] \in JobStates
        /\ NeedsReconciliation([rjob EXCEPT !.state = "reconciling"])
    BY <1>1, <1>3, <1>10, JobsMadeByFailures, Unsettled
    DEF Phase, CaptureStates, TerminalStates
  <2>2. NeedsReconciliation(job')
    BY <1>1, <1>3, <1>10, <2>1, Unsettled DEF Shown
  <2> QED
    BY <1>3, <1>6, <1>10, <2>2 DEF Shown
<1>11. CASE rjob \in JobStates /\ SavedClaim
  <2>1. NeedsReconciliation(Claimed(rjob))
    BY <1>1, <1>3, <1>11, Unsettled
  <2> QED
    BY <1>3, <1>6, <1>11, <2>1 DEF SavedClaim
<1>12. CASE rjob \in JobStates /\ (ResolveRoom \/ RetryRoom \/ Found \/ Finalize)
  BY <1>1, <1>3, <1>6, <1>12, CopyKept
<1>13. CASE rjob \in JobStates /\ CompleteJob
  <2> DEFINE j == [rjob EXCEPT !.state = "completed", !.done = TRUE, !.ended = TRUE,
                               !.mark = FALSE]
  <2>1. SaveRecovery(j, "settled")
    BY <1>13 DEF CompleteJob
  <2>2. j \in JobStates /\ j.state \in TerminalStates /\ j.ended
    BY <1>13, EndedCopies DEF TerminalStates
  <2> HIDE DEF j
  <2>3. wpc' = "settled"
    BY <1>1, <2>1, <2>2, CopyEnds
  <2> QED
    BY <1>2, <1>4, <1>5, <2>3 DEF BlockedInv
<1>14. CASE rjob \in JobStates /\ GiveUp
  <2> DEFINE j == [rjob EXCEPT !.state = "failed", !.ended = TRUE, !.mark = FALSE]
  <2>1. SaveRecovery(j, "exhausted")
    BY <1>14 DEF GiveUp
  <2>2. j \in JobStates /\ j.state \in TerminalStates /\ j.ended
    BY <1>14, EndedCopies DEF TerminalStates
  <2> HIDE DEF j
  <2>3. wpc' = "exhausted"
    BY <1>1, <2>1, <2>2, CopyEnds
  <2> QED
    BY <1>2, <1>4, <1>5, <2>3 DEF BlockedInv
<1>15. CASE \/ RecoveryLease \/ Inspect \/ Compare \/ Preserve \/ Publish
            \/ RecordRecovery \/ Decide \/ PreserveEncoderPartial
            \/ Encode("rencode", "rencoding", "rfailed")
            \/ EncoderEnds("rencoding", "rclose", "rfailed")
            \/ CompleteManifest("rclose", "rcomplete")
  <2>1. UNCHANGED <<job, disk, rjob>>
    BY <1>15
    DEF RecoveryLease, Inspect, Compare, Preserve, Publish, RecordRecovery, Decide,
        PreserveEncoderPartial, Encode, EncoderEnds, CompleteManifest, Looking, NoWrite,
        Capturing
  <2> QED
    BY <1>7, <2>1
<1>16. CASE Load
  <2>1. Loaded \/ UNCHANGED <<job, disk, rjob>>
    BY <1>16 DEF Load, Loaded, Looking
  <2> QED
    BY <1>7, <1>8, <2>1
<1>17. rjob \in JobStates \/ RecoveryLease \/ Load
  <2>1. rjob = NoJob => wpc \in {"rlease", "load"}
    BY <1>1, <1>2
    DEF TInv, Typed, Phases, Jobs, RecoveryMoves, RecoveryEnding, RecoveryPhases
  <2>2. RecoveryLease \/ Load \/ wpc \notin {"rlease", "load"}
    BY DEF RecoveryWork, Observe, ObserveClaim, ObserveOutage, ObserveResume, MarkRecovery, Claim,
        Ask, ResolveRoom, RetryRoom, GiveUp, Found, Finalize, CompleteJob, Inspect, Compare,
        Preserve, Publish, RecordRecovery, Decide, PreserveEncoderPartial, Encode, EncoderEnds,
        CompleteManifest
  <2> QED
    BY <2>1, <2>2 DEF TInv, Typed, Jobs
<1>18. CASE rjob \in JobStates /\ (Observe \/ ObserveClaim \/ ObserveOutage \/ ObserveResume
                                   \/ MarkRecovery)
  <2>1. Shown
    BY <1>18 DEF Observe, ObserveClaim, ObserveOutage, ObserveResume, MarkRecovery, Shown
  <2> QED
    BY <1>10, <1>18, <2>1
<1>19. CASE rjob \in JobStates /\ Claim
  <2>1. SavedClaim
    BY <1>19, SaveEnds DEF Claim, SavedClaim
  <2> QED
    BY <1>11, <1>19, <2>1
<1>20. CASE rjob \in JobStates /\ Ask
  <2>1. Heard
    BY <1>20 DEF Ask, Heard, Looking
  <2> QED
    BY <1>9, <1>20, <2>1
<1> QED
  BY <1>12, <1>13, <1>14, <1>15, <1>16, <1>17, <1>18, <1>19, <1>20 DEF RecoveryWork

LEMMA StepBlocked ==
  ASSUME ~StoreMayFail, ~RelockMayFail, TInv, BlockedInv, Next
  PROVE  BlockedInv'
<1>0. /\ active => job \in JobStates /\ disk \in JobStates
      /\ blocked => job \in JobStates /\ disk \in JobStates
      /\ active <=> wpc # "none"
      /\ wpc \in CapturePhases => (blocked => resumed /\ wpc = "settle")
      /\ "none" \notin RecoveryPhases \cup CapturePhases
      /\ "settle" \notin RecoveryPhases /\ "lease" \notin RecoveryPhases
  BY DEF TInv, Typed, Phases, Jobs, BlockedInv, RecoveryPhases, CapturePhases
<1>a. TInv'
  BY StepTInv
<1>1. CASE CaptureWork
  <2>1. /\ wpc \in Working /\ wpc' \in Working \cup Ending
        /\ blocked' = blocked /\ job' \in JobStates /\ SameIntent(job', job)
    BY <1>1, CaptureStep DEF Capturing, memory
  <2>2. /\ wpc \in CapturePhases \ {"settle"} /\ ~blocked
        /\ wpc' \in CapturePhases \ {"settle"} /\ wpc' \notin RecoveryPhases
    BY <1>0, <2>1 DEF Working, Ending, CapturePhases, RecoveryPhases
  <2> QED
    BY <2>1, <2>2 DEF BlockedInv, SameIntent
<1>2. CASE RecoveryWork
  BY <1>2, BlockedRecovery
<1>3. CASE Start \/ StartFails
  <2>1. /\ blocked' = FALSE /\ wpc' \in {"none", "lease"}
        /\ wpc' = "lease" => job' = NewJob
    BY <1>3, StartStep
  <2> QED
    BY <1>0, <2>1 DEF BlockedInv, NewJob
<1>4. CASE Stop \/ Shutdown \/ ShutdownReturns
  <2>1. /\ UNCHANGED <<active, blocked, wpc, rjob>>
        /\ \/ UNCHANGED <<job, disk>>
           \/ /\ job \in JobStates /\ job' = [job EXCEPT !.stop = TRUE]
              /\ job' \in JobStates /\ disk' \in {disk, job'}
    BY <1>4, CallStep
  <2>2. CASE UNCHANGED <<job, disk>>
    BY <2>1, <2>2 DEF BlockedInv
  <2>3. CASE /\ job \in JobStates /\ job' = [job EXCEPT !.stop = TRUE]
             /\ job' \in JobStates /\ disk' \in {disk, job'}
    <3>1. /\ job'.done = job.done /\ job' # NoJob
          /\ NeedsReconciliation(job) => NeedsReconciliation(job')
      BY <2>3, NoJobApart DEF JobStates, NeedsReconciliation
    <3> QED
      BY <2>1, <2>3, <3>1 DEF BlockedInv
  <2> QED
    BY <2>1, <2>2, <2>3
<1>5. CASE LeaseFails
  <2>1. job \in JobStates /\ job' = [job EXCEPT !.state = "failed", !.ended = TRUE]
        /\ ~resumed /\ wpc' = "none"
    BY <1>0, <1>5 DEF LeaseFails
  <2>2. Valid(job')
    BY <2>1 DEF JobStates, Valid
  <2>3. PICK ok \in BOOLEAN : Save(job', ok) /\ blocked' = (resumed \/ ~ok)
    BY <1>5 DEF LeaseFails
  <2>4. ~blocked'
    BY <2>1, <2>2, <2>3, SaveSucceeds
  <2> QED
    BY <1>0, <2>1, <2>4 DEF BlockedInv
<1>6. CASE WorkerResult
  <2>1. /\ wpc \in {"returned", "raised", "outage"} /\ wpc' = "settle" /\ active' /\ active
    BY <1>0, <1>6 DEF WorkerResult
  <2>2. job \in JobStates /\ ~job.done /\ ~blocked
    BY <1>0, <2>1 DEF BlockedInv, CapturePhases
  <2>3. blocked' => wpc = "raised" /\ resumed
    BY <1>6, <2>2 DEF WorkerResult
  <2>4. blocked' => NeedsReconciliation(job')
    <3>1. SUFFICES ASSUME blocked' PROVE NeedsReconciliation(job')
      OBVIOUS
    <3>2. job' = [job EXCEPT !.state = FailedResumeState(@), !.mark = FALSE]
      BY <1>6, <2>3, <3>1 DEF WorkerResult
    <3>3. FailedResumeState(job.state) \notin TerminalStates
      BY <2>2, JobsMade
    <3> QED
      BY <2>2, <3>2, <3>3 DEF NeedsReconciliation, JobStates
  <2>5. job' # NoJob
    BY <1>a, <2>1 DEF TInv, Phases
  <2> QED
    BY <1>0, <2>1, <2>4, <2>5 DEF BlockedInv
<1>7. CASE Settle
  <2>1. /\ job \in JobStates /\ job' = [job EXCEPT !.ended = TRUE] /\ wpc' = "none"
        /\ blocked => NeedsReconciliation(job)
    BY <1>0, <1>7 DEF Settle, BlockedInv
  <2>2. /\ job' # NoJob /\ Valid(job')
        /\ NeedsReconciliation(job) => NeedsReconciliation(job')
    <3>1. job' \in JobStates
      BY <2>1, JobTyped DEF Phase, CaptureStates
    <3> QED
      BY <2>1, <3>1, NoJobApart DEF JobStates, Valid, NeedsReconciliation
  <2>3. PICK ok \in BOOLEAN : Save(job', ok) /\ blocked' = (blocked \/ ~ok)
    BY <1>7 DEF Settle
  <2>4. ok /\ disk' = job'
    BY <2>2, <2>3, SaveSucceeds
  <2>5. blocked' => blocked
    BY <2>3, <2>4
  <2> QED
    BY <1>0, <2>1, <2>2, <2>4, <2>5 DEF BlockedInv
<1>8. CASE RecoveryLeaseFails \/ Outcome
  <2>1. /\ disk' = disk /\ wpc' \in {"none", "lease"} /\ (wpc' = "lease" <=> wpc = "resume")
        /\ wpc \in {"rlease", "settled", "exhausted", "rfailed", "resume"}
        /\ job \in JobStates /\ job' \in JobStates
        /\ wpc \notin {"rlease", "rfailed"} => rjob \in JobStates
    BY <1>8, OutcomeStep
  <2>2. CASE wpc \in {"rlease", "rfailed"}
    <3>1. /\ NeedsReconciliation(disk) /\ NeedsReconciliation(job)
          /\ rjob # NoJob => rjob \in JobStates /\ NeedsReconciliation(rjob)
      BY <2>2 DEF BlockedInv, RecoveryPhases, TInv, Typed, Jobs
    <3>2. \/ job' = [job EXCEPT !.state = "recovering", !.mark = FALSE]
          \/ /\ rjob # NoJob
             /\ job' = [Observed(rjob) EXCEPT !.state = "recovering", !.mark = FALSE]
      BY <1>8, <2>2 DEF RecoveryLeaseFails, Outcome
    <3>3. "recovering" \in Phase \ TerminalStates
      BY DEF Phase, CaptureStates, TerminalStates
    <3>4. rjob # NoJob => Observed(rjob) \in JobStates /\ NeedsReconciliation(Observed(rjob))
      BY <2>1, <3>1, MergedTyped, Unsettled
    <3>5. NeedsReconciliation(job')
      <4>1. ASSUME NEW j \in JobStates, NeedsReconciliation(j)
            PROVE  NeedsReconciliation([j EXCEPT !.state = "recovering", !.mark = FALSE])
        BY <2>1, <3>3, <4>1, Unsettled
      <4>2. CASE job' = [job EXCEPT !.state = "recovering", !.mark = FALSE]
        BY <2>1, <3>1, <4>1, <4>2
      <4>3. CASE /\ rjob # NoJob
                 /\ job' = [Observed(rjob) EXCEPT !.state = "recovering", !.mark = FALSE]
        BY <3>4, <4>1, <4>3
      <4> QED
        BY <3>2, <4>2, <4>3
    <3>6. wpc' = "none"
      BY <2>1, <2>2
    <3> QED
      BY <1>0, <2>1, <3>1, <3>5, <3>6, NoJobApart DEF BlockedInv
  <2>3. CASE wpc \in {"settled", "exhausted"}
    <3>1. ~blocked' /\ wpc' = "none"
      BY <1>8, <2>1, <2>3 DEF RecoveryLeaseFails, Outcome, Blocks
    <3> QED
      BY <1>0, <3>1 DEF BlockedInv
  <2>4. CASE wpc = "resume"
    <3>1. ~blocked' /\ wpc' = "lease" /\ rjob # NoJob
      BY <1>8, <2>1, <2>4, NoJobApart DEF RecoveryLeaseFails, Outcome, Blocks
    <3>2. job' = Observed(rjob)
      BY <1>8, <2>4, <3>1 DEF RecoveryLeaseFails, Outcome
    <3>3. ~rjob.done
      BY <2>4, <3>1 DEF BlockedInv, RecoveryPhases, NeedsReconciliation
    <3>4. ~job'.done
      BY <2>1, <2>4, <3>2, <3>3, MergedIs
    <3> QED
      BY <1>0, <3>1, <3>4 DEF BlockedInv
  <2> QED
    BY <2>1, <2>2, <2>3, <2>4
<1>9. CASE Restart
  <2>1. /\ disk' = disk /\ rjob' = NoJob /\ wpc' \in {"none", "rlease"}
        /\ active' <=> wpc' = "rlease"
        /\ \/ ~blocked' /\ wpc' = "none"
           \/ /\ NeedsReconciliation(disk) /\ job' \in JobStates
              /\ NeedsReconciliation(job')
    BY <1>9, RestartStep
  <2>2. "rlease" \notin CapturePhases
    BY DEF CapturePhases
  <2> QED
    BY <1>0, <2>1, <2>2, NoJobApart DEF BlockedInv
<1> QED
  BY NextSplit, <1>1, <1>2, <1>3, <1>4, <1>5, <1>6, <1>7, <1>8, <1>9

(* Invariant BlockedKeepsIntent: a slot that stays blocked after its worker *)
(* is gone still has, in the store, the job it is blocked for, so that the  *)
(* next restart recovers it (recording.py, recording_worker.py).            *)
THEOREM BlockedSlotKeepsIntent ==
  ASSUME ~StoreMayFail, ~RelockMayFail
  PROVE  Spec => []BlockedKeepsIntent
<1>1. Init => BlockedInv
  BY DEF Init, BlockedInv, CapturePhases, RecoveryPhases
<1>2. TInv /\ BlockedInv /\ [Next]_vars => BlockedInv'
  BY StepBlocked DEF vars, memory, BlockedInv
<1>3. TInv /\ BlockedInv => BlockedKeepsIntent
  BY DEF TInv, Phases, BlockedInv, BlockedKeepsIntent
<1> QED
  BY TypeCorrect, <1>1, <1>2, <1>3, PTL DEF Spec
=============================================================================
