--------------------------- MODULE LiveCaptureProofs ---------------------------
(* For any number of connections, parts, rooms, crashes and resumes: what a *)
(* capture carries in memory agrees with the parts, the manifest and the    *)
(* log it writes, and with what later processes read of them.               *)
EXTENDS LiveCapture, FiniteSetTheorems, TLAPS

AnyRoom == Rooms \cup {NoRoom}
Numbered == [kind : {"connection"}, number : Nat, first : Nat, last : Nat]
Reserving == [kind : {"resume"}, number : Nat, next : Nat]
Outcomes == {"none", "closed", "network", "refresh", "capture_error", "interrupted",
             "offline", "live_changed", "resolver_error", "resolution_error"}
Memories == [number : Nat, next : Nat, all : Nat, saved : AnyRoom, room : AnyRoom,
             fails : Nat, empty : Nat, outage : BOOLEAN, elapsed : Nat,
             started : BOOLEAN, fresh : BOOLEAN, pending : Seq(Numbered), tries : Nat,
             outcome : Outcomes]
Manifests == [status : {"recording", "interrupted", "failed", "completed"},
              connections : Nat, parts : Nat, room : AnyRoom,
              final : {"pending", "running", "not_started", "completed", "failed"}]
Parts == [index : Nat, config : Configs, room : AnyRoom, started : BOOLEAN,
          keyed : BOOLEAN, changed : BOOLEAN, audible : BOOLEAN, deaf : BOOLEAN]
Writers == [start : Nat, retained : Nat, config : Configs \cup {NoConfig}, aac : BOOLEAN]

Resolving == {"resolve", "confirm", "identify", "pending"}
Open == Resolving \cup {"write", "record"}
Waiting == {"top", "attempt"}
Looping == Open \cup Waiting \cup {"resume", "count", "after"}
Running == Looping \cup {"finish", "fail", "encode"}

Typed ==
  /\ pc \in {"idle"} \cup Running
  /\ m \in Memories /\ writer \in Writers
  /\ manifest \in Manifests \cup {NoManifest}
  /\ partial \in Parts \cup {NoPart}
  /\ Count \in Nat /\ \A i \in DOMAIN files : files[i] \in Parts
  /\ log \in Seq(Numbered \cup Reserving)
  /\ torn \in BOOLEAN /\ stop \in BOOLEAN
  /\ proof \in 0..Checks /\ waits \in Nat /\ crashes \in Nat /\ resumes \in Nat

(* A capture has its session on disk from its first room on, and before it  *)
(* neither parts nor lines.                                                 *)
Begun ==
  /\ pc \in Running =>
       IF m.started THEN manifest \in Manifests /\ manifest.status = "recording"
       ELSE manifest = NoManifest /\ log = <<>> /\ DOMAIN files = {} /\ m.all = 0
  /\ pc \in {"pending", "write", "count", "resume", "encode"} => m.started
  /\ pc = "record" /\ ~m.started => writer.retained = 0

(* The numbers in memory, of the writer and of the directory.               *)
Tally ==
  /\ DOMAIN files = 1..Count
  /\ pc \in Running => m.next = m.all + 1
  /\ pc \in Open => writer.start = m.next /\ m.next + writer.retained = Count + 1
  /\ pc \in Running \ Open => m.all = Count
  /\ pc \in Resolving => writer.retained = 0
  /\ pc = "record" /\ m.outcome \in {"offline", "live_changed", "resolver_error",
                                     "resolution_error"} => writer.retained = 0
  /\ partial # NoPart => pc \in {"write", "idle"} /\ partial.index = Count + 1

TInv == Typed /\ Begun /\ Tally

-----------------------------------------------------------------------------
(* Parts and their numbers.                                                 *)

LEMMA IntervalCount ==
  ASSUME NEW n \in Nat
  PROVE  Cardinality(1..n) = n
  BY FS_Interval

LEMMA NoFilesCount == Cardinality({}) = 0
  BY FS_EmptySet

(* What closing the open part adds to the directory.                        *)
LEMMA ClosedIs ==
  ASSUME Count \in Nat, DOMAIN files = 1..Count, Kept => partial.index = Count + 1,
         files' = Closed
  PROVE  /\ Count' = IF Kept THEN Count + 1 ELSE Count
         /\ DOMAIN files' = 1..Count'
         /\ \A i \in DOMAIN files' :
              files'[i] = IF Kept /\ i = Count + 1 THEN partial ELSE files[i]
<1>1. CASE Kept
  <2>1. /\ DOMAIN files' = 1..(Count + 1)
        /\ \A i \in DOMAIN files' : files'[i] = IF i = Count + 1 THEN partial ELSE files[i]
    BY <1>1 DEF Closed
  <2>2. Count' = Count + 1
    BY <2>1, IntervalCount DEF Count
  <2> QED
    BY <1>1, <2>1, <2>2
<1>2. CASE ~Kept
  <2>1. files' = files
    BY <1>2 DEF Closed
  <2>2. Count' = Count
    BY <2>1 DEF Count
  <2> QED
    BY <1>2, <2>1, <2>2
<1> QED
  BY <1>1, <1>2

LEMMA SameCount ==
  ASSUME UNCHANGED files
  PROVE  Count' = Count
  BY DEF Count

LEMMA MemoryTyped ==
  ASSUME Count \in Nat, NEW n \in Nat, NEW room \in AnyRoom, NEW b \in BOOLEAN
  PROVE  Memory(n, room, b) \in Memories
<1>1. <<>> \in Seq(Numbered)
  OBVIOUS
<1> QED
  BY <1>1 DEF Memory, Memories, AnyRoom, Outcomes

(* The actions of the loop that leave the parts alone.                      *)
Thinking ==
  \/ Wait \/ OutageWait \/ StopAtTop
  \/ (\E room \in Rooms : Live(room)) \/ Offline \/ Unresolved \/ StopResolving
  \/ Counts \/ AfterClosed \/ AfterTransient \/ AfterRefresh \/ AfterEnd
  \/ RequestStop

LEMMA LeastTyped ==
  ASSUME NEW a \in Nat, NEW b \in Nat
  PROVE  Least(a, b) \in Nat /\ Least(a, b) <= a /\ Least(a, b) <= b
  BY DEF Least

LEMMA ThinkingMemory ==
  ASSUME Typed, Begun, Thinking
  PROVE  m' \in Memories
<1>0. m \in Memories /\ writer \in Writers /\ MaxFailures \in Nat
  BY LiveAssumption DEF Typed
<1>a. /\ m.elapsed \in Nat /\ m.tries \in Nat /\ m.fails \in Nat /\ m.empty \in Nat
      /\ m.all \in Nat /\ m.saved \in AnyRoom /\ m.outage \in BOOLEAN
  BY <1>0 DEF Memories
<1>b. /\ {"interrupted", "live_changed", "offline", "resolver_error", "resolution_error"}
           \subseteq Outcomes
      /\ Rooms \subseteq AnyRoom
  BY DEF Outcomes, AnyRoom
<1>c. ASSUME NEW o \in Outcomes, Ends(o)
      PROVE  m' \in Memories
  BY <1>0, <1>c DEF Ends, Memories
<1>1. CASE Wait \/ Counts \/ RequestStop
  BY <1>0, <1>1 DEF Wait, Counts, RequestStop
<1>2. CASE OutageWait \/ StopAtTop
  <2>1. m.elapsed + 1 \in Nat
    BY <1>a
  <2>2. \/ m' = [m EXCEPT !.elapsed = m.elapsed + 1]
        \/ m' = [m EXCEPT !.outage = FALSE]
        \/ m' = [m EXCEPT !.outage = FALSE, !.outcome = "interrupted"]
    BY <1>2 DEF OutageWait, StopAtTop
  <2> QED
    BY <1>0, <1>b, <2>1, <2>2 DEF Memories
<1>3. ASSUME NEW room \in Rooms, Live(room)
      PROVE  m' \in Memories
  <2>1. CASE Ends("live_changed")
    BY <1>b, <1>c, <2>1
  <2>2. CASE m' = [m EXCEPT !.room = room, !.saved = IF @ = NoRoom THEN room ELSE @]
    BY <1>0, <1>a, <1>b, <2>2 DEF Memories
  <2> QED
    BY <1>3, <2>1, <2>2 DEF Live
<1>4. CASE Offline
  <2>1. Ends("offline") \/ m' = [m EXCEPT !.tries = @ + 1]
    BY <1>4 DEF Offline
  <2>2. m.tries + 1 \in Nat
    BY <1>a
  <2> QED
    BY <1>0, <1>b, <1>c, <2>1, <2>2 DEF Memories
<1>5. CASE Unresolved \/ StopResolving
  BY <1>b, <1>c, <1>5 DEF Unresolved, StopResolving
<1>6. CASE AfterClosed \/ AfterTransient \/ AfterRefresh \/ AfterEnd
  <2>1. Fails \in Nat /\ Empties \in Nat /\ Elapsed \in Nat
    <3>1. m.fails + 1 \in Nat
      BY <1>a
    <3> QED
      BY <1>0, <1>a, <3>1, LeastTyped DEF Fails, Empties, Elapsed
  <2>2. /\ m.empty + 1 \in Nat /\ 0 \in Nat
        /\ (m.outage /\ ~HasMedia) \in BOOLEAN
        /\ (m.outage /\ m.all > 0) \in BOOLEAN
        /\ (m.saved # NoRoom) \in BOOLEAN
    BY <1>a
  <2>3. CASE AfterClosed
    <3> DEFINE e == IF HasMedia THEN 0 ELSE m.empty + 1
    <3>1. e \in Nat
      BY <2>2
    <3>2. m' = [m EXCEPT !.fails = 0, !.empty = e, !.outage = @ /\ ~HasMedia]
      BY <2>3 DEF AfterClosed
    <3> HIDE DEF e
    <3> QED
      BY <1>0, <2>2, <3>1, <3>2 DEF Memories
  <2>4. CASE AfterTransient
    <3>1. m' = [m EXCEPT !.fails = Fails, !.empty = Empties, !.outage = m.saved # NoRoom,
                         !.elapsed = Elapsed]
      BY <2>4 DEF AfterTransient
    <3> QED
      BY <1>0, <2>1, <2>2, <3>1 DEF Memories
  <2>5. CASE AfterRefresh
    <3>1. m' = [m EXCEPT !.fails = Fails, !.empty = Empties, !.outage = @ /\ m.all > 0]
      BY <2>5 DEF AfterRefresh
    <3> QED
      BY <1>0, <2>1, <2>2, <3>1 DEF Memories
  <2>6. CASE AfterEnd
    BY <1>0, <2>6 DEF AfterEnd, Memories
  <2> QED
    BY <1>6, <2>3, <2>4, <2>5, <2>6
<1> QED
  BY <1>1, <1>2, <1>3, <1>4, <1>5, <1>6 DEF Thinking

SameNumbers ==
  /\ m'.number = m.number /\ m'.next = m.next /\ m'.all = m.all
  /\ m'.started = m.started /\ m'.fresh = m.fresh /\ m'.pending = m.pending

LEMMA ThinkingNumbers ==
  ASSUME Typed, Thinking
  PROVE  SameNumbers
<1>0. m \in Memories
  BY DEF Typed
<1>a. ASSUME NEW o, m' = [m EXCEPT !.outcome = o]
      PROVE  SameNumbers
  BY <1>0, <1>a DEF SameNumbers, Memories
<1>1. CASE Wait \/ Counts \/ RequestStop
  BY <1>1 DEF Wait, Counts, RequestStop, SameNumbers
<1>2. CASE OutageWait \/ StopAtTop \/ AfterEnd
  BY <1>0, <1>2 DEF OutageWait, StopAtTop, AfterEnd, SameNumbers, Memories
<1>3. ASSUME NEW room \in Rooms, Live(room)
      PROVE  SameNumbers
  <2>1. CASE m' = [m EXCEPT !.room = room, !.saved = IF @ = NoRoom THEN room ELSE @]
    BY <1>0, <2>1 DEF SameNumbers, Memories
  <2> QED
    BY <1>3, <1>a, <2>1 DEF Live, Ends
<1>4. CASE Offline
  <2>1. CASE m' = [m EXCEPT !.tries = @ + 1]
    BY <1>0, <2>1 DEF SameNumbers, Memories
  <2> QED
    BY <1>4, <1>a, <2>1 DEF Offline, Ends
<1>5. CASE Unresolved \/ StopResolving
  BY <1>5, <1>a DEF Unresolved, StopResolving, Ends
<1>6. CASE AfterClosed \/ AfterTransient \/ AfterRefresh
  <2>1. CASE AfterClosed
    BY <1>0, <2>1 DEF AfterClosed, SameNumbers, Memories
  <2>2. CASE AfterTransient
    BY <1>0, <2>2 DEF AfterTransient, SameNumbers, Memories
  <2>3. CASE AfterRefresh
    BY <1>0, <2>3 DEF AfterRefresh, SameNumbers, Memories
  <2> QED
    BY <1>6, <2>1, <2>2, <2>3
<1> QED
  BY <1>1, <1>2, <1>3, <1>4, <1>5, <1>6 DEF Thinking

(* How the loop goes on from one section to the next.                       *)
Moves ==
  \/ pc = "top" /\ pc' \in {"attempt", "fail", "finish"}
  \/ /\ pc \in {"resolve", "confirm"} /\ pc' \in {"identify", "confirm"}
     /\ m'.outcome = m.outcome
  \/ pc \in {"resolve", "confirm", "identify"} /\ pc' = "record"
  \/ pc = "count" /\ pc' = "after"
  \/ pc = "after" /\ pc' \in {"top", "fail", "finish"}
  \/ pc' = pc /\ m' = m

LEMMA ThinkingMoves ==
  ASSUME Typed, Thinking
  PROVE  /\ Moves /\ pc # "idle"
         /\ UNCHANGED <<files, partial, writer, log, torn, crashes, resumes>>
<1>0. m \in Memories
  BY DEF Typed
<1>1. UNCHANGED <<files, partial, writer, log, torn, crashes, resumes>>
  BY DEF Thinking, Wait, OutageWait, StopAtTop, Live, Offline, Unresolved, StopResolving,
         Counts, AfterClosed, AfterTransient, AfterRefresh, AfterEnd, RequestStop,
         written, disk, history
<1>2. pc # "idle"
  BY DEF Thinking, Wait, OutageWait, StopAtTop, Live, Offline, Unresolved, StopResolving,
         Counts, AfterClosed, AfterTransient, AfterRefresh, AfterEnd, RequestStop
<1> SUFFICES Moves
  BY <1>1, <1>2
<1>3. CASE Wait \/ OutageWait \/ StopAtTop
  BY <1>3 DEF Wait, OutageWait, StopAtTop, Moves
<1>4. CASE (\E room \in Rooms : Live(room)) \/ Offline
  <2>1. \/ pc' = "record"
        \/ /\ pc' \in {"identify", "confirm"}
           /\ \/ \E r, t : m' = [m EXCEPT !.room = r, !.saved = t]
              \/ \E t : m' = [m EXCEPT !.tries = t]
    BY <1>4 DEF Live, Offline, Ends
  <2>2. pc \in {"resolve", "confirm"}
    BY <1>4 DEF Live, Offline
  <2>3. pc' = "record" \/ (pc' \in {"identify", "confirm"} /\ m'.outcome = m.outcome)
    BY <1>0, <2>1 DEF Memories
  <2> QED
    BY <2>2, <2>3 DEF Moves
<1>5. CASE Unresolved \/ StopResolving
  BY <1>5 DEF Unresolved, StopResolving, Ends, Moves
<1>6. CASE Counts \/ AfterClosed \/ AfterTransient \/ AfterRefresh \/ AfterEnd
  BY <1>6 DEF Counts, AfterClosed, AfterTransient, AfterRefresh, AfterEnd, Moves
<1>7. CASE RequestStop
  BY <1>7 DEF RequestStop, Moves
<1> QED
  BY <1>1, <1>2, <1>3, <1>4, <1>5, <1>6, <1>7 DEF Thinking

LEMMA ThinkingTInv ==
  ASSUME TInv, Thinking
  PROVE  TInv'
<1>0. /\ m' \in Memories /\ SameNumbers /\ Moves /\ pc \in Running /\ pc # "idle"
      /\ UNCHANGED <<files, partial, writer, log, torn, crashes, resumes>>
      /\ Count' = Count
  BY ThinkingMemory, ThinkingNumbers, ThinkingMoves, SameCount DEF TInv, Typed
<1>1. /\ pc' \in Running
      /\ pc' \in {"pending", "write", "count", "resume", "encode"} => pc' = pc
      /\ pc' \in Open <=> pc \in Open
      /\ pc' \in Resolving => pc \in Resolving
      /\ pc' = "record" => pc \in Resolving \/ (pc = "record" /\ m' = m)
      /\ pc = "write" => pc' = "write"
  BY <1>0 DEF Moves, Running, Looping, Open, Resolving, Waiting
<1>2. /\ manifest' \in Manifests \cup {NoManifest}
      /\ manifest' = manifest \/ (m.started /\ manifest' \in Manifests
                                  /\ manifest'.status = "recording")
  <2>1. CASE Counts
    <3>1. /\ m.number \in Nat /\ m.all \in Nat /\ m.started
          /\ manifest \in Manifests /\ manifest.status = "recording"
      BY <1>0, <2>1 DEF TInv, Typed, Begun, Counts, Memories, Running, Looping
    <3> QED
      BY <2>1, <3>1 DEF Counts, Manifests
  <2>2. CASE ~Counts
    BY <2>2
    DEF Thinking, Wait, OutageWait, StopAtTop, Live, Offline, Unresolved, StopResolving,
        AfterClosed, AfterTransient, AfterRefresh, AfterEnd, RequestStop, disk, TInv, Typed
  <2> QED
    BY <2>1, <2>2
<1>3. stop' \in BOOLEAN /\ proof' \in 0..Checks /\ waits' \in Nat
  <2>1. proof \in 0..Checks /\ Checks \in Nat /\ waits \in Nat /\ stop \in BOOLEAN
    BY LiveAssumption DEF TInv, Typed
  <2>2. Least(proof + 1, Checks) \in 0..Checks /\ Checks \in 0..Checks /\ 0 \in 0..Checks
    BY <2>1 DEF Least
  <2>3. waits + 1 \in Nat /\ Waited \in Nat
    BY <2>1 DEF Waited
  <2>4. stop' \in {stop, TRUE} /\ proof' \in {proof, 0, Checks, Least(proof + 1, Checks)}
        /\ waits' \in {waits, waits + 1, Waited}
    BY DEF Thinking, Wait, OutageWait, StopAtTop, Live, Offline, Unresolved, StopResolving,
           Counts, AfterClosed, AfterTransient, AfterRefresh, AfterEnd, RequestStop, history
  <2> QED
    BY <2>1, <2>2, <2>3, <2>4
<1>4. Typed'
  BY <1>0, <1>1, <1>2, <1>3 DEF TInv, Typed
<1>5. Begun'
  BY <1>0, <1>1, <1>2 DEF TInv, Begun, SameNumbers, Tally
<1>6. Tally'
  <2>1. /\ DOMAIN files' = 1..Count'
        /\ partial' # NoPart => pc' \in {"write", "idle"} /\ partial'.index = Count' + 1
    BY <1>0, <1>1 DEF TInv, Tally
  <2>2. /\ m'.next = m'.all + 1
        /\ pc' \in Open => writer'.start = m'.next /\ m'.next + writer'.retained = Count' + 1
        /\ pc' \in Running \ Open => m'.all = Count'
        /\ pc' \in Resolving => writer'.retained = 0
    BY <1>0, <1>1 DEF TInv, Tally, SameNumbers
  <2>3. pc' = "record" /\ m'.outcome \in {"offline", "live_changed", "resolver_error",
                                         "resolution_error"} => writer'.retained = 0
    BY <1>0, <1>1 DEF TInv, Tally
  <2> QED
    BY <2>1, <2>2, <2>3 DEF Tally
<1> QED
  BY <1>4, <1>5, <1>6 DEF TInv

-----------------------------------------------------------------------------
(* The other actions, one by one.                                           *)

LEMMA AttemptTInv ==
  ASSUME TInv, Attempt
  PROVE  TInv'
<1>0. /\ m \in Memories /\ m.number + 1 \in Nat /\ m.next \in Nat
      /\ Count' = Count
      /\ UNCHANGED <<files, partial, stop, manifest, log, torn, proof, waits, crashes, resumes>>
      /\ pc = "attempt" /\ pc' = "resolve" /\ writer' = Fresh(m.next)
      /\ m' = [m EXCEPT !.number = m.number + 1, !.tries = 0, !.fresh = FALSE]
  BY SameCount DEF TInv, Typed, Attempt, disk, history, Memories
<1>1. m' \in Memories /\ m'.next = m.next /\ m'.all = m.all /\ m'.started = m.started
  BY <1>0 DEF Memories
<1>2. writer' \in Writers /\ writer'.start = m.next /\ writer'.retained = 0
  BY <1>0 DEF Fresh, Writers
<1>3. /\ pc' \in Running /\ pc \in Running /\ pc \notin Open
      /\ pc' \notin {"pending", "write", "count", "resume", "idle", "record"}
  BY <1>0 DEF Running, Looping, Open, Resolving, Waiting
<1>4. Typed'
  BY <1>0, <1>1, <1>2, <1>3 DEF TInv, Typed
<1>5. Begun'
  BY <1>0, <1>1, <1>2, <1>3 DEF TInv, Begun
<1>6. partial = NoPart
  BY <1>0 DEF TInv, Tally
<1>7. m.next \in Nat /\ m.all \in Nat /\ m.next = Count + 1
  BY <1>0, <1>3 DEF TInv, Tally, Memories
<1>8. Tally'
  BY <1>0, <1>1, <1>2, <1>3, <1>6, <1>7 DEF TInv, Tally, Open
<1> QED
  BY <1>4, <1>5, <1>8 DEF TInv

LEMMA PrepareTInv ==
  ASSUME TInv, Prepare \/ AppendPending \/ RecordRoom
  PROVE  TInv'
<1>0. /\ m \in Memories /\ m.number \in Nat /\ m.next \in Nat /\ m.all \in Nat
      /\ Count' = Count /\ pc \in {"identify", "pending"} /\ pc' \in {"pending", "write"}
      /\ UNCHANGED <<files, partial, writer, stop, torn, proof, waits, crashes, resumes>>
      /\ m.room \in AnyRoom /\ m.pending \in Seq(Numbered)
      /\ log \in Seq(Numbered \cup Reserving)
  BY SameCount
  DEF TInv, Typed, Prepare, AppendPending, RecordRoom, written, history, Memories
<1>a. /\ pc \in Open /\ pc \in Running /\ pc' \in Open /\ pc' \in Running /\ pc \in Resolving
      /\ pc # "idle" /\ pc # "write"
  BY <1>0 DEF Running, Looping, Open, Resolving
<1>1. m' \in Memories /\ m'.next = m.next /\ m'.all = m.all /\ m'.started
  <2>1. CASE Prepare
    BY <1>0, <2>1 DEF Prepare, Memories
  <2>2. CASE AppendPending
    <3>1. Tail(m.pending) \in Seq(Numbered)
      BY <1>0, <2>2 DEF AppendPending
    <3> QED
      BY <1>0, <2>2, <3>1 DEF AppendPending, Memories, TInv, Begun
  <2>3. CASE RecordRoom
    BY <1>0, <2>3 DEF RecordRoom, TInv, Begun
  <2> QED
    BY <2>1, <2>2, <2>3
<1>2. manifest' \in Manifests /\ manifest'.status = "recording"
  <2>1. CASE Prepare
    BY <1>0, <2>1 DEF Prepare, Manifests, AnyRoom
  <2>2. CASE AppendPending \/ RecordRoom
    <3>1. manifest \in Manifests /\ manifest.status = "recording"
      BY <1>0, <1>a, <2>2 DEF AppendPending, RecordRoom, TInv, Begun
    <3> QED
      BY <1>0, <2>2, <3>1 DEF AppendPending, RecordRoom, Manifests
  <2> QED
    BY <2>1, <2>2
<1>3. log' \in Seq(Numbered \cup Reserving)
  <2>1. CASE AppendPending
    <3>1. Head(m.pending) \in Numbered
      BY <1>0, <2>1 DEF AppendPending
    <3> QED
      BY <1>0, <2>1, <3>1 DEF AppendPending, Append1
  <2> QED
    BY <1>0, <2>1 DEF Prepare, RecordRoom
<1>4. Typed'
  BY <1>0, <1>a, <1>1, <1>2, <1>3 DEF TInv, Typed
<1>5. Begun'
  BY <1>0, <1>a, <1>1, <1>2 DEF Begun
<1>6. pc' # "record" /\ partial = NoPart
  BY <1>0, <1>a DEF TInv, Tally
<1>7. writer.retained = 0 /\ writer.start = m.next /\ m.next + writer.retained = Count + 1
      /\ m.next = m.all + 1 /\ DOMAIN files = 1..Count
  BY <1>a DEF TInv, Tally
<1>8. Tally'
  BY <1>0, <1>a, <1>1, <1>6, <1>7 DEF Tally
<1> QED
  BY <1>4, <1>5, <1>8 DEF TInv

(* What closing the open part does to the numbers of the writer.            *)
LEMMA ClosedTally ==
  ASSUME TInv, files' = Closed, pc = "write"
  PROVE  /\ Count' = Count + (IF Kept THEN 1 ELSE 0) /\ Count' \in Nat
         /\ DOMAIN files' = 1..Count'
         /\ \A i \in DOMAIN files' : files'[i] \in Parts
         /\ Retained \in Nat /\ writer.start = m.next /\ m.next + Retained = Count' + 1
<1>0. /\ writer \in Writers /\ m \in Memories /\ Count \in Nat
      /\ partial \in Parts \cup {NoPart} /\ \A i \in DOMAIN files : files[i] \in Parts
      /\ DOMAIN files = 1..Count
      /\ writer.start = m.next /\ m.next + writer.retained = Count + 1
      /\ Kept => partial.index = Count + 1
  BY DEF TInv, Typed, Tally, Open, Kept
<1>1. writer.retained \in Nat /\ m.next \in Nat
  BY <1>0 DEF Writers, Memories
<1>2. /\ Count' = IF Kept THEN Count + 1 ELSE Count
      /\ DOMAIN files' = 1..Count'
      /\ \A i \in DOMAIN files' :
           files'[i] = IF Kept /\ i = Count + 1 THEN partial ELSE files[i]
  BY <1>0, ClosedIs
<1>3. \A i \in DOMAIN files' : files'[i] \in Parts
  BY <1>0, <1>2 DEF Kept
<1> QED
  BY <1>0, <1>1, <1>2, <1>3 DEF Retained

LEMMA TagTInv ==
  ASSUME TInv, Tag
  PROVE  TInv'
<1>0. /\ pc = "write" /\ pc' = pc /\ m' = m /\ m \in Memories /\ m.room \in AnyRoom
      /\ UNCHANGED <<stop, manifest, log, torn, proof, waits, crashes, resumes>>
      /\ writer \in Writers /\ partial \in Parts \cup {NoPart}
  BY DEF TInv, Typed, Tag, disk, history, Memories
<1>a. /\ pc \in Running /\ pc \in Open /\ pc \notin Resolving /\ pc # "idle" /\ pc # "record"
  BY <1>0 DEF Running, Looping, Open, Resolving
<1>b. ASSUME /\ Count' \in Nat /\ \A i \in DOMAIN files' : files'[i] \in Parts
             /\ writer' \in Writers /\ partial' \in Parts \cup {NoPart}
             /\ DOMAIN files' = 1..Count'
             /\ writer'.start = m.next /\ m.next + writer'.retained = Count' + 1
             /\ partial' # NoPart => partial'.index = Count' + 1
      PROVE  TInv'
  <2>1. Typed'
    BY <1>0, <1>b DEF TInv, Typed
  <2>2. m.started /\ manifest \in Manifests /\ manifest.status = "recording"
    BY <1>0, <1>a DEF TInv, Begun
  <2>3. Begun'
    BY <1>0, <2>2 DEF Begun
  <2>4. m.next = m.all + 1
    BY <1>a DEF TInv, Tally
  <2>5. Tally'
    BY <1>0, <1>a, <1>b, <2>4 DEF Tally
  <2> QED
    BY <2>1, <2>3, <2>5 DEF TInv
<1>1. ASSUME NEW c \in Configs, AvcHeader(c, m.room)
      PROVE  TInv'
  <2>1. /\ files' = Closed /\ partial' = Part(writer.start + Retained, c, m.room)
        /\ writer' = [writer EXCEPT !.retained = Retained, !.config = c]
    BY <1>1 DEF AvcHeader
  <2>2. /\ Count' \in Nat /\ \A i \in DOMAIN files' : files'[i] \in Parts
        /\ DOMAIN files' = 1..Count'
        /\ Retained \in Nat /\ writer.start = m.next /\ m.next + Retained = Count' + 1
    BY <1>0, <2>1, ClosedTally
  <2>3. /\ writer' \in Writers /\ writer'.start = writer.start /\ writer'.retained = Retained
    BY <1>0, <2>1, <2>2 DEF Writers
  <2>4. partial' \in Parts /\ partial'.index = writer.start + Retained
    BY <1>0, <2>1, <2>2 DEF Part, Parts
  <2> QED
    BY <1>b, <2>2, <2>3, <2>4
<1>2. ASSUME files' = files, writer' \in Writers, writer'.start = writer.start,
             writer'.retained = writer.retained, partial' \in Parts \cup {NoPart},
             partial' # NoPart => partial # NoPart /\ partial'.index = partial.index
      PROVE  TInv'
  <2>1. Count' = Count
    BY <1>2, SameCount
  <2> QED
    BY <1>0, <1>a, <1>b, <1>2, <2>1 DEF TInv, Typed, Tally
<1>3. ASSUME NEW c \in Configs, AvcRepeated(c)
      PROVE  TInv'
  <2>1. /\ partial \in Parts /\ partial # NoPart
        /\ partial' = [partial EXCEPT !.changed = @ \/ c # partial.config]
        /\ UNCHANGED <<files, writer>>
    BY <1>0, <1>3 DEF AvcRepeated, Kept
  <2>2. (partial.changed \/ c # partial.config) \in BOOLEAN
    BY <2>1 DEF Parts
  <2>3. partial' \in Parts /\ partial'.index = partial.index
    BY <2>1, <2>2 DEF Parts
  <2> QED
    BY <1>0, <1>2, <2>1, <2>3
<1>4. CASE AacHeader
  <2>1. /\ files' = files /\ writer' = [writer EXCEPT !.aac = TRUE]
        /\ partial' = IF Kept THEN [partial EXCEPT !.audible = TRUE] ELSE partial
    BY <1>4 DEF AacHeader
  <2>2. writer' \in Writers /\ writer'.start = writer.start /\ writer'.retained = writer.retained
    BY <1>0, <2>1 DEF Writers
  <2>3. /\ partial' \in Parts \cup {NoPart}
        /\ partial' # NoPart => partial # NoPart /\ partial'.index = partial.index
    BY <1>0, <2>1 DEF Kept, Parts
  <2> QED
    BY <1>2, <2>1, <2>2, <2>3
<1>5. ASSUME NEW kind \in {"key", "inter", "audio"}, Media(kind)
      PROVE  TInv'
  <2>1. /\ UNCHANGED <<files, writer>> /\ partial # NoPart /\ partial \in Parts
    BY <1>0, <1>5 DEF Media
  <2>2. partial' \in Parts /\ partial'.index = partial.index
    <3>1. CASE partial' = [partial EXCEPT !.deaf = @ \/ (kind = "audio" /\ ~partial.audible)]
      <4>1. (partial.deaf \/ (kind = "audio" /\ ~partial.audible)) \in BOOLEAN
        OBVIOUS
      <4> QED
        BY <2>1, <3>1, <4>1 DEF Parts
    <3>2. CASE partial' = [partial EXCEPT !.started = TRUE, !.keyed = kind = "key",
                                          !.audible = Carried,
                                          !.deaf = kind = "audio" /\ ~Carried]
      <4>1. Carried \in BOOLEAN /\ (kind = "audio" /\ ~Carried) \in BOOLEAN
        BY <1>0 DEF Carried, Writers
      <4> QED
        BY <2>1, <3>2, <4>1 DEF Parts
    <3> QED
      BY <1>5, <3>1, <3>2 DEF Media
  <2> QED
    BY <1>0, <1>2, <2>1, <2>2
<1> QED
  BY <1>1, <1>3, <1>4, <1>5 DEF Tag, Tags

Endings == {"closed", "network", "refresh", "capture_error", "interrupted"}

LEMMA EndsTInv ==
  ASSUME TInv, NEW outcome \in Endings, ConnectionEnds(outcome)
  PROVE  TInv'
<1>0. /\ pc = "write" /\ pc' = "record" /\ m' = [m EXCEPT !.outcome = outcome]
      /\ m \in Memories
      /\ UNCHANGED <<stop, manifest, log, torn, proof, waits, crashes, resumes>>
      /\ writer \in Writers
      /\ files' = Closed /\ partial' = NoPart /\ writer' = [writer EXCEPT !.retained = Retained]
  BY DEF TInv, Typed, ConnectionEnds, CloseWriter, Ends, disk, history
<1>1. /\ m' \in Memories /\ m'.next = m.next /\ m'.all = m.all /\ m'.started = m.started
      /\ m'.outcome = outcome
  BY <1>0 DEF Memories, Endings, Outcomes
<1>2. /\ Count' \in Nat /\ \A i \in DOMAIN files' : files'[i] \in Parts
      /\ DOMAIN files' = 1..Count'
      /\ Retained \in Nat /\ writer.start = m.next /\ m.next + Retained = Count' + 1
  BY <1>0, ClosedTally
<1>3. writer' \in Writers /\ writer'.start = writer.start /\ writer'.retained = Retained
  BY <1>0, <1>2 DEF Writers
<1>4. /\ pc \in Running /\ pc' \in Running /\ pc' \in Open /\ pc' \notin Resolving
      /\ outcome \notin {"offline", "live_changed", "resolver_error", "resolution_error"}
  BY <1>0 DEF Running, Looping, Open, Resolving, Endings
<1>5. Typed'
  BY <1>0, <1>1, <1>2, <1>3, <1>4 DEF TInv, Typed
<1>6. m.started /\ manifest \in Manifests /\ manifest.status = "recording" /\ m.next = m.all + 1
  BY <1>0, <1>4 DEF TInv, Begun, Tally
<1>7. Begun'
  BY <1>0, <1>1, <1>6 DEF Begun
<1>8. Tally'
  BY <1>0, <1>1, <1>2, <1>3, <1>4, <1>6 DEF Tally
<1> QED
  BY <1>5, <1>7, <1>8 DEF TInv

(* The number that the next process goes on from.                           *)
LEMMA LargestIs ==
  ASSUME NEW S \in SUBSET Nat, NEW n \in S \cup {0}, \A k \in S : k <= n
  PROVE  Largest(S) = n
<1>1. n \in Nat /\ \A k \in S \cup {0} : k \in Nat /\ k <= n
  OBVIOUS
<1>2. \A l \in S \cup {0} : (\A k \in S : k <= l) => l = n
  BY <1>1
<1> QED
  BY <1>1, <1>2 DEF Largest

LEMMA LoggedIs ==
  ASSUME log \in Seq(Numbered \cup Reserving), LogReads
  PROVE  /\ Logged \in Nat /\ \A i \in DOMAIN log : log[i].number <= Logged
         /\ log # <<>> => \E i \in DOMAIN log : log[i].number = Logged
         /\ log = <<>> => Logged = 0
<1> DEFINE S == {log[i].number : i \in DOMAIN log}
<1>1. \A i \in DOMAIN log : log[i].number \in Nat
  BY DEF Numbered, Reserving
<1>2. S \in SUBSET Nat
  BY <1>1
<1>3. CASE log = <<>>
  <2>1. S = {}
    BY <1>3
  <2>2. Largest(S) = 0
    BY <1>2, <2>1, LargestIs
  <2> QED
    BY <1>3, <2>2 DEF Logged
<1>4. CASE log # <<>>
  <2>1. Len(log) \in DOMAIN log /\ DOMAIN log = 1..Len(log) /\ Len(log) \in Nat
    BY <1>4
  <2>2. \A i \in DOMAIN log : log[i].number <= log[Len(log)].number
    <3> SUFFICES ASSUME NEW i \in DOMAIN log
                 PROVE  log[i].number <= log[Len(log)].number
      OBVIOUS
    <3>1. CASE i = Len(log)
      BY <1>1, <2>1, <3>1
    <3>2. CASE i # Len(log)
      <4>1. i \in 1..Len(log) - 1
        BY <2>1, <3>2
      <4>2. log[i].number < log[Len(log)].number \/ log[i].number = log[Len(log)].number
        BY <2>1, <4>1 DEF LogReads
      <4> QED
        BY <1>1, <2>1, <4>2
    <3> QED
      BY <3>1, <3>2
  <2>3. \A k \in S : k <= log[Len(log)].number
    BY <2>2
  <2>4. log[Len(log)].number \in S \cup {0}
    BY <2>1
  <2> HIDE DEF S
  <2>5. Largest(S) = log[Len(log)].number
    BY <1>2, <2>3, <2>4, LargestIs
  <2>6. Logged = log[Len(log)].number
    BY <2>5 DEF Logged, S
  <2> QED
    BY <1>1, <1>4, <2>1, <2>2, <2>6
<1> QED
  BY <1>3, <1>4

LEMMA ContinuesIs ==
  ASSUME TInv, Accepted, manifest # NoManifest
  PROVE  /\ Continues \in Nat \ {0} /\ Continues > manifest.connections
         /\ \A i \in DOMAIN log : log[i].number < Continues
         /\ manifest \in Manifests /\ manifest.connections \in Nat
<1>1. /\ log \in Seq(Numbered \cup Reserving) /\ LogReads
      /\ manifest \in Manifests /\ manifest.connections \in Nat
  BY DEF TInv, Typed, Accepted, Manifests
<1>2. Logged \in Nat /\ \A i \in DOMAIN log : log[i].number <= Logged
  BY <1>1, LoggedIs
<1> DEFINE c == manifest.connections
<1>3. {c, Logged} \in SUBSET Nat
  BY <1>1, <1>2
<1>4. \A i \in DOMAIN log : log[i].number \in Nat
  BY <1>1 DEF Numbered, Reserving
<1>5. CASE c <= Logged
  <2>1. Largest({c, Logged}) = Logged
    <3>1. Logged \in {c, Logged} \cup {0} /\ \A k \in {c, Logged} : k <= Logged
      BY <1>1, <1>2, <1>5
    <3> QED
      BY ONLY <1>3, <3>1, LargestIs
  <2>2. Continues = Logged + 1
    BY <2>1 DEF Continues
  <2> QED
    BY <1>1, <1>2, <1>4, <1>5, <2>2
<1>6. CASE Logged < c
  <2>1. Largest({c, Logged}) = c
    <3>1. c \in {c, Logged} \cup {0} /\ \A k \in {c, Logged} : k <= c
      BY <1>1, <1>2, <1>6
    <3> QED
      BY ONLY <1>3, <3>1, LargestIs
  <2>2. Continues = c + 1
    BY <2>1 DEF Continues
  <2> QED
    BY <1>1, <1>2, <1>4, <1>6, <2>2
<1> QED
  BY <1>1, <1>2, <1>5, <1>6

LEMMA RecordIs ==
  ASSUME TInv, pc = "record"
  PROVE  /\ ConnectionRecord \in Numbered
         /\ NextPart \in Nat /\ m.all + writer.retained \in Nat
         /\ NextPart = m.all + writer.retained + 1 /\ m.all + writer.retained = Count
<1>1. /\ m.number \in Nat /\ m.next \in Nat /\ m.all \in Nat /\ writer.retained \in Nat
      /\ Count \in Nat
  BY DEF TInv, Typed, Memories, Writers
<1>2. m.next = m.all + 1 /\ m.next + writer.retained = Count + 1
  BY DEF TInv, Tally, Running, Looping, Open
<1>3. HasMedia => m.next + writer.retained - 1 \in Nat
  BY <1>1, <1>2
<1> QED
  BY <1>1, <1>2, <1>3 DEF ConnectionRecord, Numbered, NextPart

LEMMA RecordTInv ==
  ASSUME TInv, Record
  PROVE  TInv'
<1>0. /\ pc = "record" /\ pc' \in {"count", "after"} /\ Count' = Count
      /\ UNCHANGED <<files, partial, writer, stop, manifest, torn, proof, waits, crashes, resumes>>
      /\ m \in Memories /\ m.pending \in Seq(Numbered)
      /\ log \in Seq(Numbered \cup Reserving)
      /\ pc' = "count" => m.started
  BY SameCount DEF TInv, Typed, Record, written, history, Memories
<1>1. /\ ConnectionRecord \in Numbered
      /\ NextPart \in Nat /\ m.all + writer.retained \in Nat
      /\ NextPart = m.all + writer.retained + 1 /\ m.all + writer.retained = Count
  BY <1>0, RecordIs
<1>2. log' \in Seq(Numbered \cup Reserving) /\ (~m.started => log' = log)
  BY <1>0, <1>1 DEF Record, Append1
<1> DEFINE p == IF m.started THEN m.pending ELSE Append(m.pending, ConnectionRecord)
           a == m.all + writer.retained
<1>3. p \in Seq(Numbered)
  BY <1>0, <1>1
<1>4. m' = [m EXCEPT !.all = a, !.next = NextPart, !.pending = p]
  BY DEF Record
<1>5. /\ m' \in Memories /\ m'.all = a /\ m'.next = a + 1 /\ m'.started = m.started
  <2>1. a \in Nat /\ NextPart \in Nat /\ NextPart = a + 1
    BY <1>1
  <2> HIDE DEF a, p
  <2> QED
    BY <1>0, <1>3, <1>4, <2>1 DEF Memories
<1>6. /\ pc \in Open /\ pc \in Running /\ pc' \in Running \ Open /\ pc' # "record"
      /\ pc' \notin Resolving /\ pc # "idle" /\ pc # "write"
      /\ pc' \notin {"pending", "write", "resume"}
  BY <1>0 DEF Running, Looping, Open, Resolving, Waiting
<1>7. Typed'
  BY <1>0, <1>2, <1>5, <1>6 DEF TInv, Typed
<1>8. Begun'
  <2>1. ~m.started => a = 0
    BY <1>0, <1>6 DEF TInv, Begun
  <2> QED
    BY <1>0, <1>2, <1>5, <1>6, <2>1 DEF TInv, Begun
<1>9. Tally'
  <2>1. partial = NoPart /\ DOMAIN files = 1..Count
    BY <1>6 DEF TInv, Tally
  <2> QED
    BY <1>0, <1>1, <1>5, <1>6, <2>1 DEF Tally
<1> QED
  BY <1>7, <1>8, <1>9 DEF TInv

LEMMA CountedTyped ==
  ASSUME Typed, manifest \in Manifests,
         NEW f \in {"running", "not_started"}, NEW s \in {"interrupted", "failed", "completed"}
  PROVE  /\ [Counted EXCEPT !.final = f] \in Manifests
         /\ [Counted EXCEPT !.final = f, !.status = s] \in Manifests
         /\ [Counted EXCEPT !.final = f].status = manifest.status
<1>1. m.number \in Nat /\ m.all \in Nat
  BY DEF Typed, Memories
<1> QED
  BY <1>1 DEF Counted, Manifests

LEMMA EndTInv ==
  ASSUME TInv, Finish \/ Encode \/ Fail
  PROVE  TInv'
<1>0. /\ pc \in {"finish", "encode", "fail"} /\ pc' \in {"encode", "idle"}
      /\ Count' = Count
      /\ UNCHANGED <<files, partial, writer, m, stop, log, torn, proof, waits, crashes, resumes>>
  BY SameCount DEF Finish, Encode, Fail, written, history
<1>1. /\ pc \in Running \ Open /\ pc' \notin Open /\ pc' \notin Resolving /\ pc # "idle"
      /\ pc' \in Running \cup {"idle"} /\ pc' # "record" /\ pc \notin {"write", "record"}
      /\ pc' \in Running => pc' = "encode"
      /\ pc' \notin {"pending", "write", "count", "resume"}
  BY <1>0 DEF Running, Looping, Open, Resolving, Waiting
<1>2. /\ m.started => manifest \in Manifests /\ manifest.status = "recording"
      /\ ~m.started => manifest = NoManifest /\ log = <<>> /\ DOMAIN files = {} /\ m.all = 0
      /\ manifest \in Manifests \cup {NoManifest}
  BY <1>1 DEF TInv, Begun, Typed
<1>3. /\ manifest' \in Manifests \cup {NoManifest}
      /\ pc' = "encode" => m.started /\ manifest' \in Manifests /\ manifest'.status = "recording"
  <2>1. CASE Finish
    <3>1. CASE m.all > 0
      <4>1. m.started /\ manifest' = [Counted EXCEPT !.final = "running"]
        BY <1>2, <2>1, <3>1 DEF Finish
      <4> QED
        BY <1>2, <4>1, CountedTyped DEF TInv
    <3>2. CASE ~(m.all > 0)
      <4>1. /\ pc' = "idle"
            /\ \/ ~m.started /\ manifest' = manifest
               \/ /\ m.started
                  /\ \E s \in {"interrupted", "completed"} :
                       manifest' = [Counted EXCEPT !.final = "not_started", !.status = s]
        BY <2>1, <3>2 DEF Finish
      <4> QED
        BY <1>2, <4>1, CountedTyped DEF TInv
    <3> QED
      BY <3>1, <3>2
  <2>2. CASE Encode
    <3>1. m.started
      BY <2>2 DEF Encode, TInv, Begun
    <3> QED
      BY <1>2, <2>2, <3>1 DEF Encode, Manifests
  <2>3. CASE Fail
    <3>1. CASE m.started
      BY <1>2, <2>3, <3>1, CountedTyped DEF Fail, TInv
    <3>2. CASE ~m.started
      BY <1>2, <2>3, <3>2 DEF Fail
    <3> QED
      BY <2>3, <3>1, <3>2 DEF Fail
  <2> QED
    BY <2>1, <2>2, <2>3
<1>4. Typed'
  BY <1>0, <1>1, <1>3 DEF TInv, Typed
<1>5. Begun'
  BY <1>0, <1>1, <1>2, <1>3 DEF Begun
<1>6. /\ partial = NoPart /\ DOMAIN files = 1..Count /\ m.next = m.all + 1 /\ m.all = Count
  BY <1>1 DEF TInv, Tally
<1>7. Tally'
  BY <1>0, <1>1, <1>6 DEF Tally
<1> QED
  BY <1>4, <1>5, <1>7 DEF TInv

LEMMA ReserveTInv ==
  ASSUME TInv, ReserveConnection
  PROVE  TInv'
<1>0. /\ pc = "resume" /\ pc' = "top" /\ Count' = Count
      /\ UNCHANGED <<files, partial, writer, m, stop, manifest, torn, proof, waits,
                     crashes, resumes>>
      /\ log \in Seq(Numbered \cup Reserving) /\ m.number + 1 \in Nat /\ m.next \in Nat
  BY SameCount DEF TInv, Typed, ReserveConnection, written, history, Memories
<1>1. [kind |-> "resume", number |-> m.number + 1, next |-> m.next] \in Reserving
  BY <1>0 DEF Reserving
<1>2. log' \in Seq(Numbered \cup Reserving)
  BY <1>0, <1>1 DEF ReserveConnection, Append1
<1>3. /\ pc \in Running \ Open /\ pc' \in Running \ Open /\ pc' \notin Resolving
  BY <1>0 DEF Running, Looping, Open, Resolving, Waiting
<1>4. m.started /\ manifest \in Manifests /\ manifest.status = "recording"
  BY <1>0, <1>3 DEF TInv, Begun
<1>5. Typed'
  BY <1>0, <1>2, <1>3 DEF TInv, Typed
<1>6. Begun'
  BY <1>0, <1>3, <1>4 DEF Begun
<1>7. /\ partial = NoPart /\ DOMAIN files = 1..Count /\ m.next = m.all + 1 /\ m.all = Count
  BY <1>0, <1>3 DEF TInv, Tally
<1>8. Tally'
  BY <1>0, <1>3, <1>7 DEF Tally
<1> QED
  BY <1>5, <1>6, <1>8 DEF TInv

LEMMA IdleNot == "idle" \notin Running
  BY DEF Running, Looping, Open, Resolving, Waiting

LEMMA CrashTInv ==
  ASSUME TInv, Crash
  PROVE  TInv'
<1>0. /\ pc' = "idle" /\ Count' = Count /\ Count \in Nat /\ crashes' \in Nat
      /\ UNCHANGED <<files, partial, manifest, log, proof, waits, resumes>>
      /\ stop' = FALSE /\ torn' \in BOOLEAN
      /\ m' = Memory(0, NoRoom, FALSE) /\ writer' = Fresh(1)
  BY SameCount DEF TInv, Typed, Crash
<1>1. m' \in Memories
  BY <1>0, MemoryTyped DEF AnyRoom
<1>2. writer' \in Writers
  BY <1>0 DEF Fresh, Writers
<1>3. Typed'
  BY <1>0, <1>1, <1>2 DEF TInv, Typed
<1>4. Begun'
  BY <1>0, IdleNot DEF Begun
<1>5. /\ DOMAIN files = 1..Count
      /\ partial # NoPart => partial.index = Count + 1
  BY DEF TInv, Tally
<1>6. Tally'
  BY <1>0, <1>5, IdleNot DEF Tally, Open, Resolving
<1> QED
  BY <1>3, <1>4, <1>6 DEF TInv

LEMMA RecoverTInv ==
  ASSUME TInv, RecoverPartial
  PROVE  TInv'
<1>0. /\ pc = "idle" /\ pc' = pc /\ partial' = NoPart /\ files' = Closed /\ Kept
      /\ UNCHANGED <<writer, m, stop, log, torn, proof, waits, crashes, resumes>>
      /\ manifest \in Manifests /\ manifest' = [manifest EXCEPT !.parts = Count + 1]
      /\ Count \in Nat /\ DOMAIN files = 1..Count /\ partial.index = Count + 1
      /\ partial \in Parts
  BY DEF TInv, Typed, Tally, RecoverPartial, history, Kept
<1>1. /\ Count' = Count + 1 /\ DOMAIN files' = 1..Count'
      /\ \A i \in DOMAIN files' : files'[i] = IF i = Count + 1 THEN partial ELSE files[i]
  BY <1>0, ClosedIs
<1>2. \A i \in DOMAIN files' : files'[i] \in Parts
  BY <1>0, <1>1 DEF TInv, Typed
<1>3. manifest' \in Manifests
  BY <1>0 DEF Manifests
<1>4. Typed'
  BY <1>0, <1>1, <1>2, <1>3 DEF TInv, Typed
<1>5. Begun'
  BY <1>0, IdleNot DEF Begun
<1>6. Tally'
  BY <1>0, <1>1, IdleNot DEF Tally, Open, Resolving
<1> QED
  BY <1>4, <1>5, <1>6 DEF TInv

LEMMA ResumeIs ==
  ASSUME TInv, Resume
  PROVE  /\ pc = "idle" /\ pc' = "resume" /\ partial = NoPart /\ Count' = Count
         /\ Continues \in Nat \ {0} /\ Continues - 1 \in Nat /\ Continues > manifest.connections
         /\ \A i \in DOMAIN log : log[i].number < Continues
         /\ manifest \in Manifests /\ manifest' \in Manifests
         /\ manifest'.status = "recording" /\ manifest'.parts = Count
         /\ manifest'.room = manifest.room /\ manifest.room \in AnyRoom
         /\ m' \in Memories
         /\ m' = Memory(Continues - 1, manifest.room, TRUE)
<1>0. /\ manifest # NoManifest /\ Accepted /\ Discoverable /\ pc = "idle" /\ pc' = "resume"
      /\ m' = Memory(Continues - 1, manifest.room, TRUE)
      /\ manifest' = [manifest EXCEPT !.status = "recording", !.final = "pending",
                    !.connections = Continues, !.parts = Count]
      /\ Count' = Count /\ Count \in Nat
  BY SameCount DEF Resume, written, TInv, Typed
<1>1. /\ Continues \in Nat \ {0} /\ Continues > manifest.connections
      /\ \A i \in DOMAIN log : log[i].number < Continues
      /\ manifest \in Manifests
  BY <1>0, ContinuesIs
<1>2. /\ Continues - 1 \in Nat /\ manifest.room \in AnyRoom
  BY <1>1 DEF Manifests
<1>3. /\ manifest' \in Manifests /\ manifest'.status = "recording" /\ manifest'.parts = Count
      /\ manifest'.room = manifest.room
  BY <1>0, <1>1 DEF Manifests
<1>4. m' \in Memories
  BY <1>0, <1>2, MemoryTyped
<1> QED
  BY <1>0, <1>1, <1>2, <1>3, <1>4 DEF Discoverable

LEMMA ResumeTInv ==
  ASSUME TInv, Resume
  PROVE  TInv'
<1>0. /\ pc' = "resume" /\ partial = NoPart /\ Count' = Count /\ manifest' \in Manifests
      /\ manifest'.status = "recording" /\ m' \in Memories
  BY ResumeIs
<1>a. m' = Memory(Continues - 1, manifest.room, TRUE)
  BY ResumeIs
<1>1. /\ stop' = FALSE /\ waits' = 0 /\ proof' = 0 /\ resumes' = resumes + 1
      /\ UNCHANGED <<files, partial, writer, log, torn, crashes>>
  BY DEF Resume, written
<1>2. /\ m'.all = Count /\ m'.next = Count + 1 /\ m'.started
  BY <1>a DEF Memory
<1>3. pc' \in Running \ Open /\ pc' \notin Resolving
  BY <1>0 DEF Running, Looping, Open, Resolving, Waiting
<1>4. 0 \in 0..Checks
  BY LiveAssumption
<1>5. Typed'
  <2>1. /\ writer \in Writers /\ log \in Seq(Numbered \cup Reserving) /\ torn \in BOOLEAN
        /\ crashes \in Nat /\ resumes + 1 \in Nat /\ Count \in Nat
        /\ \A i \in DOMAIN files : files[i] \in Parts
    BY DEF TInv, Typed
  <2>2. pc' \in {"idle"} \cup Running /\ partial' \in Parts \cup {NoPart}
    BY <1>0, <1>1, <1>3
  <2>3. stop' \in BOOLEAN /\ proof' \in 0..Checks /\ waits' \in Nat
    BY <1>1, <1>4
  <2> QED
    BY <1>0, <1>1, <2>1, <2>2, <2>3 DEF Typed
<1>6. Begun'
  BY <1>0, <1>2, <1>3 DEF Begun
<1>7. Tally'
  BY <1>0, <1>1, <1>2, <1>3 DEF TInv, Tally
<1> QED
  BY <1>5, <1>6, <1>7 DEF TInv

LEMMA InitTInv ==
  ASSUME Init
  PROVE  TInv /\ Count = 0
<1>1. /\ DOMAIN files = {} /\ partial = NoPart /\ writer = Fresh(1)
      /\ pc = "top" /\ m = Memory(0, NoRoom, FALSE) /\ stop = FALSE
      /\ manifest = NoManifest /\ log = <<>> /\ torn = FALSE
      /\ proof = 0 /\ waits = 0 /\ crashes = 0 /\ resumes = 0
  BY DEF Init, WriterInit
<1>2. Count = 0
  BY <1>1, NoFilesCount DEF Count
<1>3. m \in Memories
  BY <1>1, <1>2, MemoryTyped DEF AnyRoom
<1>4. writer \in Writers /\ 0 \in 0..Checks /\ log \in Seq(Numbered \cup Reserving)
  BY <1>1, LiveAssumption DEF Fresh, Writers
<1>5. pc \in Running \ Open /\ pc \notin Resolving /\ pc # "record"
  BY <1>1 DEF Running, Looping, Open, Resolving, Waiting
<1>6. Typed
  BY <1>1, <1>2, <1>3, <1>4, <1>5 DEF Typed
<1>7. ~m.started /\ m.all = 0 /\ m.next = 1
  BY <1>1, <1>2 DEF Memory
<1>8. Begun
  BY <1>1, <1>5, <1>7 DEF Begun
<1>9. Tally
  <2>1. 1..0 = {}
    OBVIOUS
  <2>2. DOMAIN files = 1..Count
    BY <1>1, <1>2, <2>1
  <2>3. m.next = m.all + 1 /\ m.all = Count
    BY <1>2, <1>7
  <2>4. partial = NoPart
    BY <1>1
  <2> QED
    BY <1>5, <2>2, <2>3, <2>4 DEF Tally
<1> QED
  BY <1>2, <1>6, <1>8, <1>9 DEF TInv

LEMMA SameTInv ==
  ASSUME TInv, UNCHANGED vars
  PROVE  TInv'
  BY DEF vars, TInv, Typed, Begun, Tally, Count

LEMMA Steps ==
  ASSUME [Next]_vars
  PROVE  \/ Thinking \/ Attempt \/ Prepare \/ AppendPending \/ RecordRoom \/ Tag
         \/ \E outcome \in Endings : ConnectionEnds(outcome)
         \/ Record \/ Finish \/ Encode \/ Fail \/ Crash
         \/ RecoverPartial \/ Resume \/ ReserveConnection \/ UNCHANGED vars
  BY DEF Next, Thinking, Endings

LEMMA StepTInv ==
  ASSUME TInv, [Next]_vars
  PROVE  TInv'
  BY Steps, ThinkingTInv, AttemptTInv, PrepareTInv, TagTInv, EndsTInv, RecordTInv, EndTInv,
     CrashTInv, RecoverTInv, ResumeTInv, ReserveTInv, SameTInv

(* What the capture carries keeps its shape, and its numbers agree with the *)
(* directory: the parts of a session are numbered from one without a gap,   *)
(* the next number of a process (live.py) is the first free one, also after *)
(* a crash, a recovered partial and a resume, and a partial left behind has *)
(* the next number.                                                         *)
THEOREM TypeCorrect == Spec => []TInv
<1>1. Init => TInv
  BY InitTInv
<1>2. TInv /\ [Next]_vars => TInv'
  BY StepTInv
<1> QED
  BY <1>1, <1>2, PTL DEF Spec

-----------------------------------------------------------------------------
(* PatienceBounded.  Outside an outage nothing has been waited since the    *)
(* last media, and inside one the capture's own clock shows what has; a     *)
(* refresh is only asked for by a connection that retained nothing.         *)
Patience ==
  /\ waits <= Window
  /\ pc \in Looping =>
       /\ waits = IF m.outage THEN m.elapsed ELSE 0
       /\ m.outage => m.saved # NoRoom /\ m.elapsed < Window

Recorded == {"record", "count", "after"}

Unfed ==
  /\ pc = "write" /\ writer.config = NoConfig => writer.retained = 0 /\ partial = NoPart
  /\ pc \in Recorded /\ m.outcome = "refresh" => writer.retained = 0

LEMMA UnfedStep ==
  ASSUME TInv, TInv', Unfed, [Next]_vars
  PROVE  Unfed'
<1>0. m \in Memories /\ writer \in Writers
  BY DEF TInv, Typed
<1>1. CASE Thinking
  <2>1. /\ UNCHANGED <<partial, writer>>
        /\ pc' \in {"write"} \cup Recorded =>
             pc' = pc \/ pc' = "record" \/ (pc' = "after" /\ pc = "count")
    BY <1>1, ThinkingMoves DEF TInv, Moves, Recorded
  <2>2. pc' \in Recorded /\ pc \notin Recorded => pc \in Resolving
    BY <1>1, ThinkingMoves DEF TInv, Moves, Recorded, Resolving
  <2>3. pc \in Resolving => writer.retained = 0
    BY DEF TInv, Tally
  <2>4. pc \in Recorded => m'.outcome = m.outcome \/ pc' \notin Recorded
    BY <1>0, <1>1
    DEF Thinking, Wait, OutageWait, StopAtTop, Live, Offline, Unresolved, StopResolving,
        Counts, AfterClosed, AfterTransient, AfterRefresh, AfterEnd, RequestStop, Recorded
  <2>5. pc \notin Recorded /\ pc' \in Recorded => writer'.retained = 0
    BY <2>1, <2>2, <2>3
  <2>6. pc' = "write" => pc = "write"
    BY <2>1
  <2> QED
    BY <2>1, <2>4, <2>5, <2>6 DEF Unfed
<1>2. CASE Prepare \/ AppendPending \/ RecordRoom
  <2>1. /\ pc \in Resolving /\ pc' \notin Recorded /\ UNCHANGED <<partial, writer>>
    BY <1>2 DEF Prepare, AppendPending, RecordRoom, written, Resolving, Recorded
  <2>2. writer.retained = 0 /\ partial = NoPart
    BY <2>1 DEF TInv, Tally, Resolving
  <2> QED
    BY <2>1, <2>2 DEF Unfed
<1>3. CASE Tag
  <2>1. pc = "write" /\ pc' = "write"
    BY <1>3 DEF Tag
  <2>2. ASSUME NEW c \in Configs, AvcHeader(c, m.room)
        PROVE  writer'.config # NoConfig
    BY <1>0, <2>2, WriterAssumption DEF AvcHeader, Writers
  <2>3. CASE /\ writer'.config = writer.config /\ writer'.retained = writer.retained
             /\ partial = NoPart => partial' = NoPart
    BY <2>1, <2>3 DEF Unfed, Recorded
  <2>4. ASSUME NEW c \in Configs, AvcRepeated(c)
        PROVE  Unfed'
    BY <2>3, <2>4 DEF AvcRepeated, Kept
  <2>5. CASE AacHeader
    BY <1>0, <2>3, <2>5 DEF AacHeader, Kept, Writers
  <2>6. ASSUME NEW kind \in {"key", "inter", "audio"}, Media(kind)
        PROVE  Unfed'
    BY <2>3, <2>6 DEF Media
  <2> QED
    BY <1>3, <2>1, <2>2, <2>4, <2>5, <2>6 DEF Tag, Tags, Unfed, Recorded
<1>4. ASSUME NEW outcome \in Endings, ConnectionEnds(outcome)
      PROVE  Unfed'
  <2>1. /\ pc = "write" /\ pc' = "record" /\ m'.outcome = outcome
        /\ outcome = "refresh" => writer.config = NoConfig
        /\ writer' = [writer EXCEPT !.retained = Retained]
    BY <1>0, <1>4 DEF ConnectionEnds, Ends, CloseWriter, Memories
  <2>2. outcome = "refresh" => writer.retained = 0 /\ partial = NoPart
    BY <2>1 DEF Unfed
  <2>3. outcome = "refresh" => Retained = 0
    BY <2>2 DEF Retained, Kept
  <2>4. writer'.retained = Retained
    BY <1>0, <2>1 DEF Writers
  <2> QED
    BY <2>1, <2>3, <2>4 DEF Unfed
<1>5. CASE Record
  <2>1. /\ pc \in Recorded /\ pc' \in Recorded /\ pc' # "write" /\ m'.outcome = m.outcome
        /\ UNCHANGED writer
    BY <1>0, <1>5 DEF Record, Recorded, Memories, written
  <2> QED
    BY <2>1 DEF Unfed
<1>6. CASE Attempt \/ Finish \/ Encode \/ Fail \/ Crash \/ RecoverPartial \/ Resume
           \/ ReserveConnection
  <2>1. pc' \notin {"write"} \cup Recorded
    BY <1>6 DEF Attempt, Finish, Encode, Fail, Crash, RecoverPartial, Resume,
                ReserveConnection, Recorded
  <2> QED
    BY <2>1 DEF Unfed
<1>7. CASE UNCHANGED vars
  BY <1>7 DEF vars, Unfed
<1> QED
  BY <1>1, <1>2, <1>3, <1>4, <1>5, <1>6, <1>7, Steps

(* An action that neither waits nor touches the capture's clock.            *)
Calm ==
  /\ waits' = waits
  /\ m'.outage <=> m.outage
  /\ m'.elapsed = m.elapsed
  /\ m'.saved = m.saved \/ m'.saved # NoRoom
  /\ pc \in Looping

LEMMA CalmPatience ==
  ASSUME Patience, Calm
  PROVE  Patience'
  BY DEF Patience, Calm

LEMMA CalmSteps ==
  ASSUME TInv, \/ Wait \/ Attempt \/ (\E room \in Rooms : Live(room)) \/ Offline \/ Unresolved
               \/ StopResolving \/ Prepare \/ AppendPending \/ RecordRoom \/ Tag
               \/ (\E outcome \in Endings : ConnectionEnds(outcome))
               \/ Record \/ Counts \/ ReserveConnection \/ (RequestStop /\ pc \in Looping)
  PROVE  Calm
<1>0. m \in Memories
  BY DEF TInv, Typed
<1>a. ASSUME NEW o, m' = [m EXCEPT !.outcome = o], waits' = waits, pc \in Looping
      PROVE  Calm
  BY <1>0, <1>a DEF Calm, Memories
<1>1. CASE Wait \/ RecordRoom \/ Tag \/ Counts \/ ReserveConnection
           \/ (RequestStop /\ pc \in Looping)
  BY <1>1 DEF Wait, RecordRoom, Tag, Counts, ReserveConnection, RequestStop, history, Calm,
              Looping, Open, Resolving, Waiting
<1>2. CASE Attempt \/ Prepare \/ AppendPending \/ Record
  BY <1>0, <1>2 DEF Attempt, Prepare, AppendPending, Record, history, Calm, Memories,
                    Looping, Open, Resolving, Waiting
<1>3. ASSUME NEW room \in Rooms, Live(room)
      PROVE  Calm
  <2>1. waits' = waits /\ pc \in Looping
    BY <1>3 DEF Live, Looping, Open, Resolving
  <2>2. CASE m' = [m EXCEPT !.room = room, !.saved = IF @ = NoRoom THEN room ELSE @]
    <3>1. room # NoRoom
      BY LiveAssumption
    <3> QED
      BY <1>0, <2>1, <2>2, <3>1 DEF Calm, Memories
  <2> QED
    BY <1>3, <1>a, <2>1, <2>2 DEF Live, Ends
<1>4. CASE Offline
  <2>1. waits' = waits /\ pc \in Looping
    BY <1>4 DEF Offline, Looping, Open, Resolving
  <2>2. CASE m' = [m EXCEPT !.tries = @ + 1]
    BY <1>0, <2>1, <2>2 DEF Calm, Memories
  <2> QED
    BY <1>4, <1>a, <2>1, <2>2 DEF Offline, Ends
<1>5. CASE Unresolved \/ StopResolving \/ \E outcome \in Endings : ConnectionEnds(outcome)
  BY <1>5, <1>a DEF Unresolved, StopResolving, ConnectionEnds, Ends, history,
                    Looping, Open, Resolving
<1> QED
  BY <1>1, <1>2, <1>3, <1>4, <1>5

LEMMA PatienceStep ==
  ASSUME TInv, Unfed, Patience, [Next]_vars
  PROVE  Patience'
<1>0. /\ m \in Memories /\ waits \in Nat /\ Window \in Nat \ {0}
      /\ m.elapsed \in Nat /\ m.outage \in BOOLEAN
  BY LiveAssumption DEF TInv, Typed, Memories
<1>a. ASSUME pc' \notin Looping, waits' = waits
      PROVE  Patience'
  BY <1>a DEF Patience
<1>1. CASE \/ Wait \/ Attempt \/ (\E room \in Rooms : Live(room)) \/ Offline \/ Unresolved
           \/ StopResolving \/ Prepare \/ AppendPending \/ RecordRoom \/ Tag
           \/ (\E outcome \in Endings : ConnectionEnds(outcome))
           \/ Record \/ Counts \/ ReserveConnection \/ (RequestStop /\ pc \in Looping)
  BY <1>1, CalmSteps, CalmPatience
<1>2. CASE RequestStop /\ pc \notin Looping
  BY <1>2, <1>a DEF RequestStop, history
<1>3. CASE OutageWait
  <2>1. /\ waits' = waits + 1 /\ waits = m.elapsed /\ m.saved # NoRoom /\ m.elapsed < Window
        /\ m.outage
    BY <1>3 DEF OutageWait, Patience, Looping, Waiting
  <2>2. CASE m.elapsed + 1 < Window
    <3>1. m' = [m EXCEPT !.elapsed = @ + 1]
      BY <1>0, <1>3, <2>2 DEF OutageWait
    <3>2. m'.elapsed = m.elapsed + 1 /\ m'.outage /\ m'.saved = m.saved
      BY <1>0, <2>1, <3>1 DEF Memories
    <3> QED
      BY <1>0, <2>1, <2>2, <3>2 DEF Patience
  <2>3. CASE ~(m.elapsed + 1 < Window)
    <3>1. pc' = "fail"
      BY <1>3, <2>3 DEF OutageWait
    <3> QED
      BY <1>0, <2>1, <3>1 DEF Patience, Looping, Open, Resolving, Waiting
  <2> QED
    BY <2>2, <2>3
<1>4. CASE StopAtTop \/ AfterEnd \/ Finish \/ Encode \/ Fail \/ Crash \/ RecoverPartial
  BY <1>4, <1>a DEF StopAtTop, AfterEnd, Finish, Encode, Fail, Crash, RecoverPartial, history,
                    Looping, Open, Resolving, Waiting
<1>5. CASE AfterClosed \/ AfterTransient \/ AfterRefresh
  <2>1. /\ waits' = Waited /\ pc = "after" /\ pc \in Looping
    BY <1>5 DEF AfterClosed, AfterTransient, AfterRefresh, Looping
  <2>2. waits = (IF m.outage THEN m.elapsed ELSE 0) /\ waits <= Window
        /\ m.outage => m.saved # NoRoom /\ m.elapsed < Window
    BY <2>1 DEF Patience
  <2>3. CASE AfterClosed
    <3>1. /\ m'.outage <=> (m.outage /\ ~HasMedia)
          /\ m'.elapsed = m.elapsed /\ m'.saved = m.saved
      BY <1>0, <2>3 DEF AfterClosed, Memories
    <3> QED
      BY <1>0, <2>1, <2>2, <3>1 DEF Patience, Waited
  <2>4. CASE AfterTransient
    <3>1. /\ m'.outage <=> m.saved # NoRoom
          /\ m'.elapsed = Elapsed /\ m'.saved = m.saved
      BY <1>0, <2>4 DEF AfterTransient, Memories
    <3> QED
      BY <1>0, <2>1, <2>2, <3>1 DEF Patience, Waited, Elapsed
  <2>5. CASE AfterRefresh
    <3>1. /\ m'.outage <=> (m.outage /\ m.all > 0)
          /\ m'.elapsed = m.elapsed /\ m'.saved = m.saved
      BY <1>0, <2>5 DEF AfterRefresh, Memories
    <3>2. ~HasMedia
      <4>1. writer.retained = 0
        BY <2>5 DEF AfterRefresh, Unfed, Recorded
      <4> QED
        BY <4>1 DEF HasMedia
    <3>3. m.all = 0 => pc' = "fail"
      BY <2>5 DEF AfterRefresh
    <3>4. m.all \in Nat /\ "fail" \notin Looping
      BY <1>0 DEF Memories, Looping, Open, Resolving, Waiting
    <3> QED
      BY <1>0, <2>1, <2>2, <3>1, <3>2, <3>3, <3>4 DEF Patience, Waited
  <2> QED
    BY <1>5, <2>3, <2>4, <2>5
<1>6. CASE Resume
  <2>1. waits' = 0 /\ m' = Memory(Continues - 1, manifest.room, TRUE)
    BY <1>6 DEF Resume
  <2>2. m'.outage = FALSE
    BY <2>1 DEF Memory
  <2>3. 0 <= Window
    BY <1>0
  <2> QED
    BY <2>1, <2>2, <2>3 DEF Patience
<1>7. CASE UNCHANGED vars
  BY <1>7 DEF vars, Patience
<1> QED
  BY <1>1, <1>2, <1>3, <1>4, <1>5, <1>6, <1>7, Steps DEF Thinking

(* However failures, empty connections and resolutions of the room          *)
(* alternate, a capture waits out at most one recovery window (live.py,     *)
(* live_resume.py) with no media retained in between, for every window and  *)
(* every pair of failure limits.                                            *)
THEOREM BoundedPatience == Spec => []PatienceBounded
<1>1. Init => TInv /\ Unfed /\ Patience
  <2> SUFFICES ASSUME Init PROVE Unfed /\ Patience
    BY InitTInv
  <2>1. pc = "top" /\ waits = 0 /\ m = Memory(0, NoRoom, FALSE)
    BY DEF Init
  <2>2. m.outage = FALSE
    BY <2>1 DEF Memory
  <2>3. 0 <= Window
    BY LiveAssumption
  <2>4. Unfed
    BY <2>1 DEF Unfed, Recorded
  <2> QED
    BY <2>1, <2>2, <2>3, <2>4 DEF Patience
<1>2. TInv /\ Unfed /\ Patience /\ [Next]_vars => (TInv /\ Unfed /\ Patience)'
  BY StepTInv, UnfedStep, PatienceStep
<1>3. Patience => PatienceBounded
  BY DEF Patience, PatienceBounded
<1> QED
  BY <1>1, <1>2, <1>3, PTL DEF Spec

-----------------------------------------------------------------------------
(* EndProven.  The offline answers the capture counts are no more than it   *)
(* received in a row, and it reaches its end with what it counted.          *)
Proving ==
  /\ pc \in {"resolve", "confirm"} => m.tries <= proof /\ m.tries < Checks
  /\ pc \in Recorded /\ m.outcome = "live_changed" => proof = Checks
  /\ pc \in Recorded /\ m.outcome = "offline" => m.all = 0 \/ proof = Checks
  /\ pc \in {"finish", "encode"} => Interrupted \/ m.all = 0 \/ proof = Checks

LEMMA ProvingAnswer ==
  ASSUME TInv, Proving, (\E room \in Rooms : Live(room)) \/ Offline
  PROVE  Proving'
<1>0. /\ m \in Memories /\ m.tries \in Nat /\ m.all \in Nat /\ proof \in 0..Checks
      /\ Checks \in Nat \ {0} /\ pc \in {"resolve", "confirm"}
      /\ m.tries <= proof /\ m.tries < Checks
  BY LiveAssumption DEF TInv, Typed, Memories, Proving, Live, Offline
<1>1. ASSUME NEW room \in Rooms, Live(room)
      PROVE  Proving'
  <2>1. \/ Ends("live_changed") /\ proof' = Checks
        \/ pc' = "identify"
    BY <1>1 DEF Live
  <2>2. CASE Ends("live_changed") /\ proof' = Checks
    <3>1. m'.outcome = "live_changed" /\ pc' = "record"
      BY <1>0, <2>2 DEF Ends, Memories
    <3> QED
      BY <2>2, <3>1 DEF Proving
  <2>3. CASE pc' = "identify"
    BY <2>3 DEF Proving, Recorded
  <2> QED
    BY <2>1, <2>2, <2>3
<1>2. CASE Offline
  <2>1. proof' = Least(proof + 1, Checks)
    BY <1>2 DEF Offline
  <2>2. m.tries + 1 <= proof' /\ (m.tries + 1 = Checks => proof' = Checks)
    BY <1>0, <2>1 DEF Least
  <2>3. CASE Confirmed /\ Ends("offline")
    <3>1. m'.outcome = "offline" /\ pc' = "record" /\ m'.all = m.all
      BY <1>0, <2>3 DEF Ends, Memories
    <3>2. m.all = 0 \/ proof' = Checks
      BY <2>2, <2>3 DEF Confirmed
    <3> QED
      BY <3>1, <3>2 DEF Proving
  <2>4. CASE ~Confirmed /\ m' = [m EXCEPT !.tries = @ + 1] /\ pc' = "confirm"
    <3>1. m'.tries = m.tries + 1
      BY <1>0, <2>4 DEF Memories
    <3>2. m.tries + 1 < Checks
      BY <1>0, <2>4 DEF Confirmed
    <3> QED
      BY <2>2, <2>4, <3>1, <3>2 DEF Proving, Recorded
  <2> QED
    BY <1>2, <2>3, <2>4 DEF Offline
<1> QED
  BY <1>1, <1>2

LEMMA ProvingStep ==
  ASSUME TInv, Proving, [Next]_vars
  PROVE  Proving'
<1>0. /\ m \in Memories /\ m.all \in Nat /\ proof \in 0..Checks /\ Checks \in Nat \ {0}
  BY LiveAssumption DEF TInv, Typed, Memories
<1>1. CASE (\E room \in Rooms : Live(room)) \/ Offline
  BY <1>1, ProvingAnswer
<1>2. CASE Wait \/ OutageWait \/ AfterClosed \/ AfterTransient \/ AfterRefresh
           \/ Prepare \/ AppendPending \/ RecordRoom \/ Tag
           \/ Fail \/ Crash \/ RecoverPartial \/ Resume \/ ReserveConnection
  <2>1. pc' \notin {"resolve", "confirm", "finish", "encode"} \cup Recorded
    BY <1>2 DEF Wait, OutageWait, AfterClosed, AfterTransient, AfterRefresh, Prepare,
                AppendPending, RecordRoom, Tag, Fail, Crash, RecoverPartial, Resume,
                ReserveConnection, Recorded
  <2> QED
    BY <2>1 DEF Proving
<1>3. CASE StopAtTop
  <2>1. pc' = "finish" /\ m'.outcome = "interrupted"
    BY <1>0, <1>3 DEF StopAtTop, Memories
  <2> QED
    BY <2>1 DEF Proving, Interrupted, Recorded
<1>4. CASE Attempt
  <2>1. pc' = "resolve" /\ m'.tries = 0 /\ proof' = proof
    BY <1>0, <1>4 DEF Attempt, history, Memories
  <2> QED
    BY <1>0, <2>1 DEF Proving, Recorded
<1>5. CASE Unresolved \/ StopResolving \/ \E outcome \in Endings : ConnectionEnds(outcome)
  <2>1. \E o \in {"resolver_error", "resolution_error"} \cup Endings :
          pc' = "record" /\ m' = [m EXCEPT !.outcome = o]
    BY <1>5 DEF Unresolved, StopResolving, ConnectionEnds, Ends, Endings
  <2>2. pc' = "record" /\ m'.outcome \in {"resolver_error", "resolution_error"} \cup Endings
    BY <1>0, <2>1 DEF Memories
  <2> QED
    BY <2>2 DEF Proving, Endings
<1>6. CASE Record
  <2>1. /\ pc = "record" /\ pc' \in Recorded /\ m'.outcome = m.outcome /\ proof' = proof
        /\ m'.all = m.all + writer.retained
    BY <1>0, <1>6 DEF Record, history, Recorded, Memories
  <2>2. m.outcome = "offline" => writer.retained = 0
    BY <2>1 DEF TInv, Tally
  <2>3. m.outcome = "offline" => m'.all = m.all
    BY <1>0, <2>1, <2>2
  <2>4. pc' \notin {"resolve", "confirm", "finish", "encode"}
    BY <2>1 DEF Recorded
  <2>5. pc \in Recorded
    BY <2>1 DEF Recorded
  <2> QED
    BY <2>1, <2>3, <2>4, <2>5 DEF Proving
<1>7. CASE Counts
  <2>1. pc = "count" /\ pc' = "after" /\ m' = m /\ proof' = proof
    BY <1>7 DEF Counts, history
  <2> QED
    BY <2>1 DEF Proving, Recorded
<1>8. CASE AfterEnd
  <2>1. /\ pc = "after" /\ pc' \in {"fail", "finish"} /\ proof' = proof
        /\ m'.outcome = m.outcome /\ m'.all = m.all
        /\ pc' = "finish" => m.outcome \in {"offline", "live_changed", "interrupted"}
    BY <1>0, <1>8 DEF AfterEnd, history, Memories
  <2>2. m.outcome = "interrupted" \/ m.all = 0 \/ proof = Checks \/ pc' = "fail"
    BY <2>1 DEF Proving, Recorded
  <2>3. pc' \notin {"resolve", "confirm"} \cup Recorded
    BY <2>1 DEF Recorded
  <2> QED
    BY <2>1, <2>2, <2>3 DEF Proving, Interrupted
<1>9. CASE Finish \/ Encode \/ RequestStop \/ UNCHANGED vars
  <2>1. m' = m /\ proof' = proof
    BY <1>9 DEF Finish, Encode, RequestStop, history, vars
  <2>2. pc' = pc \/ pc' = "idle" \/ (pc = "finish" /\ pc' = "encode")
    BY <1>9 DEF Finish, Encode, RequestStop, vars
  <2> QED
    BY <2>1, <2>2 DEF Proving, Interrupted, Recorded
<1> QED
  BY <1>1, <1>2, <1>3, <1>4, <1>5, <1>6, <1>7, <1>8, <1>9, Steps DEF Thinking

LEMMA EndProvenStep ==
  ASSUME TInv, TInv', Proving, EndProven, [Next]_vars
  PROVE  EndProven'
<1>1. CASE pc' \in Running
  <2>1. manifest' = NoManifest \/ manifest'.status = "recording"
    BY <1>1 DEF TInv, Begun
  <2> QED
    BY <2>1 DEF EndProven
<1>2. CASE pc' \notin Running
  <2>1. pc' = "idle"
    BY <1>2 DEF TInv, Typed
  <2>2. CASE pc = "idle"
    <3>1. RecoverPartial \/ UNCHANGED vars
      BY <2>1, <2>2 DEF Next, Wait, OutageWait, StopAtTop, Attempt, Live, Offline, Unresolved,
           StopResolving, Prepare, AppendPending, RecordRoom, Tag, ConnectionEnds, Record,
           Counts, AfterClosed, AfterTransient, AfterRefresh, AfterEnd, Finish, Encode, Fail,
           RequestStop, Crash, Resume, ReserveConnection
    <3>2. CASE RecoverPartial
      <4>1. manifest # NoManifest /\ manifest.status = "recording"
            /\ manifest' = [manifest EXCEPT !.parts = Count + 1]
        BY <3>2 DEF RecoverPartial
      <4>2. manifest'.status = "recording"
        BY <4>1 DEF TInv, Typed, Manifests
      <4> QED
        BY <4>2 DEF EndProven
    <3> QED
      BY <3>1, <3>2 DEF vars, EndProven
  <2>3. CASE pc # "idle"
    <3>0. /\ manifest = NoManifest \/ manifest.status = "recording"
          /\ ~m.started => manifest = NoManifest
          /\ m.started => manifest \in Manifests
      BY <2>3 DEF TInv, Typed, Begun
    <3>1. Finish \/ Encode \/ Fail \/ Crash
      BY <2>1, <2>3, Steps DEF Next, Thinking, Wait, OutageWait, StopAtTop, Attempt, Live,
           Offline, Unresolved,
           StopResolving, Prepare, AppendPending, RecordRoom, Tag, ConnectionEnds, Ends, Record,
           Counts, AfterClosed, AfterTransient, AfterRefresh, AfterEnd,
           RequestStop, RecoverPartial, Resume, ReserveConnection, vars
    <3>2. CASE Finish \/ Encode
      <4>1. m' = m /\ proof' = proof /\ pc \in {"finish", "encode"}
        BY <3>2 DEF Finish, Encode, history
      <4>2. Interrupted \/ m.all = 0 \/ proof = Checks
        BY <4>1 DEF Proving
      <4>3. m.all \in Nat
        BY DEF TInv, Typed, Memories
      <4>4. Interrupted /\ m.all > 0 => manifest' = NoManifest \/ manifest'.status # "completed"
        <5> SUFFICES ASSUME Interrupted, m.all > 0
                     PROVE  manifest'.status # "completed"
          OBVIOUS
        <5>1. Encode
          BY <2>1, <3>2, <4>3 DEF Finish
        <5>2. m.started
          BY <5>1 DEF Encode, TInv, Begun
        <5>3. \E st \in {"interrupted", "failed"}, f \in {"completed", "failed"} :
                manifest' = [manifest EXCEPT !.final = f, !.status = st]
          BY <5>1 DEF Encode
        <5> QED
          BY <3>0, <5>2, <5>3 DEF Manifests
      <4> QED
        BY <4>1, <4>2, <4>3, <4>4 DEF EndProven
    <3>3. CASE Fail
      <4>1. CASE m.started
        <5>1. manifest' = [Counted EXCEPT !.final = "not_started", !.status = "failed"]
          BY <3>3, <4>1 DEF Fail
        <5>2. manifest'.status = "failed"
          BY <3>0, <4>1, <5>1 DEF Counted, Manifests
        <5> QED
          BY <5>2 DEF EndProven
      <4>2. CASE ~m.started
        BY <3>0, <3>3, <4>2 DEF Fail, EndProven
      <4> QED
        BY <4>1, <4>2
    <3>4. CASE Crash
      BY <3>0, <3>4 DEF Crash, EndProven
    <3> QED
      BY <3>1, <3>2, <3>3, <3>4
  <2> QED
    BY <2>2, <2>3
<1> QED
  BY <1>1, <1>2

(* A session with media is closed as completed only when its LIVE was       *)
(* proven over (live.py, resolve_live_url_confirmed): by as many offline    *)
(* answers in a row as the check asks for, whatever that number, or by      *)
(* another room on the page.                                                *)
THEOREM CompletedIsOver == Spec => []EndProven
<1>1. Init => TInv /\ Proving /\ EndProven
  <2> SUFFICES ASSUME Init PROVE Proving /\ EndProven
    BY InitTInv
  <2> QED
    BY DEF Init, Proving, EndProven, Recorded
<1>2. TInv /\ Proving /\ EndProven /\ [Next]_vars => (TInv /\ Proving /\ EndProven)'
  BY StepTInv, ProvingStep, EndProvenStep
<1> QED
  BY <1>1, <1>2, PTL DEF Spec

-----------------------------------------------------------------------------
(* SessionSound.  The open part has the writer's configuration and all its  *)
(* headers, and everything on disk is of the room the capture is bound to.  *)
Streamed ==
  pc = "write" /\ partial # NoPart =>
    /\ partial.config = writer.config /\ ~partial.changed
    /\ partial.started => Sound(partial) /\ (writer.aac => partial.audible)

OneRoom ==
  /\ partial # NoPart => manifest \in Manifests /\ partial.room = manifest.room
                         /\ partial.room \in Rooms
  /\ \A i \in DOMAIN files :
       /\ Sound(files[i])
       /\ files[i].room = manifest.room /\ files[i].room \in Rooms /\ manifest \in Manifests

Bound ==
  /\ pc \in {"identify", "pending", "write"} => m.room = m.saved /\ m.saved \in Rooms
  /\ pc \in Running /\ m.started => manifest.room \in {NoRoom, m.saved}
  /\ pc = "write" => manifest.room = m.saved

LEMMA StreamedStep ==
  ASSUME HeadersFirst, TInv, Streamed, [Next]_vars
  PROVE  Streamed'
<1>0. writer \in Writers /\ partial \in Parts \cup {NoPart}
  BY DEF TInv, Typed
<1>1. CASE Tag
  <2>0. pc = "write"
    BY <1>1 DEF Tag
  <2>a. partial # NoPart =>
          /\ partial \in Parts
          /\ partial.config = writer.config /\ partial.changed = FALSE
          /\ partial.started => partial.keyed /\ ~partial.deaf /\ (writer.aac => partial.audible)
    BY <1>0, <2>0 DEF Streamed, Sound, Parts
  <2>1. ASSUME NEW c \in Configs, AvcHeader(c, m.room)
        PROVE  Streamed'
    <3>1. partial'.config = c /\ partial'.changed = FALSE /\ partial'.started = FALSE
      BY <2>1 DEF AvcHeader, Part
    <3>2. writer'.config = c
      BY <1>0, <2>1 DEF AvcHeader, Writers
    <3> QED
      BY <3>1, <3>2 DEF Streamed
  <2>2. ASSUME NEW c \in Configs, AvcRepeated(c)
        PROVE  Streamed'
    <3>1. /\ partial \in Parts /\ writer' = writer /\ c = writer.config /\ partial # NoPart
          /\ partial' = [partial EXCEPT !.changed = @ \/ c # partial.config]
          /\ partial.started
      BY <1>0, <2>2 DEF AvcRepeated, Kept, Splits
    <3>2. (partial.changed \/ c # partial.config) = FALSE
      BY <2>a, <3>1
    <3>3. /\ partial'.config = partial.config /\ partial'.changed = FALSE
          /\ partial'.keyed = partial.keyed /\ partial'.deaf = partial.deaf
          /\ partial'.audible = partial.audible
      BY <3>1, <3>2 DEF Parts
    <3> QED
      BY <2>a, <3>1, <3>3 DEF Streamed, Sound
  <2>3. CASE AacHeader
    <3>1. writer'.config = writer.config
      BY <1>0, <2>3 DEF AacHeader, Writers
    <3>2. CASE Kept
      <4>1. partial \in Parts /\ partial' = [partial EXCEPT !.audible = TRUE]
        BY <1>0, <2>3, <3>2 DEF AacHeader, Kept
      <4>2. /\ partial'.config = partial.config /\ partial'.changed = partial.changed
            /\ partial'.keyed = partial.keyed /\ partial'.deaf = partial.deaf
            /\ partial'.audible = TRUE
        BY <4>1 DEF Parts
      <4> QED
        BY <2>a, <3>1, <3>2, <4>2 DEF Streamed, Sound, Kept
    <3>3. CASE ~Kept
      <4>1. partial' = partial
        BY <2>3, <3>3 DEF AacHeader
      <4> QED
        BY <2>a, <3>1, <3>3, <4>1 DEF Streamed, Kept
    <3> QED
      BY <3>2, <3>3
  <2>4. ASSUME NEW kind \in {"key", "inter", "audio"}, Media(kind)
        PROVE  Streamed'
    <3>0. /\ partial # NoPart /\ partial \in Parts /\ writer' = writer
          /\ kind = "audio" => writer.aac
      BY <1>0, <2>4 DEF Media
    <3>1. CASE /\ Kept
               /\ partial' = [partial EXCEPT !.deaf = @ \/ (kind = "audio" /\ ~partial.audible)]
      <4>1. (partial.deaf \/ (kind = "audio" /\ ~partial.audible)) = FALSE
        BY <2>a, <3>0, <3>1 DEF Kept, Parts
      <4>2. /\ partial'.config = partial.config /\ partial'.changed = partial.changed
            /\ partial'.keyed = partial.keyed /\ partial'.deaf = FALSE
            /\ partial'.audible = partial.audible
        BY <3>0, <3>1, <4>1 DEF Parts
      <4> QED
        BY <2>a, <3>0, <3>1, <4>2 DEF Streamed, Sound, Kept
    <3>2. CASE /\ Starts(kind)
               /\ partial' = [partial EXCEPT !.started = TRUE, !.keyed = kind = "key",
                                          !.audible = Carried,
                                          !.deaf = kind = "audio" /\ ~Carried]
      <4>1. (kind = "key") = TRUE /\ (kind = "audio" /\ ~Carried) = FALSE
        BY <3>2 DEF Starts
      <4>2. /\ partial'.config = partial.config /\ partial'.changed = partial.changed
            /\ partial'.keyed = TRUE /\ partial'.deaf = FALSE
            /\ partial'.audible = writer.aac
        BY <3>0, <3>2, <4>1 DEF Parts, Carried
      <4> QED
        BY <2>a, <3>0, <4>2 DEF Streamed, Sound
    <3> QED
      BY <2>4, <3>1, <3>2 DEF Media
  <2> QED
    BY <1>1, <2>1, <2>2, <2>3, <2>4 DEF Tag, Tags
<1>2. CASE Thinking
  <2>1. (pc' = "write" => pc = "write") /\ UNCHANGED <<partial, writer>>
    BY <1>2, ThinkingMoves DEF TInv, Moves
  <2> QED
    BY <2>1 DEF Streamed
<1>3. CASE RecordRoom
  <2>1. pc \in Resolving /\ partial' = partial
    BY <1>3 DEF RecordRoom, Resolving, written
  <2>2. partial' = NoPart
    BY <2>1 DEF TInv, Tally, Resolving
  <2> QED
    BY <2>2 DEF Streamed
<1>4. CASE \/ Attempt \/ Prepare \/ AppendPending
           \/ \E outcome \in Endings : ConnectionEnds(outcome)
           \/ Record \/ Finish \/ Encode \/ Fail \/ Crash
           \/ RecoverPartial \/ Resume \/ ReserveConnection
  <2>1. pc' # "write"
    BY <1>4 DEF Attempt, Prepare, AppendPending, ConnectionEnds, Ends, Record, Finish, Encode,
                Fail, Crash, RecoverPartial, Resume, ReserveConnection
  <2> QED
    BY <2>1 DEF Streamed
<1>5. CASE UNCHANGED vars
  BY <1>5 DEF vars, Streamed
<1> QED
  BY <1>1, <1>2, <1>3, <1>4, <1>5, Steps

(* The room a capture is bound to, and the one its manifest names.          *)
LEMMA BoundStep ==
  ASSUME TInv, TInv', OneRoom, Bound, [Next]_vars
  PROVE  Bound'
<1>0. /\ m \in Memories /\ manifest \in Manifests \cup {NoManifest}
      /\ pc \in Running /\ m.started => manifest \in Manifests
      /\ NoRoom \notin Rooms
  BY LiveAssumption DEF TInv, Typed, Begun
<1>1. ASSUME m'.room = m.room, m'.saved = m.saved, m'.started = m.started, pc \in Running,
             manifest' = manifest \/ (m.started /\ manifest'.room = manifest.room),
             pc' \in {"identify", "pending", "write"} => pc' = pc
      PROVE  Bound'
  BY <1>0, <1>1 DEF Bound
<1>2. CASE Wait \/ OutageWait \/ StopAtTop \/ Offline \/ Unresolved \/ StopResolving
           \/ AfterClosed \/ AfterTransient \/ AfterRefresh \/ AfterEnd \/ RequestStop
  <2>1. m'.room = m.room /\ m'.saved = m.saved /\ manifest' = manifest
    <3>1. CASE Wait \/ RequestStop
      BY <3>1 DEF Wait, RequestStop, disk
    <3>2. CASE OutageWait \/ StopAtTop \/ AfterEnd
      BY <1>0, <3>2 DEF OutageWait, StopAtTop, AfterEnd, disk, Memories
    <3>3. CASE Offline \/ Unresolved \/ StopResolving
      BY <1>0, <3>3 DEF Offline, Unresolved, StopResolving, Ends, disk, Memories
    <3>4. CASE AfterClosed
      BY <1>0, <3>4 DEF AfterClosed, disk, Memories
    <3>5. CASE AfterTransient \/ AfterRefresh
      BY <1>0, <3>5 DEF AfterTransient, AfterRefresh, disk, Memories
    <3> QED
      BY <1>2, <3>1, <3>2, <3>3, <3>4, <3>5
  <2>2. m'.started = m.started /\ pc # "idle"
    BY <1>2, ThinkingNumbers, ThinkingMoves DEF Thinking, SameNumbers, TInv
  <2>3. pc' \in {"identify", "pending", "write"} => pc' = pc
    BY <1>2 DEF Wait, OutageWait, StopAtTop, Offline, Unresolved, StopResolving, Ends,
                AfterClosed, AfterTransient, AfterRefresh, AfterEnd, RequestStop
  <2>4. pc \in Running
    BY <2>2 DEF TInv, Typed
  <2> QED
    BY <1>1, <2>1, <2>2, <2>3, <2>4
<1>3. CASE Counts \/ Record \/ Attempt \/ Tag \/ ReserveConnection
           \/ \E outcome \in Endings : ConnectionEnds(outcome)
  <2>1. m'.room = m.room /\ m'.saved = m.saved /\ m'.started = m.started
    BY <1>0, <1>3 DEF Counts, Record, Attempt, Tag, ReserveConnection, ConnectionEnds, Ends,
                      Memories
  <2>2. pc \in Running
    BY <1>3 DEF Counts, Record, Attempt, Tag, ReserveConnection, ConnectionEnds, TInv, Typed
  <2>3. manifest' = manifest \/ (m.started /\ manifest'.room = manifest.room)
    <3>1. CASE Counts
      <4>1. m.started
        BY <3>1 DEF Counts, TInv, Begun
      <4>2. manifest \in Manifests
        BY <1>0, <2>2, <4>1
      <4> QED
        BY <3>1, <4>1, <4>2 DEF Counts, Manifests
    <3> QED
      BY <1>3, <3>1 DEF Record, Attempt, Tag, ReserveConnection, ConnectionEnds, disk
  <2>4. pc' \in {"identify", "pending", "write"} => pc' = pc
    BY <1>3 DEF Counts, Record, Attempt, Tag, ReserveConnection, ConnectionEnds, Ends
  <2> QED
    BY <1>1, <2>1, <2>2, <2>3, <2>4
<1>4. ASSUME NEW room \in Rooms, Live(room)
      PROVE  Bound'
  <2>1. CASE Ends("live_changed")
    <3>1. m'.room = m.room /\ m'.saved = m.saved /\ m'.started = m.started /\ pc' = "record"
      BY <1>0, <2>1 DEF Ends, Memories
    <3>2. pc \in Running /\ manifest' = manifest
      BY <1>4 DEF Live, disk, Running, Looping, Open, Resolving
    <3> QED
      BY <1>1, <3>1, <3>2
  <2>2. CASE /\ ~OtherRoom(room) /\ pc' = "identify"
             /\ m' = [m EXCEPT !.room = room, !.saved = IF @ = NoRoom THEN room ELSE @]
    <3>1. /\ m'.room = room /\ m'.saved = room /\ m'.started = m.started
          /\ m.saved \in {NoRoom, room}
      BY <1>0, <2>2 DEF OtherRoom, Memories
    <3>2. pc \in Running /\ manifest' = manifest
      BY <1>4 DEF Live, disk, Running, Looping, Open, Resolving
    <3> QED
      BY <1>0, <2>2, <3>1, <3>2 DEF Bound
  <2> QED
    BY <1>4, <2>1, <2>2 DEF Live
<1>5. CASE Prepare
  <2>1. /\ pc = "identify" /\ pc' = "pending" /\ manifest'.room = NoRoom
        /\ m'.room = m.room /\ m'.saved = m.saved
    BY <1>0, <1>5 DEF Prepare, Memories
  <2> QED
    BY <2>1 DEF Bound
<1>6. CASE AppendPending
  <2>1. /\ pc = "pending" /\ pc' = pc /\ manifest' = manifest /\ m'.started = m.started
        /\ m'.room = m.room /\ m'.saved = m.saved
    BY <1>0, <1>6 DEF AppendPending, Memories
  <2>2. pc \in Running
    BY <2>1 DEF Running, Looping, Open, Resolving
  <2> QED
    BY <1>1, <2>1, <2>2
<1>7. CASE RecordRoom
  <2>1. /\ pc \in {"pending", "identify"} /\ pc' = "write" /\ m' = m
        /\ manifest' = [manifest EXCEPT !.room = IF @ = NoRoom THEN m.room ELSE @]
        /\ pc = "identify" => m.started
    BY <1>7 DEF RecordRoom
  <2>2. m.room = m.saved /\ m.saved \in Rooms /\ m.started /\ pc \in Running
    BY <2>1 DEF Bound, TInv, Begun, Running, Looping, Open, Resolving
  <2>3. manifest \in Manifests /\ manifest.room \in {NoRoom, m.saved}
    BY <1>0, <2>2 DEF Bound
  <2>4. manifest'.room = m.saved
    BY <1>0, <2>1, <2>2, <2>3 DEF Manifests
  <2> QED
    BY <2>1, <2>2, <2>4 DEF Bound
<1>8. CASE Finish \/ Encode \/ Fail \/ Crash \/ RecoverPartial
  <2>1. /\ pc' \in {"idle", "encode"}
        /\ pc' = "encode" => pc = "finish" /\ m' = m /\ m.all > 0
                             /\ manifest' = [Counted EXCEPT !.final = "running"]
    BY <1>8 DEF Finish, Encode, Fail, Crash, RecoverPartial
  <2>2. CASE pc' = "idle"
    BY <2>2, IdleNot DEF Bound
  <2>3. CASE pc' = "encode"
    <3>1. pc \in Running
      BY <2>1, <2>3 DEF Running
    <3>2. CASE m.started
      <4>1. manifest'.room = manifest.room
        BY <1>0, <2>1, <2>3, <3>1, <3>2 DEF Counted, Manifests
      <4> QED
        BY <1>1, <2>1, <2>3, <3>1, <3>2, <4>1
    <3>3. CASE ~m.started
      BY <2>1, <2>3, <3>3 DEF Bound
    <3> QED
      BY <3>2, <3>3
  <2> QED
    BY <2>1, <2>2, <2>3
<1>9. CASE Resume
  <2>1. /\ pc' = "resume" /\ manifest'.room = manifest.room
        /\ m' = Memory(Continues - 1, manifest.room, TRUE)
    BY <1>9, ResumeIs
  <2>2. m'.saved = manifest.room
    BY <2>1 DEF Memory
  <2> QED
    BY <2>1, <2>2 DEF Bound
<1>10. CASE UNCHANGED vars
  BY <1>10 DEF vars, Bound
<1> QED
  BY <1>2, <1>3, <1>4, <1>5, <1>6, <1>7, <1>8, <1>9, <1>10, Steps DEF Thinking

(* Closing a sound part keeps the directory sound.                          *)
LEMMA ClosedOneRoom ==
  ASSUME TInv, OneRoom, Kept => Sound(partial), files' = Closed,
         Kept => partial.index = Count + 1, manifest' = manifest
  PROVE  \A i \in DOMAIN files' :
           /\ Sound(files'[i]) /\ files'[i].room = manifest'.room /\ files'[i].room \in Rooms
           /\ manifest' \in Manifests
<1>1. \A i \in DOMAIN files' :
        files'[i] = IF Kept /\ i = Count + 1 THEN partial ELSE files[i]
  BY ClosedIs DEF TInv, Typed, Tally
<1>2. \A i \in DOMAIN files' : i \in DOMAIN files \/ (Kept /\ i = Count + 1)
  BY DEF Closed
<1> QED
  BY <1>1, <1>2 DEF OneRoom, Kept

LEMMA OneRoomStep ==
  ASSUME TInv, Streamed, OneRoom, Bound, [Next]_vars
  PROVE  OneRoom'
<1>0. /\ partial \in Parts \cup {NoPart} /\ manifest \in Manifests \cup {NoManifest}
      /\ NoRoom \notin Rooms /\ m \in Memories
      /\ pc \in Running /\ m.started => manifest \in Manifests
      /\ pc \in Running /\ ~m.started => DOMAIN files = {}
  BY LiveAssumption DEF TInv, Typed, Begun
<1>1. ASSUME UNCHANGED <<files, partial>>,
             manifest' = manifest \/ (/\ manifest \in Manifests => manifest'.room = manifest.room
                                      /\ manifest' \in Manifests)
      PROVE  OneRoom'
  BY <1>1 DEF OneRoom
<1>2. CASE \/ Wait \/ OutageWait \/ StopAtTop \/ (\E room \in Rooms : Live(room)) \/ Offline
           \/ Unresolved \/ StopResolving \/ AfterClosed \/ AfterTransient \/ AfterRefresh
           \/ AfterEnd \/ RequestStop \/ Attempt \/ AppendPending \/ Record \/ Crash
           \/ ReserveConnection \/ UNCHANGED vars
  <2>1. UNCHANGED <<files, partial, manifest>>
    BY <1>2 DEF Wait, OutageWait, StopAtTop, Live, Offline, Unresolved, StopResolving,
                AfterClosed, AfterTransient, AfterRefresh, AfterEnd, RequestStop, Attempt,
                AppendPending, Record, Crash, ReserveConnection, written, disk, vars
  <2> QED
    BY <1>1, <2>1
<1>3. CASE Counts
  <2>1. m.started /\ pc \in Running
    BY <1>3 DEF Counts, TInv, Begun, Typed
  <2>2. m.number \in Nat /\ m.all \in Nat
    BY <1>0 DEF Memories
  <2>3. manifest' \in Manifests /\ manifest'.room = manifest.room
    BY <1>0, <1>3, <2>1, <2>2 DEF Counts, Manifests
  <2> QED
    BY <1>1, <1>3, <2>3 DEF Counts, written
<1>4. CASE Prepare
  <2>1. /\ pc \in Resolving /\ UNCHANGED <<files, partial>> /\ DOMAIN files = {}
    BY <1>0, <1>4 DEF Prepare, written, Resolving, Running, Looping, Open
  <2>2. partial = NoPart
    BY <2>1 DEF TInv, Tally, Resolving
  <2> QED
    BY <2>1, <2>2 DEF OneRoom
<1>5. CASE RecordRoom
  <2>1. /\ pc \in Resolving /\ UNCHANGED <<files, partial>> /\ pc \in Running /\ m.started
        /\ manifest' = [manifest EXCEPT !.room = IF @ = NoRoom THEN m.room ELSE @]
    BY <1>5 DEF RecordRoom, written, Resolving, Running, Looping, Open, TInv, Begun
  <2>2. manifest \in Manifests /\ partial = NoPart
    BY <1>0, <2>1 DEF TInv, Tally, Resolving
  <2>3. m.room \in AnyRoom
    BY <1>0 DEF Memories
  <2>4. manifest' \in Manifests /\ (manifest.room # NoRoom => manifest'.room = manifest.room)
    BY <2>1, <2>2, <2>3 DEF Manifests
  <2>5. \A i \in DOMAIN files : manifest.room # NoRoom
    BY <1>0 DEF OneRoom
  <2> QED
    BY <2>1, <2>2, <2>4, <2>5 DEF OneRoom
<1>6. CASE Tag \/ \E outcome \in Endings : ConnectionEnds(outcome)
  <2>0. /\ pc = "write" /\ manifest' = manifest /\ m.room = manifest.room /\ m.room \in Rooms
        /\ manifest \in Manifests
    <3>1. pc = "write" /\ manifest' = manifest
      BY <1>6 DEF Tag, ConnectionEnds, disk
    <3>2. m.started /\ pc \in Running
      BY <3>1 DEF TInv, Begun, Typed
    <3> QED
      BY <1>0, <3>1, <3>2 DEF Bound
  <2>1. /\ Kept => Sound(partial)
        /\ Kept => partial.index = Count + 1
    BY <2>0 DEF Streamed, Kept, TInv, Tally
  <2>2. CASE files' = Closed /\ (partial' # NoPart => partial'.room = m.room)
    BY <2>0, <2>1, <2>2, ClosedOneRoom DEF OneRoom
  <2>3. CASE /\ files' = files
             /\ partial' # NoPart => partial # NoPart /\ partial'.room = partial.room
    BY <2>0, <2>3 DEF OneRoom
  <2>4. ASSUME NEW outcome \in Endings, ConnectionEnds(outcome)
        PROVE  OneRoom'
    BY <2>2, <2>4 DEF ConnectionEnds, CloseWriter
  <2>5. ASSUME NEW c \in Configs, AvcHeader(c, m.room)
        PROVE  OneRoom'
    <3>1. partial'.room = m.room /\ files' = Closed
      BY <2>5 DEF AvcHeader, Part
    <3> QED
      BY <2>2, <3>1
  <2>6. ASSUME NEW c \in Configs, AvcRepeated(c)
        PROVE  OneRoom'
    <3>1. partial \in Parts /\ partial # NoPart /\ files' = files
      BY <1>0, <2>6 DEF AvcRepeated, Kept
    <3>2. partial'.room = partial.room
      BY <2>6, <3>1 DEF AvcRepeated, Parts
    <3> QED
      BY <2>3, <3>1, <3>2
  <2>7. CASE AacHeader
    <3>1. /\ files' = files
          /\ partial' = IF Kept THEN [partial EXCEPT !.audible = TRUE] ELSE partial
      BY <2>7 DEF AacHeader
    <3>2. partial' # NoPart => partial # NoPart /\ partial'.room = partial.room
      BY <1>0, <3>1 DEF Kept, Parts
    <3> QED
      BY <2>3, <3>1, <3>2
  <2>8. ASSUME NEW kind \in {"key", "inter", "audio"}, Media(kind)
        PROVE  OneRoom'
    <3>1. partial \in Parts /\ partial # NoPart /\ files' = files
      BY <1>0, <2>8 DEF Media
    <3>2. partial'.room = partial.room
      BY <2>8, <3>1 DEF Media, Parts
    <3> QED
      BY <2>3, <3>1, <3>2
  <2> QED
    BY <1>6, <2>4, <2>5, <2>6, <2>7, <2>8 DEF Tag, Tags
<1>7. CASE Finish \/ Encode \/ Fail
  <2>1. UNCHANGED <<files, partial>> /\ pc \in Running
    BY <1>7 DEF Finish, Encode, Fail, written, Running
  <2>2. CASE m.started
    <3>1. m.number \in Nat /\ m.all \in Nat /\ manifest \in Manifests
      BY <1>0, <2>1, <2>2 DEF Memories
    <3>2. \E f \in {"running", "not_started", "completed", "failed"},
             st \in {"recording", "interrupted", "completed", "failed"} :
            \/ manifest' = [Counted EXCEPT !.final = f]
            \/ manifest' = [Counted EXCEPT !.final = f, !.status = st]
            \/ manifest' = [manifest EXCEPT !.final = f, !.status = st]
      BY <1>7, <2>2 DEF Finish, Encode, Fail
    <3>3. manifest' \in Manifests /\ manifest'.room = manifest.room
      BY <3>1, <3>2 DEF Counted, Manifests
    <3> QED
      BY <1>1, <2>1, <3>3
  <2>3. CASE ~m.started
    <3>1. m.all = 0
      BY <2>1, <2>3 DEF TInv, Begun
    <3>2. pc # "encode"
      BY <2>3 DEF TInv, Begun
    <3>3. manifest' = manifest
      BY <1>7, <2>3, <3>1, <3>2 DEF Finish, Encode, Fail
    <3> QED
      BY <1>1, <2>1, <3>3
  <2> QED
    BY <2>2, <2>3
<1>8. CASE RecoverPartial
  <2>1. /\ partial' = NoPart /\ files' = Closed /\ Kept /\ Sound(partial)
        /\ manifest \in Manifests /\ manifest' = [manifest EXCEPT !.parts = Count + 1]
        /\ Count \in Nat /\ DOMAIN files = 1..Count /\ partial.index = Count + 1
    BY <1>8 DEF RecoverPartial, TInv, Typed, Tally, Kept
  <2>2. manifest' \in Manifests /\ manifest'.room = manifest.room
    BY <2>1 DEF Manifests
  <2>3. \A i \in DOMAIN files' : files'[i] = IF i = Count + 1 THEN partial ELSE files[i]
    BY <2>1, ClosedIs
  <2>4. \A i \in DOMAIN files' : i \in DOMAIN files \/ i = Count + 1
    BY <2>1 DEF Closed
  <2> QED
    BY <2>1, <2>2, <2>3, <2>4 DEF OneRoom, Kept
<1>9. CASE Resume
  <2>1. UNCHANGED <<files, partial>>
    BY <1>9 DEF Resume, written
  <2>2. manifest' \in Manifests /\ manifest'.room = manifest.room
    BY <1>9, ResumeIs
  <2> QED
    BY <1>1, <2>1, <2>2
<1> QED
  BY <1>2, <1>3, <1>4, <1>5, <1>6, <1>7, <1>8, <1>9, Steps DEF Thinking

(* Over reconnects, crashes, recovered partials and resumes (writer.py,     *)
(* live.py, session_resume.py), with any number of each: the parts are      *)
(* numbered without a gap, the next number is never taken, each part passes *)
(* the structural check of session_parts.py, and all the media is of the    *)
(* one room that the manifest names, provided that every source sends its   *)
(* AAC header before AAC media: the writer keeps audio without one, and the *)
(* check refuses the part.                                                  *)
THEOREM SessionIsSound ==
  ASSUME HeadersFirst
  PROVE  Spec => []SessionSound
<1>1. Init => TInv /\ Streamed /\ OneRoom /\ Bound
  <2> SUFFICES ASSUME Init PROVE Streamed /\ OneRoom /\ Bound
    BY InitTInv
  <2>1. /\ pc = "top" /\ partial = NoPart /\ DOMAIN files = {}
        /\ m = Memory(0, NoRoom, FALSE)
    BY DEF Init, WriterInit
  <2>2. m.started = FALSE
    BY <2>1 DEF Memory
  <2> QED
    BY <2>1, <2>2 DEF Streamed, OneRoom, Bound
<1>2. TInv /\ Streamed /\ OneRoom /\ Bound /\ [Next]_vars
        => (TInv /\ Streamed /\ OneRoom /\ Bound)'
  BY StepTInv, StreamedStep, OneRoomStep, BoundStep
<1>3. TInv /\ OneRoom => SessionSound
  BY DEF SessionSound, OneRoom, TInv, Tally, Open
<1> QED
  BY <1>1, <1>2, <1>3, PTL DEF Spec

-----------------------------------------------------------------------------
(* EvidenceAccepted.  The lines of the log are numbered up to the           *)
(* connection at hand (or to the one a resume has reserved), they claim no  *)
(* part twice and none beyond the ones counted, and the attempts made       *)
(* before the session began wait to be written in their order.              *)
Told(n, reserved) ==
  \A i \in DOMAIN log :
    \/ log[i].number <= n
    \/ reserved /\ log[i].kind = "resume" /\ log[i].number = n + 1

Pend(n) ==
  \A j \in DOMAIN m.pending :
    /\ m.pending[j].first = 0 /\ m.pending[j].number <= n
    /\ \A i \in 1..j - 1 : m.pending[i].number < m.pending[j].number
    /\ \A i \in DOMAIN log : log[i].number < m.pending[j].number

Reads ==
  /\ LogReads
  /\ torn => pc = "idle"
  /\ pc \in Running => \A i \in DOMAIN log : Claims(log[i]) \subseteq 1..m.all
  /\ pc \in Running /\ m.started => manifest.parts <= m.all

Numbering ==
  /\ pc \in Open => m.number > 0 /\ Told(m.number - 1, TRUE)
  /\ pc \in Waiting => Told(m.number, m.fresh)
  /\ pc \in Running \ (Open \cup Waiting) => Told(m.number, FALSE)
  /\ pc \in Running /\ m.fresh => pc \in {"resume"} \cup Waiting /\ ~m.outage
  /\ pc = "resume" => m.fresh
  /\ pc = "pending" => Pend(m.number - 1)
  /\ pc \in Running /\ ~m.started => Pend(IF pc \in Open THEN m.number - 1 ELSE m.number)

Closing ==
  /\ pc = "encode" => manifest.connections = m.number /\ manifest.parts = m.all
  /\ pc = "idle" /\ manifest # NoManifest =>
       /\ manifest.parts <= Count
       /\ manifest.status # "recording" =>
            manifest.parts = Count /\ Told(manifest.connections, FALSE)

Covers(n) == \A x : (\E i \in DOMAIN log : x \in Claims(log[i])) <=> x \in 1..n

Coverage ==
  crashes = 0 => /\ Covers(IF pc = "idle" THEN Count ELSE m.all)
                 /\ pc = "idle" => partial = NoPart

EvInv == Reads /\ Numbering /\ Closing /\ Coverage

(* The actions that write no line and leave the numbers of memory alone.    *)
LEMMA ThinkingEvidence ==
  ASSUME ~StopsBeforeConnecting, TInv, EvInv, Thinking
  PROVE  EvInv'
<1>0. /\ SameNumbers /\ Moves /\ pc \in Running /\ pc # "idle"
      /\ UNCHANGED <<files, partial, writer, log, torn, crashes, resumes>>
      /\ Count' = Count /\ m \in Memories /\ m.fresh \in BOOLEAN /\ m.outage \in BOOLEAN
      /\ m.number \in Nat /\ m.all \in Nat
  BY ThinkingNumbers, ThinkingMoves, SameCount DEF TInv, Typed, Memories
<1>1. /\ pc' \in Running /\ pc' # "idle"
      /\ pc' \in Open <=> pc \in Open
      /\ pc' \in Waiting => pc \in Waiting \cup {"after"}
      /\ pc' \in {"pending", "resume", "encode"} => pc' = pc
      /\ pc' \in Running \ (Open \cup Waiting) =>
           pc \in Running \ (Open \cup Waiting) \/ (pc = "top" /\ pc' \in {"fail", "finish"})
  BY <1>0 DEF Moves, Running, Looping, Open, Resolving, Waiting
<1>2. /\ pc = "top" /\ pc' \in {"fail", "finish"} => ~m.fresh
      /\ pc \in Waiting => m'.outage = m.outage \/ m'.outage = FALSE
  <2>1. CASE OutageWait \/ StopAtTop
    <3>1. pc = "top" /\ pc \in Waiting
      BY <2>1 DEF OutageWait, StopAtTop, Waiting
    <3>2. (OutageWait => ~m.fresh) /\ (StopAtTop => ~m.fresh)
      BY <1>0, <3>1 DEF OutageWait, StopAtTop, EvInv, Numbering
    <3>3. m'.outage = m.outage \/ m'.outage = FALSE
      BY <1>0, <2>1 DEF OutageWait, StopAtTop, Memories
    <3> QED
      BY <2>1, <3>2, <3>3
  <2>2. CASE Wait \/ RequestStop
    BY <2>2 DEF Wait, RequestStop
  <2>3. CASE ~(OutageWait \/ StopAtTop \/ Wait \/ RequestStop)
    <3>1. pc \notin Waiting
      BY <2>3 DEF Thinking, Live, Offline, Unresolved, StopResolving,
                  Counts, AfterClosed, AfterTransient, AfterRefresh, AfterEnd, Waiting
    <3> QED
      BY <3>1 DEF Waiting
  <2> QED
    BY <2>1, <2>2, <2>3
<1>3. /\ manifest' = manifest \/ (manifest'.parts = m.all /\ pc = "count")
  <2>1. CASE Counts
    <3>1. manifest \in Manifests
      BY <2>1 DEF Counts, TInv, Begun, Running, Looping
    <3> QED
      BY <2>1, <3>1 DEF Counts, Manifests
  <2>2. CASE ~Counts
    BY <2>2 DEF Thinking, Wait, OutageWait, StopAtTop, Live, Offline, Unresolved,
         StopResolving, AfterClosed, AfterTransient, AfterRefresh, AfterEnd, RequestStop, disk
  <2> QED
    BY <2>1, <2>2
<1>4. Reads'
  <2>1. LogReads'
    BY <1>0 DEF EvInv, Reads, LogReads, Claims
  <2>2. (torn' => pc' = "idle") /\ \A i \in DOMAIN log' : Claims(log[i])' \subseteq 1..m'.all
    BY <1>0 DEF EvInv, Reads, SameNumbers, Claims
  <2>3. m'.started => manifest'.parts <= m'.all
    BY <1>0, <1>3 DEF EvInv, Reads, SameNumbers
  <2> QED
    BY <2>1, <2>2, <2>3 DEF Reads
<1>5. \A n, r : (Told(n, r)' <=> Told(n, r)) /\ (Pend(n)' <=> Pend(n))
  BY <1>0 DEF Told, Pend, SameNumbers
<1>6. Numbering'
  <2>1. m'.number = m.number /\ m'.fresh = m.fresh /\ m'.started = m.started
    BY <1>0 DEF SameNumbers
  <2>2. pc' \in Open => m'.number > 0 /\ Told(m.number - 1, TRUE)
    BY <1>1, <2>1 DEF EvInv, Numbering
  <2>3. pc \in Running /\ pc \notin Waiting /\ m.fresh => pc = "resume"
    BY DEF EvInv, Numbering
  <2>4. pc' \in Waiting => Told(m.number, m.fresh)
    <3>1. CASE pc \in Waiting
      BY <3>1 DEF EvInv, Numbering
    <3>2. CASE pc = "after"
      <4>1. Told(m.number, FALSE) /\ pc \notin Waiting
        BY <1>0, <3>2 DEF EvInv, Numbering, Waiting, Open, Resolving
      <4> QED
        BY <1>0, <2>3, <3>2, <4>1
    <3> QED
      BY <1>1, <3>1, <3>2
  <2>5. pc' \in Running \ (Open \cup Waiting) => Told(m.number, FALSE)
    <3>1. CASE pc \in Running \ (Open \cup Waiting)
      BY <3>1 DEF EvInv, Numbering
    <3>2. CASE pc = "top" /\ pc' \in {"fail", "finish"}
      BY <1>0, <1>2, <3>2 DEF EvInv, Numbering, Waiting
    <3> QED
      BY <1>1, <3>1, <3>2
  <2>6. m.fresh => pc' \in {"resume"} \cup Waiting /\ ~m'.outage
    <3> SUFFICES ASSUME m.fresh PROVE pc' \in {"resume"} \cup Waiting /\ ~m'.outage
      OBVIOUS
    <3>1. pc \in {"resume"} \cup Waiting /\ ~m.outage
      BY <1>0 DEF EvInv, Numbering
    <3>2. CASE pc = "resume"
      BY <1>0, <3>1, <3>2 DEF Moves
    <3>3. CASE pc \in Waiting
      <4>1. pc' \in Waiting
        BY <1>0, <1>2, <3>3 DEF Moves, Waiting
      <4> QED
        BY <1>2, <3>1, <3>3, <4>1
    <3> QED
      BY <3>1, <3>2, <3>3
  <2>7. pc' = "resume" => m.fresh
    BY <1>1 DEF EvInv, Numbering
  <2>8. pc' = "pending" => Pend(m.number - 1)
    BY <1>1 DEF EvInv, Numbering
  <2>9. ~m.started => Pend(IF pc' \in Open THEN m.number - 1 ELSE m.number)
    BY <1>0, <1>1 DEF EvInv, Numbering
  <2> QED
    BY <1>5, <2>1, <2>2, <2>4, <2>5, <2>6, <2>7, <2>8, <2>9 DEF Numbering
<1>7. Closing'
  <2>1. pc' = "encode" => pc = "encode" /\ manifest' = manifest
    BY <1>1, <1>3
  <2> QED
    BY <1>0, <1>1, <2>1 DEF EvInv, Closing, SameNumbers
<1>8. Coverage'
  <2>1. m'.all = m.all
    BY <1>0 DEF SameNumbers
  <2> QED
    BY <1>0, <1>1, <2>1 DEF EvInv, Coverage, Covers, Claims
<1> QED
  BY <1>4, <1>6, <1>7, <1>8 DEF EvInv

Line == Numbered \cup Reserving

(* What a line that is written adds to what is read.                        *)
LEMMA AppendReads ==
  ASSUME log \in Seq(Line), LogReads, NEW r \in Line, log' = Append(log, r),
         UNCHANGED files, Count \in Nat,
         \A i \in DOMAIN log :
           \/ log[i].number < r.number
           \/ log[i].kind = "resume" /\ r.kind = "connection" /\ log[i].number = r.number,
         \A i \in DOMAIN log : Claims(log[i]) \cap Claims(r) = {},
         Claims(r) \subseteq 1..Count,
         r.kind = "resume" => r.next \in 1..Count + 1
  PROVE  LogReads'
<1>1. /\ DOMAIN log' = 1..Len(log) + 1 /\ DOMAIN log = 1..Len(log) /\ Len(log) \in Nat
      /\ \A i \in DOMAIN log : log'[i] = log[i]
      /\ log'[Len(log) + 1] = r
      /\ Count' = Count
  BY SameCount
<1> SUFFICES ASSUME NEW j \in DOMAIN log'
             PROVE  /\ \A i \in 1..j - 1 :
                         /\ \/ log'[i].number < log'[j].number
                            \/ /\ log'[i].kind = "resume" /\ log'[j].kind = "connection"
                               /\ log'[i].number = log'[j].number
                         /\ Claims(log'[i]) \cap Claims(log'[j]) = {}
                    /\ Claims(log'[j]) \subseteq 1..Count
                    /\ log'[j].kind = "resume" => log'[j].next \in 1..Count + 1
  BY <1>1 DEF LogReads, Claims
<1>2. CASE j \in DOMAIN log
  <2>1. \A i \in 1..j - 1 : i \in DOMAIN log
    BY <1>1, <1>2
  <2> QED
    BY <1>1, <1>2, <2>1 DEF LogReads
<1>3. CASE j = Len(log) + 1
  <2>1. \A i \in 1..j - 1 : i \in DOMAIN log
    BY <1>1, <1>3
  <2> QED
    BY <1>1, <1>3, <2>1
<1>4. j \in DOMAIN log \/ j = Len(log) + 1
  BY <1>1
<1> QED
  BY <1>2, <1>3, <1>4

LEMMA AppendTold ==
  ASSUME log \in Seq(Line), NEW r \in Line, log' = Append(log, r),
         NEW n \in Nat, NEW reserved, Told(n, reserved),
         \/ r.number <= n
         \/ reserved /\ r.kind = "resume" /\ r.number = n + 1
  PROVE  Told(n, reserved)'
<1>1. /\ DOMAIN log' = 1..Len(log) + 1 /\ DOMAIN log = 1..Len(log) /\ Len(log) \in Nat
      /\ \A i \in DOMAIN log : log'[i] = log[i]
      /\ log'[Len(log) + 1] = r
  OBVIOUS
<1>2. \A i \in DOMAIN log' : i \in DOMAIN log \/ i = Len(log) + 1
  BY <1>1
<1> QED
  BY <1>1, <1>2 DEF Told

LEMMA AppendCovers ==
  ASSUME log \in Seq(Line), NEW r \in Line, log' = Append(log, r),
         NEW n \in Nat, NEW k \in Nat, Covers(n), Claims(r) = n + 1..n + k
  PROVE  Covers(n + k)'
<1>1. /\ DOMAIN log' = 1..Len(log) + 1 /\ DOMAIN log = 1..Len(log) /\ Len(log) \in Nat
      /\ \A i \in DOMAIN log : log'[i] = log[i]
      /\ log'[Len(log) + 1] = r
  OBVIOUS
<1>2. \A x : (\E i \in DOMAIN log' : x \in Claims(log'[i]))
               <=> (\E i \in DOMAIN log : x \in Claims(log[i])) \/ x \in Claims(r)
  BY <1>1
<1>3. \A x : x \in 1..n + k <=> x \in 1..n \/ x \in n + 1..n + k
  OBVIOUS
<1> QED
  BY <1>2, <1>3 DEF Covers, Claims

LEMMA ToldMore ==
  ASSUME log \in Seq(Line), NEW n \in Nat
  PROVE  /\ \A b : Told(n, b) => Told(n, TRUE) /\ Told(n + 1, FALSE)
         /\ \A b : Told(n, FALSE) => Told(n, b)
<1>1. \A i \in DOMAIN log : log[i].number \in Nat
  BY DEF Line, Numbered, Reserving
<1> QED
  BY <1>1 DEF Told

LEMMA AttemptEvidence ==
  ASSUME TInv, TInv', EvInv, Attempt
  PROVE  EvInv'
<1>0. /\ pc = "attempt" /\ pc' = "resolve" /\ Count' = Count
      /\ UNCHANGED <<files, partial, manifest, log, torn, crashes>>
      /\ m' = [m EXCEPT !.number = @ + 1, !.tries = 0, !.fresh = FALSE]
      /\ m \in Memories /\ m.number \in Nat /\ log \in Seq(Line) /\ m.fresh \in BOOLEAN
  BY SameCount DEF TInv, Typed, Attempt, disk, history, Memories, Line
<1>1. /\ m'.number = m.number + 1 /\ m'.fresh = FALSE /\ m'.started = m.started
      /\ m'.all = m.all /\ m'.pending = m.pending
  BY <1>0 DEF Memories
<1>2. /\ pc \in Running /\ pc' \in Running /\ pc' \in Open /\ pc \in Waiting /\ pc \notin Open
      /\ pc' \notin Waiting /\ pc' \notin {"resume", "pending", "encode", "idle"}
  BY <1>0 DEF Running, Looping, Open, Resolving, Waiting
<1>3. Reads'
  BY <1>0, <1>1, <1>2 DEF EvInv, Reads, LogReads, Claims
<1>4. Told(m.number, TRUE)
  <2>1. Told(m.number, m.fresh)
    BY <1>2 DEF EvInv, Numbering
  <2> QED
    BY <1>0, <2>1, ToldMore
<1>5. Numbering'
  <2>1. m'.number > 0 /\ m'.number - 1 = m.number
    BY <1>0, <1>1
  <2>2. Told(m.number - 1, TRUE)'
    BY <1>0, <1>4, <2>1 DEF Told
  <2>3. ~m'.started => Pend(m.number - 1)'
    <3>1. ~m.started => Pend(m.number)
      BY <1>2 DEF EvInv, Numbering
    <3> QED
      BY <1>0, <1>1, <2>1, <3>1 DEF Pend
  <2> QED
    BY <1>1, <1>2, <2>1, <2>2, <2>3 DEF Numbering
<1>6. Closing'
  BY <1>2 DEF Closing
<1>7. Coverage'
  BY <1>0, <1>1, <1>2 DEF EvInv, Coverage, Covers, Claims
<1> QED
  BY <1>3, <1>5, <1>6, <1>7 DEF EvInv

LEMMA PrepareEvidence ==
  ASSUME TInv, TInv', EvInv, Prepare \/ RecordRoom
  PROVE  EvInv'
<1>0. /\ pc \in {"identify", "pending"} /\ pc' \in {"pending", "write"} /\ Count' = Count
      /\ UNCHANGED <<files, partial, log, torn, crashes>>
      /\ m \in Memories /\ m.number \in Nat /\ m.all \in Nat
      /\ m'.number = m.number /\ m'.fresh = m.fresh
      /\ m'.all = m.all /\ m'.pending = m.pending /\ m'.started
      /\ pc' = "pending" => pc = "identify" /\ ~m.started
  <2>0. m \in Memories /\ m.number \in Nat /\ m.all \in Nat
    BY DEF TInv, Typed, Memories
  <2>1. CASE Prepare
    <3>1. m' = [m EXCEPT !.started = TRUE]
      BY <2>1 DEF Prepare
    <3>2. /\ m'.number = m.number /\ m'.fresh = m.fresh /\ m'.started = TRUE
          /\ m'.all = m.all /\ m'.pending = m.pending
      BY <2>0, <3>1 DEF Memories
    <3> QED
      BY <2>0, <2>1, <3>2, SameCount DEF Prepare, written, history
  <2>2. CASE RecordRoom
    BY <2>0, <2>2, SameCount DEF RecordRoom, written, history, TInv, Begun
  <2> QED
    BY <2>1, <2>2
<1>2. /\ pc \in Running /\ pc' \in Running /\ pc' \in Open /\ pc \in Open /\ pc # "idle"
      /\ pc' \notin Waiting /\ pc' \notin {"resume", "encode", "idle"} /\ pc \notin Waiting
  BY <1>0 DEF Running, Looping, Open, Resolving, Waiting
<1>3. manifest'.parts <= m.all
  <2>1. CASE Prepare
    BY <1>0, <2>1 DEF Prepare
  <2>2. CASE RecordRoom
    <3>1. manifest \in Manifests /\ m.started
      BY <1>0, <1>2, <2>2 DEF TInv, Begun, RecordRoom
    <3>2. manifest'.parts = manifest.parts
      BY <2>2, <3>1 DEF RecordRoom, Manifests
    <3> QED
      BY <1>2, <3>1, <3>2 DEF EvInv, Reads
  <2> QED
    BY <2>1, <2>2
<1>4. Reads'
  BY <1>0, <1>2, <1>3 DEF EvInv, Reads, LogReads, Claims
<1>5. Numbering'
  <2>1. m.number > 0 /\ Told(m.number - 1, TRUE) /\ ~m.fresh
    BY <1>0, <1>2 DEF EvInv, Numbering
  <2>2. Told(m.number - 1, TRUE)'
    BY <1>0, <2>1 DEF Told
  <2>3. pc' = "pending" => Pend(m.number - 1)'
    <3>1. ~m.started => Pend(m.number - 1)
      BY <1>2 DEF EvInv, Numbering
    <3> QED
      BY <1>0, <3>1 DEF Pend
  <2> QED
    BY <1>0, <1>2, <2>1, <2>2, <2>3 DEF Numbering
<1>6. Closing'
  BY <1>2 DEF Closing
<1>7. Coverage'
  BY <1>0, <1>2 DEF EvInv, Coverage, Covers, Claims
<1> QED
  BY <1>4, <1>5, <1>6, <1>7 DEF EvInv

LEMMA PendingEvidence ==
  ASSUME TInv, TInv', EvInv, AppendPending
  PROVE  EvInv'
<1> DEFINE r == Head(m.pending)
<1>0. /\ pc = "pending" /\ pc' = pc /\ Count' = Count /\ Count \in Nat
      /\ UNCHANGED <<files, partial, manifest, torn, crashes>>
      /\ m \in Memories /\ m.number \in Nat /\ m.all \in Nat
      /\ m.pending \in Seq(Numbered) /\ m.pending # <<>>
      /\ log \in Seq(Line) /\ log' = Append(log, r)
      /\ m' = [m EXCEPT !.pending = Tail(@)]
  BY SameCount DEF TInv, Typed, AppendPending, Append1, written, history, Memories, Line
<1>1. /\ m'.number = m.number /\ m'.fresh = m.fresh /\ m'.started = m.started
      /\ m'.all = m.all /\ m'.pending = Tail(m.pending)
  BY <1>0 DEF Memories
<1>2. /\ pc \in Running /\ pc \in Open /\ pc \notin Waiting /\ pc # "idle" /\ pc # "encode"
      /\ pc # "resume"
  BY <1>0 DEF Running, Looping, Open, Resolving, Waiting
<1>3. m.number > 0 /\ Told(m.number - 1, TRUE) /\ ~m.fresh /\ Pend(m.number - 1)
  BY <1>0, <1>2 DEF EvInv, Numbering
<1>4. /\ r \in Numbered /\ r \in Line /\ r = m.pending[1] /\ 1 \in DOMAIN m.pending
  BY <1>0 DEF Line
<1>5. /\ r.first = 0 /\ r.number <= m.number - 1
      /\ \A i \in DOMAIN log : log[i].number < r.number
  BY <1>3, <1>4 DEF Pend
<1>6. r.kind = "connection" /\ Claims(r) = {}
  BY <1>4, <1>5 DEF Claims, Numbered
<1> HIDE DEF r
<1>7. Reads'
  <2>1. LogReads'
    <3>1. LogReads /\ \A i \in DOMAIN log : Claims(log[i]) \cap Claims(r) = {}
      BY <1>6 DEF EvInv, Reads
    <3>2. Claims(r) \subseteq 1..Count /\ (r.kind = "resume" => r.next \in 1..Count + 1)
      BY <1>6
    <3> QED
      BY <1>0, <1>4, <1>5, <3>1, <3>2, AppendReads
  <2>2. \A i \in DOMAIN log' : log'[i] = r \/ (i \in DOMAIN log /\ log'[i] = log[i])
    BY <1>0
  <2>3. \A i \in DOMAIN log : Claims(log[i]) \subseteq 1..m.all
    BY <1>2 DEF EvInv, Reads
  <2>4. \A i \in DOMAIN log' : Claims(log[i])' \subseteq 1..m'.all
    BY <1>1, <1>6, <2>2, <2>3 DEF Claims
  <2>5. ~torn /\ (m.started => manifest.parts <= m.all)
    BY <1>2 DEF EvInv, Reads
  <2> QED
    BY <1>0, <1>1, <1>2, <2>1, <2>4, <2>5 DEF Reads
<1>8. Numbering'
  <2>1. Told(m.number - 1, TRUE)'
    <3>1. m.number - 1 \in Nat
      BY <1>0, <1>3
    <3> DEFINE n == m.number - 1
    <3>2. n' = n
      BY <1>1
    <3> HIDE DEF n
    <3>3. n \in Nat /\ Told(n, TRUE) /\ r.number <= n
      BY <1>3, <1>5, <3>1 DEF n
    <3>4. \A i \in DOMAIN log' : log'[i] = r \/ (i \in DOMAIN log /\ log'[i] = log[i])
      BY <1>0
    <3>5. Told(n, TRUE)'
      BY <3>2, <3>3, <3>4 DEF Told
    <3> QED
      BY <3>5 DEF n
  <2>2. Pend(m.number - 1)'
    <3>1. /\ DOMAIN m.pending = 1..Len(m.pending) /\ Len(m.pending) \in Nat \ {0}
          /\ DOMAIN Tail(m.pending) = 1..Len(m.pending) - 1
          /\ \A j \in DOMAIN Tail(m.pending) : Tail(m.pending)[j] = m.pending[j + 1]
      BY <1>0
    <3>2. \A i \in DOMAIN log' : log'[i] = r \/ (i \in DOMAIN log /\ log'[i] = log[i])
      BY <1>0
    <3>3. ASSUME NEW j \in DOMAIN Tail(m.pending)
          PROVE  /\ m'.pending[j].first = 0 /\ m'.pending[j].number <= m.number - 1
                 /\ \A i \in 1..j - 1 : m'.pending[i].number < m'.pending[j].number
                 /\ \A i \in DOMAIN log' : log'[i].number < m'.pending[j].number
      <4>1. j + 1 \in DOMAIN m.pending /\ m'.pending[j] = m.pending[j + 1] /\ j \in Nat \ {0}
        BY <1>1, <3>1
      <4>2. \A i \in 1..j - 1 : i + 1 \in 1..(j + 1) - 1 /\ m'.pending[i] = m.pending[i + 1]
        BY <1>1, <3>1
      <4>3. /\ m.pending[j + 1].first = 0 /\ m.pending[j + 1].number <= m.number - 1
            /\ \A i \in 1..(j + 1) - 1 : m.pending[i].number < m.pending[j + 1].number
            /\ \A i \in DOMAIN log : log[i].number < m.pending[j + 1].number
        BY <1>3, <4>1 DEF Pend
      <4>4. r.number < m.pending[j + 1].number
        <5>1. 1 \in 1..(j + 1) - 1
          BY <4>1
        <5> QED
          BY <1>4, <4>3, <5>1
      <4> QED
        BY <3>2, <4>1, <4>2, <4>3, <4>4
    <3> QED
      BY <1>1, <3>3 DEF Pend
  <2>3. m.started
    BY <1>0 DEF TInv, Begun
  <2> QED
    BY <1>0, <1>1, <1>2, <1>3, <2>1, <2>2, <2>3 DEF Numbering
<1>9. Closing'
  BY <1>0, <1>2 DEF Closing
<1>10. Coverage'
  <2>1. crashes = 0 => Covers(m.all)
    BY <1>2 DEF EvInv, Coverage
  <2>2. /\ \A i \in DOMAIN log' : Claims(log'[i]) = {} \/ (i \in DOMAIN log /\ log'[i] = log[i])
        /\ \A i \in DOMAIN log : i \in DOMAIN log' /\ log'[i] = log[i]
    BY <1>0, <1>6
  <2>3. \A x : (\E i \in DOMAIN log' : x \in Claims(log'[i]))
                 <=> \E i \in DOMAIN log : x \in Claims(log[i])
    BY <2>2
  <2>4. crashes = 0 => Covers(m.all)'
    BY <1>1, <2>1, <2>3 DEF Covers, Claims
  <2> QED
    BY <1>0, <1>1, <1>2, <2>4 DEF Coverage
<1> QED
  BY <1>7, <1>8, <1>9, <1>10 DEF EvInv

LEMMA IntervalsGrow ==
  ASSUME NEW a \in Nat, NEW b \in Nat, a <= b
  PROVE  1..a \subseteq 1..b /\ 1..a + 1 \subseteq 1..b + 1
  OBVIOUS

LEMMA MoreReads ==
  ASSUME LogReads, log' = log, Count \in Nat, Count' \in Nat, Count <= Count'
  PROVE  LogReads'
<1>1. 1..Count \subseteq 1..Count' /\ 1..Count + 1 \subseteq 1..Count' + 1
  BY IntervalsGrow
<1>2. \A j \in DOMAIN log : /\ Claims(log[j]) \subseteq 1..Count'
                            /\ log[j].kind = "resume" => log[j].next \in 1..Count' + 1
  BY <1>1 DEF LogReads
<1> QED
  BY <1>2 DEF LogReads, Claims

LEMMA WritingEvidence ==
  ASSUME TInv, TInv', EvInv, Tag \/ \E outcome \in Endings : ConnectionEnds(outcome)
  PROVE  EvInv'
<1>0. /\ pc = "write" /\ pc' \in {"write", "record"}
      /\ UNCHANGED <<manifest, log, torn, crashes>>
      /\ m'.number = m.number /\ m'.fresh = m.fresh /\ m'.started = m.started
      /\ m'.all = m.all /\ m'.pending = m.pending
      /\ Count \in Nat /\ Count' \in Nat
  <2>1. m \in Memories
    BY DEF TInv, Typed
  <2>2. CASE Tag
    BY <2>2 DEF Tag, disk, history, TInv, Typed
  <2>3. ASSUME NEW outcome \in Endings, ConnectionEnds(outcome)
        PROVE  /\ pc = "write" /\ pc' \in {"write", "record"}
               /\ UNCHANGED <<manifest, log, torn, crashes>>
               /\ m'.number = m.number /\ m'.fresh = m.fresh /\ m'.started = m.started
               /\ m'.all = m.all /\ m'.pending = m.pending
               /\ Count \in Nat /\ Count' \in Nat
    BY <2>1, <2>3 DEF ConnectionEnds, Ends, disk, history, Memories, TInv, Typed
  <2> QED
    BY <2>2, <2>3
<1>1. Count <= Count'
  <2>1. CASE files' = files
    BY <1>0, <2>1, SameCount
  <2>2. CASE files' = Closed
    BY <1>0, <2>2, ClosedTally
  <2>3. files' = files \/ files' = Closed
    <3>1. CASE Tag
      BY <3>1 DEF Tag, Tags, AvcHeader, AvcRepeated, AacHeader, Media
    <3>2. ASSUME NEW outcome \in Endings, ConnectionEnds(outcome)
          PROVE  files' = Closed
      BY <3>2 DEF ConnectionEnds, CloseWriter
    <3> QED
      BY <3>1, <3>2
  <2> QED
    BY <2>1, <2>2, <2>3
<1>2. /\ pc \in Running /\ pc' \in Running /\ pc' \in Open /\ pc \in Open /\ pc # "idle"
      /\ pc' \notin Waiting /\ pc' \notin {"resume", "encode", "idle", "pending"}
      /\ pc \notin Waiting
  BY <1>0 DEF Running, Looping, Open, Resolving, Waiting
<1>3. Reads'
  <2>1. LogReads'
    BY <1>0, <1>1, MoreReads DEF EvInv, Reads
  <2> QED
    BY <1>0, <1>2, <2>1 DEF EvInv, Reads, Claims
<1>4. Numbering'
  <2>1. m.number > 0 /\ Told(m.number - 1, TRUE) /\ ~m.fresh /\ m.started
    BY <1>0, <1>2 DEF EvInv, Numbering, TInv, Begun
  <2>2. Told(m.number - 1, TRUE)'
    BY <1>0, <2>1 DEF Told
  <2> QED
    BY <1>0, <1>2, <2>1, <2>2 DEF Numbering
<1>5. Closing'
  BY <1>2 DEF Closing
<1>6. Coverage'
  BY <1>0, <1>2 DEF EvInv, Coverage, Covers, Claims
<1> QED
  BY <1>3, <1>4, <1>5, <1>6 DEF EvInv

LEMMA RecordEvidence ==
  ASSUME TInv, TInv', EvInv, Record
  PROVE  EvInv'
<1> DEFINE r == ConnectionRecord
           p == IF m.started THEN m.pending ELSE Append(m.pending, r)
<1>0. /\ pc = "record" /\ pc' \in {"count", "after"} /\ Count' = Count /\ Count \in Nat
      /\ UNCHANGED <<files, partial, writer, manifest, torn, crashes>>
      /\ m \in Memories /\ m.number \in Nat /\ m.all \in Nat
      /\ m.pending \in Seq(Numbered) /\ log \in Seq(Line)
      /\ writer.retained \in Nat /\ m.started \in BOOLEAN
  BY SameCount DEF TInv, Typed, Record, written, history, Memories, Line, Writers
<1>1. /\ r \in Numbered /\ r \in Line /\ r.kind = "connection" /\ r.number = m.number
      /\ m.all + writer.retained \in Nat /\ m.all + writer.retained = Count
      /\ m.next = m.all + 1 /\ NextPart \in Nat
  <2>1. pc \in Running
    BY <1>0 DEF Running, Looping, Open
  <2> QED
    BY <1>0, <2>1, RecordIs DEF ConnectionRecord, Line, TInv, Tally
<1>2. Claims(r) = m.all + 1..m.all + writer.retained
  <2>1. CASE HasMedia
    <3>0. r.first = m.next /\ r.last = m.next + writer.retained - 1
      BY <2>1 DEF ConnectionRecord
    <3>1. r.first = m.all + 1 /\ r.last = m.all + writer.retained
      BY ONLY <1>0, <1>1, <3>0
    <3> QED
      BY <1>0, <1>1, <3>1 DEF Claims
  <2>2. CASE ~HasMedia
    <3>1. r.first = 0 /\ writer.retained = 0
      BY <1>0, <2>2 DEF ConnectionRecord, HasMedia
    <3> QED
      BY <1>0, <1>1, <3>1 DEF Claims
  <2> QED
    BY <2>1, <2>2
<1>3. /\ pc \in Running /\ pc \in Open /\ pc \notin Waiting /\ pc # "idle"
      /\ pc' \in Running \ (Open \cup Waiting) /\ pc' \notin {"resume", "encode", "idle", "pending"}
  BY <1>0 DEF Running, Looping, Open, Resolving, Waiting
<1>4. /\ m.number > 0 /\ Told(m.number - 1, TRUE) /\ ~m.fresh
      /\ ~m.started => Pend(m.number - 1)
      /\ ~m.started => writer.retained = 0 /\ log = <<>>
  BY <1>0, <1>3 DEF EvInv, Numbering, TInv, Begun
<1>5. m' = [m EXCEPT !.all = m.all + writer.retained, !.next = NextPart, !.pending = p]
  BY DEF Record
<1>6. p \in Seq(Numbered)
  BY <1>0, <1>1
<1> HIDE DEF r, p
<1>7. /\ m'.number = m.number /\ m'.fresh = m.fresh /\ m'.started = m.started
      /\ m'.all = m.all + writer.retained /\ m'.pending = p
  BY <1>0, <1>5, <1>6 DEF Memories
<1>8. /\ LogReads /\ \A i \in DOMAIN log : Claims(log[i]) \subseteq 1..m.all
      /\ ~torn /\ (m.started => manifest.parts <= m.all)
      /\ crashes = 0 => Covers(m.all)
  BY <1>3 DEF EvInv, Reads, Coverage
<1>9. ~m'.started => Pend(m.number)'
  <2> SUFFICES ASSUME ~m.started PROVE Pend(m.number)'
    BY <1>7
  <2>1. p = Append(m.pending, r) /\ log' = log /\ log = <<>> /\ r.first = 0
    <3>1. r.first = 0
      BY <1>4 DEF r, ConnectionRecord, HasMedia
    <3> QED
      BY <1>4, <3>1 DEF p, Record
  <2>2. /\ DOMAIN p = 1..Len(m.pending) + 1 /\ DOMAIN m.pending = 1..Len(m.pending)
        /\ Len(m.pending) \in Nat
        /\ \A j \in DOMAIN m.pending : p[j] = m.pending[j]
        /\ p[Len(m.pending) + 1] = r
    BY <1>0, <1>1, <2>1
  <2>a. \A j \in DOMAIN m.pending : m.pending[j] \in Numbered
    BY <1>0
  <2>b. \A j \in DOMAIN m.pending : m.pending[j].number \in Nat
    BY <2>a DEF Numbered
  <2>3. \A j \in DOMAIN m.pending :
          /\ m.pending[j].first = 0 /\ m.pending[j].number < m.number
          /\ \A i \in 1..j - 1 : m.pending[i].number < m.pending[j].number
    <3>1. Pend(m.number - 1)
      BY <1>4
    <3> QED
      BY <1>0, <2>b, <3>1 DEF Pend
  <2>4. ASSUME NEW j \in DOMAIN p
        PROVE  /\ p[j].first = 0 /\ p[j].number <= m.number
               /\ \A i \in 1..j - 1 : p[i].number < p[j].number
    <3>1. CASE j \in DOMAIN m.pending
      <4>1. \A i \in 1..j - 1 : i \in DOMAIN m.pending
        BY <2>2, <3>1
      <4> QED
        <5>1. p[j] = m.pending[j] /\ \A i \in 1..j - 1 : p[i] = m.pending[i]
          BY <2>2, <3>1, <4>1
        <5>2. /\ m.pending[j].first = 0 /\ m.pending[j].number <= m.number
              /\ \A i \in 1..j - 1 : m.pending[i].number < m.pending[j].number
          BY <1>0, <2>b, <2>3, <3>1
        <5> QED
          BY <5>1, <5>2
    <3>2. CASE j = Len(m.pending) + 1
      <4>1. \A i \in 1..j - 1 : i \in DOMAIN m.pending
        BY <2>2, <3>2
      <4>2. \A i \in DOMAIN m.pending : p[i].number < m.number
        BY <2>2, <2>3
      <4> QED
        BY <1>0, <1>1, <2>1, <2>2, <3>2, <4>1, <4>2
    <3>3. j \in DOMAIN m.pending \/ j = Len(m.pending) + 1
      BY <2>2
    <3> QED
      BY <3>1, <3>2, <3>3
  <2>5. DOMAIN log' = {}
    BY <2>1
  <2> QED
    BY <1>7, <2>4, <2>5 DEF Pend
<1>10. CASE log' = Append(log, r) /\ m.started
  <2>1. \A i \in DOMAIN log' : log'[i] = r \/ (i \in DOMAIN log /\ log'[i] = log[i])
    BY <1>0, <1>10
  <2>2. LogReads'
    <3>1. \A i \in DOMAIN log :
            \/ log[i].number < r.number
            \/ log[i].kind = "resume" /\ r.kind = "connection" /\ log[i].number = r.number
      <4>1. \A i \in DOMAIN log : log[i].number \in Nat
        BY <1>0 DEF Line, Numbered, Reserving
      <4> QED
        BY <1>0, <1>1, <1>4, <4>1 DEF Told
    <3>2. \A i \in DOMAIN log : Claims(log[i]) \cap Claims(r) = {}
      <4>1. 1..m.all \cap m.all + 1..m.all + writer.retained = {}
        BY <1>0
      <4> QED
        BY <1>2, <1>8, <4>1
    <3>3. Claims(r) \subseteq 1..Count /\ r.kind # "resume"
      BY <1>0, <1>1, <1>2
    <3> QED
      BY <1>0, <1>1, <1>8, <1>10, <3>1, <3>2, <3>3, AppendReads
  <2>3. \A i \in DOMAIN log' : Claims(log'[i]) \subseteq 1..m'.all
    <3>1. 1..m.all \subseteq 1..m'.all /\ m.all + 1..m.all + writer.retained \subseteq 1..m'.all
      BY <1>0, <1>7
    <3> QED
      BY <1>2, <1>8, <2>1, <3>1
  <2>4. Told(m.number, FALSE)'
    <3>1. \A i \in DOMAIN log : log[i].number <= m.number
      <4>1. \A i \in DOMAIN log : log[i].number \in Nat
        BY <1>0 DEF Line, Numbered, Reserving
      <4> QED
        BY <1>0, <1>4, <4>1 DEF Told
    <3>2. \A i \in DOMAIN log' : log'[i].number <= m.number
      BY <1>0, <1>1, <2>1, <3>1
    <3> QED
      BY <1>7, <3>2 DEF Told
  <2>5. crashes = 0 => Covers(m.all)'
    <3>1. \A x : (\E i \in DOMAIN log' : x \in Claims(log'[i]))
                   <=> (\E i \in DOMAIN log : x \in Claims(log[i])) \/ x \in Claims(r)
      <4>1. /\ DOMAIN log' = 1..Len(log) + 1 /\ DOMAIN log = 1..Len(log) /\ Len(log) \in Nat
            /\ \A i \in DOMAIN log : log'[i] = log[i]
            /\ log'[Len(log) + 1] = r
        BY <1>0, <1>1, <1>10
      <4> QED
        BY <4>1
    <3>2. \A x : x \in 1..m'.all <=> x \in 1..m.all \/ x \in Claims(r)
      BY <1>0, <1>2, <1>7
    <3> QED
      BY <1>8, <3>1, <3>2 DEF Covers, Claims
  <2>6. Reads'
    <3>1. m.started => manifest.parts <= m.all + writer.retained
      <4>1. manifest.parts \in Nat
        BY <1>3, <1>10 DEF TInv, Begun, Manifests
      <4> QED
        BY <1>0, <1>8, <4>1
    <3> QED
      BY <1>0, <1>3, <1>7, <1>8, <2>2, <2>3, <3>1 DEF Reads, Claims
  <2>7. Numbering'
    BY <1>3, <1>4, <1>7, <1>10, <2>4 DEF Numbering
  <2>8. Coverage'
    BY <1>0, <1>3, <1>7, <2>5 DEF Coverage
  <2> QED
    BY <1>3, <2>6, <2>7, <2>8 DEF EvInv, Closing
<1>11. CASE log' = log /\ writer.retained = 0
  <2>1. m'.all = m.all
    BY <1>0, <1>7, <1>11
  <2>2. LogReads'
    BY <1>0, <1>8, <1>11, MoreReads
  <2>3. Told(m.number, FALSE)'
    <3>1. \A i \in DOMAIN log : log[i].number \in Nat
      BY <1>0 DEF Line, Numbered, Reserving
    <3> QED
      BY <1>0, <1>4, <1>7, <1>11, <3>1 DEF Told
  <2>4. Reads'
    BY <1>0, <1>3, <1>7, <1>8, <1>11, <2>1, <2>2 DEF Reads, Claims
  <2>5. Numbering'
    BY <1>3, <1>4, <1>7, <1>9, <2>3 DEF Numbering
  <2>6. Coverage'
    BY <1>0, <1>3, <1>8, <1>11, <2>1 DEF Coverage, Covers, Claims
  <2> QED
    BY <1>3, <2>4, <2>5, <2>6 DEF EvInv, Closing
<1>12. \/ log' = Append(log, r) /\ m.started
       \/ log' = log /\ writer.retained = 0
  <2>1. CASE m.started /\ Persisted
    BY <2>1 DEF Record, Append1, r
  <2>2. CASE ~(m.started /\ Persisted)
    <3>1. log' = log
      BY <2>2 DEF Record
    <3>2. writer.retained = 0
      BY <1>0, <1>4, <2>2 DEF Persisted, TInv, Tally
    <3> QED
      BY <3>1, <3>2
  <2> QED
    BY <2>1, <2>2
<1> QED
  BY <1>10, <1>11, <1>12

LEMMA EndEvidence ==
  ASSUME TInv, TInv', EvInv, Finish \/ Encode \/ Fail
  PROVE  EvInv'
<1>0. /\ pc \in {"finish", "encode", "fail"} /\ pc' \in {"encode", "idle"}
      /\ Count' = Count /\ Count \in Nat
      /\ UNCHANGED <<files, partial, m, log, torn, crashes>>
      /\ m \in Memories /\ m.number \in Nat /\ m.all \in Nat
  BY SameCount DEF Finish, Encode, Fail, written, history, TInv, Typed, Memories
<1>1. /\ pc \in Running /\ pc \notin Open /\ pc \notin Waiting /\ pc # "idle" /\ pc # "resume"
      /\ pc' \notin Open /\ pc' \notin Waiting /\ pc' \notin {"resume", "pending"}
      /\ "idle" \notin Running
  BY <1>0, IdleNot DEF Running, Looping, Open, Resolving, Waiting
<1>2. /\ Told(m.number, FALSE) /\ ~m.fresh
      /\ ~m.started => Pend(m.number)
  BY <1>1 DEF EvInv, Numbering
<1>3. /\ m.all = Count /\ partial = NoPart
      /\ ~m.started => manifest = NoManifest /\ m.all = 0
      /\ m.started => manifest \in Manifests /\ manifest.parts <= m.all
      /\ pc = "encode" => m.started
  <2>1. m.all = Count /\ partial = NoPart
    BY <1>0, <1>1 DEF TInv, Tally
  <2>2. /\ ~m.started => manifest = NoManifest /\ m.all = 0
        /\ m.started => manifest \in Manifests
        /\ pc = "encode" => m.started
    BY <1>1 DEF TInv, Begun
  <2>3. m.started => manifest.parts <= m.all
    BY <1>1 DEF EvInv, Reads
  <2> QED
    BY <2>1, <2>2, <2>3
<1>4. \/ /\ m.started /\ manifest' \in Manifests
         /\ manifest'.connections = m.number /\ manifest'.parts = m.all
      \/ ~m.started /\ manifest' = manifest /\ pc' = "idle"
  <2>1. CASE m.started
    <3>1. pc = "encode" => manifest.connections = m.number /\ manifest.parts = m.all
      BY DEF EvInv, Closing
    <3>2. \E f \in {"running", "not_started", "completed", "failed"},
             st \in {"recording", "interrupted", "completed", "failed"} :
            \/ manifest' = [Counted EXCEPT !.final = f]
            \/ manifest' = [Counted EXCEPT !.final = f, !.status = st]
            \/ pc = "encode" /\ manifest' = [manifest EXCEPT !.final = f, !.status = st]
      BY <2>1 DEF Finish, Encode, Fail
    <3> QED
      BY <1>0, <1>3, <2>1, <3>1, <3>2 DEF Counted, Manifests
  <2>2. CASE ~m.started
    BY <1>3, <2>2 DEF Finish, Encode, Fail
  <2> QED
    BY <2>1, <2>2
<1>5. Reads'
  <2>1. LogReads'
    BY <1>0, MoreReads DEF EvInv, Reads
  <2>2. \A i \in DOMAIN log : Claims(log[i]) \subseteq 1..m.all
    BY <1>1 DEF EvInv, Reads
  <2>3. ~torn
    BY <1>1 DEF EvInv, Reads
  <2>4. pc' \in Running /\ m'.started => manifest'.parts <= m'.all
    BY <1>0, <1>4
  <2> QED
    BY <1>0, <2>1, <2>2, <2>3, <2>4 DEF Reads, Claims
<1>6. Numbering'
  <2>1. Told(m.number, FALSE)' /\ (~m.started => Pend(m.number))'
    BY <1>0, <1>2 DEF Told, Pend
  <2> QED
    BY <1>0, <1>1, <1>2, <2>1 DEF Numbering
<1>7. Closing'
  <2>1. CASE m.started
    <3>1. manifest'.connections = m'.number /\ manifest'.parts = m'.all /\ m'.all = Count'
      BY <1>0, <1>3, <1>4, <2>1
    <3>2. Told(manifest.connections, FALSE)'
      BY <1>0, <1>2, <3>1 DEF Told
    <3>3. manifest'.parts = Count' /\ manifest'.parts <= Count'
      BY <1>0, <3>1
    <3> QED
      BY <3>1, <3>2, <3>3 DEF Closing
  <2>2. CASE ~m.started
    <3>1. manifest' = NoManifest /\ pc' = "idle"
      BY <1>3, <1>4, <2>2
    <3> QED
      BY <3>1 DEF Closing
  <2> QED
    BY <2>1, <2>2
<1>8. Coverage'
  <2>1. crashes = 0 => Covers(m.all)
    BY <1>1 DEF EvInv, Coverage
  <2> QED
    BY <1>0, <1>1, <1>3, <2>1 DEF Coverage, Covers, Claims
<1> QED
  BY <1>5, <1>6, <1>7, <1>8 DEF EvInv

LEMMA CrashEvidence ==
  ASSUME TInv, TInv', EvInv, Crash
  PROVE  EvInv'
<1>0. /\ pc \in Running /\ pc' = "idle" /\ Count' = Count /\ Count \in Nat
      /\ UNCHANGED <<files, partial, manifest, log>>
      /\ crashes' = crashes + 1 /\ crashes \in Nat /\ m.all \in Nat
  BY SameCount DEF Crash, TInv, Typed, Memories
<1>1. /\ pc' \notin Running /\ pc' \notin Open /\ pc' \notin Waiting
      /\ pc' \notin {"resume", "pending", "encode"}
  BY <1>0, IdleNot DEF Open, Resolving, Waiting
<1>2. Reads'
  <2>1. LogReads'
    BY <1>0, MoreReads DEF EvInv, Reads
  <2> QED
    BY <1>0, <1>1, <2>1 DEF Reads
<1>3. Numbering'
  BY <1>1 DEF Numbering
<1>4. m.all <= Count
  <2>1. writer.retained \in Nat /\ m.next = m.all + 1
    BY <1>0 DEF TInv, Typed, Tally, Writers
  <2>2. CASE pc \in Open
    BY <1>0, <2>1, <2>2 DEF TInv, Tally
  <2>3. CASE pc \notin Open
    BY <1>0, <2>3 DEF TInv, Tally
  <2> QED
    BY <2>2, <2>3
<1>5. Closing'
  <2>1. manifest # NoManifest =>
          manifest.status = "recording" /\ manifest.parts <= m.all /\ manifest.parts \in Nat
    <3>1. manifest # NoManifest => m.started
      BY <1>0 DEF TInv, Begun
    <3>2. m.started => manifest \in Manifests /\ manifest.status = "recording"
                       /\ manifest.parts <= m.all
      BY <1>0 DEF TInv, Begun, EvInv, Reads
    <3> QED
      BY <3>1, <3>2 DEF Manifests
  <2>2. manifest # NoManifest => manifest.parts <= Count
    BY <1>0, <1>4, <2>1
  <2> QED
    BY <1>0, <2>1, <2>2 DEF Closing
<1>6. Coverage'
  BY <1>0 DEF Coverage
<1> QED
  BY <1>2, <1>3, <1>5, <1>6 DEF EvInv

LEMMA RecoverEvidence ==
  ASSUME TInv, TInv', EvInv, RecoverPartial
  PROVE  EvInv'
<1>0. /\ pc = "idle" /\ pc' = pc /\ partial # NoPart /\ Count \in Nat /\ Count' = Count + 1
      /\ UNCHANGED <<m, log, torn, crashes>>
      /\ manifest \in Manifests /\ manifest.status = "recording"
      /\ manifest' = [manifest EXCEPT !.parts = Count + 1]
  <2>1. Kept /\ files' = Closed /\ partial.index = Count + 1 /\ DOMAIN files = 1..Count
    BY DEF RecoverPartial, Kept, TInv, Tally
  <2>2. Count' = Count + 1
    BY <2>1, ClosedIs DEF TInv, Typed
  <2> QED
    BY <2>1, <2>2 DEF RecoverPartial, Kept, TInv, Typed, history
<1>1. /\ pc' \notin Running /\ pc' \notin Open /\ pc' \notin Waiting
      /\ pc' \notin {"resume", "pending", "encode"}
  BY <1>0, IdleNot DEF Open, Resolving, Waiting
<1>2. Reads'
  <2>1. LogReads'
    <3>1. Count' \in Nat /\ Count <= Count'
      BY <1>0
    <3> QED
      BY <1>0, <3>1, MoreReads DEF EvInv, Reads
  <2> QED
    BY <1>0, <1>1, <2>1 DEF Reads
<1>3. Numbering'
  BY <1>1 DEF Numbering
<1>4. Closing'
  <2>1. manifest'.parts = Count + 1 /\ manifest'.status = "recording"
    BY <1>0 DEF Manifests
  <2>2. manifest'.parts <= Count'
    BY <1>0, <2>1
  <2> QED
    BY <1>1, <2>1, <2>2 DEF Closing
<1>5. Coverage'
  <2>1. crashes # 0
    BY <1>0 DEF EvInv, Coverage
  <2> QED
    BY <1>0, <2>1 DEF Coverage
<1> QED
  BY <1>2, <1>3, <1>4, <1>5 DEF EvInv

LEMMA ResumeEvidence ==
  ASSUME TInv, TInv', EvInv, Resume
  PROVE  EvInv'
<1>0. /\ pc = "idle" /\ pc' = "resume" /\ partial = NoPart /\ Count' = Count
      /\ Continues \in Nat \ {0} /\ \A i \in DOMAIN log : log[i].number < Continues
      /\ manifest'.parts = Count /\ manifest' \in Manifests
  BY ResumeIs
<1>1. m' = Memory(Continues - 1, manifest.room, TRUE)
  BY ResumeIs
<1>2. /\ m'.number = Continues - 1 /\ m'.all = Count /\ m'.started /\ m'.fresh
      /\ m'.outage = FALSE
  BY <1>1 DEF Memory
<1>3. /\ UNCHANGED <<files, partial, log, torn, crashes>> /\ ~torn /\ LogReads
      /\ Count \in Nat /\ log \in Seq(Line)
  BY DEF Resume, Accepted, written, TInv, Typed, Line
<1>4. /\ pc' \in Running /\ pc' \notin Open /\ pc' \notin Waiting
      /\ pc' \notin {"pending", "encode", "idle"}
  BY <1>0 DEF Running, Looping, Open, Resolving, Waiting
<1>5. Reads'
  <2>1. LogReads'
    BY <1>0, <1>3, MoreReads
  <2>2. \A i \in DOMAIN log : Claims(log[i]) \subseteq 1..Count
    BY <1>3 DEF LogReads
  <2> QED
    BY <1>0, <1>2, <1>3, <2>1, <2>2 DEF Reads, Claims
<1>6. Numbering'
  <2>1. \A i \in DOMAIN log : log[i].number <= Continues - 1
    <3>1. \A i \in DOMAIN log : log[i].number \in Nat
      BY <1>3 DEF Line, Numbered, Reserving
    <3> QED
      BY <1>0, <3>1
  <2>2. Told(m.number, FALSE)'
    BY <1>2, <1>3, <2>1 DEF Told
  <2> QED
    BY <1>0, <1>2, <1>4, <2>2 DEF Numbering
<1>7. Closing'
  BY <1>4 DEF Closing
<1>8. Coverage'
  <2>1. crashes = 0 => Covers(Count)
    BY <1>0 DEF EvInv, Coverage
  <2> QED
    BY <1>0, <1>2, <1>3, <2>1 DEF Coverage, Covers, Claims
<1> QED
  BY <1>5, <1>6, <1>7, <1>8 DEF EvInv

LEMMA ReserveEvidence ==
  ASSUME TInv, TInv', EvInv, ReserveConnection
  PROVE  EvInv'
<1> DEFINE r == [kind |-> "resume", number |-> m.number + 1, next |-> m.next]
<1>0. /\ pc = "resume" /\ pc' = "top" /\ Count' = Count /\ Count \in Nat
      /\ UNCHANGED <<files, partial, m, manifest, torn, crashes>>
      /\ m.number \in Nat /\ m.all \in Nat /\ m.next \in Nat
      /\ log \in Seq(Line) /\ log' = Append(log, r)
  BY SameCount DEF TInv, Typed, ReserveConnection, Append1, written, history, Memories, Line
<1>1. /\ pc \in Running \ (Open \cup Waiting) /\ pc' \in Running /\ pc' \in Waiting
      /\ pc \notin Open /\ pc \notin Waiting /\ pc' \notin Open
      /\ pc' \notin {"resume", "pending", "encode", "idle"}
  BY <1>0 DEF Running, Looping, Open, Resolving, Waiting
<1>2. /\ Told(m.number, FALSE) /\ m.fresh /\ ~m.outage /\ m.started
      /\ m.next = Count + 1
  BY <1>0, <1>1 DEF EvInv, Numbering, TInv, Tally, Begun
<1>3. /\ r \in Line /\ r.kind = "resume" /\ r.number = m.number + 1 /\ r.next = Count + 1
      /\ Claims(r) = {}
  <2>1. r \in Reserving
    BY <1>0 DEF Reserving
  <2> QED
    BY <1>2, <2>1 DEF Line, Claims
<1> HIDE DEF r
<1>4. \A i \in DOMAIN log' : log'[i] = r \/ (i \in DOMAIN log /\ log'[i] = log[i])
  BY <1>0
<1>5. \A i \in DOMAIN log : log[i].number <= m.number
  BY <1>2 DEF Told
<1>6. Reads'
  <2>1. LogReads'
    <3>1. \A i \in DOMAIN log : log[i].number < r.number
      <4>1. \A i \in DOMAIN log : log[i].number \in Nat
        BY <1>0 DEF Line, Numbered, Reserving
      <4> QED
        BY <1>0, <1>3, <1>5, <4>1
    <3>2. LogReads /\ \A i \in DOMAIN log : Claims(log[i]) \cap Claims(r) = {}
      BY <1>3 DEF EvInv, Reads
    <3>3. Claims(r) \subseteq 1..Count /\ r.next \in 1..Count + 1
      BY <1>0, <1>3
    <3> QED
      BY <1>0, <1>3, <3>1, <3>2, <3>3, AppendReads
  <2>2. \A i \in DOMAIN log' : Claims(log'[i]) \subseteq 1..m.all
    BY <1>1, <1>3, <1>4 DEF EvInv, Reads
  <2>3. ~torn /\ manifest.parts <= m.all
    BY <1>0, <1>1, <1>2 DEF EvInv, Reads
  <2> QED
    BY <1>0, <2>1, <2>2, <2>3 DEF Reads, Claims
<1>7. Numbering'
  <2>1. Told(m.number, TRUE)'
    BY <1>0, <1>3, <1>4, <1>5 DEF Told
  <2>2. Told(m.number, m.fresh)'
    BY <1>0, <1>2, <2>1 DEF Told
  <2> QED
    BY <1>0, <1>1, <1>2, <2>2 DEF Numbering
<1>8. Closing'
  BY <1>1 DEF Closing
<1>9. Coverage'
  <2>1. crashes = 0 => Covers(m.all)
    BY <1>0 DEF EvInv, Coverage
  <2>2. \A i \in DOMAIN log' : Claims(log'[i]) = {} \/ (i \in DOMAIN log /\ log'[i] = log[i])
    BY <1>3, <1>4
  <2>3. \A i \in DOMAIN log : i \in DOMAIN log' /\ log'[i] = log[i]
    BY <1>0
  <2>4. \A x : (\E i \in DOMAIN log' : x \in Claims(log'[i]))
                 <=> \E i \in DOMAIN log : x \in Claims(log[i])
    BY <2>2, <2>3
  <2>5. crashes = 0 => Covers(m.all)'
    BY <1>0, <2>1, <2>4 DEF Covers, Claims
  <2> QED
    BY <1>0, <1>1, <2>5 DEF Coverage
<1> QED
  BY <1>6, <1>7, <1>8, <1>9 DEF EvInv

LEMMA EvidenceStep ==
  ASSUME ~StopsBeforeConnecting, TInv, TInv', EvInv, [Next]_vars
  PROVE  EvInv'
<1>1. CASE UNCHANGED vars
  <2>1. Count' = Count /\ UNCHANGED vars
    BY <1>1, SameCount DEF vars
  <2> QED
    BY <2>1 DEF vars, EvInv, Reads, Numbering, Closing, Coverage, LogReads, Claims, Told, Pend,
                Covers
<1> QED
  BY <1>1, Steps, ThinkingEvidence, AttemptEvidence, PrepareEvidence, PendingEvidence,
     WritingEvidence, RecordEvidence, EndEvidence, CrashEvidence, RecoverEvidence,
     ResumeEvidence, ReserveEvidence

LEMMA EvidenceHolds ==
  ASSUME TInv, EvInv
  PROVE  EvidenceAccepted
<1> SUFFICES ASSUME pc = "idle", manifest # NoManifest, ~torn
             PROVE  /\ Accepted
                    /\ crashes = 0 => UNION {Claims(log[i]) : i \in DOMAIN log} = DOMAIN files
  BY DEF EvidenceAccepted
<1>1. /\ LogReads /\ log \in Seq(Numbered \cup Reserving) /\ manifest \in Manifests
      /\ manifest.parts <= Count /\ DOMAIN files = 1..Count
      /\ manifest.status # "recording" =>
           manifest.parts = Count /\ Told(manifest.connections, FALSE)
  BY DEF EvInv, Reads, Closing, TInv, Typed, Tally
<1>2. ~Predates
  <2> SUFFICES ASSUME manifest.status # "recording"
               PROVE  ~(Logged > manifest.connections)
    BY DEF Predates
  <2>1. manifest.connections \in Nat
    BY <1>1 DEF Manifests
  <2>2. \A i \in DOMAIN log : log[i].number <= manifest.connections
    BY <1>1 DEF Told
  <2>3. /\ Logged \in Nat
        /\ log # <<>> => \E i \in DOMAIN log : log[i].number = Logged
        /\ log = <<>> => Logged = 0
    BY <1>1, LoggedIs
  <2> QED
    BY <2>1, <2>2, <2>3
<1>3. Accepted
  BY <1>1, <1>2 DEF Accepted
<1>4. crashes = 0 => UNION {Claims(log[i]) : i \in DOMAIN log} = DOMAIN files
  BY <1>1 DEF EvInv, Coverage, Covers
<1> QED
  BY <1>3, <1>4

(* Whatever a capture leaves behind (live.py, live_resume.py), by           *)
(* returning, by failing or by dying between any two of its writes, the     *)
(* readers of session_resume.py accept, but for a line the crash cut: the   *)
(* lines are numbered in order, claim no part twice and none that is        *)
(* missing, and agree with the counts of the manifest; and without a crash  *)
(* they claim every part.  This rests on a resume that is not stopped       *)
(* before its first connection: one that is leaves a closed manifest behind *)
(* its log.                                                                 *)
THEOREM EvidenceIsAccepted ==
  ASSUME ~StopsBeforeConnecting
  PROVE  Spec => []EvidenceAccepted
<1>1. Init => TInv /\ EvInv
  <2> SUFFICES ASSUME Init PROVE EvInv
    BY InitTInv
  <2>1. /\ pc = "top" /\ log = <<>> /\ torn = FALSE /\ Count = 0
        /\ m = Memory(0, NoRoom, FALSE)
    BY InitTInv DEF Init
  <2>2. /\ DOMAIN log = {} /\ 1..0 = {}
    BY <2>1
  <2>3. /\ m.started = FALSE /\ m.fresh = FALSE /\ m.all = 0 /\ DOMAIN m.pending = {}
    BY <2>1 DEF Memory
  <2>4. pc \in Waiting /\ pc \notin Open
    BY <2>1 DEF Waiting, Open, Resolving
  <2>5. Reads /\ Closing
    BY <2>1, <2>2, <2>3 DEF Reads, LogReads, Closing
  <2>6. Numbering
    BY <2>1, <2>2, <2>3, <2>4 DEF Numbering, Told, Pend
  <2>7. Coverage
    BY <2>1, <2>2, <2>3 DEF Coverage, Covers
  <2> QED
    BY <2>5, <2>6, <2>7 DEF EvInv
<1>2. TInv /\ EvInv /\ [Next]_vars => (TInv /\ EvInv)'
  BY StepTInv, EvidenceStep
<1>3. TInv /\ EvInv => EvidenceAccepted
  BY EvidenceHolds
<1> QED
  BY <1>1, <1>2, <1>3, PTL DEF Spec
=============================================================================
