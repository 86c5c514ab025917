----------------------------- MODULE PartWriter -----------------------------
(***************************************************************************)
(* The writer of one connection (writer.py) over the parts directory, and  *)
(* the structural check that a later resume, recovery or retention run     *)
(* applies to every part it finds (session_parts.py).  A part is known by  *)
(* the facts that check reads; bytes and timestamps are left out, except   *)
(* that a part is rebased to the keyframe it starts with.                  *)
(***************************************************************************)
EXTENDS Naturals, FiniteSets

CONSTANTS Configs,      \* AVC decoder configurations a source may announce
          NoConfig, NoPart,
          HeadersFirst, \* the source sends its AAC header before AAC media
          MaxParts      \* bound on the part numbers of a session

ASSUME WriterAssumption == NoConfig \notin Configs /\ HeadersFirst \in BOOLEAN

VARIABLES files,        \* the closed parts: number -> part
          partial,      \* the `.partial` of the open part, or NoPart
          writer        \* the call of write_parts: first number, parts
                        \* retained, configuration and AAC header seen

Part(i, c, room) ==
  [index |-> i, config |-> c, room |-> room, started |-> FALSE, keyed |-> FALSE,
   changed |-> FALSE, audible |-> FALSE, deaf |-> FALSE]

Fresh(start) ==
  [start |-> start, retained |-> 0, config |-> NoConfig, aac |-> FALSE]

(* An open part that holds media is renamed to its number when it closes;   *)
(* one without is removed, and its number is given to the next part.        *)
Kept == partial # NoPart /\ partial.started
Closed ==
  IF Kept THEN [i \in DOMAIN files \cup {partial.index} |->
                  IF i = partial.index THEN partial ELSE files[i]]
  ELSE files
Retained == writer.retained + (IF Kept THEN 1 ELSE 0)

Splits(c) == writer.config # c

(* A changed configuration closes the open part and opens the next one.     *)
AvcHeader(c, room) ==
  /\ Splits(c)
  /\ writer.start + Retained <= MaxParts
  /\ files' = Closed
  /\ partial' = Part(writer.start + Retained, c, room)
  /\ writer' = [writer EXCEPT !.retained = Retained, !.config = c]

(* Any other header goes into the part that has begun.                      *)
AvcRepeated(c) ==
  /\ ~Splits(c) /\ Kept
  /\ partial' = [partial EXCEPT !.changed = @ \/ c # partial.config]
  /\ UNCHANGED <<files, writer>>

AacHeader ==
  /\ writer' = [writer EXCEPT !.aac = TRUE]
  /\ partial' = IF Kept THEN [partial EXCEPT !.audible = TRUE] ELSE partial
  /\ UNCHANGED files

(* The keyframe gate: media before the first keyframe of a part is dropped, *)
(* and the part then begins with its own configuration, the latest AAC      *)
(* header and the keyframe.  Audio is written whether its header was seen   *)
(* or not; what the source does about it is its own (HeadersFirst).         *)
StartsAny(kind) == TRUE
Starts(kind) == kind = "key"
Carried == writer.aac

Media(kind) ==
  /\ partial # NoPart
  /\ HeadersFirst /\ kind = "audio" => writer.aac
  /\ \/ /\ Kept
        /\ partial' = [partial EXCEPT !.deaf = @ \/ (kind = "audio" /\ ~partial.audible)]
     \/ /\ ~Kept /\ Starts(kind)
        /\ partial' = [partial EXCEPT !.started = TRUE, !.keyed = kind = "key",
                                      !.audible = Carried,
                                      !.deaf = kind = "audio" /\ ~Carried]
  /\ UNCHANGED <<files, writer>>

(* The end of the stream, an error and a stop all close the open part.      *)
CloseWriter ==
  /\ files' = Closed
  /\ partial' = NoPart
  /\ writer' = [writer EXCEPT !.retained = Retained]

WriterInit == /\ files = [i \in {} |-> NoPart]
              /\ partial = NoPart
              /\ writer = Fresh(1)

Tags(room) == \/ \E c \in Configs : AvcHeader(c, room) \/ AvcRepeated(c)
              \/ AacHeader
              \/ \E kind \in {"key", "inter", "audio"} : Media(kind)

(* session_parts._check_structure and discover_parts.                       *)
Sound(part) == part.keyed /\ ~part.changed /\ ~part.deaf
Count == Cardinality(DOMAIN files)
Discoverable == /\ partial = NoPart
                /\ DOMAIN files = 1..Count
                /\ \A i \in DOMAIN files : Sound(files[i])
=============================================================================
