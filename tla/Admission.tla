------------------------------ MODULE Admission ------------------------------
(***************************************************************************)
(* What becomes of a request: GET /health and POST /jobs of app/main.py,   *)
(* from the body (BodyLimit) through the checks of post_job, which ask the *)
(* cached probes (ProbeCache) that the thread started by lifespan asks at  *)
(* the same time, to the worker that makes the checks again in             *)
(* run_encode_job.                                                         *)
(*                                                                         *)
(* There is one client.  It may ask for /health at any time, as            *)
(* scripts/e2e_encode.py does before it submits.  The manager is reduced   *)
(* to the one job; JobManager is about the rest of it.                     *)
(***************************************************************************)
EXTENDS ProbeCache, BodyLimit, SequencesExt

CONSTANTS Client, Starter,  \* the two callers of the probes
          Real, File        \* where a source path may lead to; the files there

\* What POST /jobs answers; "probe_error" is the 500 of a probe that raised.
Codes == {"request_too_large", "cut off", "invalid_request", "path_not_allowed",
          "source_not_found_on_encoder", "preset_not_found", "encoder_unavailable",
          "invalid_video_preset", "queue_full", "service_unavailable", "probe_error", "accepted"}

ASSUME AdmissionAssumption ==
  /\ {Client, Starter} = Caller /\ Client # Starter
  /\ {"encoders", "x264"} \subseteq Key
  /\ Real \subseteq Seq(STRING)
  /\ None \notin Codes \cup Answer

VARIABLES
  roots,       \* config.ALLOWED_ROOTS
  real,        \* where the source path leads to now
  doc,         \* preset_json
  starting,    \* the thread started by lifespan has not called yet
  at,          \* what the client's request does next
  info,        \* what handbrake_info has cached
  listed,      \* what /health told last, as check_health sees it
  answer,      \* of POST /jobs
  job,         \* "none", "stored", "working", "failed" or "done"
  encoding,    \* what run_encode_job has found out: source and preset
  moved,       \* the path has changed since the route looked at it
  link         \* the source to which a link at the job's output path leads, if any

requestVars == <<at, answer, doc>>
fileVars == <<real, moved, link>>
jobVars == <<job, encoding>>
healthVars == <<starting, info, listed>>
allVars == <<vars, bodyVars, requestVars, fileVars, jobVars, healthVars, roots>>

-----------------------------------------------------------------------------
(* app/paths.py.  A path is the sequence of its components.                  *)

Root == <<"media1">>

\* Mutant: the root is compared as a string: /media1x begins with /media1.
IsWithinPrefix(candidate, root) == candidate[1] \in {"media1", "media1x"}
IsWithin(candidate, root) == IsPrefix(root, candidate)

\* NoPath stands for one with a NUL in it.
NoPath == <<>>

\* Mutant: a NUL in the path is nobody's fault.
ValidateSourcePathNul ==
  IF real = NoPath THEN "internal_error"
  ELSE IF roots = {} \/ ~\E root \in roots : IsWithin(real, root) THEN "path_not_allowed"
  ELSE IF real \notin File THEN "source_not_found_on_encoder" ELSE "valid"

\* Why there is no source, if there is none.
ValidateSourcePath ==
  IF roots = {} \/ real = NoPath \/ ~\E root \in roots : IsWithin(real, root)
    THEN "path_not_allowed"
  ELSE IF real \notin File THEN "source_not_found_on_encoder" ELSE "valid"

\* derive_output_path and derive_staging_path: beside the source.
Derive(source, name) == Append(Front(source), name)

-----------------------------------------------------------------------------
(* app/presets.py.  A document is a sequence of nodes, or not even that.     *)

Leaf(name, encoder, container, speed) ==
  [kind |-> "leaf", name |-> name, encoder |-> encoder, container |-> container,
   speed |-> speed]
Folder(name, children) == [kind |-> "folder", name |-> name, children |-> children]
Junk == [kind |-> "junk"]  \* a node that is no dict

Name == "wanted"
\* A speed preset may have blanks around it; " " is none, or one that is no string.
Good    == Leaf(Name, "x264", "mkv", " fast ")
Leaves  == {Good, Leaf(Name, "x264", "mkv", " "), Leaf(Name, "x264", "mkv", "quality"),
            Leaf(Name, "qsv", "mkv", " "), Leaf(Name, "", "mkv", " "),
            Leaf(Name, "x264", "", " "), Leaf("other", "x264", "mkv", " ")}

\* Two nodes, of which the first may be a folder with two.
Folders   == {Folder(Name, <<leaf, Good>>) : leaf \in Leaves}
Documents == {<<>>} \cup {<<node, Good>> : node \in Leaves \cup Folders \cup {Junk}}

NoPreset == Leaf("", "", "", " ")
FirstCalled(leaves) ==
  LET called == {i \in DOMAIN leaves : leaves[i].name = Name} IN
  IF called = {} THEN NoPreset ELSE leaves[Min(called)]

\* iter_presets: every leaf, depth-first, in document order.
Lists == Documents \cup {folder.children : folder \in Folders}
IterPresets[nodes \in Lists] ==
  FlattenSeq([i \in DOMAIN nodes |->
                CASE nodes[i].kind = "folder" -> IterPresets[nodes[i].children]
                  [] nodes[i].kind = "leaf"   -> <<nodes[i]>>
                  [] OTHER                    -> <<>>])

\* Mutant: only the top of the document is searched.
FindPresetFlat(nodes) == FirstCalled(SelectSeq(nodes, LAMBDA node : node.kind = "leaf"))
FindPreset(nodes) == FirstCalled(IterPresets[nodes])

\* Mutant: the route does not look at the container.
RouteAcceptsAnyContainer(preset) == preset # NoPreset /\ preset.encoder # ""

\* preset_encoder, preset_extension and preset_video_preset: the first two raise
\* when there is none.
HasEncoder(preset)   == preset.encoder # ""
HasExtension(preset) == preset.container # ""
VideoPreset(preset)  ==
  CASE preset.speed = " fast " -> "fast" [] preset.speed = " " -> "" [] OTHER -> preset.speed

\* What post_job asks of the preset, and what run_encode_job asks again.
RouteAccepts(preset)  == preset # NoPreset /\ HasEncoder(preset) /\ HasExtension(preset)
WorkerAccepts(preset) == preset # NoPreset /\ HasEncoder(preset) /\ HasExtension(preset)

-----------------------------------------------------------------------------
(* What HandBrakeCLI prints (external), and what the parsers of encoders.py  *)
(* make of it.  A line is a flag, a word or several on an indented line, the *)
(* header of a list, blank, or a text that is not indented.                  *)

Provided == {"x264"}  \* its encoders; of this one it knows the speed preset "fast"

Help == <<[is |-> "flag", of |-> "quality"], [is |-> "word", of |-> "auto"],
          [is |-> "flag", of |-> "encoder"], [is |-> "word", of |-> "x264"],
          [is |-> "words", of |-> "more"],
          [is |-> "flag", of |-> "other"], [is |-> "word", of |-> "qsv"]>>
PresetList == <<[is |-> "text", of |-> "opening"], [is |-> "header", of |-> "x264"],
                [is |-> "blank", of |-> ""], [is |-> "word", of |-> "fast"],
                [is |-> "words", of |-> "unsupported"], [is |-> "text", of |-> "exited"],
                [is |-> "word", of |-> "other"]>>

\* The lines that follow the i-th, up to the next of a kind that ends the block.
Block(lines, i, Ends) ==
  {k \in (i + 1)..Len(lines) : \A l \in (i + 1)..k : lines[l].is \notin Ends}
Words(lines, block) == {lines[k].of : k \in {l \in block : lines[l].is = "word"}}

\* The indented block that follows the flag -e, up to the next flag.
ParseEncoderList(lines) ==
  LET flags == {i \in DOMAIN lines : lines[i] = [is |-> "flag", of |-> "encoder"]} IN
  IF flags = {} THEN {} ELSE Words(lines, Block(lines, Min(flags), {"flag"}))

\* The block that follows the header, if that names the encoder asked about, up to
\* the next line that is not indented.
ParsePresetList(lines, encoder) ==
  LET headers == {i \in DOMAIN lines : lines[i].is = "header"} IN
  IF headers = {} \/ lines[Min(headers)].of # encoder THEN {}
  ELSE Words(lines, Block(lines, Min(headers), {"text", "flag", "header"}))

\* What a probe found out: nothing, if it failed.
Available(probe) == IF probe.ok THEN ParseEncoderList(Help) ELSE {}
SpeedsOf(probe)  == IF probe.ok THEN ParsePresetList(PresetList, "x264") ELSE {}

\* A caller asks, and has its answer: see ProbeCache.
Ask(k) ==
  Lookup(Client, k) /\ UNCHANGED <<requestVars, bodyVars, fileVars, jobVars, healthVars, roots>>
Answered == Return(Client) /\ UNCHANGED <<bodyVars, fileVars, roots>>

-----------------------------------------------------------------------------
(* GET /health. *)

GetHealth ==
  /\ at = "idle" /\ upload = "none"
  /\ at' = "info" /\ answer' = None
  /\ doc' = IF job \in {"stored", "working"} THEN doc ELSE <<>>
  /\ UNCHANGED <<vars, bodyVars, fileVars, jobVars, healthVars, roots>>

\* handbrake_info runs HandBrakeCLI once and keeps what came of it.
HandbrakeInfo(ok) ==
  /\ at = "info"
  /\ info' = IF info = None THEN ok ELSE info
  /\ at' = "list"
  /\ UNCHANGED <<vars, bodyVars, answer, doc, fileVars, jobVars, starting, listed, roots>>

\* There is a reason to call the service degraded.
Reasons(available) == ~info \/ available = {} \/ roots = {}

\* The presets of every encoder are asked for; check_health of the script looks
\* at the rest.  What it is told is worth something if it is what is cached and no
\* other caller's probe is still on its way.
ListEncoders ==
  /\ at = "list" /\ Answered
  /\ listed' = /\ ~Reasons(Available(found[Client]))
               /\ found[Client] = cache["encoders"] /\ pc[Starter] \notin {"probe", "store"}
  /\ at' = IF Available(found[Client]) = {} THEN "idle" ELSE "list presets"
  /\ UNCHANGED <<answer, doc, jobVars, starting, info>>

ListPresets ==
  /\ at = "list presets" /\ Answered
  /\ at' = "idle"
  /\ UNCHANGED <<answer, doc, jobVars, healthVars>>

\* The probe of the encoders raises (the one that decodes strictly), and with it
\* the request.
RequestRaises ==
  /\ at \in {"list", "encoder", "refusal"} /\ ProbeRaises(Client)
  /\ at' = "idle" /\ answer' = IF at = "list" THEN None ELSE "probe_error"
  /\ UNCHANGED <<doc, bodyVars, fileVars, jobVars, healthVars, roots>>

-----------------------------------------------------------------------------
(* POST /jobs. *)

Refuse(code) == at' = "idle" /\ answer' = code

\* The request comes, and its body is read (BodyLimit).  Its job, if it comes to one,
\* will have an id of its own, so nothing stands at its output path.
Submit(length) ==
  /\ at = "idle" /\ job \in {"none", "failed", "done"}
  /\ Open(length)
  /\ IF upload' = "rejected" THEN Refuse("request_too_large") ELSE at' = "body" /\ answer' = None
  /\ job' = "none" /\ encoding' = None /\ doc' = <<>> /\ link' = None
  /\ UNCHANGED <<vars, real, moved, healthVars, roots>>

\* It is received message by message, also after it has been cut off.
Upload ==
  /\ at = "body"
  /\ ClientGone \/ \E n \in 0..MaxSize, more \in BOOLEAN : Receive(n, more)
  /\ IF upload' = "whole"
       THEN \/ Refuse("invalid_request") /\ doc' = doc
            \/ at' = "route" /\ answer' = answer /\ doc' \in Documents
       ELSE UNCHANGED requestVars
  /\ UNCHANGED <<vars, fileVars, jobVars, healthVars, roots>>

\* The application (external) gives up on a request that was cut off.
GiveUp ==
  /\ at = "body" /\ upload = "cut"
  /\ Refuse("cut off")
  /\ Close
  /\ UNCHANGED <<vars, doc, fileVars, jobVars, healthVars, roots>>

\* The request has been answered before its body was received, or for its body.
BodyOver ==
  /\ at = "idle" /\ Close
  /\ UNCHANGED <<vars, requestVars, fileVars, jobVars, healthVars, roots>>

\* The checks that ask nobody; the body has been read.
Validate ==
  /\ at = "route"
  /\ IF ValidateSourcePath # "valid" THEN Refuse(ValidateSourcePath)
     ELSE IF ~RouteAccepts(FindPreset(doc)) THEN Refuse("preset_not_found")
     ELSE at' = "encoder" /\ answer' = answer
  /\ moved' = FALSE
  /\ Close
  /\ UNCHANGED <<vars, doc, real, link, jobVars, healthVars, roots>>

\* is_available; for its reply a refusal asks available_encoders again.
CheckEncoder ==
  /\ at = "encoder" /\ Answered
  /\ at' = IF FindPreset(doc).encoder \in Available(found[Client]) THEN "speed" ELSE "refusal"
  /\ UNCHANGED <<answer, doc, jobVars, healthVars>>
RefuseEncoder ==
  /\ at = "refusal" /\ Answered
  /\ Refuse("encoder_unavailable")
  /\ UNCHANGED <<doc, jobVars, healthVars>>

\* Mutant: an empty list of speed presets is one.
RefusesSpeedUnknown(speed, valid) == speed # "" /\ speed \notin valid
RefusesSpeed(speed, valid) == speed # "" /\ valid # {} /\ speed \notin valid

CheckSpeed ==
  /\ at = "speed" /\ Answered
  /\ IF RefusesSpeed(VideoPreset(FindPreset(doc)), SpeedsOf(found[Client]))
       THEN Refuse("invalid_video_preset")
       ELSE at' = "submit" /\ answer' = answer
  /\ UNCHANGED <<doc, jobVars, healthVars>>

\* submit(): there is no room, or the manager is not running, or the job is stored.
SubmitJob ==
  /\ at = "submit"
  /\ \/ Refuse("queue_full") /\ job' = job
     \/ at' = "look" /\ answer' = answer /\ job' \in {"none", "stored"}
  /\ UNCHANGED <<vars, bodyVars, doc, fileVars, encoding, healthVars, roots>>

\* Mutant: a job that has failed counts as one that was never accepted.
NotStoredFailed == job \in {"none", "failed"}
\* manager.get(job.id) is None
NotStored == job = "none"

LookUp ==
  /\ at = "look"
  /\ Refuse(IF NotStored THEN "service_unavailable" ELSE "accepted")
  /\ UNCHANGED <<vars, bodyVars, doc, fileVars, jobVars, healthVars, roots>>

-----------------------------------------------------------------------------
(* The worker, the startup thread, and the media share. *)

\* Mutant: the worker relies on the route's check of the path.
RevalidatedByRoute == "valid"
Revalidated == ValidateSourcePath

\* os.path.realpath(dst) == src
Collides == link = real

\* Why run_encode_job does not come to the encode, if it does not.
Refusal ==
  IF Revalidated # "valid" THEN Revalidated
  ELSE IF ~WorkerAccepts(FindPreset(doc)) THEN "preset"
  ELSE IF Collides THEN "collision"
  ELSE None

\* run_encode_job up to the encode, which EncodeJob is about.
Work ==
  /\ job = "stored"
  /\ job' = IF Refusal = None THEN "working" ELSE "failed"
  /\ encoding' = [why |-> Refusal, preset |-> FindPreset(doc), source |-> real,
                  output |-> Derive(real, "output")]
  /\ UNCHANGED <<vars, bodyVars, requestVars, fileVars, healthVars, roots>>

\* The encode ends; the output takes the place of what stands at its path.
Finish ==
  /\ job = "working" /\ job' \in {"failed", "done"}
  /\ encoding' = None
  /\ link' = IF job' = "done" THEN None ELSE link
  /\ UNCHANGED <<vars, bodyVars, requestVars, real, moved, healthVars, roots>>

\* The thread of lifespan.
StartupProbe ==
  /\ starting /\ Lookup(Starter, "encoders")
  /\ starting' = FALSE
  /\ UNCHANGED <<requestVars, bodyVars, fileVars, jobVars, info, listed, roots>>

\* Somebody moves the file or changes a link on its path.
Move ==
  /\ real # NoPath /\ real' \in Real \ {real, NoPath}
  /\ moved' = TRUE
  /\ UNCHANGED <<vars, bodyVars, requestVars, link, jobVars, healthVars, roots>>

\* Somebody who has the id, which came with the 202, puts a link to the source at the
\* job's output path.
Plant ==
  /\ job = "stored" /\ answer = "accepted" /\ link = None
  /\ link' = real
  /\ UNCHANGED <<vars, bodyVars, requestVars, real, moved, jobVars, healthVars, roots>>

-----------------------------------------------------------------------------

AdmissionInit ==
  /\ Init /\ BodyInit
  /\ roots \in {{}, {Root}} /\ real \in Real
  /\ moved = FALSE /\ link = None
  /\ doc = <<>> /\ at = "idle" /\ answer = None
  /\ starting = TRUE /\ info = None /\ listed = FALSE
  /\ job = "none" /\ encoding = None

\* What a caller asks for next.
Asks ==
  \/ at \in {"list", "encoder", "refusal"} /\ Ask("encoders")
  \/ at \in {"list presets", "speed"} /\ Ask("x264")

\* The caches' own steps; what /health has told holds until a reset.
Probes ==
  /\ \/ \E c \in Caller : (\E ok \in BOOLEAN : Probe(c, ok)) \/ Store(c)
     \/ Return(Starter) \/ ProbeRaises(Starter)
     \/ Reset
  /\ listed' = (listed /\ generation' = generation)
  /\ UNCHANGED <<requestVars, bodyVars, fileVars, jobVars, starting, info, roots>>

AdmissionNext ==
  \/ GetHealth \/ (\E ok \in BOOLEAN : HandbrakeInfo(ok)) \/ ListEncoders \/ ListPresets
  \/ RequestRaises
  \/ \E length \in 0..(MaxSize + 1) \cup {NoLength} : Submit(length)
  \/ Upload \/ GiveUp \/ BodyOver
  \/ Validate \/ CheckEncoder \/ RefuseEncoder \/ CheckSpeed \/ SubmitJob \/ LookUp
  \/ Work \/ Finish
  \/ StartupProbe \/ Asks \/ Probes \/ Move \/ Plant

AdmissionSpec == AdmissionInit /\ [][AdmissionNext]_allVars

AdmissionTypeOK ==
  /\ TypeOK /\ BodyTypeOK
  /\ at \in {"idle", "info", "list", "list presets", "body", "route", "encoder", "refusal",
             "speed", "submit", "look"}
  /\ answer \in Codes \cup {None}
  /\ info \in BOOLEAN \cup {None} /\ listed \in BOOLEAN
  /\ job \in {"none", "stored", "working", "failed", "done"}
  /\ job = "working" => encoding.preset \in Leaves
  /\ link \in Real \cup {None}

-----------------------------------------------------------------------------

\* A job that was accepted fails at the worker's checks only if the path has
\* changed meanwhile, or somebody has put a link to the source at the output path
\* that the 202 has told, and its encoder is one that HandBrakeCLI provides: "every
\* rejection that can be decided up front is decided here" (post_job, before the
\* client has a job to poll).
AcceptedIsRunnable ==
  encoding # None =>
    /\ encoding.why # None => \/ moved /\ encoding.why # "preset"
                              \/ encoding.why = "collision" /\ link = encoding.source
    /\ encoding.preset.encoder \in Provided

\* Whatever happens to the links on the path between the route's check and the
\* worker's, HandBrakeCLI reads inside the roots and writes beside what it reads.
EncodedIsInside ==
  job = "working" =>
    /\ roots # {} /\ SubSeq(encoding.source, 1, 1) = Root
    /\ Front(encoding.output) = Front(encoding.source)

\* Where a document holds the leaves: a folder's come in its place.
Places(nodes) ==
  {p \in (DOMAIN nodes) \X (0..2) :
     LET node == nodes[p[1]] IN
     \/ node.kind = "leaf" /\ p[2] = 0
     \/ node.kind = "folder" /\ p[2] \in DOMAIN node.children}
LeafAt(nodes, p) == IF p[2] = 0 THEN nodes[p[1]] ELSE nodes[p[1]].children[p[2]]

\* What is encoded is the first leaf of the name in the document, in a folder or
\* not, and never a folder; it is the one that the route has checked.
PresetIsFirstLeaf ==
  LET called == {p \in Places(doc) : LeafAt(doc, p).name = Name} IN
  job = "working" =>
    \E p \in called : /\ encoding.preset = LeafAt(doc, p)
                      /\ \A q \in called : 3 * p[1] + p[2] <= 3 * q[1] + q[2]

\* A request that is refused leaves no job behind that nobody can ask for, however
\* quick the worker was.
RefusedLeavesNoJob == at = "idle" /\ answer \notin {None, "accepted"} => job = "none"

\* A refusal is true.  Nobody is refused a speed preset by a probe that failed.
\* And if /health was well, from the cache, and no other probe was then on its way,
\* nobody is refused an encoder that is there or a file within the roots until the
\* caches are reset.  (A probe on its way may fail, take the place of the good list
\* and have every job refused from then on.)
RefusalsAreTrue ==
  /\ answer = "invalid_video_preset" => FindPreset(doc).speed \notin {" fast ", " "}
  /\ listed /\ answer = "encoder_unavailable" => FindPreset(doc).encoder \notin Provided
  /\ listed /\ answer = "path_not_allowed" /\ ~moved => ~IsPrefix(Root, real)
=============================================================================
