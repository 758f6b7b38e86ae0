------------------------------ MODULE EncodeJob ------------------------------
(***************************************************************************)
(* One call of run_encode_job (app/ops.py) against the file system: every  *)
(* system call is a step and may fail, the process may die between any     *)
(* two, and somebody else may replace the staging file by another or by a  *)
(* link, or put a link at the output path, at any moment.                  *)
(*                                                                         *)
(* Of a file only its identity is kept: "ours" is the inode that was       *)
(* claimed with O_EXCL, "foreign" any other.  A link is a name that leads  *)
(* to another file: opening or stating it follows it, renaming or removing *)
(* it does not.  The content of "ours" is tracked, for what is published   *)
(* must be whole.                                                          *)
(*                                                                         *)
(* HandBrakeCLI is a process of its own: it opens its output some time     *)
(* after it was started, also when run_encode has left it running.         *)
(***************************************************************************)
EXTENDS Integers

CONSTANT Replacements  \* what others may put where the staging file is

VARIABLES
  pc,        \* the next statement of run_encode_job
  raising,   \* an exception is on its way out
  held,      \* the local fd is not _CLOSED
  open,      \* the descriptor is open in the kernel
  preset,    \* the temporary preset file exists
  staging,   \* what the staging path names
  dst,       \* what the output path names
  content,   \* of "ours"
  child,     \* HandBrakeCLI, as run_encode leaves it
  target,    \* what HandBrake writes to
  source,    \* the source file is intact
  earlySwap, \* the staging file was replaced before HandBrake opened its output
  lateSwap,  \* it was replaced after it had been checked
  unremoved  \* the removal of the staging or the preset file failed

files == <<preset, staging, dst, content, target, source>>
swaps == <<earlySwap, lateSwap>>
vars  == <<pc, raising, held, open, files, child, swaps, unremoved>>

Ended == {"returned", "raised", "crashed"}
Entry == {"absent", "ours", "foreign", "link to ours", "link to source"}

ASSUME ReplacementsAssumption == Replacements \subseteq Entry

\* What stands under a name once links are followed.  "planted" is a link to the
\* source, at the output path before anything was published there.
Leads(name) == CASE name = "link to ours" -> "ours"
                 [] name \in {"link to source", "planted"} -> "source"
                 [] OTHER -> name

TypeOK ==
  /\ pc \in {"validate", "claim", "temp", "dump", "start", "encode", "check", "close",
             "replace", "except", "remove", "finally", "unlink"} \cup Ended
  /\ {raising, held, open, preset, source, earlySwap, lateSwap, unremoved}
       \subseteq BOOLEAN
  /\ staging \in Entry
  /\ dst \in Entry \cup {"planted"}
  /\ content \in {"empty", "partial", "whole"}
  /\ child \in {"none", "unborn", "alive", "gone", "left"}
  /\ target \in {"none", "ours", "foreign", "source"}

\* The staging name has a fresh token; the output path may be taken.
Init ==
  /\ pc = "validate" /\ raising = FALSE
  /\ held = FALSE /\ open = FALSE /\ preset = FALSE
  /\ staging = "absent" /\ dst \in {"absent", "planted"}
  /\ content = "empty" /\ child = "none" /\ target = "none" /\ source = TRUE
  /\ earlySwap = FALSE /\ lateSwap = FALSE /\ unremoved = FALSE

Go(from, to) == pc = from /\ pc' = to

-----------------------------------------------------------------------------
(* Before the try blocks. *)

\* The source, the preset and the paths are derived anew; an output path that
\* is the source is refused.  Nothing has touched the disk.
Validate ==
  /\ \/ Go("validate", "claim") /\ dst # "planted"
     \/ Go("validate", "raised")
  /\ UNCHANGED <<raising, held, open, files, child, swaps, unremoved>>

\* os.open(staging, O_CREAT | O_EXCL)
Claim ==
  /\ Go("claim", "temp") /\ staging = "absent"
  /\ staging' = "ours" /\ held' = TRUE /\ open' = TRUE
  /\ UNCHANGED <<raising, preset, dst, content, target, source, child, swaps, unremoved>>

ClaimFails ==
  /\ Go("claim", "raised")
  /\ UNCHANGED <<raising, held, open, files, child, swaps, unremoved>>

\* NamedTemporaryFile: its failure meets no handler.
MakeTemp ==
  /\ \/ Go("temp", "dump") /\ preset' = TRUE
     \/ Go("temp", "raised") /\ preset' = preset
  /\ UNCHANGED <<raising, held, open, staging, dst, content, target, source, child, swaps,
                 unremoved>>

\* json.dump and close: a failure meets the outer finally only.
Dump ==
  /\ \/ Go("dump", "start") /\ raising' = raising
     \/ Go("dump", "finally") /\ raising' = TRUE
  /\ UNCHANGED <<held, open, files, child, swaps, unremoved>>

-----------------------------------------------------------------------------
(* The encode and the publication. *)

\* Popen: HandBrake runs, and has not opened its output yet.
StartEncode ==
  /\ Go("start", "encode") /\ child' = "alive"
  /\ UNCHANGED <<raising, held, open, files, swaps, unremoved>>

\* HandBrakeCLI cannot be started.
StartFails ==
  /\ Go("start", "except") /\ child' = "unborn"
  /\ UNCHANGED <<raising, held, open, files, swaps, unremoved>>

\* Mutant: HandBrake is given the output path.
TargetDst == IF dst = "planted" THEN dst ELSE staging
Target == staging

\* HandBrake opens the path it was given, follows a link, and empties the file;
\* where there is none it makes one.
OpenOutput ==
  /\ child \in {"alive", "left"} /\ target = "none"
  /\ target' = IF Target = "absent" THEN "foreign" ELSE Leads(Target)
  /\ staging' = IF Target = "absent" THEN "foreign" ELSE staging
  /\ content' = IF target' = "ours" THEN "partial" ELSE content
  /\ source' = (source /\ target' # "source")
  /\ UNCHANGED <<pc, raising, held, open, preset, dst, child, swaps, unremoved>>

\* run_encode returns when HandBrake has succeeded, having written its output ...
EncodeReturns ==
  /\ Go("encode", "check") /\ target # "none"
  /\ child' = "gone"
  /\ content' = IF target = "ours" THEN "whole" ELSE content
  /\ UNCHANGED <<raising, held, open, preset, staging, dst, target, source, swaps,
                 unremoved>>

\* Mutant: run_encode tells nobody of a failure.
AfterFailedEncodeIgnored == "check"
AfterFailedEncode == "except"

\* ... else it raises, and may leave a HandBrake running that nobody watches or
\* that outlived its kill.
EncodeRaises ==
  /\ Go("encode", AfterFailedEncode)
  /\ child' \in {"gone", "left"}
  /\ UNCHANGED <<raising, held, open, files, swaps, unremoved>>

\* Mutant: any file at the staging path will do.
SameFileExists == staging # "absent"
SameFile == Leads(staging) = "ours"

\* os.path.samestat of the descriptor and of what the path leads to.  Both have
\* to be stated, which may fail.
Check ==
  /\ \/ Go("check", "close") /\ SameFile
     \/ Go("check", "except")
  /\ UNCHANGED <<raising, held, open, files, child, swaps, unremoved>>

\* A close that fails has released the descriptor, but fd is not _CLOSED yet.
CloseFd ==
  /\ \/ Go("close", "replace") /\ held' = FALSE
     \/ Go("close", "except") /\ held' = held
  /\ open' = FALSE
  /\ UNCHANGED <<raising, files, child, swaps, unremoved>>

\* Mutant: the arguments of os.replace are exchanged.
ReplaceBackwards ==
  /\ Go("replace", "finally") /\ dst # "absent"
  /\ staging' = dst /\ dst' = "absent"
  /\ UNCHANGED <<raising, held, open, preset, content, target, source, child, swaps, unremoved>>

\* os.replace moves the name at the staging path, a link as such, over whatever
\* is at the output path.
Replace ==
  /\ Go("replace", "finally") /\ staging # "absent"
  /\ dst' = staging /\ staging' = "absent"
  /\ UNCHANGED <<raising, held, open, preset, content, target, source, child, swaps, unremoved>>

ReplaceFails ==
  /\ Go("replace", "except")
  /\ UNCHANGED <<raising, held, open, files, child, swaps, unremoved>>

-----------------------------------------------------------------------------
(* The way out. *)

\* A close that fails, for one of a descriptor that is not open any more, raises
\* inside the handler, before the removal.
Except ==
  /\ pc = "except"
  /\ raising' = TRUE
  /\ \/ held /\ pc' = "finally" /\ held' = held
     \/ (held => open) /\ pc' = "remove" /\ held' = FALSE
  /\ open' = FALSE
  /\ UNCHANGED <<files, child, swaps, unremoved>>

\* Mutant: a failure of the encode alone is cleaned up after.
RemovePartialWhole ==
  /\ Go("remove", "finally")
  /\ staging' = IF content = "whole" THEN staging ELSE "absent"
  /\ UNCHANGED <<raising, held, open, preset, dst, content, target, source, child, swaps,
                 unremoved>>

\* _remove_partial removes whatever is there; an OSError is only logged.
RemovePartial ==
  /\ Go("remove", "finally")
  /\ \/ staging' = "absent" /\ unremoved' = unremoved
     \/ staging # "absent" /\ staging' = staging /\ unremoved' = TRUE
  /\ UNCHANGED <<raising, held, open, preset, dst, content, child, target, source, swaps>>

\* The same close, before the preset file is removed.
Finally ==
  /\ pc = "finally"
  /\ \/ held /\ pc' = "raised" /\ held' = held
     \/ (held => open) /\ pc' = "unlink" /\ held' = FALSE
  /\ open' = FALSE
  /\ UNCHANGED <<raising, files, child, swaps, unremoved>>

Unlink ==
  /\ Go("unlink", IF raising THEN "raised" ELSE "returned")
  /\ \/ preset' = FALSE /\ unremoved' = unremoved
     \/ preset' = preset /\ unremoved' = TRUE
  /\ UNCHANGED <<raising, held, open, staging, dst, content, child, target, source, swaps>>

-----------------------------------------------------------------------------
(* The world around it. *)

\* The process is killed: its descriptors are closed, its files stay.
Crash ==
  /\ pc \notin Ended /\ pc' = "crashed"
  /\ open' = FALSE
  /\ UNCHANGED <<raising, held, files, child, swaps, unremoved>>

\* Somebody removes the staging file, or moves it away, back, or out of the way
\* of another file or a link.
Swap ==
  /\ staging # "absent" /\ staging' \in Replacements \ {staging}
  /\ earlySwap' = (earlySwap \/ target = "none")
  /\ lateSwap' = (lateSwap \/ pc \in {"close", "replace"})
  /\ UNCHANGED <<pc, raising, held, open, preset, dst, content, child, target, source,
                 unremoved>>

\* Somebody puts a link to the source where the output will be.
Plant ==
  /\ dst = "absent" /\ dst' = "planted"
  /\ UNCHANGED <<pc, raising, held, open, preset, staging, content, child, target, source,
                 swaps, unremoved>>

Next ==
  \/ Validate \/ Claim \/ ClaimFails \/ MakeTemp \/ Dump
  \/ StartEncode \/ StartFails \/ OpenOutput \/ EncodeReturns \/ EncodeRaises \/ Check
  \/ CloseFd \/ Replace \/ ReplaceFails
  \/ Except \/ RemovePartial \/ Finally \/ Unlink
  \/ Crash \/ Swap \/ Plant

Spec == Init /\ [][Next]_vars

-----------------------------------------------------------------------------

\* Whatever fails, and wherever the process dies: an encode that stands under the
\* output path is a finished one.  That is what the staging file and the rename
\* are for.  Only who takes the staging file away before HandBrake opens it, and
\* brings it back, has the empty file published.
PublishedIsWhole ==
  Leads(dst) = "ours" => content = "whole" \/ (target # "ours" /\ earlySwap)

\* What replaced the staging file while HandBrake ran is not published: neither
\* another file nor a link to one.  The descriptor that stays open tells it apart,
\* until the check; a link to the claimed file itself passes it.
ReplacementIsRefused == dst \in {"foreign", "link to source"} => lateSwap

\* When the call has ended after the encode was begun, the descriptor is closed;
\* and neither file of its own is left, unless a removal itself failed, or a close
\* failed, which keeps the handlers from their removals, or a HandBrake that
\* run_encode left running opens its output after the removal.
CleansUp ==
  pc \in {"returned", "raised"} /\ child # "none" =>
    /\ ~open
    /\ ~unremoved => /\ preset => held
                     /\ staging # "absent" => held \/ child = "left"

\* The source survives although its name can be put at the output path, which
\* others can foresee, after the paths were compared; and a link to it at the
\* staging path does harm only when it is there before HandBrake opens the path:
\* the check, the rename and the removal do not write through it.
SourceSurvives == ~source => target = "source" /\ earlySwap

-----------------------------------------------------------------------------
(* What the comments say and the code does not do. *)

\* "a partial output must never be left behind", and the job function "removes
\* its own partial on cancellation or failure".  But the claim is made before
\* the try block whose handler removes it.
FailedJobLeavesNoStaging ==
  pc = "raised" /\ child = "none" /\ ~unremoved => staging = "absent"

\* The handler around the encode "covers failure and cancellation alike".  But it
\* closes the descriptor first, and when that fails, or fails again after the close
\* of the success path, it raises before the removal.
FailureLeavesNothing ==
  pc = "raised" /\ child \notin {"none", "left"} /\ ~unremoved => staging = "absent"
=============================================================================
