---------------------------- MODULE ProgressStream ----------------------------
(***************************************************************************)
(* The progress reports of app/handbrake_runner.py: HandBrakeCLI --json    *)
(* prints objects over several lines, between lines that are no JSON;      *)
(* run_encode collects the lines, parse_progress_objects finds complete    *)
(* objects among them, and _remaining_seconds decides about the estimate.  *)
(*                                                                         *)
(* A line is a sequence of characters, of which are kept the braces, the   *)
(* quote, the backslash, the newline, "o" for any that is well-formed      *)
(* where it stands, "x" for any that is not, and the Message an object     *)
(* tells, as one.  Every step prints one line and hands it to the loop of  *)
(* run_encode.                                                             *)
(***************************************************************************)
EXTENDS Integers, Sequences, SequencesExt

CONSTANTS MaxBuffer,  \* _MAX_BUFFER_BYTES
          Messages,   \* bound: what HandBrake tells, of the messages below
          MaxNoise,   \* bound: lines of noise in a row
          None

VARIABLES
  buffer,         \* the local of run_encode
  eta, progress,  \* what on_eta and on_progress were last called with
  level,          \* HandBrake: how many braces of its object are open
  message,        \* what that object tells
  rest,           \* which of its parts are still to be printed
  noise,          \* lines of noise since the last object
  report,         \* the objects found in the line that was read last
  clean,          \* nothing in the buffer opens a brace or a quote for good
  whole,          \* the object was begun when the buffer was clean
  lost,           \* objects in a row that were not found, since the last Stray
  last            \* what the last object that was found tells, if a State

loopVars   == <<buffer, eta, progress, report>>
streamVars == <<level, message, rest, noise, clean, whole, lost, last>>
vars == <<loopVars, streamVars>>

\* The messages: what HandBrake tells in the final pass, in an earlier one,
\* before it has an estimate, with an estimate that is none, of the muxer, and
\* its version, which is no state.
Fields == [
  final   |-> [state |-> "WORKING", working |-> TRUE, eta |-> 7, hours |-> 0, pass |-> 2],
  early   |-> [state |-> "WORKING", working |-> TRUE, eta |-> 5, hours |-> 0, pass |-> 1],
  warming |-> [state |-> "WORKING", working |-> TRUE, eta |-> 0, hours |-> -1, pass |-> 2],
  unknown |-> [state |-> "WORKING", working |-> TRUE, eta |-> -1, hours |-> 0, pass |-> 2],
  muxing  |-> [state |-> "MUXING", working |-> FALSE, eta |-> None, hours |-> None, pass |-> None],
  version |-> [state |-> None, working |-> FALSE, eta |-> None, hours |-> None, pass |-> None]]
Message == DOMAIN Fields
PassCount == 2

ASSUME StreamAssumption ==
  /\ MaxBuffer \in Nat /\ MaxNoise \in Nat /\ Messages \subseteq Message
  /\ None \notin Message \cup {"WORKING"}

\* The noise between two objects, the lines of an object that lost its beginning,
\* and an object up to its last brace but one fit into the buffer.
ASSUME CapAssumption == 4 * MaxNoise + 22 <= MaxBuffer

-----------------------------------------------------------------------------
(* parse_progress_objects: one scan over the characters. *)

\* Is chunk[a..b] an object for json.loads?  Its strings end on their line, there
\* is nothing malformed outside them, and a nested object has a key before it.
WellFormed(chunk, strings, a, b) ==
  /\ \A i \in strings \cap a..b : chunk[i] # "newline"
  /\ \A i \in a..b \ strings :
       chunk[i] \notin {"x", "backslash"} /\ (chunk[i] = "open" /\ i > a => chunk[i - 1] = "o")

\* A scan is "outside" a string or in a "string", where it may have "escaped" the
\* next character.  Mutant: a quote ends a string even when it is escaped.
InStringNoEscape(s, char, i) ==
  [s EXCEPT !.strings = @ \cup {i}, !.at = IF char = "quote" THEN "outside" ELSE "string"]

InString(s, char, i) ==
  [s EXCEPT !.strings = @ \cup {i},
            !.at = CASE s.at = "escaped" -> "string"
                     [] s.at # "escaped" /\ char = "backslash" -> "escaped"
                     [] s.at # "escaped" /\ char = "quote" -> "outside"
                     [] OTHER -> "string"]

OpenBrace(s, i) ==
  [s EXCEPT !.depth = @ + 1, !.start = IF s.depth = 0 THEN i ELSE @]

\* The brace that closes an outermost object ends it; json.loads may refuse it.
Loaded(s, chunk, i) ==
  IF s.depth = 1 /\ WellFormed(chunk, s.strings, s.start, i)
    THEN Append(s.objects, SubSeq(chunk, s.start, i)) ELSE s.objects

CloseBrace(s, chunk, i) ==
  IF s.depth = 0 THEN s ELSE [s EXCEPT !.depth = @ - 1, !.objects = Loaded(s, chunk, i)]

Scan(s, chunk, i) ==
  CASE s.at # "outside"  -> InString(s, chunk[i], i)
    [] s.at = "outside" /\ chunk[i] = "quote" -> [s EXCEPT !.at = "string", !.strings = @ \cup {i}]
    [] s.at = "outside" /\ chunk[i] = "open"  -> OpenBrace(s, i)
    [] s.at = "outside" /\ chunk[i] = "close"  -> CloseBrace(s, chunk, i)
    [] OTHER -> s

\* The locals at the start of the scan, and after every character of it.
Unscanned == [depth |-> 0, start |-> 0, at |-> "outside", strings |-> {}, objects |-> <<>>]
Scanned(chunk) ==
  LET scan[i \in 0..Len(chunk)] ==
        IF i = 0 THEN Unscanned ELSE Scan(scan[i - 1], chunk, i)
  IN scan

ParseProgressObjects(chunk) == Scanned(chunk)[Len(chunk)].objects

-----------------------------------------------------------------------------
(* What an object tells the job.  One without a Message is a nested object   *)
(* whose outer brace is missing: it has neither a State nor a Working.       *)

MessageOf(object) == IF object[2] \in Message THEN object[2] ELSE "version"

\* _remaining_seconds
RemainingSeconds(m) ==
  LET f == Fields[m] IN
  IF \/ f.state # "WORKING" \/ ~f.working
     \/ f.eta < 0
     \/ f.hours = -1
     \/ f.pass < PassCount
    THEN None ELSE f.eta

\* Mutant: an object without an estimate leaves the last one alone.
TellKeepsEta(job, object) ==
  LET m == MessageOf(object) IN
  [eta |-> IF RemainingSeconds(m) = None THEN job.eta ELSE RemainingSeconds(m),
   progress |-> IF Fields[m].working THEN m ELSE job.progress]

\* on_eta for every object with a State, on_progress for one with a Working; the
\* fraction it has is named by the message.
Tell(job, object) ==
  LET m == MessageOf(object) IN
  [eta |-> IF Fields[m].state = None THEN job.eta ELSE RemainingSeconds(m),
   progress |-> IF Fields[m].working THEN m ELSE job.progress]

\* Mutant: at the limit the buffer is truncated, not dropped.
KeptTruncated(text) == IF Len(text) > MaxBuffer THEN SubSeq(text, 1, MaxBuffer) ELSE text

\* Mutant: the buffer is cleared at any brace, that of a nested object too.
KeptNever(text) == <<>>

\* A buffer without a complete object is kept until it is too long.
Kept(text) == IF Len(text) > MaxBuffer THEN <<>> ELSE text

\* One round of the loop over stdout.
Read(line) ==
  LET text == buffer \o line
      objects == IF Contains(line, "close") THEN ParseProgressObjects(text) ELSE <<>>
      job == FoldLeft(Tell, [eta |-> eta, progress |-> progress], objects)
  IN /\ report' = objects
     /\ eta' = job.eta /\ progress' = job.progress
     /\ buffer' = IF objects # <<>> THEN <<>>
                  ELSE IF Contains(line, "close") THEN Kept(text) ELSE text

-----------------------------------------------------------------------------
(* HandBrakeCLI. *)

Init ==
  /\ buffer = <<>> /\ eta = None /\ progress = None /\ report = <<>>
  /\ level = 0 /\ message = "version" /\ rest = {}
  /\ noise = 0 /\ clean = TRUE /\ whole = FALSE /\ lost = 0 /\ last = None

\* The lines of an object: its first brace and what it tells; a nested object if
\* it has a Working; one string somewhere; the braces.
Texts == {<<"quote", "open", "quote">>, <<"quote", "backslash", "quote", "close", "quote">>}

PrintLine(line) == Read(Append(line, "newline"))

Begin(m) ==
  /\ level = 0
  /\ PrintLine(<<"open", m>>)
  /\ level' = 1 /\ message' = m
  /\ rest' = {"text"} \cup (IF Fields[m].working THEN {"nested"} ELSE {})
  /\ whole' = clean
  /\ noise' = 0
  /\ UNCHANGED <<clean, lost, last>>

\* Whether the object counts as whole is up to what was printed before it, and not
\* to what the loop does with its lines.
Inside(line) ==
  /\ PrintLine(line)
  /\ clean' = (clean \/ buffer' = <<>>)
  /\ UNCHANGED <<message, noise, whole, lost, last>>

Nest ==
  /\ level = 1 /\ "nested" \in rest
  /\ level' = 2 /\ rest' = rest \ {"nested"}
  /\ Inside(<<"o", "open">>)

Text ==
  /\ level > 0 /\ "text" \in rest
  /\ rest' = rest \ {"text"} /\ level' = level
  /\ \E t \in Texts : Inside(t)

Unnest ==
  /\ level = 2 /\ level' = 1 /\ rest' = rest
  /\ Inside(<<"close">>)

End ==
  /\ level = 1 /\ "nested" \notin rest
  /\ PrintLine(<<"close">>)
  /\ level' = 0 /\ rest' = {} /\ whole' = FALSE
  /\ clean' = (clean \/ buffer' = <<>>)
  /\ lost' = IF report' = <<>> THEN lost + 1 ELSE 0
  /\ last' = IF report' = <<>> \/ Fields[message].state = None THEN last ELSE message
  /\ UNCHANGED <<message, noise>>

\* Between the objects: noise that leaves braces and quotes balanced ...
Quiet == {<<"x">>, <<"open", "x", "close">>, <<"quote", "open", "quote">>}
\* ... and noise that does not.
Stray == {<<"open", "x">>, <<"x", "quote">>}

Noise(line) ==
  /\ level = 0 /\ noise < MaxNoise /\ noise' = noise + 1
  /\ PrintLine(line)
  /\ clean' = ((clean /\ line \in Quiet) \/ buffer' = <<>>)
  /\ lost' = IF line \in Stray THEN 0 ELSE lost
  /\ UNCHANGED <<level, message, rest, whole, last>>

Next ==
  \/ \E m \in Messages : Begin(m)
  \/ Nest \/ Text \/ Unnest \/ End
  \/ \E line \in Quiet \cup Stray : Noise(line)

Spec == Init /\ [][Next]_vars

-----------------------------------------------------------------------------

\* An object that HandBrake prints after nothing but harmless noise (since its
\* first line, or since the buffer was last emptied) is found when its last brace is
\* read, and only it is, whatever its strings and its nested object look like
\* (parse_progress_objects, and the loop, which must keep the buffer at the brace of
\* a nested object, and must never find it too long for an object within the cap).
\* That whole is decided at the object's first line leaves the loop no excuse.
EveryObjectFound ==
  [][End /\ whole => Len(report') = 1 /\ MessageOf(report'[1]) = message]_vars

\* Noise that opens a brace or a quote for good does not hide the reports of the
\* rest of the encode: of those that follow it, no more go unfound in a row than
\* fit into the buffer behind it, at five characters each, and the one with which
\* it is dropped (the cap of run_encode, which must forget what it has kept).
LossIsBounded == lost <= (MaxBuffer - 3) \div 5 + 1

\* The job's estimate is that of the last report that was found, and there is none
\* while that is not of the final pass, has no estimate yet or is of the muxer: an
\* older estimate is withdrawn (_remaining_seconds and on_eta).
EtaIsCurrent == eta = IF last = "final" THEN 7 ELSE None

\* "Cap on the accumulated stdout buffer in run_encode": whatever HandBrake prints,
\* what is kept of it stays within the cap and one line.
BufferIsCapped == Len(buffer) <= MaxBuffer + 6
=============================================================================
