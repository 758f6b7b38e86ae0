------------------------------ MODULE BodyLimit ------------------------------
(***************************************************************************)
(* BodySizeLimitMiddleware of app/limits.py, between the HTTP server and   *)
(* the application: a request whose Content-Length is over the limit is    *)
(* answered before the application is called, and what the application     *)
(* receives of any other is counted and cut off at the limit.              *)
(*                                                                         *)
(* Of a body only its size is kept.  The application (external) receives   *)
(* until its body is complete or it is told that the client has gone; it   *)
(* may then receive again.                                                 *)
(***************************************************************************)
EXTENDS Integers

CONSTANTS MaxBytes,  \* max_bytes; none at all unless it is positive
          MaxSize,   \* bound: the size of a body
          NoLength   \* no usable Content-Length

ASSUME BodyAssumption == MaxBytes \in Int /\ MaxSize \in Nat /\ NoLength \notin Int

VARIABLES
  upload,    \* "none", "reading", "whole", "cut" or "rejected"
  declared,  \* its Content-Length
  sent,      \* how much of the body has come from the client
  client,    \* "sending", "ended" when it has sent all, "gone" before that
  seen,      \* the local of __call__
  got        \* how much of it the application has been given

bodyVars == <<upload, declared, sent, client, seen, got>>

BodyTypeOK ==
  /\ upload \in {"none", "reading", "whole", "cut", "rejected"}
  /\ declared \in 0..(MaxSize + 1) \cup {NoLength}
  /\ client \in {"sending", "ended", "gone"}
  /\ sent \in 0..MaxSize /\ seen \in 0..sent /\ got \in 0..sent

BodyInit ==
  /\ upload = "none" /\ declared = NoLength
  /\ sent = 0 /\ client = "sending" /\ seen = 0 /\ got = 0

Limited == MaxBytes > 0

\* Mutant: only the size of the message is compared, not of the body so far.
ExceedsAlone(n) == Limited /\ n > MaxBytes
\* Mutant: a body of exactly the limit is too large.
ExceedsAtLimit(n) == Limited /\ seen + n >= MaxBytes
Exceeds(n) == Limited /\ seen + n > MaxBytes

\* A new request.
Open(length) ==
  /\ upload = "none"
  /\ declared' = length
  /\ upload' = IF Limited /\ length # NoLength /\ length > MaxBytes THEN "rejected" ELSE "reading"
  /\ UNCHANGED <<sent, client, seen, got>>

\* Mutant: instead of cutting it off, the middleware ends the body at the limit.
CutEndsBody == upload' = "whole" /\ got' = got
\* The application is told that the client has gone.
Cut == upload' = "cut" /\ got' = got

\* limited_receive, when the next n bytes have come, the last if ~more.
Receive(n, more) ==
  /\ upload \in {"reading", "cut"} /\ client = "sending"
  /\ sent + n <= MaxSize
  /\ sent' = sent + n /\ client' = IF more THEN "sending" ELSE "ended"
  /\ seen' = IF Limited THEN seen + n ELSE seen
  /\ IF Exceeds(n) THEN Cut
     ELSE got' = got + n /\ upload' = IF more THEN "reading" ELSE "whole"
  /\ UNCHANGED declared

\* limited_receive, when the client has gone.
ClientGone ==
  /\ upload \in {"reading", "cut"} /\ client = "sending"
  /\ client' = "gone"
  /\ Cut
  /\ UNCHANGED <<declared, sent, seen>>

\* The locals of __call__ are its request's.
Forgotten == seen' = 0

\* The request is over.
Close ==
  /\ upload \notin {"none", "reading"}
  /\ upload' = "none" /\ declared' = NoLength
  /\ sent' = 0 /\ client' = "sending" /\ got' = 0
  /\ Forgotten

BodyNext ==
  \/ \E length \in 0..(MaxSize + 1) \cup {NoLength} : Open(length)
  \/ \E n \in 0..MaxSize, more \in BOOLEAN : Receive(n, more)
  \/ ClientGone \/ Close

BodySpec == BodyInit /\ [][BodyNext]_bodyVars

-----------------------------------------------------------------------------

\* The application never holds more than the limit, however the body is cut into
\* messages and whatever its Content-Length says.
BodyWithinLimit == Limited => got <= MaxBytes

\* A body is complete for the application only if all of it is there: one that was
\* cut off is not parsed as if it had ended there.
WholeIsComplete == upload = "whole" => client = "ended" /\ got = sent

\* A body of at most the limit, declared so or not at all, is refused by neither
\* layer: its request fails only when the client goes.
FittingIsServed ==
  /\ upload = "cut" => client = "gone" \/ sent > MaxBytes
  /\ upload = "rejected" => declared > MaxBytes
=============================================================================
