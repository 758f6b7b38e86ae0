---------------------------- MODULE RequestProofs ----------------------------
(***************************************************************************)
(* Theorems about the two components that Admission is composed of:        *)
(* ProbeCache, for any callers, caches and resets, and BodyLimit, for any  *)
(* limit, or none, and any body.                                           *)
(***************************************************************************)
EXTENDS ProbeCache, BodyLimit, TLAPS

(* ProbeCache. *)

\* What is cached was found out in the present generation: a reset empties the
\* cache, and a probe that began before it is not stored.
CacheInv == \A k \in Key : cache[k] # None => cache[k].of = generation

\* A caller probes for the generation its call began in.
CallInv ==
  \A c \in Caller :
    /\ begun[c] <= generation
    /\ pc[c] \in {"probe", "store"} => gen[c] = begun[c]
    /\ pc[c] = "store" => gen[c] <= found[c].of /\ found[c].of <= generation

Inv == TypeOK /\ CacheInv /\ CallInv /\ NoStaleAnswer

\* Empty caches are of the first generation ...
LEMMA InvInit == Init => Inv
<1> SUFFICES ASSUME Init PROVE Inv
  OBVIOUS
<1> USE ProbeAssumption DEF ProbeAssumption
<1>1. TypeOK
  BY DEF Init, TypeOK, Answer, NoAnswer
<1>2. CacheInv /\ CallInv /\ NoStaleAnswer
  BY DEF Init, CacheInv, CallInv, NoStaleAnswer
<1> QED BY <1>1, <1>2 DEF Inv

\* ... and neither a probe that ends nor reset_cache leaves an older answer in one.
LEMMA InvStep == Inv /\ [Next]_vars => Inv'
<1> SUFFICES ASSUME Inv, [Next]_vars PROVE Inv'
  OBVIOUS
<1> USE ProbeAssumption DEF ProbeAssumption, Inv, Go
<1>1. ASSUME NEW c \in Caller, NEW k \in Key, Lookup(c, k) PROVE Inv'
  <2>1. CASE cache[k] # None
    <3>1. cache[k] \in Answer /\ cache[k].of = generation
      BY <2>1 DEF TypeOK, CacheInv
    <3>2. TypeOK'
      BY <1>1, <2>1, <3>1 DEF Lookup, Cached, TypeOK
    <3>3. CacheInv' /\ CallInv' /\ NoStaleAnswer'
      BY <1>1, <2>1, <3>1 DEF Lookup, Cached, TypeOK, CacheInv, CallInv, NoStaleAnswer
    <3> QED BY <3>2, <3>3
  <2>2. CASE cache[k] = None
    <3>1. TypeOK'
      BY <1>1, <2>2 DEF Lookup, Cached, Remembered, TypeOK
    <3>2. CacheInv' /\ CallInv' /\ NoStaleAnswer'
      BY <1>1, <2>2 DEF Lookup, Cached, Remembered, TypeOK, CacheInv, CallInv, NoStaleAnswer
    <3> QED BY <3>1, <3>2
  <2> QED BY <2>1, <2>2
<1>2. ASSUME NEW c \in Caller, NEW ok \in BOOLEAN, Probe(c, ok) PROVE Inv'
  <2>1. TypeOK'
    BY <1>2 DEF Probe, TypeOK, Answer
  <2>2. CacheInv' /\ NoStaleAnswer'
    BY <1>2 DEF Probe, TypeOK, CacheInv, NoStaleAnswer
  <2>3. CallInv'
    BY <1>2 DEF Probe, TypeOK, CallInv
  <2> QED BY <2>1, <2>2, <2>3
<1>3. ASSUME NEW c \in Caller, Store(c) PROVE Inv'
  <2>1. found[c] \in Answer /\ found[c].of \in Int /\ gen[c] = begun[c] /\ key[c] \in Key
    BY <1>3 DEF Store, TypeOK, CallInv, Answer
  <2>2. StillCurrent(c) => found[c].of = generation
    BY <1>3, <2>1 DEF Store, StillCurrent, TypeOK, CallInv
  <2>3. \A k \in Key : cache'[k] = cache[k] \/ (cache'[k] = found[c] /\ StillCurrent(c))
    <3>1. CASE StillCurrent(c)
      BY <1>3, <3>1 DEF Store, TypeOK
    <3>2. CASE ~StillCurrent(c)
      BY <1>3, <3>2 DEF Store, TypeOK
    <3> QED BY <3>1, <3>2
  <2>4. TypeOK'
    BY <1>3, <2>1, <2>3 DEF Store, TypeOK
  <2>5. CacheInv' /\ CallInv' /\ NoStaleAnswer'
    BY <1>3, <2>1, <2>2, <2>3 DEF Store, TypeOK, CacheInv, CallInv, NoStaleAnswer
  <2> QED BY <2>4, <2>5
<1>4. ASSUME NEW c \in Caller, Return(c) \/ ProbeRaises(c) PROVE Inv'
  <2>1. NoAnswer \in Answer
    BY DEF NoAnswer, Answer
  <2>2. TypeOK'
    BY <1>4, <2>1 DEF Return, ProbeRaises, Over, TypeOK
  <2>3. CacheInv' /\ CallInv' /\ NoStaleAnswer'
    BY <1>4 DEF Return, ProbeRaises, Over, TypeOK, CacheInv, CallInv, NoStaleAnswer
  <2> QED BY <2>2, <2>3
<1>5. CASE Reset
  <2>1. TypeOK' /\ CacheInv'
    BY <1>5 DEF Reset, TypeOK, CacheInv
  <2>2. \A c \in Caller : begun[c] \in Int /\ found[c].of \in Int /\ gen[c] \in Int
    BY DEF TypeOK, Answer
  <2>3. CallInv' /\ NoStaleAnswer'
    BY <1>5, <2>2 DEF Reset, TypeOK, CallInv, NoStaleAnswer
  <2> QED BY <2>1, <2>3
<1>6. CASE UNCHANGED vars
  BY <1>6 DEF vars, TypeOK, CacheInv, CallInv, NoStaleAnswer
<1> QED BY <1>1, <1>2, <1>3, <1>4, <1>5, <1>6 DEF Next

\* Whatever callers probe, store and reset at once: an answer is never older
\* than the reset_cache() before the question.
THEOREM NeverStale == Spec => []NoStaleAnswer
<1>1. Inv => NoStaleAnswer
  BY DEF Inv
<1> QED BY InvInit, InvStep, <1>1, PTL DEF Spec

\* The caches and the locals of the callers keep their types.
THEOREM ProbeTypeCorrect == Spec => []TypeOK
<1>1. Inv => TypeOK
  BY DEF Inv
<1> QED BY InvInit, InvStep, <1>1, PTL DEF Spec

-----------------------------------------------------------------------------
(* BodyLimit. *)

\* What is counted is what has come, and what has come has been handed on until
\* the request was cut off; one that was cut off by the count stays so, for the
\* count only grows.
CountInv ==
  /\ Limited => seen = sent
  /\ upload \in {"none", "rejected"} => sent = 0 /\ client = "sending"
  /\ upload \in {"reading", "whole"} => got = sent /\ client # "gone"
  /\ upload # "cut" => (upload = "whole" <=> client = "ended")
  /\ upload = "cut" /\ client # "gone" => Limited /\ seen > MaxBytes

BodyInv ==
  /\ BodyTypeOK /\ CountInv
  /\ BodyWithinLimit /\ WholeIsComplete /\ FittingIsServed

\* It holds of no request, which has no body ...
LEMMA BodyInvInit == BodyInit => BodyInv
<1> SUFFICES ASSUME BodyInit PROVE BodyInv
  OBVIOUS
<1>0. MaxSize \in Nat
  BY BodyAssumption DEF BodyAssumption
<1>1. BodyTypeOK
  BY <1>0 DEF BodyInit, BodyTypeOK
<1>2. CountInv
  BY DEF BodyInit, CountInv
<1>3. BodyWithinLimit /\ WholeIsComplete /\ FittingIsServed
  BY BodyAssumption DEF BodyAssumption, BodyInit, BodyWithinLimit, WholeIsComplete,
                        FittingIsServed, Limited
<1> QED BY <1>1, <1>2, <1>3 DEF BodyInv

\* ... and is kept by the server, by the middleware's receive and by its client.
LEMMA BodyInvStep == BodyInv /\ [BodyNext]_bodyVars => BodyInv'
<1> SUFFICES ASSUME BodyInv, [BodyNext]_bodyVars PROVE BodyInv'
  OBVIOUS
<1> USE BodyAssumption DEF BodyAssumption, BodyInv, Limited
<1>1. ASSUME NEW length \in 0..(MaxSize + 1) \cup {NoLength}, Open(length) PROVE BodyInv'
  <2>1. BodyTypeOK'
    BY <1>1 DEF Open, BodyTypeOK
  <2>2. CountInv' /\ BodyWithinLimit' /\ WholeIsComplete' /\ FittingIsServed'
    BY <1>1 DEF Open, BodyTypeOK, CountInv, BodyWithinLimit, WholeIsComplete, FittingIsServed
  <2> QED BY <2>1, <2>2
<1>2. ASSUME NEW n \in 0..MaxSize, NEW more \in BOOLEAN, Receive(n, more) PROVE BodyInv'
  <2>1. BodyTypeOK'
    BY <1>2 DEF Receive, Exceeds, Cut, BodyTypeOK, CountInv
  <2>2. CountInv'
    BY <1>2 DEF Receive, Exceeds, Cut, BodyTypeOK, CountInv
  <2>3. BodyWithinLimit' /\ WholeIsComplete'
    BY <1>2 DEF Receive, Exceeds, Cut, BodyTypeOK, CountInv, BodyWithinLimit, WholeIsComplete
  <2>4. FittingIsServed'
    BY <1>2 DEF Receive, Exceeds, Cut, BodyTypeOK, CountInv, FittingIsServed
  <2> QED BY <2>1, <2>2, <2>3, <2>4
<1>3. CASE ClientGone
  <2>1. BodyTypeOK' /\ CountInv'
    BY <1>3 DEF ClientGone, Cut, BodyTypeOK, CountInv
  <2>2. BodyWithinLimit' /\ WholeIsComplete' /\ FittingIsServed'
    BY <1>3 DEF ClientGone, Cut, BodyTypeOK, CountInv, BodyWithinLimit, WholeIsComplete,
                FittingIsServed
  <2> QED BY <2>1, <2>2
<1>4. CASE Close
  BY <1>4 DEF Close, Forgotten, BodyTypeOK, CountInv, BodyWithinLimit, WholeIsComplete,
              FittingIsServed
<1>5. CASE UNCHANGED bodyVars
  BY <1>5 DEF bodyVars, BodyTypeOK, CountInv, BodyWithinLimit, WholeIsComplete, FittingIsServed
<1> QED BY <1>1, <1>2, <1>3, <1>4, <1>5 DEF BodyNext

\* A request to BodySizeLimitMiddleware is counted rightly from its first byte on.
THEOREM BodyInvariant == BodySpec => []BodyInv
<1>1. BodyInit => BodyInv
  BY BodyInvInit
<1>2. BodyInv /\ [BodyNext]_bodyVars => BodyInv'
  BY BodyInvStep
<1> QED BY <1>1, <1>2, PTL DEF BodySpec

\* The application of BodySizeLimitMiddleware never holds more than max_bytes of a
\* body, declared or not, in whatever pieces it comes.
THEOREM BodyStaysWithinLimit == BodySpec => []BodyWithinLimit
<1>1. BodyInv => BodyWithinLimit
  BY DEF BodyInv
<1> QED BY BodyInvariant, <1>1, PTL

\* The application takes no body for complete that the middleware has cut off.
THEOREM WholeBodyIsComplete == BodySpec => []WholeIsComplete
<1>1. BodyInv => WholeIsComplete
  BY DEF BodyInv
<1> QED BY BodyInvariant, <1>1, PTL

\* Neither layer of the middleware refuses a body of at most max_bytes.
THEOREM FittingBodyIsServed == BodySpec => []FittingIsServed
<1>1. BodyInv => FittingIsServed
  BY DEF BodyInv
<1> QED BY BodyInvariant, <1>1, PTL

\* The locals of a request to the middleware keep their types.
THEOREM BodyTypeCorrect == BodySpec => []BodyTypeOK
<1>1. BodyInv => BodyTypeOK
  BY DEF BodyInv
<1> QED BY BodyInvariant, <1>1, PTL
=============================================================================
