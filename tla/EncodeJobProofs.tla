--------------------------- MODULE EncodeJobProofs ---------------------------
(***************************************************************************)
(* Theorems about EncodeJob.                                               *)
(***************************************************************************)
EXTENDS EncodeJob, TLAPS

AtRisk == {"close", "replace"}
Over == {"finally", "unlink"} \cup Ended

\* HandBrake runs while run_encode does and is gone when that has returned; it
\* opens its output once.
ChildInv ==
  /\ pc \in {"validate", "claim", "temp", "dump", "start"} => child = "none"
  /\ pc = "encode" => child = "alive"
  /\ child = "alive" => pc \in {"encode", "crashed"}
  /\ pc \in {"check"} \cup AtRisk => child = "gone" /\ target # "none"
  /\ child \in {"none", "unborn"} => target = "none"

\* What a HandBrake that succeeded has written to is whole.  Nothing is published
\* before, and nothing writes to the claimed file after.
WholeInv ==
  /\ pc \in {"check"} \cup AtRisk /\ target = "ours" => content = "whole"
  /\ dst \notin {"absent", "planted"} =>
       child = "gone" /\ target # "none" /\ (target = "ours" => content = "whole") /\ pc \in Over

\* Another file, or a link, at the staging path was put there: before HandBrake
\* opened it, while it ran, or after the check.
SwapInv ==
  /\ pc \in {"validate", "claim"} => staging = "absent"
  /\ pc \in {"temp", "dump", "start", "encode"} /\ target = "none" /\ staging # "ours" =>
       earlySwap
  /\ staging \notin {"absent", "ours"} /\ target = "none" => earlySwap
  /\ pc \in {"encode", "check"} \cup AtRisk /\ target \in {"foreign", "source"} =>
       earlySwap
  /\ dst \notin {"absent", "planted"} /\ target # "ours" => earlySwap
  /\ target = "source" => earlySwap
  /\ ~source => target = "source"
  /\ pc \in AtRisk /\ Leads(staging) # "ours" => lateSwap
  /\ dst \in {"foreign", "link to source"} => lateSwap

\* On the way out: the staging file is gone before the preset file is removed,
\* unless closing the descriptor has failed, which leaves held set to the end.
CleanInv ==
  /\ open => held
  /\ pc \in {"replace", "remove", "unlink", "returned"} => ~held
  /\ child # "none" =>
       /\ pc = "finally" /\ held => ~open
       /\ pc \in {"finally", "unlink", "returned", "raised"} /\ ~held /\ ~unremoved =>
            staging = "absent" \/ child = "left"
       /\ pc \in {"returned", "raised"} => ~open /\ (~held /\ ~unremoved => ~preset)

Inv == TypeOK /\ ChildInv /\ WholeInv /\ SwapInv /\ CleanInv

\* Every step of run_encode_job, of the disk and of others keeps the types.
LEMMA TypeStep == TypeOK /\ [Next]_vars => TypeOK'
<1> SUFFICES ASSUME TypeOK, [Next]_vars PROVE TypeOK'
  OBVIOUS
<1> USE DEF TypeOK, Go, Ended, Entry, files, swaps
<1>1. CASE Validate \/ Claim \/ ClaimFails \/ MakeTemp \/ Dump
  BY <1>1 DEF Validate, Claim, ClaimFails, MakeTemp, Dump
<1>2. CASE StartEncode \/ StartFails \/ EncodeReturns \/ EncodeRaises \/ Check
  BY <1>2 DEF StartEncode, StartFails, EncodeReturns, EncodeRaises, AfterFailedEncode, Check
<1>3. CASE OpenOutput
  BY <1>3 DEF OpenOutput, Target, Leads
<1>4. CASE CloseFd \/ Replace \/ ReplaceFails
  BY <1>4 DEF CloseFd, Replace, ReplaceFails
<1>5. CASE Except \/ RemovePartial \/ Finally \/ Unlink
  BY <1>5 DEF Except, RemovePartial, Finally, Unlink
<1>6. CASE Crash \/ Plant \/ UNCHANGED vars
  BY <1>6 DEF Crash, Plant, vars
<1>7. CASE Swap
  <2>1. staging' \in Entry
    BY <1>7, ReplacementsAssumption DEF Swap, ReplacementsAssumption
  <2>2. earlySwap' \in BOOLEAN /\ lateSwap' \in BOOLEAN
    BY <1>7 DEF Swap
  <2>3. UNCHANGED <<pc, raising, held, open, preset, dst, content, child, target, source,
                    unremoved>>
    BY <1>7 DEF Swap
  <2> QED BY <2>1, <2>2, <2>3
<1> QED BY <1>1, <1>2, <1>3, <1>4, <1>5, <1>6, <1>7 DEF Next

\* A call begins with no files of its own and all the output that there was.
LEMMA InvInit == Init => Inv
BY DEF Init, Inv, TypeOK, ChildInv, WholeInv, SwapInv, CleanInv, AtRisk, Over, Ended, Entry, Leads

\* HandBrake is gone before anything is published, and has then written to the
\* claimed file or been misled.
LEMMA WholeStep == Inv /\ [Next]_vars => ChildInv' /\ WholeInv'
<1> SUFFICES ASSUME Inv, [Next]_vars PROVE ChildInv' /\ WholeInv'
  OBVIOUS
<1> USE DEF Inv, TypeOK, ChildInv, WholeInv, Go, AtRisk, Over, Ended, Entry, files, swaps
<1>1. CASE Validate \/ Claim \/ ClaimFails \/ MakeTemp \/ Dump
  BY <1>1 DEF Validate, Claim, ClaimFails, MakeTemp, Dump
<1>2. CASE StartEncode \/ StartFails \/ EncodeReturns \/ EncodeRaises
  BY <1>2 DEF StartEncode, StartFails, EncodeReturns, EncodeRaises, AfterFailedEncode
<1>3. CASE OpenOutput
  BY <1>3 DEF OpenOutput, Target, Leads
<1>4. CASE Check \/ CloseFd \/ Replace \/ ReplaceFails
  BY <1>4 DEF Check, CloseFd, Replace, ReplaceFails
<1>5. CASE Except \/ RemovePartial \/ Finally \/ Unlink
  BY <1>5 DEF Except, RemovePartial, Finally, Unlink
<1>6. CASE Crash \/ Swap \/ Plant \/ UNCHANGED vars
  BY <1>6 DEF Crash, Swap, Plant, vars
<1> QED BY <1>1, <1>2, <1>3, <1>4, <1>5, <1>6 DEF Next

\* Whatever is at the staging path without being the claimed file was put there by
\* others, and only what they put there after the check is published.
LEMMA SwapStep == Inv /\ [Next]_vars => SwapInv'
<1> SUFFICES ASSUME Inv, [Next]_vars PROVE SwapInv'
  OBVIOUS
<1> USE DEF Inv, TypeOK, ChildInv, SwapInv, Go, AtRisk, Ended, Entry, files, swaps
<1>1. CASE Validate \/ Claim \/ ClaimFails \/ MakeTemp \/ Dump
  BY <1>1 DEF Validate, Claim, ClaimFails, MakeTemp, Dump
<1>2. CASE StartEncode \/ StartFails \/ EncodeReturns \/ EncodeRaises
  BY <1>2 DEF StartEncode, StartFails, EncodeReturns, EncodeRaises, AfterFailedEncode
<1>3. CASE OpenOutput
  BY <1>3 DEF OpenOutput, Target, Leads
<1>4. CASE Check
  BY <1>4 DEF Check, SameFile
<1>5. CASE Replace
  BY <1>5 DEF Replace, Leads
<1>6. CASE CloseFd \/ ReplaceFails
  BY <1>6 DEF CloseFd, ReplaceFails
<1>7. CASE Except \/ RemovePartial \/ Finally \/ Unlink
  BY <1>7 DEF Except, RemovePartial, Finally, Unlink
<1>8. CASE Swap
  BY <1>8 DEF Swap
<1>9. CASE Crash \/ Plant \/ UNCHANGED vars
  BY <1>9 DEF Crash, Plant, vars
<1> QED BY <1>1, <1>2, <1>3, <1>4, <1>5, <1>6, <1>7, <1>8, <1>9 DEF Next

\* What is still there when the job function ends is there because a close or a
\* removal failed, or because HandBrake was left running.
LEMMA CleanStep == Inv /\ [Next]_vars => CleanInv'
<1> SUFFICES ASSUME Inv, [Next]_vars PROVE CleanInv'
  OBVIOUS
<1> USE DEF Inv, ChildInv, CleanInv, Go, AtRisk, Ended, files, swaps
<1>1. CASE Validate \/ Claim \/ ClaimFails \/ MakeTemp \/ Dump
  BY <1>1 DEF Validate, Claim, ClaimFails, MakeTemp, Dump
<1>2. CASE StartEncode \/ StartFails \/ EncodeReturns \/ EncodeRaises
  BY <1>2 DEF StartEncode, StartFails, EncodeReturns, EncodeRaises, AfterFailedEncode
<1>3. CASE OpenOutput
  BY <1>3 DEF OpenOutput, Target
<1>4. CASE Check \/ CloseFd \/ Replace \/ ReplaceFails
  BY <1>4 DEF Check, CloseFd, Replace, ReplaceFails
<1>5. CASE Except \/ Finally
  BY <1>5 DEF Except, Finally
<1>6. CASE RemovePartial \/ Unlink
  BY <1>6 DEF RemovePartial, Unlink
<1>7. CASE Crash \/ Swap \/ Plant \/ UNCHANGED vars
  BY <1>7 DEF Crash, Swap, Plant, vars
<1> QED BY <1>1, <1>2, <1>3, <1>4, <1>5, <1>6, <1>7 DEF Next

\* No step of the job function, of HandBrake or of others breaks any of it.
LEMMA InvStep == Inv /\ [Next]_vars => Inv'
BY TypeStep, WholeStep, SwapStep, CleanStep DEF Inv

\* Whatever call fails, and wherever the process dies, an encode that stands under
\* the output path is whole, or HandBrake was misled about where to write it.
THEOREM WholeOrNothing == Spec => []PublishedIsWhole
<1>1. Inv => PublishedIsWhole
  BY DEF Inv, TypeOK, Entry, WholeInv, SwapInv, PublishedIsWhole, Leads
<1> QED BY InvInit, InvStep, <1>1, PTL DEF Spec

\* What replaced the staging file before the check, a link to another file
\* included, is never published.
THEOREM ReplacementRefused == Spec => []ReplacementIsRefused
<1>1. Inv => ReplacementIsRefused
  BY DEF Inv, SwapInv, ReplacementIsRefused
<1> QED BY InvInit, InvStep, <1>1, PTL DEF Spec

\* A call of run_encode_job that ends after the encode was begun leaves no open
\* descriptor, and no file but for a removal or a close that failed, or a HandBrake
\* that was left running.
THEOREM Cleaned == Spec => []CleansUp
<1>1. Inv => CleansUp
  BY DEF Inv, TypeOK, CleanInv, CleansUp
<1> QED BY InvInit, InvStep, <1>1, PTL DEF Spec

\* run_encode_job loses none of its variables' types.
THEOREM EncodeJobTypeCorrect == Spec => []TypeOK
<1>1. Inv => TypeOK
  BY DEF Inv
<1> QED BY InvInit, InvStep, <1>1, PTL DEF Spec

\* HandBrakeCLI opens the staging path alone, and finds a link to the source there
\* only when somebody put it there before it did: the source survives any link put
\* at the output path, and any put at the staging path later.
THEOREM SourceSafe == Spec => []SourceSurvives
<1>1. Inv => SourceSurvives
  BY DEF Inv, SwapInv, SourceSurvives
<1> QED BY InvInit, InvStep, <1>1, PTL DEF Spec
=============================================================================
