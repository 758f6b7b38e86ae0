----------------------------- MODULE JobViewProofs -----------------------------
(***************************************************************************)
(* Theorems about JobView, for any clock and any age of estimates.         *)
(***************************************************************************)
EXTENDS JobView, TLAPS

\* The worker has left its job function, and has filled in the fields of the
\* branch it ends in, before it writes the status, the last of its writes.
AfterReturn == {"finish", "explain", "fill", "publish", "done"}
WriterInv ==
  /\ wpc \in {"queued", "run", "stamp"} => ending = "completed"
  /\ wpc \in AfterReturn /\ ending = "completed" => output # None
  /\ wpc \in AfterReturn \ {"finish"} => finishedAt # None
  /\ wpc = "explain" => ending = "failed"
  /\ wpc = "fill" => ending = "completed"
  /\ wpc \in {"publish", "done"} /\ ending = "failed" => error # None
  /\ wpc \in {"publish", "done"} /\ ending = "completed" => progress = 100
  /\ status \in Terminal => wpc = "done" /\ status = ending

\* The reader has read a terminal status only of a worker that writes no more,
\* and each field that it reads after the status is the one that stands there.
ReadProgress   == {"eta", "error", "output", "finishedAt", "done"}
ReadError      == {"output", "finishedAt", "done"}
ReadOutput     == {"finishedAt", "done"}
ReaderInv ==
  /\ rpc \in {"idle", "status", "etaAt", "clock", "age", "status2", "raised"} =>
       reply.status = "queued"
  /\ reply.status \in Terminal =>
       /\ wpc = "done" /\ reply.status = status
       /\ rpc \in ReadProgress => reply.progress = progress
       /\ rpc \in ReadError => reply.error = error
       /\ rpc \in ReadOutput => reply.output = output
       /\ rpc = "done" => reply.finishedAt = finishedAt

\* A reply is a record of these fields.
Reply == [status : Status, progress : Percent, eta : TimeOrNone, error : {None, "raised"},
          output : {None, "path"}, finishedAt : TimeOrNone]

Inv == TypeOK /\ reply \in Reply /\ WriterInv /\ ReaderInv

\* A job is queued and unread at first ...
LEMMA InvInit == Init => Inv
<1> SUFFICES ASSUME Init PROVE Inv
  OBVIOUS
<1>1. TypeOK /\ reply \in Reply
  BY ViewAssumption DEF ViewAssumption, Init, TypeOK, Reply, Empty, Status, Terminal, Percent,
                        TimeOrNone
<1>2. WriterInv /\ ReaderInv
  BY DEF Init, WriterInv, ReaderInv, Empty, AfterReturn, Terminal
<1> QED BY <1>1, <1>2 DEF Inv

\* ... a write of the worker changes no field that a terminal status vouches for ...
LEMMA WorkerKeepsInv == Inv /\ Worker => Inv'
<1> SUFFICES ASSUME Inv, Worker PROVE Inv'
  OBVIOUS
<1>1. reply' = reply /\ rpc' = rpc /\ rEta' = rEta /\ rNow' = rNow /\ now' = now
  BY DEF Worker, Claim, Unclaimed, Describe, SetProgress, SetEtaValue, SetEtaStamp, Return,
         WriteFinishedAt, WriteError, FillProgress, WriteStatus, Write, readerVars
<1>2. TypeOK' /\ (reply \in Reply)'
  <2>1. CASE Claim \/ Unclaimed \/ Describe \/ SetProgress
    BY <1>1, <2>1 DEF Inv, TypeOK, Claim, Unclaimed, Describe, SetProgress, Write, jobFields,
                      Status, Terminal
  <2>2. CASE SetEtaValue \/ SetEtaStamp
    BY <1>1, <2>2 DEF Inv, TypeOK, SetEtaValue, SetEtaStamp, Write, TimeOrNone
  <2>3. CASE \E o \in Terminal : Return(o)
    BY <1>1, <2>3 DEF Inv, TypeOK, Return, Write, jobFields
  <2>4. CASE WriteFinishedAt
    BY <1>1, <2>4 DEF Inv, TypeOK, WriteFinishedAt, AfterFinish, Write, TimeOrNone
  <2>5. CASE WriteError \/ FillProgress \/ WriteStatus
    BY <1>1, <2>5 DEF Inv, TypeOK, WriteError, FillProgress, WriteStatus, Write, Status, Percent
  <2> QED BY <2>1, <2>2, <2>3, <2>4, <2>5 DEF Worker
<1>3. WriterInv'
  <2> USE DEF Inv, TypeOK, WriterInv, AfterReturn, Write, Terminal, jobFields
  <2>1. CASE Claim \/ Unclaimed \/ Describe \/ SetProgress \/ SetEtaValue \/ SetEtaStamp
    BY <2>1 DEF Claim, Unclaimed, Describe, SetProgress, SetEtaValue, SetEtaStamp
  <2>2. CASE \E o \in Terminal : Return(o)
    BY <2>2 DEF Return
  <2>3. CASE WriteFinishedAt
    BY <2>3, ViewAssumption DEF ViewAssumption, WriteFinishedAt, AfterFinish
  <2>4. CASE WriteError \/ FillProgress \/ WriteStatus
    BY <2>4, ViewAssumption DEF ViewAssumption, WriteError, FillProgress, WriteStatus
  <2> QED BY <2>1, <2>2, <2>3, <2>4 DEF Worker
<1>4. ReaderInv'
  <2>1. wpc # "done"
    BY DEF Worker, Claim, Unclaimed, Describe, SetProgress, SetEtaValue, SetEtaStamp, Return,
           WriteFinishedAt, WriteError, FillProgress, WriteStatus, Write
  <2> QED BY <1>1, <2>1 DEF Inv, ReaderInv
<1> QED BY <1>2, <1>3, <1>4 DEF Inv

\* ... a read of GET /jobs/{id} takes each field as it stands ...
LEMMA ReaderKeepsInv == Inv /\ Reader => Inv'
<1> SUFFICES ASSUME Inv, Reader PROVE Inv'
  OBVIOUS
<1>1. UNCHANGED <<jobFields, wpc, ending, now>>
  BY DEF Reader, ReadEta, ReadStatus, ReadEtaAt, ReadClock, ReadAge, FillReply, Fill, Step
<1>2. WriterInv'
  BY <1>1 DEF Inv, WriterInv, jobFields
<1>3. CASE ReadEta
  <2>1. TypeOK' /\ (reply \in Reply)'
    BY <1>1, <1>3 DEF Inv, TypeOK, jobFields, ReadEta, Step, Empty, Reply, Status, Percent, TimeOrNone
  <2>2. ReaderInv'
    BY <1>3 DEF ReadEta, Step, ReaderInv, Empty, Terminal
  <2> QED BY <1>2, <2>1, <2>2 DEF Inv
<1>4. CASE ReadStatus \/ ReadEtaAt \/ ReadClock \/ ReadAge
  <2>1. TypeOK' /\ (reply \in Reply)'
    BY <1>1, <1>4 DEF Inv, TypeOK, jobFields, ReadStatus, ReadEtaAt, ReadClock, ReadAge, Step, TimeOrNone
  <2>2. ReaderInv'
    BY <1>4 DEF Inv, ReadStatus, ReadEtaAt, ReadClock, ReadAge, Step, ReaderInv, Terminal
  <2> QED BY <1>2, <2>1, <2>2 DEF Inv
<1>5. CASE FillReply
  <2>1. (reply \in Reply)'
    BY <1>5 DEF Inv, TypeOK, FillReply, Fill, Reply
  <2>2. TypeOK'
    BY <1>1, <1>5, <2>1 DEF Inv, TypeOK, jobFields, FillReply, Fill, Step, Reply
  <2>3. ReaderInv'
    <3> USE DEF Inv, TypeOK, WriterInv, ReaderInv, Reply, Fill, Step, jobFields, Terminal,
                ReadProgress, ReadError, ReadOutput
    <3>1. CASE Fill("status2", "progress", "status", status)
      BY <3>1
    <3>2. CASE Fill("progress", "eta", "progress", progress)
      BY <3>2
    <3>3. CASE Fill("eta", "error", "eta", rEta)
      BY <3>3
    <3>4. CASE Fill("error", "output", "error", error)
      BY <3>4
    <3>5. CASE Fill("output", "finishedAt", "output", output)
      BY <3>5
    <3>6. CASE Fill("finishedAt", "done", "finishedAt", finishedAt)
      BY <3>6
    <3> QED BY <1>5, <3>1, <3>2, <3>3, <3>4, <3>5, <3>6 DEF FillReply
  <2> QED BY <1>2, <2>1, <2>2, <2>3 DEF Inv
<1> QED BY <1>3, <1>4, <1>5 DEF Reader

\* ... and the clock touches neither the job nor the reply.
LEMMA InvStep == Inv /\ [Next]_vars => Inv'
<1> SUFFICES ASSUME Inv, [Next]_vars PROVE Inv'
  OBVIOUS
<1>1. CASE Tick
  <2>1. TypeOK'
    BY <1>1, ViewAssumption DEF ViewAssumption, Inv, TypeOK, Tick, jobFields, readerVars
  <2> QED BY <1>1, <2>1 DEF Inv, WriterInv, ReaderInv, Tick, jobFields, readerVars
<1>2. CASE UNCHANGED vars
  BY <1>2 DEF vars, jobFields, readerVars, Inv, TypeOK, WriterInv, ReaderInv
<1> QED BY <1>1, <1>2, WorkerKeepsInv, ReaderKeepsInv DEF Next

\* What every reachable state of worker and reader satisfies: the worker fills in
\* the fields of its branch before the status, the reader reads them after it.
THEOREM Invariant == Spec => []Inv
<1> QED BY InvInit, InvStep, PTL DEF Spec

\* However slowly to_dict reads and whenever the worker writes, a reply with a
\* terminal status tells when the job ended, why, and what was made of it.
THEOREM TerminalReplyComplete == Spec => []TerminalReplyIsComplete
<1>1. Inv => TerminalReplyIsComplete
  BY DEF Inv, WriterInv, ReaderInv, TerminalReplyIsComplete, AfterReturn, Terminal, ReadProgress,
         ReadError, ReadOutput
<1> QED BY Invariant, <1>1, PTL

\* The fields of a Job, of its worker and of its reader keep their types.
THEOREM ViewTypeCorrect == Spec => []TypeOK
<1>1. Inv => TypeOK
  BY DEF Inv
<1> QED BY Invariant, <1>1, PTL
=============================================================================
