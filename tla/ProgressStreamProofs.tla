------------------------- MODULE ProgressStreamProofs -------------------------
(***************************************************************************)
(* Theorems about ProgressStream, for any cap that an object fits into, any *)
(* messages and any noise.  The scan is a function over the characters of  *)
(* the buffer: what it comes to is known line by line, and between the     *)
(* lines the buffer holds one of a few things.                             *)
(***************************************************************************)
EXTENDS ProgressStream, TLAPS, NaturalsInduction, SequenceTheorems, WellFoundedInduction

-----------------------------------------------------------------------------
(* The scan of parse_progress_objects, as a function of the characters.    *)

\* Induction over the naturals, for a set of them.
LEMMA Climb ==
  ASSUME NEW S \in SUBSET Nat, 0 \in S, \A n \in S : n + 1 \in S
  PROVE  S = Nat
<1> SUFFICES ASSUME Nat \ S # {} PROVE FALSE
  OBVIOUS
<1> DEFINE Less == {pair \in Nat \X Nat : pair[1] < pair[2]}
<1>0. IsWellFoundedOn(Less, Nat)
  BY NatLessThanWellFounded DEF OpToRel
<1>1. PICK x \in Nat \ S : \A y \in Nat \ S : <<y, x>> \notin Less
  <2> HIDE DEF Less
  <2> QED BY <1>0, WFMin
<1>2. x - 1 \in Nat /\ x - 1 < x
  OBVIOUS
<1>3. x - 1 \in S
  BY <1>1, <1>2
<1> QED BY <1>1, <1>2, <1>3

\* The scan is a function: it exists for as many characters as there are ...
LEMMA ScanExists ==
  ASSUME NEW chunk, NEW n \in Nat
  PROVE  \E f : f = [i \in 0..n |-> IF i = 0 THEN Unscanned ELSE Scan(f[i - 1], chunk, i)]
<1> DEFINE Is(f, m) == f = [i \in 0..m |-> IF i = 0 THEN Unscanned ELSE Scan(f[i - 1], chunk, i)]
           S == {m \in Nat : \E f : Is(f, m)}
<1>1. 0 \in S
  <2>1. Is([i \in 0..0 |-> Unscanned], 0)
    OBVIOUS
  <2> QED BY <2>1
<1>2. ASSUME NEW m \in S PROVE m + 1 \in S
  <2>1. PICK f : Is(f, m)
    OBVIOUS
  <2> DEFINE g == [i \in 0..(m + 1) |-> IF i = m + 1 THEN Scan(f[m], chunk, m + 1) ELSE f[i]]
  <2>2. \A i \in 0..(m + 1) : g[i] = IF i = 0 THEN Unscanned ELSE Scan(g[i - 1], chunk, i)
    <3>1. \A i \in 0..m : g[i] = f[i]
      OBVIOUS
    <3>2. \A i \in 0..m : f[i] = IF i = 0 THEN Unscanned ELSE Scan(f[i - 1], chunk, i)
      BY <2>1
    <3>3. g[m + 1] = Scan(g[m], chunk, m + 1)
      BY <3>1
    <3> HIDE DEF g
    <3> QED BY <3>1, <3>2, <3>3
  <2>3. g = [i \in 0..(m + 1) |-> g[i]] /\ m + 1 \in Nat
    OBVIOUS
  <2>4. Is(g, m + 1)
    <3> HIDE DEF g
    <3> QED BY <2>2, <2>3
  <2> HIDE DEF Is, g
  <2> QED BY <2>3, <2>4
<1>3. S = Nat
  <2> HIDE DEF S
  <2>1. S \in SUBSET Nat
    BY DEF S
  <2> QED BY <1>1, <1>2, <2>1, Climb
<1> QED BY <1>3

\* ... and goes on from one to the next.
LEMMA ScanStep ==
  ASSUME NEW chunk, Len(chunk) \in Nat
  PROVE  /\ Scanned(chunk)[0] = Unscanned
         /\ \A i \in 1..Len(chunk) : Scanned(chunk)[i] = Scan(Scanned(chunk)[i - 1], chunk, i)
<1> DEFINE Is(f) == f = [i \in 0..Len(chunk) |->
                           IF i = 0 THEN Unscanned ELSE Scan(f[i - 1], chunk, i)]
           scanned == CHOOSE f : Is(f)
<1>1. Scanned(chunk) = scanned
  BY DEF Scanned
<1>2. \E f : Is(f)
  BY ScanExists
<1>3. Is(scanned)
  <2> HIDE DEF Is
  <2> QED BY <1>2
<1> HIDE DEF scanned
<1> QED BY <1>1, <1>3

Char == {"open", "close", "quote", "backslash", "newline", "o", "x"} \cup Message

\* The locals of the scan outside a string, in one, and after a backslash in one.
Outside(d, a, S, O) ==
  [depth |-> d, start |-> a, at |-> "outside", strings |-> S, objects |-> O]
Within(d, a, S, O) ==
  [depth |-> d, start |-> a, at |-> "string", strings |-> S, objects |-> O]
Escaped(d, a, S, O) ==
  [depth |-> d, start |-> a, at |-> "escaped", strings |-> S, objects |-> O]

\* One character of the scan outside a string that is no brace and no quote ...
LEMMA OutsideOther ==
  ASSUME NEW d, NEW a, NEW S, NEW O, NEW chunk, NEW i, NEW s, s = Outside(d, a, S, O),
         chunk[i] \notin {"open", "close", "quote"}
  PROVE  Scan(s, chunk, i) = s
BY DEF Outside, Scan

\* ... a quote ...
LEMMA OutsideQuote ==
  ASSUME NEW d, NEW a, NEW S, NEW O, NEW chunk, NEW i, NEW s, s = Outside(d, a, S, O),
         chunk[i] = "quote", NEW X, X = S \cup {i}
  PROVE  Scan(s, chunk, i) = Within(d, a, X, O)
<1>0. s.depth = d /\ s.start = a /\ s.at = "outside" /\ s.strings = S /\ s.objects = O
  BY DEF Outside
<1>1. Scan(s, chunk, i) = [[s EXCEPT !.at = "string"] EXCEPT !.strings = X]
  BY <1>0 DEF Scan
<1>2. [s EXCEPT !.at = "string"] = Within(d, a, S, O)
  BY DEF Outside, Within
<1>3. [Within(d, a, S, O) EXCEPT !.strings = X] = Within(d, a, X, O)
  BY DEF Within
<1> QED BY <1>1, <1>2, <1>3

\* ... a brace that opens an object, the outermost or another ...
LEMMA OutsideOpenTo ==
  ASSUME NEW d \in Nat, NEW a, NEW S, NEW O, NEW chunk, NEW i, NEW s, s = Outside(d, a, S, O),
         chunk[i] = "open", NEW e, e = d + 1, NEW b, b = IF d = 0 THEN i ELSE a
  PROVE  Scan(s, chunk, i) = Outside(e, b, S, O)
<1>0. s.depth = d /\ s.start = a /\ s.at = "outside" /\ s.strings = S /\ s.objects = O
  BY DEF Outside
<1>1. Scan(s, chunk, i) = OpenBrace(s, i)
  BY <1>0 DEF Scan
<1>2. OpenBrace(s, i) = [[s EXCEPT !.depth = e] EXCEPT !.start = b]
  BY <1>0 DEF OpenBrace
<1>3. [s EXCEPT !.depth = e] = Outside(e, a, S, O)
  BY DEF Outside
<1>4. [Outside(e, a, S, O) EXCEPT !.start = b] = Outside(e, b, S, O)
  BY DEF Outside
<1> QED BY <1>1, <1>2, <1>3, <1>4

\* ... the outermost ...
LEMMA OutsideFirst ==
  ASSUME NEW a, NEW S, NEW O, NEW chunk, NEW i, NEW s, s = Outside(0, a, S, O),
         chunk[i] = "open"
  PROVE  Scan(s, chunk, i) = Outside(1, i, S, O)
<1>1. 0 \in Nat /\ 0 + 1 = 1
  OBVIOUS
<1> QED BY <1>1, OutsideOpenTo

\* ... or another ...
LEMMA OutsideOpen ==
  ASSUME NEW d \in Nat, d > 0, NEW a, NEW S, NEW O, NEW chunk, NEW i, NEW s,
         s = Outside(d, a, S, O), chunk[i] = "open"
  PROVE  Scan(s, chunk, i) = Outside(d + 1, a, S, O)
BY OutsideOpenTo

\* ... that is one: it may end an object.
LEMMA OutsideClose ==
  ASSUME NEW d \in Nat, NEW a, NEW S, NEW O, NEW chunk, NEW i, NEW s, s = Outside(d, a, S, O),
         chunk[i] = "close"
  PROVE  /\ d = 0 => Scan(s, chunk, i) = s
         /\ d > 0 => Scan(s, chunk, i) = Outside(d - 1, a, S, Loaded(s, chunk, i))
<1>0. s.depth = d /\ s.start = a /\ s.at = "outside" /\ s.strings = S /\ s.objects = O
  BY DEF Outside
<1>1. Scan(s, chunk, i) = CloseBrace(s, chunk, i)
  BY <1>0 DEF Scan
<1>2. d = 0 => CloseBrace(s, chunk, i) = s
  BY <1>0 DEF CloseBrace
<1>3. ASSUME d > 0, NEW X, X = Loaded(s, chunk, i)
      PROVE  CloseBrace(s, chunk, i) = Outside(d - 1, a, S, X)
  <2>1. CloseBrace(s, chunk, i) = [[s EXCEPT !.depth = d - 1] EXCEPT !.objects = X]
    BY <1>0, <1>3 DEF CloseBrace
  <2>2. [s EXCEPT !.depth = d - 1] = Outside(d - 1, a, S, O)
    BY DEF Outside
  <2>3. [Outside(d - 1, a, S, O) EXCEPT !.objects = X] = Outside(d - 1, a, S, X)
    BY DEF Outside
  <2> QED BY <2>1, <2>2, <2>3
<1> QED BY <1>1, <1>2, <1>3

\* One character of the scan in a string, and after a backslash.
LEMMA WithinOther ==
  ASSUME NEW d, NEW a, NEW S, NEW O, NEW chunk, NEW i, NEW s, NEW X, X = S \cup {i},
         s = Within(d, a, S, O), chunk[i] \notin {"quote", "backslash"}
  PROVE  Scan(s, chunk, i) = Within(d, a, X, O)
<1>1. s.at = "string" /\ s.strings = S
  BY DEF Within
<1>2. Scan(s, chunk, i) = [[s EXCEPT !.strings = X] EXCEPT !.at = "string"]
  <2>1. Scan(s, chunk, i) = InString(s, chunk[i], i)
    BY <1>1 DEF Scan
  <2> QED BY <1>1, <2>1 DEF InString
<1>3. [s EXCEPT !.strings = X] = Within(d, a, X, O)
  BY DEF Within
<1>4. [Within(d, a, X, O) EXCEPT !.at = "string"] = Within(d, a, X, O)
  BY DEF Within
<1> QED BY <1>2, <1>3, <1>4

\* ... a quote ends it ...
LEMMA WithinQuote ==
  ASSUME NEW d, NEW a, NEW S, NEW O, NEW chunk, NEW i, NEW s, NEW X, X = S \cup {i},
         s = Within(d, a, S, O), chunk[i] = "quote"
  PROVE  Scan(s, chunk, i) = Outside(d, a, X, O)
<1>1. s.at = "string" /\ s.strings = S
  BY DEF Within
<1>2. Scan(s, chunk, i) = [[s EXCEPT !.strings = X] EXCEPT !.at = "outside"]
  <2>1. Scan(s, chunk, i) = InString(s, chunk[i], i)
    BY <1>1 DEF Scan
  <2> QED BY <1>1, <2>1 DEF InString
<1>3. [s EXCEPT !.strings = X] = Within(d, a, X, O)
  BY DEF Within
<1>4. [Within(d, a, X, O) EXCEPT !.at = "outside"] = Outside(d, a, X, O)
  BY DEF Outside, Within
<1> QED BY <1>2, <1>3, <1>4

\* ... a backslash escapes the next character ...
LEMMA WithinBackslash ==
  ASSUME NEW d, NEW a, NEW S, NEW O, NEW chunk, NEW i, NEW s, NEW X, X = S \cup {i},
         s = Within(d, a, S, O), chunk[i] = "backslash"
  PROVE  Scan(s, chunk, i) = Escaped(d, a, X, O)
<1>1. s.at = "string" /\ s.strings = S
  BY DEF Within
<1>2. Scan(s, chunk, i) = [[s EXCEPT !.strings = X] EXCEPT !.at = "escaped"]
  <2>1. Scan(s, chunk, i) = InString(s, chunk[i], i)
    BY <1>1 DEF Scan
  <2> QED BY <1>1, <2>1 DEF InString
<1>3. [s EXCEPT !.strings = X] = Within(d, a, X, O)
  BY DEF Within
<1>4. [Within(d, a, X, O) EXCEPT !.at = "escaped"] = Escaped(d, a, X, O)
  BY DEF Escaped, Within
<1> QED BY <1>2, <1>3, <1>4

\* ... which is none of these, whatever it is.
LEMMA EscapedAny ==
  ASSUME NEW d, NEW a, NEW S, NEW O, NEW chunk, NEW i, NEW s, NEW X, X = S \cup {i},
         s = Escaped(d, a, S, O)
  PROVE  Scan(s, chunk, i) = Within(d, a, X, O)
<1>1. s.at = "escaped" /\ s.strings = S
  BY DEF Escaped
<1>2. Scan(s, chunk, i) = [[s EXCEPT !.strings = X] EXCEPT !.at = "string"]
  <2>1. Scan(s, chunk, i) = InString(s, chunk[i], i)
    BY <1>1 DEF Scan
  <2> QED BY <1>1, <2>1 DEF InString
<1>3. [s EXCEPT !.strings = X] = Escaped(d, a, X, O)
  BY DEF Escaped
<1>4. [Escaped(d, a, X, O) EXCEPT !.at = "string"] = Within(d, a, X, O)
  BY DEF Escaped, Within
<1> QED BY <1>2, <1>3, <1>4

\* What the locals can be after i characters.
Form(s, i) ==
  \E d \in Nat, a \in 0..i, S \in SUBSET (1..i) : \E O :
    /\ s \in {Outside(d, a, S, O), Within(d, a, S, O), Escaped(d, a, S, O)}
    /\ d > 0 => a > 0

\* A scan that is given by its parts is one of them.
LEMMA IsForm ==
  ASSUME NEW i \in Nat, NEW d \in Nat, NEW a \in 0..i, NEW S, S \subseteq 1..i, NEW O, NEW s,
         d > 0 => a > 0, s \in {Outside(d, a, S, O), Within(d, a, S, O), Escaped(d, a, S, O)}
  PROVE  Form(s, i)
BY DEF Form

\* It stays so.
LEMMA FormStep ==
  ASSUME NEW chunk, NEW i \in Nat \ {0}, NEW s, Form(s, i - 1)
  PROVE  Form(Scan(s, chunk, i), i)
<1>0. PICK d \in Nat, a \in 0..(i - 1), S \in SUBSET (1..(i - 1)) : \E O :
        /\ s \in {Outside(d, a, S, O), Within(d, a, S, O), Escaped(d, a, S, O)}
        /\ d > 0 => a > 0
  BY Zenon DEF Form
<1>1. PICK O : /\ s \in {Outside(d, a, S, O), Within(d, a, S, O), Escaped(d, a, S, O)}
               /\ d > 0 => a > 0
  BY <1>0, Zenon
<1>2. i \in Nat /\ a \in 0..i /\ i \in 0..i /\ i > 0 /\ S \subseteq 1..i /\ S \cup {i} \subseteq 1..i
  OBVIOUS
<1>3. CASE s = Outside(d, a, S, O)
  <2>1. CASE chunk[i] \notin {"open", "close", "quote"}
    <3>1. Scan(s, chunk, i) = s
      BY <1>3, <2>1, OutsideOther
    <3> QED BY <1>1, <1>2, <3>1, IsForm
  <2>2. CASE chunk[i] = "quote"
    <3>1. Scan(s, chunk, i) = Within(d, a, S \cup {i}, O)
      BY <1>3, <2>2, OutsideQuote
    <3> QED BY <1>1, <1>2, <3>1, IsForm
  <2>3. CASE chunk[i] = "open"
    <3>1. CASE d > 0
      <4>1. Scan(s, chunk, i) = Outside(d + 1, a, S, O) /\ d + 1 \in Nat /\ a > 0
        BY <1>1, <1>3, <2>3, <3>1, OutsideOpen
      <4> QED BY <1>2, <4>1, IsForm
    <3>2. CASE d = 0
      <4>1. Scan(s, chunk, i) = Outside(1, i, S, O) /\ 1 \in Nat
        BY <1>3, <2>3, <3>2, OutsideFirst
      <4> QED BY <1>2, <4>1, IsForm
    <3> QED BY <3>1, <3>2
  <2>4. CASE chunk[i] = "close"
    <3>1. CASE d = 0
      <4>1. Scan(s, chunk, i) = s
        BY <1>3, <2>4, <3>1, OutsideClose
      <4> QED BY <1>1, <1>2, <4>1, IsForm
    <3>2. CASE d > 0
      <4>1. Scan(s, chunk, i) = Outside(d - 1, a, S, Loaded(s, chunk, i)) /\ d - 1 \in Nat /\ a > 0
        BY <1>1, <1>3, <2>4, <3>2, OutsideClose
      <4> QED BY <1>2, <4>1, IsForm
    <3> QED BY <3>1, <3>2
  <2> QED BY <2>1, <2>2, <2>3, <2>4
<1>4. CASE s = Within(d, a, S, O)
  <2>1. \/ Scan(s, chunk, i) = Outside(d, a, S \cup {i}, O)
        \/ Scan(s, chunk, i) = Within(d, a, S \cup {i}, O)
        \/ Scan(s, chunk, i) = Escaped(d, a, S \cup {i}, O)
    BY <1>4, WithinOther, WithinQuote, WithinBackslash
  <2> QED BY <1>1, <1>2, <2>1, IsForm
<1>5. CASE s = Escaped(d, a, S, O)
  <2>1. Scan(s, chunk, i) = Within(d, a, S \cup {i}, O)
    BY <1>5, EscapedAny
  <2> QED BY <1>1, <1>2, <2>1, IsForm
<1> QED BY <1>1, <1>3, <1>4, <1>5

\* The locals after each character.
LEMMA ScanForm ==
  ASSUME NEW chunk, Len(chunk) \in Nat
  PROVE  \A i \in 0..Len(chunk) : Form(Scanned(chunk)[i], i)
<1> DEFINE S == {i \in Nat : i <= Len(chunk) => Form(Scanned(chunk)[i], i)}
<1>2. 0 \in S
  <2>1. Scanned(chunk)[0] = Outside(0, 0, {}, <<>>)
    BY ScanStep DEF Unscanned, Outside
  <2>2. 0 \in Nat /\ 0 \in 0..0 /\ {} \in SUBSET (1..0)
    OBVIOUS
  <2>3. Form(Scanned(chunk)[0], 0)
    BY <2>1, <2>2 DEF Form
  <2> QED BY <2>3
<1>3. ASSUME NEW i \in S PROVE i + 1 \in S
  <2> SUFFICES ASSUME i + 1 <= Len(chunk) PROVE Form(Scanned(chunk)[i + 1], i + 1)
    OBVIOUS
  <2>1. i + 1 \in 1..Len(chunk) /\ i + 1 - 1 = i /\ Form(Scanned(chunk)[i], i)
    OBVIOUS
  <2>2. Scanned(chunk)[i + 1] = Scan(Scanned(chunk)[i], chunk, i + 1)
    BY <2>1, ScanStep
  <2> QED BY <2>1, <2>2, FormStep
<1>4. S = Nat
  <2> HIDE DEF S
  <2>1. S \in SUBSET Nat
    BY DEF S
  <2> QED BY <1>2, <1>3, <2>1, Climb
<1> QED BY <1>4

\* What is well-formed depends on the characters of the object alone.
LEMMA Agree ==
  ASSUME NEW chunk, NEW other, NEW i \in Nat, \A k \in 1..i : chunk[k] = other[k],
         NEW S, NEW a \in 1..(i - 1)
  PROVE  WellFormed(chunk, S, a, i) = WellFormed(other, S, a, i)
<1>1. \A k \in a..i : chunk[k] = other[k]
  OBVIOUS
<1>2. \A k \in a..i : k > a => chunk[k - 1] = other[k - 1]
  OBVIOUS
<1>3. WellFormed(chunk, S, a, i) => WellFormed(other, S, a, i)
  BY <1>1, <1>2 DEF WellFormed
<1>4. WellFormed(other, S, a, i) => WellFormed(chunk, S, a, i)
  BY <1>1, <1>2 DEF WellFormed
<1> QED BY <1>3, <1>4, Zenon DEF WellFormed

\* A character of the scan depends on no later one.
LEMMA ScanLocal ==
  ASSUME NEW chunk \in Seq(Char), NEW other \in Seq(Char),
         NEW i \in 1..Len(chunk), i <= Len(other), \A k \in 1..i : chunk[k] = other[k],
         NEW s, Form(s, i - 1)
  PROVE  Scan(s, chunk, i) = Scan(s, other, i)
<1>0. PICK d \in Nat, a \in 0..(i - 1), S \in SUBSET (1..(i - 1)) : \E O :
        /\ s \in {Outside(d, a, S, O), Within(d, a, S, O), Escaped(d, a, S, O)}
        /\ d > 0 => a > 0
  BY Zenon DEF Form
<1>1. PICK O : /\ s \in {Outside(d, a, S, O), Within(d, a, S, O), Escaped(d, a, S, O)}
               /\ d > 0 => a > 0
  BY <1>0, Zenon
<1>2. chunk[i] = other[i]
  OBVIOUS
<1>3. s.start = a /\ s.depth = d /\ s.strings = S /\ s.objects = O
  BY <1>1 DEF Outside, Within, Escaped
<1>4. Loaded(s, chunk, i) = Loaded(s, other, i)
  <2>1. CASE d # 1
    BY <1>3, <2>1, Zenon DEF Loaded
  <2>2. CASE d = 1
    <3>1. a \in 1..(i - 1)
      BY <1>1, <2>2
    <3>2. WellFormed(chunk, S, a, i) = WellFormed(other, S, a, i)
      BY <3>1, Agree
    <3>3. SubSeq(chunk, a, i) = SubSeq(other, a, i)
      <4>1. /\ a \in Int /\ i \in Int /\ a <= i /\ \A k \in a..i : chunk[k] \in Char /\ other[k] \in Char
            /\ \A k \in 1..(i - a + 1) : a + k - 1 \in 1..i
        BY <3>1
      <4>2. /\ SubSeq(chunk, a, i) \in Seq(Char) /\ SubSeq(other, a, i) \in Seq(Char)
            /\ Len(SubSeq(chunk, a, i)) = i - a + 1 /\ Len(SubSeq(other, a, i)) = i - a + 1
            /\ \A k \in 1..(i - a + 1) :
                 SubSeq(chunk, a, i)[k] = chunk[a + k - 1] /\ SubSeq(other, a, i)[k] = other[a + k - 1]
        <5> HIDE DEF Char
        <5> QED BY <4>1, SubSeqProperties
      <4>3. \A k \in 1..(i - a + 1) : SubSeq(chunk, a, i)[k] = SubSeq(other, a, i)[k]
        BY <4>1, <4>2
      <4> QED BY <4>2, <4>3, SeqEqual
    <3> QED BY <1>3, <3>2, <3>3, Zenon DEF Loaded
  <2> QED BY <2>1, <2>2
<1> QED BY <1>2, <1>4 DEF Scan, CloseBrace

\* So the scan goes on where that of the buffer has ended.
LEMMA ScanGoesOn ==
  ASSUME NEW chunk \in Seq(Char), NEW line \in Seq(Char)
  PROVE  \A i \in 0..Len(chunk) : Scanned(chunk \o line)[i] = Scanned(chunk)[i]
<1> DEFINE text == chunk \o line
           S == {i \in Nat : i <= Len(chunk) => Scanned(text)[i] = Scanned(chunk)[i]}
<1>1. /\ text \in Seq(Char) /\ Len(chunk) \in Nat /\ Len(text) \in Nat /\ Len(chunk) <= Len(text)
      /\ \A k \in 1..Len(chunk) : text[k] = chunk[k]
  <2> HIDE DEF Char
  <2> QED OBVIOUS
<1> HIDE DEF text
<1>2. 0 \in S
  BY <1>1, ScanStep
<1>3. ASSUME NEW i \in S PROVE i + 1 \in S
  <2> SUFFICES ASSUME i + 1 <= Len(chunk) PROVE Scanned(text)[i + 1] = Scanned(chunk)[i + 1]
    OBVIOUS
  <2>1. /\ i + 1 \in 1..Len(chunk) /\ i + 1 \in 1..Len(text) /\ i + 1 - 1 = i /\ i \in 0..Len(chunk)
        /\ Scanned(text)[i] = Scanned(chunk)[i]
    BY <1>1
  <2>2. /\ Scanned(chunk)[i + 1] = Scan(Scanned(chunk)[i], chunk, i + 1)
        /\ Scanned(text)[i + 1] = Scan(Scanned(text)[i], text, i + 1)
    BY <1>1, <2>1, ScanStep
  <2>3. Form(Scanned(chunk)[i], i)
    BY <2>1, ScanForm
  <2>4. \A k \in 1..(i + 1) : chunk[k] = text[k]
    BY <1>1, <2>1
  <2>5. Scan(Scanned(chunk)[i], chunk, i + 1) = Scan(Scanned(chunk)[i], text, i + 1)
    BY <1>1, <2>1, <2>3, <2>4, ScanLocal
  <2> QED BY <2>1, <2>2, <2>5
<1>4. S = Nat
  <2> HIDE DEF S
  <2>1. S \in SUBSET Nat
    BY DEF S
  <2> QED BY <1>2, <1>3, <2>1, Climb
<1> QED BY <1>1, <1>4 DEF text

-----------------------------------------------------------------------------
(* The scan of a buffer with a line more.                                  *)

\* The scan of the last characters of a text: of two of them, of three ...
Two(s, text, n) == Scan(Scan(s, text, n + 1), text, n + 2)
Three(s, text, n) == Scan(Two(s, text, n), text, n + 3)
Four(s, text, n) == Scan(Three(s, text, n), text, n + 4)
Six(s, text, n) == Scan(Scan(Four(s, text, n), text, n + 5), text, n + 6)

Bound(text) == Scanned(text)[Len(text)]

\* The scan of the text with a line more is that of the line.
LineFacts(chunk, line, text, n) ==
  /\ text \in Seq(Char) /\ n \in Nat /\ Len(text) = n + Len(line)
  /\ \A i \in 1..n : text[i] = chunk[i]
  /\ \A k \in 1..Len(line) : text[n + k] = line[k]
  /\ Len(line) = 2 => Bound(text) = Two(Bound(chunk), text, n)
  /\ Len(line) = 3 => Bound(text) = Three(Bound(chunk), text, n)
  /\ Len(line) = 4 => Bound(text) = Four(Bound(chunk), text, n)
  /\ Len(line) = 6 => Bound(text) = Six(Bound(chunk), text, n)
Appended(chunk, line) == LineFacts(chunk, line, chunk \o line, Len(chunk))

\* It is so for every buffer and every line.
LEMMA LineScan ==
  ASSUME NEW chunk \in Seq(Char), NEW line \in Seq(Char)
  PROVE  Appended(chunk, line)
<1> DEFINE text == chunk \o line
           n == Len(chunk)
<1>1. /\ text \in Seq(Char) /\ n \in Nat /\ Len(text) \in Nat /\ Len(text) = n + Len(line) /\ Len(line) \in Nat
      /\ \A i \in 1..n : text[i] = chunk[i]
      /\ \A k \in 1..Len(line) : text[n + k] = line[k]
  <2> HIDE DEF Char
  <2> QED OBVIOUS
<1>2. Scanned(text)[n] = Bound(chunk)
  <2>1. n \in 0..Len(chunk)
    BY <1>1
  <2> QED BY <2>1, ScanGoesOn DEF Bound
<1> HIDE DEF text, n
<1>3. \A i \in 1..Len(text) : Scanned(text)[i] = Scan(Scanned(text)[i - 1], text, i)
  BY <1>1, ScanStep
<1>4. \A k \in 1..Len(line) : Scanned(text)[n + k] = Scan(Scanned(text)[n + (k - 1)], text, n + k)
  <2> SUFFICES ASSUME NEW k \in 1..Len(line)
               PROVE  Scanned(text)[n + k] = Scan(Scanned(text)[n + (k - 1)], text, n + k)
    OBVIOUS
  <2>1. n + k \in 1..Len(text) /\ n + k - 1 = n + (k - 1)
    BY <1>1
  <2> QED BY <1>1, <1>3, <2>1
<1> HIDE <1>3
<1>5. Len(line) >= 2 => Scanned(text)[n + 2] = Two(Bound(chunk), text, n)
  <2> SUFFICES ASSUME Len(line) >= 2 PROVE Scanned(text)[n + 2] = Two(Bound(chunk), text, n)
    OBVIOUS
  <2>1. 1 \in 1..Len(line) /\ 2 \in 1..Len(line) /\ 1 - 1 = 0 /\ 2 - 1 = 1 /\ n + 0 = n
    BY <1>1
  <2>2. Scanned(text)[n + 1] = Scan(Scanned(text)[n], text, n + 1)
    BY <1>4, <2>1
  <2>3. Scanned(text)[n + 2] = Scan(Scanned(text)[n + 1], text, n + 2)
    BY <1>4, <2>1
  <2> QED BY <1>2, <2>2, <2>3 DEF Two
<1>6. Len(line) >= 3 => Scanned(text)[n + 3] = Three(Bound(chunk), text, n)
  <2>1. Len(line) >= 3 => 3 \in 1..Len(line) /\ 3 - 1 = 2 /\ Len(line) >= 2
    BY <1>1
  <2> QED BY <1>4, <1>5, <2>1 DEF Three
<1>7. Len(line) >= 4 => Scanned(text)[n + 4] = Four(Bound(chunk), text, n)
  <2>1. Len(line) >= 4 => 4 \in 1..Len(line) /\ 4 - 1 = 3 /\ Len(line) >= 3
    BY <1>1
  <2> QED BY <1>4, <1>6, <2>1 DEF Four
<1>8. Len(line) >= 6 => Scanned(text)[n + 6] = Six(Bound(chunk), text, n)
  <2>1. Len(line) >= 6 => /\ 5 \in 1..Len(line) /\ 6 \in 1..Len(line) /\ 5 - 1 = 4 /\ 6 - 1 = 5
                          /\ Len(line) >= 4
    BY <1>1
  <2> QED BY <1>4, <1>7, <2>1 DEF Six
<1>9. Bound(text) = Scanned(text)[n + Len(line)]
  BY <1>1 DEF Bound
<1>10. Len(line) = 2 => Bound(text) = Two(Bound(chunk), text, n)
  BY <1>5, <1>9
<1>11. Len(line) = 3 => Bound(text) = Three(Bound(chunk), text, n)
  BY <1>6, <1>9
<1>12. Len(line) = 4 => Bound(text) = Four(Bound(chunk), text, n)
  BY <1>7, <1>9
<1>13. Len(line) = 6 => Bound(text) = Six(Bound(chunk), text, n)
  BY <1>8, <1>9
<1>14. LineFacts(chunk, line, text, n)
  BY <1>1, <1>10, <1>11, <1>12, <1>13, Zenon DEF LineFacts
<1> QED BY <1>14, Zenon DEF Appended, text, n

\* The lines, read outside a string: without a brace and a quote ...
LEMMA QuietOutside ==
  ASSUME NEW d, NEW a, NEW S, NEW O, NEW text, NEW n, NEW s, s = Outside(d, a, S, O),
         text[n + 1] \notin {"open", "close", "quote", "backslash"}, text[n + 2] \notin {"open", "close", "quote", "backslash"}
  PROVE  Two(s, text, n) = Outside(d, a, S, O)
<1> DEFINE t1 == Scan(s, text, n + 1)
           t2 == Scan(t1, text, n + 2)
<1> HIDE DEF t1, t2
<1>1. t1 = Outside(d, a, S, O)
  BY OutsideOther DEF t1
<1>2. t2 = Outside(d, a, S, O)
  BY <1>1, OutsideOther DEF t2
<1> QED BY <1>2 DEF Two, t1, t2

\* ... the first of an object, or noise that begins like it ...
LEMMA BeginIdle ==
  ASSUME NEW a, NEW S, NEW O, NEW text, NEW n, NEW s, s = Outside(0, a, S, O),
         text[n + 1] = "open", text[n + 2] \notin {"open", "close", "quote", "backslash"},
         text[n + 3] \notin {"open", "close", "quote", "backslash"}
  PROVE  Three(s, text, n) = Outside(1, n + 1, S, O)
<1> DEFINE t1 == Scan(s, text, n + 1)
           t2 == Scan(t1, text, n + 2)
           t3 == Scan(t2, text, n + 3)
<1> HIDE DEF t1, t2, t3
<1>1. t1 = Outside(1, n + 1, S, O)
  BY OutsideFirst DEF t1
<1>2. t2 = Outside(1, n + 1, S, O)
  BY <1>1, OutsideOther DEF t2
<1>3. t3 = Outside(1, n + 1, S, O)
  BY <1>2, OutsideOther DEF t3
<1> QED BY <1>3 DEF Two, Three, t1, t2, t3

\* ... in a buffer that holds the beginning of another ...
LEMMA BeginInner ==
  ASSUME NEW d \in Nat, d > 0, NEW a, NEW S, NEW O, NEW text, NEW n, NEW s, s = Outside(d, a, S, O),
         text[n + 1] = "open", text[n + 2] \notin {"open", "close", "quote", "backslash"},
         text[n + 3] \notin {"open", "close", "quote", "backslash"}
  PROVE  Three(s, text, n) = Outside(d + 1, a, S, O)
<1> DEFINE t1 == Scan(s, text, n + 1)
           t2 == Scan(t1, text, n + 2)
           t3 == Scan(t2, text, n + 3)
<1> HIDE DEF t1, t2, t3
<1>1. t1 = Outside(d + 1, a, S, O)
  BY OutsideOpen DEF t1
<1>2. t2 = Outside(d + 1, a, S, O)
  BY <1>1, OutsideOther DEF t2
<1>3. t3 = Outside(d + 1, a, S, O)
  BY <1>2, OutsideOther DEF t3
<1> QED BY <1>3 DEF Two, Three, t1, t2, t3

\* ... the first of a nested object ...
LEMMA NestIdle ==
  ASSUME NEW a, NEW S, NEW O, NEW text, NEW n, NEW s, s = Outside(0, a, S, O),
         text[n + 1] \notin {"open", "close", "quote", "backslash"}, text[n + 2] = "open",
         text[n + 3] \notin {"open", "close", "quote", "backslash"}
  PROVE  Three(s, text, n) = Outside(1, n + 2, S, O)
<1> DEFINE t1 == Scan(s, text, n + 1)
           t2 == Scan(t1, text, n + 2)
           t3 == Scan(t2, text, n + 3)
<1> HIDE DEF t1, t2, t3
<1>1. t1 = Outside(0, a, S, O)
  BY OutsideOther DEF t1
<1>2. t2 = Outside(1, n + 2, S, O)
  BY <1>1, OutsideFirst DEF t2
<1>3. t3 = Outside(1, n + 2, S, O)
  BY <1>2, OutsideOther DEF t3
<1> QED BY <1>3 DEF Two, Three, t1, t2, t3

\* ... in an object that is being scanned ...
LEMMA NestInner ==
  ASSUME NEW d \in Nat, d > 0, NEW a, NEW S, NEW O, NEW text, NEW n, NEW s, s = Outside(d, a, S, O),
         text[n + 1] \notin {"open", "close", "quote", "backslash"}, text[n + 2] = "open",
         text[n + 3] \notin {"open", "close", "quote", "backslash"}
  PROVE  Three(s, text, n) = Outside(d + 1, a, S, O)
<1> DEFINE t1 == Scan(s, text, n + 1)
           t2 == Scan(t1, text, n + 2)
           t3 == Scan(t2, text, n + 3)
<1> HIDE DEF t1, t2, t3
<1>1. t1 = Outside(d, a, S, O)
  BY OutsideOther DEF t1
<1>2. t2 = Outside(d + 1, a, S, O)
  BY <1>1, OutsideOpen DEF t2
<1>3. t3 = Outside(d + 1, a, S, O)
  BY <1>2, OutsideOther DEF t3
<1> QED BY <1>3 DEF Two, Three, t1, t2, t3

\* ... a string with a brace, and one with an escaped quote ...
LEMMA BraceTextOutside ==
  ASSUME NEW d, NEW a, NEW S, NEW O, NEW text, NEW n, NEW s, s = Outside(d, a, S, O),
         text[n + 1] = "quote", text[n + 2] = "open",
         text[n + 3] = "quote", text[n + 4] \notin {"open", "close", "quote", "backslash"},
         NEW T, T = S \cup {n + 1, n + 2, n + 3}
  PROVE  Four(s, text, n) = Outside(d, a, T, O)
<1> DEFINE X1 == S \cup {n + 1}
           X2 == X1 \cup {n + 2}
           X3 == X2 \cup {n + 3}
<1> DEFINE t1 == Scan(s, text, n + 1)
           t2 == Scan(t1, text, n + 2)
           t3 == Scan(t2, text, n + 3)
           t4 == Scan(t3, text, n + 4)
<1> HIDE DEF t1, t2, t3, t4, X1, X2, X3
<1>1. t1 = Within(d, a, X1, O)
  BY OutsideQuote DEF t1, X1
<1>2. t2 = Within(d, a, X2, O)
  BY <1>1, WithinOther DEF t2, X2
<1>3. t3 = Outside(d, a, X3, O)
  BY <1>2, WithinQuote DEF t3, X3
<1>4. t4 = Outside(d, a, X3, O)
  BY <1>3, OutsideOther DEF t4
<1>5. X3 = T
  BY DEF X1, X2, X3
<1> QED BY <1>4, <1>5 DEF Two, Three, Four, t1, t2, t3, t4

\* ... and one with an escaped quote ...
LEMMA QuoteTextOutside ==
  ASSUME NEW d, NEW a, NEW S, NEW O, NEW text, NEW n, NEW s, s = Outside(d, a, S, O),
         text[n + 1] = "quote", text[n + 2] = "backslash",
         text[n + 3] = "quote", text[n + 4] = "close",
         text[n + 5] = "quote", text[n + 6] \notin {"open", "close", "quote", "backslash"},
         NEW T, T = S \cup {n + 1, n + 2, n + 3, n + 4, n + 5}
  PROVE  Six(s, text, n) = Outside(d, a, T, O)
<1> DEFINE X1 == S \cup {n + 1}
           X2 == X1 \cup {n + 2}
           X3 == X2 \cup {n + 3}
           X4 == X3 \cup {n + 4}
           X5 == X4 \cup {n + 5}
<1> DEFINE t1 == Scan(s, text, n + 1)
           t2 == Scan(t1, text, n + 2)
           t3 == Scan(t2, text, n + 3)
           t4 == Scan(t3, text, n + 4)
           t5 == Scan(t4, text, n + 5)
           t6 == Scan(t5, text, n + 6)
<1> HIDE DEF t1, t2, t3, t4, t5, t6, X1, X2, X3, X4, X5
<1>1. t1 = Within(d, a, X1, O)
  BY OutsideQuote DEF t1, X1
<1>2. t2 = Escaped(d, a, X2, O)
  BY <1>1, WithinBackslash DEF t2, X2
<1>3. t3 = Within(d, a, X3, O)
  BY <1>2, EscapedAny DEF t3, X3
<1>4. t4 = Within(d, a, X4, O)
  BY <1>3, WithinOther DEF t4, X4
<1>5. t5 = Outside(d, a, X5, O)
  BY <1>4, WithinQuote DEF t5, X5
<1>6. t6 = Outside(d, a, X5, O)
  BY <1>5, OutsideOther DEF t6
<1>7. X5 = T
  BY DEF X1, X2, X3, X4, X5
<1> QED BY <1>6, <1>7 DEF Two, Three, Four, Six, t1, t2, t3, t4, t5, t6

\* ... noise with a quote.
LEMMA StrayQuoteOutside ==
  ASSUME NEW d, NEW a, NEW S, NEW O, NEW text, NEW n, NEW s, s = Outside(d, a, S, O),
         text[n + 1] \notin {"open", "close", "quote", "backslash"}, text[n + 2] = "quote",
         text[n + 3] \notin {"open", "close", "quote", "backslash"},
         NEW T, T = S \cup {n + 2, n + 3}
  PROVE  Three(s, text, n) = Within(d, a, T, O)
<1> DEFINE X1 == S \cup {n + 2}
           X2 == X1 \cup {n + 3}
<1> DEFINE t1 == Scan(s, text, n + 1)
           t2 == Scan(t1, text, n + 2)
           t3 == Scan(t2, text, n + 3)
<1> HIDE DEF t1, t2, t3, X1, X2
<1>1. t1 = Outside(d, a, S, O)
  BY OutsideOther DEF t1
<1>2. t2 = Within(d, a, X1, O)
  BY <1>1, OutsideQuote DEF t2, X1
<1>3. t3 = Within(d, a, X2, O)
  BY <1>2, WithinOther DEF t3, X2
<1>4. X2 = T
  BY DEF X1, X2
<1> QED BY <1>3, <1>4 DEF Two, Three, t1, t2, t3

\* The lines, read in a string: without a quote ...
LEMMA TwoWithin ==
  ASSUME NEW d, NEW a, NEW S, NEW O, NEW text, NEW n, NEW s, s = Within(d, a, S, O),
         text[n + 1] \notin {"quote", "backslash"}, text[n + 2] \notin {"open", "close", "quote", "backslash"},
         NEW T, T = S \cup {n + 1, n + 2}
  PROVE  Two(s, text, n) = Within(d, a, T, O)
<1> DEFINE X1 == S \cup {n + 1}
           X2 == X1 \cup {n + 2}
<1> DEFINE t1 == Scan(s, text, n + 1)
           t2 == Scan(t1, text, n + 2)
<1> HIDE DEF t1, t2, X1, X2
<1>1. t1 = Within(d, a, X1, O)
  BY WithinOther DEF t1, X1
<1>2. t2 = Within(d, a, X2, O)
  BY <1>1, WithinOther DEF t2, X2
<1>3. X2 = T
  BY DEF X1, X2
<1> QED BY <1>2, <1>3 DEF Two, t1, t2

\* ... of three characters ...
LEMMA ThreeWithin ==
  ASSUME NEW d, NEW a, NEW S, NEW O, NEW text, NEW n, NEW s, s = Within(d, a, S, O),
         text[n + 1] \notin {"quote", "backslash"}, text[n + 2] \notin {"quote", "backslash"},
         text[n + 3] \notin {"quote", "backslash"},
         NEW T, T = S \cup {n + 1, n + 2, n + 3}
  PROVE  Three(s, text, n) = Within(d, a, T, O)
<1> DEFINE X1 == S \cup {n + 1}
           X2 == X1 \cup {n + 2}
           X3 == X2 \cup {n + 3}
<1> DEFINE t1 == Scan(s, text, n + 1)
           t2 == Scan(t1, text, n + 2)
           t3 == Scan(t2, text, n + 3)
<1> HIDE DEF t1, t2, t3, X1, X2, X3
<1>1. t1 = Within(d, a, X1, O)
  BY WithinOther DEF t1, X1
<1>2. t2 = Within(d, a, X2, O)
  BY <1>1, WithinOther DEF t2, X2
<1>3. t3 = Within(d, a, X3, O)
  BY <1>2, WithinOther DEF t3, X3
<1>4. X3 = T
  BY DEF X1, X2, X3
<1> QED BY <1>3, <1>4 DEF Two, Three, t1, t2, t3

\* ... of four ...
LEMMA FourWithin ==
  ASSUME NEW d, NEW a, NEW S, NEW O, NEW text, NEW n, NEW s, s = Within(d, a, S, O),
         text[n + 1] \notin {"quote", "backslash"}, text[n + 2] \notin {"quote", "backslash"},
         text[n + 3] \notin {"quote", "backslash"}, text[n + 4] \notin {"quote", "backslash"},
         NEW T, T = S \cup {n + 1, n + 2, n + 3, n + 4}
  PROVE  Four(s, text, n) = Within(d, a, T, O)
<1> DEFINE X1 == S \cup {n + 1}
           X2 == X1 \cup {n + 2}
           X3 == X2 \cup {n + 3}
           X4 == X3 \cup {n + 4}
<1> DEFINE t1 == Scan(s, text, n + 1)
           t2 == Scan(t1, text, n + 2)
           t3 == Scan(t2, text, n + 3)
           t4 == Scan(t3, text, n + 4)
<1> HIDE DEF t1, t2, t3, t4, X1, X2, X3, X4
<1>1. t1 = Within(d, a, X1, O)
  BY WithinOther DEF t1, X1
<1>2. t2 = Within(d, a, X2, O)
  BY <1>1, WithinOther DEF t2, X2
<1>3. t3 = Within(d, a, X3, O)
  BY <1>2, WithinOther DEF t3, X3
<1>4. t4 = Within(d, a, X4, O)
  BY <1>3, WithinOther DEF t4, X4
<1>5. X4 = T
  BY DEF X1, X2, X3, X4
<1> QED BY <1>4, <1>5 DEF Two, Three, Four, t1, t2, t3, t4

\* ... a string with a brace, which becomes the text between two strings ...
LEMMA BraceTextWithinIdle ==
  ASSUME NEW a, NEW S, NEW O, NEW text, NEW n, NEW s, s = Within(0, a, S, O),
         text[n + 1] = "quote", text[n + 2] = "open",
         text[n + 3] = "quote", text[n + 4] \notin {"open", "close", "quote", "backslash"},
         NEW T, T = S \cup {n + 1, n + 3, n + 4}
  PROVE  Four(s, text, n) = Within(1, n + 2, T, O)
<1> DEFINE X1 == S \cup {n + 1}
           X2 == X1 \cup {n + 3}
           X3 == X2 \cup {n + 4}
<1> DEFINE t1 == Scan(s, text, n + 1)
           t2 == Scan(t1, text, n + 2)
           t3 == Scan(t2, text, n + 3)
           t4 == Scan(t3, text, n + 4)
<1> HIDE DEF t1, t2, t3, t4, X1, X2, X3
<1>1. t1 = Outside(0, a, X1, O)
  BY WithinQuote DEF t1, X1
<1>2. t2 = Outside(1, n + 2, X1, O)
  BY <1>1, OutsideFirst DEF t2
<1>3. t3 = Within(1, n + 2, X2, O)
  BY <1>2, OutsideQuote DEF t3, X2
<1>4. t4 = Within(1, n + 2, X3, O)
  BY <1>3, WithinOther DEF t4, X3
<1>5. X3 = T
  BY DEF X1, X2, X3
<1> QED BY <1>4, <1>5 DEF Two, Three, Four, t1, t2, t3, t4

\* ... in an object that is being scanned ...
LEMMA BraceTextWithinInner ==
  ASSUME NEW d \in Nat, d > 0, NEW a, NEW S, NEW O, NEW text, NEW n, NEW s, s = Within(d, a, S, O),
         text[n + 1] = "quote", text[n + 2] = "open",
         text[n + 3] = "quote", text[n + 4] \notin {"open", "close", "quote", "backslash"},
         NEW T, T = S \cup {n + 1, n + 3, n + 4}
  PROVE  Four(s, text, n) = Within(d + 1, a, T, O)
<1> DEFINE X1 == S \cup {n + 1}
           X2 == X1 \cup {n + 3}
           X3 == X2 \cup {n + 4}
<1> DEFINE t1 == Scan(s, text, n + 1)
           t2 == Scan(t1, text, n + 2)
           t3 == Scan(t2, text, n + 3)
           t4 == Scan(t3, text, n + 4)
<1> HIDE DEF t1, t2, t3, t4, X1, X2, X3
<1>1. t1 = Outside(d, a, X1, O)
  BY WithinQuote DEF t1, X1
<1>2. t2 = Outside(d + 1, a, X1, O)
  BY <1>1, OutsideOpen DEF t2
<1>3. t3 = Within(d + 1, a, X2, O)
  BY <1>2, OutsideQuote DEF t3, X2
<1>4. t4 = Within(d + 1, a, X3, O)
  BY <1>3, WithinOther DEF t4, X3
<1>5. X3 = T
  BY DEF X1, X2, X3
<1> QED BY <1>4, <1>5 DEF Two, Three, Four, t1, t2, t3, t4

\* ... one with an escaped quote ...
LEMMA QuoteTextWithin ==
  ASSUME NEW d, NEW a, NEW S, NEW O, NEW text, NEW n, NEW s, s = Within(d, a, S, O),
         text[n + 1] = "quote", text[n + 2] = "backslash",
         text[n + 3] = "quote", text[n + 4] = "close",
         text[n + 5] = "quote", text[n + 6] \notin {"open", "close", "quote", "backslash"},
         NEW T, T = S \cup {n + 1, n + 3, n + 4, n + 5}
  PROVE  Six(s, text, n) = Outside(d, a, T, O)
<1> DEFINE X1 == S \cup {n + 1}
           X2 == X1 \cup {n + 3}
           X3 == X2 \cup {n + 4}
           X4 == X3 \cup {n + 5}
<1> DEFINE t1 == Scan(s, text, n + 1)
           t2 == Scan(t1, text, n + 2)
           t3 == Scan(t2, text, n + 3)
           t4 == Scan(t3, text, n + 4)
           t5 == Scan(t4, text, n + 5)
           t6 == Scan(t5, text, n + 6)
<1> HIDE DEF t1, t2, t3, t4, t5, t6, X1, X2, X3, X4
<1>1. t1 = Outside(d, a, X1, O)
  BY WithinQuote DEF t1, X1
<1>2. t2 = Outside(d, a, X1, O)
  BY <1>1, OutsideOther DEF t2
<1>3. t3 = Within(d, a, X2, O)
  BY <1>2, OutsideQuote DEF t3, X2
<1>4. t4 = Within(d, a, X3, O)
  BY <1>3, WithinOther DEF t4, X3
<1>5. t5 = Outside(d, a, X4, O)
  BY <1>4, WithinQuote DEF t5, X4
<1>6. t6 = Outside(d, a, X4, O)
  BY <1>5, OutsideOther DEF t6
<1>7. X4 = T
  BY DEF X1, X2, X3, X4
<1> QED BY <1>6, <1>7 DEF Two, Three, Four, Six, t1, t2, t3, t4, t5, t6

\* ... noise with a quote.
LEMMA StrayQuoteWithin ==
  ASSUME NEW d, NEW a, NEW S, NEW O, NEW text, NEW n, NEW s, s = Within(d, a, S, O),
         text[n + 1] \notin {"open", "close", "quote", "backslash"}, text[n + 2] = "quote",
         text[n + 3] \notin {"open", "close", "quote", "backslash"},
         NEW T, T = S \cup {n + 1, n + 2}
  PROVE  Three(s, text, n) = Outside(d, a, T, O)
<1> DEFINE X1 == S \cup {n + 1}
           X2 == X1 \cup {n + 2}
<1> DEFINE t1 == Scan(s, text, n + 1)
           t2 == Scan(t1, text, n + 2)
           t3 == Scan(t2, text, n + 3)
<1> HIDE DEF t1, t2, t3, X1, X2
<1>1. t1 = Within(d, a, X1, O)
  BY WithinOther DEF t1, X1
<1>2. t2 = Outside(d, a, X2, O)
  BY <1>1, WithinQuote DEF t2, X2
<1>3. t3 = Outside(d, a, X2, O)
  BY <1>2, OutsideOther DEF t3
<1>4. X2 = T
  BY DEF X1, X2
<1> QED BY <1>3, <1>4 DEF Two, Three, t1, t2, t3

\* The line of a brace, outside a string ...
LEMMA CloseOutside ==
  ASSUME NEW d \in Nat, NEW a, NEW S, NEW O, NEW text, NEW n, NEW s, s = Outside(d, a, S, O),
         text[n + 1] = "close", text[n + 2] \notin {"open", "close", "quote", "backslash"}
  PROVE  /\ d = 0 => Two(s, text, n) = s
         /\ d > 0 => Two(s, text, n) = Outside(d - 1, a, S, Loaded(s, text, n + 1))
<1> DEFINE t == Scan(s, text, n + 1)
           e == d - 1
           L == Loaded(s, text, n + 1)
<1> HIDE DEF t, e, L
<1>1. /\ d = 0 => t = s
      /\ d > 0 => t = Outside(e, a, S, L)
  BY OutsideClose DEF t, e, L
<1>2. CASE d = 0
  BY <1>1, <1>2, OutsideOther DEF Two, t
<1>3. CASE d > 0
  <2>1. t = Outside(e, a, S, L)
    BY <1>1, <1>3
  <2>2. Scan(t, text, n + 2) = t
    BY <2>1, OutsideOther
  <2> QED BY <1>3, <2>1, <2>2 DEF Two, t, e, L
<1> QED BY <1>2, <1>3

\* ... and that of a pair of them, with no object in it.
LEMMA PairOutside ==
  ASSUME NEW d \in Nat, NEW a, NEW S, NEW O, NEW text, NEW n \in Nat, NEW s, s = Outside(d, a, S, O),
         text[n + 1] = "open", text[n + 2] = "x", text[n + 3] = "close",
         text[n + 4] \notin {"open", "close", "quote", "backslash"}, n + 2 \notin S
  PROVE  \E b : Four(s, text, n) = Outside(d, b, S, O) /\ (d > 0 => b = a)
<1> DEFINE t1 == Scan(s, text, n + 1)
           t2 == Scan(t1, text, n + 2)
           t3 == Scan(t2, text, n + 3)
           b == IF d = 0 THEN n + 1 ELSE a
           e == d + 1
<1>1. t1 = Outside(e, b, S, O)
  BY OutsideOpenTo
<1>2. t2 = t1
  <2> HIDE DEF t1, e, b
  <2>1. text[n + 2] \notin {"open", "close", "quote"}
    OBVIOUS
  <2> QED BY <1>1, <2>1, OutsideOther
<1>3. Loaded(t2, text, n + 3) = O
  <2>1. t2.depth = e /\ t2.start = b /\ t2.strings = S /\ t2.objects = O
    <3> HIDE DEF t1, t2, b, e
    <3> QED BY <1>1, <1>2 DEF Outside
  <2>2. e = 1 => ~WellFormed(text, S, b, n + 3)
    <3> HIDE DEF b, e
    <3>1. e = 1 => b = n + 1
      <4>1. CASE d = 0
        <5>1. b = n + 1
          BY <4>1, Zenon DEF b
        <5> QED BY <5>1
      <4>2. CASE d # 0
        <5>1. e # 1
          BY <4>2 DEF e
        <5> QED BY <5>1
      <4> QED BY <4>1, <4>2
    <3>2. n + 2 \in (n + 1)..(n + 3) \ S
      OBVIOUS
    <3>3. ~WellFormed(text, S, n + 1, n + 3)
      BY <3>2 DEF WellFormed
    <3> QED BY <3>1, <3>3, Zenon
  <2> HIDE DEF t1, t2, b, e
  <2> QED BY <2>1, <2>2, Zenon DEF Loaded
<1>4. t3 = Outside(d, b, S, O)
  <2>1. e \in Nat /\ e > 0 /\ e - 1 = d
    OBVIOUS
  <2> HIDE DEF t1, t2, b, e
  <2>2. t3 = Outside(e - 1, b, S, Loaded(t2, text, n + 3))
    BY <1>1, <1>2, <2>1, OutsideClose
  <2> QED BY <1>3, <2>1, <2>2
<1>5. Scan(t3, text, n + 4) = t3
  <2> HIDE DEF t3, b
  <2> QED BY <1>4, OutsideOther
<1>6. Four(s, text, n) = Outside(d, b, S, O)
  <2> HIDE DEF b
  <2> QED BY <1>4, <1>5 DEF Four, Three, Two
<1> QED BY <1>6

-----------------------------------------------------------------------------
(* What the buffer holds while no object is found in it.                   *)

\* An object that the buffer holds from its first brace on is the one that HandBrake
\* is printing, or the nested one of an object whose first line is lost, or one that
\* json.loads refuses whatever follows.
Ours(text, d, a, S, lev, m) ==
  lev >= 1 /\ d = lev /\ text[a + 1] = m /\ WellFormed(text, S, a, Len(text))
Nested(text, d, a, lev) == lev = 2 /\ d = 1 /\ text[a + 1] = "newline"
Broken(text, a, S) ==
  \/ text[a + 1] = "x" /\ a + 1 \notin S
  \/ a + 2 <= Len(text) /\ a + 2 \in S /\ text[a + 1] = "quote" /\ text[a + 2] = "newline"

\* What the buffer holds, and what it must hold when HandBrake has printed an object
\* from the beginning on ("whole"), or nothing but harmless noise before ("clean").
HeldBy(text, at, d, a, S, O, lev, m, mode) ==
  /\ O = <<>> /\ at \in {"outside", "string"}
  /\ d > 0 => /\ a + 1 <= Len(text)
              /\ \/ at = "outside" /\ (Ours(text, d, a, S, lev, m) \/ Nested(text, d, a, lev))
                 \/ Broken(text, a, S)
  /\ mode = "whole" => d > 0 /\ at = "outside" /\ Ours(text, d, a, S, lev, m)
  /\ mode = "clean" => at = "outside" /\ (d > 0 => Nested(text, d, a, lev))
Held(text, lev, m, mode) ==
  /\ text \in Seq(Char)
  /\ LET s == Bound(text) IN HeldBy(text, s.at, s.depth, s.start, s.strings, s.objects, lev, m, mode)

\* From the locals of the scan to what the buffer holds, and back.
LEMMA HeldOutside ==
  ASSUME NEW text \in Seq(Char), NEW d, NEW a, NEW S, NEW lev, NEW m, NEW mode,
         Bound(text) = Outside(d, a, S, <<>>), HeldBy(text, "outside", d, a, S, <<>>, lev, m, mode)
  PROVE  Held(text, lev, m, mode)
<1> DEFINE s == Bound(text)
<1>1. s.at = "outside" /\ s.depth = d /\ s.start = a /\ s.strings = S /\ s.objects = <<>>
  BY DEF Outside
<1> HIDE DEF s
<1>2. HeldBy(text, s.at, s.depth, s.start, s.strings, s.objects, lev, m, mode)
  BY <1>1, Zenon
<1> QED BY <1>2, Zenon DEF Held, s

\* ... in a string as well.
LEMMA HeldWithin ==
  ASSUME NEW text \in Seq(Char), NEW d, NEW a, NEW S, NEW lev, NEW m, NEW mode,
         Bound(text) = Within(d, a, S, <<>>), HeldBy(text, "string", d, a, S, <<>>, lev, m, mode)
  PROVE  Held(text, lev, m, mode)
<1> DEFINE s == Bound(text)
<1>1. s.at = "string" /\ s.depth = d /\ s.start = a /\ s.strings = S /\ s.objects = <<>>
  BY DEF Within
<1> HIDE DEF s
<1>2. HeldBy(text, s.at, s.depth, s.start, s.strings, s.objects, lev, m, mode)
  BY <1>1, Zenon
<1> QED BY <1>2, Zenon DEF Held, s

\* ... and back: the locals that go with what is held.
LEMMA HeldForm ==
  ASSUME NEW text, NEW lev, NEW m, NEW mode, Held(text, lev, m, mode)
  PROVE  /\ text \in Seq(Char)
         /\ \E d \in Nat, a \in Nat, S \in SUBSET (1..Len(text)) :
              /\ d > 0 => a > 0
              /\ \/ /\ Bound(text) = Outside(d, a, S, <<>>)
                    /\ HeldBy(text, "outside", d, a, S, <<>>, lev, m, mode)
                 \/ /\ Bound(text) = Within(d, a, S, <<>>)
                    /\ HeldBy(text, "string", d, a, S, <<>>, lev, m, mode)
<1>1. text \in Seq(Char)
  BY Zenon DEF Held
<1>2. Len(text) \in Nat /\ Len(text) \in 0..Len(text)
  <2>1. Len(text) \in Nat
    <3> HIDE DEF Char
    <3> QED BY <1>1
  <2> QED BY <2>1
<1>3. Form(Bound(text), Len(text))
  BY <1>2, ScanForm DEF Bound
<1>0. PICK d \in Nat, a \in 0..Len(text), S \in SUBSET (1..Len(text)) : \E O :
        /\ Bound(text) \in {Outside(d, a, S, O), Within(d, a, S, O), Escaped(d, a, S, O)}
        /\ d > 0 => a > 0
  BY <1>3, Zenon DEF Form
<1>4. PICK O : /\ Bound(text) \in {Outside(d, a, S, O), Within(d, a, S, O), Escaped(d, a, S, O)}
               /\ d > 0 => a > 0
  BY <1>0, Zenon
<1> DEFINE s == Bound(text)
<1>5. HeldBy(text, s.at, s.depth, s.start, s.strings, s.objects, lev, m, mode)
  BY Zenon DEF Held
<1>6. s.depth = d /\ s.start = a /\ s.strings = S /\ s.objects = O
  BY <1>4 DEF Outside, Within, Escaped
<1>7. HeldBy(text, s.at, d, a, S, O, lev, m, mode)
  BY <1>5, <1>6, Zenon
<1>8. O = <<>> /\ s.at \in {"outside", "string"}
  BY <1>7, Zenon DEF HeldBy
<1>9. HeldBy(text, s.at, d, a, S, <<>>, lev, m, mode)
  BY <1>7, <1>8, Zenon
<1>10. \/ s = Outside(d, a, S, <<>>) /\ s.at = "outside"
       \/ s = Within(d, a, S, <<>>) /\ s.at = "string"
  <2>1. CASE s = Outside(d, a, S, O)
    BY <1>8, <2>1 DEF Outside
  <2>2. CASE s = Within(d, a, S, O)
    BY <1>8, <2>2 DEF Within
  <2>3. CASE s = Escaped(d, a, S, O)
    <3>1. s.at = "escaped"
      BY <2>3 DEF Escaped
    <3> QED BY <1>8, <3>1
  <2> HIDE DEF s
  <2> QED BY <1>4, <2>1, <2>2, <2>3 DEF s
<1>11. a \in Nat
  OBVIOUS
<1> HIDE DEF s
<1>12. \/ s = Outside(d, a, S, <<>>) /\ HeldBy(text, "outside", d, a, S, <<>>, lev, m, mode)
       \/ s = Within(d, a, S, <<>>) /\ HeldBy(text, "string", d, a, S, <<>>, lev, m, mode)
  BY <1>9, <1>10, Zenon
<1> QED BY <1>1, <1>4, <1>11, <1>12, Zenon DEF s

\* An object stays as it is while lines are added behind it.
LEMMA BrokenGrows ==
  ASSUME NEW chunk, NEW text, NEW n \in Nat, n = Len(chunk), Len(text) \in Nat, n <= Len(text),
         \A i \in 1..n : text[i] = chunk[i], NEW S, NEW T, \A i \in 1..n : i \in T <=> i \in S,
         NEW a \in Nat, a + 1 <= n, Broken(chunk, a, S)
  PROVE  Broken(text, a, T)
<1>1. a + 1 \in 1..n
  OBVIOUS
<1>2. a + 2 <= n => a + 2 \in 1..n /\ a + 2 <= Len(text)
  OBVIOUS
<1> QED BY <1>1, <1>2 DEF Broken

\* ... and is refused by json.loads wherever it ends.
LEMMA BrokenIsRefused ==
  ASSUME NEW text, NEW a \in Nat, NEW b \in Nat, a + 2 <= b, NEW S, Broken(text, a, S)
  PROVE  ~WellFormed(text, S, a, b)
<1>1. a + 1 \in a..b /\ a + 2 \in a..b
  OBVIOUS
<1> QED BY <1>1 DEF Broken, WellFormed

\* What is well-formed stays so with a line of an object more.
LEMMA SaneGrows ==
  ASSUME NEW chunk, NEW text, NEW n \in Nat, NEW b \in Nat,
         \A i \in 1..n : text[i] = chunk[i], NEW S, NEW T, \A i \in 1..n : i \in T <=> i \in S,
         NEW a \in Nat, a > 0, WellFormed(chunk, S, a, n),
         \A i \in (n + 1)..b : i \in T => text[i] # "newline",
         \A i \in (n + 1)..b : i \notin T =>
            text[i] \notin {"x", "backslash"} /\ (text[i] = "open" => text[i - 1] = "o")
  PROVE  WellFormed(text, T, a, b)
<1>1. ASSUME NEW i \in T, i \in a..b PROVE text[i] # "newline"
  <2>1. CASE i <= n
    <3>1. i \in 1..n /\ i \in a..n
      BY <1>1, <2>1
    <3>2. i \in S /\ text[i] = chunk[i]
      BY <1>1, <3>1
    <3> QED BY <3>1, <3>2 DEF WellFormed
  <2>2. CASE i > n
    <3>1. i \in (n + 1)..b
      BY <1>1, <2>2
    <3> QED BY <1>1, <3>1
  <2> QED BY <1>1, <2>1, <2>2
<1>2. ASSUME NEW i \in a..b, i \notin T
      PROVE  text[i] \notin {"x", "backslash"} /\ (text[i] = "open" /\ i > a => text[i - 1] = "o")
  <2>1. CASE i <= n
    <3>1. i \in 1..n /\ i \in a..n /\ (i > a => i - 1 \in 1..n)
      BY <2>1
    <3>2. i \notin S /\ text[i] = chunk[i] /\ (i > a => text[i - 1] = chunk[i - 1])
      BY <1>2, <3>1
    <3>3. i \in a..n \ S
      BY <3>1, <3>2
    <3>4. chunk[i] \notin {"x", "backslash"} /\ (chunk[i] = "open" /\ i > a => chunk[i - 1] = "o")
      BY <3>3 DEF WellFormed
    <3> QED BY <3>2, <3>4
  <2>2. CASE i > n
    <3>1. i \in (n + 1)..b
      BY <2>2
    <3> QED BY <1>2, <3>1
  <2> QED BY <2>1, <2>2
<1> QED BY <1>1, <1>2 DEF WellFormed

\* The text is the chunk with a line more, of which the scan puts T beyond S in strings.
Grows(chunk, text, S, T) ==
  /\ Len(chunk) \in Nat /\ Len(text) \in Nat /\ Len(chunk) <= Len(text)
  /\ \A i \in 1..Len(chunk) : text[i] = chunk[i]
  /\ \A i \in 1..Len(chunk) : i \in T <=> i \in S

Modes == {"whole", "clean", "dirty"}

\* A text with a line of one, two, three or five characters and its newline more.
TwoMore(chunk, text, n, c) ==
  /\ text \in Seq(Char) /\ n \in Nat /\ n = Len(chunk) /\ Len(text) = n + 2
  /\ \A i \in 1..n : text[i] = chunk[i]
  /\ text[n + 1] = c
  /\ text[n + 2] = "newline"
  /\ Bound(text) = Two(Bound(chunk), text, n)
ThreeMore(chunk, text, n, b, c) ==
  /\ text \in Seq(Char) /\ n \in Nat /\ n = Len(chunk) /\ Len(text) = n + 3
  /\ \A i \in 1..n : text[i] = chunk[i]
  /\ text[n + 1] = b /\ text[n + 2] = c
  /\ text[n + 3] = "newline"
  /\ Bound(text) = Three(Bound(chunk), text, n)
FourMore(chunk, text, n, b, c, d) ==
  /\ text \in Seq(Char) /\ n \in Nat /\ n = Len(chunk) /\ Len(text) = n + 4
  /\ \A i \in 1..n : text[i] = chunk[i]
  /\ text[n + 1] = b /\ text[n + 2] = c /\ text[n + 3] = d
  /\ text[n + 4] = "newline"
  /\ Bound(text) = Four(Bound(chunk), text, n)
SixMore(chunk, text, n, b, c, d, e, f) ==
  /\ text \in Seq(Char) /\ n \in Nat /\ n = Len(chunk) /\ Len(text) = n + 6
  /\ \A i \in 1..n : text[i] = chunk[i]
  /\ text[n + 1] = b /\ text[n + 2] = c /\ text[n + 3] = d /\ text[n + 4] = e /\ text[n + 5] = f
  /\ text[n + 6] = "newline"
  /\ Bound(text) = Six(Bound(chunk), text, n)

\* The text that the loop of run_encode puts together has that line more.
LEMMA LineTwo ==
  ASSUME NEW chunk \in Seq(Char), NEW c \in Char
  PROVE  TwoMore(chunk, chunk \o <<c, "newline">>, Len(chunk), c)
<1> DEFINE line == <<c, "newline">>
           text == chunk \o line
           n == Len(chunk)
<1>1. "newline" \in Char
  BY DEF Char
<1>2. /\ line \in Seq(Char) /\ Len(line) = 2
      /\ line[1] = c /\ line[2] = "newline"
  <2> HIDE DEF Char
  <2> QED BY <1>1
<1>3. 1 \in 1..2 /\ 2 \in 1..2
  OBVIOUS
<1> HIDE DEF Char, line
<1>4. LineFacts(chunk, line, text, n)
  <2>1. Appended(chunk, line)
    BY <1>2, LineScan
  <2> QED BY <2>1, Zenon DEF Appended
<1> HIDE DEF text, n
<1>5. /\ text \in Seq(Char) /\ n \in Nat /\ Len(text) = n + Len(line)
      /\ \A i \in 1..n : text[i] = chunk[i]
      /\ \A k \in 1..Len(line) : text[n + k] = line[k]
      /\ Len(line) = 2 => Bound(text) = Two(Bound(chunk), text, n)
  BY <1>4, Zenon DEF LineFacts
<1>6. /\ Len(text) = n + 2 /\ Bound(text) = Two(Bound(chunk), text, n)
      /\ text[n + 1] = c /\ text[n + 2] = "newline"
  BY <1>2, <1>3, <1>5
<1>7. TwoMore(chunk, text, n, c)
  BY <1>5, <1>6, Zenon DEF TwoMore, n
<1> QED BY <1>7, Zenon DEF text, line, n

\* ... also with a line of two characters ...
LEMMA LineThree ==
  ASSUME NEW chunk \in Seq(Char), NEW b \in Char, NEW c \in Char
  PROVE  ThreeMore(chunk, chunk \o <<b, c, "newline">>, Len(chunk), b, c)
<1> DEFINE line == <<b, c, "newline">>
           text == chunk \o line
           n == Len(chunk)
<1>1. "newline" \in Char
  BY DEF Char
<1>2. /\ line \in Seq(Char) /\ Len(line) = 3
      /\ line[1] = b /\ line[2] = c /\ line[3] = "newline"
  <2> HIDE DEF Char
  <2> QED BY <1>1
<1>3. 1 \in 1..3 /\ 2 \in 1..3 /\ 3 \in 1..3
  OBVIOUS
<1> HIDE DEF Char, line
<1>4. LineFacts(chunk, line, text, n)
  <2>1. Appended(chunk, line)
    BY <1>2, LineScan
  <2> QED BY <2>1, Zenon DEF Appended
<1> HIDE DEF text, n
<1>5. /\ text \in Seq(Char) /\ n \in Nat /\ Len(text) = n + Len(line)
      /\ \A i \in 1..n : text[i] = chunk[i]
      /\ \A k \in 1..Len(line) : text[n + k] = line[k]
      /\ Len(line) = 3 => Bound(text) = Three(Bound(chunk), text, n)
  BY <1>4, Zenon DEF LineFacts
<1>6. /\ Len(text) = n + 3 /\ Bound(text) = Three(Bound(chunk), text, n)
      /\ text[n + 1] = b /\ text[n + 2] = c /\ text[n + 3] = "newline"
  BY <1>2, <1>3, <1>5
<1>7. ThreeMore(chunk, text, n, b, c)
  BY <1>5, <1>6, Zenon DEF ThreeMore, n
<1> QED BY <1>7, Zenon DEF text, line, n

\* ... of three ...
LEMMA LineFour ==
  ASSUME NEW chunk \in Seq(Char), NEW b \in Char, NEW c \in Char, NEW d \in Char
  PROVE  FourMore(chunk, chunk \o <<b, c, d, "newline">>, Len(chunk), b, c, d)
<1> DEFINE line == <<b, c, d, "newline">>
           text == chunk \o line
           n == Len(chunk)
<1>1. "newline" \in Char
  BY DEF Char
<1>2. /\ line \in Seq(Char) /\ Len(line) = 4
      /\ line[1] = b /\ line[2] = c /\ line[3] = d /\ line[4] = "newline"
  <2> HIDE DEF Char
  <2> QED BY <1>1
<1>3. 1 \in 1..4 /\ 2 \in 1..4 /\ 3 \in 1..4 /\ 4 \in 1..4
  OBVIOUS
<1> HIDE DEF Char, line
<1>4. LineFacts(chunk, line, text, n)
  <2>1. Appended(chunk, line)
    BY <1>2, LineScan
  <2> QED BY <2>1, Zenon DEF Appended
<1> HIDE DEF text, n
<1>5. /\ text \in Seq(Char) /\ n \in Nat /\ Len(text) = n + Len(line)
      /\ \A i \in 1..n : text[i] = chunk[i]
      /\ \A k \in 1..Len(line) : text[n + k] = line[k]
      /\ Len(line) = 4 => Bound(text) = Four(Bound(chunk), text, n)
  BY <1>4, Zenon DEF LineFacts
<1>6. /\ Len(text) = n + 4 /\ Bound(text) = Four(Bound(chunk), text, n)
      /\ text[n + 1] = b /\ text[n + 2] = c /\ text[n + 3] = d /\ text[n + 4] = "newline"
  BY <1>2, <1>3, <1>5
<1>7. FourMore(chunk, text, n, b, c, d)
  BY <1>5, <1>6, Zenon DEF FourMore, n
<1> QED BY <1>7, Zenon DEF text, line, n

\* ... and of five.
LEMMA LineSix ==
  ASSUME NEW chunk \in Seq(Char), NEW b \in Char, NEW c \in Char, NEW d \in Char, NEW e \in Char, NEW f \in Char
  PROVE  SixMore(chunk, chunk \o <<b, c, d, e, f, "newline">>, Len(chunk), b, c, d, e, f)
<1> DEFINE line == <<b, c, d, e, f, "newline">>
           text == chunk \o line
           n == Len(chunk)
<1>1. "newline" \in Char
  BY DEF Char
<1>2. /\ line \in Seq(Char) /\ Len(line) = 6
      /\ line[1] = b /\ line[2] = c /\ line[3] = d /\ line[4] = e /\ line[5] = f /\ line[6] = "newline"
  <2> HIDE DEF Char
  <2> QED BY <1>1
<1>3. 1 \in 1..6 /\ 2 \in 1..6 /\ 3 \in 1..6 /\ 4 \in 1..6 /\ 5 \in 1..6 /\ 6 \in 1..6
  OBVIOUS
<1> HIDE DEF Char, line
<1>4. LineFacts(chunk, line, text, n)
  <2>1. Appended(chunk, line)
    BY <1>2, LineScan
  <2> QED BY <2>1, Zenon DEF Appended
<1> HIDE DEF text, n
<1>5. /\ text \in Seq(Char) /\ n \in Nat /\ Len(text) = n + Len(line)
      /\ \A i \in 1..n : text[i] = chunk[i]
      /\ \A k \in 1..Len(line) : text[n + k] = line[k]
      /\ Len(line) = 6 => Bound(text) = Six(Bound(chunk), text, n)
  BY <1>4, Zenon DEF LineFacts
<1>6. /\ Len(text) = n + 6 /\ Bound(text) = Six(Bound(chunk), text, n)
      /\ text[n + 1] = b /\ text[n + 2] = c /\ text[n + 3] = d /\ text[n + 4] = e /\ text[n + 5] = f /\ text[n + 6] = "newline"
  BY <1>2, <1>3, <1>5
<1>7. SixMore(chunk, text, n, b, c, d, e, f)
  BY <1>5, <1>6, Zenon DEF SixMore, n
<1> QED BY <1>7, Zenon DEF text, line, n

\* What is not clean holds nothing, or an object that will be refused: so it does
\* with a line more, however deep that leaves it.
LEMMA HeldDirty ==
  ASSUME NEW chunk, NEW text, NEW S, NEW T, Grows(chunk, text, S, T), NEW a \in Nat, NEW e \in Nat,
         e > 0 => a + 1 <= Len(chunk) /\ Broken(chunk, a, S),
         NEW at \in {"outside", "string"}, NEW lev, NEW m
  PROVE  HeldBy(text, at, e, a, T, <<>>, lev, m, "dirty")
<1>1. e > 0 => a + 1 <= Len(text) /\ Broken(text, a, T)
  <2> SUFFICES ASSUME e > 0 PROVE a + 1 <= Len(text) /\ Broken(text, a, T)
    OBVIOUS
  <2>1. a + 1 <= Len(text)
    BY DEF Grows
  <2>2. Broken(text, a, T)
    BY BrokenGrows DEF Grows
  <2> QED BY <2>1, <2>2
<1> QED BY <1>1 DEF HeldBy

\* A line that leaves the scan where it was, outside a string: it is between the
\* objects, or json.loads takes it.
LEMMA HeldOn ==
  ASSUME NEW chunk, NEW text, NEW S, NEW T, Grows(chunk, text, S, T), NEW d \in Nat, NEW a \in Nat,
         d > 0 => a > 0, NEW lev \in 0..2, NEW m, NEW mode \in Modes,
         HeldBy(chunk, "outside", d, a, S, <<>>, lev, m, mode),
         lev = 0 \/ \A i \in (Len(chunk) + 1)..Len(text) :
            /\ i \in T => text[i] # "newline"
            /\ i \notin T => text[i] \notin {"x", "backslash"} /\ (text[i] = "open" => text[i - 1] = "o")
  PROVE  HeldBy(text, "outside", d, a, T, <<>>, lev, m, mode)
<1>1. ASSUME d > 0, Ours(chunk, d, a, S, lev, m), a + 1 <= Len(chunk) PROVE Ours(text, d, a, T, lev, m)
  <2>1. lev >= 1 /\ d = lev /\ chunk[a + 1] = m /\ WellFormed(chunk, S, a, Len(chunk))
    BY <1>1, Zenon DEF Ours
  <2>2. a > 0 /\ lev # 0 /\ a + 1 \in 1..Len(chunk)
    BY <1>1, <2>1 DEF Grows
  <2>3. text[a + 1] = m
    BY <2>1, <2>2 DEF Grows
  <2>4. WellFormed(text, T, a, Len(text))
    BY <2>1, <2>2, SaneGrows DEF Grows
  <2> QED BY <2>1, <2>3, <2>4, Zenon DEF Ours
<1>2. ASSUME d > 0, Nested(chunk, d, a, lev), a + 1 <= Len(chunk) PROVE Nested(text, d, a, lev)
  BY <1>2 DEF Nested, Grows
<1>3. ASSUME d > 0, Broken(chunk, a, S), a + 1 <= Len(chunk) PROVE Broken(text, a, T)
  BY <1>3, BrokenGrows DEF Grows
<1>4. d > 0 => a + 1 <= Len(chunk) /\ a + 1 <= Len(text)
  BY DEF HeldBy, Grows
<1>5. /\ d > 0 => \/ Ours(chunk, d, a, S, lev, m) \/ Nested(chunk, d, a, lev)
                  \/ Broken(chunk, a, S)
      /\ mode = "whole" => d > 0 /\ Ours(chunk, d, a, S, lev, m)
      /\ mode = "clean" => (d > 0 => Nested(chunk, d, a, lev))
  BY Zenon DEF HeldBy
<1> QED BY <1>1, <1>2, <1>3, <1>4, <1>5, Zenon DEF HeldBy

\* What the scan left in a string, or outside one between the objects.
LEMMA WithinIsDirty ==
  ASSUME NEW chunk, NEW d, NEW a, NEW S, NEW lev, NEW m, NEW mode \in Modes,
         HeldBy(chunk, "string", d, a, S, <<>>, lev, m, mode)
  PROVE  /\ mode = "dirty"
         /\ d > 0 => a + 1 <= Len(chunk) /\ Broken(chunk, a, S)
<1>1. "string" # "outside"
  OBVIOUS
<1> QED BY <1>1 DEF HeldBy, Modes

\* Between two objects all that can be held from its first brace on is broken.
LEMMA BetweenIsDirty ==
  ASSUME NEW chunk, NEW d \in Nat, NEW a, NEW S, NEW m, NEW mode \in Modes,
         HeldBy(chunk, "outside", d, a, S, <<>>, 0, m, mode)
  PROVE  /\ mode # "whole" /\ (mode = "clean" => d = 0)
         /\ d > 0 => a + 1 <= Len(chunk) /\ Broken(chunk, a, S)
BY DEF HeldBy, Ours, Nested

\* An empty buffer holds nothing.
LEMMA HeldEmpty ==
  ASSUME NEW lev, NEW m, NEW mode \in {"clean", "dirty"}
  PROVE  Held(<<>>, lev, m, mode)
<1>1. <<>> \in Seq(Char) /\ Len(<<>>) = 0 /\ 0 \in Nat
  <2> HIDE DEF Char
  <2> QED OBVIOUS
<1>2. Bound(<<>>) = Outside(0, 0, {}, <<>>)
  <2>1. Scanned(<<>>)[0] = Unscanned
    BY <1>1, ScanStep
  <2> QED BY <1>1, <2>1 DEF Bound, Unscanned, Outside
<1>3. HeldBy(<<>>, "outside", 0, 0, {}, <<>>, lev, m, mode)
  BY DEF HeldBy
<1> QED BY <1>1, <1>2, <1>3, HeldOutside

-----------------------------------------------------------------------------
(* What the buffer holds when HandBrake has printed another line.          *)

\* The first line of an object.
LEMMA BeginHeld ==
  ASSUME NEW chunk, NEW m, NEW mode \in Modes, Held(chunk, 0, m, mode), NEW c \in Message,
         NEW text, NEW n, ThreeMore(chunk, text, n, "open", c),
         NEW new \in {"whole", "dirty"}, new = "whole" <=> mode = "clean"
  PROVE  Held(text, 1, c, new)
<1>1. c \notin {"open", "close", "quote", "backslash", "x", "newline"}
  BY DEF Message, Fields
<1>2. PICK d \in Nat, a \in Nat, S \in SUBSET (1..Len(chunk)) :
        /\ d > 0 => a > 0
        /\ \/ /\ Bound(chunk) = Outside(d, a, S, <<>>)
              /\ HeldBy(chunk, "outside", d, a, S, <<>>, 0, m, mode)
           \/ /\ Bound(chunk) = Within(d, a, S, <<>>)
              /\ HeldBy(chunk, "string", d, a, S, <<>>, 0, m, mode)
  BY HeldForm, Zenon
<1>3. /\ text \in Seq(Char) /\ n \in Nat /\ n = Len(chunk) /\ Len(text) = n + 3
      /\ \A i \in 1..n : text[i] = chunk[i]
      /\ Bound(text) = Three(Bound(chunk), text, n)
  BY Zenon DEF ThreeMore
<1>4. /\ text[n + 1] = "open" /\ text[n + 2] = c
      /\ text[n + 2] \notin {"open", "close", "quote", "backslash"}
      /\ text[n + 3] \notin {"open", "close", "quote", "backslash"} /\ text[n + 3] = "newline"
  BY <1>1 DEF ThreeMore
<1>5. CASE Bound(chunk) = Outside(d, a, S, <<>>) /\ HeldBy(chunk, "outside", d, a, S, <<>>, 0, m, mode)
  <2>1. /\ mode # "whole" /\ (mode = "clean" => d = 0)
        /\ d > 0 => a + 1 <= Len(chunk) /\ Broken(chunk, a, S)
    BY <1>5, BetweenIsDirty
  <2>2. CASE d = 0
    <3>1. Bound(text) = Outside(1, n + 1, S, <<>>)
      BY <1>3, <1>4, <1>5, <2>2, BeginIdle
    <3>2. WellFormed(text, S, n + 1, Len(text))
      <4>1. \A i \in (n + 1)..Len(text) : i \notin S /\ i \in {n + 1, n + 2, n + 3}
        BY <1>3
      <4> QED BY <1>1, <1>3, <1>4, <4>1 DEF WellFormed
    <3>3. Ours(text, 1, n + 1, S, 1, c)
      BY <1>3, <1>4, <3>2 DEF Ours
    <3>4. HeldBy(text, "outside", 1, n + 1, S, <<>>, 1, c, new)
      BY <1>3, <3>3 DEF HeldBy
    <3> QED BY <1>3, <3>1, <3>4, HeldOutside
  <2>3. CASE d > 0
    <3>1. Bound(text) = Outside(d + 1, a, S, <<>>)
      BY <1>3, <1>4, <1>5, <2>3, BeginInner
    <3>2. Grows(chunk, text, S, S) /\ d + 1 \in Nat
      BY <1>3 DEF Grows
    <3>3. HeldBy(text, "outside", d + 1, a, S, <<>>, 1, c, "dirty")
      BY <2>1, <2>3, <3>2, HeldDirty
    <3>4. new = "dirty"
      BY <2>1, <2>3
    <3> QED BY <1>3, <3>1, <3>3, <3>4, HeldOutside
  <2> QED BY <2>2, <2>3
<1>6. CASE Bound(chunk) = Within(d, a, S, <<>>) /\ HeldBy(chunk, "string", d, a, S, <<>>, 0, m, mode)
  <2>1. mode = "dirty" /\ (d > 0 => a + 1 <= Len(chunk) /\ Broken(chunk, a, S))
    BY <1>6, WithinIsDirty
  <2> DEFINE T == S \cup {n + 1, n + 2, n + 3}
  <2>2. Bound(text) = Within(d, a, T, <<>>)
    BY <1>3, <1>4, <1>6, ThreeWithin
  <2>3. Grows(chunk, text, S, T)
    BY <1>3 DEF Grows
  <2> HIDE DEF T
  <2>4. HeldBy(text, "string", d, a, T, <<>>, 1, c, "dirty")
    BY <2>1, <2>3, HeldDirty
  <2>5. new = "dirty"
    BY <2>1
  <2> QED BY <1>3, <2>2, <2>4, <2>5, HeldWithin
<1> QED BY <1>2, <1>5, <1>6

\* The line of a nested object.
LEMMA NestHeld ==
  ASSUME NEW chunk, NEW m, NEW mode \in Modes, Held(chunk, 1, m, mode),
         NEW text, NEW n, ThreeMore(chunk, text, n, "o", "open")
  PROVE  Held(text, 2, m, mode)
<1>2. PICK d \in Nat, a \in Nat, S \in SUBSET (1..Len(chunk)) :
        /\ d > 0 => a > 0
        /\ \/ /\ Bound(chunk) = Outside(d, a, S, <<>>)
              /\ HeldBy(chunk, "outside", d, a, S, <<>>, 1, m, mode)
           \/ /\ Bound(chunk) = Within(d, a, S, <<>>)
              /\ HeldBy(chunk, "string", d, a, S, <<>>, 1, m, mode)
  BY HeldForm, Zenon
<1>3. /\ text \in Seq(Char) /\ n \in Nat /\ n = Len(chunk) /\ Len(text) = n + 3
      /\ \A i \in 1..n : text[i] = chunk[i]
      /\ Bound(text) = Three(Bound(chunk), text, n)
  BY Zenon DEF ThreeMore
<1>4. /\ text[n + 1] = "o" /\ text[n + 2] = "open" /\ text[n + 3] = "newline"
      /\ text[n + 3] \notin {"open", "close", "quote", "backslash"}
  BY DEF ThreeMore
<1>5. CASE Bound(chunk) = Outside(d, a, S, <<>>) /\ HeldBy(chunk, "outside", d, a, S, <<>>, 1, m, mode)
  <2>1. CASE d = 0
    <3>1. Bound(text) = Outside(1, n + 2, S, <<>>)
      BY <1>3, <1>4, <1>5, <2>1, NestIdle
    <3>2. Nested(text, 1, n + 2, 2)
      BY <1>3, <1>4 DEF Nested
    <3>3. mode # "whole"
      BY <1>5, <2>1 DEF HeldBy
    <3>4. HeldBy(text, "outside", 1, n + 2, S, <<>>, 2, m, mode)
      BY <1>3, <3>2, <3>3 DEF HeldBy
    <3> QED BY <1>3, <3>1, <3>4, HeldOutside
  <2>2. CASE d > 0
    <3>1. Bound(text) = Outside(d + 1, a, S, <<>>)
      BY <1>3, <1>4, <1>5, <2>2, NestInner
    <3>2. ~Nested(chunk, d, a, 1)
      BY DEF Nested
    <3>3. /\ Ours(chunk, d, a, S, 1, m) \/ Broken(chunk, a, S)
          /\ mode = "whole" => Ours(chunk, d, a, S, 1, m)
          /\ mode # "clean"
          /\ a + 1 <= Len(chunk)
      BY <1>5, <2>2, <3>2 DEF HeldBy
    <3>4. ASSUME Ours(chunk, d, a, S, 1, m) PROVE Ours(text, d + 1, a, S, 2, m)
      <4>1. d = 1 /\ chunk[a + 1] = m /\ WellFormed(chunk, S, a, n)
        BY <1>3, <3>4, Zenon DEF Ours
      <4>2. a > 0 /\ a + 1 \in 1..n
        BY <1>2, <1>3, <2>2, <3>3
      <4>3. \A i \in (n + 1)..Len(text) : i \notin S /\ i \in {n + 1, n + 2, n + 3}
        BY <1>3
      <4>4. \A i \in (n + 1)..Len(text) : text[i] \notin {"x", "backslash"} /\ (text[i] = "open" => text[i - 1] = "o")
        BY <1>3, <1>4, <4>3
      <4>5. Len(text) \in Nat
        BY <1>3
      <4>6. WellFormed(text, S, a, Len(text))
        BY <1>3, <4>1, <4>2, <4>3, <4>4, <4>5, SaneGrows
      <4>7. text[a + 1] = m
        BY <1>3, <4>1, <4>2
      <4>8. d + 1 = 2 /\ 2 >= 1
        BY <4>1
      <4> QED BY <4>6, <4>7, <4>8, Zenon DEF Ours
    <3>5. ASSUME Broken(chunk, a, S) PROVE Broken(text, a, S)
      BY <1>3, <3>3, <3>5, BrokenGrows
    <3>6. a + 1 <= Len(text) /\ d + 1 > 0
      BY <1>3, <3>3
    <3>7. HeldBy(text, "outside", d + 1, a, S, <<>>, 2, m, mode)
      BY <3>3, <3>4, <3>5, <3>6 DEF HeldBy
    <3> QED BY <1>3, <3>1, <3>7, HeldOutside
  <2> QED BY <2>1, <2>2
<1>6. CASE Bound(chunk) = Within(d, a, S, <<>>) /\ HeldBy(chunk, "string", d, a, S, <<>>, 1, m, mode)
  <2>1. mode = "dirty" /\ (d > 0 => a + 1 <= Len(chunk) /\ Broken(chunk, a, S))
    BY <1>6, WithinIsDirty
  <2> DEFINE T == S \cup {n + 1, n + 2, n + 3}
  <2>2. Bound(text) = Within(d, a, T, <<>>)
    <3>1. Three(Bound(chunk), text, n) = Within(d, a, T, <<>>)
      BY <1>4, <1>6, ThreeWithin
    <3> QED BY <1>3, <3>1
  <2>3. Grows(chunk, text, S, T)
    BY <1>3 DEF Grows
  <2> HIDE DEF T
  <2>4. HeldBy(text, "string", d, a, T, <<>>, 2, m, "dirty")
    BY <2>1, <2>3, HeldDirty
  <2> QED BY <1>3, <2>1, <2>2, <2>4, HeldWithin
<1> QED BY <1>2, <1>5, <1>6

\* A string with a brace in it, in an object or between two of them.
LEMMA BraceTextHeld ==
  ASSUME NEW lev \in 0..2, NEW chunk, NEW m, NEW mode \in Modes, Held(chunk, lev, m, mode),
         NEW text, NEW n, FourMore(chunk, text, n, "quote", "open", "quote")
  PROVE  Held(text, lev, m, mode)
<1>2. PICK d \in Nat, a \in Nat, S \in SUBSET (1..Len(chunk)) :
        /\ d > 0 => a > 0
        /\ \/ /\ Bound(chunk) = Outside(d, a, S, <<>>)
              /\ HeldBy(chunk, "outside", d, a, S, <<>>, lev, m, mode)
           \/ /\ Bound(chunk) = Within(d, a, S, <<>>)
              /\ HeldBy(chunk, "string", d, a, S, <<>>, lev, m, mode)
  BY HeldForm, Zenon
<1>3. /\ text \in Seq(Char) /\ n \in Nat /\ n = Len(chunk) /\ Len(text) = n + 4
      /\ \A i \in 1..n : text[i] = chunk[i]
      /\ Bound(text) = Four(Bound(chunk), text, n)
  BY Zenon DEF FourMore
<1>4. /\ text[n + 1] = "quote" /\ text[n + 2] = "open" /\ text[n + 3] = "quote"
      /\ text[n + 4] = "newline"
      /\ text[n + 4] \notin {"open", "close", "quote", "backslash"}
  BY DEF FourMore
<1>5. CASE Bound(chunk) = Outside(d, a, S, <<>>) /\ HeldBy(chunk, "outside", d, a, S, <<>>, lev, m, mode)
  <2> DEFINE T == S \cup {n + 1, n + 2, n + 3}
  <2>1. Bound(text) = Outside(d, a, T, <<>>)
    <3>1. Four(Bound(chunk), text, n) = Outside(d, a, T, <<>>)
      BY <1>4, <1>5, BraceTextOutside
    <3> QED BY <1>3, <3>1
  <2>2. Grows(chunk, text, S, T)
    BY <1>3 DEF Grows
  <2>3. \A i \in (Len(chunk) + 1)..Len(text) : i \in {n + 1, n + 2, n + 3, n + 4} /\ (i \in T <=> i # n + 4)
    BY <1>3
  <2> HIDE DEF T
  <2>4. HeldBy(text, "outside", d, a, T, <<>>, lev, m, mode)
    <3>1. \A i \in (Len(chunk) + 1)..Len(text) :
            /\ i \in T => text[i] # "newline"
            /\ i \notin T => text[i] \notin {"x", "backslash"} /\ (text[i] = "open" => text[i - 1] = "o")
      BY <1>3, <1>4, <2>3
    <3> QED BY <1>2, <1>5, <2>2, <3>1, HeldOn
  <2> QED BY <1>3, <2>1, <2>4, HeldOutside
<1>6. CASE Bound(chunk) = Within(d, a, S, <<>>) /\ HeldBy(chunk, "string", d, a, S, <<>>, lev, m, mode)
  <2>1. mode = "dirty" /\ (d > 0 => a + 1 <= Len(chunk) /\ Broken(chunk, a, S))
    BY <1>6, WithinIsDirty
  <2> DEFINE T == S \cup {n + 1, n + 3, n + 4}
  <2>2. Grows(chunk, text, S, T) /\ n + 4 \in T
    BY <1>3 DEF Grows
  <2>3. CASE d = 0
    <3>1. Bound(text) = Within(1, n + 2, T, <<>>)
      BY <1>3, <1>4, <1>6, <2>3, BraceTextWithinIdle
    <3> HIDE DEF T
    <3>2. n + 2 + 1 = n + 3 /\ n + 2 + 2 = n + 4 /\ n + 3 <= Len(text) /\ n + 4 <= Len(text)
      BY <1>3
    <3>3. Broken(text, n + 2, T)
      BY <1>4, <2>2, <3>2 DEF Broken
    <3>4. HeldBy(text, "string", 1, n + 2, T, <<>>, lev, m, "dirty")
      BY <3>2, <3>3 DEF HeldBy
    <3> QED BY <1>3, <2>1, <3>1, <3>4, HeldWithin
  <2>4. CASE d > 0
    <3>1. Bound(text) = Within(d + 1, a, T, <<>>)
      <4>1. Four(Bound(chunk), text, n) = Within(d + 1, a, T, <<>>)
        BY <1>4, <1>6, <2>4, BraceTextWithinInner
      <4> QED BY <1>3, <4>1
    <3> HIDE DEF T
    <3>2. d + 1 \in Nat
      OBVIOUS
    <3>3. HeldBy(text, "string", d + 1, a, T, <<>>, lev, m, "dirty")
      BY <2>1, <2>2, <2>4, <3>2, HeldDirty
    <3> QED BY <1>3, <2>1, <3>1, <3>3, HeldWithin
  <2> QED BY <2>3, <2>4
<1> QED BY <1>2, <1>5, <1>6

\* A string with an escaped quote.
LEMMA QuoteTextHeld ==
  ASSUME NEW lev \in 0..2, NEW chunk, NEW m, NEW mode \in Modes, Held(chunk, lev, m, mode),
         NEW text, NEW n, SixMore(chunk, text, n, "quote", "backslash", "quote", "close", "quote")
  PROVE  Held(text, lev, m, mode)
<1>2. PICK d \in Nat, a \in Nat, S \in SUBSET (1..Len(chunk)) :
        /\ d > 0 => a > 0
        /\ \/ /\ Bound(chunk) = Outside(d, a, S, <<>>)
              /\ HeldBy(chunk, "outside", d, a, S, <<>>, lev, m, mode)
           \/ /\ Bound(chunk) = Within(d, a, S, <<>>)
              /\ HeldBy(chunk, "string", d, a, S, <<>>, lev, m, mode)
  BY HeldForm, Zenon
<1>3. /\ text \in Seq(Char) /\ n \in Nat /\ n = Len(chunk) /\ Len(text) = n + 6
      /\ \A i \in 1..n : text[i] = chunk[i]
      /\ Bound(text) = Six(Bound(chunk), text, n)
  BY Zenon DEF SixMore
<1>4. /\ text[n + 1] = "quote" /\ text[n + 2] = "backslash" /\ text[n + 3] = "quote"
      /\ text[n + 4] = "close" /\ text[n + 5] = "quote" /\ text[n + 6] = "newline"
      /\ text[n + 6] \notin {"open", "close", "quote", "backslash"}
  BY DEF SixMore
<1>5. CASE Bound(chunk) = Outside(d, a, S, <<>>) /\ HeldBy(chunk, "outside", d, a, S, <<>>, lev, m, mode)
  <2> DEFINE T == S \cup {n + 1, n + 2, n + 3, n + 4, n + 5}
  <2>1. Bound(text) = Outside(d, a, T, <<>>)
    <3>1. Six(Bound(chunk), text, n) = Outside(d, a, T, <<>>)
      BY <1>4, <1>5, QuoteTextOutside
    <3> QED BY <1>3, <3>1
  <2>2. Grows(chunk, text, S, T)
    BY <1>3 DEF Grows
  <2>3. \A i \in (Len(chunk) + 1)..Len(text) : i \in {n + 1, n + 2, n + 3, n + 4, n + 5, n + 6} /\ (i \in T <=> i # n + 6)
    BY <1>3
  <2> HIDE DEF T
  <2>4. HeldBy(text, "outside", d, a, T, <<>>, lev, m, mode)
    <3>1. \A i \in (Len(chunk) + 1)..Len(text) :
            /\ i \in T => text[i] # "newline"
            /\ i \notin T => text[i] \notin {"x", "backslash"} /\ (text[i] = "open" => text[i - 1] = "o")
      BY <1>3, <1>4, <2>3
    <3> QED BY <1>2, <1>5, <2>2, <3>1, HeldOn
  <2> QED BY <1>3, <2>1, <2>4, HeldOutside
<1>6. CASE Bound(chunk) = Within(d, a, S, <<>>) /\ HeldBy(chunk, "string", d, a, S, <<>>, lev, m, mode)
  <2>1. mode = "dirty" /\ (d > 0 => a + 1 <= Len(chunk) /\ Broken(chunk, a, S))
    BY <1>6, WithinIsDirty
  <2> DEFINE T == S \cup {n + 1, n + 3, n + 4, n + 5}
  <2>2. Bound(text) = Outside(d, a, T, <<>>)
    <3>1. Six(Bound(chunk), text, n) = Outside(d, a, T, <<>>)
      BY <1>4, <1>6, QuoteTextWithin
    <3> QED BY <1>3, <3>1
  <2>3. Grows(chunk, text, S, T)
    BY <1>3 DEF Grows
  <2> HIDE DEF T
  <2>4. HeldBy(text, "outside", d, a, T, <<>>, lev, m, "dirty")
    BY <2>1, <2>3, HeldDirty
  <2> QED BY <1>3, <2>1, <2>2, <2>4, HeldOutside
<1> QED BY <1>2, <1>5, <1>6

\* Noise between the objects: a line that is malformed ...
LEMMA WordHeld ==
  ASSUME NEW chunk, NEW m, NEW mode \in Modes, Held(chunk, 0, m, mode),
         NEW text, NEW n, TwoMore(chunk, text, n, "x")
  PROVE  Held(text, 0, m, mode)
<1>2. PICK d \in Nat, a \in Nat, S \in SUBSET (1..Len(chunk)) :
        /\ d > 0 => a > 0
        /\ \/ /\ Bound(chunk) = Outside(d, a, S, <<>>)
              /\ HeldBy(chunk, "outside", d, a, S, <<>>, 0, m, mode)
           \/ /\ Bound(chunk) = Within(d, a, S, <<>>)
              /\ HeldBy(chunk, "string", d, a, S, <<>>, 0, m, mode)
  BY HeldForm, Zenon
<1>3. /\ text \in Seq(Char) /\ n \in Nat /\ n = Len(chunk) /\ Len(text) = n + 2
      /\ \A i \in 1..n : text[i] = chunk[i]
      /\ Bound(text) = Two(Bound(chunk), text, n)
  BY Zenon DEF TwoMore
<1>4. /\ text[n + 1] = "x" /\ text[n + 2] = "newline"
      /\ text[n + 2] \notin {"open", "close", "quote", "backslash"}
  BY DEF TwoMore
<1>5. CASE Bound(chunk) = Outside(d, a, S, <<>>) /\ HeldBy(chunk, "outside", d, a, S, <<>>, 0, m, mode)
  <2>1. Bound(text) = Outside(d, a, S, <<>>)
    BY <1>3, <1>4, <1>5, QuietOutside
  <2>2. Grows(chunk, text, S, S)
    BY <1>3 DEF Grows
  <2>3. HeldBy(text, "outside", d, a, S, <<>>, 0, m, mode)
    BY <1>2, <1>5, <2>2, HeldOn
  <2> QED BY <1>3, <2>1, <2>3, HeldOutside
<1>6. CASE Bound(chunk) = Within(d, a, S, <<>>) /\ HeldBy(chunk, "string", d, a, S, <<>>, 0, m, mode)
  <2>1. mode = "dirty" /\ (d > 0 => a + 1 <= Len(chunk) /\ Broken(chunk, a, S))
    BY <1>6, WithinIsDirty
  <2> DEFINE T == S \cup {n + 1, n + 2}
  <2>2. Bound(text) = Within(d, a, T, <<>>)
    <3>1. Two(Bound(chunk), text, n) = Within(d, a, T, <<>>)
      BY <1>4, <1>6, TwoWithin
    <3> QED BY <1>3, <3>1
  <2>3. Grows(chunk, text, S, T)
    BY <1>3 DEF Grows
  <2> HIDE DEF T
  <2>4. HeldBy(text, "string", d, a, T, <<>>, 0, m, "dirty")
    BY <2>1, <2>3, HeldDirty
  <2> QED BY <1>3, <2>1, <2>2, <2>4, HeldWithin
<1> QED BY <1>2, <1>5, <1>6

\* ... a pair of braces ...
LEMMA PairHeld ==
  ASSUME NEW chunk, NEW m, NEW mode \in Modes, Held(chunk, 0, m, mode),
         NEW text, NEW n, FourMore(chunk, text, n, "open", "x", "close")
  PROVE  Held(text, 0, m, mode)
<1>2. PICK d \in Nat, a \in Nat, S \in SUBSET (1..Len(chunk)) :
        /\ d > 0 => a > 0
        /\ \/ /\ Bound(chunk) = Outside(d, a, S, <<>>)
              /\ HeldBy(chunk, "outside", d, a, S, <<>>, 0, m, mode)
           \/ /\ Bound(chunk) = Within(d, a, S, <<>>)
              /\ HeldBy(chunk, "string", d, a, S, <<>>, 0, m, mode)
  BY HeldForm, Zenon
<1>3. /\ text \in Seq(Char) /\ n \in Nat /\ n = Len(chunk) /\ Len(text) = n + 4
      /\ \A i \in 1..n : text[i] = chunk[i]
      /\ Bound(text) = Four(Bound(chunk), text, n)
  BY Zenon DEF FourMore
<1>4. /\ text[n + 1] = "open" /\ text[n + 2] = "x" /\ text[n + 3] = "close"
      /\ text[n + 4] = "newline"
      /\ text[n + 4] \notin {"open", "close", "quote", "backslash"}
  BY DEF FourMore
<1>5. CASE Bound(chunk) = Outside(d, a, S, <<>>) /\ HeldBy(chunk, "outside", d, a, S, <<>>, 0, m, mode)
  <2>1. \E b : Four(Bound(chunk), text, n) = Outside(d, b, S, <<>>) /\ (d > 0 => b = a)
    <3>1. n + 2 \notin S
      BY <1>3
    <3> QED BY <1>3, <1>4, <1>5, <3>1, PairOutside
  <2>2. PICK b : Bound(text) = Outside(d, b, S, <<>>) /\ (d > 0 => b = a)
    BY <1>3, <2>1
  <2>3. Grows(chunk, text, S, S)
    BY <1>3 DEF Grows
  <2>4. HeldBy(text, "outside", d, a, S, <<>>, 0, m, mode)
    BY <1>2, <1>5, <2>3, HeldOn
  <2>5. HeldBy(text, "outside", d, b, S, <<>>, 0, m, mode)
    <3>1. CASE d > 0
      BY <2>2, <2>4, <3>1
    <3>2. CASE d = 0
      <4>1. mode # "whole"
        BY <1>5, BetweenIsDirty
      <4> QED BY <3>2, <4>1 DEF HeldBy
    <3> QED BY <3>1, <3>2
  <2> QED BY <1>3, <2>2, <2>5, HeldOutside
<1>6. CASE Bound(chunk) = Within(d, a, S, <<>>) /\ HeldBy(chunk, "string", d, a, S, <<>>, 0, m, mode)
  <2>1. mode = "dirty" /\ (d > 0 => a + 1 <= Len(chunk) /\ Broken(chunk, a, S))
    BY <1>6, WithinIsDirty
  <2> DEFINE T == S \cup {n + 1, n + 2, n + 3, n + 4}
  <2>2. Bound(text) = Within(d, a, T, <<>>)
    <3>1. Four(Bound(chunk), text, n) = Within(d, a, T, <<>>)
      BY <1>4, <1>6, FourWithin
    <3> QED BY <1>3, <3>1
  <2>3. Grows(chunk, text, S, T)
    BY <1>3 DEF Grows
  <2> HIDE DEF T
  <2>4. HeldBy(text, "string", d, a, T, <<>>, 0, m, "dirty")
    BY <2>1, <2>3, HeldDirty
  <2> QED BY <1>3, <2>1, <2>2, <2>4, HeldWithin
<1> QED BY <1>2, <1>5, <1>6

\* ... a brace that opens for good ...
LEMMA StrayBraceHeld ==
  ASSUME NEW chunk, NEW m, NEW mode \in Modes, Held(chunk, 0, m, mode),
         NEW text, NEW n, ThreeMore(chunk, text, n, "open", "x")
  PROVE  Held(text, 0, m, "dirty")
<1>2. PICK d \in Nat, a \in Nat, S \in SUBSET (1..Len(chunk)) :
        /\ d > 0 => a > 0
        /\ \/ /\ Bound(chunk) = Outside(d, a, S, <<>>)
              /\ HeldBy(chunk, "outside", d, a, S, <<>>, 0, m, mode)
           \/ /\ Bound(chunk) = Within(d, a, S, <<>>)
              /\ HeldBy(chunk, "string", d, a, S, <<>>, 0, m, mode)
  BY HeldForm, Zenon
<1>3. /\ text \in Seq(Char) /\ n \in Nat /\ n = Len(chunk) /\ Len(text) = n + 3
      /\ \A i \in 1..n : text[i] = chunk[i]
      /\ Bound(text) = Three(Bound(chunk), text, n)
  BY Zenon DEF ThreeMore
<1>4. /\ text[n + 1] = "open" /\ text[n + 2] = "x" /\ text[n + 3] = "newline"
      /\ text[n + 3] \notin {"open", "close", "quote", "backslash"}
  BY DEF ThreeMore
<1>5. CASE Bound(chunk) = Outside(d, a, S, <<>>) /\ HeldBy(chunk, "outside", d, a, S, <<>>, 0, m, mode)
  <2>1. /\ mode # "whole" /\ (mode = "clean" => d = 0)
        /\ d > 0 => a + 1 <= Len(chunk) /\ Broken(chunk, a, S)
    BY <1>5, BetweenIsDirty
  <2>2. CASE d = 0
    <3>1. Bound(text) = Outside(1, n + 1, S, <<>>)
      BY <1>3, <1>4, <1>5, <2>2, BeginIdle
    <3>2. n + 1 + 1 = n + 2 /\ n + 2 \notin S /\ n + 2 <= Len(text)
      BY <1>3
    <3>3. Broken(text, n + 1, S)
      BY <1>4, <3>2 DEF Broken
    <3>4. HeldBy(text, "outside", 1, n + 1, S, <<>>, 0, m, "dirty")
      BY <3>2, <3>3 DEF HeldBy
    <3> QED BY <1>3, <3>1, <3>4, HeldOutside
  <2>3. CASE d > 0
    <3>1. Bound(text) = Outside(d + 1, a, S, <<>>)
      BY <1>3, <1>4, <1>5, <2>3, BeginInner
    <3>2. Grows(chunk, text, S, S) /\ d + 1 \in Nat
      BY <1>3 DEF Grows
    <3>3. HeldBy(text, "outside", d + 1, a, S, <<>>, 0, m, "dirty")
      BY <2>1, <2>3, <3>2, HeldDirty
    <3> QED BY <1>3, <3>1, <3>3, HeldOutside
  <2> QED BY <2>2, <2>3
<1>6. CASE Bound(chunk) = Within(d, a, S, <<>>) /\ HeldBy(chunk, "string", d, a, S, <<>>, 0, m, mode)
  <2>1. mode = "dirty" /\ (d > 0 => a + 1 <= Len(chunk) /\ Broken(chunk, a, S))
    BY <1>6, WithinIsDirty
  <2> DEFINE T == S \cup {n + 1, n + 2, n + 3}
  <2>2. Bound(text) = Within(d, a, T, <<>>)
    <3>1. Three(Bound(chunk), text, n) = Within(d, a, T, <<>>)
      BY <1>4, <1>6, ThreeWithin
    <3> QED BY <1>3, <3>1
  <2>3. Grows(chunk, text, S, T)
    BY <1>3 DEF Grows
  <2> HIDE DEF T
  <2>4. HeldBy(text, "string", d, a, T, <<>>, 0, m, "dirty")
    BY <2>1, <2>3, HeldDirty
  <2> QED BY <1>3, <2>1, <2>2, <2>4, HeldWithin
<1> QED BY <1>2, <1>5, <1>6

\* ... and a quote that does.
LEMMA StrayQuoteHeld ==
  ASSUME NEW chunk, NEW m, NEW mode \in Modes, Held(chunk, 0, m, mode),
         NEW text, NEW n, ThreeMore(chunk, text, n, "x", "quote")
  PROVE  Held(text, 0, m, "dirty")
<1>2. PICK d \in Nat, a \in Nat, S \in SUBSET (1..Len(chunk)) :
        /\ d > 0 => a > 0
        /\ \/ /\ Bound(chunk) = Outside(d, a, S, <<>>)
              /\ HeldBy(chunk, "outside", d, a, S, <<>>, 0, m, mode)
           \/ /\ Bound(chunk) = Within(d, a, S, <<>>)
              /\ HeldBy(chunk, "string", d, a, S, <<>>, 0, m, mode)
  BY HeldForm, Zenon
<1>3. /\ text \in Seq(Char) /\ n \in Nat /\ n = Len(chunk) /\ Len(text) = n + 3
      /\ \A i \in 1..n : text[i] = chunk[i]
      /\ Bound(text) = Three(Bound(chunk), text, n)
  BY Zenon DEF ThreeMore
<1>4. /\ text[n + 1] = "x" /\ text[n + 2] = "quote" /\ text[n + 3] = "newline"
      /\ text[n + 3] \notin {"open", "close", "quote", "backslash"}
  BY DEF ThreeMore
<1>5. CASE Bound(chunk) = Outside(d, a, S, <<>>) /\ HeldBy(chunk, "outside", d, a, S, <<>>, 0, m, mode)
  <2>1. /\ mode # "whole" /\ (mode = "clean" => d = 0)
        /\ d > 0 => a + 1 <= Len(chunk) /\ Broken(chunk, a, S)
    BY <1>5, BetweenIsDirty
  <2> DEFINE T == S \cup {n + 2, n + 3}
  <2>2. Bound(text) = Within(d, a, T, <<>>)
    <3>1. Three(Bound(chunk), text, n) = Within(d, a, T, <<>>)
      BY <1>4, <1>5, StrayQuoteOutside
    <3> QED BY <1>3, <3>1
  <2>3. Grows(chunk, text, S, T)
    BY <1>3 DEF Grows
  <2> HIDE DEF T
  <2>4. HeldBy(text, "string", d, a, T, <<>>, 0, m, "dirty")
    BY <2>1, <2>3, HeldDirty
  <2> QED BY <1>3, <2>2, <2>4, HeldWithin
<1>6. CASE Bound(chunk) = Within(d, a, S, <<>>) /\ HeldBy(chunk, "string", d, a, S, <<>>, 0, m, mode)
  <2>1. mode = "dirty" /\ (d > 0 => a + 1 <= Len(chunk) /\ Broken(chunk, a, S))
    BY <1>6, WithinIsDirty
  <2> DEFINE T == S \cup {n + 1, n + 2}
  <2>2. Bound(text) = Outside(d, a, T, <<>>)
    <3>1. Three(Bound(chunk), text, n) = Outside(d, a, T, <<>>)
      BY <1>4, <1>6, StrayQuoteWithin
    <3> QED BY <1>3, <3>1
  <2>3. Grows(chunk, text, S, T)
    BY <1>3 DEF Grows
  <2> HIDE DEF T
  <2>4. HeldBy(text, "outside", d, a, T, <<>>, 0, m, "dirty")
    BY <2>1, <2>3, HeldDirty
  <2> QED BY <1>3, <2>1, <2>2, <2>4, HeldOutside
<1> QED BY <1>2, <1>5, <1>6

\* What a brace finds that closes.
LEMMA FoundNone ==
  ASSUME NEW d, NEW a, NEW S, NEW O, NEW text, NEW i, NEW s, s = Outside(d, a, S, O),
         d # 1 \/ ~WellFormed(text, S, a, i)
  PROVE  Loaded(s, text, i) = O
<1>1. s.depth = d /\ s.start = a /\ s.strings = S /\ s.objects = O
  BY DEF Outside
<1> QED BY <1>1, Zenon DEF Loaded

Finds(s, text, i, c) == \E object : Loaded(s, text, i) = <<object>> /\ object[2] = c

\* An object is found at its last brace, and tells what follows its first one.
LEMMA FoundOne ==
  ASSUME NEW a \in Nat, NEW S, NEW text \in Seq(Char), NEW i \in 1..Len(text), NEW s,
         s = Outside(1, a, S, <<>>), WellFormed(text, S, a, i), a > 0, a + 1 <= i
  PROVE  Finds(s, text, i, text[a + 1])
<1>1. Loaded(s, text, i) = Append(<<>>, SubSeq(text, a, i))
  <2>1. s.depth = 1 /\ s.start = a /\ s.strings = S /\ s.objects = <<>>
    BY DEF Outside
  <2> QED BY <2>1, Zenon DEF Loaded
<1> DEFINE object == SubSeq(text, a, i)
<1>2. object[2] = text[a + 1]
  <2>1. /\ a \in Int /\ i \in Int /\ a <= i /\ 2 \in 1..(i - a + 1) /\ a + 2 - 1 = a + 1
        /\ \A k \in a..i : text[k] \in Char
    <3>1. Len(text) \in Nat
      <4> HIDE DEF Char
      <4> QED OBVIOUS
    <3>2. \A k \in a..i : k \in 1..Len(text)
      BY <3>1
    <3> HIDE DEF Char
    <3> QED BY <3>1, <3>2
  <2> HIDE DEF Char
  <2>2. \A k \in 1..(i - a + 1) : SubSeq(text, a, i)[k] = text[a + k - 1]
    BY <2>1, SubSeqProperties
  <2> QED BY <2>1, <2>2
<1> HIDE DEF object
<1>3. Append(<<>>, object) = <<object>>
  OBVIOUS
<1> QED BY <1>1, <1>2, <1>3 DEF object, Finds

\* The brace that closes the nested object: it ends no object but one whose first
\* line is lost, and of that it finds the nested one.
LEMMA UnnestHeld ==
  ASSUME NEW chunk, NEW m, NEW mode \in Modes, Held(chunk, 2, m, mode),
         NEW text, NEW n, TwoMore(chunk, text, n, "close")
  PROVE  \/ Bound(text).objects = <<>> /\ Held(text, 1, m, mode)
         \/ /\ mode # "whole"
            /\ \E object : Bound(text).objects = <<object>> /\ object[2] = "newline"
<1>2. PICK d \in Nat, a \in Nat, S \in SUBSET (1..Len(chunk)) :
        /\ d > 0 => a > 0
        /\ \/ /\ Bound(chunk) = Outside(d, a, S, <<>>)
              /\ HeldBy(chunk, "outside", d, a, S, <<>>, 2, m, mode)
           \/ /\ Bound(chunk) = Within(d, a, S, <<>>)
              /\ HeldBy(chunk, "string", d, a, S, <<>>, 2, m, mode)
  BY HeldForm, Zenon
<1>3. /\ text \in Seq(Char) /\ n \in Nat /\ n = Len(chunk) /\ Len(text) = n + 2
      /\ \A i \in 1..n : text[i] = chunk[i]
      /\ Bound(text) = Two(Bound(chunk), text, n)
  BY Zenon DEF TwoMore
<1>4. /\ text[n + 1] = "close" /\ text[n + 2] = "newline"
      /\ text[n + 2] \notin {"open", "close", "quote", "backslash"}
  BY DEF TwoMore
<1>5. CASE Bound(chunk) = Outside(d, a, S, <<>>) /\ HeldBy(chunk, "outside", d, a, S, <<>>, 2, m, mode)
  <2>1. d = 0 => Bound(text) = Outside(d, a, S, <<>>)
    BY <1>3, <1>4, <1>5, CloseOutside
  <2>2. d > 0 => Bound(text) = Outside(d - 1, a, S, Loaded(Bound(chunk), text, n + 1))
    BY <1>3, <1>4, <1>5, CloseOutside
  <2>3. Grows(chunk, text, S, S) /\ n + 1 \in 1..Len(text) /\ n + 1 \in Nat
    BY <1>3 DEF Grows
  <2>4. CASE d = 0
    <3>1. mode # "whole"
      BY <1>5, <2>4 DEF HeldBy
    <3>2. HeldBy(text, "outside", 0, a, S, <<>>, 1, m, mode)
      BY <3>1 DEF HeldBy
    <3>3. Bound(text) = Outside(0, a, S, <<>>)
      BY <2>1, <2>4
    <3>4. Held(text, 1, m, mode)
      BY <1>3, <3>2, <3>3, HeldOutside
    <3>5. Bound(text).objects = <<>>
      BY <3>3 DEF Outside
    <3> QED BY <3>1, <3>4, <3>5
  <2>5. ASSUME d > 0, Broken(chunk, a, S), a + 1 <= Len(chunk), mode = "dirty"
        PROVE  Held(text, 1, m, mode) /\ Bound(text).objects = <<>>
    <3>1. Broken(text, a, S)
      BY <1>3, <2>5, BrokenGrows
    <3>2. ~WellFormed(text, S, a, n + 1)
      BY <1>3, <2>3, <2>5, <3>1, BrokenIsRefused
    <3>3. Loaded(Bound(chunk), text, n + 1) = <<>>
      BY <1>5, <3>2, FoundNone
    <3>4. Bound(text) = Outside(d - 1, a, S, <<>>) /\ d - 1 \in Nat
      BY <2>2, <2>5, <3>3
    <3>5. HeldBy(text, "outside", d - 1, a, S, <<>>, 1, m, "dirty")
      BY <2>3, <2>5, <3>4, HeldDirty
    <3>6. Held(text, 1, m, mode)
      BY <1>3, <2>5, <3>4, <3>5, HeldOutside
    <3>7. Bound(text).objects = <<>>
      BY <3>4 DEF Outside
    <3> QED BY <3>6, <3>7
  <2>6. ASSUME d > 0, Ours(chunk, d, a, S, 2, m), a + 1 <= Len(chunk)
        PROVE  Held(text, 1, m, mode) /\ Bound(text).objects = <<>>
    <3>1. d = 2 /\ chunk[a + 1] = m /\ WellFormed(chunk, S, a, n)
      BY <1>3, <2>6, Zenon DEF Ours
    <3>2. Loaded(Bound(chunk), text, n + 1) = <<>>
      <4>1. d # 1
        BY <3>1
      <4> QED BY <1>5, <4>1, FoundNone
    <3>3. Bound(text) = Outside(1, a, S, <<>>)
      <4>1. d - 1 = 1
        BY <3>1
      <4> QED BY <2>2, <2>6, <3>2, <4>1
    <3>4. Ours(text, 1, a, S, 1, m)
      <4>1. a > 0 /\ a + 1 \in 1..n /\ Len(text) \in Nat
        BY <1>2, <1>3, <2>6
      <4>3. \A i \in (n + 1)..Len(text) : i \notin S /\ i \in {n + 1, n + 2}
        BY <1>3
      <4>4. \A i \in (n + 1)..Len(text) :
               text[i] \notin {"x", "backslash"} /\ (text[i] = "open" => text[i - 1] = "o")
        BY <1>3, <1>4, <4>3
      <4>5. WellFormed(text, S, a, Len(text))
        BY <1>3, <3>1, <4>1, <4>3, <4>4, SaneGrows
      <4>6. text[a + 1] = m
        BY <1>3, <3>1, <4>1
      <4>7. 1 >= 1
        OBVIOUS
      <4> QED BY <4>5, <4>6, <4>7, Zenon DEF Ours
    <3>5. mode # "clean" /\ a + 1 <= Len(text)
      <4>1. ~Nested(chunk, d, a, 2)
        BY <3>1 DEF Nested
      <4> QED BY <1>3, <1>5, <2>6, <4>1 DEF HeldBy
    <3>6. HeldBy(text, "outside", 1, a, S, <<>>, 1, m, mode)
      BY <3>4, <3>5 DEF HeldBy
    <3>7. Held(text, 1, m, mode)
      BY <1>3, <3>3, <3>6, HeldOutside
    <3>8. Bound(text).objects = <<>>
      BY <3>3 DEF Outside
    <3> QED BY <3>7, <3>8
  <2>7. ASSUME d > 0, Nested(chunk, d, a, 2), a + 1 <= Len(chunk), mode # "whole"
        PROVE  \/ Bound(text).objects = <<>> /\ Held(text, 1, m, mode)
               \/ \E object : Bound(text).objects = <<object>> /\ object[2] = "newline"
    <3>1. d = 1 /\ chunk[a + 1] = "newline" /\ a + 1 \in 1..n /\ a + 1 <= n + 1
      BY <1>3, <2>7 DEF Nested
    <3>2. text[a + 1] = "newline"
      BY <1>3, <3>1
    <3>3. Bound(text) = Outside(0, a, S, Loaded(Bound(chunk), text, n + 1))
      <4>1. d - 1 = 0
        BY <3>1
      <4> QED BY <2>2, <2>7, <4>1
    <3>4. CASE WellFormed(text, S, a, n + 1)
      <4>1. Bound(chunk) = Outside(1, a, S, <<>>) /\ a > 0
        BY <1>2, <1>5, <3>1
      <4>2. \E object : Loaded(Bound(chunk), text, n + 1) = <<object>> /\ object[2] = text[a + 1]
        <5>1. text \in Seq(Char)
          BY <1>3, Zenon
        <5> DEFINE i == n + 1
        <5>2. i \in 1..Len(text) /\ a + 1 <= i /\ WellFormed(text, S, a, i)
          BY <2>3, <3>1, <3>4
        <5> HIDE DEF i
        <5>3. Finds(Bound(chunk), text, i, text[a + 1])
          BY <4>1, <5>1, <5>2, FoundOne
        <5> QED BY <5>3, Zenon DEF i, Finds
      <4>3. Bound(text).objects = Loaded(Bound(chunk), text, n + 1)
        BY <3>3 DEF Outside
      <4> QED BY <3>2, <4>2, <4>3, Zenon
    <3>5. CASE ~WellFormed(text, S, a, n + 1)
      <4>1. Loaded(Bound(chunk), text, n + 1) = <<>>
        BY <1>5, <3>5, FoundNone
      <4>2. Bound(text) = Outside(0, a, S, <<>>)
        BY <3>3, <4>1
      <4>3. HeldBy(text, "outside", 0, a, S, <<>>, 1, m, mode)
        BY <2>7 DEF HeldBy
      <4>4. Held(text, 1, m, mode)
        BY <1>3, <4>2, <4>3, HeldOutside
      <4>5. Bound(text).objects = <<>>
        BY <4>2 DEF Outside
      <4> QED BY <4>4, <4>5
    <3> QED BY <3>4, <3>5, Zenon
  <2>8. CASE d > 0
    <3>1. a + 1 <= Len(chunk)
      BY <1>5, <2>8 DEF HeldBy
    <3>2. CASE Ours(chunk, d, a, S, 2, m)
      BY <2>6, <2>8, <3>1, <3>2
    <3>3. CASE ~Ours(chunk, d, a, S, 2, m) /\ Nested(chunk, d, a, 2)
      <4>1. mode # "whole"
        BY <1>5, <3>3, Zenon DEF HeldBy
      <4> QED BY <2>7, <2>8, <3>1, <3>3, <4>1
    <3>4. CASE ~Ours(chunk, d, a, S, 2, m) /\ ~Nested(chunk, d, a, 2)
      <4>1. mode # "whole" /\ mode # "clean" /\ Broken(chunk, a, S)
        BY <1>5, <2>8, <3>4, Zenon DEF HeldBy
      <4>2. mode = "dirty"
        BY <4>1 DEF Modes
      <4> QED BY <2>5, <2>8, <3>1, <4>1, <4>2
    <3> QED BY <3>2, <3>3, <3>4, Zenon
  <2>9. d = 0 \/ d > 0
    OBVIOUS
  <2> QED BY <2>4, <2>8, <2>9, Zenon
<1>6. CASE Bound(chunk) = Within(d, a, S, <<>>) /\ HeldBy(chunk, "string", d, a, S, <<>>, 2, m, mode)
  <2>1. mode = "dirty" /\ (d > 0 => a + 1 <= Len(chunk) /\ Broken(chunk, a, S))
    BY <1>6, WithinIsDirty
  <2> DEFINE T == S \cup {n + 1, n + 2}
  <2>2. Bound(text) = Within(d, a, T, <<>>)
    <3>1. Two(Bound(chunk), text, n) = Within(d, a, T, <<>>)
      BY <1>4, <1>6, TwoWithin
    <3> QED BY <1>3, <3>1
  <2>3. Grows(chunk, text, S, T)
    BY <1>3 DEF Grows
  <2> HIDE DEF T
  <2>4. HeldBy(text, "string", d, a, T, <<>>, 1, m, "dirty")
    BY <2>1, <2>3, HeldDirty
  <2>5. Held(text, 1, m, mode)
    BY <1>3, <2>1, <2>2, <2>4, HeldWithin
  <2>6. Bound(text).objects = <<>>
    BY <2>2 DEF Within
  <2> QED BY <2>1, <2>5, <2>6
<1> QED BY <1>2, <1>5, <1>6

\* The last brace of an object: it finds the object, or none.
LEMMA EndHeld ==
  ASSUME NEW chunk, NEW m, NEW mode \in Modes, Held(chunk, 1, m, mode),
         NEW text, NEW n, TwoMore(chunk, text, n, "close")
  PROVE  \/ mode # "whole" /\ Bound(text).objects = <<>> /\ Held(text, 0, m, mode)
         \/ \E object : Bound(text).objects = <<object>> /\ object[2] = m
<1>2. PICK d \in Nat, a \in Nat, S \in SUBSET (1..Len(chunk)) :
        /\ d > 0 => a > 0
        /\ \/ /\ Bound(chunk) = Outside(d, a, S, <<>>)
              /\ HeldBy(chunk, "outside", d, a, S, <<>>, 1, m, mode)
           \/ /\ Bound(chunk) = Within(d, a, S, <<>>)
              /\ HeldBy(chunk, "string", d, a, S, <<>>, 1, m, mode)
  BY HeldForm, Zenon
<1>3. /\ text \in Seq(Char) /\ n \in Nat /\ n = Len(chunk) /\ Len(text) = n + 2
      /\ \A i \in 1..n : text[i] = chunk[i]
      /\ Bound(text) = Two(Bound(chunk), text, n)
  BY Zenon DEF TwoMore
<1>4. /\ text[n + 1] = "close" /\ text[n + 2] = "newline"
      /\ text[n + 2] \notin {"open", "close", "quote", "backslash"}
  BY DEF TwoMore
<1>5. CASE Bound(chunk) = Outside(d, a, S, <<>>) /\ HeldBy(chunk, "outside", d, a, S, <<>>, 1, m, mode)
  <2>1. d = 0 => Bound(text) = Outside(d, a, S, <<>>)
    BY <1>3, <1>4, <1>5, CloseOutside
  <2>2. d > 0 => Bound(text) = Outside(d - 1, a, S, Loaded(Bound(chunk), text, n + 1))
    BY <1>3, <1>4, <1>5, CloseOutside
  <2>3. Grows(chunk, text, S, S) /\ n + 1 \in 1..Len(text) /\ n + 1 \in Nat
    BY <1>3 DEF Grows
  <2>4. CASE d = 0
    <3>1. mode # "whole"
      BY <1>5, <2>4 DEF HeldBy
    <3>2. HeldBy(text, "outside", 0, a, S, <<>>, 0, m, mode)
      BY <3>1 DEF HeldBy
    <3>3. Bound(text) = Outside(0, a, S, <<>>)
      BY <2>1, <2>4
    <3>4. Held(text, 0, m, mode)
      BY <1>3, <3>2, <3>3, HeldOutside
    <3>5. Bound(text).objects = <<>>
      BY <3>3 DEF Outside
    <3> QED BY <3>1, <3>4, <3>5
  <2>5. ASSUME d > 0, Broken(chunk, a, S), a + 1 <= Len(chunk), mode = "dirty"
        PROVE  Held(text, 0, m, mode) /\ Bound(text).objects = <<>>
    <3>1. Broken(text, a, S)
      BY <1>3, <2>5, BrokenGrows
    <3>2. ~WellFormed(text, S, a, n + 1)
      BY <1>3, <2>3, <2>5, <3>1, BrokenIsRefused
    <3>3. Loaded(Bound(chunk), text, n + 1) = <<>>
      BY <1>5, <3>2, FoundNone
    <3>4. Bound(text) = Outside(d - 1, a, S, <<>>) /\ d - 1 \in Nat
      BY <2>2, <2>5, <3>3
    <3>5. HeldBy(text, "outside", d - 1, a, S, <<>>, 0, m, "dirty")
      BY <2>3, <2>5, <3>4, HeldDirty
    <3>6. Held(text, 0, m, mode)
      BY <1>3, <2>5, <3>4, <3>5, HeldOutside
    <3>7. Bound(text).objects = <<>>
      BY <3>4 DEF Outside
    <3> QED BY <3>6, <3>7
  <2>6. ASSUME d > 0, Ours(chunk, d, a, S, 1, m), a + 1 <= Len(chunk)
        PROVE  \E object : Bound(text).objects = <<object>> /\ object[2] = m
    <3>1. d = 1 /\ chunk[a + 1] = m /\ WellFormed(chunk, S, a, n)
      BY <1>3, <2>6, Zenon DEF Ours
    <3>2. a > 0 /\ a + 1 \in 1..n /\ a + 1 <= n + 1
      BY <1>2, <1>3, <2>6
    <3>3. WellFormed(text, S, a, n + 1)
      <4>1. \A i \in (n + 1)..(n + 1) : i \notin S /\ i = n + 1
        BY <1>3
      <4>2. \A i \in (n + 1)..(n + 1) :
               text[i] \notin {"x", "backslash"} /\ (text[i] = "open" => text[i - 1] = "o")
        BY <1>3, <1>4, <4>1
      <4> QED BY <1>3, <2>3, <3>1, <3>2, <4>1, <4>2, SaneGrows
    <3>4. Bound(chunk) = Outside(1, a, S, <<>>)
      BY <1>5, <3>1
    <3>5. \E object : Loaded(Bound(chunk), text, n + 1) = <<object>> /\ object[2] = text[a + 1]
      <4>1. text \in Seq(Char)
        BY <1>3, Zenon
      <4> DEFINE i == n + 1
      <4>2. i \in 1..Len(text) /\ a + 1 <= i /\ WellFormed(text, S, a, i)
        BY <2>3, <3>2, <3>3
      <4> HIDE DEF i
      <4>3. Finds(Bound(chunk), text, i, text[a + 1])
        BY <3>2, <3>4, <4>1, <4>2, FoundOne
      <4> QED BY <4>3, Zenon DEF i, Finds
    <3>6. Bound(text) = Outside(0, a, S, Loaded(Bound(chunk), text, n + 1))
      <4>1. d - 1 = 0
        BY <3>1
      <4> QED BY <2>2, <2>6, <4>1
    <3>7. Bound(text).objects = Loaded(Bound(chunk), text, n + 1)
      BY <3>6 DEF Outside
    <3>8. text[a + 1] = m
      BY <1>3, <3>1, <3>2
    <3> QED BY <3>5, <3>7, <3>8, Zenon
  <2>7. CASE d > 0
    <3>1. a + 1 <= Len(chunk) /\ ~Nested(chunk, d, a, 1)
      BY <1>5, <2>7 DEF HeldBy, Nested
    <3>2. CASE Ours(chunk, d, a, S, 1, m)
      BY <2>6, <2>7, <3>1, <3>2, Zenon
    <3>3. CASE ~Ours(chunk, d, a, S, 1, m)
      <4>1. mode # "whole" /\ mode # "clean" /\ Broken(chunk, a, S)
        BY <1>5, <2>7, <3>1, <3>3, Zenon DEF HeldBy
      <4>2. mode = "dirty"
        BY <4>1 DEF Modes
      <4> QED BY <2>5, <2>7, <3>1, <4>1, <4>2
    <3> QED BY <3>2, <3>3, Zenon
  <2>8. d = 0 \/ d > 0
    OBVIOUS
  <2> QED BY <2>4, <2>7, <2>8, Zenon
<1>6. CASE Bound(chunk) = Within(d, a, S, <<>>) /\ HeldBy(chunk, "string", d, a, S, <<>>, 1, m, mode)
  <2>1. mode = "dirty" /\ (d > 0 => a + 1 <= Len(chunk) /\ Broken(chunk, a, S))
    BY <1>6, WithinIsDirty
  <2> DEFINE T == S \cup {n + 1, n + 2}
  <2>2. Bound(text) = Within(d, a, T, <<>>)
    <3>1. Two(Bound(chunk), text, n) = Within(d, a, T, <<>>)
      BY <1>4, <1>6, TwoWithin
    <3> QED BY <1>3, <3>1
  <2>3. Grows(chunk, text, S, T)
    BY <1>3 DEF Grows
  <2> HIDE DEF T
  <2>4. HeldBy(text, "string", d, a, T, <<>>, 0, m, "dirty")
    BY <2>1, <2>3, HeldDirty
  <2>5. Held(text, 0, m, mode)
    BY <1>3, <2>1, <2>2, <2>4, HeldWithin
  <2>6. Bound(text).objects = <<>>
    BY <2>2 DEF Within
  <2> QED BY <2>1, <2>5, <2>6
<1> QED BY <1>2, <1>5, <1>6

-----------------------------------------------------------------------------
(* One round of the loop of run_encode.                                    *)

\* Telling the job of the objects of a line, of which there is one or none.
LEMMA ToldNone ==
  ASSUME NEW job
  PROVE  FoldLeft(Tell, job, <<>>) = job
<1> DEFINE Is(g, D) ==
             g = [S \in SUBSET D |-> IF S = {} THEN job ELSE Tell(g[S \ {Max(S)}], <<>>[Max(S)])]
<1>1. FoldLeft(Tell, job, <<>>) = (CHOOSE g : Is(g, DOMAIN <<>>))[DOMAIN <<>>]
  BY Zenon DEF FoldLeft, MapThenFoldSet
<1>2. DOMAIN <<>> = {}
  OBVIOUS
<1>3. Is([S \in SUBSET {} |-> job], {})
  OBVIOUS
<1>4. Is(CHOOSE g : Is(g, {}), {})
  <2> HIDE DEF Is
  <2> QED BY <1>3
<1>5. (CHOOSE g : Is(g, {}))[{}] = job
  <2> DEFINE fold == CHOOSE g : Is(g, {})
  <2> HIDE DEF fold
  <2> QED BY <1>4 DEF fold
<1> QED BY <1>1, <1>2, <1>5

\* ... and of one object is what it tells.
LEMMA ToldOne ==
  ASSUME NEW job, NEW object
  PROVE  FoldLeft(Tell, job, <<object>>) = Tell(job, object)
<1> DEFINE Is(g, D) ==
             g = [S \in SUBSET D |->
                    IF S = {} THEN job ELSE Tell(g[S \ {Max(S)}], <<object>>[Max(S)])]
<1>1. FoldLeft(Tell, job, <<object>>) = (CHOOSE g : Is(g, DOMAIN <<object>>))[DOMAIN <<object>>]
  BY Zenon DEF FoldLeft, MapThenFoldSet
<1>2. DOMAIN <<object>> = {1}
  OBVIOUS
<1>3. Max({1}) = 1
  BY DEF Max
<1>4. \A S \in SUBSET {1} : S = {} \/ S = {1}
  OBVIOUS
<1>5. {1} \ {1} = {} /\ <<object>>[1] = object /\ {1} # {} /\ {1} \in SUBSET {1} /\ {} \in SUBSET {1}
  OBVIOUS
<1>6. Is([S \in SUBSET {1} |-> IF S = {} THEN job ELSE Tell(job, object)], {1})
  <2> DEFINE g == [S \in SUBSET {1} |-> IF S = {} THEN job ELSE Tell(job, object)]
             Of(S) == IF S = {} THEN job ELSE Tell(g[S \ {Max(S)}], <<object>>[Max(S)])
  <2>1. g[{}] = job /\ g[{1}] = Tell(job, object) /\ g = [S \in SUBSET {1} |-> g[S]]
    OBVIOUS
  <2> HIDE DEF g
  <2>2. Of({}) = job /\ Of({1}) = Tell(job, object)
    BY <1>3, <1>5, <2>1
  <2> HIDE DEF Of
  <2>3. \A S \in SUBSET {1} : g[S] = Of(S)
    BY <1>4, <2>1, <2>2
  <2>4. g = [S \in SUBSET {1} |-> Of(S)]
    BY <2>1, <2>3
  <2> QED BY <2>4 DEF Of, g
<1>7. Is(CHOOSE g : Is(g, {1}), {1})
  <2> HIDE DEF Is
  <2> QED BY <1>6
<1>8. (CHOOSE g : Is(g, {1}))[{1}] = Tell(job, object)
  <2> DEFINE fold == CHOOSE g : Is(g, {1})
  <2> HIDE DEF fold
  <2>1. Is(fold, {1})
    BY <1>7 DEF fold
  <2>2. fold[{}] = job /\ fold[{1}] = Tell(fold[{1} \ {Max({1})}], <<object>>[Max({1})])
    BY <1>5, <2>1
  <2>3. fold[{1}] = Tell(job, object)
    BY <1>3, <1>5, <2>2
  <2> QED BY <2>3 DEF fold
<1> QED BY <1>1, <1>2, <1>8

\* What is told of an estimate: an object without a message is no state, and of the
\* states only that of the final pass has one.
LEMMA TellsNothing ==
  ASSUME NEW job, NEW object, object[2] = "newline"
  PROVE  Tell(job, object).eta = job.eta
<1>1. "newline" \notin Message /\ "version" \in Message /\ Fields["version"].state = None
  BY DEF Message, Fields
<1>2. MessageOf(object) = "version"
  BY <1>1, Zenon DEF MessageOf
<1> QED BY <1>1, <1>2 DEF Tell

\* ... and that of an object tells what its message says ...
LEMMA TellsMessage ==
  ASSUME NEW job, NEW m \in Message, NEW object, object[2] = m
  PROVE  /\ MessageOf(object) = m
         /\ Fields[m].state = None => Tell(job, object).eta = job.eta
         /\ Fields[m].state # None => Tell(job, object).eta = RemainingSeconds(m)
<1>1. MessageOf(object) = m
  BY Zenon DEF MessageOf
<1> QED BY <1>1 DEF Tell

\* ... of which the final pass alone has an estimate.
LEMMA OnlyFinal ==
  ASSUME NEW m \in Message, Fields[m].state # None
  PROVE  RemainingSeconds(m) = IF m = "final" THEN 7 ELSE None
<1>1. m \in {"final", "early", "warming", "unknown", "muxing", "version"}
  BY DEF Message, Fields
<1>2. CASE m = "final"
  <2>1. /\ Fields[m].state = "WORKING" /\ Fields[m].working = TRUE /\ Fields[m].eta = 7
        /\ Fields[m].hours = 0 /\ Fields[m].pass = 2
    BY <1>2 DEF Fields
  <2> QED BY <1>2, <2>1 DEF RemainingSeconds, PassCount
<1>3. CASE m = "early"
  <2>1. Fields[m].pass = 1
    BY <1>3 DEF Fields
  <2> QED BY <1>3, <2>1 DEF RemainingSeconds, PassCount
<1>4. CASE m = "warming"
  <2>1. Fields[m].hours = -1
    BY <1>4 DEF Fields
  <2> QED BY <1>4, <2>1 DEF RemainingSeconds
<1>5. CASE m = "unknown"
  <2>1. Fields[m].eta = -1
    BY <1>5 DEF Fields
  <2> QED BY <1>5, <2>1 DEF RemainingSeconds
<1>6. CASE m = "muxing"
  <2>1. Fields[m].state = "MUXING"
    BY <1>6 DEF Fields
  <2> QED BY <1>6, <2>1 DEF RemainingSeconds
<1>7. CASE m = "version"
  <2>1. Fields[m].state = None
    BY <1>7 DEF Fields
  <2> QED BY <2>1
<1> QED BY <1>1, <1>2, <1>3, <1>4, <1>5, <1>6, <1>7

\* One round of the loop: a line without a brace that closes is kept ...
LEMMA ReadsOn ==
  ASSUME NEW line, Read(line), ~Contains(line, "close")
  PROVE  buffer' = buffer \o line /\ report' = <<>> /\ eta' = eta /\ progress' = progress
<1>1. /\ report' = <<>> /\ buffer' = buffer \o line
      /\ eta' = FoldLeft(Tell, [eta |-> eta, progress |-> progress], <<>>).eta
      /\ progress' = FoldLeft(Tell, [eta |-> eta, progress |-> progress], <<>>).progress
  BY Zenon DEF Read
<1> QED BY <1>1, ToldNone

\* ... and one with it is looked through, with what was kept.
LEMMA ReadsObjects ==
  ASSUME NEW line, Read(line), Contains(line, "close"), NEW text, text = buffer \o line
  PROVE  /\ report' = Bound(text).objects
         /\ Bound(text).objects = <<>> => buffer' = Kept(text) /\ eta' = eta
         /\ \A object : Bound(text).objects = <<object>> =>
              buffer' = <<>> /\ eta' = Tell([eta |-> eta, progress |-> progress], object).eta
<1>1. /\ report' = Bound(text).objects
      /\ eta' = FoldLeft(Tell, [eta |-> eta, progress |-> progress], Bound(text).objects).eta
      /\ Bound(text).objects = <<>> => buffer' = Kept(text)
      /\ Bound(text).objects # <<>> => buffer' = <<>>
  BY Zenon DEF Read, Bound, ParseProgressObjects
<1>2. \A object : <<object>> # <<>>
  OBVIOUS
<1>3. ASSUME Bound(text).objects = <<>> PROVE eta' = eta
  <2> DEFINE job == [eta |-> eta, progress |-> progress]
  <2>1. job.eta = eta
    OBVIOUS
  <2> HIDE DEF job
  <2> QED BY <1>1, <1>3, <2>1, ToldNone DEF job
<1>4. ASSUME NEW object, Bound(text).objects = <<object>>
      PROVE  buffer' = <<>> /\ eta' = Tell([eta |-> eta, progress |-> progress], object).eta
  BY <1>1, <1>2, <1>4, ToldOne, Zenon
<1> QED BY <1>1, <1>3, <1>4, Zenon

-----------------------------------------------------------------------------
(* The invariant, and what the lines of the actions do to it.              *)

\* How much of what the buffer holds is known.
Mode == IF whole THEN "whole" ELSE IF clean THEN "clean" ELSE "dirty"

TypeInv ==
  /\ level \in 0..2 /\ message \in Message /\ rest \subseteq {"text", "nested"}
  /\ (level = 0 => rest = {}) /\ (level = 2 => "nested" \notin rest)
  /\ clean \in BOOLEAN /\ whole \in BOOLEAN /\ lost \in Nat /\ noise \in 0..MaxNoise
  /\ (last # None => last \in Message /\ Fields[last].state # None)
  /\ (whole => clean /\ level >= 1)

BufferInv == Held(buffer, level, message, Mode)

\* The mode is one of three.
LEMMA ModeIs ==
  ASSUME TypeInv
  PROVE  /\ Mode \in Modes
         /\ whole => Mode = "whole"
         /\ ~whole /\ clean => Mode = "clean"
         /\ ~whole /\ ~clean => Mode = "dirty"
BY Zenon DEF Mode, Modes

\* Inside an object a line that is kept changes nothing of it.
LEMMA InsideMode ==
  ASSUME TypeInv, whole' = whole, clean' = (clean \/ buffer' = <<>>)
  PROVE  /\ buffer' # <<>> => Mode' = Mode
         /\ buffer' = <<>> /\ ~whole => Mode' = "clean"
<1>1. clean \in BOOLEAN /\ whole \in BOOLEAN
  BY DEF TypeInv
<1>2. ASSUME buffer' # <<>> PROVE Mode' = Mode
  <2>1. whole' = whole /\ clean' = clean
    BY <1>1, <1>2, Zenon
  <2> QED BY <2>1 DEF Mode
<1>3. ASSUME buffer' = <<>>, ~whole PROVE Mode' = "clean"
  <2>1. ~whole' /\ clean'
    BY <1>3, Zenon
  <2> QED BY <2>1, Zenon DEF Mode
<1> QED BY <1>2, <1>3, Zenon

\* The characters of the lines.
LEMMA Chars ==
  /\ {"open", "close", "quote", "backslash", "newline", "o", "x"} \subseteq Char
  /\ Message \subseteq Char
  /\ "close" \notin Message
BY DEF Char, Message, Fields

\* The buffer is a sequence of characters.
LEMMA BufferIs ==
  ASSUME BufferInv
  PROVE  buffer \in Seq(Char) /\ Len(buffer) \in Nat
<1>1. buffer \in Seq(Char)
  BY Zenon DEF BufferInv, Held
<1> HIDE DEF Char
<1> QED BY <1>1

\* A line is what it is without its newline, and that.
LEMMA AppendIs ==
  ASSUME NEW T, NEW s \in Seq(T), NEW e \in T, NEW t \in Seq(T), Len(t) = Len(s) + 1,
         \A i \in 1..Len(s) : t[i] = s[i], t[Len(s) + 1] = e
  PROVE  Append(s, e) = t
<1> DEFINE r == Append(s, e)
<1>1. r \in Seq(T) /\ Len(s) \in Nat /\ Len(r) = Len(s) + 1 /\ (\A i \in 1..Len(s) : r[i] = s[i]) /\ r[Len(s) + 1] = e
  BY AppendProperties
<1> HIDE DEF r
<1>2. \A i \in 1..Len(r) : i \in 1..Len(s) \/ i = Len(s) + 1
  BY <1>1
<1>3. \A i \in 1..Len(r) : r[i] = t[i]
  BY <1>1, <1>2
<1>4. r = t
  BY <1>1, <1>3, SeqEqual
<1> QED BY <1>4 DEF r

\* So it is for a line of two characters ...
LEMMA AppendToTwo ==
  ASSUME NEW T, NEW z \in T, NEW c \in T
  PROVE  Append(<<c>>, z) = <<c, z>>
<1> DEFINE s == <<c>>
           t == <<c, z>>
<1>1. /\ s \in Seq(T) /\ t \in Seq(T) /\ Len(s) = 1 /\ Len(t) = 2
      /\ s[1] = c
      /\ t[1] = c /\ t[2] = z
  OBVIOUS
<1> HIDE DEF s, t
<1>2. Len(t) = Len(s) + 1 /\ (\A i \in 1..Len(s) : t[i] = s[i]) /\ t[Len(s) + 1] = z
  BY <1>1
<1>3. Append(s, z) = t
  BY <1>1, <1>2, AppendIs, Zenon
<1> QED BY <1>3 DEF s, t

\* ... of three characters ...
LEMMA AppendToThree ==
  ASSUME NEW T, NEW z \in T, NEW b \in T, NEW c \in T
  PROVE  Append(<<b, c>>, z) = <<b, c, z>>
<1> DEFINE s == <<b, c>>
           t == <<b, c, z>>
<1>1. /\ s \in Seq(T) /\ t \in Seq(T) /\ Len(s) = 2 /\ Len(t) = 3
      /\ s[1] = b /\ s[2] = c
      /\ t[1] = b /\ t[2] = c /\ t[3] = z
  OBVIOUS
<1> HIDE DEF s, t
<1>2. Len(t) = Len(s) + 1 /\ (\A i \in 1..Len(s) : t[i] = s[i]) /\ t[Len(s) + 1] = z
  BY <1>1
<1>3. Append(s, z) = t
  BY <1>1, <1>2, AppendIs, Zenon
<1> QED BY <1>3 DEF s, t

\* ... of four ...
LEMMA AppendToFour ==
  ASSUME NEW T, NEW z \in T, NEW b \in T, NEW c \in T, NEW d \in T
  PROVE  Append(<<b, c, d>>, z) = <<b, c, d, z>>
<1> DEFINE s == <<b, c, d>>
           t == <<b, c, d, z>>
<1>1. /\ s \in Seq(T) /\ t \in Seq(T) /\ Len(s) = 3 /\ Len(t) = 4
      /\ s[1] = b /\ s[2] = c /\ s[3] = d
      /\ t[1] = b /\ t[2] = c /\ t[3] = d /\ t[4] = z
  OBVIOUS
<1> HIDE DEF s, t
<1>2. Len(t) = Len(s) + 1 /\ (\A i \in 1..Len(s) : t[i] = s[i]) /\ t[Len(s) + 1] = z
  BY <1>1
<1>3. Append(s, z) = t
  BY <1>1, <1>2, AppendIs, Zenon
<1> QED BY <1>3 DEF s, t

\* ... and of six.
LEMMA AppendToSix ==
  ASSUME NEW T, NEW z \in T, NEW b \in T, NEW c \in T, NEW d \in T, NEW e \in T, NEW f \in T
  PROVE  Append(<<b, c, d, e, f>>, z) = <<b, c, d, e, f, z>>
<1> DEFINE s == <<b, c, d, e, f>>
           t == <<b, c, d, e, f, z>>
<1>1. /\ s \in Seq(T) /\ t \in Seq(T) /\ Len(s) = 5 /\ Len(t) = 6
      /\ s[1] = b /\ s[2] = c /\ s[3] = d /\ s[4] = e /\ s[5] = f
      /\ t[1] = b /\ t[2] = c /\ t[3] = d /\ t[4] = e /\ t[5] = f /\ t[6] = z
  OBVIOUS
<1> HIDE DEF s, t
<1>2. Len(t) = Len(s) + 1 /\ (\A i \in 1..Len(s) : t[i] = s[i]) /\ t[Len(s) + 1] = z
  BY <1>1
<1>3. Append(s, z) = t
  BY <1>1, <1>2, AppendIs, Zenon
<1> QED BY <1>3 DEF s, t

\* What a line does that has no brace that closes ...
LEMMA KeptTwo ==
  ASSUME BufferInv, NEW c \in Char, c # "close",
         PrintLine(<<c>>)
  PROVE  /\ TwoMore(buffer, buffer', Len(buffer), c)
         /\ Len(buffer') = Len(buffer) + 2 /\ buffer' # <<>>
         /\ report' = <<>> /\ eta' = eta
<1> DEFINE line == <<c, "newline">>
<1>1. Append(<<c>>, "newline") = line
  <2>1. "newline" \in Char
    BY Chars
  <2> HIDE DEF Char
  <2> QED BY <2>1, AppendToTwo
<1>2. ~Contains(line, "close")
  BY DEF Contains
<1> HIDE DEF line
<1>3. buffer' = buffer \o line /\ report' = <<>> /\ eta' = eta
  <2>1. Read(line)
    BY <1>1, Zenon DEF PrintLine
  <2> QED BY <1>2, <2>1, ReadsOn
<1>4. TwoMore(buffer, buffer', Len(buffer), c)
  BY <1>3, BufferIs, LineTwo, Zenon DEF line
<1>5. buffer' \in Seq(Char) /\ Len(buffer') = Len(buffer) + 2 /\ Len(buffer) \in Nat
  BY <1>4, Zenon DEF TwoMore
<1>6. buffer' # <<>>
  <2>1. Len(buffer') # Len(<<>>)
    BY <1>5
  <2> QED BY <2>1
<1> QED BY <1>3, <1>4, <1>5, <1>6

\* ... of two characters ...
LEMMA KeptThree ==
  ASSUME BufferInv, NEW b \in Char, NEW c \in Char, b # "close", c # "close",
         PrintLine(<<b, c>>)
  PROVE  /\ ThreeMore(buffer, buffer', Len(buffer), b, c)
         /\ Len(buffer') = Len(buffer) + 3 /\ buffer' # <<>>
         /\ report' = <<>> /\ eta' = eta
<1> DEFINE line == <<b, c, "newline">>
<1>1. Append(<<b, c>>, "newline") = line
  <2>1. "newline" \in Char
    BY Chars
  <2> HIDE DEF Char
  <2> QED BY <2>1, AppendToThree
<1>2. ~Contains(line, "close")
  BY DEF Contains
<1> HIDE DEF line
<1>3. buffer' = buffer \o line /\ report' = <<>> /\ eta' = eta
  <2>1. Read(line)
    BY <1>1, Zenon DEF PrintLine
  <2> QED BY <1>2, <2>1, ReadsOn
<1>4. ThreeMore(buffer, buffer', Len(buffer), b, c)
  BY <1>3, BufferIs, LineThree, Zenon DEF line
<1>5. buffer' \in Seq(Char) /\ Len(buffer') = Len(buffer) + 3 /\ Len(buffer) \in Nat
  BY <1>4, Zenon DEF ThreeMore
<1>6. buffer' # <<>>
  <2>1. Len(buffer') # Len(<<>>)
    BY <1>5
  <2> QED BY <2>1
<1> QED BY <1>3, <1>4, <1>5, <1>6

\* ... of three.
LEMMA KeptFour ==
  ASSUME BufferInv, NEW b \in Char, NEW c \in Char, NEW d \in Char, b # "close", c # "close", d # "close",
         PrintLine(<<b, c, d>>)
  PROVE  /\ FourMore(buffer, buffer', Len(buffer), b, c, d)
         /\ Len(buffer') = Len(buffer) + 4 /\ buffer' # <<>>
         /\ report' = <<>> /\ eta' = eta
<1> DEFINE line == <<b, c, d, "newline">>
<1>1. Append(<<b, c, d>>, "newline") = line
  <2>1. "newline" \in Char
    BY Chars
  <2> HIDE DEF Char
  <2> QED BY <2>1, AppendToFour
<1>2. ~Contains(line, "close")
  BY DEF Contains
<1> HIDE DEF line
<1>3. buffer' = buffer \o line /\ report' = <<>> /\ eta' = eta
  <2>1. Read(line)
    BY <1>1, Zenon DEF PrintLine
  <2> QED BY <1>2, <2>1, ReadsOn
<1>4. FourMore(buffer, buffer', Len(buffer), b, c, d)
  BY <1>3, BufferIs, LineFour, Zenon DEF line
<1>5. buffer' \in Seq(Char) /\ Len(buffer') = Len(buffer) + 4 /\ Len(buffer) \in Nat
  BY <1>4, Zenon DEF FourMore
<1>6. buffer' # <<>>
  <2>1. Len(buffer') # Len(<<>>)
    BY <1>5
  <2> QED BY <2>1
<1> QED BY <1>3, <1>4, <1>5, <1>6

\* ... and one that has: the text is dropped, when it holds an object or is too
\* long, or kept.
Looked(text) ==
  /\ report' = Bound(text).objects
  /\ Bound(text).objects = <<>> =>
       /\ eta' = eta
       /\ \/ buffer' = text /\ Len(buffer') <= MaxBuffer /\ buffer' # <<>>
          \/ buffer' = <<>> /\ Len(text) > MaxBuffer
  /\ \A object : Bound(text).objects = <<object>> =>
       buffer' = <<>> /\ eta' = Tell([eta |-> eta, progress |-> progress], object).eta

\* One with a brace that closes is looked at.
LEMMA LooksAt ==
  ASSUME BufferInv, NEW line \in Seq(Char), Len(line) > 0, Contains(line, "close"), Read(line)
  PROVE  Looked(buffer \o line)
<1> DEFINE text == buffer \o line
<1>1. text \in Seq(Char) /\ Len(text) > 0 /\ Len(text) \in Nat
  <2>1. buffer \in Seq(Char)
    BY BufferIs
  <2> HIDE DEF Char
  <2> QED BY <2>1
<1>2. text # <<>>
  <2>1. Len(text) # Len(<<>>)
    BY <1>1
  <2> HIDE DEF text
  <2> QED BY <2>1
<1>3. /\ report' = Bound(text).objects
      /\ Bound(text).objects = <<>> => buffer' = Kept(text) /\ eta' = eta
      /\ \A object : Bound(text).objects = <<object>> =>
           buffer' = <<>> /\ eta' = Tell([eta |-> eta, progress |-> progress], object).eta
  BY ReadsObjects, Zenon
<1> HIDE DEF text
<1>4. \/ Kept(text) = text /\ Len(text) <= MaxBuffer
      \/ Kept(text) = <<>> /\ Len(text) > MaxBuffer
  BY <1>1, StreamAssumption DEF Kept
<1>5. Looked(text)
  BY <1>2, <1>3, <1>4, Zenon DEF Looked
<1> QED BY <1>5, Zenon DEF text

\* The line of a brace ...
LEMMA LookedTwo ==
  ASSUME BufferInv, NEW c \in Char, c = "close",
         PrintLine(<<c>>)
  PROVE  \E text : /\ TwoMore(buffer, text, Len(buffer), c) /\ Looked(text)
                   /\ Len(text) = Len(buffer) + 2
<1> DEFINE line == <<c, "newline">>
<1>1. Append(<<c>>, "newline") = line
  <2>1. "newline" \in Char
    BY Chars
  <2> HIDE DEF Char
  <2> QED BY <2>1, AppendToTwo
<1>2. line \in Seq(Char) /\ Len(line) > 0 /\ Contains(line, "close")
  <2>1. line \in Seq(Char) /\ Len(line) = 2 /\ line[1] = "close" /\ 1 \in 1..2
    <3>1. "newline" \in Char
      BY Chars
    <3> HIDE DEF Char
    <3> QED BY <3>1
  <2> HIDE DEF line, Char
  <2> QED BY <2>1 DEF Contains
<1> HIDE DEF line
<1>3. Looked(buffer \o line)
  <2>1. Read(line)
    BY <1>1, Zenon DEF PrintLine
  <2> QED BY <1>2, <2>1, LooksAt
<1>4. TwoMore(buffer, buffer \o line, Len(buffer), c)
  BY BufferIs, LineTwo, Zenon DEF line
<1>5. Len(buffer \o line) = Len(buffer) + 2
  BY <1>4, Zenon DEF TwoMore
<1> QED BY <1>3, <1>4, <1>5, Zenon

\* ... of a pair of them ...
LEMMA LookedFour ==
  ASSUME BufferInv, NEW b \in Char, NEW c \in Char, NEW d \in Char, d = "close",
         PrintLine(<<b, c, d>>)
  PROVE  \E text : /\ FourMore(buffer, text, Len(buffer), b, c, d) /\ Looked(text)
                   /\ Len(text) = Len(buffer) + 4
<1> DEFINE line == <<b, c, d, "newline">>
<1>1. Append(<<b, c, d>>, "newline") = line
  <2>1. "newline" \in Char
    BY Chars
  <2> HIDE DEF Char
  <2> QED BY <2>1, AppendToFour
<1>2. line \in Seq(Char) /\ Len(line) > 0 /\ Contains(line, "close")
  <2>1. line \in Seq(Char) /\ Len(line) = 4 /\ line[3] = "close" /\ 3 \in 1..4
    <3>1. "newline" \in Char
      BY Chars
    <3> HIDE DEF Char
    <3> QED BY <3>1
  <2> HIDE DEF line, Char
  <2> QED BY <2>1 DEF Contains
<1> HIDE DEF line
<1>3. Looked(buffer \o line)
  <2>1. Read(line)
    BY <1>1, Zenon DEF PrintLine
  <2> QED BY <1>2, <2>1, LooksAt
<1>4. FourMore(buffer, buffer \o line, Len(buffer), b, c, d)
  BY BufferIs, LineFour, Zenon DEF line
<1>5. Len(buffer \o line) = Len(buffer) + 4
  BY <1>4, Zenon DEF FourMore
<1> QED BY <1>3, <1>4, <1>5, Zenon

\* ... and of a string with one.
LEMMA LookedSix ==
  ASSUME BufferInv, NEW b \in Char, NEW c \in Char, NEW d \in Char, NEW e \in Char, NEW f \in Char, e = "close",
         PrintLine(<<b, c, d, e, f>>)
  PROVE  \E text : /\ SixMore(buffer, text, Len(buffer), b, c, d, e, f) /\ Looked(text)
                   /\ Len(text) = Len(buffer) + 6
<1> DEFINE line == <<b, c, d, e, f, "newline">>
<1>1. Append(<<b, c, d, e, f>>, "newline") = line
  <2>1. "newline" \in Char
    BY Chars
  <2> HIDE DEF Char
  <2> QED BY <2>1, AppendToSix
<1>2. line \in Seq(Char) /\ Len(line) > 0 /\ Contains(line, "close")
  <2>1. line \in Seq(Char) /\ Len(line) = 6 /\ line[4] = "close" /\ 4 \in 1..6
    <3>1. "newline" \in Char
      BY Chars
    <3> HIDE DEF Char
    <3> QED BY <3>1
  <2> HIDE DEF line, Char
  <2> QED BY <2>1 DEF Contains
<1> HIDE DEF line
<1>3. Looked(buffer \o line)
  <2>1. Read(line)
    BY <1>1, Zenon DEF PrintLine
  <2> QED BY <1>2, <2>1, LooksAt
<1>4. SixMore(buffer, buffer \o line, Len(buffer), b, c, d, e, f)
  BY BufferIs, LineSix, Zenon DEF line
<1>5. Len(buffer \o line) = Len(buffer) + 6
  BY <1>4, Zenon DEF SixMore
<1> QED BY <1>3, <1>4, <1>5, Zenon

-----------------------------------------------------------------------------
(* How long the buffer is, and the steps.                                  *)

\* The characters of the object that are printed, but for its first line.
Used == (IF "nested" \in rest THEN 0 ELSE 3) + (IF "text" \in rest THEN 0 ELSE 6)
          + (IF level = 2 \/ "nested" \in rest THEN 0 ELSE 2)

\* How long the buffer is: behind noise that spoils it at least five characters for
\* every object that was lost, and otherwise no more than the lines since then.
LossInv ==
  /\ ~clean => /\ 5 * lost + 3 <= MaxBuffer
               /\ 5 * lost + 3 + (IF level = 0 THEN 0 ELSE 3) <= Len(buffer)
  /\ level >= 1 /\ ~whole => 5 * lost + 3 <= MaxBuffer
  /\ 5 * lost <= MaxBuffer + 2
  /\ clean /\ level = 0 => Len(buffer) <= 8 + 4 * noise
  /\ whole => Len(buffer) <= 8 + 4 * MaxNoise + 3 + Used
  /\ clean /\ ~whole /\ level >= 1 =>
       /\ "text" \in rest => level = 1 /\ "nested" \notin rest /\ Len(buffer) = 0
       /\ "text" \notin rest =>
            Len(buffer) <= IF level = 2 THEN 3 ELSE IF "nested" \in rest THEN 0 ELSE 6

StreamInv == TypeInv /\ BufferInv /\ LossInv /\ EtaIsCurrent

\* What the steps inside an object have in common, when the buffer is kept, ...
LEMMA InsideKept ==
  ASSUME StreamInv, buffer' # <<>>, Len(buffer') \in Nat,
         whole' = whole, clean' = (clean \/ buffer' = <<>>)
  PROVE  whole' = whole /\ clean' = clean /\ Mode' = Mode
<1>1. clean \in BOOLEAN /\ whole \in BOOLEAN /\ TypeInv
  BY DEF StreamInv, TypeInv
<1>2. Mode' = Mode
  BY <1>1, InsideMode, Zenon
<1> QED BY <1>1, <1>2, Zenon

\* ... and when it is emptied.
LEMMA InsideDropped ==
  ASSUME StreamInv, ~whole, buffer' = <<>>,
         whole' = whole, clean' = (clean \/ buffer' = <<>>)
  PROVE  ~whole' /\ whole' \in BOOLEAN /\ clean' /\ clean' \in BOOLEAN /\ BufferInv' /\ Len(buffer') = 0
<1>1. clean \in BOOLEAN /\ whole \in BOOLEAN /\ TypeInv
  BY DEF StreamInv, TypeInv
<1>2. Mode' = "clean"
  BY <1>1, InsideMode, Zenon
<1>3. Held(buffer', level', message', "clean")
  BY HeldEmpty
<1>4. ~whole' /\ clean' /\ whole' \in BOOLEAN /\ clean' \in BOOLEAN
  BY <1>1, Zenon
<1>5. BufferInv'
  BY <1>2, <1>3, Zenon DEF BufferInv
<1>6. Len(buffer') = 0
  OBVIOUS
<1> QED BY <1>4, <1>5, <1>6

\* A step that reads no object changes no estimate.
LEMMA SameEta ==
  ASSUME StreamInv, eta' = eta, last' = last
  PROVE  EtaIsCurrent'
BY Zenon DEF StreamInv, EtaIsCurrent

\* What the steps use of the invariant.
LEMMA BufferNat ==
  ASSUME StreamInv
  PROVE  /\ TypeInv /\ BufferInv /\ LossInv /\ EtaIsCurrent
         /\ Len(buffer) \in Nat /\ Mode \in Modes /\ Held(buffer, level, message, Mode)
<1>1. TypeInv /\ BufferInv /\ LossInv /\ EtaIsCurrent
  BY Zenon DEF StreamInv
<1>2. Len(buffer) \in Nat /\ Mode \in Modes
  BY <1>1, BufferIs, ModeIs, Zenon
<1>3. Held(buffer, level, message, Mode)
  BY <1>1, Zenon DEF BufferInv
<1> QED BY <1>1, <1>2, <1>3, Zenon

\* The first line of an object keeps the invariant ...
LEMMA BeginStep ==
  ASSUME StreamInv, NEW m \in Messages, Begin(m)
  PROVE  StreamInv'
<1> USE StreamAssumption, CapAssumption
<1>1. /\ TypeInv /\ BufferInv /\ LossInv
      /\ Len(buffer) \in Nat /\ Mode \in Modes /\ Held(buffer, level, message, Mode)
  BY BufferNat, Zenon
<1>2. /\ level = 0 /\ level' = 1 /\ message' = m /\ whole' = clean /\ noise' = 0
      /\ clean' = clean /\ lost' = lost /\ last' = last
      /\ "text" \in rest' /\ rest' \subseteq {"text", "nested"}
      /\ PrintLine(<<"open", m>>)
  BY DEF Begin
<1>3. m \in Message /\ "open" \in Char /\ m \in Char /\ m # "close" /\ "open" # "close"
  BY Chars
<1>4. /\ ThreeMore(buffer, buffer', Len(buffer), "open", m)
      /\ Len(buffer') = Len(buffer) + 3 /\ buffer' # <<>> /\ report' = <<>> /\ eta' = eta
  BY <1>1, <1>2, <1>3, KeptThree, Zenon
<1>5. /\ level \in 0..2 /\ clean \in BOOLEAN /\ whole \in BOOLEAN /\ lost \in Nat /\ noise \in 0..MaxNoise
      /\ ~whole /\ (last # None => last \in Message /\ Fields[last].state # None)
  BY <1>1, <1>2 DEF TypeInv
<1>6. TypeInv'
  <2>1. clean' \in BOOLEAN /\ whole' \in BOOLEAN /\ (whole' => clean') /\ level' >= 1
    BY <1>2, <1>5
  <2> QED BY <1>2, <1>3, <1>5, <2>1 DEF TypeInv
<1>7. Mode' \in {"whole", "dirty"} /\ (Mode' = "whole" <=> Mode = "clean")
  BY <1>2, <1>5, Zenon DEF Mode
<1>8. BufferInv'
  <2>1. Held(buffer, 0, message, Mode)
    BY <1>1, <1>2, Zenon
  <2>2. Held(buffer', 1, m, Mode')
    BY <1>1, <1>3, <1>4, <1>7, <2>1, BeginHeld
  <2> QED BY <1>2, <2>2, Zenon DEF BufferInv
<1>9. LossInv'
  <2>1. CASE clean
    <3>1. clean' /\ whole' /\ Len(buffer) <= 8 + 4 * noise
      BY <1>1, <1>2, <2>1 DEF LossInv
    <3>2. Used' >= 0 /\ Used' \in Int
      BY DEF Used
    <3> QED BY <1>1, <1>2, <1>4, <1>5, <3>1, <3>2 DEF LossInv
  <2>2. CASE ~clean
    <3>1. ~clean' /\ ~whole'
      BY <1>2, <2>2
    <3> QED BY <1>1, <1>2, <1>4, <1>5, <2>2, <3>1 DEF LossInv
  <2> QED BY <1>5, <2>1, <2>2
<1>10. EtaIsCurrent'
  BY <1>2, <1>4, SameEta, Zenon
<1> QED BY <1>6, <1>8, <1>9, <1>10, Zenon DEF StreamInv

\* ... that of a nested object ...
LEMMA NestStep ==
  ASSUME StreamInv, Nest
  PROVE  StreamInv'
<1> USE StreamAssumption, CapAssumption
<1>1. /\ TypeInv /\ BufferInv /\ LossInv
      /\ Len(buffer) \in Nat /\ Mode \in Modes /\ Held(buffer, level, message, Mode)
  BY BufferNat, Zenon
<1>2. /\ level = 1 /\ level' = 2 /\ "nested" \in rest /\ rest' = rest \ {"nested"}
      /\ whole' = whole /\ clean' = (clean \/ buffer' = <<>>)
      /\ message' = message /\ noise' = noise /\ lost' = lost /\ last' = last
      /\ PrintLine(<<"o", "open">>)
  BY Zenon DEF Nest, Inside
<1>3. "open" \in Char /\ "o" \in Char /\ "o" # "close" /\ "open" # "close"
  BY Chars
<1>4. /\ ThreeMore(buffer, buffer', Len(buffer), "o", "open")
      /\ Len(buffer') = Len(buffer) + 3 /\ buffer' # <<>> /\ report' = <<>> /\ eta' = eta
  BY <1>1, <1>2, <1>3, KeptThree, Zenon
<1>5. Len(buffer') \in Nat
  BY <1>1, <1>4
<1>6. whole' = whole /\ clean' = clean /\ Mode' = Mode
  BY <1>2, <1>4, <1>5, InsideKept, Zenon
<1>7. TypeInv'
  <2>1. rest' \subseteq {"text", "nested"} /\ "nested" \notin rest'
    BY <1>1, <1>2 DEF TypeInv
  <2> QED BY <1>1, <1>2, <1>6, <2>1 DEF TypeInv
<1>8. BufferInv'
  <2>1. Held(buffer, 1, message, Mode)
    BY <1>1, <1>2, Zenon
  <2>2. Held(buffer', 2, message, Mode)
    BY <1>1, <1>4, <2>1, NestHeld
  <2> QED BY <1>2, <1>6, <2>2, Zenon DEF BufferInv
<1>9. LossInv'
  <2>1. lost \in Nat /\ ("text" \in rest' <=> "text" \in rest) /\ "nested" \notin rest'
    BY <1>1, <1>2 DEF TypeInv
  <2>2. Used' = Used + 3
    BY <1>2, <2>1 DEF Used
  <2>3. Used \in Int
    BY DEF Used
  <2> QED BY <1>1, <1>2, <1>4, <1>6, <2>1, <2>2, <2>3 DEF LossInv
<1>10. EtaIsCurrent'
  BY <1>2, <1>4, SameEta, Zenon
<1> QED BY <1>7, <1>8, <1>9, <1>10, Zenon DEF StreamInv

\* What is held has no object yet that the scan would find.
LEMMA HeldObjects ==
  ASSUME NEW text, NEW lev, NEW m, NEW mode, Held(text, lev, m, mode)
  PROVE  Bound(text).objects = <<>>
BY Zenon DEF Held, HeldBy

\* An object that was whole when its last but one brace, or its text, was read is
\* never dropped: it fits.
LEMMA WholeFits ==
  ASSUME StreamInv, whole
  PROVE  /\ "text" \in rest => Len(buffer) + 6 <= MaxBuffer
         /\ level = 2 => Len(buffer) + 2 <= MaxBuffer
<1>1. /\ TypeInv /\ LossInv /\ Len(buffer) \in Nat
  BY BufferNat, Zenon
<1>2. Len(buffer) <= 8 + 4 * MaxNoise + 3 + Used
  BY <1>1 DEF LossInv
<1>3. /\ "text" \in rest => Used <= 5
      /\ level = 2 => Used <= 9
      /\ Used \in Int
  BY DEF Used
<1> QED BY <1>1, <1>2, <1>3, StreamAssumption, CapAssumption

\* The step of a text, by whatever line it has.
LEMMA TextKept ==
  ASSUME StreamInv, Text, NEW k \in {4, 6}, Len(buffer') = Len(buffer) + k, buffer' # <<>>,
         whole' = whole, clean' = (clean \/ buffer' = <<>>),
         message' = message, noise' = noise, lost' = lost, last' = last,
         Held(buffer', level, message, Mode), eta' = eta
  PROVE  StreamInv'
<1>1. /\ TypeInv /\ BufferInv /\ LossInv /\ Len(buffer) \in Nat
  BY BufferNat, Zenon
<1>2. level \in 1..2 /\ "text" \in rest /\ rest' = rest \ {"text"} /\ level' = level
  BY <1>1 DEF Text, TypeInv
<1>3. Len(buffer') \in Nat
  BY <1>1
<1>4. whole' = whole /\ clean' = clean /\ Mode' = Mode
  BY <1>3, InsideKept, Zenon
<1>5. TypeInv'
  <2>1. rest' \subseteq {"text", "nested"} /\ ("nested" \in rest' <=> "nested" \in rest)
    BY <1>1, <1>2 DEF TypeInv
  <2> QED BY <1>1, <1>2, <1>4, <2>1 DEF TypeInv
<1>6. BufferInv'
  BY <1>2, <1>4, Zenon DEF BufferInv
<1>7. LossInv'
  <2>1. lost \in Nat /\ ("nested" \in rest' <=> "nested" \in rest) /\ "text" \notin rest'
    BY <1>1, <1>2 DEF TypeInv
  <2>2. Used' = Used + 6
    BY <1>2, <2>1 DEF Used
  <2>3. Used \in Int /\ k \in Int /\ 4 <= k /\ k <= 6
    BY DEF Used
  <2>4. /\ ~clean => 5 * lost + 3 <= MaxBuffer /\ 5 * lost + 3 + 3 <= Len(buffer)
        /\ ~whole => 5 * lost + 3 <= MaxBuffer
        /\ 5 * lost <= MaxBuffer + 2
        /\ whole => Len(buffer) <= 8 + 4 * MaxNoise + 3 + Used
        /\ clean /\ ~whole => level = 1 /\ "nested" \notin rest /\ Len(buffer) = 0
    BY <1>1, <1>2 DEF LossInv
  <2> HIDE DEF Used
  <2>5. whole => Len(buffer') <= 8 + 4 * MaxNoise + 3 + Used'
    BY <1>1, <2>2, <2>3, <2>4, StreamAssumption
  <2>6. ~clean => 5 * lost + 3 + 3 <= Len(buffer')
    BY <1>1, <2>1, <2>3, <2>4
  <2>7. clean /\ ~whole => Len(buffer') <= 6
    BY <1>1, <2>3, <2>4
  <2> QED BY <1>2, <1>4, <2>1, <2>4, <2>5, <2>6, <2>7 DEF LossInv
<1>8. EtaIsCurrent'
  BY SameEta, Zenon
<1> QED BY <1>5, <1>6, <1>7, <1>8, Zenon DEF StreamInv

\* A step inside an object that lost its beginning before, or loses it now.
LEMMA Dropped ==
  ASSUME StreamInv, ~whole, level \in 1..2, level' \in 1..2, rest' \subseteq rest,
         level' = 2 => "nested" \notin rest,
         "text" \in rest' => level' = 1 /\ "nested" \notin rest',
         buffer' = <<>>, eta' = eta,
         whole' = whole, clean' = (clean \/ buffer' = <<>>),
         message' = message, noise' = noise, lost' = lost, last' = last
  PROVE  StreamInv'
<1>1. /\ TypeInv /\ BufferInv /\ LossInv /\ Len(buffer) \in Nat
  BY BufferNat, Zenon
<1>2. ~whole' /\ whole' \in BOOLEAN /\ clean' /\ clean' \in BOOLEAN /\ BufferInv' /\ Len(buffer') = 0
  BY InsideDropped, Zenon
<1>3. TypeInv'
  <2>1. rest' \subseteq {"text", "nested"} /\ (level' = 2 => "nested" \notin rest')
    BY <1>1 DEF TypeInv
  <2> QED BY <1>1, <1>2, <2>1 DEF TypeInv
<1>4. LossInv'
  <2>1. lost \in Nat
    BY <1>1 DEF TypeInv
  <2>2. 5 * lost + 3 <= MaxBuffer /\ 5 * lost <= MaxBuffer + 2
    BY <1>1 DEF LossInv
  <2> QED BY <1>2, <2>1, <2>2, StreamAssumption DEF LossInv
<1>5. EtaIsCurrent'
  BY SameEta, Zenon
<1> QED BY <1>2, <1>3, <1>4, <1>5, Zenon DEF StreamInv

\* ... a string, with whichever text ...
LEMMA TextStep ==
  ASSUME StreamInv, Text
  PROVE  StreamInv'
<1>1. /\ TypeInv /\ BufferInv /\ LossInv
      /\ Len(buffer) \in Nat /\ Mode \in Modes /\ Held(buffer, level, message, Mode)
  BY BufferNat, Zenon
<1>2. /\ level \in 1..2 /\ level \in 0..2 /\ "text" \in rest /\ rest' = rest \ {"text"} /\ level' = level
  BY <1>1 DEF Text, TypeInv
<1>3. "open" \in Char /\ "quote" \in Char /\ "backslash" \in Char /\ "close" \in Char
  BY Chars
<1>4. "open" # "close" /\ "quote" # "close"
  OBVIOUS
<1>5. PICK t \in Texts : Inside(t)
  BY Zenon DEF Text
<1>6. /\ PrintLine(t)
      /\ whole' = whole /\ clean' = (clean \/ buffer' = <<>>)
      /\ message' = message /\ noise' = noise /\ lost' = lost /\ last' = last
  BY <1>5, Zenon DEF Inside
<1>7. CASE t = <<"quote", "open", "quote">>
  <2>1. PrintLine(<<"quote", "open", "quote">>)
    BY <1>6, <1>7, Zenon
  <2>2. /\ FourMore(buffer, buffer', Len(buffer), "quote", "open", "quote")
        /\ Len(buffer') = Len(buffer) + 4 /\ buffer' # <<>> /\ report' = <<>> /\ eta' = eta
    BY <1>1, <1>3, <1>4, <2>1, KeptFour, Zenon
  <2>3. Held(buffer', level, message, Mode)
    BY <1>1, <1>2, <2>2, BraceTextHeld
  <2>4. 4 \in {4, 6}
    OBVIOUS
  <2> QED BY <1>6, <2>2, <2>3, <2>4, TextKept, Zenon
<1>8. CASE t = <<"quote", "backslash", "quote", "close", "quote">>
  <2>1. PrintLine(<<"quote", "backslash", "quote", "close", "quote">>)
    BY <1>6, <1>8, Zenon
  <2>2. PICK text :
          /\ SixMore(buffer, text, Len(buffer), "quote", "backslash", "quote", "close", "quote")
          /\ Looked(text) /\ Len(text) = Len(buffer) + 6
    BY <1>1, <1>3, <2>1, LookedSix, Zenon
  <2>3. Held(text, level, message, Mode)
    BY <1>1, <1>2, <2>2, QuoteTextHeld
  <2>4. /\ eta' = eta
        /\ \/ buffer' = text /\ Len(buffer') <= MaxBuffer /\ buffer' # <<>>
           \/ buffer' = <<>> /\ Len(text) > MaxBuffer
    BY <2>2, <2>3, HeldObjects, Zenon DEF Looked
  <2>5. CASE buffer' = text /\ buffer' # <<>>
    <3>1. 6 \in {4, 6}
      OBVIOUS
    <3>2. Len(buffer') = Len(buffer) + 6 /\ Held(buffer', level, message, Mode)
      BY <2>2, <2>3, <2>5, Zenon
    <3> QED BY <1>6, <2>4, <2>5, <3>1, <3>2, TextKept, Zenon
  <2>6. CASE buffer' = <<>> /\ Len(text) > MaxBuffer
    <3>1. ~whole
      BY <1>1, <1>2, <2>2, <2>6, WholeFits, StreamAssumption
    <3>2. level' \in 1..2 /\ rest' \subseteq rest /\ "text" \notin rest'
      BY <1>2
    <3>3. level' = 2 => "nested" \notin rest
      BY <1>1, <1>2 DEF TypeInv
    <3> QED BY <1>2, <1>6, <2>4, <2>6, <3>1, <3>2, <3>3, Dropped, Zenon
  <2> QED BY <2>4, <2>5, <2>6, Zenon
<1> QED BY <1>7, <1>8, Zenon DEF Texts

\* ... the last brace of a nested object, which may be found alone ...
LEMMA UnnestStep ==
  ASSUME StreamInv, Unnest
  PROVE  StreamInv'
<1>1. /\ TypeInv /\ BufferInv /\ LossInv
      /\ Len(buffer) \in Nat /\ Mode \in Modes /\ Held(buffer, level, message, Mode)
  BY BufferNat, Zenon
<1>2. /\ level = 2 /\ level' = 1 /\ rest' = rest
      /\ PrintLine(<<"close">>)
      /\ whole' = whole /\ clean' = (clean \/ buffer' = <<>>)
      /\ message' = message /\ noise' = noise /\ lost' = lost /\ last' = last
  BY Zenon DEF Unnest, Inside
<1>3. "nested" \notin rest
  BY <1>1, <1>2 DEF TypeInv
<1>4. level \in 1..2 /\ level' \in 1..2 /\ rest' \subseteq rest /\ ~(level' = 2) /\ "nested" \notin rest'
  BY <1>2, <1>3
<1>5. PICK text : /\ TwoMore(buffer, text, Len(buffer), "close") /\ Looked(text)
                  /\ Len(text) = Len(buffer) + 2
  <2>1. "close" \in Char
    BY Chars
  <2> QED BY <1>1, <1>2, <2>1, LookedTwo, Zenon
<1>6. \/ Bound(text).objects = <<>> /\ Held(text, 1, message, Mode)
      \/ /\ Mode # "whole"
         /\ \E object : Bound(text).objects = <<object>> /\ object[2] = "newline"
  <2>1. Held(buffer, 2, message, Mode)
    BY <1>1, <1>2, Zenon
  <2> QED BY <1>1, <1>5, <2>1, UnnestHeld
<1>7. CASE Bound(text).objects = <<>> /\ Held(text, 1, message, Mode) /\ buffer' = text /\ buffer' # <<>>
  <2>1. eta' = eta
    BY <1>5, <1>7, Zenon DEF Looked
  <2>2. Len(buffer') = Len(buffer) + 2
    BY <1>5, <1>7, Zenon
  <2>3. whole' = whole /\ clean' = clean /\ Mode' = Mode
    <3>1. Len(buffer') \in Nat
      BY <1>1, <2>2
    <3> QED BY <1>2, <1>7, <3>1, InsideKept, Zenon
  <2>4. TypeInv'
    BY <1>1, <1>2, <1>3, <2>3 DEF TypeInv
  <2>5. BufferInv'
    BY <1>2, <1>7, <2>3, Zenon DEF BufferInv
  <2>6. LossInv'
    <3>1. lost \in Nat
      BY <1>1 DEF TypeInv
    <3>2. Used' = Used + 2
      BY <1>2, <1>3 DEF Used
    <3>3. Used \in Int
      BY DEF Used
    <3>4. /\ ~clean => 5 * lost + 3 <= MaxBuffer /\ 5 * lost + 3 + 3 <= Len(buffer)
          /\ ~whole => 5 * lost + 3 <= MaxBuffer
          /\ 5 * lost <= MaxBuffer + 2
          /\ whole => Len(buffer) <= 8 + 4 * MaxNoise + 3 + Used
          /\ clean /\ ~whole => "text" \notin rest /\ Len(buffer) <= 3
      BY <1>1, <1>2 DEF LossInv
    <3> HIDE DEF Used
    <3>5. whole => Len(buffer') <= 8 + 4 * MaxNoise + 3 + Used'
      BY <1>1, <2>2, <3>2, <3>3, <3>4, StreamAssumption
    <3>6. ~clean => 5 * lost + 3 + 3 <= Len(buffer')
      BY <1>1, <2>2, <3>1, <3>4
    <3>7. clean /\ ~whole => Len(buffer') <= 6
      BY <1>1, <2>2, <3>4
    <3> QED BY <1>2, <1>3, <2>3, <3>1, <3>4, <3>5, <3>6, <3>7 DEF LossInv
  <2>7. EtaIsCurrent'
    BY <1>2, <2>1, SameEta, Zenon
  <2> QED BY <2>4, <2>5, <2>6, <2>7, Zenon DEF StreamInv
<1>8. CASE Bound(text).objects = <<>> /\ buffer' = <<>> /\ Len(text) > MaxBuffer
  <2>1. eta' = eta
    BY <1>5, <1>8, Zenon DEF Looked
  <2>2. ~whole
    BY <1>1, <1>2, <1>5, <1>8, WholeFits, StreamAssumption
  <2> QED BY <1>2, <1>3, <1>4, <1>8, <2>1, <2>2, Dropped, Zenon
<1>9. CASE Mode # "whole" /\ \E object : Bound(text).objects = <<object>> /\ object[2] = "newline"
  <2>1. PICK object : Bound(text).objects = <<object>> /\ object[2] = "newline"
    BY <1>9, Zenon
  <2>2. buffer' = <<>> /\ eta' = Tell([eta |-> eta, progress |-> progress], object).eta
    BY <1>5, <2>1, Zenon DEF Looked
  <2>3. eta' = eta
    <3>1. Tell([eta |-> eta, progress |-> progress], object).eta = [eta |-> eta, progress |-> progress].eta
      BY <2>1, TellsNothing, Zenon
    <3> QED BY <2>2, <3>1
  <2>4. ~whole
    BY <1>9, Zenon DEF Mode
  <2> QED BY <1>2, <1>3, <1>4, <2>2, <2>3, <2>4, Dropped, Zenon
<1>10. \/ Bound(text).objects # <<>>
       \/ buffer' = text /\ buffer' # <<>>
       \/ buffer' = <<>> /\ Len(text) > MaxBuffer
  BY <1>5, Zenon DEF Looked
<1> QED BY <1>6, <1>7, <1>8, <1>9, <1>10, Zenon

\* What the last line of an object comes to.
LEMMA EndOutcome ==
  ASSUME StreamInv, End
  PROVE  \/ /\ ~whole /\ report' = <<>> /\ eta' = eta
            /\ \/ Held(buffer', 0, message, Mode) /\ Len(buffer') = Len(buffer) + 2
                  /\ Len(buffer') <= MaxBuffer /\ buffer' # <<>>
               \/ buffer' = <<>>
         \/ /\ buffer' = <<>> /\ report' # <<>>
            /\ \E object : /\ report' = <<object>> /\ MessageOf(object) = message
                           /\ Fields[message].state = None => eta' = eta
                           /\ Fields[message].state # None => eta' = RemainingSeconds(message)
<1>1. /\ TypeInv /\ BufferInv /\ LossInv
      /\ Len(buffer) \in Nat /\ Mode \in Modes /\ Held(buffer, level, message, Mode)
  BY BufferNat, Zenon
<1>2. level = 1 /\ PrintLine(<<"close">>) /\ message \in Message
  BY <1>1, Zenon DEF End, TypeInv
<1>3. PICK text : /\ TwoMore(buffer, text, Len(buffer), "close") /\ Looked(text)
                  /\ Len(text) = Len(buffer) + 2
  <2>1. "close" \in Char
    BY Chars
  <2> QED BY <1>1, <1>2, <2>1, LookedTwo, Zenon
<1>4. \/ Mode # "whole" /\ Bound(text).objects = <<>> /\ Held(text, 0, message, Mode)
      \/ \E object : Bound(text).objects = <<object>> /\ object[2] = message
  <2>1. Held(buffer, 1, message, Mode)
    BY <1>1, <1>2, Zenon
  <2> QED BY <1>1, <1>3, <2>1, EndHeld
<1>5. CASE Mode # "whole" /\ Bound(text).objects = <<>> /\ Held(text, 0, message, Mode)
  <2>1. ~whole
    BY <1>5, Zenon DEF Mode
  <2>2. /\ report' = <<>> /\ eta' = eta
        /\ \/ buffer' = text /\ Len(buffer') <= MaxBuffer /\ buffer' # <<>>
           \/ buffer' = <<>>
    BY <1>3, <1>5, Zenon DEF Looked
  <2> QED BY <1>3, <1>5, <2>1, <2>2, Zenon
<1>6. CASE \E object : Bound(text).objects = <<object>> /\ object[2] = message
  <2>1. PICK object : Bound(text).objects = <<object>> /\ object[2] = message
    BY <1>6, Zenon
  <2>2. /\ buffer' = <<>> /\ report' = <<object>>
        /\ eta' = Tell([eta |-> eta, progress |-> progress], object).eta
    BY <1>3, <2>1, Zenon DEF Looked
  <2>3. /\ MessageOf(object) = message
        /\ Fields[message].state = None =>
             Tell([eta |-> eta, progress |-> progress], object).eta = [eta |-> eta, progress |-> progress].eta
        /\ Fields[message].state # None =>
             Tell([eta |-> eta, progress |-> progress], object).eta = RemainingSeconds(message)
    BY <1>2, <2>1, TellsMessage
  <2>4. [eta |-> eta, progress |-> progress].eta = eta
    OBVIOUS
  <2>5. report' # <<>>
    <3>1. <<object>> # <<>>
      OBVIOUS
    <3> QED BY <2>2, <3>1
  <2> QED BY <2>2, <2>3, <2>4, <2>5, Zenon
<1> QED BY <1>4, <1>5, <1>6, Zenon

\* ... the last brace of an object ...
LEMMA EndStep ==
  ASSUME StreamInv, End
  PROVE  StreamInv'
<1>1. /\ TypeInv /\ BufferInv /\ LossInv /\ EtaIsCurrent
      /\ Len(buffer) \in Nat /\ Mode \in Modes
  BY BufferNat, Zenon
<1>2. /\ level = 1 /\ "nested" \notin rest
      /\ level' = 0 /\ rest' = {} /\ ~whole' /\ whole' \in BOOLEAN
      /\ clean' = (clean \/ buffer' = <<>>)
      /\ lost' = IF report' = <<>> THEN lost + 1 ELSE 0
      /\ last' = IF report' = <<>> \/ Fields[message].state = None THEN last ELSE message
      /\ message' = message /\ noise' = noise
  BY DEF End
<1>3. /\ clean \in BOOLEAN /\ lost \in Nat /\ noise \in 0..MaxNoise /\ message \in Message
      /\ last # None => last \in Message /\ Fields[last].state # None
  BY <1>1 DEF TypeInv
<1>4. clean' \in BOOLEAN /\ (buffer' = <<>> => clean') /\ (buffer' # <<>> => clean' = clean)
  BY <1>2, <1>3, Zenon
<1>5. TypeInv'
  <2>1. last' # None => last' \in Message /\ Fields[last'].state # None
    BY <1>2, <1>3, Zenon
  <2>2. lost' \in Nat
    BY <1>2, <1>3
  <2> QED BY <1>2, <1>3, <1>4, <2>1, <2>2 DEF TypeInv
<1>6. buffer' = <<>> => BufferInv' /\ Len(buffer') = 0
  <2> SUFFICES ASSUME buffer' = <<>> PROVE BufferInv' /\ Len(buffer') = 0
    OBVIOUS
  <2>1. Mode' = "clean"
    BY <1>2, <1>4, Zenon DEF Mode
  <2>2. Held(buffer', level', message', "clean")
    BY HeldEmpty
  <2>3. BufferInv'
    BY <2>1, <2>2, Zenon DEF BufferInv
  <2> QED BY <2>3
<1>7. 5 * lost + 3 <= MaxBuffer /\ buffer' = <<>> => LossInv'
  <2> SUFFICES ASSUME 5 * lost + 3 <= MaxBuffer, buffer' = <<>> PROVE LossInv'
    OBVIOUS
  <2>1. 5 * lost' <= MaxBuffer + 2
    BY <1>2, <1>3, StreamAssumption
  <2> QED BY <1>2, <1>3, <1>4, <1>6, <2>1 DEF LossInv
<1>8. CASE /\ ~whole /\ report' = <<>> /\ eta' = eta
           /\ \/ Held(buffer', 0, message, Mode) /\ Len(buffer') = Len(buffer) + 2
                 /\ Len(buffer') <= MaxBuffer /\ buffer' # <<>>
              \/ buffer' = <<>>
  <2>1. lost' = lost + 1 /\ last' = last
    BY <1>2, <1>8, Zenon
  <2>2. 5 * lost + 3 <= MaxBuffer
    BY <1>1, <1>2, <1>8 DEF LossInv
  <2>3. EtaIsCurrent'
    BY <1>1, <1>8, <2>1, Zenon DEF EtaIsCurrent
  <2>4. CASE buffer' = <<>>
    BY <1>5, <1>6, <1>7, <2>2, <2>3, <2>4, Zenon DEF StreamInv
  <2>5. CASE /\ Held(buffer', 0, message, Mode) /\ Len(buffer') = Len(buffer) + 2
             /\ Len(buffer') <= MaxBuffer /\ buffer' # <<>>
    <3>1. clean' = clean
      BY <1>4, <2>5, Zenon
    <3>2. Mode' = Mode
      <4>1. ~whole' /\ ~whole
        BY <1>2, <1>8
      <4> QED BY <3>1, <4>1 DEF Mode
    <3>3. BufferInv'
      BY <1>2, <2>5, <3>2, Zenon DEF BufferInv
    <3>4. LossInv'
      <4>1. /\ ~clean => 5 * lost + 3 + 3 <= Len(buffer)
            /\ clean => Len(buffer) <= 6
        BY <1>1, <1>2, <1>3, <1>8 DEF LossInv
      <4>2. ~clean => /\ 5 * (lost + 1) + 3 <= MaxBuffer
                      /\ 5 * (lost + 1) + 3 <= Len(buffer')
        BY <1>1, <1>3, <2>5, <4>1, StreamAssumption
      <4>3. clean => Len(buffer') <= 8 + 4 * noise
        BY <1>1, <1>3, <2>5, <4>1
      <4>4. 5 * (lost + 1) <= MaxBuffer + 2
        BY <1>3, <2>2, StreamAssumption
      <4> QED BY <1>2, <1>3, <2>1, <3>1, <4>2, <4>3, <4>4 DEF LossInv
    <3> QED BY <1>5, <2>3, <3>3, <3>4, Zenon DEF StreamInv
  <2> QED BY <1>8, <2>4, <2>5, Zenon
<1>9. CASE /\ buffer' = <<>> /\ report' # <<>>
           /\ \E object : /\ report' = <<object>> /\ MessageOf(object) = message
                          /\ Fields[message].state = None => eta' = eta
                          /\ Fields[message].state # None => eta' = RemainingSeconds(message)
  <2>1. lost' = 0
    BY <1>2, <1>9, Zenon
  <2>2. EtaIsCurrent'
    <3>1. CASE Fields[message].state = None
      BY <1>1, <1>2, <1>9, <3>1, Zenon DEF EtaIsCurrent
    <3>2. CASE Fields[message].state # None
      <4>1. last' = message /\ eta' = RemainingSeconds(message)
        BY <1>2, <1>9, <3>2, Zenon
      <4>2. eta' = IF message = "final" THEN 7 ELSE None
        BY <1>3, <3>2, <4>1, OnlyFinal, Zenon
      <4> QED BY <4>1, <4>2, Zenon DEF EtaIsCurrent
    <3> QED BY <3>1, <3>2, Zenon
  <2>3. LossInv'
    BY <1>2, <1>3, <1>4, <1>6, <1>9, <2>1, StreamAssumption DEF LossInv
  <2> QED BY <1>5, <1>6, <1>9, <2>2, <2>3, Zenon DEF StreamInv
<1> QED BY <1>8, <1>9, EndOutcome, Zenon

\* An object that is whole is found.
LEMMA WholeIsFound ==
  ASSUME StreamInv, End, whole
  PROVE  Len(report') = 1 /\ MessageOf(report'[1]) = message
<1>1. PICK object : report' = <<object>> /\ MessageOf(object) = message
  BY EndOutcome, Zenon
<1>2. Len(<<object>>) = 1 /\ <<object>>[1] = object
  OBVIOUS
<1> QED BY <1>1, <1>2

-----------------------------------------------------------------------------
(* The noise between the objects. *)

\* Fewer objects that are lost fit where more do.
LEMMA FewerLost ==
  ASSUME NEW l \in Nat, NEW k \in Nat, k <= l
  PROVE  /\ \A n \in Nat : 5 * l + 3 <= n => 5 * k + 3 <= n
         /\ 5 * l <= MaxBuffer + 2 => 5 * k <= MaxBuffer + 2
         /\ 5 * l + 3 <= MaxBuffer => 5 * k + 3 <= MaxBuffer
BY StreamAssumption

\* Noise that is kept, and does not spoil the buffer.
LEMMA QuietKept ==
  ASSUME StreamInv, NEW line \in Quiet, Noise(line), NEW k \in {2, 4},
         Len(buffer') = Len(buffer) + k, buffer' # <<>>, eta' = eta, Held(buffer', 0, message, Mode)
  PROVE  StreamInv'
<1>1. /\ TypeInv /\ BufferInv /\ LossInv /\ Len(buffer) \in Nat
  BY BufferNat, Zenon
<1>2. /\ level = 0 /\ noise < MaxNoise /\ noise' = noise + 1
      /\ clean' = ((clean /\ line \in Quiet) \/ buffer' = <<>>)
      /\ lost' = IF line \in Stray THEN 0 ELSE lost
      /\ level' = level /\ message' = message /\ rest' = rest /\ whole' = whole /\ last' = last
  BY DEF Noise
<1>3. clean \in BOOLEAN /\ whole \in BOOLEAN /\ lost \in Nat /\ noise \in 0..MaxNoise /\ ~whole
  BY <1>1, <1>2 DEF TypeInv
<1>4. clean' = clean
  BY <1>2, <1>3, Zenon
<1>5. lost' <= lost /\ noise' \in 0..MaxNoise /\ lost' \in Nat
  BY <1>2, <1>3, StreamAssumption
<1>6. TypeInv'
  BY <1>1, <1>2, <1>3, <1>4, <1>5 DEF TypeInv
<1>7. BufferInv'
  <2>1. Mode' = Mode
    BY <1>2, <1>4, Zenon DEF Mode
  <2> QED BY <1>2, <2>1, Zenon DEF BufferInv
<1>8. LossInv'
  <2>1. /\ ~clean => 5 * lost + 3 <= MaxBuffer /\ 5 * lost + 3 <= Len(buffer)
        /\ 5 * lost <= MaxBuffer + 2
        /\ clean => Len(buffer) <= 8 + 4 * noise
    BY <1>1, <1>2, <1>3 DEF LossInv
  <2>2. /\ ~clean => 5 * lost' + 3 <= MaxBuffer /\ 5 * lost' + 3 <= Len(buffer')
        /\ 5 * lost' <= MaxBuffer + 2
    <3>1. ~clean => 5 * lost' + 3 <= Len(buffer)
      BY <1>1, <1>3, <1>5, <2>1, FewerLost
    <3>2. Len(buffer) <= Len(buffer') /\ Len(buffer') \in Nat
      BY <1>1
    <3>3. lost' \in Nat
      BY <1>5
    <3>4. ~clean => 5 * lost' + 3 <= Len(buffer')
      BY <1>1, <3>1, <3>2, <3>3
    <3> QED BY <1>3, <1>5, <2>1, <3>4, FewerLost
  <2>3. clean => Len(buffer') <= 8 + 4 * noise'
    BY <1>1, <1>2, <1>3, <2>1
  <2> QED BY <1>2, <1>3, <1>4, <2>2, <2>3 DEF LossInv
<1>9. EtaIsCurrent'
  BY <1>2, SameEta, Zenon
<1> QED BY <1>6, <1>7, <1>8, <1>9, Zenon DEF StreamInv

\* Noise with which the buffer is emptied.
LEMMA NoiseDropped ==
  ASSUME StreamInv, NEW line \in Quiet, Noise(line), buffer' = <<>>, eta' = eta
  PROVE  StreamInv'
<1>1. /\ TypeInv /\ BufferInv /\ LossInv /\ Len(buffer) \in Nat
  BY BufferNat, Zenon
<1>2. /\ level = 0 /\ noise < MaxNoise /\ noise' = noise + 1
      /\ clean' = ((clean /\ line \in Quiet) \/ buffer' = <<>>)
      /\ lost' = IF line \in Stray THEN 0 ELSE lost
      /\ level' = level /\ message' = message /\ rest' = rest /\ whole' = whole /\ last' = last
  BY DEF Noise
<1>3. clean \in BOOLEAN /\ whole \in BOOLEAN /\ lost \in Nat /\ noise \in 0..MaxNoise /\ ~whole
  BY <1>1, <1>2 DEF TypeInv
<1>4. clean' /\ clean' \in BOOLEAN /\ ~whole'
  BY <1>2, <1>3, Zenon
<1>5. lost' <= lost /\ noise' \in 0..MaxNoise /\ lost' \in Nat /\ Len(buffer') = 0
  BY <1>2, <1>3, StreamAssumption
<1>6. TypeInv'
  BY <1>1, <1>2, <1>3, <1>4, <1>5 DEF TypeInv
<1>7. BufferInv'
  <2>1. Mode' = "clean"
    BY <1>4, Zenon DEF Mode
  <2>2. Held(buffer', level', message', "clean")
    BY HeldEmpty
  <2> QED BY <2>1, <2>2, Zenon DEF BufferInv
<1>8. LossInv'
  <2>1. 5 * lost' <= MaxBuffer + 2
    <3>1. 5 * lost <= MaxBuffer + 2
      BY <1>1, <1>3 DEF LossInv
    <3> QED BY <1>3, <1>5, <3>1, FewerLost
  <2> QED BY <1>2, <1>3, <1>4, <1>5, <2>1 DEF LossInv
<1>9. EtaIsCurrent'
  BY <1>2, SameEta, Zenon
<1> QED BY <1>6, <1>7, <1>8, <1>9, Zenon DEF StreamInv

\* Noise that spoils the buffer.
LEMMA StrayKept ==
  ASSUME StreamInv, NEW line \in Stray, line \notin Quiet, Noise(line),
         Len(buffer') = Len(buffer) + 3, buffer' # <<>>, eta' = eta, Held(buffer', 0, message, "dirty")
  PROVE  StreamInv'
<1>1. /\ TypeInv /\ BufferInv /\ LossInv /\ Len(buffer) \in Nat
  BY BufferNat, Zenon
<1>2. /\ level = 0 /\ noise < MaxNoise /\ noise' = noise + 1
      /\ clean' = ((clean /\ line \in Quiet) \/ buffer' = <<>>)
      /\ lost' = 0
      /\ level' = level /\ message' = message /\ rest' = rest /\ whole' = whole /\ last' = last
  BY DEF Noise
<1>3. whole \in BOOLEAN /\ noise \in 0..MaxNoise /\ ~whole
  BY <1>1, <1>2 DEF TypeInv
<1>4. ~clean' /\ clean' \in BOOLEAN /\ ~whole'
  BY <1>2, <1>3, Zenon
<1>5. noise' \in 0..MaxNoise
  BY <1>2, <1>3, StreamAssumption
<1>6. TypeInv'
  BY <1>1, <1>2, <1>3, <1>4, <1>5 DEF TypeInv
<1>7. BufferInv'
  <2>1. Mode' = "dirty"
    BY <1>4, Zenon DEF Mode
  <2> QED BY <1>2, <2>1, Zenon DEF BufferInv
<1>8. LossInv'
  BY <1>1, <1>2, <1>4, <1>5, StreamAssumption, CapAssumption DEF LossInv
<1>9. EtaIsCurrent'
  BY <1>2, SameEta, Zenon
<1> QED BY <1>6, <1>7, <1>8, <1>9, Zenon DEF StreamInv

\* A line of noise with a closing brace, when no object is found.
LEMMA PairStep ==
  ASSUME StreamInv, NEW line \in Quiet, line = <<"open", "x", "close">>, Noise(line)
  PROVE  StreamInv'
<1>1. /\ BufferInv /\ Len(buffer) \in Nat /\ Mode \in Modes /\ Held(buffer, level, message, Mode)
  BY BufferNat, Zenon
<1>2. level = 0 /\ PrintLine(<<"open", "x", "close">>)
  BY Zenon DEF Noise
<1>3. "open" \in Char /\ "x" \in Char /\ "close" \in Char
  BY Chars
<1>4. PICK text : /\ FourMore(buffer, text, Len(buffer), "open", "x", "close") /\ Looked(text)
                  /\ Len(text) = Len(buffer) + 4
  BY <1>1, <1>2, <1>3, LookedFour, Zenon
<1>5. Held(text, 0, message, Mode)
  <2>1. Held(buffer, 0, message, Mode)
    BY <1>1, <1>2, Zenon
  <2> QED BY <1>1, <1>4, <2>1, PairHeld
<1>6. /\ eta' = eta
      /\ \/ buffer' = text /\ buffer' # <<>>
         \/ buffer' = <<>>
  BY <1>4, <1>5, HeldObjects, Zenon DEF Looked
<1>7. CASE buffer' = text /\ buffer' # <<>>
  <2>1. 4 \in {2, 4}
    OBVIOUS
  <2>2. Len(buffer') = Len(buffer) + 4 /\ Held(buffer', 0, message, Mode)
    BY <1>4, <1>5, <1>7, Zenon
  <2> QED BY <1>6, <1>7, <2>1, <2>2, QuietKept, Zenon
<1>8. CASE buffer' = <<>>
  BY <1>6, <1>8, NoiseDropped, Zenon
<1> QED BY <1>6, <1>7, <1>8, Zenon

\* ... and a line of noise.
LEMMA NoiseStep ==
  ASSUME StreamInv, NEW line \in Quiet \cup Stray, Noise(line)
  PROVE  StreamInv'
<1>1. /\ BufferInv /\ Len(buffer) \in Nat /\ Mode \in Modes /\ Held(buffer, level, message, Mode)
  BY BufferNat, Zenon
<1>2. level = 0 /\ 0 \in 0..2 /\ PrintLine(line)
  BY DEF Noise
<1>3. "open" \in Char /\ "x" \in Char /\ "quote" \in Char
  BY Chars
<1>4. "open" # "close" /\ "x" # "close" /\ "quote" # "close"
  OBVIOUS
<1>5. Held(buffer, 0, message, Mode)
  BY <1>1, <1>2, Zenon
<1>6. 2 \in {2, 4} /\ 4 \in {2, 4}
  OBVIOUS
<1>7. CASE line = <<"x">>
  <2>1. PrintLine(<<"x">>) /\ line \in Quiet
    BY <1>2, <1>7, Zenon DEF Quiet
  <2>2. /\ TwoMore(buffer, buffer', Len(buffer), "x")
        /\ Len(buffer') = Len(buffer) + 2 /\ buffer' # <<>> /\ eta' = eta
    BY <1>1, <1>3, <1>4, <2>1, KeptTwo, Zenon
  <2>3. Held(buffer', 0, message, Mode)
    BY <1>1, <1>5, <2>2, WordHeld
  <2> QED BY <1>6, <2>1, <2>2, <2>3, QuietKept, Zenon
<1>8. CASE line = <<"open", "x", "close">>
  <2>1. line \in Quiet
    BY <1>8, Zenon DEF Quiet
  <2> QED BY <1>8, <2>1, PairStep, Zenon
<1>9. CASE line = <<"quote", "open", "quote">>
  <2>1. PrintLine(<<"quote", "open", "quote">>) /\ line \in Quiet
    BY <1>2, <1>9, Zenon DEF Quiet
  <2>2. /\ FourMore(buffer, buffer', Len(buffer), "quote", "open", "quote")
        /\ Len(buffer') = Len(buffer) + 4 /\ buffer' # <<>> /\ eta' = eta
    BY <1>1, <1>3, <1>4, <2>1, KeptFour, Zenon
  <2>3. Held(buffer', 0, message, Mode)
    BY <1>1, <1>2, <1>5, <2>2, BraceTextHeld
  <2> QED BY <1>6, <2>1, <2>2, <2>3, QuietKept, Zenon
<1>10. CASE line = <<"open", "x">>
  <2>1. PrintLine(<<"open", "x">>) /\ line \in Stray
    BY <1>2, <1>10, Zenon DEF Stray
  <2>2. line \notin Quiet
    BY <1>10 DEF Quiet
  <2>3. /\ ThreeMore(buffer, buffer', Len(buffer), "open", "x")
        /\ Len(buffer') = Len(buffer) + 3 /\ buffer' # <<>> /\ eta' = eta
    BY <1>1, <1>3, <1>4, <2>1, KeptThree, Zenon
  <2>4. Held(buffer', 0, message, "dirty")
    BY <1>1, <1>5, <2>3, StrayBraceHeld
  <2> QED BY <2>1, <2>2, <2>3, <2>4, StrayKept, Zenon
<1>11. CASE line = <<"x", "quote">>
  <2>1. PrintLine(<<"x", "quote">>) /\ line \in Stray
    BY <1>2, <1>11, Zenon DEF Stray
  <2>2. line \notin Quiet
    BY <1>11 DEF Quiet
  <2>3. /\ ThreeMore(buffer, buffer', Len(buffer), "x", "quote")
        /\ Len(buffer') = Len(buffer) + 3 /\ buffer' # <<>> /\ eta' = eta
    BY <1>1, <1>3, <1>4, <2>1, KeptThree, Zenon
  <2>4. Held(buffer', 0, message, "dirty")
    BY <1>1, <1>5, <2>3, StrayQuoteHeld
  <2> QED BY <2>1, <2>2, <2>3, <2>4, StrayKept, Zenon
<1> QED BY <1>7, <1>8, <1>9, <1>10, <1>11, Zenon DEF Quiet, Stray

-----------------------------------------------------------------------------

\* The invariant holds before HandBrake has printed anything ...
LEMMA StreamInit == Init => StreamInv
<1> SUFFICES ASSUME Init PROVE StreamInv
  OBVIOUS
<1>1. TypeInv
  <2>1. "version" \in Message
    BY DEF Message, Fields
  <2>2. level = 0 /\ message = "version" /\ rest = {} /\ noise = 0 /\ clean = TRUE /\ whole = FALSE
        /\ lost = 0 /\ last = None
    BY DEF Init
  <2>3. clean \in BOOLEAN /\ whole \in BOOLEAN /\ ~whole
    BY <2>2, Zenon
  <2>4. noise \in 0..MaxNoise /\ lost \in Nat /\ level \in 0..2 /\ rest \subseteq {"text", "nested"}
    BY <2>2, StreamAssumption
  <2>5. level # 2
    BY <2>2
  <2> QED BY <2>1, <2>2, <2>3, <2>4, <2>5, Zenon DEF TypeInv
<1>2. BufferInv
  <2>1. Mode = "clean" /\ buffer = <<>>
    BY DEF Init, Mode
  <2>2. Held(<<>>, level, message, "clean")
    BY HeldEmpty
  <2> QED BY <2>1, <2>2, Zenon DEF BufferInv
<1>3. LossInv
  BY StreamAssumption DEF Init, LossInv
<1>4. EtaIsCurrent
  <2>1. None # "final"
    BY StreamAssumption DEF Message, Fields
  <2> QED BY <2>1 DEF Init, EtaIsCurrent
<1> QED BY <1>1, <1>2, <1>3, <1>4, Zenon DEF StreamInv

\* ... and every step keeps it.
LEMMA StreamStep == StreamInv /\ [Next]_vars => StreamInv'
<1> SUFFICES ASSUME StreamInv, [Next]_vars PROVE StreamInv'
  OBVIOUS
<1>1. CASE UNCHANGED vars
  <2>1. Mode' = Mode /\ Used' = Used /\ TypeInv' = TypeInv /\ EtaIsCurrent' = EtaIsCurrent
    BY <1>1 DEF vars, loopVars, streamVars, Mode, Used, TypeInv, EtaIsCurrent
  <2>2. BufferInv' = BufferInv
    BY <1>1, <2>1 DEF vars, loopVars, streamVars, BufferInv
  <2>3. LossInv' = LossInv
    BY <1>1, <2>1 DEF vars, loopVars, streamVars, LossInv
  <2> QED BY <2>1, <2>2, <2>3 DEF StreamInv
<1>2. CASE \E m \in Messages : Begin(m)
  BY <1>2, BeginStep, Zenon
<1>3. CASE Nest
  BY <1>3, NestStep, Zenon
<1>4. CASE Text
  BY <1>4, TextStep, Zenon
<1>5. CASE Unnest
  BY <1>5, UnnestStep, Zenon
<1>6. CASE End
  BY <1>6, EndStep, Zenon
<1>7. CASE \E line \in Quiet \cup Stray : Noise(line)
  BY <1>7, NoiseStep, Zenon
<1> QED BY <1>1, <1>2, <1>3, <1>4, <1>5, <1>6, <1>7, Zenon DEF Next

\* What the loop of run_encode keeps is one of the things that Held lists, it is as
\* long as LossInv says, and the estimate is current.
THEOREM StreamInvariance == Spec => []StreamInv
BY StreamInit, StreamStep, PTL DEF Spec

\* Behind noise that spoils the buffer no more reports in a row go unfound than fit
\* into it, and one: then the cap of run_encode has dropped that noise.
THEOREM LossBounded == Spec => []LossIsBounded
<1>1. StreamInv => LossIsBounded
  <2> SUFFICES ASSUME StreamInv PROVE LossIsBounded
    OBVIOUS
  <2>1. lost \in Nat /\ 5 * lost <= MaxBuffer + 2
    BY BufferNat DEF TypeInv, LossInv
  <2> QED BY <2>1, StreamAssumption DEF LossIsBounded
<1> QED BY <1>1, StreamInvariance, PTL

\* The estimate of the job is always that of the last report that was found, which
\* has withdrawn the ones before (_remaining_seconds, and on_eta of run_encode).
THEOREM EstimateIsCurrent == Spec => []EtaIsCurrent
<1>1. StreamInv => EtaIsCurrent
  BY Zenon DEF StreamInv
<1> QED BY <1>1, StreamInvariance, PTL

\* An object that HandBrake prints after nothing but harmless noise is found, and it
\* alone, when its last brace is read: parse_progress_objects is not misled by its
\* strings or its nested object, nor has the loop dropped its beginning.
THEOREM ObjectsAreFound == Spec => EveryObjectFound
<1>1. StreamInv /\ [Next]_vars =>
        [End /\ whole => Len(report') = 1 /\ MessageOf(report'[1]) = message]_vars
  BY WholeIsFound, Zenon
<1> QED BY <1>1, StreamInvariance, PTL DEF Spec, EveryObjectFound
=============================================================================
