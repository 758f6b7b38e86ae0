--------------------------- MODULE AdmissionProofs ---------------------------
(***************************************************************************)
(* Theorems about Admission, for any limit on a body, any number of resets *)
(* and any files and links: every invariant that the run checks, from one  *)
(* inductive invariant.  It joins the invariants of the two components, of *)
(* which every step is a step or a stutter, to what a request has got to,  *)
(* what has been checked for it, and what /health has told.                *)
(***************************************************************************)
EXTENDS Admission, RequestProofs, SequenceTheorems

\* The client has one request at a time, and a job of its own that its request is
\* about; the answer is of the request that is over.
RequestInv ==
  /\ at # "idle" => answer = None
  /\ at \in {"body", "route", "encoder", "refusal", "speed", "submit"} => job = "none"
  /\ job \in {"none", "stored"} => encoding = None
  /\ job = "working" => encoding.preset = FindPreset(doc)
  /\ doc \in Documents

\* What the route has checked holds for the job, unless the path has changed.
CheckedInv ==
  /\ at \in {"encoder", "refusal", "speed", "submit"} \/ job \in {"stored", "working"}
       => RouteAccepts(FindPreset(doc))
  /\ at \in {"speed", "submit"} \/ job \in {"stored", "working"}
       => FindPreset(doc).encoder \in Provided
  /\ (at \in {"encoder", "refusal", "speed", "submit"} \/ job = "stored") /\ ~moved
       => ValidateSourcePath = "valid"

\* The client asks for one thing at a time, and is told about that.
AskInv ==
  /\ pc[Client] # "idle" =>
       /\ at \in {"list", "encoder", "refusal"} => key[Client] = "encoders"
       /\ at \in {"list presets", "speed"} => key[Client] = "x264"
  /\ at \notin {"list", "encoder", "refusal", "list presets", "speed"} => pc[Client] = "idle"

\* While what /health has told holds, the good list is cached, no caller has a probe
\* on its way that could replace it, and every question is answered by it.
ListInv ==
  listed =>
    /\ cache["encoders"] \in Answer /\ cache["encoders"].ok /\ roots # {}
    /\ \A c \in Caller : pc[c] \in {"probe", "store"} => c # Starter /\ key[c] # "encoders"
    /\ pc[Client] = "answered" /\ key[Client] = "encoders" => found[Client] = cache["encoders"]
    /\ at = "refusal" => FindPreset(doc).encoder \notin Provided

PathInv == roots \in {{}, {Root}} /\ real \in Real

AInv ==
  /\ Inv /\ BodyInv
  /\ AdmissionTypeOK /\ RequestInv /\ CheckedInv /\ AskInv /\ ListInv /\ PathInv
  /\ AcceptedIsRunnable /\ EncodedIsInside /\ RefusedLeavesNoJob /\ RefusalsAreTrue

-----------------------------------------------------------------------------
(* What HandBrakeCLI has printed, and what its parsers make of it.        *)

\* FlattenSeq of nothing.
LEMMA FlattenEmpty == FlattenSeq(<<>>) = <<>>
BY DEF FlattenSeq

\* FlattenSeq of two: the recursive function that it is defined by exists.
LEMMA FlattenPair == ASSUME NEW a, NEW b PROVE FlattenSeq(<<a, b>>) = a \o b
<1> DEFINE F(f) == [i \in 1..2 |-> IF i = 1 THEN <<a, b>>[i] ELSE f[i - 1] \o <<a, b>>[i]]
           flatten == CHOOSE f : f = F(f)
           g == [i \in 1..2 |-> IF i = 1 THEN a ELSE a \o b]
<1>1. g = F(g)
  OBVIOUS
<1>2. flatten = F(flatten)
  <2> HIDE DEF F, g
  <2> QED BY <1>1
<1>3. FlattenSeq(<<a, b>>) = flatten[2]
  BY DEF FlattenSeq
<1> HIDE DEF flatten
<1>4. flatten[1] = a
  BY <1>2
<1>5. flatten[2] = flatten[1] \o b
  <2>1. F(flatten)[2] = flatten[1] \o b
    OBVIOUS
  <2> HIDE DEF F
  <2> QED BY <1>2, <2>1
<1> QED BY <1>3, <1>4, <1>5

\* The least of one.
LEMMA LeastOf == ASSUME NEW i \in Nat PROVE Min({i}) = i
BY DEF Min

\* What the parser of encoders.py makes of the help text: the word of the block of
\* -e, and nothing of the blocks around it.
LEMMA ParsedList == ParseEncoderList(Help) = Provided
<1>1. {i \in DOMAIN Help : Help[i] = [is |-> "flag", of |-> "encoder"]} = {3}
  BY DEF Help
<1>2. Block(Help, 3, {"flag"}) = {4, 5}
  <2>1. Len(Help) = 7 /\ Help[4].is = "word" /\ Help[5].is = "words" /\ Help[6].is = "flag"
    BY DEF Help
  <2> QED BY <2>1 DEF Block
<1>3. Words(Help, {4, 5}) = {"x264"}
  BY DEF Words, Help
<1> QED BY <1>1, <1>2, <1>3, LeastOf DEF ParseEncoderList, Provided

\* What it makes of the list of speed presets: the word of the block, and nothing of
\* what comes after it.
LEMMA ParsedPresets == ParsePresetList(PresetList, "x264") = {"fast"}
<1>1. /\ DOMAIN PresetList = 1..7 /\ Len(PresetList) = 7
      /\ PresetList[1].is = "text" /\ PresetList[2] = [is |-> "header", of |-> "x264"]
      /\ PresetList[3].is = "blank" /\ PresetList[4] = [is |-> "word", of |-> "fast"]
      /\ PresetList[5].is = "words" /\ PresetList[6].is = "text" /\ PresetList[7].is = "word"
  <2>1. DOMAIN PresetList = 1..7 /\ Len(PresetList) = 7
    BY DEF PresetList
  <2>2. PresetList[2] = [is |-> "header", of |-> "x264"]
    BY DEF PresetList
  <2>3. PresetList[4] = [is |-> "word", of |-> "fast"]
    BY DEF PresetList
  <2>4. PresetList[1].is = "text" /\ PresetList[3].is = "blank" /\ PresetList[5].is = "words"
        /\ PresetList[6].is = "text" /\ PresetList[7].is = "word"
    BY DEF PresetList
  <2> QED BY <2>1, <2>2, <2>3, <2>4
<1> HIDE DEF PresetList
<1>2. {i \in DOMAIN PresetList : PresetList[i].is = "header"} = {2}
  <2>1. \A i \in 1..7 : PresetList[i].is = "header" <=> i = 2
    <3>1. PresetList[2].is = "header"
      BY <1>1
    <3>2. \A i \in 1..7 : i \in {1, 2, 3, 4, 5, 6, 7}
      OBVIOUS
    <3> QED BY <1>1, <3>1, <3>2
  <2> QED BY <1>1, <2>1
<1>3. Block(PresetList, 2, {"text", "flag", "header"}) = {3, 4, 5}
  BY <1>1 DEF Block
<1>4. {k \in {3, 4, 5} : PresetList[k].is = "word"} = {4}
  BY <1>1
<1>5. Words(PresetList, {3, 4, 5}) = {"fast"}
  BY <1>1, <1>4 DEF Words
<1> QED BY <1>1, <1>2, <1>3, <1>5, LeastOf DEF ParsePresetList

-----------------------------------------------------------------------------
(* The walk of a preset document.                                         *)

\* The nodes: leaves, folders of two leaves, and what is neither.
LEMMA NodeKinds ==
  /\ Good \in Leaves /\ Good.name = Name /\ Junk.kind = "junk"
  /\ \A leaf \in Leaves : leaf.kind = "leaf"
  /\ \A folder \in Folders : /\ folder.kind = "folder"
                             /\ \E leaf \in Leaves : folder.children = <<leaf, Good>>
  /\ \A leaf \in Leaves : \E folder \in Folders : folder.children = <<leaf, Good>>
<1>1. Good \in Leaves /\ Good.name = Name /\ Junk.kind = "junk"
  BY DEF Good, Leaves, Leaf, Junk
<1>2. \A leaf \in Leaves : leaf.kind = "leaf"
  <2>1. \A name, encoder, container, speed :
          Leaf(name, encoder, container, speed).kind = "leaf"
    BY DEF Leaf
  <2> QED BY <2>1 DEF Good, Leaves
<1>3. \A folder \in Folders : /\ folder.kind = "folder"
                              /\ \E leaf \in Leaves : folder.children = <<leaf, Good>>
  BY DEF Folders, Folder
<1>4. ASSUME NEW leaf \in Leaves
      PROVE  \E folder \in Folders : folder.children = <<leaf, Good>>
  <2>1. Folder(Name, <<leaf, Good>>) \in Folders
    BY DEF Folders
  <2>2. Folder(Name, <<leaf, Good>>).children = <<leaf, Good>>
    BY DEF Folder
  <2> QED BY <2>1, <2>2
<1> QED BY <1>1, <1>2, <1>3, <1>4

\* A list of nodes is empty or has two, the second a leaf.
LEMMA ListShapes ==
  /\ \A leaf \in Leaves : <<leaf, Good>> \in Lists
  /\ Documents \subseteq Lists
  /\ \A nodes \in Lists :
       nodes = <<>> \/ \E node \in Leaves \cup Folders \cup {Junk} : nodes = <<node, Good>>
<1>1. \A leaf \in Leaves : <<leaf, Good>> \in Lists
  BY DEF Documents, Lists
<1>2. ASSUME NEW nodes \in Lists
      PROVE  nodes = <<>> \/ \E node \in Leaves \cup Folders \cup {Junk} : nodes = <<node, Good>>
  <2>1. CASE nodes \in Documents
    BY <2>1 DEF Documents
  <2>2. CASE \E folder \in Folders : nodes = folder.children
    BY <2>2, NodeKinds
  <2> QED BY <2>1, <2>2 DEF Lists
<1> QED BY <1>1, <1>2 DEF Lists

\* The walk is well-founded, for a folder holds no folder.
LEMMA Walk ==
  ASSUME NEW nodes \in Lists
  PROVE  IterPresets[nodes] =
           FlattenSeq([i \in DOMAIN nodes |->
             CASE nodes[i].kind = "folder" -> IterPresets[nodes[i].children]
               [] nodes[i].kind = "leaf"   -> <<nodes[i]>>
               [] OTHER                    -> <<>>])
<1> DEFINE Part(f, list, i) ==
             CASE list[i].kind = "folder" -> f[list[i].children]
               [] list[i].kind = "leaf"   -> <<list[i]>>
               [] OTHER                   -> <<>>
           Parts(f, list) == [i \in DOMAIN list |-> Part(f, list, i)]
           F(f) == [list \in Lists |-> FlattenSeq(Parts(f, list))]
           top  == F(<<>>)
           both == F(top)
<1>1. ASSUME NEW leaf \in Leaves, NEW f, NEW g PROVE F(f)[<<leaf, Good>>] = F(g)[<<leaf, Good>>]
  <2>1. \A i \in DOMAIN <<leaf, Good>> : <<leaf, Good>>[i].kind = "leaf"
    BY NodeKinds
  <2>2. Parts(f, <<leaf, Good>>) = Parts(g, <<leaf, Good>>)
    BY <2>1
  <2> HIDE DEF Parts
  <2> QED BY <2>2, ListShapes
<1>2. ASSUME NEW list \in Lists, NEW i \in DOMAIN list PROVE Part(both, list, i) = Part(top, list, i)
  <2>1. CASE list[i].kind = "folder"
    <3>1. list[i] \in Leaves \cup Folders \cup {Junk}
      BY NodeKinds, ListShapes
    <3>2. PICK leaf \in Leaves : list[i].children = <<leaf, Good>>
      BY <2>1, <3>1, NodeKinds
    <3>3. both[<<leaf, Good>>] = top[<<leaf, Good>>]
      BY <1>1
    <3> HIDE DEF both, top
    <3> QED BY <2>1, <3>2, <3>3
  <2>2. CASE list[i].kind # "folder"
    <3> HIDE DEF both, top
    <3> QED BY <2>2
  <2> QED BY <2>1, <2>2
<1>3. both = F(both)
  <2>1. ASSUME NEW list \in Lists PROVE Parts(both, list) = Parts(top, list)
    <3> HIDE DEF both, top, Part
    <3> QED BY <1>2
  <2>2. F(both) = F(top)
    <3> HIDE DEF both, top, Parts
    <3> QED BY <2>1
  <2> HIDE DEF F, top
  <2> QED BY <2>2
<1>4. IterPresets = CHOOSE f : f = F(f)
  BY DEF IterPresets
<1>5. IterPresets = F(IterPresets)
  <2> HIDE DEF F, both
  <2> QED BY <1>3, <1>4
<1>6. F(IterPresets)[nodes] = FlattenSeq(Parts(IterPresets, nodes))
  OBVIOUS
<1> QED BY <1>5, <1>6

\* Leaves are joined.
LEMMA Joined ==
  ASSUME NEW a, NEW b, NEW c
  PROVE  <<a>> \o <<b>> = <<a, b>> /\ <<a, b>> \o <<c>> = <<a, b, c>>
<1> DEFINE S == {a, b, c}
<1>1. /\ <<a>> \in Seq(S) /\ <<b>> \in Seq(S) /\ <<c>> \in Seq(S)
      /\ <<a, b>> \in Seq(S) /\ <<a, b, c>> \in Seq(S)
  OBVIOUS
<1> HIDE DEF S
<1>2. <<a>> \o <<b>> = <<a, b>>
  <2>1. /\ <<a>> \o <<b>> \in Seq(S) /\ Len(<<a>> \o <<b>>) = 2
        /\ \A i \in 1..2 : (<<a>> \o <<b>>)[i] = IF i <= 1 THEN <<a>>[i] ELSE <<b>>[i - 1]
    BY <1>1, ConcatProperties
  <2>2. \A i \in 1..2 : (<<a>> \o <<b>>)[i] = <<a, b>>[i]
    BY <2>1
  <2>3. Len(<<a, b>>) = 2
    OBVIOUS
  <2> QED BY <1>1, <2>1, <2>2, <2>3, SeqEqual
<1>3. <<a, b>> \o <<c>> = <<a, b, c>>
  <2>1. /\ <<a, b>> \o <<c>> \in Seq(S) /\ Len(<<a, b>> \o <<c>>) = 3
        /\ \A i \in 1..3 :
             (<<a, b>> \o <<c>>)[i] = IF i <= 2 THEN <<a, b>>[i] ELSE <<c>>[i - 2]
    BY <1>1, ConcatProperties
  <2>2. \A i \in 1..3 : (<<a, b>> \o <<c>>)[i] = <<a, b, c>>[i]
    BY <2>1
  <2>3. Len(<<a, b, c>>) = 3
    OBVIOUS
  <2> QED BY <1>1, <2>1, <2>2, <2>3, SeqEqual
<1> QED BY <1>2, <1>3

\* iter_presets on the documents: a folder's leaves come in its place, and what is
\* neither leaf nor folder goes unseen.
LEMMA Walked ==
  /\ IterPresets[<<>>] = <<>>
  /\ \A leaf \in Leaves : IterPresets[<<leaf, Good>>] = <<leaf, Good>>
  /\ \A folder \in Folders : \A leaf :
       folder.children = <<leaf, Good>> => IterPresets[<<folder, Good>>] = <<leaf, Good, Good>>
  /\ IterPresets[<<Junk, Good>>] = <<Good>>
<1> DEFINE Part(node) == CASE node.kind = "folder" -> IterPresets[node.children]
                           [] node.kind = "leaf"   -> <<node>>
                           [] OTHER                -> <<>>
<1>0. <<>> \in Lists /\ \A node \in Leaves \cup Folders \cup {Junk} : <<node, Good>> \in Lists
  BY ListShapes DEF Documents
<1>1. IterPresets[<<>>] = <<>>
  <2>1. [i \in DOMAIN <<>> |-> Part(<<>>[i])] = <<>>
    <3> HIDE DEF Part
    <3> QED OBVIOUS
  <2>2. IterPresets[<<>>] = FlattenSeq([i \in DOMAIN <<>> |-> Part(<<>>[i])])
    BY <1>0, Walk
  <2> QED BY <2>1, <2>2, FlattenEmpty
<1>2. ASSUME NEW node, <<node, Good>> \in Lists
      PROVE  IterPresets[<<node, Good>>] = Part(node) \o Part(Good)
  <2>1. [i \in DOMAIN <<node, Good>> |-> Part(<<node, Good>>[i])] = <<Part(node), Part(Good)>>
    <3> HIDE DEF Part
    <3> QED OBVIOUS
  <2>2. IterPresets[<<node, Good>>]
          = FlattenSeq([i \in DOMAIN <<node, Good>> |-> Part(<<node, Good>>[i])])
    BY <1>2, Walk
  <2> HIDE DEF Part
  <2> QED BY <2>1, <2>2, FlattenPair
<1>3. \A leaf \in Leaves : Part(leaf) = <<leaf>>
  BY NodeKinds
<1>4. Part(Good) = <<Good>>
  BY NodeKinds, <1>3
<1>5. Part(Junk) = <<>>
  BY NodeKinds
<1>6. ASSUME NEW leaf \in Leaves PROVE IterPresets[<<leaf, Good>>] = <<leaf, Good>>
  <2>1. IterPresets[<<leaf, Good>>] = Part(leaf) \o Part(Good)
    BY <1>2, ListShapes
  <2> HIDE DEF Part
  <2> QED BY <2>1, <1>3, <1>4, Joined
<1>7. ASSUME NEW folder \in Folders, NEW leaf, folder.children = <<leaf, Good>>
      PROVE  IterPresets[<<folder, Good>>] = <<leaf, Good, Good>>
  <2>1. PICK other \in Leaves : folder.children = <<other, Good>>
    BY NodeKinds
  <2>2. other = leaf
    BY <2>1, <1>7
  <2>3. Part(folder) = <<leaf, Good>>
    BY <2>1, <2>2, <1>6, NodeKinds
  <2>4. IterPresets[<<folder, Good>>] = Part(folder) \o Part(Good)
    BY <1>0, <1>2
  <2> HIDE DEF Part
  <2> QED BY <2>3, <2>4, <1>4, Joined
<1>8. IterPresets[<<Junk, Good>>] = <<Good>>
  <2>1. IterPresets[<<Junk, Good>>] = Part(Junk) \o Part(Good)
    BY <1>0, <1>2
  <2> HIDE DEF Part
  <2> QED BY <2>1, <1>4, <1>5
<1> HIDE DEF Part
<1> QED BY <1>1, <1>6, <1>7, <1>8

\* The first of two.
LEMMA LeastOfTwo ==
  ASSUME NEW i \in Nat, NEW S \in SUBSET Nat, i \in S, \A k \in S : i <= k
  PROVE  Min(S) = i
<1>1. \A k \in S : (\A l \in S : k <= l) => k = i
  OBVIOUS
<1> QED BY <1>1 DEF Min

\* find_preset on what was walked.
LEMMA Called ==
  ASSUME NEW n \in Nat, NEW leaves, DOMAIN leaves = 1..n,
         NEW first \in 1..n, leaves[first].name = Name,
         \A i \in 1..n : i < first => leaves[i].name # Name
  PROVE  FirstCalled(leaves) = leaves[first]
<1> DEFINE called == {i \in 1..n : leaves[i].name = Name}
<1>1. first \in called /\ called \subseteq Nat /\ \A k \in called : first <= k
  OBVIOUS
<1>2. Min(called) = first
  <2> HIDE DEF called
  <2> QED BY <1>1, LeastOfTwo
<1>3. called # {}
  BY <1>1
<1> QED BY <1>2, <1>3 DEF FirstCalled

\* find_preset on one, two or three leaves.
LEMMA CalledAmong ==
  ASSUME NEW a, NEW b, NEW c
  PROVE  /\ a.name = Name => /\ FirstCalled(<<a>>) = a /\ FirstCalled(<<a, b>>) = a
                            /\ FirstCalled(<<a, b, c>>) = a
         /\ a.name # Name /\ b.name = Name =>
              FirstCalled(<<a, b>>) = b /\ FirstCalled(<<a, b, c>>) = b
<1>1. ASSUME NEW n \in {1, 2, 3}, NEW s, DOMAIN s = 1..n, s[1] = a,
             2 <= n => s[2] = b
      PROVE  /\ a.name = Name => FirstCalled(s) = a
             /\ a.name # Name /\ b.name = Name /\ 2 <= n => FirstCalled(s) = b
  <2>1. CASE a.name = Name
    <3>1. n \in Nat /\ 1 \in 1..n /\ s[1].name = Name /\ ~\E i \in 1..n : i < 1
      BY <1>1, <2>1
    <3> QED BY <1>1, <2>1, <3>1, Called
  <2>2. CASE a.name # Name /\ b.name = Name /\ 2 <= n
    <3>1. n \in Nat /\ 2 \in 1..n /\ s[2].name = Name
          /\ \A i \in 1..n : i < 2 => s[i].name # Name
      BY <1>1, <2>2
    <3> QED BY <1>1, <2>2, <3>1, Called
  <2> QED BY <2>1, <2>2
<1>2. /\ DOMAIN <<a>> = 1..1 /\ DOMAIN <<a, b>> = 1..2 /\ DOMAIN <<a, b, c>> = 1..3
      /\ <<a>>[1] = a /\ <<a, b>>[1] = a /\ <<a, b, c>>[1] = a
      /\ <<a, b>>[2] = b /\ <<a, b, c>>[2] = b
  OBVIOUS
<1> QED BY <1>1, <1>2

\* Of three leaves the second, if the first is not called so.
LEMMA CalledSecond ==
  ASSUME NEW a, NEW b, NEW c, a.name # Name, b.name = Name
  PROVE  FirstCalled(<<a, b, c>>) = b
BY CalledAmong

\* find_preset on the documents.
LEMMA FirstLeaf ==
  ASSUME NEW nodes \in Documents
  PROVE  /\ FindPreset(nodes) \in Leaves \cup {NoPreset}
         /\ nodes # <<>> =>
              LET called == {p \in Places(nodes) : LeafAt(nodes, p).name = Name} IN
              \E p \in called : /\ FindPreset(nodes) = LeafAt(nodes, p)
                                /\ \A q \in called : 3 * p[1] + p[2] <= 3 * q[1] + q[2]
<1> DEFINE called == {p \in Places(nodes) : LeafAt(nodes, p).name = Name}
           First(p) == /\ p \in called /\ FindPreset(nodes) = LeafAt(nodes, p)
                       /\ \A q \in called : 3 * p[1] + p[2] <= 3 * q[1] + q[2]
<1>1. CASE nodes = <<>>
  <2>1. FindPreset(nodes) = FirstCalled(<<>>)
    BY <1>1, Walked DEF FindPreset
  <2>2. FirstCalled(<<>>) = NoPreset
    BY DEF FirstCalled
  <2> QED BY <1>1, <2>1, <2>2
<1>2. ASSUME NEW leaf \in Leaves, nodes = <<leaf, Good>>
      PROVE  FindPreset(nodes) \in Leaves /\ \E p \in called : First(p)
  <2>1. FindPreset(nodes) = FirstCalled(<<leaf, Good>>)
    BY <1>2, Walked DEF FindPreset
  <2>2. \A p : p \in Places(nodes) <=> p \in {<<1, 0>>, <<2, 0>>}
    BY <1>2, NodeKinds DEF Places
  <2>3. LeafAt(nodes, <<1, 0>>) = leaf /\ LeafAt(nodes, <<2, 0>>) = Good
    BY <1>2 DEF LeafAt
  <2>4. CASE leaf.name = Name
    <3>1. FirstCalled(<<leaf, Good>>) = leaf
      BY <2>4, CalledAmong
    <3>2. First(<<1, 0>>)
      <4>1. <<1, 0>> \in called
        BY <2>1, <2>2, <2>3, <2>4, <3>1
      <4>2. \A q \in {<<1, 0>>, <<2, 0>>} : 3 <= 3 * q[1] + q[2]
        OBVIOUS
      <4>3. \A q \in called : q \in {<<1, 0>>, <<2, 0>>}
        BY <2>2
      <4> QED BY <2>1, <2>2, <2>3, <2>4, <3>1, <4>1, <4>2, <4>3
    <3> QED BY <2>1, <3>1, <3>2
  <2>5. CASE leaf.name # Name
    <3>1. FirstCalled(<<leaf, Good>>) = Good
      BY <2>5, CalledAmong, NodeKinds
    <3>2. First(<<2, 0>>)
      <4>1. <<2, 0>> \in called
        BY <2>1, <2>2, <2>3, <2>5, <3>1, NodeKinds
      <4>2. \A q \in {<<2, 0>>} : 6 <= 3 * q[1] + q[2]
        OBVIOUS
      <4>3. \A q \in called : q \in {<<2, 0>>}
        BY <2>2, <2>3, <2>5
      <4> QED BY <2>1, <2>2, <2>3, <2>5, <3>1, NodeKinds, <4>1, <4>2, <4>3
    <3> QED BY <2>1, <3>1, <3>2, NodeKinds
  <2> QED BY <2>4, <2>5
<1>3. ASSUME NEW folder \in Folders, nodes = <<folder, Good>>
      PROVE  FindPreset(nodes) \in Leaves /\ \E p \in called : First(p)
  <2>0. PICK leaf \in Leaves : folder.children = <<leaf, Good>>
    BY NodeKinds
  <2>1. FindPreset(nodes) = FirstCalled(<<leaf, Good, Good>>)
    BY <1>3, <2>0, Walked DEF FindPreset
  <2>2. \A p : p \in Places(nodes) <=> p \in {<<1, 1>>, <<1, 2>>, <<2, 0>>}
    BY <1>3, <2>0, NodeKinds DEF Places
  <2>3. /\ LeafAt(nodes, <<1, 1>>) = leaf /\ LeafAt(nodes, <<1, 2>>) = Good
        /\ LeafAt(nodes, <<2, 0>>) = Good
    BY <1>3, <2>0 DEF LeafAt
  <2>4. CASE leaf.name = Name
    <3>1. FirstCalled(<<leaf, Good, Good>>) = leaf
      BY <2>4, CalledAmong
    <3>2. First(<<1, 1>>)
      <4>1. <<1, 1>> \in called
        BY <2>1, <2>2, <2>3, <2>4, <3>1
      <4>2. \A q \in {<<1, 1>>, <<1, 2>>, <<2, 0>>} : 4 <= 3 * q[1] + q[2]
        OBVIOUS
      <4>3. \A q \in called : q \in {<<1, 1>>, <<1, 2>>, <<2, 0>>}
        BY <2>2
      <4> QED BY <2>1, <2>2, <2>3, <2>4, <3>1, <4>1, <4>2, <4>3
    <3> QED BY <2>1, <3>1, <3>2
  <2>5. CASE leaf.name # Name
    <3>1. FirstCalled(<<leaf, Good, Good>>) = Good
      <4>1. leaf.name # Name /\ Good.name = Name
        BY <2>5, NodeKinds
      <4> QED BY <4>1, CalledSecond
    <3>2. First(<<1, 2>>)
      <4>1. <<1, 2>> \in called
        BY <2>1, <2>2, <2>3, <2>5, <3>1, NodeKinds
      <4>2. \A q \in {<<1, 2>>, <<2, 0>>} : 5 <= 3 * q[1] + q[2]
        OBVIOUS
      <4>3. \A q \in called : q \in {<<1, 2>>, <<2, 0>>}
        BY <2>2, <2>3, <2>5
      <4> QED BY <2>1, <2>2, <2>3, <2>5, <3>1, NodeKinds, <4>1, <4>2, <4>3
    <3> QED BY <2>1, <3>1, <3>2, NodeKinds
  <2> QED BY <2>4, <2>5
<1>4. ASSUME nodes = <<Junk, Good>>
      PROVE  FindPreset(nodes) \in Leaves /\ \E p \in called : First(p)
  <2>1. FindPreset(nodes) = FirstCalled(<<Good>>)
    BY <1>4, Walked DEF FindPreset
  <2>2. \A p : p \in Places(nodes) <=> p = <<2, 0>>
    BY <1>4, NodeKinds DEF Places
  <2>3. LeafAt(nodes, <<2, 0>>) = Good
    BY <1>4 DEF LeafAt
  <2>4. FirstCalled(<<Good>>) = Good
    BY CalledAmong, NodeKinds
  <2>5. First(<<2, 0>>)
    <3>1. \A p : p \in called <=> p = <<2, 0>>
      BY <2>2, <2>3, NodeKinds
    <3>2. \A q \in called : 6 <= 3 * q[1] + q[2]
      BY <3>1
    <3> QED BY <2>1, <2>3, <2>4, <3>1, <3>2
  <2> QED BY <2>1, <2>4, <2>5, NodeKinds
<1>5. \/ nodes = <<>> \/ nodes = <<Junk, Good>>
      \/ \E leaf \in Leaves : nodes = <<leaf, Good>>
      \/ \E folder \in Folders : nodes = <<folder, Good>>
  BY ListShapes
<1> QED BY <1>1, <1>2, <1>3, <1>4, <1>5

\* What a probe tells.
LEMMA ProbesTell ==
  ASSUME NEW probe
  PROVE  /\ Available(probe) = IF probe.ok THEN Provided ELSE {}
         /\ SpeedsOf(probe) = IF probe.ok THEN {"fast"} ELSE {}
BY ParsedList, ParsedPresets DEF Available, SpeedsOf

-----------------------------------------------------------------------------
(* The components, and the path.                                          *)

\* The two callers, and what they ask for.
LEMMA Callers ==
  /\ Client \in Caller /\ Starter \in Caller /\ Client # Starter
  /\ \A c \in Caller : c = Client \/ c = Starter
  /\ "encoders" \in Key /\ "x264" \in Key /\ "encoders" # "x264"
BY AdmissionAssumption DEF AdmissionAssumption

\* Every step is one of ProbeCache or leaves it alone, and one of BodyLimit or
\* leaves it alone.
LEMMA ComponentSteps == [AdmissionNext]_allVars => [Next]_vars /\ [BodyNext]_bodyVars
<1> SUFFICES ASSUME [AdmissionNext]_allVars PROVE [Next]_vars /\ [BodyNext]_bodyVars
  OBVIOUS
<1>1. CASE UNCHANGED allVars
  BY <1>1 DEF allVars
<1>2. CASE GetHealth \/ (\E ok \in BOOLEAN : HandbrakeInfo(ok)) \/ SubmitJob \/ LookUp
           \/ Work \/ Finish \/ Move \/ Plant
  BY <1>2 DEF GetHealth, HandbrakeInfo, SubmitJob, LookUp, Work, Finish, Move, Plant
<1>3. CASE ListEncoders \/ ListPresets \/ CheckEncoder \/ RefuseEncoder \/ CheckSpeed
  <2>1. Return(Client) /\ UNCHANGED bodyVars
    BY <1>3 DEF ListEncoders, ListPresets, CheckEncoder, RefuseEncoder, CheckSpeed, Answered
  <2> QED BY <2>1, Callers DEF Next
<1>4. ASSUME NEW length \in 0..(MaxSize + 1) \cup {NoLength}, Submit(length)
      PROVE  [Next]_vars /\ [BodyNext]_bodyVars
  <2>1. UNCHANGED vars /\ Open(length)
    BY <1>4 DEF Submit
  <2> QED BY <1>4, <2>1 DEF BodyNext
<1>5. CASE Upload
  <2>1. UNCHANGED vars /\ (ClientGone \/ \E n \in 0..MaxSize, more \in BOOLEAN : Receive(n, more))
    BY <1>5 DEF Upload
  <2> QED BY <2>1 DEF BodyNext
<1>6. CASE BodyOver \/ Validate \/ GiveUp
  <2>1. UNCHANGED vars /\ Close
    BY <1>6 DEF BodyOver, Validate, GiveUp
  <2> QED BY <2>1 DEF BodyNext
<1>7. CASE StartupProbe \/ Asks
  <2>1. UNCHANGED bodyVars /\ \E c \in Caller, k \in Key : Lookup(c, k)
    BY <1>7, Callers DEF StartupProbe, Asks, Ask
  <2> QED BY <2>1 DEF Next
<1>8. CASE Probes \/ RequestRaises
  <2>1. UNCHANGED bodyVars /\ Next
    BY <1>8, Callers DEF Probes, RequestRaises, Next
  <2> QED BY <2>1
<1> QED BY <1>1, <1>2, <1>3, <1>4, <1>5, <1>6, <1>7, <1>8 DEF AdmissionNext

\* What POST /jobs calls a valid path lies inside the roots, and so does what is
\* derived from it.
LEMMA ValidIsInside ==
  ASSUME PathInv, ValidateSourcePath = "valid"
  PROVE  /\ roots # {} /\ SubSeq(real, 1, 1) = Root
         /\ Front(Derive(real, "output")) = Front(real)
<1>1. roots = {Root} /\ IsPrefix(Root, real) /\ real \in Seq(STRING)
  <2>1. roots # {} /\ \E root \in roots : IsPrefix(root, real)
    BY DEF ValidateSourcePath, IsWithin
  <2>2. real \in Seq(STRING)
    BY AdmissionAssumption DEF AdmissionAssumption, PathInv
  <2> QED BY <2>1, <2>2 DEF PathInv
<1>2. Len(Root) = 1 /\ SubSeq(Root, 1, 1) = Root
  <2>1. Root \in Seq({"media1"}) /\ Len(Root) = 1
    BY DEF Root
  <2> QED BY <2>1, SubSeqFull
<1>3. Len(real) >= 1 /\ SubSeq(real, 1, 1) = Root
  BY <1>1, <1>2 DEF IsPrefix
<1>4. Front(Derive(real, "output")) = Front(real)
  <2> DEFINE S == STRING \cup {"output"}
             s == SubSeq(real, 1, Len(real) - 1)
  <2>0. Len(real) \in Nat /\ \A i \in 1..(Len(real) - 1) : real[i] \in S
    BY <1>1
  <2>1. s \in Seq(S) /\ "output" \in S
    <3> HIDE DEF S
    <3>1. s \in Seq(S)
      BY <2>0, SubSeqProperties
    <3> QED BY <3>1 DEF S
  <2> HIDE DEF s, S
  <2>2. /\ Append(s, "output") \in Seq(S) /\ Len(Append(s, "output")) = Len(s) + 1
        /\ \A i \in 1..Len(s) : Append(s, "output")[i] = s[i]
    BY <2>1
  <2>3. SubSeq(Append(s, "output"), 1, Len(s)) = s
    BY <2>1, <2>2, SeqEqual
  <2>4. Len(s) + 1 - 1 = Len(s)
    BY <2>1
  <2> QED BY <2>2, <2>3, <2>4 DEF Front, Derive, s
<1> QED BY <1>1, <1>3, <1>4

\* A path that is called outside the one root is no path below it.
LEMMA NotAllowedIsOutside ==
  ASSUME PathInv, roots # {}, ValidateSourcePath = "path_not_allowed"
  PROVE  ~IsPrefix(Root, real)
<1>1. roots = {Root} /\ (real = NoPath \/ ~IsPrefix(Root, real))
  BY DEF PathInv, ValidateSourcePath, IsWithin
<1>2. ~IsPrefix(Root, <<>>)
  BY DEF IsPrefix, Root
<1> QED BY <1>1, <1>2 DEF NoPath

-----------------------------------------------------------------------------
(* The steps.                                                             *)

\* The body comes to an end, or goes on.
LEMMA Uploaded == Upload => upload' \in {"reading", "cut", "whole"}
BY DEF Upload, ClientGone, Receive, Cut

\* The request and its job.
LEMMA RequestStep == AInv /\ [AdmissionNext]_allVars => RequestInv'
<1> SUFFICES ASSUME AInv, [AdmissionNext]_allVars PROVE RequestInv'
  OBVIOUS
<1> USE DEF AInv, RequestInv, CheckedInv
<1>1. CASE UNCHANGED allVars
  BY <1>1 DEF allVars, requestVars, jobVars
<1>2. CASE GetHealth
  BY <1>2 DEF GetHealth, jobVars, Documents
<1>3. ASSUME NEW ok \in BOOLEAN, HandbrakeInfo(ok) PROVE RequestInv'
  BY <1>3 DEF HandbrakeInfo, jobVars
<1>4. CASE ListEncoders \/ ListPresets \/ CheckEncoder \/ RefuseEncoder \/ CheckSpeed
  BY <1>4 DEF ListEncoders, ListPresets, CheckEncoder, RefuseEncoder, CheckSpeed, Refuse, jobVars
<1>11. CASE RequestRaises
  BY <1>11 DEF RequestRaises, jobVars
<1>5. ASSUME NEW length, Submit(length) PROVE RequestInv'
  BY <1>5 DEF Submit, Refuse, Documents
<1>6. CASE Upload
  BY <1>6, Uploaded DEF Upload, Refuse, requestVars, jobVars
<1>7. CASE BodyOver \/ Validate \/ GiveUp
  BY <1>7 DEF BodyOver, Validate, GiveUp, Refuse, requestVars, jobVars
<1>8. CASE SubmitJob \/ LookUp
  BY <1>8 DEF SubmitJob, LookUp, Refuse, jobVars
<1>9. CASE Work \/ Finish
  BY <1>9 DEF Work, Finish, requestVars
<1>10. CASE StartupProbe \/ Asks \/ Probes \/ Move \/ Plant
  BY <1>10 DEF StartupProbe, Asks, Ask, Probes, Move, Plant, requestVars, jobVars
<1> QED BY <1>1, <1>2, <1>3, <1>4, <1>5, <1>6, <1>7, <1>8, <1>9, <1>10, <1>11 DEF AdmissionNext

\* The checks of the route.
LEMMA CheckedStep == AInv /\ [AdmissionNext]_allVars => CheckedInv'
<1> SUFFICES ASSUME AInv, [AdmissionNext]_allVars PROVE CheckedInv'
  OBVIOUS
<1> USE DEF AInv, RequestInv, CheckedInv
<1>0. ASSUME real' = real, roots' = roots PROVE ValidateSourcePath' = ValidateSourcePath
  BY <1>0 DEF ValidateSourcePath
<1>1. CASE UNCHANGED allVars
  BY <1>0, <1>1 DEF allVars, requestVars, jobVars, fileVars
<1>2. CASE GetHealth
  BY <1>0, <1>2 DEF GetHealth, jobVars, fileVars
<1>3. ASSUME NEW ok \in BOOLEAN, HandbrakeInfo(ok) PROVE CheckedInv'
  BY <1>0, <1>3 DEF HandbrakeInfo, jobVars, fileVars
<1>13. CASE RequestRaises \/ Plant \/ GiveUp
  BY <1>0, <1>13 DEF RequestRaises, Plant, GiveUp, Refuse, requestVars, jobVars, fileVars
<1>4. CASE ListEncoders \/ ListPresets \/ CheckEncoder \/ RefuseEncoder \/ CheckSpeed
  BY <1>0, <1>4, ProbesTell DEF ListEncoders, ListPresets, CheckEncoder, RefuseEncoder, CheckSpeed,
                    Answered, Refuse, jobVars, fileVars
<1>5. ASSUME NEW length, Submit(length) PROVE CheckedInv'
  BY <1>0, <1>5 DEF Submit, Refuse, fileVars
<1>6. CASE Upload
  BY <1>0, <1>6, Uploaded DEF Upload, Refuse, requestVars, jobVars, fileVars
<1>7. CASE BodyOver
  BY <1>0, <1>7 DEF BodyOver, requestVars, jobVars, fileVars
<1>8. CASE Validate
  BY <1>0, <1>8 DEF Validate, Refuse, jobVars
<1>9. CASE SubmitJob \/ LookUp
  BY <1>0, <1>9 DEF SubmitJob, LookUp, Refuse, jobVars, fileVars
<1>10. CASE Work \/ Finish
  BY <1>0, <1>10 DEF Work, Finish, requestVars, fileVars
<1>11. CASE StartupProbe \/ Asks \/ Probes
  BY <1>0, <1>11 DEF StartupProbe, Asks, Ask, Probes, requestVars, jobVars, fileVars
<1>12. CASE Move
  BY <1>12 DEF Move, requestVars, jobVars
<1> QED BY <1>1, <1>2, <1>3, <1>4, <1>5, <1>6, <1>7, <1>8, <1>9, <1>10, <1>11, <1>12,
       <1>13 DEF AdmissionNext

\* What the client has asked for.
LEMMA AskStep == AInv /\ [AdmissionNext]_allVars => AskInv'
<1> SUFFICES ASSUME AInv, [AdmissionNext]_allVars PROVE AskInv'
  OBVIOUS
<1> USE Callers DEF AInv, AdmissionTypeOK, AskInv, TypeOK
<1>1. CASE UNCHANGED allVars
  BY <1>1 DEF allVars, requestVars, vars
<1>2. CASE GetHealth \/ (\E ok \in BOOLEAN : HandbrakeInfo(ok)) \/ Upload \/ BodyOver \/ Validate
           \/ SubmitJob \/ LookUp \/ Work \/ Finish \/ Move \/ Plant \/ GiveUp
           \/ \E length \in 0..(MaxSize + 1) \cup {NoLength} : Submit(length)
  BY <1>2 DEF GetHealth, HandbrakeInfo, Upload, BodyOver, Validate, SubmitJob, LookUp, Work, Finish,
              Move, Plant, GiveUp, Submit, Refuse, requestVars, vars
<1>3. CASE ListEncoders \/ ListPresets \/ CheckEncoder \/ RefuseEncoder \/ CheckSpeed
  BY <1>3 DEF ListEncoders, ListPresets, CheckEncoder, RefuseEncoder, CheckSpeed, Answered, Return,
              Over, Go, Refuse
<1>9. CASE RequestRaises
  BY <1>9 DEF RequestRaises, ProbeRaises, Over, Go
<1>4. CASE StartupProbe
  BY <1>4 DEF StartupProbe, Lookup, Go, requestVars
<1>5. CASE Asks
  BY <1>5 DEF Asks, Ask, Lookup, Go, requestVars
<1>6. ASSUME NEW c \in Caller, (\E ok \in BOOLEAN : Probe(c, ok)) \/ Store(c), UNCHANGED at
      PROVE  AskInv'
  BY <1>6 DEF Probe, Store, Go
<1>7. ASSUME Return(Starter) \/ ProbeRaises(Starter) \/ Reset, UNCHANGED at PROVE AskInv'
  BY <1>7 DEF Return, ProbeRaises, Over, Reset, Go
<1>8. CASE Probes
  BY <1>6, <1>7, <1>8 DEF Probes, requestVars
<1> QED BY <1>1, <1>2, <1>3, <1>4, <1>5, <1>8, <1>9 DEF AdmissionNext

\* A reset makes what /health has told worthless.
LEMMA StillListed == Probes /\ listed' => listed /\ generation' = generation
BY Zenon DEF Probes

\* A probe that comes to its end while the list is good is for something else.
LEMMA ListProbes == ASSUME AInv, Probes, listed' PROVE ListInv'
<1>1. listed /\ generation' = generation
  BY StillListed
<1>2. TypeOK /\ ListInv
  BY DEF AInv, AdmissionTypeOK
<1> USE Callers DEF ListInv
<1>3. UNCHANGED <<roots, at, doc>> /\ ~Reset
  <2>1. generation \in Nat
    BY <1>2, ProbeAssumption DEF ProbeAssumption, TypeOK
  <2> QED BY <1>1, <2>1 DEF Probes, Reset, requestVars
<1>4. ASSUME NEW c \in Caller, NEW ok \in BOOLEAN, Probe(c, ok) PROVE ListInv'
  BY <1>1, <1>2, <1>3, <1>4 DEF Probe, Go, TypeOK
<1>5. ASSUME NEW c \in Caller, Store(c) PROVE ListInv'
  <2>1. key[c] \in Key /\ key[c] # "encoders" /\ pc[c] = "store"
    BY <1>1, <1>2, <1>5 DEF Store, Go, TypeOK
  <2>2. cache'["encoders"] = cache["encoders"]
    <3>1. CASE StillCurrent(c)
      BY <1>2, <1>5, <2>1, <3>1 DEF Store, TypeOK
    <3>2. CASE ~StillCurrent(c)
      BY <1>5, <3>2 DEF Store
    <3> QED BY <3>1, <3>2
  <2> QED BY <1>1, <1>2, <1>3, <1>5, <2>1, <2>2 DEF Store, Go, TypeOK
<1>6. CASE Return(Starter) \/ ProbeRaises(Starter)
  BY <1>1, <1>2, <1>3, <1>6 DEF Return, ProbeRaises, Over, Go, TypeOK
<1> QED BY <1>3, <1>4, <1>5, <1>6 DEF Probes

\* The good list stays, and so do the roots.
LEMMA ListStep == AInv /\ [AdmissionNext]_allVars => ListInv'
<1> SUFFICES ASSUME AInv, [AdmissionNext]_allVars, listed' PROVE ListInv'
  BY DEF ListInv
<1> USE Callers DEF AInv, AdmissionTypeOK, ListInv
<1>1. CASE UNCHANGED allVars
  BY <1>1 DEF allVars, requestVars, healthVars, vars
<1>2. CASE GetHealth \/ (\E ok \in BOOLEAN : HandbrakeInfo(ok)) \/ Upload \/ BodyOver \/ Validate
           \/ SubmitJob \/ LookUp \/ Work \/ Finish \/ Move \/ Plant \/ GiveUp
           \/ \E length \in 0..(MaxSize + 1) \cup {NoLength} : Submit(length)
  <2>1. UNCHANGED <<vars, roots, listed>> /\ (at' = "refusal" => at = "refusal" /\ doc' = doc)
    BY <1>2, Uploaded DEF GetHealth, HandbrakeInfo, Upload, BodyOver, Validate, SubmitJob, LookUp,
          Work, Finish, Move, Plant, GiveUp, Submit, Refuse, requestVars, healthVars
  <2> QED BY <2>1 DEF vars
<1>3. CASE ListEncoders
  <2>1. found[Client] = cache["encoders"] /\ found[Client].ok /\ roots # {}
        /\ pc[Starter] \notin {"probe", "store"}
    BY <1>3, ProbesTell DEF ListEncoders, Reasons
  <2>2. /\ pc' = [pc EXCEPT ![Client] = "idle"] /\ UNCHANGED <<cache, roots>>
        /\ at' # "refusal" /\ found[Client] \in Answer
    BY <1>3 DEF ListEncoders, Answered, Return, Over, Go, TypeOK
  <2> QED BY <2>1, <2>2 DEF TypeOK
<1>4. CASE ListPresets \/ CheckEncoder \/ RefuseEncoder \/ CheckSpeed
  <2>1. /\ pc' = [pc EXCEPT ![Client] = "idle"] /\ key' = [key EXCEPT ![Client] = None]
        /\ UNCHANGED <<cache, roots, listed, doc>> /\ pc[Client] = "answered"
    BY <1>4 DEF ListPresets, CheckEncoder, RefuseEncoder, CheckSpeed, Answered, Return, Over, Go,
                healthVars
  <2>2. at' = "refusal" => FindPreset(doc).encoder \notin Provided
    BY <1>4, <2>1, ProbesTell DEF ListPresets, CheckEncoder, RefuseEncoder, CheckSpeed, Refuse, AskInv
  <2> QED BY <2>1, <2>2 DEF TypeOK
<1>5. CASE StartupProbe \/ Asks
  <2>1. UNCHANGED <<listed, roots, cache, at, doc>>
    BY <1>5 DEF StartupProbe, Asks, Ask, Lookup, requestVars, healthVars
  <2>2. Cached("encoders")
    BY <2>1, AdmissionAssumption DEF AdmissionAssumption, Cached
  <2>3. PICK c \in Caller, k \in Key : Lookup(c, k) /\ (c = Starter => k = "encoders")
    BY <1>5 DEF StartupProbe, Asks, Ask
  <2>4. \A d \in Caller : pc'[d] \in {"probe", "store"} => d # Starter /\ key'[d] # "encoders"
    BY <2>1, <2>2, <2>3 DEF Lookup, Go, TypeOK
  <2>5. pc'[Client] = "answered" /\ key'[Client] = "encoders" => found'[Client] = cache["encoders"]
    BY <2>1, <2>2, <2>3 DEF Lookup, Go, TypeOK
  <2> QED BY <2>1, <2>4, <2>5
<1>6. CASE Probes
  BY <1>6, ListProbes
<1>7. CASE RequestRaises
  <2>1. /\ pc' = [pc EXCEPT ![Client] = "idle"] /\ key' = [key EXCEPT ![Client] = None]
        /\ UNCHANGED <<cache, roots, listed, doc>> /\ at' = "idle"
    BY <1>7 DEF RequestRaises, ProbeRaises, Over, Go, healthVars
  <2> QED BY <2>1 DEF TypeOK
<1> QED BY <1>1, <1>2, <1>3, <1>4, <1>5, <1>6, <1>7 DEF AdmissionNext

\* The path leads where it may.
LEMMA PathStep == AInv /\ [AdmissionNext]_allVars => PathInv'
<1> SUFFICES ASSUME AInv, [AdmissionNext]_allVars PROVE PathInv'
  OBVIOUS
<1>1. roots' = roots /\ (real' = real \/ real' \in Real)
  BY DEF AdmissionNext, GetHealth, HandbrakeInfo, ListEncoders, ListPresets, Submit, Upload, BodyOver,
         RequestRaises, GiveUp, Plant, Validate, CheckEncoder, RefuseEncoder, CheckSpeed, SubmitJob, LookUp, Work, Finish,
         StartupProbe, Asks, Ask, Answered, Probes, Move, fileVars, allVars
<1> QED BY <1>1 DEF AInv, PathInv

\* The types.
LEMMA AdmissionTypeStep ==
  AInv /\ RequestInv' /\ CheckedInv' /\ TypeOK' /\ BodyTypeOK' /\ [AdmissionNext]_allVars
  => AdmissionTypeOK'
<1> SUFFICES ASSUME AInv, RequestInv', CheckedInv', TypeOK', BodyTypeOK', [AdmissionNext]_allVars
             PROVE  AdmissionTypeOK'
  OBVIOUS
<1> DEFINE Stations == {"idle", "info", "list", "list presets", "body", "route", "encoder", "refusal",
                       "speed", "submit", "look"}
<1>3. link' \in Real \cup {None}
  BY DEF AInv, AdmissionTypeOK, PathInv, AdmissionNext, GetHealth, HandbrakeInfo, ListEncoders,
         ListPresets, Submit, Upload, BodyOver, RequestRaises, GiveUp, Plant, Validate, CheckEncoder,
         RefuseEncoder, CheckSpeed, SubmitJob, LookUp, Work, Finish, StartupProbe, Asks, Ask, Answered,
         Probes, Move, fileVars, allVars
<1>1. at' \in Stations /\ answer' \in Codes \cup {None} /\ info' \in BOOLEAN \cup {None}
      /\ listed' \in BOOLEAN /\ job' \in {"none", "stored", "working", "failed", "done"}
  <2> USE DEF AInv, AdmissionTypeOK, Codes
  <2>1. CASE GetHealth \/ (\E ok \in BOOLEAN : HandbrakeInfo(ok)) \/ ListEncoders \/ ListPresets
    BY <2>1 DEF GetHealth, HandbrakeInfo, ListEncoders, ListPresets, jobVars, healthVars
  <2>6. CASE RequestRaises \/ GiveUp \/ Plant
    BY <2>6 DEF RequestRaises, GiveUp, Plant, Refuse, requestVars, jobVars, healthVars
  <2>2. CASE Upload \/ BodyOver \/ \E length \in 0..(MaxSize + 1) \cup {NoLength} : Submit(length)
    BY <2>2, Uploaded DEF Upload, BodyOver, Submit, Refuse, requestVars, jobVars, healthVars
  <2>3. CASE Validate
    BY <2>3 DEF Validate, ValidateSourcePath, Refuse, jobVars, healthVars
  <2>4. CASE CheckEncoder \/ RefuseEncoder \/ CheckSpeed \/ SubmitJob \/ LookUp
    BY <2>4 DEF CheckEncoder, RefuseEncoder, CheckSpeed, SubmitJob, LookUp, Refuse, jobVars, healthVars
  <2>5. CASE Work \/ Finish
    BY <2>5 DEF Work, Finish, requestVars, healthVars
  <2>7. CASE StartupProbe \/ Move \/ UNCHANGED allVars
    <3>1. UNCHANGED <<at, answer, info, listed, job>>
      BY <2>7 DEF StartupProbe, Move, requestVars, jobVars, healthVars, allVars
    <3> QED BY <3>1
  <2>8. CASE Asks \/ Probes
    <3>1. listed' = listed \/ listed' = (listed /\ generation' = generation)
      BY <2>8 DEF Asks, Ask, Probes, healthVars
    <3>2. UNCHANGED <<requestVars, jobVars, info>>
      BY <2>8 DEF Asks, Ask, Probes, healthVars
    <3> QED BY <3>1, <3>2 DEF requestVars, jobVars
  <2> QED BY <2>1, <2>2, <2>3, <2>4, <2>5, <2>6, <2>7, <2>8 DEF AdmissionNext
<1>2. job' = "working" => encoding'.preset \in Leaves
  <2> SUFFICES ASSUME job' = "working" PROVE encoding'.preset \in Leaves
    OBVIOUS
  <2>1. encoding'.preset = FindPreset(doc') /\ RouteAccepts(FindPreset(doc')) /\ doc' \in Documents
    BY DEF RequestInv, CheckedInv
  <2> QED BY <2>1, FirstLeaf DEF RouteAccepts
<1> QED BY <1>1, <1>2, <1>3 DEF AdmissionTypeOK

\* A path that is not valid any more is the first thing the worker refuses, and a
\* reason of its own.
LEMMA RefusedForPath ==
  Revalidated # "valid" => Refusal = Revalidated /\ Refusal # "preset" /\ Refusal # None
<1>1. Revalidated \in {"valid"} \cup Codes
  BY DEF Revalidated, ValidateSourcePath, Codes
<1>2. Revalidated # "valid" => Refusal = Revalidated
  BY DEF Refusal
<1> QED BY <1>1, <1>2, AdmissionAssumption DEF AdmissionAssumption, Codes

\* What was accepted.
LEMMA AcceptedStep == AInv /\ [AdmissionNext]_allVars => AcceptedIsRunnable'
<1> SUFFICES ASSUME AInv, [AdmissionNext]_allVars PROVE AcceptedIsRunnable'
  OBVIOUS
<1> USE DEF AInv, AcceptedIsRunnable
<1>1. CASE Work
  <2>1. RouteAccepts(FindPreset(doc)) /\ FindPreset(doc).encoder \in Provided
        /\ moved' = moved /\ link' = link /\ (~moved => ValidateSourcePath = "valid")
    BY <1>1 DEF Work, CheckedInv, fileVars
  <2>2. WorkerAccepts(FindPreset(doc))
    BY <2>1 DEF RouteAccepts, WorkerAccepts
  <2>3. /\ encoding'.preset = FindPreset(doc) /\ encoding'.source = real
        /\ encoding'.why = Refusal
    BY <1>1 DEF Work
  <2>4. Revalidated # "valid" => Refusal = Revalidated /\ Refusal # "preset"
    BY RefusedForPath
  <2>5. Revalidated = "valid" => Refusal = IF Collides THEN "collision" ELSE None
    BY <2>2 DEF Refusal
  <2>6. CASE Revalidated # "valid"
    BY <2>1, <2>3, <2>4, <2>6 DEF Revalidated
  <2>7. CASE Revalidated = "valid"
    BY <2>1, <2>3, <2>5, <2>7 DEF Collides
  <2> QED BY <2>6, <2>7
<1>2. CASE Finish \/ \E length \in 0..(MaxSize + 1) \cup {NoLength} : Submit(length)
  BY <1>2 DEF Finish, Submit
<1>3. CASE Validate
  BY <1>3 DEF Validate, RequestInv, jobVars
<1>4. CASE Move
  BY <1>4 DEF Move, jobVars
<1>9. CASE Plant
  BY <1>9 DEF Plant, RequestInv, jobVars
<1>5. CASE UNCHANGED <<encoding, moved, link>>
  BY <1>5
<1>6. CASE SubmitJob \/ LookUp \/ Upload \/ BodyOver \/ RequestRaises \/ GiveUp
  BY <1>5, <1>6 DEF SubmitJob, LookUp, Upload, BodyOver, RequestRaises, GiveUp, jobVars, fileVars
<1>7. CASE GetHealth \/ (\E ok \in BOOLEAN : HandbrakeInfo(ok)) \/ ListEncoders \/ ListPresets
           \/ CheckEncoder \/ RefuseEncoder \/ CheckSpeed
  BY <1>5, <1>7 DEF GetHealth, HandbrakeInfo, ListEncoders, ListPresets, CheckEncoder, RefuseEncoder,
                    CheckSpeed, Answered, jobVars, fileVars
<1>8. CASE StartupProbe \/ Asks \/ Probes \/ UNCHANGED allVars
  BY <1>5, <1>8 DEF StartupProbe, Asks, Ask, Probes, jobVars, fileVars, allVars
<1> QED BY <1>1, <1>2, <1>3, <1>4, <1>6, <1>7, <1>8, <1>9 DEF AdmissionNext

\* What is encoded.
LEMMA InsideStep == AInv /\ [AdmissionNext]_allVars => EncodedIsInside'
<1> SUFFICES ASSUME AInv, [AdmissionNext]_allVars, job' = "working" PROVE EncodedIsInside'
  BY DEF EncodedIsInside
<1>1. CASE Work
  <2>0. Refusal = None
    BY <1>1 DEF Work
  <2>1. Revalidated = "valid" /\ roots' = roots
        /\ encoding'.source = real /\ encoding'.output = Derive(real, "output")
    <3>1. Revalidated # "valid" => Refusal = Revalidated /\ Refusal # None
      BY RefusedForPath
    <3> QED BY <1>1, <2>0, <3>1 DEF Work
  <2>2. roots # {} /\ SubSeq(real, 1, 1) = Root /\ Front(Derive(real, "output")) = Front(real)
    BY <2>1, ValidIsInside DEF AInv, Revalidated
  <2> QED BY <2>1, <2>2 DEF EncodedIsInside
<1>2. CASE ~Work
  <2>1. job = "working" /\ encoding' = encoding /\ roots' = roots
    <3> USE DEF AInv, RequestInv
    <3>1. CASE Finish \/ (\E length \in 0..(MaxSize + 1) \cup {NoLength} : Submit(length)) \/ SubmitJob
      BY <3>1 DEF Finish, Submit, SubmitJob
    <3>2. CASE LookUp \/ Upload \/ BodyOver \/ Validate \/ Move \/ Plant \/ GiveUp \/ RequestRaises
      BY <3>2 DEF LookUp, Upload, BodyOver, Validate, Move, Plant, GiveUp, RequestRaises, jobVars
    <3>3. CASE GetHealth \/ (\E ok \in BOOLEAN : HandbrakeInfo(ok)) \/ ListEncoders \/ ListPresets
               \/ CheckEncoder \/ RefuseEncoder \/ CheckSpeed
      BY <3>3 DEF GetHealth, HandbrakeInfo, ListEncoders, ListPresets, CheckEncoder, RefuseEncoder,
                  CheckSpeed, Answered, jobVars
    <3>4. CASE StartupProbe \/ Asks \/ Probes \/ UNCHANGED allVars
      BY <3>4 DEF StartupProbe, Asks, Ask, Probes, jobVars, allVars
    <3> QED BY <1>2, <3>1, <3>2, <3>3, <3>4 DEF AdmissionNext
  <2> QED BY <2>1 DEF AInv, EncodedIsInside
<1> QED BY <1>1, <1>2

\* A refusal and the job.
LEMMA RefusedStep == AInv /\ [AdmissionNext]_allVars => RefusedLeavesNoJob'
<1> SUFFICES ASSUME AInv, [AdmissionNext]_allVars PROVE RefusedLeavesNoJob'
  OBVIOUS
<1> USE DEF AInv, RequestInv, RefusedLeavesNoJob
<1>1. CASE GetHealth \/ (\E ok \in BOOLEAN : HandbrakeInfo(ok)) \/ ListEncoders \/ ListPresets
  BY <1>1 DEF GetHealth, HandbrakeInfo, ListEncoders, ListPresets
<1>2. CASE Upload \/ BodyOver \/ \E length \in 0..(MaxSize + 1) \cup {NoLength} : Submit(length)
  BY <1>2 DEF Upload, BodyOver, Submit, requestVars, jobVars
<1>7. CASE RequestRaises \/ GiveUp \/ Plant
  BY <1>7 DEF RequestRaises, GiveUp, Plant, Refuse, requestVars, jobVars
<1>3. CASE Validate \/ CheckEncoder \/ RefuseEncoder \/ CheckSpeed
  BY <1>3 DEF Validate, CheckEncoder, RefuseEncoder, CheckSpeed, jobVars
<1>4. CASE SubmitJob \/ LookUp
  BY <1>4 DEF SubmitJob, LookUp, NotStored, Refuse, jobVars
<1>5. CASE Work \/ Finish
  BY <1>5 DEF Work, Finish, requestVars
<1>6. CASE StartupProbe \/ Asks \/ Probes \/ Move \/ UNCHANGED allVars
  BY <1>6 DEF StartupProbe, Asks, Ask, Probes, Move, requestVars, jobVars, allVars
<1> QED BY <1>1, <1>2, <1>3, <1>4, <1>5, <1>6, <1>7 DEF AdmissionNext

\* A refusal for the speed preset: the probe has told its list, and it is not there.
LEMMA SpeedIsRefused ==
  ASSUME AInv, CheckSpeed, answer' # None
  PROVE  /\ answer' = "invalid_video_preset" /\ doc' = doc
         /\ FindPreset(doc).speed \notin {" fast ", " "}
<1>1. at = "speed" /\ answer = None
  BY DEF AInv, RequestInv, CheckSpeed
<1>2. answer' = "invalid_video_preset" /\ doc' = doc
      /\ RefusesSpeed(VideoPreset(FindPreset(doc)), SpeedsOf(found[Client]))
  BY <1>1 DEF CheckSpeed, Refuse
<1>3. SpeedsOf(found[Client]) = {"fast"}
  BY <1>2, ProbesTell DEF RefusesSpeed
<1> QED BY <1>2, <1>3 DEF RefusesSpeed, VideoPreset

\* A refusal is of the step that answers, or was true before.
LEMMA TruthStep == AInv /\ [AdmissionNext]_allVars => RefusalsAreTrue'
<1> SUFFICES ASSUME AInv, [AdmissionNext]_allVars PROVE RefusalsAreTrue'
  OBVIOUS
<1> DEFINE Refusals == {"invalid_video_preset", "encoder_unavailable", "path_not_allowed"}
<1>0. /\ None \notin Refusals
      /\ at # "idle" => answer = None
  BY AdmissionAssumption DEF AdmissionAssumption, Codes, AInv, RequestInv
<1>1. ASSUME answer' \notin Refusals PROVE RefusalsAreTrue'
  BY <1>1 DEF RefusalsAreTrue
<1>2. ASSUME UNCHANGED <<answer, doc, real, moved>>, listed' => listed PROVE RefusalsAreTrue'
  BY <1>2 DEF AInv, RefusalsAreTrue
<1> HIDE DEF Refusals
<1>3. CASE GetHealth \/ (\E ok \in BOOLEAN : HandbrakeInfo(ok)) \/ ListEncoders \/ ListPresets
           \/ CheckEncoder
  <2>1. answer' = None
    BY <1>0, <1>3 DEF GetHealth, HandbrakeInfo, ListEncoders, ListPresets, CheckEncoder
  <2> QED BY <1>0, <1>1, <2>1
<1>4. CASE Upload \/ SubmitJob \/ LookUp \/ GiveUp \/ RequestRaises
           \/ \E length \in 0..(MaxSize + 1) \cup {NoLength} : Submit(length)
  <2>1. answer' \in {None, "cut off", "invalid_request", "queue_full", "service_unavailable",
                     "accepted", "request_too_large", "probe_error"}
    BY <1>0, <1>4, Uploaded DEF Upload, SubmitJob, LookUp, Submit, GiveUp, RequestRaises, Refuse,
                                requestVars
  <2>2. answer' \notin Refusals
    BY <1>0, <2>1 DEF Refusals
  <2> QED BY <1>1, <2>2
<1>5. CASE Validate
  <2>1. answer' # "path_not_allowed" => answer' \notin Refusals
    BY <1>0, <1>5 DEF Validate, Refuse, ValidateSourcePath, Refusals
  <2>2. ASSUME answer' = "path_not_allowed", listed' PROVE ~IsPrefix(Root, real')
    <3>1. listed /\ real' = real
      BY <1>5, <2>2, Zenon DEF Validate, healthVars
    <3>2. ValidateSourcePath = "path_not_allowed"
      BY <1>0, <1>5, <2>2 DEF Validate, Refuse, Refusals
    <3>3. roots # {}
      BY <3>1 DEF AInv, ListInv
    <3> QED BY <3>1, <3>2, <3>3, NotAllowedIsOutside DEF AInv
  <2>3. CASE answer' = "path_not_allowed"
    BY <2>2, <2>3 DEF RefusalsAreTrue
  <2> QED BY <1>1, <2>1, <2>3
<1>6. CASE RefuseEncoder
  <2>1. answer' = "encoder_unavailable" /\ doc' = doc /\ at = "refusal"
    BY <1>6 DEF RefuseEncoder, Refuse
  <2>2. listed' => listed
    BY <1>6, Zenon DEF RefuseEncoder, healthVars
  <2>3. listed => FindPreset(doc).encoder \notin Provided
    BY <2>1 DEF AInv, ListInv
  <2> QED BY <2>1, <2>2, <2>3 DEF RefusalsAreTrue
<1>7. CASE CheckSpeed
  <2>1. CASE answer' = None
    BY <1>0, <1>1, <2>1
  <2>2. CASE answer' # None
    BY <1>7, <2>2, SpeedIsRefused DEF RefusalsAreTrue
  <2> QED BY <2>1, <2>2
<1>8. CASE BodyOver \/ Work \/ Finish \/ Plant \/ UNCHANGED allVars
  <2>1. UNCHANGED <<answer, doc, real, moved>>
    BY <1>8 DEF BodyOver, Work, Finish, Plant, requestVars, fileVars, allVars
  <2>2. listed' => listed
    BY <1>8, Zenon DEF BodyOver, Work, Finish, Plant, healthVars, allVars
  <2> QED BY <1>2, <2>1, <2>2
<1>9. CASE StartupProbe \/ Asks
  <2>1. UNCHANGED <<answer, doc, real, moved>>
    BY <1>9 DEF StartupProbe, Asks, Ask, requestVars, fileVars
  <2>2. listed' => listed
    BY <1>9, Zenon DEF StartupProbe, Asks, Ask, healthVars
  <2> QED BY <1>2, <2>1, <2>2
<1>10. CASE Probes
  <2>1. UNCHANGED <<answer, doc, real, moved>>
    BY <1>10 DEF Probes, requestVars, fileVars
  <2>2. listed' => listed
    BY <1>10, StillListed
  <2> QED BY <1>2, <2>1, <2>2
<1>11. CASE Move
  <2>1. UNCHANGED <<answer, doc>> /\ moved'
    BY <1>11, Zenon DEF Move, requestVars
  <2>2. listed' => listed
    BY <1>11, Zenon DEF Move, healthVars
  <2> QED BY <2>1, <2>2 DEF AInv, RefusalsAreTrue
<1> QED BY <1>3, <1>4, <1>5, <1>6, <1>7, <1>8, <1>9, <1>10, <1>11 DEF AdmissionNext

\* Nothing has been asked for at first.
LEMMA AInvInit == AdmissionInit => AInv
<1> SUFFICES ASSUME AdmissionInit PROVE AInv
  OBVIOUS
<1> USE DEF AdmissionInit
<1>1. Inv /\ BodyInv
  BY InvInit, BodyInvInit
<1>2. TypeOK /\ BodyTypeOK
  BY <1>1 DEF Inv, BodyInv
<1>3. AdmissionTypeOK
  BY <1>2 DEF AdmissionTypeOK
<1>4. RequestInv /\ CheckedInv
  BY DEF RequestInv, CheckedInv, Documents
<1>5. AskInv
  BY Callers DEF AskInv, Init
<1>6. ListInv /\ PathInv
  BY DEF ListInv, PathInv
<1>7. AcceptedIsRunnable /\ EncodedIsInside /\ RefusedLeavesNoJob /\ RefusalsAreTrue
  BY AdmissionAssumption
     DEF AdmissionAssumption, AcceptedIsRunnable, EncodedIsInside, RefusedLeavesNoJob, RefusalsAreTrue,
         Codes
<1> QED BY <1>1, <1>3, <1>4, <1>5, <1>6, <1>7 DEF AInv

\* No step breaks the invariant.
LEMMA AInvStep == AInv /\ [AdmissionNext]_allVars => AInv'
<1> SUFFICES ASSUME AInv, [AdmissionNext]_allVars PROVE AInv'
  OBVIOUS
<1>1. Inv' /\ BodyInv'
  BY ComponentSteps, InvStep, BodyInvStep DEF AInv
<1>2. TypeOK' /\ BodyTypeOK'
  BY <1>1 DEF Inv, BodyInv
<1>3. RequestInv' /\ CheckedInv' /\ AskInv' /\ ListInv' /\ PathInv'
  BY RequestStep, CheckedStep, AskStep, ListStep, PathStep
<1>4. AdmissionTypeOK'
  BY <1>2, <1>3, AdmissionTypeStep
<1>5. AcceptedIsRunnable' /\ EncodedIsInside' /\ RefusedLeavesNoJob' /\ RefusalsAreTrue'
  BY AcceptedStep, InsideStep, RefusedStep, TruthStep
<1> QED BY <1>1, <1>3, <1>4, <1>5 DEF AInv

\* The invariant of the composition: those of the two components, the request's
\* progress, what has been checked, and what /health has told.
THEOREM AdmissionInvariant == AdmissionSpec => []AInv
<1> QED BY AInvInit, AInvStep, PTL DEF AdmissionSpec

\* The types of the composition.
THEOREM AdmissionTypeCorrect == AdmissionSpec => []AdmissionTypeOK
<1>1. AInv => AdmissionTypeOK
  BY DEF AInv
<1> QED BY <1>1, AdmissionInvariant, PTL

\* GET /health and POST /jobs use the cached probes as the model of the cache lets
\* a caller, and the middleware as the model of the body limit lets it.
THEOREM UsesComponents == AdmissionSpec => Spec /\ BodySpec
<1>1. AdmissionInit => Init /\ BodyInit
  BY DEF AdmissionInit
<1>2. [AdmissionNext]_allVars => [Next]_vars /\ [BodyNext]_bodyVars
  BY ComponentSteps
<1> QED BY <1>1, <1>2, PTL DEF AdmissionSpec, Spec, BodySpec

\* So what is proved of the two holds here: no answer is stale, and the application
\* is given no more of a body than the limit, all of it or an error, and all of one
\* that fits.
THEOREM ComponentsHold ==
  AdmissionSpec => [](NoStaleAnswer /\ BodyWithinLimit /\ WholeIsComplete /\ FittingIsServed)
<1> QED BY UsesComponents, NeverStale, BodyStaysWithinLimit, WholeBodyIsComplete, FittingBodyIsServed,
           PTL

\* Whatever the limit, the paths, and the order in which the two threads probe: a
\* job that post_job has accepted fails at the checks of run_encode_job only for a
\* path that has changed, and its encoder is one that HandBrakeCLI provides.
THEOREM AcceptedRuns == AdmissionSpec => []AcceptedIsRunnable
<1>1. AInv => AcceptedIsRunnable
  BY DEF AInv
<1> QED BY <1>1, AdmissionInvariant, PTL

\* Wherever a path may lead, the worker's own check keeps HandBrakeCLI inside the
\* roots, and what is derived from the path beside it.
THEOREM EncodesInside == AdmissionSpec => []EncodedIsInside
<1>1. AInv => EncodedIsInside
  BY DEF AInv
<1> QED BY <1>1, AdmissionInvariant, PTL

\* find_preset takes the first leaf of the name, and the worker the one that the
\* route has looked at.
THEOREM EncodesFirstLeaf == AdmissionSpec => []PresetIsFirstLeaf
<1>1. AInv => PresetIsFirstLeaf
  <2> SUFFICES ASSUME AInv, job = "working" PROVE PresetIsFirstLeaf
    BY DEF PresetIsFirstLeaf
  <2>1. doc \in Documents /\ encoding.preset = FindPreset(doc) /\ FindPreset(doc) # NoPreset
    BY DEF AInv, RequestInv, CheckedInv, RouteAccepts
  <2>2. doc # <<>>
    <3>1. FindPreset(<<>>) = FirstCalled(<<>>)
      BY Walked DEF FindPreset
    <3>2. FirstCalled(<<>>) = NoPreset
      BY DEF FirstCalled
    <3> QED BY <2>1, <3>1, <3>2
  <2> QED BY <2>1, <2>2, FirstLeaf DEF PresetIsFirstLeaf
<1> QED BY <1>1, AdmissionInvariant, PTL

\* A request that is refused leaves no job behind.
THEOREM RefusesWithoutJob == AdmissionSpec => []RefusedLeavesNoJob
<1>1. AInv => RefusedLeavesNoJob
  BY DEF AInv
<1> QED BY <1>1, AdmissionInvariant, PTL

\* No refusal of a speed preset comes of a failed probe, and while /health's good
\* word holds, none of an encoder or a path is false.
THEOREM RefusesTruly == AdmissionSpec => []RefusalsAreTrue
<1>1. AInv => RefusalsAreTrue
  BY DEF AInv
<1> QED BY <1>1, AdmissionInvariant, PTL
=============================================================================
