------------------------- MODULE StackerBuildProofs -------------------------
(***************************************************************************)
(* Proofs about StackerBuild for any number of layers, images, versions    *)
(* and invocations.  With all faults: the type invariant, that every layer *)
(* a root filesystem mounts has its directory (ManifestsUnpacked), and,    *)
(* while the layer types stay the same, that the images a cache entry      *)
(* names are made of what the entry says (CacheDescribesImage).  For       *)
(* orderly stackerfiles: a build with --no-cache that succeeds gives what  *)
(* a build from nothing would, whatever happened before, if no image it    *)
(* starts from was left half extracted (ColdBuildIsFresh), and so does     *)
(* every build if nothing fails or is killed (ImagesFresh), in which case  *)
(* no invocation fails (NoSpuriousFailure).                                *)
(***************************************************************************)
EXTENDS StackerBuild, WellFoundedInduction, TLAPS, FiniteSetTheorems

\* The layers up to the k-th.
First(j) == {Order[i] : i \in 1..j}

DirFields == {"upper", "meta", "odDir"}
MetaFields == {"manifests", "built", "hasOut", "ods"}

ImageFields == {"layers", "def"}

\* None is no directory, no metadata and no image.
Apart == \A r : DOMAIN r \in {DirFields, MetaFields, ImageFields} => r # None

-----------------------------------------------------------------------------
(* Induction along the chain of bases *)

LEMMA NatSets ==
  ASSUME NEW S \in SUBSET Nat, 0 \in S, \A q \in S : q + 1 \in S
  PROVE  S = Nat
<1> DEFINE R == OpToRel(<, Nat)
           T == Nat \ S
<1>1. IsWellFoundedOn(R, Nat)
  BY Zenon, NatLessThanWellFounded
<1>2. \A x, y \in Nat : <<y, x>> \in R <=> y < x
  BY DEF OpToRel
<1> HIDE DEF R
<1>3. SUFFICES ASSUME T # {}  PROVE FALSE
  BY Zenon
<1>4. PICK x \in T : \A y \in T : ~(<<y, x>> \in R)
  <2>1. T \subseteq Nat
    OBVIOUS
  <2> HIDE DEF T
  <2> QED BY Zenon, <1>1, <1>3, <2>1, WFMin
<1>5. x \in Nat /\ x # 0 /\ x - 1 \in Nat /\ x - 1 < x /\ (x - 1) + 1 = x
  OBVIOUS
<1>6. x - 1 \notin T
  BY Zenon, <1>2, <1>4, <1>5
<1>7. x \in S
  BY <1>5, <1>6
<1> QED BY <1>4, <1>7

\* Order puts the layers one by one, each after its base.
LEMMA Ranked ==
  /\ Len(Order) \in Nat /\ Len(Order) >= 1
  /\ First(0) = {} /\ First(Len(Order)) = Layers
  /\ \A q \in Nat : q <= Len(Order) => First(q) \subseteq Layers
  /\ \A q \in Nat : q < Len(Order) =>
       /\ First(q + 1) = First(q) \union {Order[q + 1]}
       /\ Order[q + 1] \in Layers /\ Order[q + 1] \notin First(q)
  /\ \A q \in Nat : q <= Len(Order) =>
       \A n \in First(q) : From[n] # None => From[n] \in First(q)
  /\ \A q \in Nat : q < Len(Order) =>
       (From[Order[q + 1]] # None => From[Order[q + 1]] \in First(q))
<1> DEFINE N == Len(Order)
<1>1. /\ Order \in Seq(Layers) /\ N \in Nat
      /\ \A i \in 1..N : Order[i] \in Layers
  BY BuildAssumption
<1>2. \A n \in Layers : \E i \in 1..N : Order[i] = n
  BY BuildAssumption
<1>3. \A i, j \in 1..N : i # j => Order[i] # Order[j]
  BY BuildAssumption
<1>4. \A i \in 1..N : From[Order[i]] # None => \E j \in 1..(i - 1) : Order[j] = From[Order[i]]
  BY Zenon, BuildAssumption
<1>5. N >= 1
  <2>1. Layers # {}
    BY BuildAssumption
  <2> QED BY <1>1, <1>2, <2>1
<1>6. First(0) = {} /\ First(N) = Layers
  BY <1>1, <1>2 DEF First
<1> HIDE DEF N
<1>7. ASSUME NEW q \in Nat, q <= N  PROVE First(q) \subseteq Layers
  <2>1. \A i \in 1..q : i \in 1..N
    BY <1>1, <1>7
  <2> QED BY <1>1, <2>1 DEF First
<1>8. ASSUME NEW q \in Nat, q < N
      PROVE  /\ First(q + 1) = First(q) \union {Order[q + 1]}
             /\ Order[q + 1] \in Layers /\ Order[q + 1] \notin First(q)
  <2>1. 1..(q + 1) = (1..q) \union {q + 1} /\ q + 1 \in 1..N
    BY <1>1, <1>8
  <2>2. \A i \in 1..q : i \in 1..N /\ i # q + 1
    BY <1>1, <1>8
  <2> QED BY <1>1, <1>3, <2>1, <2>2 DEF First
<1>9. ASSUME NEW q \in Nat, q <= N, NEW n \in First(q), From[n] # None
      PROVE  From[n] \in First(q)
  <2>1. PICK i \in 1..q : n = Order[i]
    BY DEF First
  <2>2. i \in 1..N
    BY <1>1, <1>9
  <2>3. PICK j \in 1..(i - 1) : Order[j] = From[n]
    BY <1>4, <1>9, <2>1, <2>2
  <2>4. j \in 1..q
    BY <1>1, <1>9
  <2> QED BY <2>3, <2>4 DEF First
<1>10. ASSUME NEW q \in Nat, q < N, From[Order[q + 1]] # None
       PROVE  From[Order[q + 1]] \in First(q)
  <2>1. q + 1 \in 1..N /\ (q + 1) - 1 = q
    BY <1>1, <1>10
  <2> QED BY <1>4, <1>10, <2>1 DEF First
<1> QED BY <1>1, <1>5, <1>6, <1>7, <1>8, <1>9, <1>10 DEF N

\* What holds of a layer when it holds of its base holds of all.
LEMMA LayerInduction ==
  ASSUME NEW S,
         \A n \in Layers : (From[n] # None => From[n] \in S) => n \in S
  PROVE  Layers \subseteq S
<1> DEFINE K == {q \in Nat : q <= Len(Order) => First(q) \subseteq S}
<1>1. 0 \in K
  BY Ranked
<1>2. ASSUME NEW q \in K  PROVE q + 1 \in K
  <2>1. CASE q < Len(Order)
    BY <1>2, <2>1, Ranked
  <2>2. CASE ~(q < Len(Order))
    BY <1>2, <2>2, Ranked
  <2> QED BY <2>1, <2>2
<1>3. K = Nat
  <2>1. K \in SUBSET Nat
    OBVIOUS
  <2> HIDE DEF K
  <2> QED BY <1>1, <1>2, <2>1, NatSets
<1>4. Len(Order) \in K
  BY <1>3, Ranked
<1> QED BY <1>4, Ranked

\* A function by recursion along the chain of bases exists.
LEMMA Chain ==
  ASSUME NEW s
  PROVE  \E f : f = [n \in Layers |-> s[<<n, IF From[n] = None THEN None ELSE f[From[n]]>>]]
<1> DEFINE Step(g, n) == s[<<n, IF From[n] = None THEN None ELSE g[From[n]]>>]
           K == {j \in Nat : j <= Len(Order) => \E g : g = [n \in First(j) |-> Step(g, n)]}
<1>1. 0 \in K
  <2>1. \A g : g = [n \in {} |-> Step(g, n)] <=> g = [n \in {} |-> 0]
    OBVIOUS
  <2> QED BY Zenon, <2>1, Ranked
<1>2. ASSUME NEW j \in K  PROVE j + 1 \in K
  <2>1. CASE j < Len(Order)
    <3>1. PICK g : g = [n \in First(j) |-> Step(g, n)]
      BY <1>2, <2>1, Ranked
    <3> DEFINE h == [n \in First(j + 1) |-> IF n \in First(j) THEN g[n] ELSE Step(g, n)]
    <3>2. ASSUME NEW n \in First(j + 1)  PROVE h[n] = Step(h, n)
      <4>1. CASE n \in First(j)
        <5>1. First(j) \subseteq First(j + 1) /\ (From[n] # None => From[n] \in First(j))
          BY <1>2, <2>1, <4>1, Ranked
        <5>2. h[n] = g[n] /\ (From[n] # None => h[From[n]] = g[From[n]])
          BY <4>1, <5>1
        <5>3. g[n] = Step(g, n)
          BY Zenon, <3>1, <4>1
        <5> QED BY <5>2, <5>3
      <4>2. CASE n \notin First(j)
        <5>1. /\ n = Order[j + 1] /\ First(j) \subseteq First(j + 1)
              /\ From[n] # None => From[n] \in First(j)
          BY <1>2, <2>1, <4>2, Ranked
        <5>2. h[n] = Step(g, n) /\ (From[n] # None => h[From[n]] = g[From[n]])
          BY <4>2, <5>1
        <5> QED BY <5>2
      <4> QED BY <4>1, <4>2
    <3>3. h = [n \in First(j + 1) |-> Step(h, n)]
      BY <3>2
    <3> HIDE DEF h
    <3> QED BY <1>2, <3>3
  <2>2. CASE ~(j < Len(Order))
    BY <1>2, <2>2, Ranked
  <2> QED BY <2>1, <2>2
<1>3. K = Nat
  <2>1. K \in SUBSET Nat
    OBVIOUS
  <2> HIDE DEF K
  <2> QED BY <1>1, <1>2, <2>1, NatSets
<1>4. Len(Order) \in K
  BY <1>3, Ranked
<1> QED BY <1>4, Ranked

LEMMA FirstBaseEq ==
  FirstBaseInOutput = [m \in Layers |-> IF From[m] = None THEN None
                         ELSE IF From[m] \notin BuildOnly THEN From[m]
                         ELSE FirstBaseInOutput[From[m]]]
<1> DEFINE V == Layers \union {None}
           Step(m, b) == IF From[m] = None THEN None
                         ELSE IF From[m] \notin BuildOnly THEN From[m] ELSE b
           s == [p \in Layers \X V |-> Step(p[1], p[2])]
           B(f, m) == IF From[m] = None THEN None ELSE f[From[m]]
<1>1. \A m \in Layers : From[m] \in V
  BY BuildAssumption
<1>2. \A m \in Layers, b \in V : s[<<m, b>>] = Step(m, b) /\ Step(m, b) \in V
  BY <1>1
<1>3. PICK f : f = [m \in Layers |-> s[<<m, B(f, m)>>]]
  <2> HIDE DEF s
  <2> QED BY Chain
<1> HIDE DEF s
<1> DEFINE T == {m \in Layers : f[m] \in V}
<1>4. ASSUME NEW m \in Layers, From[m] # None => From[m] \in T  PROVE m \in T
  <2>1. B(f, m) \in V
    BY <1>4
  <2>2. f[m] = s[<<m, B(f, m)>>]
    BY Zenon, <1>3
  <2>3. f[m] \in V
    <3> HIDE DEF Step, B, V
    <3> QED BY <1>2, <2>1, <2>2
  <2> QED BY <2>3
<1>5. Layers \subseteq T
  <2> HIDE DEF T
  <2> QED BY <1>4, LayerInduction
<1>6. \A m \in Layers : f[m] = Step(m, B(f, m))
  <2>1. \A m \in Layers : B(f, m) \in V
    BY <1>1, <1>5
  <2> HIDE DEF B, Step
  <2> QED BY Zenon, <1>2, <1>3, <2>1
<1>7. f = [m \in Layers |-> IF From[m] = None THEN None
                           ELSE IF From[m] \notin BuildOnly THEN From[m] ELSE f[From[m]]]
  BY <1>3, <1>6
<1> QED BY <1>7 DEF FirstBaseInOutput

LEMMA FirstBaseIs ==
  ASSUME NEW n \in Layers  PROVE FirstBaseInOutput[n] \in Layers \union {None}
<1> DEFINE V == Layers \union {None}
           U == {m \in Layers : FirstBaseInOutput[m] \in V}
<1>1. ASSUME NEW m \in Layers, From[m] # None => From[m] \in U  PROVE m \in U
  <2>1. From[m] \in V
    BY BuildAssumption
  <2> QED BY <1>1, <2>1, FirstBaseEq
<1>2. Layers \subseteq U
  <2> HIDE DEF U
  <2> QED BY <1>1, LayerInduction
<1> QED BY <1>2

\* The body of Lookup.
LookupStep(n, b) ==
  LET e == cache[n]
      baseHash == IF From[n] # None THEN b ELSE OwnBase(n) IN
  CASE e = None -> None
    [] e # None /\ e.def # def[n] -> None
    [] OTHER ->
         IF BaseMissing(n, baseHash) THEN LookupError
         ELSE IF baseHash # e.base THEN None
         ELSE IF ImportsChanged(n, e) THEN None
         ELSE e

LEMMA LookupEq ==
  /\ \A m \in Layers : Lookup[m] = LookupStep(m, Lookup[From[m]])
  /\ \A m \in Layers : \A b : LookupStep(m, b) \in {None, LookupError, cache[m]}
<1> DEFINE V == {None, LookupError} \union {cache[m] : m \in Layers}
           s == [p \in Layers \X V |-> LookupStep(p[1], p[2])]
           B(f, m) == IF From[m] = None THEN None ELSE f[From[m]]
<1>1. \A m \in Layers : \A b : LookupStep(m, b) \in {None, LookupError, cache[m]}
  BY DEF LookupStep
<1>2. \A m \in Layers, b \in V : s[<<m, b>>] = LookupStep(m, b)
  OBVIOUS
<1>3. PICK f : f = [m \in Layers |-> s[<<m, B(f, m)>>]]
  <2> HIDE DEF s
  <2> QED BY Chain
<1> HIDE DEF s
<1> DEFINE T == {m \in Layers : f[m] \in V}
<1>4. ASSUME NEW m \in Layers, From[m] # None => From[m] \in T  PROVE m \in T
  <2>1. B(f, m) \in V
    BY <1>4
  <2> HIDE DEF B
  <2> QED BY Zenon, <1>1, <1>2, <1>3, <2>1
<1>5. Layers \subseteq T
  <2> HIDE DEF T
  <2> QED BY <1>4, LayerInduction
<1>6. \A m \in Layers : f[m] = LookupStep(m, B(f, m))
  <2>1. \A m \in Layers : B(f, m) \in V
    <3>1. \A m \in Layers : From[m] # None => From[m] \in Layers
      BY BuildAssumption
    <3> QED BY <1>5, <3>1
  <2> HIDE DEF B
  <2> QED BY Zenon, <1>2, <1>3, <2>1
<1>7. \A m \in Layers : LookupStep(m, B(f, m)) = LookupStep(m, f[From[m]])
  BY DEF LookupStep
<1>8. f = [m \in Layers |-> LookupStep(m, f[From[m]])]
  <2> HIDE DEF B
  <2> QED BY <1>3, <1>6, <1>7
<1>9. Lookup = [m \in Layers |-> LookupStep(m, Lookup[From[m]])]
  BY Zenon, <1>8 DEF Lookup, LookupStep
<1> QED BY <1>1, <1>9

\* A lookup gives the entry itself, a miss or an error.
LEMMA LookupIs ==
  ASSUME NEW n \in Layers  PROVE Lookup[n] \in {None, LookupError, cache[n]}
  BY LookupEq

-----------------------------------------------------------------------------
(* Shapes *)

\* s is a sequence of layers of type t that have their directories in hd, the
\* overlay_dir layers excepted.
Unpacked(s, t, hd) ==
  \E S : s \in Seq(S) /\ \A x \in S : "dest" \notin DOMAIN x => <<t, x>> \in hd

IsMeta(m, hd) ==
  /\ DOMAIN m = MetaFields
  /\ m.built \in Seq(Layers)
  /\ \A t \in Types : m.manifests[t] # None => Unpacked(m.manifests[t], t, hd)
  /\ \A t \in Types : m.ods[t] # None => Unpacked(m.ods[t], t, {})

\* A root filesystem with content has metadata.
IsDir(r, hd) ==
  /\ DOMAIN r = DirFields
  /\ r.meta # None => IsMeta(r.meta, hd)
  /\ r.upper # Empty => r.meta # None

IsImage(e, t, hd) == DOMAIN e = {"layers", "def"} /\ Unpacked(e.layers, t, hd)

IsEntry(n, e, hd) ==
  /\ DOMAIN e = {"manifests", "def", "imp", "base"}
  /\ e.def \in Versions
  /\ n \notin BuildOnly =>
       \A t \in Types : e.manifests[t] # None => IsImage(e.manifests[t], t, hd)

\* Only directories of overlay_dir layers are lost.
Grows(hd, hd2) == \A t, x : "dest" \notin DOMAIN x /\ <<t, x>> \in hd => <<t, x>> \in hd2

LEMMA Grown ==
  ASSUME NEW hd, NEW hd2, Grows(hd, hd2)
  PROVE  /\ \A s, t : Unpacked(s, t, hd) => Unpacked(s, t, hd2)
         /\ \A m : IsMeta(m, hd) => IsMeta(m, hd2)
         /\ \A r : IsDir(r, hd) => IsDir(r, hd2)
         /\ \A e, t : IsImage(e, t, hd) => IsImage(e, t, hd2)
         /\ \A n, e : IsEntry(n, e, hd) => IsEntry(n, e, hd2)
<1>1. ASSUME NEW s, NEW t, Unpacked(s, t, hd)  PROVE Unpacked(s, t, hd2)
  <2>1. PICK S : s \in Seq(S) /\ \A x \in S : "dest" \notin DOMAIN x => <<t, x>> \in hd
    BY <1>1 DEF Unpacked
  <2>2. \A x \in S : "dest" \notin DOMAIN x => <<t, x>> \in hd2
    BY <2>1 DEF Grows
  <2> QED BY <2>1, <2>2 DEF Unpacked
<1>2. \A m : IsMeta(m, hd) => IsMeta(m, hd2)
  BY <1>1 DEF IsMeta
<1>3. \A r : IsDir(r, hd) => IsDir(r, hd2)
  BY <1>2 DEF IsDir
<1>4. \A e, t : IsImage(e, t, hd) => IsImage(e, t, hd2)
  BY <1>1 DEF IsImage
<1>5. \A n, e : IsEntry(n, e, hd) => IsEntry(n, e, hd2)
  BY <1>4 DEF IsEntry
<1> QED BY <1>1, <1>2, <1>3, <1>4, <1>5

LEMMA GrowsIf ==
  ASSUME NEW hd, NEW hd2, hd \subseteq hd2  PROVE Grows(hd, hd2)
  BY DEF Grows

LEMMA UnpackedNothing == ASSUME NEW t, NEW hd  PROVE Unpacked(<<>>, t, hd)
<1> DEFINE S == {}
           s == <<>>
<1>1. s \in Seq(S) /\ \A x \in S : "dest" \notin DOMAIN x => <<t, x>> \in hd
  OBVIOUS
<1> HIDE DEF S, s
<1>2. Unpacked(s, t, hd)
  BY <1>1 DEF Unpacked
<1> QED BY <1>2 DEF s

LEMMA UnpackedAppend ==
  ASSUME NEW s, NEW t, NEW hd, Unpacked(s, t, hd),
         NEW x, "dest" \notin DOMAIN x => <<t, x>> \in hd
  PROVE  Unpacked(Append(s, x), t, hd)
<1>1. PICK S : s \in Seq(S) /\ \A y \in S : "dest" \notin DOMAIN y => <<t, y>> \in hd
  BY DEF Unpacked
<1> DEFINE U == S \union {x}
<1>2. s \in Seq(U) /\ x \in U
  BY <1>1
<1>3. Append(s, x) \in Seq(U)
  <2> HIDE DEF U
  <2> QED BY <1>2
<1> QED BY <1>1, <1>3 DEF Unpacked

LEMMA UnpackedOne ==
  ASSUME NEW t, NEW hd, NEW x, "dest" \notin DOMAIN x => <<t, x>> \in hd
  PROVE  Unpacked(<<x>>, t, hd)
<1> DEFINE S == {x}
           s == <<x>>
<1>1. s \in Seq(S) /\ \A y \in S : "dest" \notin DOMAIN y => <<t, y>> \in hd
  OBVIOUS
<1> HIDE DEF S, s
<1>2. Unpacked(s, t, hd)
  BY <1>1 DEF Unpacked
<1> QED BY <1>2 DEF s

LEMMA UnpackedConcat ==
  ASSUME NEW s, NEW r, NEW t, NEW hd, Unpacked(s, t, hd), Unpacked(r, t, hd)
  PROVE  Unpacked(s \o r, t, hd)
<1>1. PICK S : s \in Seq(S) /\ \A y \in S : "dest" \notin DOMAIN y => <<t, y>> \in hd
  BY DEF Unpacked
<1>2. PICK R : r \in Seq(R) /\ \A y \in R : "dest" \notin DOMAIN y => <<t, y>> \in hd
  BY DEF Unpacked
<1> DEFINE U == S \union R
<1>3. s \in Seq(U) /\ r \in Seq(U)
  BY <1>1, <1>2
<1>4. s \o r \in Seq(U)
  <2> HIDE DEF U
  <2> QED BY <1>3
<1> QED BY <1>1, <1>2, <1>4 DEF Unpacked

LEMMA UnpackedAt ==
  ASSUME NEW s, NEW t, NEW hd, Unpacked(s, t, hd)
  PROVE  /\ Len(s) \in Nat
         /\ \A i \in 1..Len(s) : "dest" \notin DOMAIN s[i] => <<t, s[i]>> \in hd
         /\ s # <<>> /\ "dest" \notin DOMAIN s[Len(s)] => <<t, s[Len(s)]>> \in hd
<1>1. PICK S : s \in Seq(S) /\ \A y \in S : "dest" \notin DOMAIN y => <<t, y>> \in hd
  BY DEF Unpacked
<1>2. Len(s) \in Nat /\ \A i \in 1..Len(s) : s[i] \in S
  BY <1>1
<1>3. s # <<>> => Len(s) \in 1..Len(s)
  BY <1>1
<1> QED BY <1>1, <1>2, <1>3

\* An overlay_dir layer is one by its fields.
LEMMA OverlayDirIs ==
  /\ \A n, v : "dest" \in DOMAIN OverlayDir(n, v)
  /\ \A n, x : x \in OverlayDirs(n) => "dest" \in DOMAIN x
  BY DEF OverlayDir, OverlayDirs

-----------------------------------------------------------------------------
(* The type invariant made inductive *)

InputTypes ==
  /\ def \in [Layers -> Versions] /\ imp \in [Layers -> Versions]
  /\ impDir \in [Layers -> Versions \union {None}]
  /\ upstream \in [Images -> Versions] /\ DOMAIN bases = Tags
  /\ \A i \in Images : bases[TagOf[i]] # None => TagOf[bases[TagOf[i]].image] = TagOf[i]

RunTypes ==
  /\ pc \in Steps /\ idx \in 1..Len(Order) /\ types \in TypeChoices
  /\ cold \in BOOLEAN /\ mutated \in BOOLEAN
  /\ outcome \in {"none", "running", "ok", "failed"}
  /\ runs \in 0..MaxRuns

DirsOK == \A h \in hashDirs \union links : h[1] \in Types

RootsOK == DOMAIN roots = Layers /\ \A n \in Layers : roots[n] # None => IsDir(roots[n], hashDirs)

RefsOK ==
  /\ DOMAIN refs = Layers
  /\ \A n \in Layers, t \in Types : refs[n][t] # None => IsImage(refs[n][t], t, hashDirs)

CacheOK ==
  DOMAIN cache = Layers /\ \A n \in Layers : cache[n] # None => IsEntry(n, cache[n], hashDirs)

\* A layer being made has its directory; once the container was started, so do
\* the layers it is built on.  The image being put together has only layers
\* that are unpacked.
Work ==
  /\ pc = "metadata" => roots[cur] # None
  /\ pc \in {"overlayDirs", "run", "initBases", "built", "builtMeta", "commit", "ownMeta", "config"} =>
       roots[cur] # None /\ roots[cur].meta # None
  /\ pc \in {"initBases", "built", "builtMeta"} =>
       \A i \in 1..Len(roots[cur].meta.built) : roots[roots[cur].meta.built[i]] # None
  /\ pc \in {"built", "builtMeta"} => k \in Nat /\ k >= 1
  /\ pc = "builtMeta" =>
       /\ k <= Len(roots[cur].meta.built)
       /\ roots[roots[cur].meta.built[k]].meta # None
  /\ pc \in {"built", "builtMeta", "commit", "ownMeta"} =>
       \A t \in TypeSet : Unpacked(mut[t], t, hashDirs)
  /\ pc \in {"built", "builtMeta", "commit", "ownMeta", "config"} =>
       \A t \in TypeSet : refs[cur][t] # None

Sane == InputTypes /\ RunTypes /\ DirsOK /\ RootsOK /\ RefsOK /\ CacheOK /\ Work

LEMMA SaneTypeOK == Sane => TypeOK
<1> SUFFICES ASSUME Sane  PROVE TypeOK
  OBVIOUS
<1>1. DOMAIN NewOverlayMetadata = MetaFields
  BY DEF NewOverlayMetadata, MetaFields
<1>2. \A n \in Layers : cache[n] # None =>
        DOMAIN cache[n] = {"manifests", "def", "imp", "base"} /\ cache[n].def \in Versions
  BY DEF Sane, CacheOK, IsEntry
<1>3. \A n \in Layers : roots[n] # None /\ roots[n].meta # None =>
        DOMAIN roots[n].meta = DOMAIN NewOverlayMetadata /\ roots[n].meta.built \in Seq(Layers)
  BY <1>1 DEF Sane, RootsOK, IsDir, IsMeta
<1>4. \A n \in Layers, t \in Types : refs[n][t] # None => DOMAIN refs[n][t] = {"layers", "def"}
  BY DEF Sane, RefsOK, IsImage
<1>5. pc = "builtMeta" => k \in 1..Len(roots[cur].meta.built)
  <2>1. SUFFICES ASSUME pc = "builtMeta"  PROVE k \in 1..Len(roots[cur].meta.built)
    OBVIOUS
  <2>2. k \in Nat /\ k >= 1 /\ k <= Len(roots[cur].meta.built) /\ roots[cur] # None /\ roots[cur].meta # None
    BY <2>1 DEF Sane, Work
  <2>3. Len(roots[cur].meta.built) \in Nat
    <3>1. cur \in Layers
      BY BuildAssumption DEF cur, Sane, RunTypes
    <3> QED BY <2>2, <3>1, <1>3
  <2> QED BY <2>2, <2>3
<1>6. pc \in {"overlayDirs", "run", "initBases", "built", "builtMeta", "commit",
              "ownMeta", "config"} => roots[cur] # None /\ roots[cur].meta # None
  BY DEF Sane, Work
<1> QED BY <1>2, <1>3, <1>4, <1>5, <1>6 DEF Sane, InputTypes, RunTypes, DirsOK, TypeOK

LEMMA SaneUnpacked == Sane => ManifestsUnpacked
<1>1. SUFFICES ASSUME Sane, NEW n \in Layers, NEW t \in Types, roots[n] # None, roots[n].meta # None,
                      NEW i \in 1..Len(Manifest(roots[n].meta.manifests[t])),
                      "dest" \notin DOMAIN Manifest(roots[n].meta.manifests[t])[i]
               PROVE  <<t, Manifest(roots[n].meta.manifests[t])[i]>> \in hashDirs
  BY DEF ManifestsUnpacked, Each
<1>2. IsMeta(roots[n].meta, hashDirs)
  BY <1>1 DEF Sane, RootsOK, IsDir
<1>3. Unpacked(Manifest(roots[n].meta.manifests[t]), t, hashDirs)
  BY <1>2, UnpackedNothing DEF IsMeta, Manifest
<1> HIDE DEF Manifest
<1> QED BY Zenon, <1>1, <1>3, UnpackedAt

-----------------------------------------------------------------------------
(* Initially, and facts for the steps *)

LEMMA Bounds == MaxRuns \in Nat /\ TypeChoices \subseteq Seq(Types)
<1>1. MaxRuns \in Nat
  BY BuildAssumption
<1>2. TypeChoices \subseteq Seq(Types)
  BY BuildAssumption
<1> QED BY <1>1, <1>2

LEMMA InitSane == Init => Sane
<1> SUFFICES ASSUME Init  PROVE Sane
  OBVIOUS
<1>1. Versions # {}
  BY BuildAssumption DEF Init
<1>2. (CHOOSE v \in Versions : TRUE) \in Versions
  BY <1>1
<1>3. InputTypes
  BY <1>2 DEF Init, InputTypes, Tags
<1>4. RunTypes
  <2>1. 0 \in 0..MaxRuns
    BY Bounds
  <2>2. 1 \in 1..Len(Order)
    BY Ranked
  <2> QED BY Zenon, <2>1, <2>2 DEF Init, RunTypes, Steps
<1>5. DirsOK /\ RootsOK /\ RefsOK /\ CacheOK /\ Work
  BY DEF Init, DirsOK, RootsOK, RefsOK, CacheOK, Work
<1> QED BY <1>3, <1>4, <1>5 DEF Sane

LEMMA CurIs == ASSUME Sane  PROVE cur \in Layers
  BY BuildAssumption DEF cur, Sane, RunTypes

LEMMA TypeSetIs == ASSUME Sane  PROVE TypeSet \subseteq Types
<1>1. types \in Seq(Types)
  BY Bounds DEF Sane, RunTypes
<1>2. \A i \in 1..Len(types) : types[i] \in Types
  BY <1>1
<1> QED BY <1>2 DEF TypeSet

LEMMA SourceIs ==
  ASSUME Sane, NEW n \in Layers  PROVE Source(n) \in Images \union {None}
  BY BuildAssumption DEF Source, Images, Sane, InputTypes

LEMMA InputTypesKept ==
  InputTypes /\ UNCHANGED <<userVars, copyVars>> => InputTypes'
  BY DEF InputTypes, userVars, copyVars

\* What is on disk and where nothing but directories of overlay_dir layers goes.
LEMMA DiskKept ==
  ASSUME Sane, Grows(hashDirs, hashDirs')
  PROVE  /\ UNCHANGED roots => RootsOK'
         /\ UNCHANGED refs => RefsOK'
         /\ UNCHANGED cache => CacheOK'
  BY Grown DEF Sane, RootsOK, RefsOK, CacheOK

LEMMA SameDirs == Grows(hashDirs, hashDirs)
  BY DEF Grows

\* Between the parts of a layer's build there is nothing to say.
LEMMA NoWork ==
  ASSUME pc' \in {"idle", "import", "getBase", "lookup", "delete", "create", "put", "gc"}  PROVE Work'
  BY DEF Work

LEMMA FailTypes == ASSUME Sane, Fail, UNCHANGED mutated  PROVE RunTypes' /\ Work'
<1>1. RunTypes'
  BY DEF Sane, RunTypes, Fail, Steps
<1> QED BY <1>1, NoWork DEF Fail

LEMMA NextLayerTypes == ASSUME Sane, NextLayer, UNCHANGED mutated  PROVE RunTypes' /\ Work'
<1>1. idx' \in 1..Len(Order)
  BY Ranked DEF Sane, RunTypes, NextLayer
<1>2. pc' \in {"gc", "import"}
  BY DEF NextLayer
<1>3. RunTypes'
  BY <1>1, <1>2 DEF Sane, RunTypes, NextLayer, Steps
<1> QED BY <1>2, <1>3, NoWork

LEMMA GotoTypes ==
  ASSUME Sane, NEW label \in Steps, Goto(label), UNCHANGED runVars, mutated' \in BOOLEAN
  PROVE  RunTypes' /\ UNCHANGED <<cur, TypeSet>>
  BY DEF Sane, RunTypes, Goto, runVars, cur, TypeSet

-----------------------------------------------------------------------------
(* The steps that leave the roots alone *)

LEMMA UserSane ==
  ASSUME Sane,
         \/ \E n \in Layers : EditDefinition(n) \/ EditImport(n)
         \/ \E i \in Pushed : PushImage(i)
         \/ UNCHANGED vars
  PROVE  Sane'
<1>1. /\ UNCHANGED <<copyVars, cache, roots, dirVars, ociVars, pc, mutVars, idx, types, cold, runs>>
      /\ outcome' \in {"none", "running", "ok", "failed"}
  BY DEF Sane, RunTypes, EditDefinition, EditImport, PushImage, vars, runVars
<1>2. InputTypes'
  <2>1. CASE \E n \in Layers : EditDefinition(n)
    BY <1>1, <2>1 DEF Sane, InputTypes, EditDefinition, copyVars
  <2>2. CASE \E n \in Layers : EditImport(n)
    BY <1>1, <2>2 DEF Sane, InputTypes, EditImport, copyVars
  <2>3. CASE \E i \in Pushed : PushImage(i)
    <3>1. Pushed \subseteq Images
      BY BuildAssumption DEF Images
    <3> QED BY <1>1, <2>3, <3>1 DEF Sane, InputTypes, PushImage, copyVars
  <2>4. CASE UNCHANGED vars
    BY <2>4, InputTypesKept DEF Sane, vars
  <2> QED BY <2>1, <2>2, <2>3, <2>4
<1>3. UNCHANGED <<cache, roots, hashDirs, links, refs, blobs, pc, mut, k, mutated, idx, types, cold, runs>>
  BY <1>1 DEF dirVars, ociVars, mutVars
<1>4. UNCHANGED <<cur, TypeSet>>
  BY <1>3 DEF cur, TypeSet
<1>5. RunTypes' /\ DirsOK' /\ RootsOK' /\ RefsOK' /\ CacheOK'
  BY <1>1, <1>3 DEF Sane, RunTypes, DirsOK, RootsOK, RefsOK, CacheOK
<1>6. Work'
  BY <1>3, <1>4 DEF Sane, Work
<1> QED BY <1>2, <1>5, <1>6 DEF Sane

LEMMA StartSane == ASSUME Sane, NEW noCache \in BOOLEAN, Start(noCache)  PROVE Sane'
<1>1. /\ pc' = "import" /\ idx' = 1 /\ types' \in TypeChoices /\ cold' = noCache
      /\ outcome' = "running" /\ runs < MaxRuns /\ runs' = runs + 1
      /\ UNCHANGED <<userVars, roots, dirVars, ociVars, mutVars>>
  BY DEF Start
<1>2. RunTypes'
  <2>1. runs' \in 0..MaxRuns
    <3>1. runs \in 0..MaxRuns /\ MaxRuns \in Nat
      BY Bounds DEF Sane, RunTypes
    <3> QED BY <1>1, <3>1
  <2>2. idx' \in 1..Len(Order)
    BY <1>1, Ranked
  <2> QED BY <1>1, <2>1, <2>2 DEF Sane, RunTypes, Steps, mutVars
<1>3. InputTypes'
  <2>1. impDir' \in [Layers -> Versions \union {None}]
    BY DEF Start, Sane, InputTypes
  <2>2. /\ DOMAIN bases' = Tags
        /\ \A i \in Images : bases'[TagOf[i]] # None => TagOf[bases'[TagOf[i]].image] = TagOf[i]
    BY DEF Start, Sane, InputTypes, Tags
  <2> QED BY <1>1, <2>1, <2>2 DEF Sane, InputTypes, userVars
<1>4. CacheOK'
  <2>1. DOMAIN cache' = Layers /\ \A n \in Layers : cache'[n] \in {None, cache[n]}
    BY DEF Start, Pruned
  <2> QED BY <1>1, <2>1 DEF Sane, CacheOK, dirVars
<1>5. DirsOK' /\ RootsOK' /\ RefsOK'
  BY <1>1 DEF Sane, DirsOK, RootsOK, RefsOK, dirVars, ociVars
<1> QED BY <1>1, <1>2, <1>3, <1>4, <1>5, NoWork DEF Sane

LEMMA ImportSane == ASSUME Sane, Import  PROVE Sane'
<1>1. /\ pc' = "getBase" /\ Goto("getBase")
      /\ UNCHANGED <<userVars, bases, cache, roots, dirVars, ociVars, mutVars, runVars>>
  BY DEF Import, Goto
<1>2. InputTypes'
  BY <1>1, CurIs DEF Import, Sane, InputTypes, userVars
<1>3. RunTypes'
  BY <1>1, GotoTypes DEF mutVars, Steps, Sane, RunTypes
<1>4. DirsOK' /\ RootsOK' /\ RefsOK' /\ CacheOK'
  BY <1>1, SameDirs, DiskKept DEF dirVars, ociVars, Sane, DirsOK
<1> QED BY <1>1, <1>2, <1>3, <1>4, NoWork DEF Sane

LEMMA GetBaseSane == ASSUME Sane, GetBase  PROVE Sane'
<1>1. /\ pc' = "lookup" /\ Goto("lookup")
      /\ UNCHANGED <<userVars, impDir, cache, roots, dirVars, ociVars, mutVars, runVars>>
  BY DEF GetBase, Goto
<1>2. InputTypes'
  <2>1. CASE Source(cur) = None
    BY <1>1, <2>1, InputTypesKept DEF GetBase, Sane, copyVars
  <2>2. CASE Source(cur) # None
    <3> DEFINE i == Source(cur)
               c == Content(i, upstream[i])
    <3>1. i \in Images /\ TagOf[i] \in Tags
      BY <2>2, CurIs, SourceIs DEF Tags
    <3>2. bases' = [bases EXCEPT ![TagOf[i]] = c] /\ c.image = i
      BY <2>2 DEF GetBase, Content
    <3> HIDE DEF i, c
    <3>3. /\ DOMAIN bases' = Tags /\ bases'[TagOf[i]] = c
          /\ \A tag \in Tags : tag # TagOf[i] => bases'[tag] = bases[tag]
      BY <3>1, <3>2 DEF Sane, InputTypes
    <3>4. ASSUME NEW j \in Images, bases'[TagOf[j]] # None
          PROVE  TagOf[bases'[TagOf[j]].image] = TagOf[j]
      <4>1. TagOf[j] \in Tags
        BY DEF Tags
      <4>2. CASE TagOf[j] = TagOf[i]
        BY <3>2, <3>3, <4>2
      <4>3. CASE TagOf[j] # TagOf[i]
        BY <3>3, <3>4, <4>1, <4>3 DEF Sane, InputTypes
      <4> QED BY <4>2, <4>3
    <3> QED BY <1>1, <3>3, <3>4 DEF Sane, InputTypes, userVars
  <2> QED BY <2>1, <2>2
<1>3. RunTypes'
  BY <1>1, GotoTypes DEF mutVars, Steps, Sane, RunTypes
<1>4. DirsOK' /\ RootsOK' /\ RefsOK' /\ CacheOK'
  BY <1>1, SameDirs, DiskKept DEF dirVars, ociVars, Sane, DirsOK
<1> QED BY <1>1, <1>2, <1>3, <1>4, NoWork DEF Sane

LEMMA CacheLookupSane == ASSUME Sane, CacheLookup  PROVE Sane'
<1> DEFINE e == Lookup[cur]
           found == {t \in TypeSet : e.manifests[t] # None}
<1>1. UNCHANGED <<userVars, copyVars, cache, roots, dirVars, blobs, mutVars>>
  BY DEF CacheLookup
<1>2. UNCHANGED <<hashDirs, links, mutated>>
  BY <1>1 DEF dirVars, mutVars
<1>3. InputTypes' /\ DirsOK' /\ RootsOK' /\ CacheOK'
  BY <1>1, <1>2, InputTypesKept, SameDirs, DiskKept DEF Sane, DirsOK
<1>4. RunTypes' /\ Work'
  <2>1. CASE Fail
    BY <1>2, <2>1, FailTypes
  <2>2. CASE NextLayer
    BY <1>2, <2>2, NextLayerTypes
  <2>3. CASE Goto("delete") /\ UNCHANGED runVars
    <3>1. "delete" \in Steps /\ pc' = "delete" /\ mutated' \in BOOLEAN
      BY <1>2, <2>3 DEF Steps, Goto, Sane, RunTypes
    <3> QED BY <2>3, <3>1, GotoTypes, NoWork
  <2> QED BY <2>1, <2>2, <2>3 DEF CacheLookup
<1>5. RefsOK'
  <2>1. CASE UNCHANGED refs
    BY <1>2, <2>1, SameDirs, DiskKept
  <2>2. CASE ~ UNCHANGED refs
    <3> DEFINE r == [t \in Types |-> IF t \in found THEN e.manifests[t] ELSE refs[cur][t]]
    <3>1. /\ e # None /\ e # LookupError /\ cur \notin BuildOnly
          /\ refs' = [refs EXCEPT ![cur] = r]
      BY <2>2 DEF CacheLookup
    <3>2. cur \in Layers
      BY CurIs
    <3>3. IsEntry(cur, e, hashDirs)
      BY <3>1, <3>2, LookupIs DEF Sane, CacheOK
    <3> HIDE DEF e
    <3>4. ASSUME NEW t \in Types, r[t] # None  PROVE IsImage(r[t], t, hashDirs)
      <4>1. CASE t \in found
        BY <3>1, <3>3, <3>4, <4>1 DEF IsEntry
      <4>2. CASE t \notin found
        BY <3>2, <3>4, <4>2 DEF Sane, RefsOK
      <4> QED BY <4>1, <4>2
    <3> HIDE DEF r
    <3> QED BY <1>2, <3>1, <3>2, <3>4 DEF Sane, RefsOK
  <2> QED BY <2>1, <2>2
<1> QED BY <1>3, <1>4, <1>5 DEF Sane

LEMMA PutSane == ASSUME Sane, Put  PROVE Sane'
<1> DEFINE baseHash == IF From[cur] # None THEN Lookup[From[cur]] ELSE OwnBase(cur)
           manifests == [t \in Types |->
                  IF cur \in BuildOnly
                  THEN IF t = types[1] THEN Bogus ELSE None
                  ELSE IF t \in TypeSet THEN refs[cur][t] ELSE None]
           imported == CASE ImportKind[cur] = "plain" -> impDir[cur]
                         [] ImportKind[cur] = "overlay" -> imp[cur]
                         [] OTHER -> None
           e == [manifests |-> manifests, def |-> def[cur], imp |-> imported, base |-> baseHash]
<1>1. UNCHANGED <<userVars, copyVars, roots, dirVars, ociVars, mutVars>>
  BY DEF Put
<1>2. UNCHANGED <<hashDirs, links, mutated, refs>>
  BY <1>1 DEF dirVars, mutVars, ociVars
<1>3. InputTypes' /\ DirsOK' /\ RootsOK' /\ RefsOK'
  BY <1>1, <1>2, InputTypesKept, SameDirs, DiskKept DEF Sane, DirsOK
<1>4. (Fail /\ UNCHANGED cache) \/ (NextLayer /\ cache' = [cache EXCEPT ![cur] = e])
  BY DEF Put
<1>5. RunTypes' /\ Work'
  BY <1>2, <1>4, FailTypes, NextLayerTypes
<1>6. CacheOK'
  <2>1. CASE UNCHANGED cache
    BY <1>2, <2>1, SameDirs, DiskKept
  <2>2. CASE cache' = [cache EXCEPT ![cur] = e]
    <3>1. cur \in Layers
      BY CurIs
    <3>2. IsEntry(cur, e, hashDirs)
      <4>1. DOMAIN e = {"manifests", "def", "imp", "base"} /\ e.def = def[cur] /\ e.manifests = manifests
        <5> HIDE DEF manifests, imported, baseHash
        <5> QED OBVIOUS
      <4> HIDE DEF e
      <4>2. ASSUME cur \notin BuildOnly, NEW t \in Types, manifests[t] # None
            PROVE  IsImage(manifests[t], t, hashDirs)
        <5>1. manifests[t] = refs[cur][t]
          BY <4>2
        <5> HIDE DEF manifests
        <5> QED BY <3>1, <4>2, <5>1 DEF Sane, RefsOK
      <4>3. def[cur] \in Versions
        BY <3>1 DEF Sane, InputTypes
      <4> HIDE DEF manifests
      <4> QED BY <4>1, <4>2, <4>3 DEF IsEntry
    <3> HIDE DEF e
    <3> QED BY <1>2, <2>2, <3>1, <3>2 DEF Sane, CacheOK
  <2> QED BY <1>4, <2>1, <2>2
<1> QED BY <1>3, <1>5, <1>6 DEF Sane

LEMMA GCSane == ASSUME Sane, GC  PROVE Sane'
<1>1. /\ pc' = "idle" /\ outcome' = "ok"
      /\ UNCHANGED <<userVars, copyVars, cache, roots, dirVars, refs, mutVars, idx, types, cold, runs>>
  BY DEF GC
<1>2. RunTypes'
  BY <1>1 DEF Sane, RunTypes, Steps, mutVars
<1>3. InputTypes' /\ DirsOK' /\ RootsOK' /\ RefsOK' /\ CacheOK'
  BY <1>1, InputTypesKept, SameDirs, DiskKept DEF dirVars, Sane, DirsOK
<1> QED BY <1>1, <1>2, <1>3, NoWork DEF Sane

LEMMA KillSane == ASSUME Sane, Kill  PROVE Sane'
<1>1. Fail /\ UNCHANGED <<userVars, copyVars, cache, roots, dirVars, ociVars, mutVars>>
  BY DEF Kill
<1>2. RunTypes' /\ Work'
  BY <1>1, FailTypes DEF mutVars
<1>3. InputTypes' /\ DirsOK' /\ RootsOK' /\ RefsOK' /\ CacheOK'
  BY <1>1, InputTypesKept, SameDirs, DiskKept DEF dirVars, ociVars, Sane, DirsOK
<1> QED BY <1>2, <1>3 DEF Sane

LEMMA KillUnpackSane == ASSUME Sane, KillUnpack  PROVE Sane'
<1> DEFINE c == Cached(cur)
<1>1. /\ Fail /\ UNCHANGED <<userVars, copyVars, cache, roots, links, ociVars, mutVars>>
      /\ hashDirs' = hashDirs \union {<<BaseType, c>>}
  BY DEF KillUnpack
<1> HIDE DEF c
<1>2. RunTypes' /\ Work'
  BY <1>1, FailTypes DEF mutVars
<1>3. Grows(hashDirs, hashDirs') /\ BaseType \in Types
  BY <1>1, GrowsIf, BuildAssumption
<1>4. InputTypes' /\ DirsOK' /\ RootsOK' /\ RefsOK' /\ CacheOK'
  BY <1>1, <1>3, InputTypesKept, DiskKept DEF ociVars, Sane, DirsOK
<1> QED BY <1>2, <1>4 DEF Sane

-----------------------------------------------------------------------------
(* SetupRootfs and the container *)

\* A step that changes the root filesystem of b.
LEMMA RootsChanged ==
  ASSUME Sane, Grows(hashDirs, hashDirs'), NEW b \in Layers, DOMAIN roots' = Layers,
         \A n \in Layers : n # b => roots'[n] = roots[n],
         roots'[b] # None => IsDir(roots'[b], hashDirs')
  PROVE  RootsOK'
<1> SUFFICES ASSUME NEW n \in Layers, roots'[n] # None  PROVE IsDir(roots'[n], hashDirs')
  BY DEF RootsOK
<1>1. CASE n = b
  BY <1>1
<1>2. CASE n # b
  BY <1>2, Grown DEF Sane, RootsOK
<1> QED BY <1>1, <1>2

\* What Goto leads to while a layer is made.
LEMMA MakingTypes ==
  ASSUME Sane, NEW label \in Steps, Goto(label), UNCHANGED <<runVars, mutVars>>
  PROVE  RunTypes' /\ UNCHANGED <<cur, TypeSet, mut, k, mutated>>
  BY GotoTypes DEF Sane, RunTypes, mutVars

LEMMA DeleteSane == ASSUME Sane, Delete  PROVE Sane'
<1>1. /\ Goto("create") /\ pc' = "create" /\ "create" \in Steps
      /\ UNCHANGED <<userVars, copyVars, cache, links, ociVars, mutVars, runVars>>
      /\ roots' = [roots EXCEPT ![cur] = None]
      /\ hashDirs' = {h \in hashDirs : h[2] \notin OverlayDirs(cur)}
  BY DEF Delete, Goto, Steps
<1>2. Grows(hashDirs, hashDirs')
  <2>1. SUFFICES ASSUME NEW t, NEW x, "dest" \notin DOMAIN x, <<t, x>> \in hashDirs
                 PROVE  <<t, x>> \in hashDirs'
    BY DEF Grows
  <2>2. x \notin OverlayDirs(cur)
    BY <2>1, OverlayDirIs
  <2> QED BY <1>1, <2>1, <2>2
<1>3. RunTypes'
  BY <1>1, MakingTypes
<1>4. RootsOK'
  BY Zenon, <1>1, <1>2, CurIs, RootsChanged DEF Sane, RootsOK
<1>5. InputTypes' /\ DirsOK' /\ RefsOK' /\ CacheOK'
  BY <1>1, <1>2, InputTypesKept, DiskKept DEF ociVars, Sane, DirsOK
<1> QED BY <1>1, <1>3, <1>4, <1>5, NoWork DEF Sane

LEMMA CreateSane == ASSUME Apart, Sane, Create  PROVE Sane'
<1> DEFINE fresh == [upper |-> Empty, meta |-> None, odDir |-> FALSE]
<1>1. /\ Goto("metadata") /\ pc' = "metadata" /\ "metadata" \in Steps
      /\ UNCHANGED <<userVars, copyVars, cache, dirVars, ociVars, mutVars, runVars>>
      /\ roots' = [roots EXCEPT ![cur] = IF @ = None THEN fresh ELSE @]
  BY DEF Create, Goto, Steps
<1>2. DOMAIN fresh = DirFields /\ fresh.meta = None /\ fresh.upper = Empty
  BY DEF DirFields
<1>3. fresh # None /\ IsDir(fresh, hashDirs)
  <2> HIDE DEF fresh
  <2> QED BY <1>2 DEF IsDir, Apart
<1> HIDE DEF fresh
<1>4. RunTypes' /\ cur' = cur
  BY <1>1, MakingTypes
<1>5. cur \in Layers /\ UNCHANGED hashDirs
  BY <1>1, CurIs DEF dirVars
<1>6. roots'[cur] # None /\ IsDir(roots'[cur], hashDirs)
  BY <1>1, <1>3, <1>5 DEF Sane, RootsOK
<1>7. RootsOK'
  BY <1>1, <1>5, <1>6, SameDirs, RootsChanged DEF Sane, RootsOK
<1>8. InputTypes' /\ DirsOK' /\ RefsOK' /\ CacheOK'
  BY <1>1, SameDirs, InputTypesKept, DiskKept DEF dirVars, ociVars, Sane, DirsOK
<1>9. Work'
  BY <1>1, <1>4, <1>6 DEF Work
<1> QED BY <1>4, <1>7, <1>8, <1>9 DEF Sane

LEMMA IsNewMetadata ==
  /\ DOMAIN NewOverlayMetadata = MetaFields
  /\ NewOverlayMetadata.built = <<>> /\ NewOverlayMetadata.built \in Seq(Layers)
  /\ DOMAIN NewOverlayMetadata.manifests = Types
  /\ \A t \in Types : NewOverlayMetadata.manifests[t] = None /\ NewOverlayMetadata.ods[t] = None
  BY DEF NewOverlayMetadata, MetaFields

\* What is known of the directory being prepared.
LEMMA CurDir ==
  ASSUME Sane, roots[cur] # None
  PROVE  /\ cur \in Layers /\ DOMAIN roots = Layers
         /\ DOMAIN roots[cur] = DirFields
         /\ roots[cur].meta # None =>
              DOMAIN roots[cur].meta = MetaFields /\ IsMeta(roots[cur].meta, hashDirs)
  BY CurIs DEF Sane, RootsOK, IsDir, IsMeta

LEMMA SetupEmptyRootfsSane == ASSUME Apart, Sane, SetupEmptyRootfs  PROVE Sane'
<1> DEFINE u == IF Source(cur) = None THEN roots[cur].upper ELSE TarRootfs(cur)
<1>1. /\ Goto("overlayDirs") /\ pc' = "overlayDirs" /\ "overlayDirs" \in Steps /\ pc = "metadata"
      /\ UNCHANGED <<userVars, copyVars, cache, dirVars, ociVars, mutVars, runVars>>
      /\ roots' = [roots EXCEPT ![cur].meta = NewOverlayMetadata, ![cur].upper = u]
  BY DEF SetupEmptyRootfs, Goto, Steps
<1> HIDE DEF u
<1>2. RunTypes' /\ cur' = cur
  BY <1>1, MakingTypes
<1>3. roots[cur] # None
  BY <1>1 DEF Sane, Work
<1>4. /\ DOMAIN roots' = Layers /\ \A n \in Layers : n # cur => roots'[n] = roots[n]
      /\ DOMAIN roots'[cur] = DirFields /\ roots'[cur].meta = NewOverlayMetadata
  BY <1>1, <1>3, CurDir DEF DirFields
<1>5. UNCHANGED hashDirs
  BY <1>1 DEF dirVars
<1>6. NewOverlayMetadata # None /\ IsMeta(NewOverlayMetadata, hashDirs)
  BY IsNewMetadata DEF Apart, IsMeta
<1>7. IsDir(roots'[cur], hashDirs) /\ roots'[cur] # None
  BY <1>4, <1>6 DEF IsDir, Apart
<1>8. RootsOK'
  BY <1>4, <1>5, <1>7, CurIs, SameDirs, RootsChanged
<1>9. InputTypes' /\ DirsOK' /\ RefsOK' /\ CacheOK'
  BY <1>1, SameDirs, InputTypesKept, DiskKept DEF dirVars, ociVars, Sane, DirsOK
<1>10. Work'
  BY <1>1, <1>2, <1>4, <1>6, <1>7 DEF Work
<1> QED BY <1>2, <1>8, <1>9, <1>10 DEF Sane

LEMMA UnpackSane == ASSUME Apart, Sane, Unpack  PROVE Sane'
<1> DEFINE c == Cached(cur)
           m == [NewOverlayMetadata EXCEPT !.manifests[BaseType] = <<c>>]
<1>1. /\ Goto("overlayDirs") /\ pc' = "overlayDirs" /\ "overlayDirs" \in Steps /\ pc = "metadata"
      /\ UNCHANGED <<userVars, copyVars, cache, links, ociVars, mutVars, runVars>>
      /\ hashDirs' = hashDirs \union {<<BaseType, c>>}
      /\ roots' = [roots EXCEPT ![cur].meta = m]
  BY DEF Unpack, Goto, Steps
<1>2. /\ DOMAIN m = MetaFields /\ m.built \in Seq(Layers)
      /\ \A t \in Types : m.manifests[t] = (IF t = BaseType THEN <<c>> ELSE None) /\ m.ods[t] = None
  <2> HIDE DEF c
  <2> QED BY Zenon, IsNewMetadata DEF MetaFields
<1> HIDE DEF c, m
<1>3. RunTypes' /\ cur' = cur
  BY <1>1, MakingTypes
<1>4. roots[cur] # None
  BY <1>1 DEF Sane, Work
<1>5. /\ DOMAIN roots' = Layers /\ \A n \in Layers : n # cur => roots'[n] = roots[n]
      /\ DOMAIN roots'[cur] = DirFields /\ roots'[cur].meta = m
  BY <1>1, <1>4, CurDir DEF DirFields
<1>6. m # None /\ IsMeta(m, hashDirs')
  <2>1. Unpacked(<<c>>, BaseType, hashDirs')
    BY Zenon, <1>1, UnpackedOne
  <2> QED BY <1>2, <2>1 DEF Apart, IsMeta
<1>7. IsDir(roots'[cur], hashDirs') /\ roots'[cur] # None
  BY <1>5, <1>6 DEF IsDir, Apart
<1>8. Grows(hashDirs, hashDirs')
  BY <1>1, GrowsIf
<1>9. RootsOK'
  BY <1>5, <1>7, <1>8, CurIs, RootsChanged
<1>10. BaseType \in Types
  BY BuildAssumption
<1>11. InputTypes' /\ DirsOK' /\ RefsOK' /\ CacheOK'
  BY <1>1, <1>8, <1>10, InputTypesKept, DiskKept DEF ociVars, Sane, DirsOK
<1>12. Work'
  BY <1>1, <1>3, <1>5, <1>6, <1>7 DEF Work
<1> QED BY <1>3, <1>9, <1>11, <1>12 DEF Sane

LEMMA RestoreSane == ASSUME Apart, Sane, Restore  PROVE Sane'
<1> DEFINE tag == From[cur]
           m == [roots[tag].meta EXCEPT !.built = Append(@, tag)]
<1>1. /\ UNCHANGED <<userVars, copyVars, cache, dirVars, ociVars, mutVars>>
      /\ pc = "metadata" /\ tag # None
      /\ \/ Fail /\ UNCHANGED roots
         \/ /\ HasMetadata(tag) /\ Goto("overlayDirs") /\ UNCHANGED runVars
            /\ roots' = [roots EXCEPT ![cur].meta = m]
  BY DEF Restore
<1>2. InputTypes' /\ DirsOK' /\ RefsOK' /\ CacheOK'
  BY <1>1, SameDirs, InputTypesKept, DiskKept DEF dirVars, ociVars, Sane, DirsOK
<1>3. UNCHANGED <<hashDirs, mutated>>
  BY <1>1 DEF dirVars, mutVars
<1>4. CASE Fail /\ UNCHANGED roots
  BY <1>2, <1>3, <1>4, FailTypes, SameDirs, DiskKept DEF Sane
<1>5. CASE /\ HasMetadata(tag) /\ Goto("overlayDirs") /\ UNCHANGED runVars
           /\ roots' = [roots EXCEPT ![cur].meta = m]
  <2>1. RunTypes' /\ cur' = cur /\ pc' = "overlayDirs"
    <3>1. "overlayDirs" \in Steps
      BY DEF Steps
    <3> QED BY <1>1, <1>5, <3>1, MakingTypes DEF Goto
  <2>2. tag \in Layers /\ roots[tag] # None /\ roots[tag].meta # None
    BY Zenon, <1>1, <1>5, CurIs, BuildAssumption DEF HasMetadata
  <2>3. IsMeta(roots[tag].meta, hashDirs)
    BY <2>2 DEF Sane, RootsOK, IsDir
  <2>4. /\ DOMAIN m = MetaFields /\ m.built = Append(roots[tag].meta.built, tag)
        /\ m.manifests = roots[tag].meta.manifests /\ m.ods = roots[tag].meta.ods
    <3>1. DOMAIN roots[tag].meta = MetaFields
      BY <2>3 DEF IsMeta
    <3> HIDE DEF tag
    <3> QED BY <3>1 DEF MetaFields
  <2>5. m.built \in Seq(Layers)
    BY <2>2, <2>3, <2>4 DEF IsMeta
  <2> HIDE DEF m, tag
  <2>6. m # None /\ IsMeta(m, hashDirs)
    BY <2>3, <2>4, <2>5 DEF Apart, IsMeta
  <2>7. roots[cur] # None
    BY <1>1 DEF Sane, Work
  <2>8. /\ DOMAIN roots' = Layers /\ \A n \in Layers : n # cur => roots'[n] = roots[n]
        /\ DOMAIN roots'[cur] = DirFields /\ roots'[cur].meta = m
    BY <1>5, <2>7, CurDir DEF DirFields
  <2>9. IsDir(roots'[cur], hashDirs) /\ roots'[cur] # None
    BY <2>6, <2>8 DEF IsDir, Apart
  <2>10. RootsOK'
    BY <1>3, <2>8, <2>9, CurIs, SameDirs, RootsChanged
  <2>11. Work'
    BY <2>1, <2>6, <2>8, <2>9 DEF Work
  <2> QED BY <1>2, <2>1, <2>10, <2>11 DEF Sane
<1> QED BY <1>1, <1>4, <1>5

LEMMA SetOverlayDirsSane == ASSUME Apart, Sane, SetOverlayDirs  PROVE Sane'
<1> DEFINE od == OverlayDir(cur, IF ImportKind[cur] = "dest" THEN impDir[cur] ELSE imp[cur])
           ods == [t \in Types |-> IF t \in TypeSet THEN <<od>> ELSE None]
           new == {<<t, od>> : t \in TypeSet}
<1>1. /\ Goto("run") /\ pc' = "run" /\ "run" \in Steps /\ pc = "overlayDirs"
      /\ UNCHANGED <<userVars, copyVars, cache, ociVars, mutVars, runVars>>
      /\ \/ UNCHANGED <<roots, hashDirs, links>>
         \/ /\ roots' = [roots EXCEPT ![cur].odDir = TRUE, ![cur].meta.ods = ods]
            /\ links' = links \union new
            /\ hashDirs \subseteq hashDirs' /\ hashDirs' \subseteq hashDirs \union new
  BY Zenon DEF SetOverlayDirs, Goto, Steps, dirVars
<1>2. RunTypes' /\ cur' = cur
  BY <1>1, MakingTypes
<1>3. Grows(hashDirs, hashDirs')
  BY <1>1, GrowsIf
<1>4. "dest" \in DOMAIN od
  BY OverlayDirIs
<1>5. DirsOK'
  <2>1. \A h \in new : h[1] \in Types
    BY TypeSetIs
  <2> HIDE DEF new
  <2> QED BY <1>1, <2>1 DEF Sane, DirsOK
<1> HIDE DEF od
<1>6. InputTypes' /\ RefsOK' /\ CacheOK'
  BY <1>1, <1>3, InputTypesKept, DiskKept DEF ociVars, Sane
<1>7. roots[cur] # None /\ roots[cur].meta # None
  BY <1>1 DEF Sane, Work
<1>8. CASE UNCHANGED roots
  <2>1. Work'
    BY <1>1, <1>2, <1>7, <1>8 DEF Work
  <2> QED BY <1>2, <1>3, <1>5, <1>6, <1>8, <2>1, DiskKept DEF Sane
<1>9. CASE roots' = [roots EXCEPT ![cur].odDir = TRUE, ![cur].meta.ods = ods]
  <2>1. \A t \in Types : ods[t] # None => Unpacked(ods[t], t, {})
    BY Zenon, <1>4, UnpackedOne
  <2> HIDE DEF ods
  <2>2. /\ DOMAIN roots' = Layers /\ \A n \in Layers : n # cur => roots'[n] = roots[n]
        /\ DOMAIN roots'[cur] = DirFields /\ DOMAIN roots'[cur].meta = MetaFields
        /\ roots'[cur].meta.ods = ods /\ roots'[cur].meta.built = roots[cur].meta.built
        /\ roots'[cur].meta.manifests = roots[cur].meta.manifests
    BY <1>7, <1>9, CurDir DEF DirFields, MetaFields
  <2>3. IsMeta(roots'[cur].meta, hashDirs') /\ roots'[cur].meta # None
    <3>1. IsMeta(roots[cur].meta, hashDirs')
      BY <1>3, <1>7, CurDir, Grown
    <3> QED BY <2>1, <2>2, <3>1 DEF IsMeta, Apart
  <2>4. IsDir(roots'[cur], hashDirs') /\ roots'[cur] # None
    BY <2>2, <2>3 DEF IsDir, Apart
  <2>5. RootsOK'
    BY <1>3, <2>2, <2>4, CurIs, RootsChanged
  <2>6. Work'
    BY <1>1, <1>2, <2>3, <2>4 DEF Work
  <2> QED BY <1>2, <1>5, <1>6, <2>5, <2>6 DEF Sane
<1> QED BY Zenon, <1>1, <1>8, <1>9

LEMMA RunContainerSane == ASSUME Apart, Sane, RunContainer  PROVE Sane'
<1>1. /\ UNCHANGED <<userVars, copyVars, cache, dirVars, ociVars, mutVars>>
      /\ pc = "run"
  BY DEF RunContainer
<1>2. PICK ods : \/ Fail /\ UNCHANGED roots
                 \/ /\ UNCHANGED roots \/ \E u : roots' = [roots EXCEPT ![cur].upper = u]
                    /\ Mountable(roots[cur].meta, ods)
                    /\ AfterRun \/ Fail
  BY Zenon DEF RunContainer, AfterFailedRun
<1>3. InputTypes' /\ DirsOK' /\ RefsOK' /\ CacheOK'
  BY <1>1, SameDirs, InputTypesKept, DiskKept DEF dirVars, ociVars, Sane, DirsOK
<1>4. UNCHANGED <<hashDirs, mutated>>
  BY <1>1 DEF dirVars, mutVars
<1>5. roots[cur] # None /\ roots[cur].meta # None
  BY <1>1 DEF Sane, Work
<1>6. /\ RootsOK' /\ roots'[cur] # None /\ roots'[cur].meta = roots[cur].meta
      /\ \A n \in Layers : roots[n] # None => roots'[n] # None
  <2>1. CASE UNCHANGED roots
    BY <1>4, <1>5, <2>1, SameDirs, DiskKept
  <2>2. CASE \E u : roots' = [roots EXCEPT ![cur].upper = u]
    <3>1. PICK u : roots' = [roots EXCEPT ![cur].upper = u]
      BY Zenon, <2>2
    <3>2. /\ DOMAIN roots' = Layers /\ \A n \in Layers : n # cur => roots'[n] = roots[n]
          /\ DOMAIN roots'[cur] = DirFields /\ roots'[cur].meta = roots[cur].meta
      BY <1>5, <3>1, CurDir DEF DirFields
    <3>3. IsDir(roots'[cur], hashDirs) /\ roots'[cur] # None
      BY <1>5, <3>2, CurDir DEF IsDir, Apart
    <3> QED BY <1>4, <3>2, <3>3, CurIs, SameDirs, RootsChanged
  <2> QED BY <1>2, <2>1, <2>2
<1>7. RunTypes' /\ Work'
  <2>1. CASE Fail
    BY <1>4, <2>1, FailTypes
  <2>2. CASE AfterRun /\ Mountable(roots[cur].meta, ods)
    <3> DEFINE label == IF cur \in BuildOnly THEN "put" ELSE "initBases"
    <3>1. label \in Steps /\ Goto(label) /\ UNCHANGED runVars /\ pc' \in {"put", "initBases"}
      BY <2>2 DEF AfterRun, Steps, Goto
    <3>2. RunTypes' /\ cur' = cur
      <4> HIDE DEF label
      <4> QED BY <1>1, <3>1, MakingTypes
    <3>3. \A i \in 1..Len(roots[cur].meta.built) : roots'[roots[cur].meta.built[i]] # None
      <4>1. roots[cur].meta.built \in Seq(Layers)
        BY <1>5, CurDir DEF IsMeta
      <4>2. \A i \in 1..Len(roots[cur].meta.built) : roots[cur].meta.built[i] \in Layers
        BY <4>1
      <4> QED BY <1>6, <2>2, <4>2 DEF Mountable
    <3>4. Work'
      BY <1>5, <1>6, <3>1, <3>2, <3>3 DEF Work
    <3> QED BY <3>2, <3>4
  <2> QED BY <1>2, <2>1, <2>2
<1> QED BY <1>3, <1>6, <1>7 DEF Sane

-----------------------------------------------------------------------------
(* Repack *)

LEMMA ManifestIs ==
  ASSUME NEW s, NEW t, NEW hd, s # None => Unpacked(s, t, hd)
  PROVE  Unpacked(Manifest(s), t, hd)
  BY UnpackedNothing DEF Manifest

LEMMA InitializeBasesInOutputSane == ASSUME Apart, Sane, InitializeBasesInOutput  PROVE Sane'
<1> DEFINE b == FirstBaseInOutput[cur]
           foreign == b = None /\ Source(Root[cur]) \in Images \ Tars
           image == Cached(Root[cur])
           own(t) == [layers |-> <<Converted(image, t)>>, def |-> None]
           start == [t \in TypeSet |->
                       IF b # None THEN refs[b][t]
                       ELSE IF ~foreign THEN NewImage
                       ELSE IF image = None \/ ~Convertible(image, t) THEN None
                       ELSE own(t)]
           r == [t \in Types |-> IF t \in TypeSet THEN start[t] ELSE refs[cur][t]]
<1>1. UNCHANGED <<userVars, copyVars, cache, roots, links>> /\ pc = "initBases"
  BY Zenon DEF InitializeBasesInOutput
<1>2. InputTypes'
  BY <1>1, InputTypesKept DEF Sane
<1>3. CASE Fail /\ UNCHANGED <<ociVars, mutVars, hashDirs>>
  <2>1. RunTypes' /\ Work'
    BY <1>3, FailTypes DEF mutVars
  <2>2. DirsOK' /\ RootsOK' /\ RefsOK' /\ CacheOK'
    BY <1>1, <1>3, SameDirs, DiskKept DEF ociVars, Sane, DirsOK
  <2> QED BY <1>2, <2>1, <2>2 DEF Sane
<1>4. CASE ~(Fail /\ UNCHANGED <<ociVars, mutVars, hashDirs>>)
  <2>1. /\ \A t \in TypeSet : start[t] # None
        /\ refs' = [refs EXCEPT ![cur] = r]
        /\ hashDirs' = IF foreign THEN hashDirs \union {<<t, Converted(image, t)>> : t \in TypeSet} ELSE hashDirs
        /\ mut' = [t \in Types |-> IF t \in TypeSet
                                   THEN start[t].layers \o Manifest(roots[cur].meta.ods[t]) ELSE <<>>]
        /\ k' = 1 /\ mutated' = FALSE /\ Goto("built") /\ UNCHANGED runVars
    BY Zenon, <1>4 DEF InitializeBasesInOutput
  <2>2. RunTypes' /\ UNCHANGED <<cur, TypeSet>> /\ pc' = "built"
    BY Zenon, <2>1, GotoTypes DEF Steps, Goto
  <2>3. Grows(hashDirs, hashDirs')
    BY <2>1, GrowsIf
  <2>4. cur \in Layers /\ TypeSet \subseteq Types
    BY CurIs, TypeSetIs
  <2>5. DirsOK'
    BY <1>1, <2>1, <2>4 DEF Sane, DirsOK
  <2>6. RootsOK' /\ CacheOK'
    BY <1>1, <2>3, DiskKept
  <2>7. \A t : DOMAIN own(t) = {"layers", "def"} /\ own(t).layers = <<Converted(image, t)>>
    OBVIOUS
  <2>8. DOMAIN NewImage = {"layers", "def"} /\ NewImage.layers = <<>>
    BY DEF NewImage
  <2>9. ASSUME NEW t \in TypeSet  PROVE IsImage(start[t], t, hashDirs')
    <3>1. CASE b # None
      <4>1. b \in Layers /\ start[t] = refs[b][t]
        BY <2>4, <3>1, FirstBaseIs
      <4> HIDE DEF b, start
      <4> QED BY <2>1, <2>3, <2>4, <4>1, Grown DEF Sane, RefsOK
    <3>2. CASE b = None /\ ~foreign
      <4>1. start[t] = NewImage
        BY <3>2
      <4> QED BY <2>8, <4>1, UnpackedNothing DEF IsImage
    <3>3. CASE b = None /\ foreign
      <4>1. start[t] \in {None, own(t)}
        BY <3>3
      <4>2. start[t] = own(t)
        BY <2>1, <4>1
      <4>3. <<t, Converted(image, t)>> \in hashDirs'
        BY <2>1, <3>3
      <4> HIDE DEF start, own, image
      <4> QED BY <2>7, <4>2, <4>3, UnpackedOne DEF IsImage
    <3> QED BY <3>1, <3>2, <3>3
  <2> HIDE DEF b, foreign, image, own, start
  <2>10. ASSUME NEW t \in Types, r[t] # None  PROVE IsImage(r[t], t, hashDirs')
    <3>1. CASE t \in TypeSet
      BY <2>9, <3>1
    <3>2. CASE t \notin TypeSet
      BY <2>3, <2>4, <2>10, <3>2, Grown DEF Sane, RefsOK
    <3> QED BY <3>1, <3>2
  <2>11. \A t \in TypeSet : r[t] # None
    BY <2>1, <2>4
  <2> HIDE DEF r
  <2>12. RefsOK' /\ \A t \in TypeSet : refs'[cur][t] # None
    <3>1. /\ DOMAIN refs' = Layers /\ refs'[cur] = r
          /\ \A n \in Layers : n # cur => refs'[n] = refs[n]
      BY <2>1, <2>4 DEF Sane, RefsOK
    <3>2. ASSUME NEW n \in Layers, NEW t \in Types, refs'[n][t] # None
          PROVE  IsImage(refs'[n][t], t, hashDirs')
      <4>1. CASE n = cur
        BY <2>10, <3>1, <3>2, <4>1
      <4>2. CASE n # cur
        BY <2>3, <3>1, <3>2, <4>2, Grown DEF Sane, RefsOK
      <4> QED BY <4>1, <4>2
    <3> QED BY <2>11, <3>1, <3>2 DEF RefsOK
  <2>13. roots[cur] # None /\ roots[cur].meta # None
         /\ \A i \in 1..Len(roots[cur].meta.built) : roots[roots[cur].meta.built[i]] # None
    BY <1>1 DEF Sane, Work
  <2>14. ASSUME NEW t \in TypeSet  PROVE Unpacked(mut'[t], t, hashDirs')
    <3>1. mut'[t] = start[t].layers \o Manifest(roots[cur].meta.ods[t])
      BY Zenon, <2>1, <2>4
    <3>2. Unpacked(start[t].layers, t, hashDirs')
      BY <2>9 DEF IsImage
    <3>3. roots[cur].meta.ods[t] # None => Unpacked(roots[cur].meta.ods[t], t, hashDirs')
      <4>1. roots[cur].meta.ods[t] # None => Unpacked(roots[cur].meta.ods[t], t, {})
        BY <2>4, <2>13, CurDir DEF IsMeta
      <4>2. Grows({}, hashDirs')
        BY DEF Grows
      <4> QED BY <4>1, <4>2, Grown
    <3> QED BY <3>1, <3>2, <3>3, ManifestIs, UnpackedConcat
  <2>15. Work'
    <3>1. k' \in Nat /\ k' >= 1
      BY <2>1
    <3> QED BY <1>1, <2>2, <2>12, <2>13, <2>14, <3>1 DEF Work
  <2> QED BY <1>2, <2>2, <2>5, <2>6, <2>12, <2>15 DEF Sane
<1> QED BY <1>3, <1>4

\* generateLayer leaves the layers of the image unpacked, also the new one, and
\* b's metadata there.
LEMMA Generated ==
  ASSUME Apart, Sane, pc = "built", NEW b \in Layers, roots[b] # None,
         GenerateNew(b) \/ AddExisting(b)
  PROVE  /\ Grows(hashDirs, hashDirs') /\ DirsOK' /\ RootsOK'
         /\ roots[b].meta # None
         /\ \A n \in Layers : roots[n] # None => roots'[n] # None /\ roots'[n].meta = roots[n].meta
         /\ \A t \in TypeSet : Unpacked(mut'[t], t, hashDirs')
<1>1. IsDir(roots[b], hashDirs) /\ DOMAIN roots = Layers
  BY DEF Sane, RootsOK
<1>2. TypeSet \subseteq Types /\ \A t \in TypeSet : Unpacked(mut[t], t, hashDirs)
  BY TypeSetIs DEF Sane, Work
<1>3. CASE GenerateNew(b)
  <2> DEFINE u == roots[b].upper
  <2>1. /\ u # Empty /\ UNCHANGED links
        /\ mut' = [t \in Types |-> IF t \in TypeSet THEN Append(mut[t], u) ELSE mut[t]]
        /\ hashDirs' = hashDirs \union {<<t, u>> : t \in TypeSet}
        /\ roots' = [roots EXCEPT ![b].upper = Empty]
    BY <1>3 DEF GenerateNew
  <2>2. roots[b].meta # None
    BY <1>1, <2>1 DEF IsDir
  <2> HIDE DEF u
  <2>3. Grows(hashDirs, hashDirs')
    BY <2>1, GrowsIf
  <2>4. DirsOK'
    BY <1>2, <2>1 DEF Sane, DirsOK
  <2>5. /\ DOMAIN roots' = Layers /\ \A n \in Layers : n # b => roots'[n] = roots[n]
        /\ DOMAIN roots'[b] = DirFields /\ roots'[b].meta = roots[b].meta /\ roots'[b].upper = Empty
    BY <1>1, <2>1 DEF DirFields, IsDir
  <2>6. IsDir(roots'[b], hashDirs') /\ roots'[b] # None
    BY <1>1, <2>2, <2>3, <2>5, Grown DEF IsDir, Apart
  <2>7. RootsOK'
    BY <2>3, <2>5, <2>6, RootsChanged
  <2>8. ASSUME NEW t \in TypeSet  PROVE Unpacked(mut'[t], t, hashDirs')
    <3>1. mut'[t] = Append(mut[t], u) /\ <<t, u>> \in hashDirs'
      BY <1>2, <2>1
    <3>2. Unpacked(mut[t], t, hashDirs')
      BY <1>2, <2>3, Grown
    <3> QED BY <3>1, <3>2, UnpackedAppend
  <2> QED BY <2>2, <2>3, <2>4, <2>5, <2>6, <2>7, <2>8
<1>4. CASE AddExisting(b)
  <2> DEFINE m(t) == Manifest(roots[b].meta.manifests[t])
  <2>1. /\ roots[b].meta # None
        /\ UNCHANGED <<hashDirs, links, roots>>
        /\ mut' = [t \in Types |-> IF t \in TypeSet /\ m(t) # <<>>
                                   THEN Append(mut[t], m(t)[Len(m(t))]) ELSE mut[t]]
    BY <1>4 DEF AddExisting, HasMetadata, dirVars
  <2>2. Grows(hashDirs, hashDirs') /\ DirsOK' /\ RootsOK'
    BY <2>1, SameDirs, DiskKept DEF Sane, DirsOK
  <2>3. ASSUME NEW t \in TypeSet  PROVE Unpacked(mut'[t], t, hashDirs)
    <3>1. IsMeta(roots[b].meta, hashDirs)
      BY <1>1, <2>1 DEF IsDir
    <3>2. roots[b].meta.manifests[t] # None => Unpacked(roots[b].meta.manifests[t], t, hashDirs)
      BY <1>2, <3>1 DEF IsMeta
    <3>3. Unpacked(m(t), t, hashDirs)
      BY <3>2, ManifestIs
    <3>4. m(t) # <<>> /\ "dest" \notin DOMAIN m(t)[Len(m(t))] => <<t, m(t)[Len(m(t))]>> \in hashDirs
      BY <3>3, UnpackedAt
    <3>5. mut'[t] = mut[t] \/ (m(t) # <<>> /\ mut'[t] = Append(mut[t], m(t)[Len(m(t))]))
      BY <1>2, <2>1
    <3> QED BY Zenon, <1>2, <3>4, <3>5, UnpackedAppend
  <2> QED BY Zenon, <2>1, <2>2, <2>3
<1> QED BY <1>3, <1>4

\* While repack goes over the built layers.
LEMMA BuiltIs ==
  ASSUME Sane, pc \in {"built", "builtMeta"}
  PROVE  /\ cur \in Layers /\ roots[cur] # None /\ roots[cur].meta # None
         /\ Len(roots[cur].meta.built) \in Nat /\ k \in Nat /\ k >= 1
         /\ \A i \in 1..Len(roots[cur].meta.built) :
              roots[cur].meta.built[i] \in Layers /\ roots[roots[cur].meta.built[i]] # None
         /\ \A t \in TypeSet : Unpacked(mut[t], t, hashDirs)
         /\ \A t \in TypeSet : refs[cur][t] # None
<1>1. roots[cur] # None /\ roots[cur].meta # None /\ k \in Nat /\ k >= 1
  BY DEF Sane, Work
<1>2. roots[cur].meta.built \in Seq(Layers) /\ cur \in Layers
  BY <1>1, CurDir DEF IsMeta
<1>3. /\ Len(roots[cur].meta.built) \in Nat
      /\ \A i \in 1..Len(roots[cur].meta.built) : roots[cur].meta.built[i] \in Layers
  BY <1>2
<1> QED BY <1>1, <1>2, <1>3 DEF Sane, Work

LEMMA GenerateBuiltLayerSane == ASSUME Apart, Sane, GenerateBuiltLayer  PROVE Sane'
<1> DEFINE built == roots[cur].meta.built
           b == built[k]
<1>1. /\ pc = "built" /\ k <= Len(built)
      /\ UNCHANGED <<userVars, copyVars, cache, ociVars, mutated>>
  BY DEF GenerateBuiltLayer
<1>2. /\ cur \in Layers /\ roots[cur] # None /\ roots[cur].meta # None
      /\ Len(built) \in Nat /\ k \in 1..Len(built)
      /\ \A i \in 1..Len(built) : built[i] \in Layers /\ roots[built[i]] # None
      /\ \A t \in TypeSet : Unpacked(mut[t], t, hashDirs)
      /\ \A t \in TypeSet : refs[cur][t] # None
  BY <1>1, BuiltIs
<1>3. b \in Layers /\ roots[b] # None
  BY <1>2
<1>4. InputTypes' /\ UNCHANGED refs
  BY <1>1, InputTypesKept DEF Sane, ociVars
<1>5. CASE /\ GenerateNew(b) \/ AddExisting(b)
           /\ Goto("builtMeta") /\ UNCHANGED <<k, runVars>>
  <2>1. RunTypes' /\ UNCHANGED <<cur, TypeSet>> /\ pc' = "builtMeta"
    BY <1>1, <1>5, GotoTypes DEF Steps, Goto, Sane, RunTypes
  <2>2. /\ Grows(hashDirs, hashDirs') /\ DirsOK' /\ RootsOK'
        /\ roots[b].meta # None
        /\ \A n \in Layers : roots[n] # None => roots'[n] # None /\ roots'[n].meta = roots[n].meta
        /\ \A t \in TypeSet : Unpacked(mut'[t], t, hashDirs')
    <3> HIDE DEF b
    <3> QED BY <1>1, <1>3, <1>5, Generated
  <2>3. RefsOK' /\ CacheOK'
    BY <1>1, <1>4, <2>2, DiskKept
  <2>4. roots'[cur] # None /\ roots'[cur].meta = roots[cur].meta
    BY <1>2, <2>2
  <2>5. /\ k' \in Nat /\ k' >= 1 /\ k' <= Len(built)
        /\ roots'[built[k']].meta # None
    BY <1>2, <1>3, <1>5, <2>2
  <2>6. Work'
    BY Zenon, <1>2, <1>4, <2>1, <2>2, <2>4, <2>5 DEF Work
  <2> QED BY <1>4, <2>1, <2>2, <2>3, <2>6 DEF Sane
<1>6. CASE k' = k + 1 /\ UNCHANGED <<pc, mut, dirVars, roots, runVars>>
  <2>1. UNCHANGED <<pc, mut, hashDirs, links, roots, idx, types, cold, outcome, runs>>
    BY <1>6 DEF dirVars, runVars
  <2>2. UNCHANGED <<cur, TypeSet>>
    BY <2>1 DEF cur, TypeSet
  <2>3. RunTypes' /\ DirsOK' /\ RootsOK' /\ RefsOK' /\ CacheOK'
    BY <1>1, <1>4, <2>1, SameDirs, DiskKept DEF Sane, DirsOK, RunTypes
  <2>4. k' \in Nat /\ k' >= 1
    BY <1>2, <1>6
  <2>5. Work'
    BY <1>1, <1>2, <1>4, <2>1, <2>2, <2>4 DEF Work
  <2> QED BY <1>4, <2>3, <2>5 DEF Sane
<1>7. CASE Fail /\ UNCHANGED <<k, mut, dirVars, roots>>
  <2>1. RunTypes' /\ Work'
    BY <1>1, <1>7, FailTypes
  <2>2. DirsOK' /\ RootsOK' /\ RefsOK' /\ CacheOK'
    BY <1>1, <1>4, <1>7, SameDirs, DiskKept DEF dirVars, Sane, DirsOK
  <2> QED BY <1>4, <2>1, <2>2 DEF Sane
<1> QED BY <1>5, <1>6, <1>7 DEF GenerateBuiltLayer

LEMMA WriteBuiltMetadataSane == ASSUME Apart, Sane, WriteBuiltMetadata  PROVE Sane'
<1> DEFINE built == roots[cur].meta.built
           b == built[k]
           ms == WithManifests(roots[b].meta.manifests)
<1>1. /\ pc = "builtMeta" /\ mutated' = TRUE /\ k' = k + 1 /\ Goto("built")
      /\ UNCHANGED <<userVars, copyVars, cache, dirVars, ociVars, mut, runVars>>
      /\ roots' = [roots EXCEPT ![b].meta.manifests = ms, ![b].meta.hasOut = TRUE]
  BY Zenon DEF WriteBuiltMetadata
<1>2. /\ cur \in Layers /\ roots[cur] # None /\ roots[cur].meta # None
      /\ Len(built) \in Nat /\ k \in Nat /\ k >= 1
      /\ \A i \in 1..Len(built) : built[i] \in Layers /\ roots[built[i]] # None
      /\ \A t \in TypeSet : Unpacked(mut[t], t, hashDirs)
      /\ \A t \in TypeSet : refs[cur][t] # None
  BY Zenon, <1>1, BuiltIs
<1>3. k \in 1..Len(built) /\ roots[b].meta # None
  <2>1. k <= Len(built) /\ roots[b].meta # None
    BY Zenon, <1>1 DEF Sane, Work
  <2> QED BY <1>2, <2>1
<1>4. b \in Layers /\ roots[b] # None
  BY <1>2, <1>3
<1>5. /\ IsDir(roots[b], hashDirs) /\ IsMeta(roots[b].meta, hashDirs) /\ DOMAIN roots = Layers
      /\ DOMAIN roots[b] = DirFields /\ DOMAIN roots[b].meta = MetaFields
  <2> HIDE DEF b
  <2> QED BY <1>3, <1>4 DEF Sane, RootsOK, IsDir, IsMeta
<1>6. ASSUME NEW t \in Types, ms[t] # None  PROVE Unpacked(ms[t], t, hashDirs)
  <2> HIDE DEF b
  <2> QED BY <1>2, <1>5, <1>6 DEF WithManifests, IsMeta
<1> HIDE DEF ms
<1>7. /\ DOMAIN roots' = Layers /\ \A n \in Layers : n # b => roots'[n] = roots[n]
      /\ DOMAIN roots'[b] = DirFields /\ DOMAIN roots'[b].meta = MetaFields
      /\ roots'[b].meta.manifests = ms /\ roots'[b].meta.built = roots[b].meta.built
      /\ roots'[b].meta.ods = roots[b].meta.ods
  <2> HIDE DEF b
  <2> QED BY <1>1, <1>4, <1>5 DEF DirFields, MetaFields
<1>8. UNCHANGED <<hashDirs, links, refs>>
  BY Zenon, <1>1 DEF dirVars, ociVars
<1> DEFINE d == roots'[b]
<1>9. IsDir(d, hashDirs) /\ d # None /\ d.meta # None
  <2>1. d.meta # None /\ d # None
    BY <1>7 DEF Apart
  <2>2. IsMeta(d.meta, hashDirs)
    <3> HIDE DEF b
    <3> QED BY <1>5, <1>6, <1>7 DEF IsMeta
  <2> HIDE DEF b
  <2> QED BY <1>7, <2>1, <2>2 DEF IsDir
<1>10. RootsOK'
  <2> HIDE DEF b
  <2> QED BY <1>4, <1>7, <1>8, <1>9, SameDirs, RootsChanged
<1>11. InputTypes' /\ DirsOK' /\ RefsOK' /\ CacheOK'
  BY Zenon, <1>1, <1>8, SameDirs, InputTypesKept, DiskKept DEF Sane, DirsOK
<1>12. RunTypes' /\ UNCHANGED <<cur, TypeSet>> /\ pc' = "built"
  BY Zenon, <1>1, GotoTypes DEF Steps, Goto
<1>13. /\ roots'[cur] # None /\ roots'[cur].meta # None /\ roots'[cur].meta.built = built
       /\ \A n \in Layers : roots[n] # None => roots'[n] # None
  <2> HIDE DEF b
  <2>1. CASE b = cur
    BY <1>2, <1>7, <1>9, <2>1
  <2>2. CASE b # cur
    BY <1>2, <1>7, <1>9, <2>2
  <2> QED BY <2>1, <2>2
<1>14. k' \in Nat /\ k' >= 1
  <2>1. k' = k + 1 /\ k \in Nat /\ k >= 1
    BY Zenon, <1>1, <1>2
  <2> QED BY <2>1
<1>15. Work'
  BY Zenon, <1>1, <1>2, <1>8, <1>12, <1>13, <1>14 DEF Work
<1> QED BY <1>10, <1>11, <1>12, <1>15 DEF Sane

LEMMA GenerateOwnLayerSane == ASSUME Apart, Sane, GenerateOwnLayer  PROVE Sane'
<1>1. /\ pc = "built"
      /\ UNCHANGED <<userVars, copyVars, cache, ociVars, k, mutated, runVars>>
  BY DEF GenerateOwnLayer
<1>2. /\ cur \in Layers /\ roots[cur] # None /\ roots[cur].meta # None
      /\ \A t \in TypeSet : Unpacked(mut[t], t, hashDirs)
      /\ \A t \in TypeSet : refs[cur][t] # None
  BY <1>1, BuiltIs
<1>3. InputTypes' /\ UNCHANGED <<refs, mutated>> /\ mutated' \in BOOLEAN
  BY <1>1, InputTypesKept DEF Sane, ociVars, RunTypes
<1>4. PICK label \in {"commit", "config"} :
        /\ Goto(label)
        /\ GenerateNew(cur) \/ AddExisting(cur) \/ UNCHANGED <<mut, dirVars, roots>>
  BY DEF GenerateOwnLayer
<1>5. RunTypes' /\ UNCHANGED <<cur, TypeSet>> /\ pc' \in {"commit", "config"}
  <2>1. label \in Steps
    BY DEF Steps
  <2> QED BY <1>1, <1>3, <1>4, <2>1, GotoTypes DEF Goto
<1>6. /\ Grows(hashDirs, hashDirs') /\ DirsOK' /\ RootsOK'
      /\ roots'[cur] # None /\ roots'[cur].meta # None
      /\ \A t \in TypeSet : Unpacked(mut'[t], t, hashDirs')
  <2>1. CASE GenerateNew(cur) \/ AddExisting(cur)
    BY <1>1, <1>2, <2>1, Generated
  <2>2. CASE UNCHANGED <<mut, dirVars, roots>>
    <3>1. UNCHANGED <<mut, hashDirs, links, roots>>
      BY <2>2 DEF dirVars
    <3> QED BY <1>2, <3>1, SameDirs, DiskKept DEF Sane, DirsOK
  <2> QED BY <1>4, <2>1, <2>2
<1>7. RefsOK' /\ CacheOK'
  BY <1>1, <1>3, <1>6, DiskKept
<1>8. Work'
  BY <1>2, <1>3, <1>5, <1>6 DEF Work
<1> QED BY <1>3, <1>5, <1>6, <1>7, <1>8 DEF Sane

\* A step that changes the images tagged with the layer being made.
LEMMA RefsChanged ==
  ASSUME Sane, UNCHANGED hashDirs, NEW r, refs' = [refs EXCEPT ![cur] = r],
         \A t \in Types : r[t] # None => IsImage(r[t], t, hashDirs)
  PROVE  RefsOK' /\ refs'[cur] = r
<1>1. /\ DOMAIN refs' = Layers /\ refs'[cur] = r
      /\ \A n \in Layers : n # cur => refs'[n] = refs[n]
  BY CurIs DEF Sane, RefsOK
<1>2. ASSUME NEW n \in Layers, NEW t \in Types, refs'[n][t] # None
      PROVE  IsImage(refs'[n][t], t, hashDirs)
  <2>1. CASE n = cur
    BY <1>1, <1>2, <2>1
  <2>2. CASE n # cur
    BY <1>1, <1>2, <2>2 DEF Sane, RefsOK
  <2> QED BY <2>1, <2>2
<1> QED BY <1>1, <1>2 DEF RefsOK

LEMMA CommitSane == ASSUME Apart, Sane, Commit  PROVE Sane'
<1> DEFINE r == [t \in Types |-> IF t \in TypeSet THEN [refs[cur][t] EXCEPT !.layers = mut[t]]
                                ELSE refs[cur][t]]
<1>1. /\ Goto("ownMeta") /\ pc' = "ownMeta" /\ "ownMeta" \in Steps /\ pc = "commit"
      /\ UNCHANGED <<userVars, copyVars, cache, roots, dirVars, mutVars, runVars>>
      /\ refs' = [refs EXCEPT ![cur] = r]
  BY DEF Commit, Goto, Steps
<1>2. RunTypes' /\ UNCHANGED <<cur, TypeSet, mut, k, mutated>>
  BY <1>1, MakingTypes
<1>3. UNCHANGED <<hashDirs, links>> /\ cur \in Layers /\ TypeSet \subseteq Types
  BY <1>1, CurIs, TypeSetIs DEF dirVars
<1>4. /\ roots[cur] # None /\ roots[cur].meta # None
      /\ \A t \in TypeSet : Unpacked(mut[t], t, hashDirs)
      /\ \A t \in TypeSet : refs[cur][t] # None
  BY <1>1 DEF Sane, Work
<1>5. \A t \in TypeSet : DOMAIN refs[cur][t] = {"layers", "def"}
  BY <1>3, <1>4 DEF Sane, RefsOK, IsImage
<1>6. ASSUME NEW t \in TypeSet
      PROVE  DOMAIN r[t] = {"layers", "def"} /\ r[t].layers = mut[t]
  <2>1. r[t] = [refs[cur][t] EXCEPT !.layers = mut[t]]
    BY <1>3
  <2> HIDE DEF r
  <2> QED BY <1>5, <2>1
<1>7. ASSUME NEW t \in Types, r[t] # None  PROVE IsImage(r[t], t, hashDirs)
  <2>1. CASE t \in TypeSet
    BY Zenon, <1>4, <1>6, <2>1 DEF IsImage
  <2>2. CASE t \notin TypeSet
    BY <1>3, <1>7, <2>2 DEF Sane, RefsOK
  <2> QED BY <2>1, <2>2
<1> HIDE DEF r
<1>8. RefsOK' /\ refs'[cur] = r
  BY Zenon, <1>1, <1>3, <1>7, RefsChanged
<1>9. \A t \in TypeSet : r[t] # None
  BY <1>6 DEF Apart, ImageFields
<1>10. InputTypes' /\ DirsOK' /\ RootsOK' /\ CacheOK'
  BY <1>1, <1>3, SameDirs, InputTypesKept, DiskKept DEF Sane, DirsOK
<1>11. Work'
  BY <1>1, <1>2, <1>3, <1>4, <1>8, <1>9 DEF Work
<1> QED BY <1>2, <1>8, <1>10, <1>11 DEF Sane

LEMMA WriteOwnMetadataSane == ASSUME Apart, Sane, WriteOwnMetadata  PROVE Sane'
<1> DEFINE ms == [t \in Types |-> IF t \in TypeSet THEN mut[t] ELSE None]
           m == [NewOverlayMetadata EXCEPT !.manifests = ms]
<1>1. /\ Goto("config") /\ pc' = "config" /\ "config" \in Steps /\ pc = "ownMeta"
      /\ UNCHANGED <<userVars, copyVars, cache, dirVars, ociVars, mutVars, runVars>>
      /\ roots' = [roots EXCEPT ![cur].meta = m]
  BY DEF WriteOwnMetadata, Goto, Steps
<1>2. RunTypes' /\ UNCHANGED <<cur, TypeSet>>
  BY <1>1, MakingTypes
<1>3. UNCHANGED <<hashDirs, links, refs>>
  BY <1>1 DEF dirVars, ociVars
<1>4. /\ roots[cur] # None
      /\ \A t \in TypeSet : Unpacked(mut[t], t, hashDirs)
      /\ \A t \in TypeSet : refs[cur][t] # None
  BY <1>1 DEF Sane, Work
<1>5. \A t \in Types : ms[t] # None => Unpacked(ms[t], t, hashDirs)
  BY <1>4
<1> HIDE DEF ms
<1>6. /\ DOMAIN m = MetaFields /\ m.built \in Seq(Layers) /\ m.manifests = ms
      /\ \A t \in Types : m.ods[t] = None
  BY Zenon, IsNewMetadata DEF MetaFields
<1> HIDE DEF m
<1>7. m # None /\ IsMeta(m, hashDirs)
  BY <1>5, <1>6 DEF Apart, IsMeta
<1>8. /\ DOMAIN roots' = Layers /\ \A n \in Layers : n # cur => roots'[n] = roots[n]
      /\ DOMAIN roots'[cur] = DirFields /\ roots'[cur].meta = m
  BY <1>1, <1>4, CurDir DEF DirFields
<1>9. IsDir(roots'[cur], hashDirs) /\ roots'[cur] # None
  BY <1>7, <1>8 DEF IsDir, Apart
<1>10. RootsOK'
  BY <1>3, <1>8, <1>9, CurIs, SameDirs, RootsChanged
<1>11. InputTypes' /\ DirsOK' /\ RefsOK' /\ CacheOK'
  BY <1>1, <1>3, SameDirs, InputTypesKept, DiskKept DEF Sane, DirsOK
<1>12. Work'
  BY <1>1, <1>2, <1>3, <1>4, <1>7, <1>8, <1>9 DEF Work
<1> QED BY <1>2, <1>10, <1>11, <1>12 DEF Sane

LEMMA UpdateOCIConfigSane == ASSUME Sane, UpdateOCIConfig  PROVE Sane'
<1> DEFINE r == [t \in Types |-> IF t \in TypeSet THEN [refs[cur][t] EXCEPT !.def = def[cur]]
                                ELSE refs[cur][t]]
<1>1. /\ Goto("put") /\ pc' = "put" /\ "put" \in Steps /\ pc = "config"
      /\ UNCHANGED <<userVars, copyVars, cache, roots, dirVars, mutVars, runVars>>
      /\ refs' = [refs EXCEPT ![cur] = r]
  BY DEF UpdateOCIConfig, Goto, Steps
<1>2. RunTypes'
  BY <1>1, MakingTypes
<1>3. UNCHANGED <<hashDirs, links>> /\ cur \in Layers /\ TypeSet \subseteq Types
  BY <1>1, CurIs, TypeSetIs DEF dirVars
<1>4. \A t \in TypeSet : refs[cur][t] # None
  BY <1>1 DEF Sane, Work
<1>5. \A t \in TypeSet : IsImage(refs[cur][t], t, hashDirs)
  BY <1>3, <1>4 DEF Sane, RefsOK
<1>6. ASSUME NEW t \in TypeSet
      PROVE  DOMAIN r[t] = {"layers", "def"} /\ r[t].layers = refs[cur][t].layers
  <2>1. r[t] = [refs[cur][t] EXCEPT !.def = def[cur]]
    BY <1>3
  <2>2. DOMAIN refs[cur][t] = {"layers", "def"}
    BY <1>5 DEF IsImage
  <2> HIDE DEF r
  <2> QED BY <2>1, <2>2
<1>7. ASSUME NEW t \in Types, r[t] # None  PROVE IsImage(r[t], t, hashDirs)
  <2>1. CASE t \in TypeSet
    BY <1>5, <1>6, <2>1 DEF IsImage
  <2>2. CASE t \notin TypeSet
    BY <1>3, <1>7, <2>2 DEF Sane, RefsOK
  <2> QED BY <2>1, <2>2
<1> HIDE DEF r
<1>8. RefsOK'
  BY Zenon, <1>1, <1>3, <1>7, RefsChanged
<1>9. InputTypes' /\ DirsOK' /\ RootsOK' /\ CacheOK'
  BY <1>1, <1>3, SameDirs, InputTypesKept, DiskKept DEF Sane, DirsOK
<1> QED BY <1>1, <1>2, <1>8, <1>9, NoWork DEF Sane

-----------------------------------------------------------------------------
(* The theorems *)

LEMMA NextSane == ASSUME Apart, Sane, [Next]_vars  PROVE Sane'
<1>1. CASE Build
  BY <1>1, ImportSane, GetBaseSane, CacheLookupSane, DeleteSane, CreateSane, SetupEmptyRootfsSane,
     UnpackSane, RestoreSane, SetOverlayDirsSane, RunContainerSane, InitializeBasesInOutputSane,
     GenerateBuiltLayerSane, WriteBuiltMetadataSane, GenerateOwnLayerSane, CommitSane,
     WriteOwnMetadataSane, UpdateOCIConfigSane, PutSane, GCSane DEF Build, SetupRootfs, Repack
<1>2. CASE Kill \/ KillUnpack
  BY <1>2, KillSane, KillUnpackSane
<1>3. CASE \E noCache \in BOOLEAN : Start(noCache)
  BY <1>3, StartSane
<1> QED BY <1>1, <1>2, <1>3, UserSane DEF Next

\* Every variable has the shape the code's data types give it, and a layer
\* that is run or packed has its metadata (TypeOK), for every stackerfile,
\* whatever fails or is killed.
THEOREM TypeCorrect == ASSUME Apart  PROVE Spec => []TypeOK
<1>1. Init => Sane
  BY InitSane
<1>2. Sane /\ [Next]_vars => Sane'
  BY NextSane
<1> QED BY <1>1, <1>2, SaneTypeOK, PTL DEF Spec

\* Every layer of a manifest that a root filesystem mounts has its directory in
\* the roots dir, the overlay_dir layers excepted (ManifestsUnpacked): repack
\* writes no metadata ahead of the directories it names, and Delete, a failure
\* or a kill removes none that another root filesystem needs.
THEOREM ManifestsStayUnpacked == ASSUME Apart  PROVE Spec => []ManifestsUnpacked
<1>1. Init => Sane
  BY InitSane
<1>2. Sane /\ [Next]_vars => Sane'
  BY NextSane
<1> QED BY <1>1, <1>2, SaneUnpacked, PTL DEF Spec

-----------------------------------------------------------------------------
(* What the cache says of an image *)

\* Every invocation asks for the same layer types.
OneTypeSet ==
  \A c, d \in TypeChoices : {c[i] : i \in 1..Len(c)} = {d[i] : i \in 1..Len(d)}

\* Nobody edits an overlay_dir while stacker runs.
SteadyDirs == (\E n \in Layers : ImportKind[n] = "overlay") => "edit" \notin Faults

\* None is no list of layers and no content of an image.
NoContent ==
  /\ \A S : None \notin Seq(S)
  /\ \A r : DOMAIN r = {"image", "version"} => r # None

Before(m, n) == \E i, j \in 1..Len(Order) : i < j /\ Order[i] = m /\ Order[j] = n

\* The layers that are built before n, and n with them.
Under(n) == {m \in Layers : Before(m, n)}
Upto(n) == Under(n) \union {n}

\* The token x was made for one of the layers S, or for none.
Stems(x, S) ==
  /\ "layer" \in DOMAIN x => x.layer \in S
  /\ "dest" \in DOMAIN x => x.dest \in S

\* If x was made for n or a later layer, then for n's definition d and import v,
\* and by a run section that ran to its end.
Fits(x, n, d, v) ==
  /\ "layer" \in DOMAIN x =>
       \/ x.layer \in Under(n)
       \/ x.layer = n /\ x.def = d /\ x.imp \in {None, v} /\ x.whole
  /\ "dest" \in DOMAIN x =>
       \/ x.dest \in Under(n)
       \/ x.dest = n /\ (ImportKind[n] = "overlay" => x.imp = v)

StemSeq(s, L) == \E S : s \in Seq(S) /\ \A x \in S : Stems(x, L)
FitSeq(s, n, d, v) == \E S : s \in Seq(S) /\ \A x \in S : Fits(x, n, d, v)
Ended(s, L) == (\E S : s \in Seq(S)) /\ s # <<>> /\ Stems(s[Len(s)], L)

LEMMA Unders ==
  /\ \A n \in Layers : n \notin Under(n) /\ Under(n) \subseteq Layers
  /\ \A n \in Layers : From[n] # None => From[n] \in Under(n)
  /\ \A n \in Layers : \A m \in Under(n) : Upto(m) \subseteq Under(n)
<1> DEFINE N == Len(Order)
<1>1. N \in Nat /\ \A i \in 1..N : Order[i] \in Layers
  BY BuildAssumption
<1>2. \A n \in Layers : \E i \in 1..N : Order[i] = n
  BY BuildAssumption
<1>3. \A i, j \in 1..N : i # j => Order[i] # Order[j]
  BY BuildAssumption
<1>4. \A i \in 1..N : From[Order[i]] # None => \E j \in 1..(i - 1) : Order[j] = From[Order[i]]
  BY Zenon, BuildAssumption
<1> HIDE DEF N
<1>5. \A m, n : Before(m, n) <=> \E i, j \in 1..N : i < j /\ Order[i] = m /\ Order[j] = n
  BY DEF Before, N
<1>6. ASSUME NEW n \in Layers  PROVE n \notin Under(n)
  <2>1. SUFFICES ASSUME Before(n, n)  PROVE FALSE
    BY DEF Under
  <2>2. PICK i, j \in 1..N : i < j /\ Order[i] = n /\ Order[j] = n
    BY <1>5, <2>1
  <2>3. i # j
    BY <1>1, <2>2
  <2> QED BY <1>3, <2>2, <2>3
<1>7. ASSUME NEW n \in Layers, From[n] # None  PROVE From[n] \in Under(n)
  <2>1. PICK j \in 1..N : Order[j] = n
    BY <1>2
  <2>2. PICK i \in 1..(j - 1) : Order[i] = From[n]
    BY <1>4, <1>7, <2>1
  <2>3. i \in 1..N /\ i < j
    BY <1>1, <2>1, <2>2
  <2> QED BY <1>1, <1>5, <2>1, <2>2, <2>3 DEF Under
<1>8. ASSUME NEW n \in Layers, NEW m \in Under(n), NEW l \in Upto(m)  PROVE l \in Under(n)
  <2>1. m \in Layers /\ Before(m, n)
    BY DEF Under
  <2>2. CASE l = m
    BY <2>2
  <2>3. CASE l \in Layers /\ Before(l, m)
    <3>1. PICK i, j \in 1..N : i < j /\ Order[i] = m /\ Order[j] = n
      BY <1>5, <2>1
    <3>2. PICK p, q \in 1..N : p < q /\ Order[p] = l /\ Order[q] = m
      BY <1>5, <2>3
    <3>3. q = i
      BY <1>3, <3>1, <3>2
    <3>4. p < j
      BY <1>1, <3>1, <3>2, <3>3
    <3> QED BY <1>5, <2>3, <3>1, <3>2, <3>4 DEF Under
  <2> QED BY <2>2, <2>3 DEF Upto, Under
<1> QED BY <1>6, <1>7, <1>8 DEF Under

LEMMA FirstBaseUnder ==
  ASSUME NEW n \in Layers, FirstBaseInOutput[n] # None  PROVE FirstBaseInOutput[n] \in Under(n)
<1> DEFINE U == {m \in Layers : FirstBaseInOutput[m] # None => FirstBaseInOutput[m] \in Under(m)}
<1>1. ASSUME NEW m \in Layers, From[m] # None => From[m] \in U  PROVE m \in U
  <2>1. CASE From[m] = None
    BY <2>1, FirstBaseEq
  <2>2. CASE From[m] # None /\ From[m] \notin BuildOnly
    BY <2>2, FirstBaseEq, Unders
  <2>3. CASE From[m] # None /\ From[m] \in BuildOnly
    <3>1. FirstBaseInOutput[m] = FirstBaseInOutput[From[m]]
      BY <2>3, FirstBaseEq
    <3>2. From[m] \in Under(m) /\ Under(From[m]) \subseteq Under(m)
      BY <2>3, Unders DEF Upto
    <3> QED BY <1>1, <2>3, <3>1, <3>2
  <2> QED BY <2>1, <2>2, <2>3
<1>2. Layers \subseteq U
  <2> HIDE DEF U
  <2> QED BY <1>1, LayerInduction
<1> QED BY <1>2

LEMMA StemMore ==
  ASSUME NEW L, NEW M, L \subseteq M
  PROVE  /\ \A x : Stems(x, L) => Stems(x, M)
         /\ \A s : StemSeq(s, L) => StemSeq(s, M)
         /\ \A s : Ended(s, L) => Ended(s, M)
<1>1. \A x : Stems(x, L) => Stems(x, M)
  BY DEF Stems
<1>2. ASSUME NEW s, StemSeq(s, L)  PROVE StemSeq(s, M)
  <2>1. PICK S : s \in Seq(S) /\ \A x \in S : Stems(x, L)
    BY <1>2 DEF StemSeq
  <2> QED BY <1>1, <2>1 DEF StemSeq
<1> QED BY <1>1, <1>2 DEF Ended

\* What stems from earlier layers fits, and what fits stems from the layers so far.
LEMMA StemFits ==
  ASSUME NEW n, NEW d, NEW v, NEW L, L \subseteq Under(n)
  PROVE  /\ \A x : Stems(x, L) => Fits(x, n, d, v)
         /\ \A s : StemSeq(s, L) => FitSeq(s, n, d, v)
         /\ \A x : Fits(x, n, d, v) => Stems(x, Upto(n))
         /\ \A s : FitSeq(s, n, d, v) => StemSeq(s, Upto(n))
<1>1. \A x : Stems(x, L) => Fits(x, n, d, v)
  BY DEF Stems, Fits
<1>2. \A x : Fits(x, n, d, v) => Stems(x, Upto(n))
  BY DEF Stems, Fits, Upto
<1>3. ASSUME NEW s, StemSeq(s, L)  PROVE FitSeq(s, n, d, v)
  <2>1. PICK S : s \in Seq(S) /\ \A x \in S : Stems(x, L)
    BY <1>3 DEF StemSeq
  <2> QED BY <1>1, <2>1 DEF FitSeq
<1>4. ASSUME NEW s, FitSeq(s, n, d, v)  PROVE StemSeq(s, Upto(n))
  <2>1. PICK S : s \in Seq(S) /\ \A x \in S : Fits(x, n, d, v)
    BY <1>4 DEF FitSeq
  <2> QED BY <1>2, <2>1 DEF StemSeq
<1> QED BY <1>1, <1>2, <1>3, <1>4

LEMMA FitNothing == ASSUME NEW n, NEW d, NEW v  PROVE FitSeq(<<>>, n, d, v)
<1> DEFINE S == {}
           s == <<>>
<1>1. s \in Seq(S) /\ \A x \in S : Fits(x, n, d, v)
  OBVIOUS
<1> HIDE DEF S, s
<1>2. FitSeq(s, n, d, v)
  BY <1>1 DEF FitSeq
<1> QED BY <1>2 DEF s

LEMMA FitOne == ASSUME NEW n, NEW d, NEW v, NEW x, Fits(x, n, d, v)  PROVE FitSeq(<<x>>, n, d, v)
<1> DEFINE S == {x}
           s == <<x>>
<1>1. s \in Seq(S) /\ \A y \in S : Fits(y, n, d, v)
  OBVIOUS
<1> HIDE DEF S, s
<1>2. FitSeq(s, n, d, v)
  BY <1>1 DEF FitSeq
<1> QED BY <1>2 DEF s

LEMMA FitAppend ==
  ASSUME NEW s, NEW n, NEW d, NEW v, FitSeq(s, n, d, v), NEW x
  PROVE  /\ Fits(x, n, d, v) => FitSeq(Append(s, x), n, d, v)
         /\ \A L : Stems(x, L) => Ended(Append(s, x), L)
<1>1. PICK S : s \in Seq(S) /\ \A y \in S : Fits(y, n, d, v)
  BY DEF FitSeq
<1> DEFINE U == S \union {x}
<1>2. s \in Seq(U) /\ x \in U
  BY <1>1
<1>3. /\ Append(s, x) \in Seq(U) /\ Append(s, x) # <<>>
      /\ Append(s, x)[Len(Append(s, x))] = x
  <2> HIDE DEF U
  <2> QED BY <1>2
<1>4. Fits(x, n, d, v) => FitSeq(Append(s, x), n, d, v)
  BY <1>1, <1>3 DEF FitSeq
<1> HIDE DEF U
<1> QED BY <1>3, <1>4 DEF Ended

LEMMA FitConcat ==
  ASSUME NEW s, NEW r, NEW n, NEW d, NEW v, FitSeq(s, n, d, v), FitSeq(r, n, d, v)
  PROVE  FitSeq(s \o r, n, d, v)
<1>1. PICK S : s \in Seq(S) /\ \A y \in S : Fits(y, n, d, v)
  BY DEF FitSeq
<1>2. PICK R : r \in Seq(R) /\ \A y \in R : Fits(y, n, d, v)
  BY DEF FitSeq
<1> DEFINE U == S \union R
<1>3. s \in Seq(U) /\ r \in Seq(U)
  BY <1>1, <1>2
<1>4. s \o r \in Seq(U)
  <2> HIDE DEF U
  <2> QED BY <1>3
<1> QED BY <1>1, <1>2, <1>4 DEF FitSeq

LEMMA FitAt ==
  ASSUME NEW s, NEW n, NEW d, NEW v, FitSeq(s, n, d, v)
  PROVE  Len(s) \in Nat /\ \A i \in 1..Len(s) : Fits(s[i], n, d, v)
<1>1. PICK S : s \in Seq(S) /\ \A y \in S : Fits(y, n, d, v)
  BY DEF FitSeq
<1>2. Len(s) \in Nat /\ \A i \in 1..Len(s) : s[i] \in S
  BY <1>1
<1> QED BY <1>1, <1>2

-----------------------------------------------------------------------------
(* The invariant behind it *)

\* What Put records of n's import.
Taken(n) == CASE ImportKind[n] = "plain" -> impDir[n]
              [] ImportKind[n] = "overlay" -> imp[n]
              [] OTHER -> None

\* Metadata that mounts and repacks only what was made for the layers L, on the
\* layers B: where it says that a repack took the content, that content is the
\* last layer of each manifest.
FineMeta(m, L, B, T) ==
  /\ m.built \in Seq(B)
  /\ \A t \in Types : m.ods[t] # None => StemSeq(m.ods[t], L)
  /\ m.hasOut => \A t \in T : m.manifests[t] # None /\ Ended(m.manifests[t], L)

FineDir(r, n, T) ==
  /\ r.upper # Empty => Stems(r.upper, {n})
  /\ r.meta # None => FineMeta(r.meta, Upto(n), Under(n), T)

BasesFine == \A tag \in Tags : bases[tag] # None => DOMAIN bases[tag] = {"image", "version"}

RootsFine == \A n \in Layers : roots[n] # None => FineDir(roots[n], n, TypeSet)

RefsFine ==
  \A n \in Layers, t \in Types : refs[n][t] # None => StemSeq(refs[n][t].layers, Upto(n))

\* Each cached image fits its entry.
FineEntry(e, n) ==
  \A t \in Types : e.manifests[t] # None => FitSeq(e.manifests[t].layers, n, e.def, e.imp)
CacheFine == \A n \in Layers \ BuildOnly : cache[n] # None => FineEntry(cache[n], n)

FitOds(m) ==
  \A t \in Types : m.ods[t] # None => FitSeq(m.ods[t], cur, def[cur], Taken(cur))
\* The content that was copied from a base's metadata is a base's.
FitOut(m) ==
  m.hasOut => \A t \in TypeSet : m.manifests[t] # None /\ Ended(m.manifests[t], Under(cur))
FitUpper(u) == u # Empty => Fits(u, cur, def[cur], Taken(cur))
FitMut == \A t \in TypeSet : FitSeq(mut[t], cur, def[cur], Taken(cur))
FitRefs == \A t \in TypeSet : refs[cur][t] # None =>
             FitSeq(refs[cur][t].layers, cur, def[cur], Taken(cur))

\* The layer being made starts afresh, and what is put together for it fits.
Making ==
  /\ pc \in {"lookup", "delete", "create", "metadata"} => (Source(cur) # None => Cached(cur) # None)
  /\ pc = "create" => roots[cur] = None
  /\ pc = "metadata" => roots[cur].upper = Empty
  /\ pc \in {"overlayDirs", "run"} => (roots[cur].upper # Empty => Stems(roots[cur].upper, {}))
  /\ pc = "overlayDirs" => FineMeta(roots[cur].meta, Under(cur), Under(cur), TypeSet)
  /\ pc \in {"run", "initBases"} => FitOds(roots[cur].meta)
  /\ pc \in {"run", "initBases", "built", "builtMeta"} => FitOut(roots[cur].meta)
  /\ pc \in {"initBases", "built", "builtMeta"} => FitUpper(roots[cur].upper)
  /\ pc \in {"built", "builtMeta", "commit", "ownMeta"} => FitMut
  /\ pc \in {"built", "builtMeta", "commit", "ownMeta", "config"} => FitRefs
  /\ pc = "put" /\ cur \notin BuildOnly => FitRefs
  /\ pc = "builtMeta" => \A t \in TypeSet : Ended(mut[t], Upto(roots[cur].meta.built[k]))

Described == BasesFine /\ RootsFine /\ RefsFine /\ CacheFine /\ Making

LEMMA DescribedCache == Described => CacheDescribesImage
<1>1. SUFFICES ASSUME Described, NEW n \in Layers \ BuildOnly, NEW t \in Types,
                      cache[n] # None, cache[n].manifests[t] # None,
                      NEW i \in 1..Len(cache[n].manifests[t].layers)
               PROVE  LET token == cache[n].manifests[t].layers[i] IN
                      /\ "layer" \in DOMAIN token /\ token.layer = n =>
                           token.def = cache[n].def /\ token.imp \in {None, cache[n].imp}
                           /\ token.whole
                      /\ token \in OverlayDirs(n) /\ ImportKind[n] = "overlay" =>
                           token.imp = cache[n].imp
  BY DEF CacheDescribesImage, Each
<1> DEFINE x == cache[n].manifests[t].layers[i]
<1>2. Fits(x, n, cache[n].def, cache[n].imp)
  <2>1. FitSeq(cache[n].manifests[t].layers, n, cache[n].def, cache[n].imp)
    BY <1>1 DEF Described, CacheFine, FineEntry
  <2> QED BY <1>1, <2>1, FitAt
<1>3. x \in OverlayDirs(n) => "dest" \in DOMAIN x /\ x.dest = n
  BY DEF OverlayDirs, OverlayDir
<1>4. n \in Layers /\ n \notin Under(n)
  BY Unders
<1> HIDE DEF x
<1>5. /\ "layer" \in DOMAIN x /\ x.layer = n =>
           x.def = cache[n].def /\ x.imp \in {None, cache[n].imp} /\ x.whole
      /\ x \in OverlayDirs(n) /\ ImportKind[n] = "overlay" => x.imp = cache[n].imp
  BY <1>2, <1>3, <1>4 DEF Fits
<1> QED BY <1>5 DEF x

-----------------------------------------------------------------------------
(* Steps that leave the roots and the images alone *)

LEMMA InitDescribed == Init => Described
<1> SUFFICES ASSUME Init  PROVE Described
  OBVIOUS
<1>1. BasesFine /\ RootsFine /\ RefsFine /\ CacheFine
  BY DEF Init, BasesFine, RootsFine, RefsFine, CacheFine
<1>2. Making
  BY DEF Init, Making
<1> QED BY <1>1, <1>2 DEF Described

\* Between the parts of a layer's build.
LEMMA NotMaking == ASSUME pc' \in {"idle", "import", "getBase", "gc"}  PROVE Making'
  BY DEF Making

LEMMA StepOut ==
  ASSUME Fail \/ NextLayer  PROVE UNCHANGED TypeSet /\ Making'
<1>1. pc' \in {"idle", "gc", "import"} /\ UNCHANGED types
  BY DEF Fail, NextLayer
<1> QED BY <1>1, NotMaking DEF TypeSet

LEMMA GotoKeeps ==
  ASSUME NEW label, Goto(label), UNCHANGED runVars  PROVE pc' = label /\ UNCHANGED <<cur, TypeSet>>
  BY DEF Goto, runVars, cur, TypeSet

\* What is unchanged stays fine.
LEMMA FineKept ==
  ASSUME Described
  PROVE  /\ UNCHANGED bases => BasesFine'
         /\ UNCHANGED <<roots, TypeSet>> => RootsFine'
         /\ UNCHANGED refs => RefsFine'
         /\ UNCHANGED cache => CacheFine'
<1>1. UNCHANGED bases => BasesFine'
  BY DEF Described, BasesFine
<1>2. UNCHANGED <<roots, TypeSet>> => RootsFine'
  BY DEF Described, RootsFine
<1>3. UNCHANGED refs => RefsFine'
  BY DEF Described, RefsFine
<1>4. UNCHANGED cache => CacheFine'
  BY DEF Described, CacheFine
<1> QED BY <1>1, <1>2, <1>3, <1>4

LEMMA TakenKept == ASSUME NEW n, UNCHANGED <<imp, impDir>>  PROVE UNCHANGED Taken(n)
  BY DEF Taken

LEMMA UserDescribed ==
  ASSUME SteadyDirs, Sane, Described,
         \/ \E n \in Layers : EditDefinition(n) \/ EditImport(n)
         \/ \E i \in Pushed : PushImage(i)
         \/ UNCHANGED vars
  PROVE  Described'
<1>1. /\ UNCHANGED <<impDir, bases, cache, roots, refs, pc, mut, k, idx, types>>
  BY DEF EditDefinition, EditImport, PushImage, vars, runVars, copyVars, ociVars, mutVars
<1>2. UNCHANGED <<cur, TypeSet>>
  BY <1>1 DEF cur, TypeSet
<1>3. BasesFine' /\ RootsFine' /\ RefsFine' /\ CacheFine'
  BY <1>1, <1>2, FineKept
<1>4. CASE pc = "idle"
  BY <1>1, <1>3, <1>4, NotMaking DEF Described
<1>5. CASE pc # "idle"
  <2>1. UNCHANGED def /\ (~ UNCHANGED imp => "edit" \in Faults)
    BY <1>5 DEF EditDefinition, EditImport, PushImage, vars, userVars
  <2>2. UNCHANGED Taken(cur)
    <3>1. cur \in Layers
      BY CurIs
    <3>2. CASE UNCHANGED imp
      BY <1>1, <1>2, <3>2 DEF Taken
    <3>3. CASE ImportKind[cur] # "overlay"
      BY <1>1, <1>2, <3>3 DEF Taken
    <3> QED BY <2>1, <3>1, <3>2, <3>3 DEF SteadyDirs
  <2>3. UNCHANGED <<Source(cur), Cached(cur)>>
    BY <1>1, <1>2, <2>1 DEF Source, Cached
  <2> HIDE DEF cur, TypeSet
  <2>4. Making'
    BY <1>1, <1>2, <2>1, <2>2, <2>3 DEF Described, Making, FitOds, FitOut, FitUpper, FitMut, FitRefs
  <2> QED BY <1>3, <2>4 DEF Described
<1> QED BY <1>4, <1>5

LEMMA StartDescribed ==
  ASSUME OneTypeSet, Sane, Described, NEW noCache \in BOOLEAN, Start(noCache)  PROVE Described'
<1>1. /\ pc' = "import" /\ types' \in TypeChoices /\ types \in TypeChoices
      /\ UNCHANGED <<roots, refs>>
  BY DEF Start, ociVars, Sane, RunTypes
<1>2. UNCHANGED TypeSet
  BY Zenon, <1>1 DEF OneTypeSet, TypeSet
<1>3. RootsFine' /\ RefsFine'
  BY <1>1, <1>2, FineKept
<1>4. BasesFine'
  BY DEF Start, Described, BasesFine
<1>5. CacheFine'
  <2>1. \A n \in Layers : cache'[n] \in {None, cache[n]}
    BY DEF Start, Pruned
  <2> QED BY <2>1 DEF Described, CacheFine
<1> QED BY <1>1, <1>3, <1>4, <1>5, NotMaking DEF Described

LEMMA ImportDescribed == ASSUME Described, Import  PROVE Described'
<1>1. pc' = "getBase" /\ UNCHANGED <<bases, cache, roots, refs, TypeSet>>
  BY DEF Import, Goto, runVars, ociVars, TypeSet
<1> QED BY <1>1, FineKept, NotMaking DEF Described

LEMMA BasesGot ==
  ASSUME NoContent, Sane, BasesFine, GetBase
  PROVE  BasesFine' /\ (Source(cur)' # None => Cached(cur)' # None)
<1>1. UNCHANGED <<def, upstream, cur>>
  BY DEF GetBase, userVars, runVars, cur
<1>2. UNCHANGED Source(cur)
  BY <1>1 DEF Source
<1>3. CASE Source(cur) = None
  <2>1. UNCHANGED bases
    BY <1>3 DEF GetBase
  <2> QED BY <1>2, <1>3, <2>1 DEF BasesFine
<1>4. CASE Source(cur) # None
  <2> DEFINE i == Source(cur)
             c == Content(i, upstream[i])
  <2>1. i \in Images /\ TagOf[i] \in Tags
    BY <1>4, CurIs, SourceIs DEF Tags
  <2>2. bases' = [bases EXCEPT ![TagOf[i]] = c] /\ DOMAIN c = {"image", "version"}
    BY <1>4 DEF GetBase, Content
  <2>3. Cached(cur)' = bases'[TagOf[i]]
    BY <1>1, <1>2 DEF Cached
  <2> HIDE DEF i, c
  <2>4. /\ bases'[TagOf[i]] = c
        /\ \A tag \in Tags : tag # TagOf[i] => bases'[tag] = bases[tag]
    BY <2>1, <2>2 DEF Sane, InputTypes
  <2>5. BasesFine'
    <3>1. ASSUME NEW tag \in Tags, bases'[tag] # None  PROVE DOMAIN bases'[tag] = {"image", "version"}
      <4>1. CASE tag = TagOf[i]
        BY <2>2, <2>4, <4>1
      <4>2. CASE tag # TagOf[i]
        BY <2>4, <3>1, <4>2 DEF BasesFine
      <4> QED BY <4>1, <4>2
    <3>2. Tags' = Tags
      BY DEF Tags, Images
    <3> QED BY <3>1, <3>2 DEF BasesFine
  <2>6. c # None
    BY <2>2 DEF NoContent
  <2> QED BY <2>3, <2>4, <2>5, <2>6
<1> QED BY <1>3, <1>4

LEMMA GetBaseDescribed == ASSUME NoContent, Sane, Described, GetBase  PROVE Described'
<1>1. pc' = "lookup" /\ UNCHANGED <<cache, roots, refs, TypeSet>>
  BY GotoKeeps DEF GetBase, ociVars
<1>2. RootsFine' /\ RefsFine' /\ CacheFine'
  BY <1>1, FineKept
<1>3. BasesFine' /\ (Source(cur)' # None => Cached(cur)' # None)
  BY BasesGot DEF Described
<1>4. Making'
  BY <1>1, <1>3 DEF Making
<1> QED BY <1>2, <1>3, <1>4 DEF Described

\* A step that changes the images tagged with the layer being made.
LEMMA RefsFits ==
  ASSUME Sane, Described, NEW r, refs' = [refs EXCEPT ![cur] = r],
         \A t \in Types : r[t] # None => StemSeq(r[t].layers, Upto(cur))
  PROVE  RefsFine' /\ refs'[cur] = r
<1>1. cur \in Layers /\ refs'[cur] = r /\ \A n \in Layers : n # cur => refs'[n] = refs[n]
  BY CurIs DEF Sane, RefsOK
<1>2. ASSUME NEW n \in Layers, NEW t \in Types, refs'[n][t] # None
      PROVE  StemSeq(refs'[n][t].layers, Upto(n))
  <2>1. CASE n = cur
    BY <1>1, <1>2, <2>1
  <2>2. CASE n # cur
    BY <1>1, <1>2, <2>2 DEF Described, RefsFine
  <2> QED BY <2>1, <2>2
<1> QED BY <1>1, <1>2 DEF RefsFine

LEMMA CacheLookupDescribed == ASSUME Sane, Described, CacheLookup  PROVE Described'
<1> DEFINE e == Lookup[cur]
           found == {t \in TypeSet : e.manifests[t] # None}
<1>1. UNCHANGED <<userVars, copyVars, cache, roots>> /\ pc = "lookup"
  BY DEF CacheLookup
<1>2. UNCHANGED <<def, imp, impDir, bases>>
  BY <1>1 DEF userVars, copyVars
<1>3. UNCHANGED TypeSet /\ Making'
  <2>1. CASE Fail \/ NextLayer
    BY <2>1, StepOut
  <2>2. CASE Goto("delete") /\ UNCHANGED runVars
    <3>1. pc' = "delete" /\ UNCHANGED <<cur, TypeSet>>
      BY <2>2, GotoKeeps
    <3>2. UNCHANGED <<Source(cur), Cached(cur)>>
      BY <1>2, <3>1 DEF Source, Cached
    <3> QED BY <1>1, <3>1, <3>2 DEF Described, Making
  <2> QED BY <2>1, <2>2 DEF CacheLookup
<1>4. BasesFine' /\ RootsFine' /\ CacheFine'
  BY <1>1, <1>2, <1>3, FineKept
<1>5. RefsFine'
  <2>1. CASE UNCHANGED refs
    BY <2>1, FineKept
  <2>2. CASE ~ UNCHANGED refs
    <3> DEFINE r == [t \in Types |-> IF t \in found THEN e.manifests[t] ELSE refs[cur][t]]
    <3>1. /\ e # None /\ e # LookupError /\ cur \notin BuildOnly
          /\ refs' = [refs EXCEPT ![cur] = r]
      BY <2>2 DEF CacheLookup
    <3>2. cur \in Layers
      BY CurIs
    <3>3. FineEntry(e, cur)
      BY <3>1, <3>2, LookupIs DEF Described, CacheFine
    <3> HIDE DEF e
    <3>4. ASSUME NEW t \in Types, r[t] # None  PROVE StemSeq(r[t].layers, Upto(cur))
      <4>1. CASE t \in found
        <5>1. r[t] = e.manifests[t]
          BY <4>1
        <5>2. FitSeq(r[t].layers, cur, e.def, e.imp)
          BY <3>3, <3>4, <5>1 DEF FineEntry
        <5> QED BY <5>2, StemFits
      <4>2. CASE t \notin found
        BY <3>2, <3>4, <4>2 DEF Described, RefsFine
      <4> QED BY <4>1, <4>2
    <3> HIDE DEF r
    <3> QED BY Zenon, <3>1, <3>4, RefsFits
  <2> QED BY <2>1, <2>2
<1> QED BY <1>3, <1>4, <1>5 DEF Described

LEMMA PutDescribed == ASSUME Sane, Described, Put  PROVE Described'
<1> DEFINE baseHash == IF From[cur] # None THEN Lookup[From[cur]] ELSE OwnBase(cur)
           manifests == [t \in Types |->
                  IF cur \in BuildOnly
                  THEN IF t = types[1] THEN Bogus ELSE None
                  ELSE IF t \in TypeSet THEN refs[cur][t] ELSE None]
           e == [manifests |-> manifests, def |-> def[cur], imp |-> Taken(cur), base |-> baseHash]
<1>1. UNCHANGED <<copyVars, roots, ociVars>> /\ pc = "put"
  BY DEF Put
<1>2. UNCHANGED <<bases, refs>>
  BY <1>1 DEF copyVars, ociVars
<1>3. (Fail /\ UNCHANGED cache) \/ (NextLayer /\ cache' = [cache EXCEPT ![cur] = e])
  BY DEF Put, Taken
<1>4. UNCHANGED TypeSet /\ Making'
  BY <1>3, StepOut
<1>5. BasesFine' /\ RootsFine' /\ RefsFine'
  BY <1>1, <1>2, <1>4, FineKept
<1>6. CacheFine'
  <2>1. CASE UNCHANGED cache
    BY <2>1, FineKept
  <2>2. CASE cache' = [cache EXCEPT ![cur] = e]
    <3>1. e.def = def[cur] /\ e.imp = Taken(cur) /\ e.manifests = manifests
      <4> HIDE DEF manifests, baseHash
      <4> QED OBVIOUS
    <3> HIDE DEF e
    <3>2. ASSUME cur \notin BuildOnly  PROVE FineEntry(e, cur)
      <4>1. SUFFICES ASSUME NEW t \in Types, manifests[t] # None
                     PROVE  FitSeq(manifests[t].layers, cur, def[cur], Taken(cur))
        BY <3>1 DEF FineEntry
      <4>2. t \in TypeSet /\ manifests[t] = refs[cur][t]
        BY <3>2, <4>1
      <4> HIDE DEF manifests
      <4> QED BY <1>1, <3>2, <4>1, <4>2 DEF Described, Making, FitRefs
    <3>3. cur \in Layers /\ DOMAIN cache = Layers
      BY CurIs DEF Sane, CacheOK
    <3>4. cache'[cur] = e /\ \A n \in Layers : n # cur => cache'[n] = cache[n]
      BY <2>2, <3>3
    <3>5. ASSUME NEW n \in Layers \ BuildOnly, cache'[n] # None  PROVE FineEntry(cache'[n], n)
      <4>1. CASE n = cur
        BY <3>2, <3>4, <4>1
      <4>2. CASE n # cur
        BY <3>4, <3>5, <4>2 DEF Described, CacheFine
      <4> QED BY <4>1, <4>2
    <3> QED BY <3>5 DEF CacheFine
  <2> QED BY <1>3, <2>1, <2>2
<1> QED BY <1>4, <1>5, <1>6 DEF Described

LEMMA LeaveDescribed == ASSUME Described, GC \/ Kill \/ KillUnpack  PROVE Described'
<1>1. pc' = "idle" /\ UNCHANGED <<bases, cache, roots, refs, TypeSet>>
  BY DEF GC, Kill, KillUnpack, Fail, copyVars, ociVars, TypeSet
<1> QED BY <1>1, FineKept, NotMaking DEF Described

-----------------------------------------------------------------------------
(* SetupRootfs and the container *)

\* A step that changes the root filesystem of b.
LEMMA RootsFits ==
  ASSUME Described, NEW b \in Layers, UNCHANGED TypeSet,
         \A n \in Layers : n # b => roots'[n] = roots[n],
         roots'[b] # None => FineDir(roots'[b], b, TypeSet)
  PROVE  RootsFine'
<1> SUFFICES ASSUME NEW n \in Layers, roots'[n] # None  PROVE FineDir(roots'[n], n, TypeSet)
  BY DEF RootsFine
<1>1. CASE n = b
  BY <1>1
<1>2. CASE n # b
  BY <1>2 DEF Described, RootsFine
<1> QED BY <1>1, <1>2

LEMMA DeleteDescribed == ASSUME Sane, Described, Delete  PROVE Described'
<1>1. /\ pc' = "create" /\ pc = "delete" /\ UNCHANGED <<cur, TypeSet, def, bases, cache, refs>>
      /\ roots' = [roots EXCEPT ![cur] = None]
  BY GotoKeeps DEF Delete, userVars, copyVars, ociVars
<1>2. cur \in Layers /\ roots'[cur] = None /\ \A n \in Layers : n # cur => roots'[n] = roots[n]
  BY <1>1, CurIs DEF Sane, RootsOK
<1>3. BasesFine' /\ RefsFine' /\ CacheFine'
  BY <1>1, FineKept
<1>4. RootsFine'
  BY <1>1, <1>2, RootsFits
<1>5. UNCHANGED <<Source(cur), Cached(cur)>>
  BY <1>1 DEF Source, Cached
<1>6. Making'
  BY <1>1, <1>2, <1>5 DEF Described, Making
<1> QED BY <1>3, <1>4, <1>6 DEF Described

LEMMA CreateDescribed == ASSUME Sane, Described, Create  PROVE Described'
<1> DEFINE fresh == [upper |-> Empty, meta |-> None, odDir |-> FALSE]
<1>1. /\ pc' = "metadata" /\ pc = "create" /\ UNCHANGED <<cur, TypeSet, def, bases, cache, refs>>
      /\ roots' = [roots EXCEPT ![cur] = IF @ = None THEN fresh ELSE @]
  BY GotoKeeps DEF Create, userVars, copyVars, ociVars
<1>2. fresh.meta = None /\ fresh.upper = Empty
  OBVIOUS
<1> HIDE DEF fresh
<1>3. roots[cur] = None
  BY <1>1 DEF Described, Making
<1>4. cur \in Layers /\ roots'[cur] = fresh /\ \A n \in Layers : n # cur => roots'[n] = roots[n]
  BY <1>1, <1>3, CurIs DEF Sane, RootsOK
<1>5. BasesFine' /\ RefsFine' /\ CacheFine'
  BY <1>1, FineKept
<1>6. FineDir(fresh, cur, TypeSet)
  BY <1>2 DEF FineDir
<1>7. RootsFine'
  BY <1>1, <1>4, <1>6, RootsFits
<1>8. UNCHANGED <<Source(cur), Cached(cur)>>
  BY <1>1 DEF Source, Cached
<1>9. Making'
  BY <1>1, <1>2, <1>4, <1>8 DEF Described, Making
<1> QED BY <1>5, <1>7, <1>9 DEF Described

\* New metadata mounts nothing.
LEMMA NewFine ==
  ASSUME NEW m, m.built = <<>>, m.hasOut = FALSE, \A t \in Types : m.ods[t] = None, NEW L, NEW B, NEW T
  PROVE  FineMeta(m, L, B, T)
  BY DEF FineMeta

LEMMA IsNewMeta == NewOverlayMetadata.built = <<>> /\ NewOverlayMetadata.hasOut = FALSE
  BY DEF NewOverlayMetadata

\* The metadata of the layer being made was written.
LEMMA MetaFits ==
  ASSUME Sane, Described, pc' = "overlayDirs", UNCHANGED <<cur, TypeSet, bases, cache, refs>>,
         \A n \in Layers : n # cur => roots'[n] = roots[n],
         FineMeta(roots'[cur].meta, Under(cur), Under(cur), TypeSet),
         roots'[cur].upper # Empty => Stems(roots'[cur].upper, {})
  PROVE  Described'
<1>1. BasesFine' /\ RefsFine' /\ CacheFine'
  BY FineKept
<1>2. cur \in Layers /\ Under(cur) \subseteq Upto(cur)
  BY CurIs DEF Upto
<1>3. FineDir(roots'[cur], cur, TypeSet)
  <2>1. roots'[cur].upper # Empty => Stems(roots'[cur].upper, {cur})
    BY DEF Stems
  <2>2. FineMeta(roots'[cur].meta, Upto(cur), Under(cur), TypeSet)
    <3> DEFINE m == roots'[cur].meta
    <3>1. FineMeta(m, Under(cur), Under(cur), TypeSet)
      OBVIOUS
    <3> HIDE DEF m
    <3>2. FineMeta(m, Upto(cur), Under(cur), TypeSet)
      BY Zenon, <1>2, <3>1, StemMore DEF FineMeta
    <3> QED BY <3>2 DEF m
  <2> QED BY <2>1, <2>2 DEF FineDir
<1>4. RootsFine'
  BY <1>2, <1>3, RootsFits
<1>5. Making'
  BY DEF Making
<1> QED BY <1>1, <1>4, <1>5 DEF Described

LEMMA SetupEmptyRootfsDescribed == ASSUME Sane, Described, SetupEmptyRootfs  PROVE Described'
<1> DEFINE u == IF Source(cur) = None THEN roots[cur].upper ELSE TarRootfs(cur)
<1>1. /\ pc' = "overlayDirs" /\ pc = "metadata" /\ UNCHANGED <<cur, TypeSet, bases, cache, refs>>
      /\ roots' = [roots EXCEPT ![cur].meta = NewOverlayMetadata, ![cur].upper = u]
  BY GotoKeeps DEF SetupEmptyRootfs, copyVars, ociVars
<1>2. u # Empty => Stems(u, {})
  <2>1. CASE Source(cur) = None
    BY <1>1, <2>1 DEF Described, Making
  <2>2. CASE Source(cur) # None
    <3>1. Source(cur) \in Images /\ TagOf[Source(cur)] \in Tags
      BY <2>2, CurIs, SourceIs DEF Tags
    <3>2. u = bases[TagOf[Source(cur)]] /\ u # None
      BY <1>1, <2>2 DEF Described, Making, TarRootfs, Cached
    <3>3. DOMAIN u = {"image", "version"}
      BY <3>1, <3>2 DEF Described, BasesFine
    <3> HIDE DEF u
    <3> QED BY <3>3 DEF Stems
  <2> QED BY <2>1, <2>2
<1> HIDE DEF u
<1>3. roots[cur] # None
  BY <1>1 DEF Sane, Work
<1>4. /\ \A n \in Layers : n # cur => roots'[n] = roots[n]
      /\ roots'[cur].upper = u /\ roots'[cur].meta = NewOverlayMetadata
  BY <1>1, <1>3, CurDir DEF DirFields
<1>5. FineMeta(NewOverlayMetadata, Under(cur), Under(cur), TypeSet)
  BY Zenon, IsNewMetadata, IsNewMeta, NewFine
<1> QED BY Zenon, <1>1, <1>2, <1>4, <1>5, MetaFits

LEMMA UnpackDescribed == ASSUME Sane, Described, Unpack  PROVE Described'
<1> DEFINE c == Cached(cur)
           m == [NewOverlayMetadata EXCEPT !.manifests[BaseType] = <<c>>]
<1>1. /\ pc' = "overlayDirs" /\ pc = "metadata" /\ UNCHANGED <<cur, TypeSet, bases, cache, refs>>
      /\ roots' = [roots EXCEPT ![cur].meta = m]
  BY GotoKeeps DEF Unpack, copyVars, ociVars
<1>2. /\ m.built = <<>> /\ m.hasOut = FALSE /\ \A t \in Types : m.ods[t] = None
  <2> HIDE DEF c
  <2> QED BY IsNewMetadata, IsNewMeta DEF MetaFields
<1> HIDE DEF c, m
<1>3. roots[cur] # None /\ roots[cur].upper = Empty
  BY <1>1 DEF Sane, Work, Described, Making
<1>4. /\ \A n \in Layers : n # cur => roots'[n] = roots[n]
      /\ roots'[cur].upper = Empty /\ roots'[cur].meta = m
  BY <1>1, <1>3, CurDir DEF DirFields
<1>5. FineMeta(m, Under(cur), Under(cur), TypeSet)
  BY Zenon, <1>2, NewFine
<1> QED BY <1>1, <1>4, <1>5, MetaFits

LEMMA RestoreDescribed == ASSUME Sane, Described, Restore  PROVE Described'
<1> DEFINE tag == From[cur]
           m == [roots[tag].meta EXCEPT !.built = Append(@, tag)]
<1>1. /\ UNCHANGED <<bases, cache, refs>>
      /\ pc = "metadata" /\ tag # None
      /\ \/ Fail /\ UNCHANGED roots
         \/ /\ HasMetadata(tag) /\ Goto("overlayDirs") /\ UNCHANGED runVars
            /\ roots' = [roots EXCEPT ![cur].meta = m]
  BY DEF Restore, copyVars, ociVars
<1>2. CASE Fail /\ UNCHANGED roots
  BY <1>1, <1>2, StepOut, FineKept DEF Described
<1>3. CASE /\ HasMetadata(tag) /\ Goto("overlayDirs") /\ UNCHANGED runVars
           /\ roots' = [roots EXCEPT ![cur].meta = m]
  <2>1. UNCHANGED <<cur, TypeSet>> /\ pc' = "overlayDirs"
    BY <1>3, GotoKeeps
  <2>2. tag \in Layers /\ roots[tag] # None /\ roots[tag].meta # None
    BY Zenon, <1>1, <1>3, CurIs, BuildAssumption DEF HasMetadata
  <2>3. DOMAIN roots[tag].meta = MetaFields /\ FineMeta(roots[tag].meta, Upto(tag), Under(tag), TypeSet)
    BY Zenon, <2>2 DEF Sane, RootsOK, IsDir, IsMeta, Described, RootsFine, FineDir
  <2>4. /\ m.built = Append(roots[tag].meta.built, tag) /\ m.hasOut = roots[tag].meta.hasOut
        /\ m.manifests = roots[tag].meta.manifests /\ m.ods = roots[tag].meta.ods
    <3> HIDE DEF tag
    <3> QED BY <2>3 DEF MetaFields
  <2>5. tag \in Under(cur) /\ Upto(tag) \subseteq Under(cur) /\ Under(tag) \subseteq Under(cur)
    BY <1>1, CurIs, Unders DEF Upto
  <2> HIDE DEF m, tag
  <2>6. m.built \in Seq(Under(cur))
    <3>1. roots[tag].meta.built \in Seq(Under(tag))
      BY <2>3 DEF FineMeta
    <3>2. roots[tag].meta.built \in Seq(Under(cur))
      BY <2>5, <3>1
    <3> QED BY <2>4, <2>5, <3>2
  <2>7. FineMeta(m, Under(cur), Under(cur), TypeSet)
    BY Zenon, <2>3, <2>4, <2>5, <2>6, StemMore DEF FineMeta
  <2>8. roots[cur] # None /\ roots[cur].upper = Empty
    BY <1>1 DEF Sane, Work, Described, Making
  <2>9. /\ \A n \in Layers : n # cur => roots'[n] = roots[n]
        /\ roots'[cur].upper = Empty /\ roots'[cur].meta = m
    BY <1>3, <2>8, CurDir DEF DirFields
  <2> QED BY <1>1, <2>1, <2>7, <2>9, MetaFits
<1> QED BY <1>1, <1>2, <1>3

LEMMA SetOverlayDirsDescribed == ASSUME Sane, Described, SetOverlayDirs  PROVE Described'
<1> DEFINE od == OverlayDir(cur, IF ImportKind[cur] = "dest" THEN impDir[cur] ELSE imp[cur])
           ods == [t \in Types |-> IF t \in TypeSet THEN <<od>> ELSE None]
<1>1. /\ pc' = "run" /\ pc = "overlayDirs"
      /\ UNCHANGED <<cur, TypeSet, def, imp, impDir, bases, cache, refs>>
      /\ \/ UNCHANGED roots
         \/ roots' = [roots EXCEPT ![cur].odDir = TRUE, ![cur].meta.ods = ods]
  BY Zenon, GotoKeeps DEF SetOverlayDirs, userVars, copyVars, ociVars
<1>2. BasesFine' /\ RefsFine' /\ CacheFine' /\ UNCHANGED Taken(cur)
  BY <1>1, FineKept DEF Taken
<1>3. /\ roots[cur] # None /\ roots[cur].meta # None
      /\ FineMeta(roots[cur].meta, Under(cur), Under(cur), TypeSet)
      /\ roots[cur].upper # Empty => Stems(roots[cur].upper, {})
  BY <1>1 DEF Sane, Work, Described, Making
<1>4. cur \in Layers /\ TypeSet \subseteq Types
  BY CurIs, TypeSetIs
<1>5. FitOut(roots[cur].meta)
  BY <1>3, <1>4 DEF FineMeta, FitOut
<1>6. CASE UNCHANGED roots
  <2>1. FitOds(roots[cur].meta)
    BY <1>3, StemFits DEF FineMeta, FitOds
  <2>2. FitOds(roots[cur].meta)' /\ FitOut(roots[cur].meta)'
    BY <1>1, <1>2, <1>5, <1>6, <2>1 DEF FitOds, FitOut
  <2>3. Making'
    BY <1>1, <1>3, <1>6, <2>2 DEF Making
  <2> QED BY <1>1, <1>2, <1>6, <2>3, FineKept DEF Described
<1>7. CASE roots' = [roots EXCEPT ![cur].odDir = TRUE, ![cur].meta.ods = ods]
  <2>1. Fits(od, cur, def[cur], Taken(cur))
    <3>1. DOMAIN od = {"dest", "imp"} /\ od.dest = cur /\ (ImportKind[cur] = "overlay" => od.imp = imp[cur])
      BY DEF OverlayDir
    <3>2. ImportKind[cur] = "overlay" => Taken(cur) = imp[cur]
      BY DEF Taken
    <3> HIDE DEF od
    <3> QED BY <3>1, <3>2 DEF Fits
  <2> HIDE DEF od
  <2>2. \A t \in Types : ods[t] # None => FitSeq(ods[t], cur, def[cur], Taken(cur))
    BY <2>1, FitOne
  <2>3. \A t \in Types : ods[t] # None => StemSeq(ods[t], Upto(cur))
    BY <2>2, StemFits
  <2> HIDE DEF ods
  <2>4. /\ \A n \in Layers : n # cur => roots'[n] = roots[n]
        /\ roots'[cur].upper = roots[cur].upper
        /\ roots'[cur].meta.ods = ods /\ roots'[cur].meta.built = roots[cur].meta.built
        /\ roots'[cur].meta.hasOut = roots[cur].meta.hasOut
        /\ roots'[cur].meta.manifests = roots[cur].meta.manifests
    BY <1>3, <1>7, CurDir DEF DirFields, MetaFields
  <2>5. FitOds(roots[cur].meta)' /\ FitOut(roots[cur].meta)'
    BY <1>1, <1>2, <1>5, <2>2, <2>4 DEF FitOds, FitOut
  <2>6. FineDir(roots'[cur], cur, TypeSet)
    <3>1. FineMeta(roots[cur].meta, Upto(cur), Under(cur), TypeSet)
      BY Zenon, <1>3, <1>4 DEF Described, RootsFine, FineDir
    <3>2. FineMeta(roots'[cur].meta, Upto(cur), Under(cur), TypeSet)
      BY <2>3, <2>4, <3>1 DEF FineMeta
    <3>3. roots'[cur].upper # Empty => Stems(roots'[cur].upper, {cur})
      BY <1>3, <2>4 DEF Stems
    <3> QED BY <3>2, <3>3 DEF FineDir
  <2>7. RootsFine'
    BY <1>1, <1>4, <2>4, <2>6, RootsFits
  <2>8. Making'
    BY <1>1, <1>3, <2>4, <2>5 DEF Making
  <2> QED BY <1>2, <2>7, <2>8 DEF Described
<1> QED BY Zenon, <1>1, <1>6, <1>7

LEMMA DiffFits ==
  ASSUME NEW view, NEW whole \in BOOLEAN
  PROVE  /\ Stems(Diff(cur, view, whole), {cur})
         /\ whole => Fits(Diff(cur, view, whole), cur, def[cur], Taken(cur))
<1> DEFINE x == Diff(cur, view, whole)
<1>1. /\ DOMAIN x = {"layer", "def", "view", "whole", "imp"} /\ x.layer = cur
      /\ x.def = def[cur] /\ x.whole = whole
      /\ x.imp = IF ImportKind[cur] = "plain" THEN impDir[cur] ELSE None
  BY DEF Diff
<1>2. x.imp \in {None, Taken(cur)}
  BY <1>1 DEF Taken
<1> HIDE DEF x
<1>3. Stems(x, {cur}) /\ (whole => Fits(x, cur, def[cur], Taken(cur)))
  BY <1>1, <1>2 DEF Stems, Fits
<1> QED BY <1>3 DEF x

LEMMA RunContainerDescribed == ASSUME Sane, Described, RunContainer  PROVE Described'
<1>1. /\ UNCHANGED <<def, imp, impDir, bases, cache, refs>> /\ pc = "run"
  BY DEF RunContainer, userVars, copyVars, ociVars
<1>2. \/ Fail /\ UNCHANGED roots
      \/ UNCHANGED roots /\ AfterRun
      \/ \E view : roots' = [roots EXCEPT ![cur].upper = Diff(cur, view, TRUE)] /\ AfterRun
      \/ \E view : roots' = [roots EXCEPT ![cur].upper = Diff(cur, view, FALSE)] /\ Fail
  BY Zenon DEF RunContainer, AfterFailedRun
<1>3. BasesFine' /\ RefsFine' /\ CacheFine'
  BY <1>1, FineKept
<1>4. /\ roots[cur] # None /\ roots[cur].meta # None /\ cur \in Layers
      /\ FitOut(roots[cur].meta) /\ FitOds(roots[cur].meta)
      /\ roots[cur].upper # Empty => Stems(roots[cur].upper, {})
  BY <1>1, CurIs DEF Sane, Work, Described, Making
<1>5. ASSUME NEW u, roots' = [roots EXCEPT ![cur].upper = u]
      PROVE  /\ roots'[cur].meta = roots[cur].meta /\ roots'[cur].upper = u
             /\ Stems(u, {cur}) /\ UNCHANGED TypeSet => RootsFine'
  <2>1. /\ \A n \in Layers : n # cur => roots'[n] = roots[n]
        /\ roots'[cur].meta = roots[cur].meta /\ roots'[cur].upper = u
    BY <1>4, <1>5, CurDir DEF DirFields
  <2>2. Stems(u, {cur}) => FineDir(roots'[cur], cur, TypeSet)
    BY <1>4, <2>1 DEF Described, RootsFine, FineDir
  <2> QED BY <1>4, <2>1, <2>2, RootsFits
<1>6. ASSUME AfterRun, roots'[cur].meta = roots[cur].meta,
             roots'[cur].upper # Empty => Fits(roots'[cur].upper, cur, def[cur], Taken(cur))
      PROVE  UNCHANGED TypeSet /\ Making'
  <2>1. /\ UNCHANGED <<cur, TypeSet>>
        /\ IF cur \in BuildOnly THEN pc' = "put" ELSE pc' = "initBases"
    BY <1>6, GotoKeeps DEF AfterRun
  <2>2. UNCHANGED Taken(cur)
    BY <1>1, <2>1 DEF Taken
  <2>3. FitOds(roots[cur].meta)' /\ FitOut(roots[cur].meta)' /\ FitUpper(roots[cur].upper)'
    BY <1>1, <1>4, <1>6, <2>1, <2>2 DEF FitOds, FitOut, FitUpper
  <2> QED BY <2>1, <2>3 DEF Making
<1>7. CASE Fail /\ UNCHANGED roots
  BY <1>3, <1>7, StepOut, FineKept DEF Described
<1>8. CASE UNCHANGED roots /\ AfterRun
  <2>1. roots[cur].upper # Empty => Fits(roots[cur].upper, cur, def[cur], Taken(cur))
    BY <1>4 DEF Stems, Fits
  <2> QED BY <1>3, <1>6, <1>8, <2>1, FineKept DEF Described
<1>9. CASE \E view : roots' = [roots EXCEPT ![cur].upper = Diff(cur, view, TRUE)] /\ AfterRun
  <2>1. PICK view : roots' = [roots EXCEPT ![cur].upper = Diff(cur, view, TRUE)] /\ AfterRun
    BY Zenon, <1>9
  <2> DEFINE u == Diff(cur, view, TRUE)
  <2>2. Stems(u, {cur}) /\ Fits(u, cur, def[cur], Taken(cur))
    BY Zenon, DiffFits
  <2> HIDE DEF u
  <2>3. roots' = [roots EXCEPT ![cur].upper = u]
    BY <2>1 DEF u
  <2> QED BY Zenon, <1>3, <1>5, <1>6, <2>1, <2>2, <2>3 DEF Described
<1>10. CASE \E view : roots' = [roots EXCEPT ![cur].upper = Diff(cur, view, FALSE)] /\ Fail
  <2>1. PICK view : roots' = [roots EXCEPT ![cur].upper = Diff(cur, view, FALSE)] /\ Fail
    BY Zenon, <1>10
  <2> DEFINE u == Diff(cur, view, FALSE)
  <2>2. Stems(u, {cur})
    BY Zenon, DiffFits
  <2> HIDE DEF u
  <2>3. roots' = [roots EXCEPT ![cur].upper = u]
    BY <2>1 DEF u
  <2> QED BY Zenon, <1>3, <1>5, <2>1, <2>2, <2>3, StepOut DEF Described
<1> QED BY Zenon, <1>2, <1>7, <1>8, <1>9, <1>10

-----------------------------------------------------------------------------
(* Repack *)

LEMMA InitializeBasesInOutputDescribed ==
  ASSUME Sane, Described, InitializeBasesInOutput  PROVE Described'
<1> DEFINE b == FirstBaseInOutput[cur]
           foreign == b = None /\ Source(Root[cur]) \in Images \ Tars
           image == Cached(Root[cur])
           own(t) == [layers |-> <<Converted(image, t)>>, def |-> None]
           start == [t \in TypeSet |->
                       IF b # None THEN refs[b][t]
                       ELSE IF ~foreign THEN NewImage
                       ELSE IF image = None \/ ~Convertible(image, t) THEN None
                       ELSE own(t)]
           r == [t \in Types |-> IF t \in TypeSet THEN start[t] ELSE refs[cur][t]]
<1>1. UNCHANGED <<def, imp, impDir, bases, cache, roots>> /\ pc = "initBases"
  BY Zenon DEF InitializeBasesInOutput, userVars, copyVars
<1>2. CASE Fail /\ UNCHANGED <<ociVars, mutVars, hashDirs>>
  <2>1. UNCHANGED refs
    BY <1>2 DEF ociVars
  <2> QED BY <1>1, <1>2, <2>1, StepOut, FineKept DEF Described
<1>3. CASE ~(Fail /\ UNCHANGED <<ociVars, mutVars, hashDirs>>)
  <2>1. /\ \A t \in TypeSet : start[t] # None
        /\ refs' = [refs EXCEPT ![cur] = r]
        /\ mut' = [t \in Types |-> IF t \in TypeSet
                                   THEN start[t].layers \o Manifest(roots[cur].meta.ods[t]) ELSE <<>>]
        /\ Goto("built") /\ UNCHANGED runVars
    BY Zenon, <1>3 DEF InitializeBasesInOutput
  <2>2. UNCHANGED <<cur, TypeSet>> /\ pc' = "built"
    BY <2>1, GotoKeeps
  <2>3. cur \in Layers /\ TypeSet \subseteq Types
    BY CurIs, TypeSetIs
  <2>4. UNCHANGED Taken(cur) /\ BasesFine' /\ RootsFine' /\ CacheFine'
    BY <1>1, <2>2, FineKept DEF Taken
  <2>5. (\A t : own(t).layers = <<Converted(image, t)>>) /\ NewImage.layers = <<>>
    BY DEF NewImage
  <2>6. ASSUME NEW t \in TypeSet  PROVE FitSeq(start[t].layers, cur, def[cur], Taken(cur))
    <3>1. CASE b # None
      <4>1. b \in Under(cur) /\ b \in Layers /\ start[t] = refs[b][t]
        BY <2>3, <3>1, FirstBaseUnder, Unders
      <4>2. Upto(b) \subseteq Under(cur)
        BY <2>3, <4>1, Unders
      <4> HIDE DEF b, start
      <4>3. StemSeq(start[t].layers, Upto(b))
        BY <2>1, <2>3, <4>1 DEF Described, RefsFine
      <4> QED BY <4>2, <4>3, StemFits
    <3>2. CASE b = None /\ ~foreign
      <4>1. start[t] = NewImage
        BY <3>2
      <4> QED BY <2>5, <4>1, FitNothing
    <3>3. CASE b = None /\ foreign
      <4>1. start[t] \in {None, own(t)} /\ (image = None => start[t] = None)
        BY <3>3
      <4>2. start[t] = own(t) /\ image # None
        BY <2>1, <4>1
      <4>3. image = bases[TagOf[Source(Root[cur])]] /\ TagOf[Source(Root[cur])] \in Tags
        BY <3>3 DEF Cached, Tags
      <4> HIDE DEF start, own, image
      <4>4. DOMAIN image = {"image", "version"}
        BY <4>2, <4>3 DEF Described, BasesFine
      <4>5. Fits(Converted(image, t), cur, def[cur], Taken(cur))
        <5>1. DOMAIN [partOf |-> image] = {"partOf"}
          OBVIOUS
        <5>2. DOMAIN Converted(image, t) \in {{"image", "version"}, {"partOf"}}
          BY Zenon, <4>4, <5>1 DEF Converted, Contents
        <5> QED BY <5>2 DEF Fits
      <4> QED BY Zenon, <2>5, <4>2, <4>5, FitOne
    <3> QED BY <3>1, <3>2, <3>3
  <2> HIDE DEF b, foreign, image, own, start
  <2>7. \A t \in TypeSet : r[t] = start[t]
    BY <2>3
  <2>8. ASSUME NEW t \in Types, r[t] # None  PROVE StemSeq(r[t].layers, Upto(cur))
    <3>1. CASE t \in TypeSet
      BY <2>6, <2>7, <3>1, StemFits
    <3>2. CASE t \notin TypeSet
      BY <2>3, <2>8, <3>2 DEF Described, RefsFine
    <3> QED BY <3>1, <3>2
  <2> HIDE DEF r
  <2>9. RefsFine' /\ refs'[cur] = r
    BY Zenon, <2>1, <2>8, RefsFits
  <2>10. /\ FitOds(roots[cur].meta) /\ FitOut(roots[cur].meta) /\ FitUpper(roots[cur].upper)
    BY <1>1 DEF Described, Making
  <2>11. FitOut(roots[cur].meta)' /\ FitUpper(roots[cur].upper)'
    BY <1>1, <2>2, <2>4, <2>10 DEF FitOut, FitUpper
  <2>12. FitRefs'
    BY <1>1, <2>2, <2>4, <2>6, <2>7, <2>9 DEF FitRefs
  <2>13. ASSUME NEW t \in TypeSet  PROVE FitSeq(mut'[t], cur, def[cur], Taken(cur))
    <3> DEFINE ods == Manifest(roots[cur].meta.ods[t])
    <3>1. mut'[t] = start[t].layers \o ods
      BY Zenon, <2>1, <2>3
    <3>2. FitSeq(ods, cur, def[cur], Taken(cur))
      BY <2>3, <2>10, FitNothing DEF FitOds, Manifest
    <3> HIDE DEF ods
    <3> QED BY <2>6, <3>1, <3>2, FitConcat
  <2>14. FitMut'
    BY <1>1, <2>2, <2>4, <2>13 DEF FitMut
  <2>15. Making'
    BY <2>2, <2>11, <2>12, <2>14 DEF Making
  <2> QED BY <2>4, <2>9, <2>15 DEF Described
<1> QED BY <1>2, <1>3

\* generateLayer adds to each image the content of b, or the last layer of b's
\* manifest, which stems from L.
LEMMA GeneratedFits ==
  ASSUME Sane, Described, pc = "built", NEW b \in Layers, roots[b] # None,
         GenerateNew(b) \/ AddExisting(b),
         NEW L, L \subseteq Under(cur),
         roots[b].upper # Empty => Fits(roots[b].upper, cur, def[cur], Taken(cur)),
         roots[b].meta.hasOut =>
           \A t \in TypeSet : roots[b].meta.manifests[t] # None /\ Ended(roots[b].meta.manifests[t], L)
  PROVE  /\ \A n \in Layers : roots[n] # None =>
              roots'[n].meta = roots[n].meta /\ roots'[n].upper \in {Empty, roots[n].upper}
         /\ \A t \in TypeSet : FitSeq(mut'[t], cur, def[cur], Taken(cur))
         /\ \A t \in TypeSet : Ended(mut'[t], L \union {b})
<1>1. IsDir(roots[b], hashDirs) /\ DOMAIN roots = Layers
  BY DEF Sane, RootsOK
<1>2. TypeSet \subseteq Types /\ \A t \in TypeSet : FitSeq(mut[t], cur, def[cur], Taken(cur))
  BY TypeSetIs DEF Described, Making, FitMut
<1>3. L \subseteq L \union {b} /\ {b} \subseteq L \union {b}
  OBVIOUS
<1>4. CASE GenerateNew(b)
  <2> DEFINE u == roots[b].upper
  <2>1. /\ u # Empty
        /\ mut' = [t \in Types |-> IF t \in TypeSet THEN Append(mut[t], u) ELSE mut[t]]
        /\ roots' = [roots EXCEPT ![b].upper = Empty]
    BY <1>4 DEF GenerateNew
  <2>2. Stems(u, {b}) /\ Fits(u, cur, def[cur], Taken(cur))
    BY Zenon, <2>1 DEF Described, RootsFine, FineDir
  <2>3. Stems(u, L \union {b})
    BY <1>3, <2>2, StemMore
  <2> HIDE DEF u
  <2>4. /\ \A n \in Layers : n # b => roots'[n] = roots[n]
        /\ roots'[b].meta = roots[b].meta /\ roots'[b].upper = Empty
    BY <1>1, <2>1 DEF DirFields, IsDir
  <2>5. ASSUME NEW t \in TypeSet
        PROVE  FitSeq(mut'[t], cur, def[cur], Taken(cur)) /\ Ended(mut'[t], L \union {b})
    <3>1. mut'[t] = Append(mut[t], u)
      BY <1>2, <2>1
    <3> QED BY <1>2, <2>2, <2>3, <3>1, FitAppend
  <2> QED BY <2>4, <2>5
<1>5. CASE AddExisting(b)
  <2> DEFINE m(t) == Manifest(roots[b].meta.manifests[t])
  <2>1. /\ roots[b].meta.hasOut /\ UNCHANGED roots
        /\ mut' = [t \in Types |-> IF t \in TypeSet /\ m(t) # <<>>
                                   THEN Append(mut[t], m(t)[Len(m(t))]) ELSE mut[t]]
    BY <1>5 DEF AddExisting
  <2>2. ASSUME NEW t \in TypeSet
        PROVE  FitSeq(mut'[t], cur, def[cur], Taken(cur)) /\ Ended(mut'[t], L \union {b})
    <3> DEFINE x == m(t)[Len(m(t))]
    <3>1. m(t) = roots[b].meta.manifests[t] /\ Ended(m(t), L)
      BY <2>1 DEF Manifest
    <3>2. m(t) # <<>> /\ Stems(x, L)
      BY <3>1 DEF Ended
    <3>3. mut'[t] = Append(mut[t], x)
      BY Zenon, <1>2, <2>1, <3>2
    <3>4. Fits(x, cur, def[cur], Taken(cur))
      BY <3>2, StemFits
    <3>5. Stems(x, L \union {b})
      BY Zenon, <1>3, <3>2, StemMore
    <3> HIDE DEF x
    <3> QED BY <1>2, <3>3, <3>4, <3>5, FitAppend
  <2> QED BY Zenon, <2>1, <2>2
<1> QED BY Zenon, <1>4, <1>5

\* Content that was taken out of a root filesystem changes nothing else in it.
LEMMA TakenOut ==
  ASSUME Sane, Described, UNCHANGED TypeSet,
         \A n \in Layers : roots[n] = None => roots'[n] = None,
         \A n \in Layers : roots[n] # None =>
           roots'[n].meta = roots[n].meta /\ roots'[n].upper \in {Empty, roots[n].upper}
  PROVE  RootsFine'
<1>1. SUFFICES ASSUME NEW n \in Layers, roots'[n] # None  PROVE FineDir(roots'[n], n, TypeSet)
  BY DEF RootsFine
<1>2. roots[n] # None /\ FineDir(roots[n], n, TypeSet)
  BY <1>1 DEF Described, RootsFine
<1> QED BY <1>1, <1>2 DEF FineDir

LEMMA GenerateKeepsNone ==
  ASSUME Sane, NEW b \in Layers, roots[b] # None, GenerateNew(b) \/ AddExisting(b)
  PROVE  \A n \in Layers : roots[n] = None => roots'[n] = None
<1>1. DOMAIN roots = Layers
  BY DEF Sane, RootsOK
<1>2. CASE GenerateNew(b)
  BY <1>1, <1>2 DEF GenerateNew
<1>3. CASE AddExisting(b)
  BY <1>3 DEF AddExisting
<1> QED BY <1>2, <1>3

LEMMA GenerateBuiltLayerDescribed ==
  ASSUME Sane, Described, GenerateBuiltLayer  PROVE Described'
<1> DEFINE built == roots[cur].meta.built
           b == built[k]
<1>1. /\ pc = "built" /\ k <= Len(built)
      /\ UNCHANGED <<def, imp, impDir, bases, cache, refs>>
  BY DEF GenerateBuiltLayer, userVars, copyVars, ociVars
<1>2. /\ cur \in Layers /\ roots[cur] # None /\ roots[cur].meta # None
      /\ Len(built) \in Nat /\ k \in 1..Len(built)
      /\ \A i \in 1..Len(built) : built[i] \in Layers /\ roots[built[i]] # None
  BY <1>1, BuiltIs
<1>3. BasesFine' /\ RefsFine' /\ CacheFine'
  BY <1>1, FineKept
<1>4. FitOut(roots[cur].meta) /\ FitUpper(roots[cur].upper) /\ FitMut /\ FitRefs
  BY <1>1 DEF Described, Making
<1>5. b \in Layers /\ roots[b] # None /\ b \in Under(cur) /\ Upto(b) \subseteq Under(cur)
  <2>1. built \in Seq(Under(cur))
    BY Zenon, <1>2 DEF Described, RootsFine, FineDir, FineMeta
  <2>2. b \in Under(cur)
    BY <1>2, <2>1
  <2> QED BY <1>2, <2>2, Unders
<1>6. CASE /\ GenerateNew(b) \/ AddExisting(b)
           /\ Goto("builtMeta") /\ UNCHANGED <<k, runVars>>
  <2>1. UNCHANGED <<cur, TypeSet>> /\ pc' = "builtMeta"
    BY <1>6, GotoKeeps
  <2> HIDE DEF b
  <2>2. FineDir(roots[b], b, TypeSet) /\ IsDir(roots[b], hashDirs)
    BY <1>5 DEF Described, RootsFine, Sane, RootsOK
  <2>3. roots[b].meta # None
    BY <1>6, <2>2 DEF GenerateNew, AddExisting, HasMetadata, IsDir
  <2>4. roots[b].upper # Empty => Fits(roots[b].upper, cur, def[cur], Taken(cur))
    <3>1. {b} \subseteq Under(cur)
      BY <1>5
    <3> QED BY <2>2, <3>1, StemFits DEF FineDir
  <2>5. roots[b].meta.hasOut =>
          \A t \in TypeSet : roots[b].meta.manifests[t] # None /\ Ended(roots[b].meta.manifests[t], Upto(b))
    BY <2>2, <2>3 DEF FineDir, FineMeta
  <2>6. Upto(b) \union {b} = Upto(b)
    BY DEF Upto
  <2> DEFINE L == Upto(b)
  <2>7. L \union {b} = L /\ L \subseteq Under(cur)
        /\ (roots[b].meta.hasOut =>
             \A t \in TypeSet : roots[b].meta.manifests[t] # None /\ Ended(roots[b].meta.manifests[t], L))
    BY <1>5, <2>5, <2>6
  <2> HIDE DEF L
  <2>8. /\ \A n \in Layers : roots[n] # None =>
             roots'[n].meta = roots[n].meta /\ roots'[n].upper \in {Empty, roots[n].upper}
        /\ \A t \in TypeSet : FitSeq(mut'[t], cur, def[cur], Taken(cur))
        /\ \A t \in TypeSet : Ended(mut'[t], L \union {b})
    BY Zenon, <1>1, <1>5, <1>6, <2>4, <2>7, GeneratedFits
  <2>9. RootsFine'
    BY <1>5, <1>6, <2>1, <2>8, TakenOut, GenerateKeepsNone
  <2>10. roots'[cur].meta = roots[cur].meta /\ roots'[cur].upper \in {Empty, roots[cur].upper}
    BY <1>2, <2>8
  <2>11. UNCHANGED Taken(cur)
    BY <1>1, <2>1 DEF Taken
  <2>12. FitOut(roots[cur].meta)' /\ FitUpper(roots[cur].upper)' /\ FitMut' /\ FitRefs'
    BY <1>1, <1>4, <2>1, <2>8, <2>10, <2>11 DEF FitOut, FitUpper, FitMut, FitRefs
  <2>13. \A t \in TypeSet : Ended(mut'[t], Upto(roots'[cur].meta.built[k']))
    BY Zenon, <1>6, <2>7, <2>8, <2>10 DEF L, b
  <2>14. Making'
    BY <2>1, <2>12, <2>13 DEF Making
  <2> QED BY <1>3, <2>9, <2>14 DEF Described
<1>7. CASE k' = k + 1 /\ UNCHANGED <<pc, mut, dirVars, roots, runVars>>
  <2>1. UNCHANGED <<pc, mut, roots, cur, TypeSet>>
    BY <1>7 DEF runVars, cur, TypeSet
  <2>2. UNCHANGED Taken(cur)
    BY <1>1, <2>1 DEF Taken
  <2>3. FitOut(roots[cur].meta)' /\ FitUpper(roots[cur].upper)' /\ FitMut' /\ FitRefs'
    BY <1>1, <1>4, <2>1, <2>2 DEF FitOut, FitUpper, FitMut, FitRefs
  <2>4. Making'
    BY <1>1, <2>1, <2>3 DEF Making
  <2> QED BY <1>3, <2>1, <2>4, FineKept DEF Described
<1>8. CASE Fail /\ UNCHANGED <<k, mut, dirVars, roots>>
  BY <1>3, <1>8, StepOut, FineKept DEF Described
<1> QED BY <1>6, <1>7, <1>8 DEF GenerateBuiltLayer

LEMMA WriteBuiltMetadataDescribed ==
  ASSUME NoContent, Sane, Described, WriteBuiltMetadata  PROVE Described'
<1> DEFINE built == roots[cur].meta.built
           b == built[k]
           ms == WithManifests(roots[b].meta.manifests)
<1>1. /\ pc = "builtMeta" /\ pc' = "built"
      /\ UNCHANGED <<cur, TypeSet, def, imp, impDir, bases, cache, refs, mut>>
      /\ roots' = [roots EXCEPT ![b].meta.manifests = ms, ![b].meta.hasOut = TRUE]
  BY Zenon, GotoKeeps DEF WriteBuiltMetadata, userVars, copyVars, ociVars
<1>2. /\ cur \in Layers /\ roots[cur] # None /\ roots[cur].meta # None
      /\ Len(built) \in Nat /\ k \in Nat /\ k >= 1
      /\ \A i \in 1..Len(built) : built[i] \in Layers /\ roots[built[i]] # None
  BY Zenon, <1>1, BuiltIs
<1>3. k \in 1..Len(built) /\ roots[b].meta # None
  <2>1. k <= Len(built) /\ roots[b].meta # None
    BY Zenon, <1>1 DEF Sane, Work
  <2> QED BY <1>2, <2>1
<1>4. b \in Layers /\ roots[b] # None /\ b # cur
  <2>1. built \in Seq(Under(cur))
    BY Zenon, <1>2 DEF Described, RootsFine, FineDir, FineMeta
  <2>2. b \in Under(cur)
    BY <1>3, <2>1
  <2> QED BY <1>2, <1>3, <2>2, Unders
<1>5. /\ FitOut(roots[cur].meta) /\ FitUpper(roots[cur].upper) /\ FitMut /\ FitRefs
      /\ \A t \in TypeSet : Ended(mut[t], Upto(b))
  BY Zenon, <1>1 DEF Described, Making
<1>6. /\ DOMAIN roots = Layers /\ DOMAIN roots[b] = DirFields /\ DOMAIN roots[b].meta = MetaFields
      /\ FineDir(roots[b], b, TypeSet)
  <2> HIDE DEF b
  <2> QED BY <1>3, <1>4 DEF Sane, RootsOK, IsDir, IsMeta, Described, RootsFine
<1>7. \A t \in TypeSet : ms[t] # None /\ Ended(ms[t], Upto(b))
  <2> HIDE DEF b
  <2>1. \A t \in TypeSet : ms[t] = mut[t]
    BY TypeSetIs DEF WithManifests
  <2>2. \A t \in TypeSet : mut[t] # None
    BY <1>5 DEF NoContent, Ended
  <2> HIDE DEF ms
  <2> QED BY <1>5, <2>1, <2>2
<1> HIDE DEF ms
<1>8. /\ \A n \in Layers : n # b => roots'[n] = roots[n]
      /\ roots'[b].upper = roots[b].upper
      /\ roots'[b].meta.manifests = ms /\ roots'[b].meta.built = roots[b].meta.built
      /\ roots'[b].meta.ods = roots[b].meta.ods
  <2> HIDE DEF b
  <2> QED BY <1>1, <1>4, <1>6 DEF DirFields, MetaFields
<1>9. FineDir(roots'[b], b, TypeSet)
  <2> HIDE DEF b
  <2>1. FineMeta(roots'[b].meta, Upto(b), Under(b), TypeSet)
    BY <1>3, <1>6, <1>7, <1>8 DEF FineDir, FineMeta
  <2> QED BY <1>6, <1>8, <2>1 DEF FineDir
<1>10. RootsFine'
  <2> HIDE DEF b
  <2> QED BY Zenon, <1>1, <1>4, <1>8, <1>9, RootsFits
<1>11. BasesFine' /\ RefsFine' /\ CacheFine' /\ roots'[cur] = roots[cur]
  BY Zenon, <1>1, <1>2, <1>4, <1>8, FineKept
<1>12. UNCHANGED Taken(cur)
  BY Zenon, <1>1 DEF Taken
<1>13. FitOut(roots[cur].meta)' /\ FitUpper(roots[cur].upper)' /\ FitMut' /\ FitRefs'
  BY Zenon, <1>1, <1>5, <1>11, <1>12 DEF FitOut, FitUpper, FitMut, FitRefs
<1>14. Making'
  BY Zenon, <1>1, <1>13 DEF Making
<1> QED BY <1>10, <1>11, <1>14 DEF Described

LEMMA GenerateOwnLayerDescribed == ASSUME Sane, Described, GenerateOwnLayer  PROVE Described'
<1>1. pc = "built" /\ UNCHANGED <<def, imp, impDir, bases, cache, refs, runVars>>
  BY DEF GenerateOwnLayer, userVars, copyVars, ociVars
<1>2. cur \in Layers /\ roots[cur] # None /\ roots[cur].meta # None
  BY <1>1, BuiltIs
<1>3. FitOut(roots[cur].meta) /\ FitUpper(roots[cur].upper) /\ FitMut /\ FitRefs
  BY <1>1 DEF Described, Making
<1>4. PICK label \in {"commit", "config"} :
        /\ Goto(label)
        /\ GenerateNew(cur) \/ AddExisting(cur) \/ UNCHANGED <<mut, dirVars, roots>>
  BY DEF GenerateOwnLayer
<1>5. UNCHANGED <<cur, TypeSet>> /\ pc' \in {"commit", "config"}
  BY <1>1, <1>4, GotoKeeps
<1>6. UNCHANGED Taken(cur) /\ BasesFine' /\ RefsFine' /\ CacheFine'
  BY <1>1, <1>5, FineKept DEF Taken
<1>7. RootsFine' /\ \A t \in TypeSet : FitSeq(mut'[t], cur, def[cur], Taken(cur))
  <2>1. CASE GenerateNew(cur) \/ AddExisting(cur)
    <3> DEFINE L == Under(cur)
    <3>1. L \subseteq Under(cur) /\ (roots[cur].meta.hasOut =>
             \A t \in TypeSet : roots[cur].meta.manifests[t] # None /\ Ended(roots[cur].meta.manifests[t], L))
      BY <1>3 DEF FitOut
    <3>2. roots[cur].upper # Empty => Fits(roots[cur].upper, cur, def[cur], Taken(cur))
      BY <1>3 DEF FitUpper
    <3> HIDE DEF L
    <3>3. /\ \A n \in Layers : roots[n] # None =>
               roots'[n].meta = roots[n].meta /\ roots'[n].upper \in {Empty, roots[n].upper}
          /\ \A t \in TypeSet : FitSeq(mut'[t], cur, def[cur], Taken(cur))
      BY Zenon, <1>1, <1>2, <2>1, <3>1, <3>2, GeneratedFits
    <3> QED BY <1>2, <1>5, <2>1, <3>3, TakenOut, GenerateKeepsNone
  <2>2. CASE UNCHANGED <<mut, dirVars, roots>>
    BY <1>3, <1>5, <2>2, FineKept DEF FitMut
  <2> QED BY <1>4, <2>1, <2>2
<1>8. FitMut' /\ FitRefs'
  BY <1>1, <1>3, <1>5, <1>6, <1>7 DEF FitMut, FitRefs
<1>9. Making'
  BY <1>5, <1>8 DEF Making
<1> QED BY <1>6, <1>7, <1>9 DEF Described

LEMMA CommitDescribed == ASSUME Sane, Described, Commit  PROVE Described'
<1> DEFINE r == [t \in Types |-> IF t \in TypeSet THEN [refs[cur][t] EXCEPT !.layers = mut[t]]
                                ELSE refs[cur][t]]
<1>1. /\ pc' = "ownMeta" /\ pc = "commit"
      /\ UNCHANGED <<cur, TypeSet, def, imp, impDir, bases, cache, roots, mut>>
      /\ refs' = [refs EXCEPT ![cur] = r]
  BY GotoKeeps DEF Commit, userVars, copyVars, mutVars
<1>2. cur \in Layers /\ TypeSet \subseteq Types
  BY CurIs, TypeSetIs
<1>3. UNCHANGED Taken(cur) /\ BasesFine' /\ RootsFine' /\ CacheFine'
  BY <1>1, FineKept DEF Taken
<1>4. FitMut /\ \A t \in TypeSet : refs[cur][t] # None
  BY <1>1 DEF Described, Making, Sane, Work
<1>5. \A t \in TypeSet : DOMAIN refs[cur][t] = {"layers", "def"}
  BY <1>2, <1>4 DEF Sane, RefsOK, IsImage
<1>6. ASSUME NEW t \in TypeSet  PROVE r[t].layers = mut[t]
  <2>1. r[t] = [refs[cur][t] EXCEPT !.layers = mut[t]]
    BY <1>2
  <2> HIDE DEF r
  <2> QED BY <1>5, <2>1
<1>7. ASSUME NEW t \in Types, r[t] # None  PROVE StemSeq(r[t].layers, Upto(cur))
  <2>1. CASE t \in TypeSet
    BY Zenon, <1>4, <1>6, <2>1, StemFits DEF FitMut
  <2>2. CASE t \notin TypeSet
    BY <1>2, <1>7, <2>2 DEF Described, RefsFine
  <2> QED BY <2>1, <2>2
<1> HIDE DEF r
<1>8. RefsFine' /\ refs'[cur] = r
  BY Zenon, <1>1, <1>7, RefsFits
<1>9. FitMut' /\ FitRefs'
  BY <1>1, <1>3, <1>4, <1>6, <1>8 DEF FitMut, FitRefs
<1>10. Making'
  BY <1>1, <1>9 DEF Making
<1> QED BY <1>3, <1>8, <1>10 DEF Described

LEMMA WriteOwnMetadataDescribed == ASSUME Sane, Described, WriteOwnMetadata  PROVE Described'
<1> DEFINE ms == [t \in Types |-> IF t \in TypeSet THEN mut[t] ELSE None]
           m == [NewOverlayMetadata EXCEPT !.manifests = ms]
<1>1. /\ pc' = "config" /\ pc = "ownMeta"
      /\ UNCHANGED <<cur, TypeSet, def, imp, impDir, bases, cache, refs>>
      /\ roots' = [roots EXCEPT ![cur].meta = m]
  BY GotoKeeps DEF WriteOwnMetadata, userVars, copyVars, ociVars
<1> HIDE DEF ms
<1>2. m.built = <<>> /\ m.hasOut = FALSE /\ \A t \in Types : m.ods[t] = None
  BY IsNewMetadata, IsNewMeta DEF MetaFields
<1> HIDE DEF m
<1>3. roots[cur] # None /\ FitRefs /\ cur \in Layers
  BY <1>1, CurIs DEF Sane, Work, Described, Making
<1>4. /\ \A n \in Layers : n # cur => roots'[n] = roots[n]
      /\ roots'[cur].meta = m /\ roots'[cur].upper = roots[cur].upper
  BY <1>1, <1>3, CurDir DEF DirFields
<1>5. FineDir(roots'[cur], cur, TypeSet)
  BY Zenon, <1>2, <1>3, <1>4, NewFine DEF FineDir, Described, RootsFine
<1>6. RootsFine'
  BY <1>1, <1>3, <1>4, <1>5, RootsFits
<1>7. UNCHANGED Taken(cur) /\ BasesFine' /\ RefsFine' /\ CacheFine'
  BY <1>1, FineKept DEF Taken
<1>8. FitRefs'
  BY <1>1, <1>3, <1>7 DEF FitRefs
<1>9. Making'
  BY <1>1, <1>8 DEF Making
<1> QED BY <1>6, <1>7, <1>9 DEF Described

LEMMA UpdateOCIConfigDescribed == ASSUME Sane, Described, UpdateOCIConfig  PROVE Described'
<1> DEFINE r == [t \in Types |-> IF t \in TypeSet THEN [refs[cur][t] EXCEPT !.def = def[cur]]
                                ELSE refs[cur][t]]
<1>1. /\ pc' = "put" /\ pc = "config"
      /\ UNCHANGED <<cur, TypeSet, def, imp, impDir, bases, cache, roots>>
      /\ refs' = [refs EXCEPT ![cur] = r]
  BY GotoKeeps DEF UpdateOCIConfig, userVars, copyVars
<1>2. cur \in Layers /\ TypeSet \subseteq Types
  BY CurIs, TypeSetIs
<1>3. UNCHANGED Taken(cur) /\ BasesFine' /\ RootsFine' /\ CacheFine'
  BY <1>1, FineKept DEF Taken
<1>4. FitRefs /\ \A t \in TypeSet : refs[cur][t] # None
  BY <1>1 DEF Described, Making, Sane, Work
<1>5. \A t \in TypeSet : DOMAIN refs[cur][t] = {"layers", "def"}
  BY <1>2, <1>4 DEF Sane, RefsOK, IsImage
<1>6. ASSUME NEW t \in TypeSet  PROVE r[t].layers = refs[cur][t].layers
  <2>1. r[t] = [refs[cur][t] EXCEPT !.def = def[cur]]
    BY <1>2
  <2> HIDE DEF r
  <2> QED BY <1>5, <2>1
<1>7. ASSUME NEW t \in Types, r[t] # None  PROVE StemSeq(r[t].layers, Upto(cur))
  <2>1. CASE t \in TypeSet
    BY Zenon, <1>4, <1>6, <2>1, StemFits DEF FitRefs
  <2>2. CASE t \notin TypeSet
    BY <1>2, <1>7, <2>2 DEF Described, RefsFine
  <2> QED BY <2>1, <2>2
<1> HIDE DEF r
<1>8. RefsFine' /\ refs'[cur] = r
  BY Zenon, <1>1, <1>7, RefsFits
<1>9. FitRefs'
  BY <1>1, <1>3, <1>4, <1>6, <1>8 DEF FitRefs
<1>10. Making'
  BY <1>1, <1>9 DEF Making
<1> QED BY <1>3, <1>8, <1>10 DEF Described

LEMMA NextDescribed ==
  ASSUME NoContent, OneTypeSet, SteadyDirs, Sane, Described, [Next]_vars  PROVE Described'
<1>1. CASE Build
  BY <1>1, ImportDescribed, GetBaseDescribed, CacheLookupDescribed, DeleteDescribed,
     CreateDescribed, SetupEmptyRootfsDescribed, UnpackDescribed, RestoreDescribed,
     SetOverlayDirsDescribed, RunContainerDescribed, InitializeBasesInOutputDescribed,
     GenerateBuiltLayerDescribed, WriteBuiltMetadataDescribed, GenerateOwnLayerDescribed,
     CommitDescribed, WriteOwnMetadataDescribed, UpdateOCIConfigDescribed, PutDescribed,
     LeaveDescribed DEF Build, SetupRootfs, Repack
<1>2. CASE Kill \/ KillUnpack
  BY <1>2, LeaveDescribed
<1>3. CASE \E noCache \in BOOLEAN : Start(noCache)
  BY <1>3, StartDescribed
<1> QED BY <1>1, <1>2, <1>3, UserDescribed DEF Next

\* A cached output image is what its entry says it is (CacheDescribesImage),
\* for every stackerfile, whatever fails or is killed: the layers made for the
\* image itself come from the definition and the imports that the entry records
\* and from a run section that ran to its end, if all invocations ask for the
\* same layer types and nobody edits an overlay_dir while stacker runs.
THEOREM CacheTellsTheTruth ==
  ASSUME Apart, NoContent, OneTypeSet, SteadyDirs  PROVE Spec => []CacheDescribesImage
<1>1. Init => Sane /\ Described
  BY InitSane, InitDescribed
<1>2. Sane /\ Described /\ [Next]_vars => Sane' /\ Described'
  BY NextSane, NextDescribed
<1> QED BY <1>1, <1>2, DescribedCache, PTL DEF Spec

-----------------------------------------------------------------------------
(* Sequences *)

IsSeq(s) == \E S : s \in Seq(S)

LEMMA Singles == \A x : IsSeq(<<x>>) /\ Len(<<x>>) = 1 /\ <<x>>[1] = x /\ <<x>> # <<>>
<1> SUFFICES ASSUME NEW x  PROVE IsSeq(<<x>>) /\ Len(<<x>>) = 1 /\ <<x>>[1] = x /\ <<x>> # <<>>
  BY Zenon
<1>1. <<x>> \in Seq({x})
  OBVIOUS
<1> QED BY Zenon, <1>1 DEF IsSeq

LEMMA Nothing == IsSeq(<<>>) /\ Len(<<>>) = 0
<1>1. <<>> \in Seq({})
  OBVIOUS
<1> DEFINE s == <<>>
<1>2. IsSeq(s)
  <2>1. \E S : s \in Seq(S)
    BY <1>1
  <2> QED BY <2>1 DEF IsSeq
<1> QED BY <1>2

\* Concatenation by its elements.
LEMMA Concats ==
  ASSUME NEW s, NEW t, IsSeq(s), IsSeq(t)
  PROVE  /\ IsSeq(s \o t) /\ Len(s) \in Nat /\ Len(t) \in Nat
         /\ Len(s \o t) = Len(s) + Len(t)
         /\ \A i \in 1..Len(s) : (s \o t)[i] = s[i]
         /\ \A i \in 1..Len(t) : (s \o t)[Len(s) + i] = t[i]
<1>1. PICK S : s \in Seq(S)
  BY DEF IsSeq
<1>2. PICK T : t \in Seq(T)
  BY DEF IsSeq
<1> DEFINE U == S \union T
<1>3. s \in Seq(U) /\ t \in Seq(U)
  BY <1>1, <1>2
<1> HIDE DEF U
<1>4. s \o t \in Seq(U) /\ Len(s \o t) = Len(s) + Len(t) /\ Len(s) \in Nat /\ Len(t) \in Nat
  BY <1>3
<1>5. \A i \in 1..Len(s) : (s \o t)[i] = s[i]
  BY <1>3
<1>6. ASSUME NEW i \in 1..Len(t)  PROVE (s \o t)[Len(s) + i] = t[i]
  BY <1>3, <1>4
<1> QED BY <1>4, <1>5, <1>6 DEF IsSeq

LEMMA SameSeq ==
  ASSUME NEW s, NEW t, IsSeq(s), IsSeq(t), Len(s) = Len(t), \A i \in 1..Len(s) : s[i] = t[i]
  PROVE  s = t
<1>1. PICK S : s \in Seq(S)
  BY DEF IsSeq
<1>2. PICK T : t \in Seq(T)
  BY DEF IsSeq
<1>3. s \in Seq(S \union T) /\ t \in Seq(S \union T)
  BY <1>1, <1>2
<1> QED BY <1>3

LEMMA ConcatNothing ==
  ASSUME NEW s, IsSeq(s)  PROVE s \o <<>> = s /\ <<>> \o s = s
<1>1. PICK S : s \in Seq(S)
  BY DEF IsSeq
<1> QED BY <1>1

LEMMA AppendIs ==
  ASSUME NEW s, NEW x, IsSeq(s)  PROVE Append(s, x) = s \o <<x>>
<1>1. PICK S : s \in Seq(S)
  BY DEF IsSeq
<1>2. s \in Seq(S \union {x}) /\ x \in S \union {x}
  BY <1>1
<1> QED BY <1>2

LEMMA EndsIn ==
  ASSUME NEW s, NEW x, IsSeq(s)
  PROVE  /\ s \o <<x>> # <<>> /\ (s \o <<x>>)[Len(s \o <<x>>)] = x
         /\ IsSeq(s \o <<x>>)
<1>1. /\ Len(s \o <<x>>) = Len(s) + 1 /\ Len(s) \in Nat /\ (s \o <<x>>)[Len(s) + 1] = x
      /\ IsSeq(s \o <<x>>)
  <2>1. IsSeq(<<x>>) /\ Len(<<x>>) = 1 /\ <<x>>[1] = x
    BY Singles
  <2> HIDE DEF IsSeq
  <2>2. 1 \in 1..1
    OBVIOUS
  <2> QED BY <2>1, <2>2, Concats
<1>2. s \o <<x>> # <<>>
  <2>1. SUFFICES ASSUME s \o <<x>> = <<>>  PROVE FALSE
    OBVIOUS
  <2>2. Len(s \o <<x>>) = 0
    BY <2>1
  <2> QED BY <1>1, <2>2
<1> QED BY <1>1, <1>2

-----------------------------------------------------------------------------
(* FlattenSeq by its equations *)

IsFlat(f, ss, n) ==
  f = [i \in 1..n |-> IF i = 1 THEN ss[i] ELSE f[i - 1] \o ss[i]]

LEMMA FlatExists ==
  ASSUME NEW ss, NEW n \in Nat  PROVE \E f : IsFlat(f, ss, n)
<1> DEFINE K == {j \in Nat : \E f : IsFlat(f, ss, j)}
<1>1. 0 \in K
  <2> DEFINE e == [i \in {} |-> 0]
  <2>1. 1..0 = {}
    OBVIOUS
  <2>2. IsFlat(e, ss, 0)
    BY <2>1 DEF IsFlat
  <2> HIDE DEF e
  <2> QED BY <2>2
<1>2. ASSUME NEW j \in K  PROVE j + 1 \in K
  <2>1. PICK f : IsFlat(f, ss, j)
    BY <1>2
  <2> DEFINE g == [i \in 1..(j + 1) |-> IF i = 1 THEN ss[i]
                     ELSE IF i <= j THEN f[i] ELSE f[j] \o ss[i]]
  <2>2. ASSUME NEW i \in 1..(j + 1)
        PROVE  g[i] = IF i = 1 THEN ss[i] ELSE g[i - 1] \o ss[i]
    <3>1. CASE i = 1
      BY <3>1
    <3>2. CASE i # 1 /\ i <= j
      <4>1. i \in 1..j /\ i - 1 \in 1..j /\ i - 1 \in 1..(j + 1) /\ 1 \in 1..j
        BY <1>2, <2>2, <3>2
      <4>2. f[i] = f[i - 1] \o ss[i]
        BY Zenon, <2>1, <3>2, <4>1 DEF IsFlat
      <4>3. f[1] = ss[1]
        BY <2>1, <4>1 DEF IsFlat
      <4>4. g[i - 1] = f[i - 1] /\ g[i] = f[i]
        BY <3>2, <4>1, <4>3
      <4> QED BY Zenon, <3>2, <4>2, <4>4
    <3>3. CASE i # 1 /\ ~(i <= j)
      <4>1. i = j + 1 /\ i - 1 = j /\ j \in 1..(j + 1) /\ j \in 1..j /\ 1 \in 1..j
        BY <1>2, <2>2, <3>3
      <4>3. f[1] = ss[1]
        BY <2>1, <4>1 DEF IsFlat
      <4>4. g[j] = f[j]
        BY <4>1, <4>3
      <4> QED BY Zenon, <3>3, <4>1, <4>4
    <3> QED BY <3>1, <3>2, <3>3
  <2>3. IsFlat(g, ss, j + 1)
    BY Zenon, <2>2 DEF IsFlat
  <2> HIDE DEF g
  <2> QED BY <1>2, <2>3
<1>3. K = Nat
  <2>1. K \in SUBSET Nat
    OBVIOUS
  <2> HIDE DEF K
  <2> QED BY <1>1, <1>2, <2>1, NatSets
<1> QED BY <1>3

LEMMA FlattenIs ==
  ASSUME NEW ss, IsSeq(ss), ss # <<>>
  PROVE  \E f : IsFlat(f, ss, Len(ss)) /\ FlattenSeq(ss) = f[Len(ss)]
<1> DEFINE n == Len(ss)
           f == CHOOSE g : IsFlat(g, ss, n)
<1>1. n \in Nat /\ n # 0
  <2>1. PICK S : ss \in Seq(S)
    BY DEF IsSeq
  <2> QED BY <2>1
<1>2. IsFlat(f, ss, n)
  <2>1. \E g : IsFlat(g, ss, n)
    BY Zenon, <1>1, FlatExists
  <2> QED BY <2>1
<1>3. FlattenSeq(ss) = f[n]
  <2>1. f = CHOOSE g : g = [i \in 1..Len(ss) |-> IF i = 1 THEN ss[i] ELSE g[i - 1] \o ss[i]]
    BY DEF IsFlat
  <2> QED BY Zenon, <1>1, <2>1 DEF FlattenSeq
<1> HIDE DEF f
<1> QED BY <1>2, <1>3

LEMMA FlattenNothing == FlattenSeq(<<>>) = <<>>
  BY DEF FlattenSeq

\* Flattening one-element sequences gives back their elements.
LEMMA FlattenSingles ==
  ASSUME NEW s, IsSeq(s)  PROVE FlattenSeq([i \in 1..Len(s) |-> <<s[i]>>]) = s
<1> DEFINE ss == [i \in 1..Len(s) |-> <<s[i]>>]
<1>1. PICK S : s \in Seq(S)
  BY DEF IsSeq
<1>2. Len(s) \in Nat /\ \A i \in 1..Len(s) : s[i] \in S
  BY <1>1
<1>3. ss \in Seq(Seq(S)) /\ Len(ss) = Len(s)
  BY <1>2
<1>4. \A i \in 1..Len(s) : ss[i] = <<s[i]>>
  OBVIOUS
<1>5. CASE s = <<>>
  <2>1. Len(s) = 0
    BY <1>5
  <2>2. Len(ss) = 0
    BY <1>3, <2>1
  <2>3. ss = <<>>
    <3> HIDE DEF ss
    <3> QED BY <1>3, <2>2
  <2> HIDE DEF ss
  <2>4. FlattenSeq(ss) = s
    BY <1>5, <2>3, FlattenNothing
  <2> QED BY <2>4 DEF ss
<1>6. CASE s # <<>>
  <2> HIDE DEF ss
  <2>1. ss # <<>> /\ IsSeq(ss)
    BY <1>1, <1>3, <1>6 DEF IsSeq
  <2>2. PICK f : IsFlat(f, ss, Len(ss)) /\ FlattenSeq(ss) = f[Len(ss)]
    BY <2>1, FlattenIs
  <2> DEFINE K == {j \in Nat : j + 1 <= Len(s) => f[j + 1] = SubSeq(s, 1, j + 1)}
  <2>3. Len(s) >= 1
    BY <1>1, <1>6
  <2>4. 0 \in K
    <3>1. f[1] = ss[1]
      BY <1>2, <1>3, <2>2, <2>3 DEF IsFlat
    <3>2. SubSeq(s, 1, 1) = <<s[1]>>
      <4> DEFINE u == SubSeq(s, 1, 1)
      <4>1. u \in Seq(S) /\ Len(u) = 1 /\ u[1] = s[1]
        BY <1>1, <2>3
      <4> HIDE DEF u
      <4>2. u = <<s[1]>>
        BY <4>1
      <4> QED BY <4>2 DEF u
    <3> QED BY <1>2, <1>4, <2>3, <3>1, <3>2
  <2>5. ASSUME NEW j \in K  PROVE j + 1 \in K
    <3>1. SUFFICES ASSUME (j + 1) + 1 <= Len(s)  PROVE f[(j + 1) + 1] = SubSeq(s, 1, (j + 1) + 1)
      BY <2>5
    <3>2. /\ (j + 1) + 1 \in 1..Len(s) /\ (j + 1) + 1 # 1 /\ ((j + 1) + 1) - 1 = j + 1
          /\ j + 1 \in 1..Len(s) /\ j + 1 <= Len(s) /\ j \in Nat
      BY <1>2, <2>5, <3>1
    <3>3. f[(j + 1) + 1] = f[j + 1] \o ss[(j + 1) + 1]
      BY Zenon, <1>3, <2>2, <3>2 DEF IsFlat
    <3>4. f[j + 1] = SubSeq(s, 1, j + 1)
      BY <2>5, <3>2
    <3> DEFINE p == j + 1
    <3>5. p \in Nat /\ p >= 1 /\ p + 1 <= Len(s)
      BY <1>2, <3>1, <3>2
    <3> HIDE DEF p
    <3>6. SubSeq(s, 1, p) \o <<s[p + 1]>> = SubSeq(s, 1, p + 1)
      BY <1>1, <3>5
    <3> QED BY Zenon, <1>4, <3>2, <3>3, <3>4, <3>6 DEF p
  <2>6. K = Nat
    <3>1. K \in SUBSET Nat
      OBVIOUS
    <3> HIDE DEF K
    <3> QED BY <2>4, <2>5, <3>1, NatSets
  <2>7. f[Len(s)] = SubSeq(s, 1, Len(s))
    <3>1. Len(s) - 1 \in Nat /\ (Len(s) - 1) + 1 = Len(s)
      BY <1>2, <2>3
    <3>2. Len(s) - 1 \in K
      BY Zenon, <2>6, <3>1
    <3> QED BY <3>1, <3>2
  <2>8. SubSeq(s, 1, Len(s)) = s
    BY <1>1
  <2>9. FlattenSeq(ss) = s
    BY <1>3, <2>2, <2>7, <2>8
  <2> QED BY <2>9 DEF ss
<1> QED BY <1>5, <1>6

\* Flattening empty sequences and a last one gives the last.
LEMMA FlattenLast ==
  ASSUME NEW ss, IsSeq(ss), ss # <<>>, IsSeq(ss[Len(ss)]),
         \A i \in 1..Len(ss) : i # Len(ss) => ss[i] = <<>>
  PROVE  FlattenSeq(ss) = ss[Len(ss)]
<1>1. Len(ss) \in Nat /\ Len(ss) >= 1
  <2>1. PICK S : ss \in Seq(S)
    BY DEF IsSeq
  <2> QED BY <2>1
<1>2. PICK f : IsFlat(f, ss, Len(ss)) /\ FlattenSeq(ss) = f[Len(ss)]
  BY FlattenIs
<1> DEFINE K == {j \in Nat : j + 1 < Len(ss) => f[j + 1] = <<>>}
<1>3. 0 \in K
  <2>1. SUFFICES ASSUME 1 < Len(ss)  PROVE f[1] = <<>>
    OBVIOUS
  <2>2. 1 \in 1..Len(ss) /\ 1 # Len(ss)
    BY <1>1, <2>1
  <2>3. f[1] = ss[1]
    BY <1>2, <2>2 DEF IsFlat
  <2> QED BY <2>2, <2>3
<1>4. ASSUME NEW j \in K  PROVE j + 1 \in K
  <2>1. SUFFICES ASSUME (j + 1) + 1 < Len(ss)  PROVE f[(j + 1) + 1] = <<>>
    BY <1>4
  <2>2. /\ (j + 1) + 1 \in 1..Len(ss) /\ (j + 1) + 1 # 1 /\ ((j + 1) + 1) - 1 = j + 1
        /\ j + 1 < Len(ss) /\ (j + 1) + 1 # Len(ss)
    BY <1>1, <1>4, <2>1
  <2>3. f[(j + 1) + 1] = f[j + 1] \o ss[(j + 1) + 1]
    BY Zenon, <1>2, <2>2 DEF IsFlat
  <2>4. f[j + 1] = <<>> /\ ss[(j + 1) + 1] = <<>>
    BY <1>4, <2>2
  <2>5. <<>> \o <<>> = <<>>
    BY Nothing, ConcatNothing
  <2> QED BY <2>3, <2>4, <2>5
<1>5. K = Nat
  <2>1. K \in SUBSET Nat
    OBVIOUS
  <2> HIDE DEF K
  <2> QED BY <1>3, <1>4, <2>1, NatSets
<1>6. CASE Len(ss) = 1
  <2>1. f[1] = ss[1]
    BY <1>2, <1>6 DEF IsFlat
  <2> QED BY <1>2, <1>6, <2>1
<1>7. CASE Len(ss) # 1
  <2>1. /\ Len(ss) \in 1..Len(ss) /\ Len(ss) - 2 \in Nat
        /\ (Len(ss) - 2) + 1 = Len(ss) - 1 /\ Len(ss) - 1 < Len(ss)
    <3> DEFINE p == Len(ss)
    <3>1. p \in Nat /\ p >= 1 /\ p # 1
      BY <1>1, <1>7
    <3> HIDE DEF p
    <3>2. p \in 1..p /\ p - 2 \in Nat /\ (p - 2) + 1 = p - 1 /\ p - 1 < p
      BY ONLY <3>1
    <3> QED BY Zenon, <3>2 DEF p
  <2>2. f[Len(ss) - 1] = <<>>
    <3>1. Len(ss) - 2 \in K
      BY Zenon, <1>5, <2>1
    <3> QED BY Zenon, <2>1, <3>1
  <2>3. f[Len(ss)] = f[Len(ss) - 1] \o ss[Len(ss)]
    BY Zenon, <1>2, <1>7, <2>1 DEF IsFlat
  <2>4. <<>> \o ss[Len(ss)] = ss[Len(ss)]
    BY ConcatNothing
  <2> QED BY <1>2, <2>2, <2>3, <2>4
<1> QED BY <1>6, <1>7

-----------------------------------------------------------------------------
(* What a build makes of its inputs *)

\* The tokens a layer n gets from the version v of its import, from the image
\* c, and from its run section, if its definition is d and low is below it.
OdOf(n, v) == IF ImportKind[n] = "overlay" THEN <<OverlayDir(n, v)>> ELSE <<>>
TarOf(n, d, c) == IF Image[n][d] \in Tars THEN <<c>> ELSE <<>>
TokenOf(n, d, v, c, low) ==
  [layer |-> n, def |-> d, view |-> (low \o OdOf(n, v)) \o TarOf(n, d, c), whole |-> TRUE,
   imp |-> IF ImportKind[n] = "plain" THEN v ELSE None]
OwnOf(n, d, v, c, low) ==
  IF d \in Idle THEN TarOf(n, d, c) ELSE <<TokenOf(n, d, v, c, low)>>
AllOf(n, d, v, c, low) == (low \o OdOf(n, v)) \o OwnOf(n, d, v, c, low)
LowOf(n, d, c, below) ==
  IF From[n] # None THEN below
  ELSE IF Image[n][d] \in Tars \union {None} THEN <<>> ELSE <<c>>

\* The same of the inputs as they are now.
Now(n) == IF Source(n) = None THEN None ELSE Content(Source(n), upstream[Source(n)])
Low(n) == LowOf(n, def[n], Now(n), Fresh[From[n]])
OwnNow(n) == OwnOf(n, def[n], imp[n], Now(n), Low(n))

\* No import has a dest.
NoDests == \A n \in Layers : ImportKind[n] # "dest"

\* The body of Fresh.
Remade(n, base) ==
  LET image == IF Source(n) = None THEN <<>>
               ELSE <<Content(Source(n), upstream[Source(n)])>>
      tarball == IF Source(n) \in Tars THEN image ELSE <<>>
      below == IF From[n] # None THEN base
               ELSE IF Source(n) \in Tars THEN <<>> ELSE image
      seen == below \o (IF ImportKind[n] \in {"dest", "overlay"}
                        THEN <<OverlayDir(n, imp[n])>> ELSE <<>>) IN
  IF def[n] \in Idle THEN seen \o tarball
  ELSE Append(seen, [layer |-> n, def |-> def[n], view |-> seen \o tarball,
                     whole |-> TRUE,
                     imp |-> IF ImportKind[n] = "plain" THEN imp[n] ELSE None])

LEMMA FreshExists == \E f : f = [n \in Layers |-> Remade(n, f[From[n]])]
<1> DEFINE K == {j \in Nat : j <= Len(Order) => \E g : g = [n \in First(j) |-> Remade(n, g[From[n]])]}
<1>0. ASSUME NEW n, From[n] = None, NEW a, NEW b  PROVE Remade(n, a) = Remade(n, b)
  BY <1>0 DEF Remade
<1>1. 0 \in K
  <2>1. \A g : g = [n \in {} |-> Remade(n, g[From[n]])] <=> g = [n \in {} |-> 0]
    OBVIOUS
  <2> QED BY Zenon, <2>1, Ranked
<1>2. ASSUME NEW j \in K  PROVE j + 1 \in K
  <2>1. CASE j < Len(Order)
    <3>1. PICK g : g = [n \in First(j) |-> Remade(n, g[From[n]])]
      BY <1>2, <2>1, Ranked
    <3> DEFINE h == [n \in First(j + 1) |-> IF n \in First(j) THEN g[n] ELSE Remade(n, g[From[n]])]
    <3>2. ASSUME NEW n \in First(j + 1)  PROVE h[n] = Remade(n, h[From[n]])
      <4>1. First(j) \subseteq First(j + 1) /\ (From[n] # None => From[n] \in First(j))
        BY <1>2, <2>1, Ranked
      <4>2. h[n] = Remade(n, g[From[n]])
        BY <3>1
      <4>3. CASE From[n] = None
        BY <1>0, <4>2, <4>3
      <4>4. CASE From[n] # None
        <5>1. h[From[n]] = g[From[n]]
          BY <4>1, <4>4
        <5> QED BY <4>2, <5>1
      <4> QED BY <4>3, <4>4
    <3>3. h = [n \in First(j + 1) |-> Remade(n, h[From[n]])]
      BY <3>2
    <3> HIDE DEF h
    <3> QED BY <1>2, <3>3
  <2>2. CASE ~(j < Len(Order))
    BY <1>2, <2>2, Ranked
  <2> QED BY <2>1, <2>2
<1>3. K = Nat
  <2>1. K \in SUBSET Nat
    OBVIOUS
  <2> HIDE DEF K
  <2> QED BY <1>1, <1>2, <2>1, NatSets
<1>4. Len(Order) \in K
  BY <1>3, Ranked
<1> QED BY <1>4, Ranked

LEMMA FreshEq == ASSUME NEW n \in Layers  PROVE Fresh[n] = Remade(n, Fresh[From[n]])
<1>1. Fresh = [m \in Layers |-> Remade(m, Fresh[From[m]])]
  BY Zenon, FreshExists DEF Fresh, Remade
<1> QED BY <1>1

LEMMA FreshSteady ==
  ASSUME UNCHANGED userVars
  PROVE  /\ UNCHANGED Fresh
         /\ \A n : Now(n)' = Now(n) /\ Low(n)' = Low(n) /\ OwnNow(n)' = OwnNow(n)
<1>1. UNCHANGED <<def, imp, upstream>>
  BY DEF userVars
<1>2. UNCHANGED Fresh
  BY <1>1 DEF Fresh, Source, Content
<1>3. \A n : Now(n)' = Now(n)
  BY <1>1 DEF Now, Source
<1>4. \A n : Low(n)' = Low(n)
  BY <1>1, <1>2, <1>3 DEF Low
<1> QED BY <1>1, <1>2, <1>3, <1>4 DEF OwnNow

LEMMA NoTar == None \notin Tars /\ Tars \subseteq Images /\ None \notin Images
               /\ None \notin Layers /\ None \notin BuildOnly
  BY BuildAssumption DEF Images

LEMMA PartsAre ==
  ASSUME NEW n, NEW d, NEW v, NEW c, NEW low, IsSeq(low)
  PROVE  /\ IsSeq(OdOf(n, v)) /\ IsSeq(TarOf(n, d, c)) /\ IsSeq(OwnOf(n, d, v, c, low))
         /\ IsSeq(low \o OdOf(n, v)) /\ IsSeq(AllOf(n, d, v, c, low))
<1>1. IsSeq(OdOf(n, v)) /\ IsSeq(TarOf(n, d, c)) /\ IsSeq(OwnOf(n, d, v, c, low))
  BY Singles, Nothing DEF OdOf, TarOf, OwnOf
<1>2. IsSeq(low \o OdOf(n, v))
  BY <1>1, Concats
<1> QED BY <1>1, <1>2, Concats DEF AllOf

LEMMA LowIs ==
  ASSUME NEW n, NEW d, NEW c, NEW below, From[n] # None => IsSeq(below)
  PROVE  IsSeq(LowOf(n, d, c, below))
  BY Singles, Nothing DEF LowOf

LEMMA FreshOne ==
  ASSUME NoDests, NEW n \in Layers, From[n] # None => IsSeq(Fresh[From[n]])
  PROVE  Fresh[n] = AllOf(n, def[n], imp[n], Now(n), Low(n))
<1> DEFINE image == IF Source(n) = None THEN <<>> ELSE <<Content(Source(n), upstream[Source(n)])>>
           tarball == IF Source(n) \in Tars THEN image ELSE <<>>
           below == IF From[n] # None THEN Fresh[From[n]]
                    ELSE IF Source(n) \in Tars THEN <<>> ELSE image
           od == IF ImportKind[n] \in {"dest", "overlay"} THEN <<OverlayDir(n, imp[n])>> ELSE <<>>
           seen == below \o od
           token == [layer |-> n, def |-> def[n], view |-> seen \o tarball, whole |-> TRUE,
                     imp |-> IF ImportKind[n] = "plain" THEN imp[n] ELSE None]
<1>1. Fresh[n] = IF def[n] \in Idle THEN seen \o tarball ELSE Append(seen, token)
  BY Zenon, FreshEq DEF Remade
<1>2. tarball = TarOf(n, def[n], Now(n))
  BY NoTar DEF TarOf, Now, Source
<1>3. od = OdOf(n, imp[n])
  BY DEF OdOf, NoDests
<1>4. below = Low(n)
  BY DEF Low, LowOf, Now, Source
<1>5. IsSeq(Low(n))
  BY LowIs DEF Low
<1> HIDE DEF image, tarball, below, od
<1>6. token = TokenOf(n, def[n], imp[n], Now(n), Low(n))
  BY <1>2, <1>3, <1>4 DEF TokenOf
<1>7. IsSeq(seen)
  BY <1>3, <1>4, <1>5, PartsAre
<1> HIDE DEF seen, token
<1>8. Append(seen, token) = seen \o <<token>>
  BY <1>7, AppendIs
<1>9. seen = Low(n) \o OdOf(n, imp[n])
  BY <1>3, <1>4 DEF seen
<1> QED BY Zenon, <1>1, <1>2, <1>6, <1>8, <1>9 DEF AllOf, OwnOf

\* Fresh in terms of its parts.
LEMMA FreshIs ==
  ASSUME NoDests, NEW n \in Layers
  PROVE  /\ Fresh[n] = AllOf(n, def[n], imp[n], Now(n), Low(n))
         /\ IsSeq(Fresh[n]) /\ IsSeq(Low(n)) /\ IsSeq(OwnNow(n))
         /\ From[n] # None => Low(n) = Fresh[From[n]]
<1> DEFINE S == {m \in Layers : IsSeq(Fresh[m])}
<1>1. ASSUME NEW m \in Layers, From[m] # None => From[m] \in S  PROVE m \in S
  <2>1. From[m] # None => IsSeq(Fresh[From[m]])
    BY <1>1
  <2>2. Fresh[m] = AllOf(m, def[m], imp[m], Now(m), Low(m))
    BY <2>1, FreshOne
  <2>3. IsSeq(Low(m))
    BY <2>1, LowIs DEF Low
  <2> QED BY <2>2, <2>3, PartsAre
<1>2. Layers \subseteq S
  <2> HIDE DEF S
  <2> QED BY <1>1, LayerInduction
<1>3. From[n] # None => From[n] \in Layers
  BY BuildAssumption
<1>4. From[n] # None => IsSeq(Fresh[From[n]])
  BY <1>2, <1>3
<1>5. IsSeq(Low(n))
  BY <1>4, LowIs DEF Low
<1>6. IsSeq(OwnNow(n))
  BY <1>5, PartsAre DEF OwnNow
<1>7. From[n] # None => Low(n) = Fresh[From[n]]
  BY DEF Low, LowOf
<1> QED BY <1>2, <1>4, <1>5, <1>6, <1>7, FreshOne

\* Only the inputs that count count.
LEMMA PartsSame ==
  ASSUME NEW n, NEW d, NEW v, NEW w, NEW b, NEW c, NEW low,
         ImportKind[n] \in {"plain", "overlay"} => v = w, Image[n][d] # None => b = c
  PROVE  /\ OdOf(n, v) = OdOf(n, w) /\ TarOf(n, d, b) = TarOf(n, d, c)
         /\ OwnOf(n, d, v, b, low) = OwnOf(n, d, w, c, low)
         /\ AllOf(n, d, v, b, low) = AllOf(n, d, w, c, low)
         /\ \A below : LowOf(n, d, b, below) = LowOf(n, d, c, below)
<1>1. OdOf(n, v) = OdOf(n, w)
  BY DEF OdOf
<1>2. TarOf(n, d, b) = TarOf(n, d, c)
  BY NoTar DEF TarOf
<1>3. TokenOf(n, d, v, b, low) = TokenOf(n, d, w, c, low)
  BY Zenon, <1>1, <1>2 DEF TokenOf
<1>4. OwnOf(n, d, v, b, low) = OwnOf(n, d, w, c, low)
  BY <1>2, <1>3 DEF OwnOf
<1>5. \A below : LowOf(n, d, b, below) = LowOf(n, d, c, below)
  BY DEF LowOf
<1> QED BY <1>1, <1>2, <1>4, <1>5 DEF AllOf

-----------------------------------------------------------------------------
(* The tokens of a fresh image *)

In(x, s) == \E i \in 1..Len(s) : s[i] = x
Distinct(s) == \A i, j \in 1..Len(s) : s[i] = s[j] => i = j

LEMMA InNothing ==
  /\ \A x : ~In(x, <<>>)
  /\ \A x, y : In(x, <<y>>) <=> x = y
  /\ Distinct(<<>>) /\ \A y : Distinct(<<y>>)
<1>1. \A x : ~In(x, <<>>)
  BY DEF In
<1>2. \A x, y : In(x, <<y>>) <=> x = y
  BY DEF In
<1>3. Distinct(<<>>) /\ \A y : Distinct(<<y>>)
  BY DEF Distinct
<1> QED BY <1>1, <1>2, <1>3

\* A position of a concatenation is one of either part.
LEMMA ConcatAt ==
  ASSUME NEW s, NEW t, IsSeq(s), IsSeq(t), NEW i \in 1..Len(s \o t)
  PROVE  \/ i \in 1..Len(s) /\ (s \o t)[i] = s[i]
         \/ i - Len(s) \in 1..Len(t) /\ (s \o t)[i] = t[i - Len(s)] /\ i \notin 1..Len(s)
<1>1. Len(s) \in Nat /\ Len(t) \in Nat /\ Len(s \o t) = Len(s) + Len(t)
  BY Concats
<1> DEFINE a == Len(s)
           b == Len(t)
<1>2. a \in Nat /\ b \in Nat /\ i \in 1..(a + b)
  BY <1>1
<1>3. CASE i \in 1..a
  BY <1>3, Concats
<1>4. CASE i \notin 1..a
  <2>1. i - a \in 1..b /\ a + (i - a) = i
    <3> HIDE DEF a, b
    <3> QED BY <1>2, <1>4
  <2>2. (s \o t)[Len(s) + (i - a)] = t[i - a]
    BY <2>1, Concats
  <2> QED BY <1>4, <2>1, <2>2
<1> QED BY <1>3, <1>4

LEMMA InConcat ==
  ASSUME NEW s, NEW t, IsSeq(s), IsSeq(t), NEW x, In(x, s \o t)  PROVE In(x, s) \/ In(x, t)
<1>1. PICK i \in 1..Len(s \o t) : (s \o t)[i] = x
  BY DEF In
<1> QED BY <1>1, ConcatAt DEF In

LEMMA InLeft ==
  ASSUME NEW s, NEW t, IsSeq(s), IsSeq(t), NEW x, In(x, s)  PROVE In(x, s \o t)
<1>1. PICK i \in 1..Len(s) : s[i] = x
  BY DEF In
<1>2. i \in 1..Len(s \o t) /\ (s \o t)[i] = x
  BY <1>1, Concats
<1> QED BY <1>2 DEF In

LEMMA DistinctConcat ==
  ASSUME NEW s, NEW t, IsSeq(s), IsSeq(t), Distinct(s), Distinct(t), \A x : ~(In(x, s) /\ In(x, t))
  PROVE  Distinct(s \o t)
<1>1. SUFFICES ASSUME NEW i \in 1..Len(s \o t), NEW j \in 1..Len(s \o t), (s \o t)[i] = (s \o t)[j]
               PROVE  i = j
  BY DEF Distinct
<1> DEFINE x == (s \o t)[i]
<1>2. \/ i \in 1..Len(s) /\ x = s[i]
      \/ i - Len(s) \in 1..Len(t) /\ x = t[i - Len(s)]
  BY ConcatAt
<1>3. \/ j \in 1..Len(s) /\ x = s[j]
      \/ j - Len(s) \in 1..Len(t) /\ x = t[j - Len(s)]
  BY <1>1, ConcatAt
<1> HIDE DEF x
<1>4. CASE In(x, s)
  <2>1. ~In(x, t)
    BY <1>4
  <2>2. i \in 1..Len(s) /\ x = s[i] /\ j \in 1..Len(s) /\ x = s[j]
    BY <1>2, <1>3, <2>1 DEF In
  <2> QED BY Zenon, <2>2 DEF Distinct
<1>5. CASE ~In(x, s)
  <2>2. i - Len(s) \in 1..Len(t) /\ x = t[i - Len(s)] /\ j - Len(s) \in 1..Len(t) /\ x = t[j - Len(s)]
    BY <1>2, <1>3, <1>5 DEF In
  <2>3. i - Len(s) = j - Len(s)
    BY Zenon, <2>2 DEF Distinct
  <2>4. Len(s) \in Nat /\ i \in Int /\ j \in Int
    <3>1. Len(s) \in Nat /\ Len(s \o t) \in Nat
      BY Concats
    <3> QED BY <3>1
  <2> DEFINE a == Len(s)
  <2>5. i - a = j - a /\ a \in Nat
    BY <2>3, <2>4
  <2> HIDE DEF a
  <2> QED BY <2>4, <2>5
<1> QED BY <1>4, <1>5

LEMMA Counted == ASSUME NEW p \in Nat  PROVE Cardinality(1..p) = p
<1>1. 1 \in Int /\ p \in Int
  OBVIOUS
<1>2. Cardinality(1..p) = IF 1 > p THEN 0 ELSE p - 1 + 1
  BY ONLY <1>1, FS_Interval
<1> QED BY <1>2

\* What hides nothing is visible as it is.
LEMMA AllVisible ==
  ASSUME NEW s, IsSeq(s), Distinct(s)  PROVE Visible(s) = s
<1>1. PICK S : s \in Seq(S)
  BY DEF IsSeq
<1> DEFINE L == Len(s)
           last == {i \in 1..L : \A j \in (i + 1)..L : s[j] # s[i]}
           Nth(i) == CHOOSE p \in last : Cardinality({q \in last : q <= p}) = i
<1>2. L \in Nat /\ s = [i \in 1..L |-> s[i]]
  BY <1>1
<1>3. last = 1..L
  <2>1. ASSUME NEW i \in 1..L, NEW j \in (i + 1)..L  PROVE s[j] # s[i]
    <3>1. j \in 1..L /\ i # j
      BY <1>2
    <3> QED BY <3>1 DEF Distinct
  <2> QED BY <2>1
<1>4. ASSUME NEW p \in 1..L  PROVE Cardinality({q \in 1..L : q <= p}) = p
  <2>1. {q \in 1..L : q <= p} = 1..p
    BY <1>2
  <2>2. Cardinality(1..p) = p
    BY <1>2, Counted
  <2> QED BY Zenon, <2>1, <2>2
<1> HIDE DEF last
<1>5. ASSUME NEW i \in 1..L  PROVE Nth(i) = i
  <2>1. \A p \in last : Cardinality({q \in last : q <= p}) = i <=> p = i
    BY <1>3, <1>4
  <2>2. i \in last
    BY <1>3
  <2> QED BY <2>1, <2>2
<1>6. Cardinality(last) = L
  <2>1. Cardinality(1..L) = L
    BY <1>2, Counted
  <2> QED BY <1>3, <2>1
<1>7. Visible(s) = [i \in 1..Cardinality(last) |-> s[Nth(i)]]
  BY DEF Visible, last
<1> HIDE DEF Nth
<1>8. [i \in 1..Cardinality(last) |-> s[Nth(i)]] = [i \in 1..L |-> s[i]]
  BY <1>5, <1>6
<1> QED BY Zenon, <1>2, <1>7, <1>8

\* The token x was made for l from the inputs as they are now.
MadeFor(x, l) ==
  \/ x = OverlayDir(l, imp[l]) /\ ImportKind[l] = "overlay"
  \/ "layer" \in DOMAIN x /\ x.layer = l /\ "dest" \notin DOMAIN x
\* It is what is now in an image or a tarball that a layer starts from.
OfImage(x) ==
  DOMAIN x = {"image", "version"} /\ \E m \in Layers : Source(m) # None /\ x = Now(m)

LEMMA MadeApart ==
  /\ \A x, l : MadeFor(x, l) => ~OfImage(x)
  /\ \A x, l, m : MadeFor(x, l) /\ MadeFor(x, m) => l = m
<1>1. \A l : DOMAIN OverlayDir(l, imp[l]) = {"dest", "imp"} /\ OverlayDir(l, imp[l]).dest = l
  BY DEF OverlayDir
<1>2. ASSUME NEW x, NEW l, MadeFor(x, l)  PROVE ~OfImage(x)
  <2>1. CASE x = OverlayDir(l, imp[l])
    BY <1>1, <2>1 DEF OfImage
  <2>2. CASE "layer" \in DOMAIN x
    BY <2>2 DEF OfImage
  <2> QED BY <1>2, <2>1, <2>2 DEF MadeFor
<1>3. ASSUME NEW x, NEW l, NEW m, MadeFor(x, l), MadeFor(x, m)  PROVE l = m
  <2>1. CASE x = OverlayDir(l, imp[l])
    <3>1. "dest" \in DOMAIN x /\ "layer" \notin DOMAIN x /\ x.dest = l
      BY <1>1, <2>1
    <3>2. x = OverlayDir(m, imp[m])
      BY <1>3, <3>1 DEF MadeFor
    <3> QED BY <1>1, <3>1, <3>2
  <2>2. CASE "layer" \in DOMAIN x /\ x.layer = l /\ "dest" \notin DOMAIN x
    <3>1. x # OverlayDir(m, imp[m])
      BY <1>1, <2>2
    <3> QED BY <1>3, <2>2, <3>1 DEF MadeFor
  <2> QED BY <1>3, <2>1, <2>2 DEF MadeFor
<1> QED BY <1>2, <1>3

LEMMA MadeDomain == \A x, l : MadeFor(x, l) => DOMAIN x # {"image", "version"}
<1>1. \A l : DOMAIN OverlayDir(l, imp[l]) = {"dest", "imp"}
  BY DEF OverlayDir
<1>2. ASSUME NEW x, NEW l, x = OverlayDir(l, imp[l])  PROVE DOMAIN x # {"image", "version"}
  BY <1>1, <1>2
<1>3. ASSUME NEW x, "layer" \in DOMAIN x  PROVE DOMAIN x # {"image", "version"}
  BY <1>3
<1> QED BY <1>2, <1>3 DEF MadeFor

\* Every token of a fresh image comes from the image at the bottom or was made
\* for a layer of the chain, and none occurs twice.
LEMMA FreshTokens ==
  ASSUME NoDests, def \in [Layers -> Versions], NEW n \in Layers
  PROVE  /\ \A x : In(x, Fresh[n]) => OfImage(x) \/ \E l \in Upto(n) : MadeFor(x, l)
         /\ \A x : In(x, Low(n)) => OfImage(x) \/ \E l \in Under(n) : MadeFor(x, l)
         /\ Distinct(Fresh[n])
<1> DEFINE From0(m, S) == \A x : In(x, Fresh[m]) => OfImage(x) \/ \E l \in S : MadeFor(x, l)
           Low0(m) == \A x : In(x, Low(m)) => OfImage(x) \/ \E l \in Under(m) : MadeFor(x, l)
           Good(m) == From0(m, Upto(m)) /\ Low0(m) /\ Distinct(Fresh[m])
           U == {m \in Layers : Good(m)}
<1>1. ASSUME NEW m \in Layers, From[m] # None => From[m] \in U  PROVE Good(m)
  <2> DEFINE low == Low(m)
             od == OdOf(m, imp[m])
             own == OwnOf(m, def[m], imp[m], Now(m), Low(m))
  <2>1. Fresh[m] = (low \o od) \o own /\ IsSeq(low) /\ IsSeq(od) /\ IsSeq(own) /\ IsSeq(low \o od)
    BY FreshIs, PartsAre DEF AllOf, OwnNow
  <2>2. Image[m][def[m]] # None => OfImage(Now(m))
    <3>1. SUFFICES ASSUME Source(m) # None  PROVE OfImage(Now(m))
      BY DEF Source
    <3>2. DOMAIN Now(m) = {"image", "version"}
      BY <3>1 DEF Now, Content
    <3> QED BY <3>1, <3>2 DEF OfImage
  <2>3. Image[m][def[m]] # None => From[m] = None
    BY BuildAssumption
  <2>4. Low0(m) /\ Distinct(low)
    <3>1. CASE From[m] # None
      <4>1. From[m] \in Under(m) /\ Upto(From[m]) \subseteq Under(m) /\ From[m] \in U
        BY <1>1, <3>1, Unders
      <4>2. low = Fresh[From[m]]
        BY <3>1, FreshIs
      <4> QED BY <4>1, <4>2
    <3>2. CASE From[m] = None /\ Image[m][def[m]] \in Tars \union {None}
      <4>1. low = <<>>
        BY <3>2 DEF Low, LowOf
      <4> QED BY <4>1, InNothing
    <3>3. CASE From[m] = None /\ Image[m][def[m]] \notin Tars \union {None}
      <4>1. low = <<Now(m)>>
        BY <3>3 DEF Low, LowOf
      <4>2. OfImage(Now(m))
        BY <2>2, <3>3
      <4> QED BY <4>1, <4>2, InNothing
    <3> QED BY <3>1, <3>2, <3>3
  <2>5. Distinct(od) /\ \A x : In(x, od) => x = OverlayDir(m, imp[m]) /\ ImportKind[m] = "overlay"
    BY InNothing DEF OdOf
  <2>6. /\ Distinct(own)
        /\ \A x : In(x, own) => \/ "layer" \in DOMAIN x /\ x.layer = m /\ "dest" \notin DOMAIN x
                                \/ OfImage(x) /\ low = <<>>
    <3>1. CASE def[m] \notin Idle
      <4> DEFINE token == TokenOf(m, def[m], imp[m], Now(m), Low(m))
      <4>1. own = <<token>>
        BY <3>1 DEF OwnOf
      <4>2. "layer" \in DOMAIN token /\ token.layer = m /\ "dest" \notin DOMAIN token
        BY DEF TokenOf
      <4> HIDE DEF token
      <4> QED BY <4>1, <4>2, InNothing
    <3>2. CASE def[m] \in Idle /\ Image[m][def[m]] \in Tars
      <4>1. own = <<Now(m)>>
        BY <3>2 DEF OwnOf, TarOf
      <4>2. OfImage(Now(m)) /\ From[m] = None
        BY <2>2, <2>3, <3>2, NoTar
      <4>3. low = <<>>
        BY <3>2, <4>2 DEF Low, LowOf
      <4> QED BY <4>1, <4>2, <4>3, InNothing
    <3>3. CASE def[m] \in Idle /\ Image[m][def[m]] \notin Tars
      <4>1. own = <<>>
        BY <3>3 DEF OwnOf, TarOf
      <4> QED BY <4>1, InNothing
    <3> QED BY <3>1, <3>2, <3>3
  <2> HIDE DEF low, od, own
  <2>7. m \notin Under(m)
    BY Unders
  <2>8. \A x : In(x, od) => MadeFor(x, m) /\ "dest" \in DOMAIN x /\ ~OfImage(x)
    BY <2>5, MadeApart, OverlayDirIs DEF MadeFor
  <2>9. \A x : In(x, low) => ~In(x, od)
    BY <2>4, <2>7, <2>8, MadeApart DEF low
  <2>10. Distinct(low \o od)
    BY <2>1, <2>4, <2>5, <2>9, DistinctConcat
  <2>11. ASSUME NEW x, In(x, low \o od), In(x, own)  PROVE FALSE
    <3>1. In(x, low) \/ In(x, od)
      BY <2>1, <2>11, InConcat
    <3>2. CASE "layer" \in DOMAIN x /\ x.layer = m /\ "dest" \notin DOMAIN x
      <4>1. MadeFor(x, m) /\ ~In(x, od)
        BY <2>8, <3>2 DEF MadeFor
      <4> QED BY <2>4, <2>7, <3>1, <4>1, MadeApart DEF low
    <3>3. CASE OfImage(x) /\ low = <<>>
      BY <2>8, <3>1, <3>3, InNothing
    <3> QED BY <2>6, <2>11, <3>2, <3>3
  <2>12. Distinct(Fresh[m])
    BY <2>1, <2>6, <2>10, <2>11, DistinctConcat
  <2>13. ASSUME NEW x, In(x, Fresh[m])  PROVE OfImage(x) \/ \E l \in Upto(m) : MadeFor(x, l)
    <3>1. In(x, low) \/ In(x, od) \/ In(x, own)
      BY <2>1, <2>13, InConcat
    <3>2. Under(m) \subseteq Upto(m) /\ m \in Upto(m)
      BY DEF Upto
    <3> QED BY <2>4, <2>6, <2>8, <3>1, <3>2 DEF MadeFor, low
  <2> QED BY <2>4, <2>12, <2>13
<1>2. Layers \subseteq U
  <2>1. \A m \in Layers : (From[m] # None => From[m] \in U) => m \in U
    BY <1>1
  <2> HIDE DEF U
  <2> QED BY <2>1, LayerInduction
<1> QED BY <1>2

-----------------------------------------------------------------------------
(* When a build gives what a build from nothing would *)

\* The stackerfiles for which it does: no import has a dest; no layer with an
\* overlay_dir is build-only or built on a build-only layer, nor is a build-only
\* layer; if a layer is built on a build-only layer, then all run sections write
\* something; two layers' images have one name in layer-bases only if they are
\* the same; a build-only layer with an image that is no tarball is not built
\* without the type of that image.  And nobody edits a file during a build.
Orderly ==
  /\ NoDests
  /\ \A n \in Layers : ImportKind[n] = "overlay" => n \notin BuildOnly /\ From[n] \notin BuildOnly
  /\ \A n \in BuildOnly : From[n] \notin BuildOnly
  /\ Idle = {} \/ \A n \in Layers : From[n] \notin BuildOnly
  /\ \A n, m \in Layers, v, w \in Versions :
       /\ n # m /\ Image[n][v] # None /\ Image[m][w] # None
       /\ TagOf[Image[n][v]] = TagOf[Image[m][w]]
       => Image[n][v] = Image[m][w]
  /\ \/ BuildOnly = {}
     \/ \A n \in Layers, v \in Versions : Image[n][v] \in Tars \union {None}
     \/ \A c \in TypeChoices : BaseType \in {c[i] : i \in 1..Len(c)}
  /\ "edit" \notin Faults

\* Nothing fails or is killed, and the layer types are always the same.
Quiet == Faults = {} /\ OneTypeSet

\* None is no error and no entry of the cache, and Empty is no content.
Marked ==
  /\ None # LookupError
  /\ \A r : DOMAIN r = {"manifests", "def", "imp", "base"} => r # None
  /\ \A r : DOMAIN r \in {{"image", "version"}, {"layer", "def", "view", "whole", "imp"}} => r # Empty

\* Every manifest there is lists s; no manifest stands for no layers.
Mounts(f, s) ==
  /\ \A t \in Types : f[t] # None => f[t] = s
  /\ (\A t \in Types : f[t] = None) => s = <<>>

NoDest(s) == \A x : In(x, s) => "dest" \notin DOMAIN x

\* Manifests of other types than those asked for are those of an image.
Others(f, T) == \A t \in Types \ T : f[t] # None => BuildOnly = {} /\ NoDest(f[t])

\* The image of n, and its overlay_dir, have their directories.
Imaged(n, d, c, hd) ==
  Image[n][d] \in Images \ Tars => DOMAIN c = {"image", "version"} /\ <<BaseType, c>> \in hd
Linked(r, n, v, T, hd) ==
  ImportKind[n] = "overlay" => r.odDir /\ \A t \in T : <<t, OverlayDir(n, v)>> \in hd

\* The directory r is one a build of n from d, v and c leaves: in any case, and
\* as to its content on top of low.  That of a build-only layer is packed when
\* an image is built on it.
Common(r, hd, T, n, d, v, c) ==
  /\ r # None /\ r.meta # None
  /\ \A t \in Types : r.meta.ods[t] = None
  /\ r.meta.built \in Seq(Under(n) \ BuildOnly)
  /\ Others(r.meta.manifests, T)
  /\ Imaged(n, d, c, hd) /\ Linked(r, n, v, T, hd)
Full(r, T, n, d, v, c, low) ==
  IF n \in BuildOnly
  THEN \/ /\ ~r.meta.hasOut /\ Held(r.upper) = OwnOf(n, d, v, c, low)
          /\ Mounts(r.meta.manifests, low)
       \/ /\ r.meta.hasOut /\ r.upper = Empty
          /\ \A t \in T : r.meta.manifests[t] = AllOf(n, d, v, c, low)
  ELSE ~r.meta.hasOut /\ r.upper = Empty /\ Mounts(r.meta.manifests, AllOf(n, d, v, c, low))

ImagesAre(f, T, s) == \A t \in T : f[t] # None /\ f[t].layers = s

\* The entry e of n stands for the layers s: e is a record of the inputs, the
\* base's entry among them.
Describes(n, e, s) ==
  \E D : /\ <<n, e, s>> \in D
         /\ \A m, f, r : <<m, f, r>> \in D =>
              \E below : /\ r = AllOf(m, f.def, f.imp, f.base, LowOf(m, f.def, f.base, below))
                         /\ From[m] # None => <<From[m], f.base, below>> \in D

LEMMA DescribesMore ==
  ASSUME NEW n, NEW e, NEW below, From[n] # None => Describes(From[n], e.base, below)
  PROVE  Describes(n, e, AllOf(n, e.def, e.imp, e.base, LowOf(n, e.def, e.base, below)))
<1> DEFINE s == AllOf(n, e.def, e.imp, e.base, LowOf(n, e.def, e.base, below))
           Rests(m, f, r, D) ==
             \E b : /\ r = AllOf(m, f.def, f.imp, f.base, LowOf(m, f.def, f.base, b))
                    /\ From[m] # None => <<From[m], f.base, b>> \in D
<1>1. \E D : /\ From[n] # None => <<From[n], e.base, below>> \in D
             /\ \A m, f, r : <<m, f, r>> \in D => Rests(m, f, r, D)
  <2>1. CASE From[n] = None
    <3> DEFINE D == {}
    <3>1. \A m, f, r : <<m, f, r>> \in D => Rests(m, f, r, D)
      OBVIOUS
    <3> HIDE DEF D, Rests
    <3> QED BY <2>1, <3>1
  <2>2. CASE From[n] # None
    BY <2>2 DEF Describes
  <2> QED BY Zenon, <2>1, <2>2
<1>2. PICK D : /\ From[n] # None => <<From[n], e.base, below>> \in D
               /\ \A m, f, r : <<m, f, r>> \in D => Rests(m, f, r, D)
  BY Zenon, <1>1
<1> DEFINE C == D \union {<<n, e, s>>}
<1>3. ASSUME NEW m, NEW f, NEW r, <<m, f, r>> \in C  PROVE Rests(m, f, r, C)
  <2>1. CASE <<m, f, r>> \in D
    <3>1. Rests(m, f, r, D)
      BY <1>2, <2>1
    <3> QED BY <3>1
  <2>2. CASE m = n /\ f = e /\ r = s
    BY <1>2, <2>2
  <2> QED BY <1>3, <2>1, <2>2
<1>4. <<n, e, s>> \in C
  OBVIOUS
<1> HIDE DEF C
<1>5. Describes(n, e, s)
  BY <1>3, <1>4 DEF Describes
<1> QED BY <1>5

LEMMA DescribesLess ==
  ASSUME NEW n, NEW e, NEW s, Describes(n, e, s)
  PROVE  \E below : /\ s = AllOf(n, e.def, e.imp, e.base, LowOf(n, e.def, e.base, below))
                    /\ From[n] # None => Describes(From[n], e.base, below)
<1>1. PICK D : /\ <<n, e, s>> \in D
               /\ \A m, f, r : <<m, f, r>> \in D =>
                    \E below : /\ r = AllOf(m, f.def, f.imp, f.base, LowOf(m, f.def, f.base, below))
                               /\ From[m] # None => <<From[m], f.base, below>> \in D
  BY Zenon DEF Describes
<1>2. PICK below : /\ s = AllOf(n, e.def, e.imp, e.base, LowOf(n, e.def, e.base, below))
                   /\ From[n] # None => <<From[n], e.base, below>> \in D
  BY Zenon, <1>1
<1>3. From[n] # None => Describes(From[n], e.base, below)
  BY <1>1, <1>2 DEF Describes
<1> QED BY <1>2, <1>3

\* An entry stands for one sequence of layers.
LEMMA DescribesOne ==
  ASSUME NEW n \in Layers, NEW e, NEW s, NEW r, Describes(n, e, s), Describes(n, e, r)
  PROVE  s = r
<1> DEFINE One(m) == \A f, p, q : Describes(m, f, p) /\ Describes(m, f, q) => p = q
           U == {m \in Layers : One(m)}
<1>1. ASSUME NEW m \in Layers, From[m] # None => From[m] \in U  PROVE m \in U
  <2>1. ASSUME NEW f, NEW p, NEW q, Describes(m, f, p), Describes(m, f, q)  PROVE p = q
    <3>1. PICK a : /\ p = AllOf(m, f.def, f.imp, f.base, LowOf(m, f.def, f.base, a))
                   /\ From[m] # None => Describes(From[m], f.base, a)
      BY <2>1, DescribesLess
    <3>2. PICK b : /\ q = AllOf(m, f.def, f.imp, f.base, LowOf(m, f.def, f.base, b))
                   /\ From[m] # None => Describes(From[m], f.base, b)
      BY <2>1, DescribesLess
    <3>3. LowOf(m, f.def, f.base, a) = LowOf(m, f.def, f.base, b)
      BY <1>1, <3>1, <3>2 DEF LowOf
    <3> QED BY <3>1, <3>2, <3>3
  <2> QED BY <2>1
<1>2. Layers \subseteq U
  <2> HIDE DEF U
  <2> QED BY <1>1, LayerInduction
<1>3. One(n)
  BY <1>2
<1> QED BY <1>3

\* The entry of n, if there is one, stands for what n's directory and its
\* cached images hold.
SoundEntry(n, e, r, hd, T) ==
  \E below :
    LET low == LowOf(n, e.def, e.base, below) IN
    /\ From[n] # None => Describes(From[n], e.base, below)
    /\ Common(r, hd, T, n, e.def, e.imp, e.base)
    /\ Full(r, T, n, e.def, e.imp, e.base, low)
    /\ n \notin BuildOnly => ImagesAre(e.manifests, T, AllOf(n, e.def, e.imp, e.base, low))
Sound(n) == cache[n] # None => SoundEntry(n, cache[n], roots[n], hashDirs, TypeSet)

\* layer-bases and the imports are up to date for n.
Based(n) == Source(n) # None => Cached(n) = Now(n)
Imported(n) == ImportKind[n] = "plain" => impDir[n] = imp[n]

\* n was built, or found in the cache, by this invocation.
MatchEntry(n, e, b) ==
  /\ e # None /\ e.def = def[n]
  /\ ImportKind[n] \in {"plain", "overlay"} => e.imp = imp[n]
  /\ e.base = IF From[n] # None THEN b ELSE Now(n)
  /\ n \notin BuildOnly => ImagesAre(e.manifests, TypeSet, Fresh[n])
  /\ Describes(n, e, Fresh[n])
CommonNow(n) == Common(roots[n], hashDirs, TypeSet, n, def[n], imp[n], Now(n))
FullNow(n) == Full(roots[n], TypeSet, n, def[n], imp[n], Now(n), Low(n))
Match(n) ==
  /\ MatchEntry(n, cache[n], cache[From[n]])
  /\ Based(n) /\ Imported(n) /\ CommonNow(n)
  /\ n \notin BuildOnly => ImagesAre(refs[n], TypeSet, Fresh[n])

\* The layers this invocation is through with.
Ready == IF pc = "gc" THEN Layers ELSE First(idx - 1)

\* The base's content was taken, and its metadata is yet to be written.
Spared(n) == pc = "builtMeta" /\ n = From[cur]
\* What the layer was is gone.
Remaking(n) == n = cur /\ pc \notin {"import", "getBase", "lookup", "delete"}

\* BuiltLayers of n: none but the last is build-only, and that is n's base.
Stack(built, n) ==
  /\ built \in Seq(Under(n))
  /\ \A i \in 1..Len(built) : built[i] \in BuildOnly => i = Len(built)
  /\ From[n] = None => built = <<>>
  /\ From[n] # None => built # <<>> /\ built[Len(built)] = From[n]

\* The metadata m mounts, with the content rest of the base, low.
Lies(m, rest, low, T, n) ==
  /\ Stack(m.built, n)
  /\ \A t \in Types : m.manifests[t] # None => m.manifests[t] \o rest = low
  /\ (\A t \in Types : m.manifests[t] = None) => rest = low
  /\ Others(m.manifests, T)
  /\ m.hasOut => From[n] \in BuildOnly
Rest == IF From[cur] \in BuildOnly THEN Held(roots[From[cur]].upper) ELSE <<>>
LiesNow == Lies(roots[cur].meta, Rest, Low(cur), TypeSet, cur)

NoOds(m) == \A t \in Types : m.ods[t] = None
OdsAre(m, T, n, v) ==
  \A t \in Types : m.ods[t] = IF ImportKind[n] = "overlay" /\ t \in T THEN <<OverlayDir(n, v)>> ELSE None

ImagedNow == Imaged(cur, def[cur], Now(cur), hashDirs)
LinkedNow == Linked(roots[cur], cur, imp[cur], TypeSet, hashDirs)
OdsNow == OdsAre(roots[cur].meta, TypeSet, cur, imp[cur])

\* The layer at hand, step by step.
Laid ==
  /\ LiesNow /\ ImagedNow /\ NoOds(roots[cur].meta)
  /\ Held(roots[cur].upper) = TarOf(cur, def[cur], Now(cur))
Mounted ==
  /\ LiesNow /\ ImagedNow /\ LinkedNow /\ OdsNow
  /\ Held(roots[cur].upper) = TarOf(cur, def[cur], Now(cur))
Ran ==
  /\ cur \notin BuildOnly
  /\ LiesNow /\ ImagedNow /\ LinkedNow /\ OdsNow
  /\ Held(roots[cur].upper) = OwnNow(cur)
StartNow == IF From[cur] \in BuildOnly THEN Low(From[cur]) ELSE Low(cur)
Packing ==
  LET m == roots[cur].meta IN
  /\ cur \notin BuildOnly
  /\ Stack(m.built, cur) /\ Others(m.manifests, TypeSet)
  /\ From[cur] \notin BuildOnly => Mounts(m.manifests, Low(cur)) /\ ~m.hasOut /\ ~mutated
  /\ ImagedNow /\ LinkedNow /\ OdsNow
  /\ Held(roots[cur].upper) = OwnNow(cur)
  /\ ImagesAre(refs[cur], TypeSet, StartNow)
Taking ==
  \A t \in TypeSet : mut[t] = (IF k <= Len(roots[cur].meta.built) THEN StartNow ELSE Low(cur))
                              \o OdOf(cur, imp[cur])
Took ==
  /\ k = Len(roots[cur].meta.built) /\ From[cur] \in BuildOnly
  /\ roots[From[cur]].upper = Empty
  /\ \A t \in TypeSet : mut[t] = Low(cur)
Packed ==
  /\ cur \notin BuildOnly
  /\ roots[cur].upper = Empty
  /\ ImagedNow /\ LinkedNow
  /\ \A t \in TypeSet : mut[t] = Fresh[cur]
Final ==
  /\ CommonNow(cur) /\ FullNow(cur)
  /\ cur \notin BuildOnly => ImagesAre(refs[cur], TypeSet, Fresh[cur])
Pipeline ==
  /\ pc \notin {"import", "gc"} => Imported(cur)
  /\ pc \notin {"import", "getBase", "gc"} => Based(cur)
  /\ pc = "create" => roots[cur] = None
  /\ pc = "metadata" => roots[cur].upper = Empty
  /\ pc = "overlayDirs" => Laid
  /\ pc = "run" => Mounted
  /\ pc = "initBases" => Ran
  /\ pc \in {"built", "builtMeta"} => Packing
  /\ pc = "built" => Taking
  /\ pc = "builtMeta" => Took
  /\ pc \in {"commit", "ownMeta"} => Packed
  /\ pc = "ownMeta" => ImagesAre(refs[cur], TypeSet, Fresh[cur])
  /\ pc \in {"config", "put"} => Final

Settled ==
  /\ \A n \in Ready : Match(n) /\ (FullNow(n) \/ Spared(n))
  /\ \A n \in Layers \ Ready : Sound(n) \/ Remaking(n)
Underway == Settled /\ Pipeline

Trusted == (cold /\ Intact) \/ Quiet

\* Only images are torn, and only by kills.
Parts ==
  /\ BasesFine
  /\ pc \in {"lookup", "delete", "create", "metadata"} => (Source(cur) # None => Cached(cur) # None)
  /\ \A x \in torn : DOMAIN x = {"image", "version"}
  /\ "kill" \notin Faults => torn = {}

LEMMA TrustedIntact == ASSUME Parts, Trusted  PROVE Intact
  BY DEF Parts, Trusted, Quiet, Intact

LEMMA IntactKept == ASSUME UNCHANGED <<userVars, torn>>  PROVE UNCHANGED Intact
  BY DEF userVars, Intact, Source

\* The inductive invariant.
Fresher ==
  /\ pc # "idle" => outcome = "running"
  /\ Trusted /\ pc # "idle" => Underway
  /\ Quiet /\ pc = "idle" => \A n \in Layers : Sound(n)
  /\ Quiet => outcome # "failed"
  /\ Trusted /\ outcome = "ok" =>
       \A n \in Layers \ BuildOnly : ImagesAre(refs[n], TypeSet, Fresh[n])

LEMMA FresherFresh ==
  ASSUME Orderly, Sane, Fresher
  PROVE  ColdBuildIsFresh /\ (Quiet => ImagesFresh /\ NoSpuriousFailure)
<1>1. ASSUME Trusted  PROVE ImagesFresh
  <2>1. SUFFICES ASSUME outcome = "ok", NEW n \in Layers \ BuildOnly, NEW t \in TypeSet
                 PROVE  refs[n][t] # None /\ Visible(refs[n][t].layers) = Fresh[n]
    BY DEF ImagesFresh
  <2>2. refs[n][t] # None /\ refs[n][t].layers = Fresh[n]
    BY <1>1, <2>1 DEF Fresher, ImagesAre
  <2>3. NoDests /\ def \in [Layers -> Versions]
    BY DEF Orderly, Sane, InputTypes
  <2>4. IsSeq(Fresh[n]) /\ Distinct(Fresh[n])
    BY <2>3, FreshIs, FreshTokens
  <2> QED BY <2>2, <2>4, AllVisible
<1> QED BY <1>1 DEF ColdBuildIsFresh, NoSpuriousFailure, Trusted, Fresher

-----------------------------------------------------------------------------
(* Facts for the steps *)

\* The layers under the one at hand are those before it.
LEMMA UnderFirst ==
  ASSUME Sane
  PROVE  /\ Under(cur) = First(idx - 1) /\ cur \notin First(idx - 1)
         /\ First(idx) = First(idx - 1) \union {cur} /\ cur \in Layers
         /\ First(idx - 1) \subseteq Layers
         /\ \A n \in First(idx - 1) : From[n] # None => From[n] \in First(idx - 1)
         /\ From[cur] # None => From[cur] \in First(idx - 1)
<1>1. idx \in 1..Len(Order) /\ Len(Order) \in Nat
  BY Ranked DEF Sane, RunTypes
<1> DEFINE q == idx - 1
<1>2. q \in Nat /\ q < Len(Order) /\ q + 1 = idx /\ q <= Len(Order)
  BY <1>1
<1>3. /\ First(q + 1) = First(q) \union {Order[q + 1]}
      /\ Order[q + 1] \in Layers /\ Order[q + 1] \notin First(q)
      /\ First(q) \subseteq Layers
      /\ \A n \in First(q) : From[n] # None => From[n] \in First(q)
      /\ From[Order[q + 1]] # None => From[Order[q + 1]] \in First(q)
  <2> HIDE DEF q
  <2> QED BY <1>2, Ranked
<1>4. cur = Order[q + 1]
  BY <1>2 DEF cur
<1>5. \A i, j \in 1..Len(Order) : i # j => Order[i] # Order[j]
  BY Zenon, BuildAssumption
<1>6. ASSUME NEW m \in Under(cur)  PROVE m \in First(q)
  <2>1. PICK i, j \in 1..Len(Order) : i < j /\ Order[i] = m /\ Order[j] = cur
    BY DEF Under, Before
  <2>2. j = idx
    BY <1>1, <1>5, <2>1 DEF cur
  <2>3. i \in 1..q
    BY <1>1, <2>1, <2>2
  <2> QED BY <2>1, <2>3 DEF First
<1>7. ASSUME NEW m \in First(q)  PROVE m \in Under(cur)
  <2>1. PICK i \in 1..q : Order[i] = m
    BY DEF First
  <2>2. i \in 1..Len(Order) /\ i < idx
    BY <1>1
  <2> QED BY <1>1, <1>3, <2>1, <2>2 DEF Under, Before, cur
<1> QED BY Zenon, <1>2, <1>3, <1>4, <1>6, <1>7

LEMMA TypesNeeded == ASSUME Sane  PROVE TypeSet # {} /\ TypeSet \subseteq Types
<1>1. types \in Seq(Types) /\ types # <<>>
  BY BuildAssumption DEF Sane, RunTypes
<1>2. 1 \in 1..Len(types)
  BY <1>1
<1> QED BY <1>2, TypeSetIs DEF TypeSet

LEMMA RootEq ==
  ASSUME NEW n \in Layers  PROVE Root[n] = IF From[n] = None THEN n ELSE Root[From[n]]
<1> DEFINE V == Layers \union {None}
           Step(m, b) == IF From[m] = None THEN m ELSE b
           s == [p \in Layers \X V |-> Step(p[1], p[2])]
           B(f, m) == IF From[m] = None THEN None ELSE f[From[m]]
<1>1. \A m \in Layers : From[m] \in V
  BY BuildAssumption
<1>2. \A m \in Layers, b \in V : s[<<m, b>>] = Step(m, b) /\ Step(m, b) \in V
  OBVIOUS
<1>3. PICK f : f = [m \in Layers |-> s[<<m, B(f, m)>>]]
  <2> HIDE DEF s
  <2> QED BY Chain
<1> HIDE DEF s
<1> DEFINE T == {m \in Layers : f[m] \in V}
<1>4. ASSUME NEW m \in Layers, From[m] # None => From[m] \in T  PROVE m \in T
  <2>1. B(f, m) \in V
    BY <1>4
  <2>2. f[m] \in V
    <3> HIDE DEF Step, B, V
    <3> QED BY Zenon, <1>2, <1>3, <2>1
  <2> QED BY <2>2
<1>5. Layers \subseteq T
  <2> HIDE DEF T
  <2> QED BY <1>4, LayerInduction
<1>6. \A m \in Layers : f[m] = Step(m, B(f, m))
  <2>1. \A m \in Layers : B(f, m) \in V
    BY <1>1, <1>5
  <2> HIDE DEF B, Step
  <2> QED BY Zenon, <1>2, <1>3, <2>1
<1>7. f = [m \in Layers |-> IF From[m] = None THEN m ELSE f[From[m]]]
  BY <1>3, <1>6
<1>8. Root = [m \in Layers |-> IF From[m] = None THEN m ELSE Root[From[m]]]
  BY Zenon, <1>7 DEF Root
<1> QED BY <1>8

\* No directory that n needs goes.
Holds(n, hd, hd2) ==
  /\ Grows(hd, hd2)
  /\ \A t, v : <<t, OverlayDir(n, v)>> \in hd => <<t, OverlayDir(n, v)>> \in hd2

LEMMA HoldsIf == ASSUME NEW n, NEW hd, NEW hd2, hd \subseteq hd2  PROVE Holds(n, hd, hd2)
  BY GrowsIf DEF Holds

LEMMA HoldsAll == ASSUME UNCHANGED hashDirs  PROVE \A n : Holds(n, hashDirs, hashDirs')
  BY HoldsIf

LEMMA CommonKept ==
  ASSUME NEW r, NEW hd, NEW hd2, NEW T, NEW n, NEW d, NEW v, NEW c,
         Holds(n, hd, hd2)
  PROVE  /\ Imaged(n, d, c, hd) => Imaged(n, d, c, hd2)
         /\ Linked(r, n, v, T, hd) => Linked(r, n, v, T, hd2)
         /\ Common(r, hd, T, n, d, v, c) => Common(r, hd2, T, n, d, v, c)
<1>1. Imaged(n, d, c, hd) => Imaged(n, d, c, hd2)
  <2>1. SUFFICES ASSUME DOMAIN c = {"image", "version"}, <<BaseType, c>> \in hd
                 PROVE  <<BaseType, c>> \in hd2
    BY DEF Imaged
  <2> QED BY <2>1 DEF Holds, Grows
<1>2. Linked(r, n, v, T, hd) => Linked(r, n, v, T, hd2)
  BY DEF Linked, Holds
<1> QED BY <1>1, <1>2 DEF Common

\* What a step leaves as it is for a layer.
LEMMA SoundSame ==
  ASSUME NEW n, UNCHANGED TypeSet, cache'[n] \in {None, cache[n]}, roots'[n] = roots[n],
         Holds(n, hashDirs, hashDirs'), Sound(n)
  PROVE  Sound(n)'
<1>1. SUFFICES ASSUME cache'[n] # None
               PROVE  SoundEntry(n, cache'[n], roots'[n], hashDirs', TypeSet')
  BY DEF Sound
<1>2. cache'[n] = cache[n] /\ SoundEntry(n, cache[n], roots[n], hashDirs, TypeSet)
  BY <1>1 DEF Sound
<1> DEFINE e == cache[n]
           r == roots[n]
           hd == hashDirs
           hd2 == hashDirs'
           T == TypeSet
<1>3. SoundEntry(n, e, r, hd, T) /\ Holds(n, hd, hd2)
  BY <1>2
<1> HIDE DEF e, r, hd, hd2, T
<1>4. SoundEntry(n, e, r, hd2, T)
  BY <1>3, CommonKept DEF SoundEntry
<1> QED BY <1>2, <1>4 DEF e, r, hd, hd2, T

LEMMA SoundKept ==
  ASSUME NEW n, UNCHANGED types, cache'[n] \in {None, cache[n]}, roots'[n] = roots[n],
         Holds(n, hashDirs, hashDirs'), Sound(n)
  PROVE  Sound(n)'
<1>1. UNCHANGED TypeSet
  BY DEF TypeSet
<1> QED BY <1>1, SoundSame

LEMMA FullKept ==
  ASSUME NEW n, UNCHANGED <<userVars, types>>, roots'[n] = roots[n], FullNow(n)
  PROVE  FullNow(n)'
<1>1. UNCHANGED <<TypeSet, def, imp>> /\ Now(n)' = Now(n) /\ Low(n)' = Low(n)
  BY FreshSteady DEF TypeSet, userVars
<1> QED BY <1>1 DEF FullNow

LEMMA MatchKept ==
  ASSUME NEW n, UNCHANGED <<userVars, types>>, cache'[n] = cache[n],
         From[n] # None => cache'[From[n]] = cache[From[n]],
         roots'[n] = roots[n], refs'[n] = refs[n], Holds(n, hashDirs, hashDirs'),
         Based(n) => Based(n)', Imported(n) => Imported(n)', Match(n)
  PROVE  Match(n)'
<1>1. UNCHANGED <<TypeSet, def, imp, Fresh>> /\ Now(n)' = Now(n) /\ Low(n)' = Low(n)
  BY FreshSteady DEF TypeSet, userVars
<1>2. CommonNow(n)'
  <2>1. Common(roots[n], hashDirs, TypeSet, n, def[n], imp[n], Now(n))
    BY DEF Match, CommonNow
  <2>2. Common(roots[n], hashDirs', TypeSet, n, def[n], imp[n], Now(n))
    BY <2>1, CommonKept
  <2> QED BY <1>1, <2>2 DEF CommonNow
<1>3. MatchEntry(n, cache[n], cache[From[n]])'
  BY <1>1 DEF Match, MatchEntry
<1> QED BY <1>1, <1>2, <1>3 DEF Match

Untouched(n) ==
  roots'[n] = roots[n] /\ refs'[n] = refs[n] /\ Holds(n, hashDirs, hashDirs')

\* Steps that go on with the layer at hand.
LEMMA Within ==
  ASSUME Sane, Settled,
         pc \notin {"idle", "gc", "builtMeta"}, pc' \notin {"idle", "gc", "builtMeta"},
         UNCHANGED <<userVars, cache, idx, types>>,
         \A n \in Layers : n # cur => Untouched(n),
         \A n \in Ready : (Based(n) => Based(n)') /\ (Imported(n) => Imported(n)'),
         \/ pc' \notin {"import", "getBase", "lookup", "delete"}
         \/ pc \in {"import", "getBase", "lookup"} /\ UNCHANGED <<roots, hashDirs>>
  PROVE  Settled' /\ UNCHANGED <<cur, TypeSet>>
<1>1. Ready = First(idx - 1) /\ Ready' = Ready /\ UNCHANGED <<cur, TypeSet>>
  BY DEF Ready, cur, TypeSet
<1>2. cur \notin Ready /\ Ready \subseteq Layers
  BY <1>1, UnderFirst
<1>3. ASSUME NEW n \in Ready  PROVE Match(n)' /\ FullNow(n)'
  <2>1. Match(n) /\ FullNow(n) /\ n # cur /\ n \in Layers
    BY <1>2 DEF Settled, Spared
  <2> QED BY <2>1, MatchKept, FullKept DEF Untouched
<1>4. ASSUME NEW n \in Layers \ Ready  PROVE Sound(n)' \/ Remaking(n)'
  <2>1. CASE n # cur
    <3>1. Sound(n)
      BY <2>1 DEF Settled, Remaking
    <3> QED BY <2>1, <3>1, SoundKept DEF Untouched
  <2>2. CASE n = cur /\ pc' \notin {"import", "getBase", "lookup", "delete"}
    BY <1>1, <2>2 DEF Remaking
  <2>3. CASE n = cur /\ pc \in {"import", "getBase", "lookup"} /\ UNCHANGED <<roots, hashDirs>>
    <3>1. Sound(n)
      BY <2>3 DEF Settled, Remaking
    <3> QED BY <2>3, <3>1, SoundKept, HoldsAll
  <2> QED BY <2>1, <2>2, <2>3
<1> QED BY <1>1, <1>3, <1>4 DEF Settled

\* Steps that go on to the next layer.
LEMMA Onward ==
  ASSUME Sane, Settled, pc \in {"lookup", "put"}, NextLayer,
         UNCHANGED <<userVars, copyVars, roots, hashDirs>>,
         \A n \in Layers : n # cur => refs'[n] = refs[n] /\ cache'[n] = cache[n],
         \A n \in Layers : n = cur => Match(n)' /\ FullNow(n)'
  PROVE  Underway'
<1>1. /\ Ready = First(idx - 1) /\ Ready' = Ready \union {cur}
      /\ pc' \in {"gc", "import"} /\ UNCHANGED types
  <2>1. First(idx) = First(idx - 1) \union {cur} /\ First(Len(Order)) = Layers
    BY UnderFirst, Ranked
  <2>2. idx \in 1..Len(Order)
    BY DEF Sane, RunTypes
  <2>3. (idx + 1) - 1 = idx
    BY <2>2
  <2> QED BY <2>1, <2>3 DEF Ready, NextLayer
<1>2. /\ cur \notin Ready /\ Ready \subseteq Layers /\ cur \in Layers
      /\ \A n \in Ready : From[n] # None => From[n] \in Ready
  BY <1>1, UnderFirst
<1>3. UNCHANGED <<def, imp, upstream, bases, impDir>>
  BY DEF userVars, copyVars
<1>4. ASSUME NEW n \in Ready  PROVE Match(n)' /\ FullNow(n)'
  <2>1. Match(n) /\ FullNow(n) /\ n # cur /\ n \in Layers /\ (From[n] # None => From[n] # cur /\ From[n] \in Layers)
    BY <1>2 DEF Settled, Spared
  <2>2. (Based(n) => Based(n)') /\ (Imported(n) => Imported(n)')
    BY <1>3, FreshSteady DEF Based, Imported, Source, Cached
  <2> QED BY <1>1, <2>1, <2>2, HoldsAll, MatchKept, FullKept
<1>5. ASSUME NEW n \in Layers, n \notin Ready, n # cur  PROVE Sound(n)'
  <2>1. Sound(n)
    BY <1>5 DEF Settled, Remaking
  <2> QED BY <1>1, <1>5, <2>1, HoldsAll, SoundKept
<1>6. Settled'
  BY <1>1, <1>2, <1>4, <1>5 DEF Settled
<1> QED BY <1>1, <1>6 DEF Underway, Pipeline

-----------------------------------------------------------------------------
(* The lookup *)

\* What getBaseHash gives for n: there is no base to miss.
LEMMA BaseHashIs ==
  ASSUME NoContent, Sane, NEW n \in Layers, Based(n), NEW b,
         From[n] # None => b \notin {None, LookupError}
  PROVE  LET h == IF From[n] # None THEN b ELSE OwnBase(n) IN
         /\ ~BaseMissing(n, h)
         /\ h = IF From[n] # None THEN b ELSE Now(n)
<1>1. CASE From[n] # None
  BY <1>1 DEF BaseMissing
<1>2. CASE From[n] = None /\ Source(n) = None
  BY <1>2 DEF BaseMissing, OwnBase, Now
<1>3. CASE From[n] = None /\ Source(n) # None
  <2>1. OwnBase(n) = Now(n)
    BY <1>3 DEF OwnBase, Based
  <2>2. DOMAIN Now(n) = {"image", "version"}
    BY <1>3 DEF Now, Content
  <2>3. Now(n) # None
    BY <2>2 DEF NoContent
  <2>4. Now(n) # LookupError
    <3>1. DOMAIN LookupError = {"error"}
      BY DEF LookupError
    <3>2. "image" \in DOMAIN Now(n) /\ "image" \notin DOMAIN LookupError
      BY <2>2, <3>1
    <3> QED BY <3>2
  <2> QED BY <1>3, <2>1, <2>3, <2>4 DEF BaseMissing
<1> QED BY <1>1, <1>2, <1>3

LEMMA EntryIs ==
  ASSUME Sane, NEW n \in Layers, cache[n] # None  PROVE cache[n] # LookupError
<1>1. DOMAIN cache[n] = {"manifests", "def", "imp", "base"}
  BY DEF Sane, CacheOK, IsEntry
<1>2. "base" \in DOMAIN cache[n] /\ "base" \notin DOMAIN LookupError
  BY <1>1 DEF LookupError
<1> QED BY <1>2

\* The layers this invocation is through with are found.
LEMMA ReadyFound ==
  ASSUME NoContent, Sane, Settled, pc \notin {"idle", "gc"}
  PROVE  \A n \in Ready : Lookup[n] = cache[n] /\ cache[n] \notin {None, LookupError}
<1>1. Ready = First(idx - 1) /\ Ready \subseteq Layers
  BY UnderFirst DEF Ready
<1>2. \A n \in Ready : From[n] # None => From[n] \in Ready
  BY <1>1, UnderFirst
<1>3. \A n \in Ready : cache[n] \notin {None, LookupError}
  BY <1>1, EntryIs DEF Settled, Match, MatchEntry
<1> DEFINE U == {m \in Layers : m \in Ready => Lookup[m] = cache[m]}
<1>4. ASSUME NEW m \in Layers, From[m] # None => From[m] \in U  PROVE m \in U
  <2>1. SUFFICES ASSUME m \in Ready  PROVE Lookup[m] = cache[m]
    OBVIOUS
  <2>2. Match(m) /\ MatchEntry(m, cache[m], cache[From[m]]) /\ Based(m) /\ Imported(m) /\ CommonNow(m)
    BY <2>1 DEF Settled, Match
  <2>3. From[m] # None => Lookup[From[m]] = cache[From[m]] /\ cache[From[m]] \notin {None, LookupError}
    BY <1>2, <1>3, <1>4, <2>1
  <2> DEFINE h == IF From[m] # None THEN Lookup[From[m]] ELSE OwnBase(m)
  <2>4. ~BaseMissing(m, h) /\ h = IF From[m] # None THEN cache[From[m]] ELSE Now(m)
    BY <2>2, <2>3, BaseHashIs
  <2>5. h = cache[m].base
    BY <2>2, <2>4 DEF MatchEntry
  <2>6. ~ImportsChanged(m, cache[m])
    BY <2>2 DEF ImportsChanged, MatchEntry, Imported, CommonNow, Common, Linked
  <2>7. cache[m] # None /\ cache[m].def = def[m]
    BY <2>2 DEF MatchEntry
  <2>8. Lookup[m] = LookupStep(m, Lookup[From[m]])
    BY LookupEq
  <2>9. LookupStep(m, Lookup[From[m]]) = cache[m]
    <3> HIDE DEF h
    <3>1. LookupStep(m, Lookup[From[m]]) =
            LET e == cache[m] IN
            CASE e = None -> None
              [] e # None /\ e.def # def[m] -> None
              [] OTHER ->
                   IF BaseMissing(m, h) THEN LookupError
                   ELSE IF h # e.base THEN None
                   ELSE IF ImportsChanged(m, e) THEN None
                   ELSE e
      BY DEF LookupStep, h
    <3> QED BY <2>4, <2>5, <2>6, <2>7, <3>1
  <2> QED BY <2>8, <2>9
<1>5. Layers \subseteq U
  <2> HIDE DEF U
  <2> QED BY <1>4, LayerInduction
<1> QED BY <1>1, <1>3, <1>5

\* The hash of the base of the layer at hand.
LEMMA CurBase ==
  ASSUME NoContent, Sane, Settled, pc \notin {"idle", "gc"}, Based(cur)
  PROVE  LET h == IF From[cur] # None THEN Lookup[From[cur]] ELSE OwnBase(cur) IN
         /\ ~BaseMissing(cur, h)
         /\ h = IF From[cur] # None THEN cache[From[cur]] ELSE Now(cur)
<1>1. From[cur] # None => From[cur] \in Ready
  BY UnderFirst DEF Ready
<1>2. From[cur] # None => Lookup[From[cur]] = cache[From[cur]] /\ cache[From[cur]] \notin {None, LookupError}
  BY <1>1, ReadyFound
<1> QED BY <1>2, CurIs, BaseHashIs

\* The lookup is no error, and an entry that it finds records the inputs.
LEMMA CurLookup ==
  ASSUME NoContent, Marked, Sane, Underway, pc = "lookup"
  PROVE  /\ Lookup[cur] # LookupError
         /\ Lookup[cur] # None =>
              /\ Lookup[cur] = cache[cur] /\ cache[cur].def = def[cur]
              /\ cache[cur].base = IF From[cur] # None THEN cache[From[cur]] ELSE Now(cur)
              /\ ImportKind[cur] \in {"plain", "overlay"} => cache[cur].imp = imp[cur]
<1> DEFINE h == IF From[cur] # None THEN Lookup[From[cur]] ELSE OwnBase(cur)
<1>1. Settled /\ Based(cur) /\ Imported(cur) /\ cur \in Layers
  BY CurIs DEF Underway, Pipeline
<1>2. ~BaseMissing(cur, h) /\ h = IF From[cur] # None THEN cache[From[cur]] ELSE Now(cur)
  BY <1>1, CurBase
<1>3. Lookup[cur] = LookupStep(cur, Lookup[From[cur]])
  BY <1>1, LookupEq
<1> HIDE DEF h
<1>4. LookupStep(cur, Lookup[From[cur]]) =
        LET e == cache[cur] IN
        CASE e = None -> None
          [] e # None /\ e.def # def[cur] -> None
          [] OTHER ->
               IF BaseMissing(cur, h) THEN LookupError
               ELSE IF h # e.base THEN None
               ELSE IF ImportsChanged(cur, e) THEN None
               ELSE e
  BY DEF LookupStep, h
<1>5. CASE cache[cur] = None \/ cache[cur].def # def[cur] \/ h # cache[cur].base \/ ImportsChanged(cur, cache[cur])
  <2>1. Lookup[cur] = None
    BY <1>2, <1>3, <1>4, <1>5
  <2> QED BY <2>1 DEF Marked
<1>6. CASE ~(cache[cur] = None \/ cache[cur].def # def[cur] \/ h # cache[cur].base \/ ImportsChanged(cur, cache[cur]))
  <2>1. Lookup[cur] = cache[cur] /\ cache[cur] # None /\ cache[cur].def = def[cur] /\ cache[cur].base = h
    BY <1>2, <1>3, <1>4, <1>6
  <2>2. ImportKind[cur] \in {"plain", "overlay"} => cache[cur].imp = imp[cur]
    BY <1>1, <1>6 DEF ImportsChanged, Imported
  <2> QED BY <1>1, <1>2, <2>1, <2>2, EntryIs
<1> QED BY <1>5, <1>6

\* An entry that is found stands for the layer as it would be built now.
LEMMA CurHit ==
  ASSUME Orderly, NoContent, Marked, Sane, Underway, pc = "lookup", NEW n \in Layers, n = cur,
         Lookup[n] # None
  PROVE  /\ Lookup[n] = cache[n] /\ MatchEntry(n, cache[n], cache[From[n]])
         /\ Based(n) /\ Imported(n) /\ CommonNow(n) /\ FullNow(n)
<1> DEFINE e == cache[n]
           T == TypeSet
<1>1. /\ Lookup[n] = e /\ e # None /\ e.def = def[n]
      /\ e.base = IF From[n] # None THEN cache[From[n]] ELSE Now(n)
      /\ ImportKind[n] \in {"plain", "overlay"} => e.imp = imp[n]
  BY CurLookup
<1>2. Settled /\ Based(n) /\ Imported(n) /\ n \notin Ready
  BY UnderFirst DEF Underway, Pipeline, Ready
<1>3. SoundEntry(n, e, roots[n], hashDirs, T)
  BY <1>1, <1>2 DEF Settled, Remaking, Sound
<1>4. PICK below :
        LET low == LowOf(n, e.def, e.base, below) IN
        /\ From[n] # None => Describes(From[n], e.base, below)
        /\ Common(roots[n], hashDirs, T, n, e.def, e.imp, e.base)
        /\ Full(roots[n], T, n, e.def, e.imp, e.base, low)
        /\ n \notin BuildOnly => ImagesAre(e.manifests, T, AllOf(n, e.def, e.imp, e.base, low))
  BY <1>3 DEF SoundEntry
<1>5. Image[n][def[n]] # None => e.base = Now(n)
  <2>1. def[n] \in Versions
    BY DEF Sane, InputTypes
  <2>2. Image[n][def[n]] # None => From[n] = None
    BY Zenon, <2>1, BuildAssumption
  <2> QED BY <1>1, <2>2
<1>6. From[n] # None => below = Fresh[From[n]] /\ Describes(From[n], e.base, Fresh[From[n]])
  <2>1. SUFFICES ASSUME From[n] # None
                 PROVE  below = Fresh[From[n]] /\ Describes(From[n], e.base, Fresh[From[n]])
    OBVIOUS
  <2>2. From[n] \in Ready /\ From[n] \in Layers
    BY <2>1, UnderFirst DEF Ready
  <2>3. Describes(From[n], cache[From[n]], Fresh[From[n]])
    BY <1>2, <2>2 DEF Settled, Match, MatchEntry
  <2> QED BY <1>1, <1>4, <2>1, <2>2, <2>3, DescribesOne
<1> HIDE DEF e, T
<1>7. LowOf(n, e.def, e.base, below) = Low(n)
  <2>1. LowOf(n, def[n], e.base, below) = LowOf(n, def[n], Now(n), below)
    BY <1>5 DEF LowOf
  <2>2. LowOf(n, def[n], Now(n), below) = LowOf(n, def[n], Now(n), Fresh[From[n]])
    BY <1>6 DEF LowOf
  <2> QED BY <1>1, <2>1, <2>2 DEF Low
<1>8. /\ OwnOf(n, e.def, e.imp, e.base, Low(n)) = OwnNow(n)
      /\ AllOf(n, e.def, e.imp, e.base, Low(n)) = Fresh[n]
  <2>1. Fresh[n] = AllOf(n, def[n], imp[n], Now(n), Low(n))
    BY FreshIs DEF Orderly
  <2> QED BY <1>1, <1>5, <2>1, PartsSame DEF OwnNow
<1>9. CommonNow(n)
  <2>1. Imaged(n, def[n], Now(n), hashDirs)
    BY Zenon, <1>1, <1>4, <1>5, NoTar DEF Common, Imaged
  <2>2. Linked(roots[n], n, imp[n], T, hashDirs)
    BY <1>1, <1>4 DEF Common, Linked
  <2> QED BY <1>4, <2>1, <2>2 DEF Common, CommonNow, T
<1>10. FullNow(n)
  <2>1. Full(roots[n], T, n, e.def, e.imp, e.base, Low(n))
    BY <1>4, <1>7
  <2>2. Fresh[n] = AllOf(n, def[n], imp[n], Now(n), Low(n))
    BY FreshIs DEF Orderly
  <2> QED BY <1>8, <2>1, <2>2 DEF Full, FullNow, OwnNow, T
<1>11. Describes(n, e, Fresh[n])
  BY <1>4, <1>7, <1>8, DescribesMore
<1>12. n \notin BuildOnly => ImagesAre(e.manifests, T, Fresh[n])
  BY <1>4, <1>7, <1>8
<1>13. MatchEntry(n, e, cache[From[n]])
  BY <1>1, <1>11, <1>12 DEF MatchEntry, T
<1> QED BY <1>1, <1>2, <1>9, <1>10, <1>13 DEF e

-----------------------------------------------------------------------------
(* The steps of a trusted build: the layer's inputs, and the cache *)

LEMMA ImportOn == ASSUME Sane, Underway, Import  PROVE Underway'
<1>1. /\ pc = "import" /\ pc' = "getBase" /\ UNCHANGED <<idx, types, cache, roots, hashDirs, refs, bases>>
      /\ UNCHANGED userVars /\ UNCHANGED <<def, imp, upstream>>
  BY DEF Import, Goto, runVars, dirVars, ociVars, userVars
<1>2. cur \in Layers /\ impDir \in [Layers -> Versions \union {None}]
  BY CurIs DEF Sane, InputTypes
<1>3. /\ ImportKind[cur] = "plain" => impDir'[cur] = imp[cur]
      /\ \A n \in Layers : n # cur => impDir'[n] = impDir[n]
  BY <1>2 DEF Import
<1>4. Ready \subseteq Layers /\ cur \notin Ready
  BY <1>1, UnderFirst DEF Ready
<1>5. \A n \in Ready : (Based(n) => Based(n)') /\ (Imported(n) => Imported(n)')
  <2>1. \A n : Now(n)' = Now(n)
    BY <1>1, FreshSteady
  <2> QED BY <1>1, <1>3, <1>4, <2>1 DEF Based, Imported, Source, Cached
<1>6. \A n \in Layers : n # cur => Untouched(n)
  BY <1>1, HoldsAll DEF Untouched
<1>7. Settled' /\ UNCHANGED <<cur, TypeSet>>
  BY <1>1, <1>5, <1>6, Within DEF Underway
<1>8. Imported(cur)'
  BY <1>1, <1>3, <1>7 DEF Imported
<1> QED BY <1>1, <1>7, <1>8 DEF Underway, Pipeline

LEMMA GetBaseOn == ASSUME Orderly, Sane, Underway, GetBase  PROVE Underway'
<1>1. /\ pc = "getBase" /\ pc' = "lookup" /\ UNCHANGED <<idx, types, cache, roots, hashDirs, refs, impDir>>
      /\ UNCHANGED userVars /\ UNCHANGED <<def, imp, upstream>>
  BY DEF GetBase, Goto, runVars, dirVars, ociVars, userVars
<1>2. cur \in Layers /\ DOMAIN bases = Tags
  BY CurIs DEF Sane, InputTypes
<1>3. \A n \in Layers : Source(n) # None => TagOf[Source(n)] \in Tags
  BY SourceIs DEF Tags
<1>4. Ready \subseteq Layers /\ cur \notin Ready
  BY <1>1, UnderFirst DEF Ready
<1>5. \A n : Now(n)' = Now(n) /\ Source(n)' = Source(n)
  BY <1>1, FreshSteady DEF Source
<1>6. Source(cur) # None => bases'[TagOf[Source(cur)]] = Now(cur)
  BY <1>2, <1>3 DEF GetBase, Now
<1>7. ASSUME NEW n \in Ready, Based(n)  PROVE Based(n)'
  <2>1. SUFFICES ASSUME Source(n) # None  PROVE bases'[TagOf[Source(n)]] = Now(n)
    BY <1>5 DEF Based, Cached
  <2>2. CASE Source(cur) # None /\ TagOf[Source(cur)] = TagOf[Source(n)]
    <3>1. n # cur /\ n \in Layers /\ def[n] \in Versions /\ def[cur] \in Versions
      BY <1>2, <1>4 DEF Sane, InputTypes
    <3>2. Source(n) = Source(cur)
      BY <1>2, <2>1, <2>2, <3>1 DEF Orderly, Source
    <3>3. Now(n) = Now(cur)
      BY <3>2 DEF Now
    <3> QED BY <1>6, <2>2, <3>3
  <2>3. CASE ~(Source(cur) # None /\ TagOf[Source(cur)] = TagOf[Source(n)])
    <3>1. bases'[TagOf[Source(n)]] = bases[TagOf[Source(n)]]
      BY <2>3 DEF GetBase
    <3> QED BY <1>7, <2>1, <3>1 DEF Based, Cached
  <2> QED BY <2>2, <2>3
<1>8. \A n \in Ready : (Based(n) => Based(n)') /\ (Imported(n) => Imported(n)')
  BY <1>1, <1>7 DEF Imported
<1>9. \A n \in Layers : n # cur => Untouched(n)
  BY <1>1, HoldsAll DEF Untouched
<1>10. Settled' /\ UNCHANGED <<cur, TypeSet>>
  BY <1>1, <1>8, <1>9, Within DEF Underway
<1>11. Imported(cur)'
  BY <1>1, <1>10 DEF Imported, Underway, Pipeline
<1>12. Based(cur)'
  BY <1>5, <1>6, <1>10 DEF Based, Cached, Source, Now
<1> QED BY <1>1, <1>10, <1>11, <1>12 DEF Underway, Pipeline

LEMMA CacheLookupOn ==
  ASSUME Orderly, NoContent, Marked, Sane, Underway, CacheLookup  PROVE Underway' /\ ~Fail
<1> DEFINE e == Lookup[cur]
           hit == e # None /\ e # LookupError /\ cur \notin Binds
           found == {t \in TypeSet : e.manifests[t] # None}
<1>1. /\ pc = "lookup" /\ UNCHANGED <<userVars, copyVars, cache, roots, hashDirs>>
      /\ UNCHANGED <<def, imp, upstream, impDir, bases>>
  BY DEF CacheLookup, dirVars, userVars, copyVars
<1>2. cur \in Layers /\ DOMAIN refs = Layers /\ e # LookupError /\ Settled
  BY <1>1, CurIs, CurLookup DEF Sane, RefsOK, Underway
<1>3. /\ \/ e = LookupError /\ Fail /\ UNCHANGED refs
         \/ hit /\ cur \in BuildOnly /\ NextLayer /\ UNCHANGED refs
         \/ /\ hit /\ cur \notin BuildOnly
            /\ refs' = [refs EXCEPT ![cur] = [t \in Types |->
                          IF t \in found THEN e.manifests[t] ELSE @[t]]]
            /\ IF found = TypeSet THEN NextLayer ELSE Goto("delete") /\ UNCHANGED runVars
         \/ e # LookupError /\ ~hit /\ Goto("delete") /\ UNCHANGED <<refs, runVars>>
  BY DEF CacheLookup
<1>4. CASE hit
  <2>1. ASSUME NEW n \in Layers, n = cur
        PROVE  /\ e = cache[n] /\ MatchEntry(n, cache[n], cache[From[n]])
               /\ Based(n) /\ Imported(n) /\ CommonNow(n) /\ FullNow(n)
    BY <1>1, <1>4, <2>1, CurHit
  <2>2. cur \notin BuildOnly => found = TypeSet /\ ImagesAre(e.manifests, TypeSet, Fresh[cur])
    BY <1>2, <2>1 DEF MatchEntry, ImagesAre
  <2>3. NextLayer /\ types' = types
    BY <1>2, <1>3, <1>4, <2>2 DEF NextLayer
  <2>4. /\ \A n \in Layers : n # cur => refs'[n] = refs[n]
        /\ cur \notin BuildOnly => ImagesAre(refs'[cur], TypeSet, Fresh[cur])
    <3>1. CASE cur \in BuildOnly
      BY <1>2, <1>3, <1>4, <3>1
    <3>2. CASE cur \notin BuildOnly
      <4>1. refs' = [refs EXCEPT ![cur] = [t \in Types |-> IF t \in found THEN e.manifests[t] ELSE @[t]]]
        BY <1>2, <1>3, <1>4, <3>2
      <4>2. \A t \in TypeSet : refs'[cur][t] = e.manifests[t]
        <5>1. refs'[cur] = [t \in Types |-> IF t \in found THEN e.manifests[t] ELSE refs[cur][t]]
          BY <1>2, <4>1
        <5> HIDE DEF found, e
        <5> QED BY <2>2, <3>2, <5>1, TypeSetIs
      <4>3. \A n \in Layers : n # cur => refs'[n] = refs[n]
        BY <1>2, <4>1
      <4> HIDE DEF found, e
      <4> QED BY <2>2, <3>2, <4>2, <4>3 DEF ImagesAre
    <3> QED BY <3>1, <3>2
  <2>5. ASSUME NEW n \in Layers, n = cur  PROVE Match(n)' /\ FullNow(n)'
    <3>1. /\ UNCHANGED <<TypeSet, Fresh>> /\ Now(n)' = Now(n) /\ Low(n)' = Low(n)
      BY <1>1, <2>3, FreshSteady DEF TypeSet
    <3>2. MatchEntry(n, cache[n], cache[From[n]])' /\ Based(n)' /\ Imported(n)' /\ CommonNow(n)' /\ FullNow(n)'
      BY <1>1, <2>1, <2>5, <3>1 DEF MatchEntry, Based, Imported, CommonNow, FullNow, Source, Cached
    <3>3. n \notin BuildOnly => ImagesAre(refs[n], TypeSet, Fresh[n])'
      BY <2>4, <2>5, <3>1
    <3> QED BY <3>2, <3>3 DEF Match
  <2>6. Underway'
    BY <1>1, <1>2, <2>3, <2>4, <2>5, Onward
  <2>7. ~Fail
    BY <2>3 DEF NextLayer, Fail
  <2> QED BY <2>6, <2>7
<1>5. CASE ~hit
  <2>1. pc' = "delete" /\ UNCHANGED <<refs, idx, types, outcome>>
    BY <1>2, <1>3, <1>5 DEF Goto, runVars
  <2>2. \A n \in Layers : n # cur => Untouched(n)
    BY <1>1, <2>1, HoldsAll DEF Untouched
  <2>3. \A n : (Based(n) => Based(n)') /\ (Imported(n) => Imported(n)')
    BY <1>1, FreshSteady DEF Based, Imported, Source, Cached
  <2>4. Settled' /\ UNCHANGED <<cur, TypeSet>>
    BY <1>1, <1>2, <2>1, <2>2, <2>3, Within
  <2>5. Imported(cur)' /\ Based(cur)'
    BY <1>1, <2>4, FreshSteady DEF Underway, Pipeline, Imported, Based, Source, Cached, Now
  <2> QED BY <2>1, <2>4, <2>5 DEF Underway, Pipeline, Fail
<1> QED BY <1>4, <1>5

\* Entries and directories that the step leaves, and the layer's inputs.
LEMMA Goes ==
  ASSUME Sane, Underway,
         pc \notin {"idle", "import", "getBase", "gc", "builtMeta"},
         pc' \notin {"idle", "import", "getBase", "lookup", "delete", "gc", "builtMeta"},
         UNCHANGED <<userVars, copyVars, cache, idx, types>>,
         \A n \in Layers : n # cur => Untouched(n)
  PROVE  /\ Settled' /\ Imported(cur)' /\ Based(cur)'
         /\ UNCHANGED <<cur, TypeSet, Fresh, def, imp, Now(cur), Low(cur), OwnNow(cur)>>
<1>1. \A n : (Based(n) => Based(n)') /\ (Imported(n) => Imported(n)')
  BY FreshSteady DEF Based, Imported, Source, Cached, userVars, copyVars
<1>2. Settled' /\ UNCHANGED <<cur, TypeSet>>
  BY <1>1, Within DEF Underway
<1>3. UNCHANGED <<Fresh, def, imp, upstream, impDir, bases>>
  BY FreshSteady DEF userVars, copyVars
<1>4. Imported(cur) /\ Based(cur)
  BY DEF Underway, Pipeline
<1>5. UNCHANGED <<Now(cur), Low(cur), OwnNow(cur)>>
  BY <1>2, <1>3 DEF Now, Low, OwnNow, Source
<1>6. Imported(cur)' /\ Based(cur)'
  BY <1>2, <1>3, <1>4, <1>5 DEF Imported, Based, Source, Cached
<1> QED BY <1>2, <1>3, <1>5, <1>6

LEMMA PutOn ==
  ASSUME Orderly, NoContent, Marked, Sane, Underway, Put  PROVE Underway' /\ ~Fail
<1> DEFINE h == IF From[cur] # None THEN Lookup[From[cur]] ELSE OwnBase(cur)
           manifests == [t \in Types |->
                  IF cur \in BuildOnly
                  THEN IF t = types[1] THEN Bogus ELSE None
                  ELSE IF t \in TypeSet THEN refs[cur][t] ELSE None]
           imported == CASE ImportKind[cur] = "plain" -> impDir[cur]
                         [] ImportKind[cur] = "overlay" -> imp[cur]
                         [] OTHER -> None
           e == [manifests |-> manifests, def |-> def[cur], imp |-> imported, base |-> h]
<1>1. /\ pc = "put" /\ UNCHANGED <<userVars, copyVars, roots, hashDirs, refs>>
      /\ UNCHANGED <<def, imp, upstream, impDir, bases>>
  BY DEF Put, dirVars, userVars, copyVars, ociVars
<1>2. Settled /\ Final /\ Based(cur) /\ Imported(cur) /\ cur \in Layers
  BY <1>1, CurIs DEF Underway, Pipeline
<1>3. ~BaseMissing(cur, h) /\ h = IF From[cur] # None THEN cache[From[cur]] ELSE Now(cur)
  BY <1>1, <1>2, CurBase
<1>4. NextLayer /\ cache' = [cache EXCEPT ![cur] = e] /\ types' = types
  BY <1>3 DEF Put, NextLayer
<1>5. /\ e.manifests = manifests /\ e.def = def[cur] /\ e.imp = imported /\ e.base = h /\ e # None
  <2> HIDE DEF manifests, imported, h
  <2>1. e.manifests = manifests /\ e.def = def[cur] /\ e.imp = imported /\ e.base = h
        /\ DOMAIN e = {"manifests", "def", "imp", "base"}
    OBVIOUS
  <2> HIDE DEF e
  <2> QED BY <2>1 DEF Marked
<1>6. ImportKind[cur] \in {"plain", "overlay"} => imported = imp[cur]
  BY <1>2 DEF Imported
<1>7. cur \notin BuildOnly => ImagesAre(manifests, TypeSet, Fresh[cur])
  BY <1>2, TypeSetIs DEF Final, ImagesAre
<1> HIDE DEF manifests, imported, h, e
<1>8. cache'[cur] = e /\ \A n \in Layers : n # cur => cache'[n] = cache[n]
  BY <1>2, <1>4 DEF Sane, CacheOK
<1>9. ASSUME NEW n \in Layers, n = cur  PROVE Describes(n, e, Fresh[n])
  <2> DEFINE below == Fresh[From[n]]
  <2>1. From[n] # None => Describes(From[n], e.base, below)
    <3>1. SUFFICES ASSUME From[n] # None  PROVE Describes(From[n], cache[From[n]], below)
      BY <1>3, <1>5, <1>9
    <3>2. From[n] \in Ready
      BY <1>1, <1>9, <3>1, UnderFirst DEF Ready
    <3> QED BY <1>2, <3>2 DEF Settled, Match, MatchEntry
  <2>2. Image[n][def[n]] # None => e.base = Now(n)
    <3>1. def[n] \in Versions
      BY DEF Sane, InputTypes
    <3>2. Image[n][def[n]] # None => From[n] = None
      BY Zenon, <3>1, BuildAssumption
    <3> QED BY <1>3, <1>5, <1>9, <3>2
  <2>3. LowOf(n, e.def, e.base, below) = Low(n)
    BY <1>5, <1>9, <2>2 DEF Low, LowOf
  <2>4. AllOf(n, e.def, e.imp, e.base, Low(n)) = Fresh[n]
    <3>1. Fresh[n] = AllOf(n, def[n], imp[n], Now(n), Low(n))
      BY FreshIs DEF Orderly
    <3>2. AllOf(n, def[n], imp[n], Now(n), Low(n)) = AllOf(n, def[n], e.imp, e.base, Low(n))
      <4>1. ImportKind[n] \in {"plain", "overlay"} => imp[n] = e.imp
        BY <1>5, <1>6, <1>9
      <4>2. Image[n][def[n]] # None => Now(n) = e.base
        BY <2>2
      <4> QED BY <4>1, <4>2, PartsSame
    <3> QED BY <1>5, <1>9, <3>1, <3>2
  <2> HIDE DEF below
  <2>5. Describes(n, e, AllOf(n, e.def, e.imp, e.base, LowOf(n, e.def, e.base, below)))
    BY <2>1, DescribesMore
  <2> QED BY <2>3, <2>4, <2>5
<1>10. ASSUME NEW n \in Layers, n = cur  PROVE Match(n)' /\ FullNow(n)'
  <2>1. UNCHANGED <<TypeSet, Fresh>> /\ Now(n)' = Now(n) /\ Low(n)' = Low(n)
    BY <1>1, <1>4, FreshSteady DEF TypeSet
  <2>2. From[n] # None => cache'[From[n]] = cache[From[n]]
    <3>1. From[n] # None => From[n] \in Layers /\ From[n] # cur
      BY <1>10, UnderFirst
    <3> QED BY <1>8, <3>1
  <2>3. MatchEntry(n, e, cache[From[n]])
    BY <1>3, <1>5, <1>6, <1>7, <1>9, <1>10 DEF MatchEntry
  <2>4. MatchEntry(n, cache[n], cache[From[n]])'
    BY <1>1, <1>8, <1>10, <2>1, <2>2, <2>3 DEF MatchEntry
  <2>5. Based(n)' /\ Imported(n)' /\ CommonNow(n)' /\ FullNow(n)'
    BY <1>1, <1>2, <1>10, <2>1 DEF Based, Imported, CommonNow, FullNow, Source, Cached, Final
  <2>6. n \notin BuildOnly => ImagesAre(refs[n], TypeSet, Fresh[n])'
    BY <1>1, <1>2, <1>10, <2>1 DEF Final
  <2> QED BY <2>4, <2>5, <2>6 DEF Match
<1>11. Underway'
  BY <1>1, <1>2, <1>4, <1>8, <1>10, Onward
<1>12. ~Fail
  BY <1>4 DEF NextLayer, Fail
<1> QED BY <1>11, <1>12

-----------------------------------------------------------------------------
(* The root filesystem *)

LEMMA DeleteOn == ASSUME Sane, Underway, Delete  PROVE Underway'
<1>1. /\ pc = "delete" /\ pc' = "create"
      /\ UNCHANGED <<userVars, copyVars, cache, links, refs, idx, types>>
      /\ roots' = [roots EXCEPT ![cur] = None]
      /\ hashDirs' = {x \in hashDirs : x[2] \notin OverlayDirs(cur)}
  BY DEF Delete, Goto, runVars, ociVars
<1>2. cur \in Layers /\ DOMAIN roots = Layers
  BY CurIs DEF Sane, RootsOK
<1>3. ASSUME NEW n \in Layers, n # cur  PROVE Untouched(n)
  <2>1. \A v : OverlayDir(n, v) \notin OverlayDirs(cur)
    BY Zenon, <1>3 DEF OverlayDir, OverlayDirs
  <2>2. \A t, x : "dest" \notin DOMAIN x => x \notin OverlayDirs(cur)
    BY OverlayDirIs
  <2>3. Holds(n, hashDirs, hashDirs')
    BY <1>1, <2>1, <2>2 DEF Holds, Grows
  <2> QED BY <1>1, <1>2, <1>3, <2>3 DEF Untouched
<1>4. /\ Settled' /\ Imported(cur)' /\ Based(cur)' /\ UNCHANGED cur
  BY <1>1, <1>3, Goes
<1>5. roots'[cur] = None
  BY <1>1, <1>2
<1> QED BY <1>1, <1>4, <1>5 DEF Underway, Pipeline

LEMMA CreateOn == ASSUME Sane, Underway, Create  PROVE Underway'
<1>1. /\ pc = "create" /\ pc' = "metadata"
      /\ UNCHANGED <<userVars, copyVars, cache, hashDirs, refs, idx, types>>
      /\ roots' = [roots EXCEPT ![cur] =
           IF @ = None THEN [upper |-> Empty, meta |-> None, odDir |-> FALSE] ELSE @]
  BY DEF Create, Goto, runVars, ociVars, dirVars
<1>2. cur \in Layers /\ DOMAIN roots = Layers /\ roots[cur] = None
  BY <1>1, CurIs DEF Sane, RootsOK, Underway, Pipeline
<1>3. \A n \in Layers : n # cur => Untouched(n)
  BY <1>1, <1>2, HoldsAll DEF Untouched
<1>4. /\ Settled' /\ Imported(cur)' /\ Based(cur)' /\ UNCHANGED cur
  BY <1>1, <1>3, Goes
<1>5. roots'[cur].upper = Empty
  BY <1>1, <1>2
<1> QED BY <1>1, <1>4, <1>5 DEF Underway, Pipeline

\* What the iterations over the manifests and the overlay_dirs may stop at.
Stops(f) ==
  LET have == {t \in Types : f[t] # None} IN
  IF have = {} THEN {<<>>}
  ELSE {[i \in 1..Len(f[t]) |-> <<t, f[t][i]>>] : t \in have}

LEMMA SomeIs ==
  ASSUME NEW f, NEW m, m \in Stops(f), \A t \in Types : f[t] # None => IsSeq(f[t])
  PROVE  \/ m = <<>> /\ \A t \in Types : f[t] = None
         \/ \E t \in Types : /\ f[t] # None /\ Len(m) = Len(f[t]) /\ IsSeq(m)
                             /\ \A i \in 1..Len(m) : m[i] = <<t, f[t][i]>>
<1>1. CASE \A t \in Types : f[t] = None
  BY <1>1 DEF Stops
<1>2. CASE ~(\A t \in Types : f[t] = None)
  <2>1. PICK t \in Types : f[t] # None /\ m = [i \in 1..Len(f[t]) |-> <<t, f[t][i]>>]
    BY <1>2 DEF Stops
  <2> DEFINE s == f[t]
             N == Len(s)
             g == [i \in 1..N |-> <<t, s[i]>>]
  <2>2. N \in Nat
    BY <2>1 DEF IsSeq
  <2> HIDE DEF N, s
  <2> DEFINE S == {<<t, s[i]>> : i \in 1..N}
  <2>3. g \in [1..N -> S]
    OBVIOUS
  <2>4. g \in Seq(S) /\ Len(g) = N
    <3> HIDE DEF S, g
    <3> QED BY <2>2, <2>3
  <2>5. IsSeq(g) /\ Len(g) = N /\ \A i \in 1..N : g[i] = <<t, s[i]>>
    BY Zenon, <2>4 DEF IsSeq
  <2>6. m = g
    BY <2>1 DEF s, N
  <2> HIDE DEF g
  <2>7. f[t] # None /\ Len(m) = Len(f[t]) /\ IsSeq(m) /\ \A i \in 1..Len(m) : m[i] = <<t, f[t][i]>>
    BY Zenon, <2>1, <2>5, <2>6 DEF s, N
  <2> QED BY <2>7
<1> QED BY <1>1, <1>2

LEMMA UnpackedSeq == ASSUME NEW s, NEW t, NEW hd, Unpacked(s, t, hd)  PROVE IsSeq(s)
  BY DEF Unpacked, IsSeq

\* Layers made for what the layer at hand is built on have their directories.
LEMMA TokensThere ==
  ASSUME Sane, Settled, pc \notin {"idle", "gc"}, NEW t \in Types, NEW s, Unpacked(s, t, hashDirs),
         t \in TypeSet \/ NoDest(s),
         \A x : In(x, s) => OfImage(x) \/ \E l \in Under(cur) : MadeFor(x, l)
  PROVE  \A i \in 1..Len(s) : <<t, s[i]>> \in hashDirs
<1> SUFFICES ASSUME NEW i \in 1..Len(s)  PROVE <<t, s[i]>> \in hashDirs
  OBVIOUS
<1> DEFINE x == s[i]
<1>1. In(x, s)
  BY DEF In
<1>2. CASE "dest" \notin DOMAIN x
  BY Zenon, <1>2, UnpackedAt
<1>3. CASE "dest" \in DOMAIN x
  <2>1. t \in TypeSet
    BY <1>1, <1>3 DEF NoDest
  <2>2. ~OfImage(x)
    BY <1>3 DEF OfImage
  <2>3. PICK l \in Under(cur) : MadeFor(x, l)
    BY <1>1, <2>2
  <2>4. x = OverlayDir(l, imp[l]) /\ ImportKind[l] = "overlay"
    BY <1>3, <2>3 DEF MadeFor
  <2>5. CommonNow(l)
    <3>1. l \in Ready
      BY UnderFirst DEF Ready
    <3> QED BY <3>1 DEF Settled, Match
  <2>6. Linked(roots[l], l, imp[l], TypeSet, hashDirs)
    BY <2>5 DEF CommonNow, Common
  <2> QED BY <2>1, <2>4, <2>6 DEF Linked
<1> QED BY <1>2, <1>3

\* The metadata of the base mounts what is below the layer at hand.
LEMMA BaseLies ==
  ASSUME Orderly, NoContent, Sane, Settled, pc \notin {"idle", "gc", "builtMeta"},
         NEW b, b = From[cur], b # None
  PROVE  /\ roots[b] # None /\ roots[b].meta # None /\ b \in Layers /\ b # cur
         /\ \A t \in Types : roots[b].meta.ods[t] = None
         /\ Others(roots[b].meta.manifests, TypeSet)
         /\ roots[b].meta.hasOut => b \in BuildOnly
         /\ roots[b].meta.built \in Seq(Under(b) \ BuildOnly)
         /\ \A t \in Types : roots[b].meta.manifests[t] # None =>
              /\ IsSeq(roots[b].meta.manifests[t])
              /\ roots[b].meta.manifests[t] \o Rest = Low(cur)
         /\ (\A t \in Types : roots[b].meta.manifests[t] = None) => Rest = Low(cur)
<1> DEFINE f == roots[b].meta.manifests
<1>1. b \in Ready /\ b \in Layers /\ b # cur /\ cur \in Layers
  BY UnderFirst DEF Ready
<1>2. CommonNow(b) /\ FullNow(b)
  BY <1>1 DEF Settled, Spared, Match
<1>3. /\ roots[b] # None /\ roots[b].meta # None
      /\ \A t \in Types : roots[b].meta.ods[t] = None
      /\ Others(f, TypeSet) /\ roots[b].meta.built \in Seq(Under(b) \ BuildOnly)
  BY <1>2 DEF CommonNow, Common
<1>4. IsMeta(roots[b].meta, hashDirs)
  BY <1>1, <1>3 DEF Sane, RootsOK, IsDir
<1>5. \A t \in Types : f[t] # None => IsSeq(f[t])
  BY <1>4, UnpackedSeq DEF IsMeta
<1> DEFINE own == OwnOf(b, def[b], imp[b], Now(b), Low(b))
           all == AllOf(b, def[b], imp[b], Now(b), Low(b))
<1>6. /\ Fresh[b] = all /\ IsSeq(Fresh[b]) /\ IsSeq(Low(b)) /\ IsSeq(own) /\ Low(cur) = Fresh[b]
  BY <1>1, FreshIs DEF Orderly, OwnNow
<1>7. CASE b \notin BuildOnly
  <2>1. ~roots[b].meta.hasOut /\ Mounts(f, all) /\ Rest = <<>>
    BY <1>2, <1>7 DEF FullNow, Full, Rest
  <2>2. \A t \in Types : f[t] # None => f[t] \o Rest = Low(cur)
    BY <1>5, <1>6, <2>1, ConcatNothing DEF Mounts
  <2>3. (\A t \in Types : f[t] = None) => Rest = Low(cur)
    BY <1>6, <2>1 DEF Mounts
  <2> QED BY <1>1, <1>3, <1>5, <2>1, <2>2, <2>3
<1>8. CASE b \in BuildOnly /\ ~roots[b].meta.hasOut
  <2>1. Mounts(f, Low(b)) /\ Rest = own
    BY <1>2, <1>8 DEF FullNow, Full, Rest
  <2>2. Low(b) \o own = Fresh[b]
    <3>1. OdOf(b, imp[b]) = <<>>
      BY <1>1, <1>8 DEF OdOf, Orderly
    <3>2. Low(b) \o <<>> = Low(b)
      BY <1>6, ConcatNothing
    <3> QED BY <1>6, <3>1, <3>2 DEF AllOf
  <2> HIDE DEF own
  <2>3. \A t \in Types : f[t] # None => f[t] \o Rest = Low(cur)
    BY Zenon, <1>6, <2>1, <2>2 DEF Mounts
  <2>4. (\A t \in Types : f[t] = None) => Rest = Low(cur)
    <3>1. <<>> \o own = own
      BY <1>6, ConcatNothing
    <3> QED BY Zenon, <1>6, <2>1, <2>2, <3>1 DEF Mounts
  <2> QED BY <1>1, <1>3, <1>5, <1>8, <2>3, <2>4
<1>9. CASE b \in BuildOnly /\ roots[b].meta.hasOut
  <2>1. roots[b].upper = Empty /\ \A t \in TypeSet : f[t] = all
    BY <1>2, <1>9 DEF FullNow, Full
  <2>2. Rest = <<>>
    BY <1>9, <2>1 DEF Rest, Held
  <2>3. \A t \in Types : f[t] # None => f[t] \o Rest = Low(cur)
    <3>1. SUFFICES ASSUME NEW t \in Types, f[t] # None  PROVE f[t] \o Rest = Low(cur)
      OBVIOUS
    <3>2. t \in TypeSet
      BY <1>3, <1>9, <3>1 DEF Others
    <3>3. f[t] = Low(cur) /\ f[t] \o <<>> = f[t]
      BY <1>5, <1>6, <2>1, <3>1, <3>2, ConcatNothing
    <3> QED BY <2>2, <3>3
  <2>4. ~(\A t \in Types : f[t] = None)
    <3>1. PICK t \in TypeSet : t \in Types
      BY TypesNeeded
    <3>2. f[t] = all /\ IsSeq(all)
      BY <1>6, <2>1
    <3>3. f[t] # None
      BY <3>2 DEF NoContent, IsSeq
    <3> QED BY <3>1, <3>3
  <2> QED BY Zenon, <1>1, <1>3, <1>5, <1>9, <2>3, <2>4
<1> QED BY <1>7, <1>8, <1>9

LEMMA StackNext ==
  ASSUME NEW n \in Layers, From[n] # None, NEW built, built \in Seq(Under(From[n]) \ BuildOnly)
  PROVE  Stack(Append(built, From[n]), n)
<1> DEFINE b == From[n]
           s == Append(built, b)
<1>1. b \in Under(n) /\ Under(b) \subseteq Under(n)
  <2>1. b \in Under(n)
    BY Unders
  <2>2. Upto(b) \subseteq Under(n)
    BY <2>1, Unders
  <2> QED BY <2>1, <2>2 DEF Upto
<1>2. built \in Seq(Under(n)) /\ built \in Seq(Under(b) \ BuildOnly)
  BY <1>1
<1>3. /\ s \in Seq(Under(n)) /\ s # <<>> /\ s[Len(s)] = b /\ Len(s) = Len(built) + 1 /\ Len(built) \in Nat
      /\ \A i \in 1..Len(built) : s[i] = built[i] /\ built[i] \in Under(b) \ BuildOnly
  <2> HIDE DEF b
  <2> QED BY <1>1, <1>2
<1>4. \A i \in 1..Len(s) : s[i] \in BuildOnly => i = Len(s)
  <2> HIDE DEF s, b
  <2>1. SUFFICES ASSUME NEW i \in 1..Len(s), i # Len(s)  PROVE s[i] \notin BuildOnly
    OBVIOUS
  <2>2. i \in 1..Len(built)
    BY <1>3, <2>1
  <2> QED BY <1>3, <2>2
<1> HIDE DEF s
<1>5. Stack(s, n)
  BY <1>3, <1>4 DEF Stack
<1> QED BY <1>5 DEF s

\* Without a base there is nothing built below.
LEMMA StackNone == ASSUME NEW n, From[n] = None  PROVE Stack(<<>>, n)
<1> DEFINE s == <<>>
<1>1. s \in Seq(Under(n)) /\ Len(s) = 0 /\ s = <<>>
  OBVIOUS
<1> HIDE DEF s
<1>2. Stack(s, n)
  BY <1>1 DEF Stack
<1> QED BY <1>1, <1>2

LEMMA NowIs ==
  ASSUME NoContent, Marked, NEW n, Source(n) # None
  PROVE  DOMAIN Now(n) = {"image", "version"} /\ Now(n) # None /\ Held(Now(n)) = <<Now(n)>>
<1>1. DOMAIN Now(n) = {"image", "version"}
  BY DEF Now, Content
<1> QED BY <1>1 DEF NoContent, Marked, Held

LEMMA SetupEmptyRootfsOn ==
  ASSUME NoContent, Marked, Sane, Underway, SetupEmptyRootfs  PROVE Underway'
<1> DEFINE u == IF Source(cur) = None THEN roots[cur].upper ELSE TarRootfs(cur)
<1>1. /\ pc = "metadata" /\ pc' = "overlayDirs" /\ From[cur] = None /\ Source(cur) \in Tars \union {None}
      /\ UNCHANGED <<userVars, copyVars, cache, hashDirs, refs, idx, types>>
      /\ roots' = [roots EXCEPT ![cur].meta = NewOverlayMetadata, ![cur].upper = u]
  BY DEF SetupEmptyRootfs, Goto, runVars, ociVars, dirVars
<1>2. roots[cur] # None /\ roots[cur].upper = Empty /\ Based(cur)
  BY <1>1 DEF Sane, Work, Underway, Pipeline
<1>3. Held(u) = TarOf(cur, def[cur], Now(cur))
  <2>1. CASE Source(cur) = None
    BY <1>2, <2>1, NoTar DEF Held, TarOf, Source
  <2>2. CASE Source(cur) # None
    <3>1. u = Now(cur) /\ Source(cur) \in Tars
      BY <1>1, <1>2, <2>2 DEF Based, TarRootfs
    <3> QED BY <2>2, <3>1, NowIs DEF TarOf, Source
  <2> QED BY <2>1, <2>2
<1> HIDE DEF u
<1>4. /\ \A n \in Layers : n # cur => roots'[n] = roots[n]
      /\ roots'[cur].meta = NewOverlayMetadata /\ roots'[cur].upper = u
  BY <1>1, <1>2, CurDir DEF DirFields
<1>5. \A n \in Layers : n # cur => Untouched(n)
  BY Zenon, <1>1, <1>4, HoldsAll DEF Untouched
<1>6. /\ Settled' /\ Imported(cur)' /\ Based(cur)'
      /\ UNCHANGED <<cur, TypeSet, Fresh, def, imp, Now(cur), Low(cur), OwnNow(cur)>>
  BY <1>1, <1>5, Goes
<1>7. Low(cur) = <<>>
  BY <1>1 DEF Low, LowOf, Source
<1>8. Rest' = <<>>
  BY <1>1, <1>6, NoTar DEF Rest
<1>9. Lies(NewOverlayMetadata, <<>>, <<>>, TypeSet, cur)
  BY <1>1, IsNewMetadata, IsNewMeta, StackNone DEF Lies, Others
<1>10. LiesNow'
  BY <1>4, <1>6, <1>7, <1>8, <1>9 DEF LiesNow
<1>11. ImagedNow'
  <2>1. Imaged(cur, def[cur], Now(cur), hashDirs)
    BY <1>1, NoTar DEF Imaged, Source
  <2> QED BY <1>1, <1>6, <2>1 DEF ImagedNow
<1>12. NoOds(roots[cur].meta)'
  BY <1>4, <1>6, IsNewMetadata DEF NoOds
<1>13. Laid'
  BY <1>3, <1>4, <1>6, <1>10, <1>11, <1>12 DEF Laid
<1> QED BY <1>1, <1>6, <1>13 DEF Underway, Pipeline

LEMMA UnpackOn ==
  ASSUME Orderly, NoContent, Marked, Sane, Underway, Unpack  PROVE Underway'
<1> DEFINE c == Cached(cur)
           m == [NewOverlayMetadata EXCEPT !.manifests[BaseType] = <<c>>]
<1>1. /\ pc = "metadata" /\ pc' = "overlayDirs" /\ Source(cur) \in Images \ Tars
      /\ UNCHANGED <<userVars, copyVars, cache, refs, idx, types>>
      /\ hashDirs' = hashDirs \union {<<BaseType, c>>}
      /\ roots' = [roots EXCEPT ![cur].meta = m]
  BY DEF Unpack, Goto, runVars, ociVars
<1>2. roots[cur] # None /\ roots[cur].upper = Empty /\ Based(cur) /\ cur \in Layers
  BY <1>1, CurIs DEF Sane, Work, Underway, Pipeline
<1>3. Source(cur) # None /\ From[cur] = None
  <2>1. def[cur] \in Versions
    BY <1>2 DEF Sane, InputTypes
  <2> QED BY <1>1, <1>2, <2>1, NoTar, BuildAssumption DEF Source
<1>4. c = Now(cur)
  BY <1>2, <1>3 DEF Based
<1>5. DOMAIN Now(cur) = {"image", "version"}
  BY <1>3, NowIs
<1>6. /\ m.built = <<>> /\ m.hasOut = FALSE
      /\ \A t \in Types : m.manifests[t] = (IF t = BaseType THEN <<c>> ELSE None) /\ m.ods[t] = None
  <2> HIDE DEF c
  <2> QED BY IsNewMetadata, IsNewMeta DEF MetaFields
<1> HIDE DEF c, m
<1>7. /\ \A n \in Layers : n # cur => roots'[n] = roots[n]
      /\ roots'[cur].meta = m /\ roots'[cur].upper = Empty
  BY <1>1, <1>2, CurDir DEF DirFields
<1>8. \A n \in Layers : n # cur => Untouched(n)
  <2>1. hashDirs \subseteq hashDirs'
    BY <1>1
  <2> QED BY <1>1, <1>7, <2>1, HoldsIf DEF Untouched
<1>9. /\ Settled' /\ Imported(cur)' /\ Based(cur)'
      /\ UNCHANGED <<cur, TypeSet, Fresh, def, imp, Now(cur), Low(cur), OwnNow(cur)>>
  BY <1>1, <1>8, Goes
<1>10. Low(cur) = <<Now(cur)>>
  BY <1>1, <1>3, NoTar DEF Low, LowOf, Source
<1>11. Rest' = <<>>
  BY <1>3, <1>9, NoTar DEF Rest
<1>12. Lies(m, <<>>, <<Now(cur)>>, TypeSet, cur)
  <2>1. Stack(m.built, cur)
    BY <1>3, <1>6, StackNone
  <2>2. \A t \in Types : m.manifests[t] # None => m.manifests[t] \o <<>> = <<Now(cur)>>
    <3>1. <<Now(cur)>> \o <<>> = <<Now(cur)>>
      BY Singles, ConcatNothing
    <3> QED BY <1>4, <1>6, <3>1
  <2>3. ~(\A t \in Types : m.manifests[t] = None)
    <3>1. BaseType \in Types
      BY BuildAssumption
    <3>2. <<c>> # None
      BY Zenon, Singles DEF NoContent, IsSeq
    <3> QED BY <1>6, <3>1, <3>2
  <2>4. Others(m.manifests, TypeSet)
    <3>1. SUFFICES ASSUME NEW t \in Types \ TypeSet, m.manifests[t] # None
                   PROVE  BuildOnly = {} /\ NoDest(m.manifests[t])
      BY DEF Others
    <3>2. t = BaseType /\ m.manifests[t] = <<Now(cur)>>
      BY <1>4, <1>6, <3>1
    <3>3. NoDest(m.manifests[t])
      <4>1. \A x : In(x, <<Now(cur)>>) => x = Now(cur)
        BY InNothing
      <4> QED BY <1>5, <3>2, <4>1 DEF NoDest
    <3>4. BuildOnly = {}
      <4>1. def[cur] \in Versions /\ types \in TypeChoices
        BY <1>2 DEF Sane, InputTypes, RunTypes
      <4>2. ~(\A n \in Layers, v \in Versions : Image[n][v] \in Tars \union {None})
        BY <1>1, <1>2, <1>3, <4>1 DEF Source
      <4>3. ~(\A d \in TypeChoices : BaseType \in {d[i] : i \in 1..Len(d)})
        BY <3>1, <3>2, <4>1 DEF TypeSet
      <4> QED BY <4>2, <4>3 DEF Orderly
    <3> QED BY <3>3, <3>4
  <2> QED BY <1>6, <2>1, <2>2, <2>3, <2>4 DEF Lies
<1>13. LiesNow'
  BY <1>7, <1>9, <1>10, <1>11, <1>12 DEF LiesNow
<1>14. ImagedNow'
  <2>1. Imaged(cur, def[cur], Now(cur), hashDirs')
    BY <1>1, <1>4, <1>5 DEF Imaged
  <2> QED BY <1>1, <1>9, <2>1 DEF ImagedNow
<1>15. NoOds(roots[cur].meta)'
  BY <1>6, <1>7, <1>9 DEF NoOds
<1>16. Held(Empty) = TarOf(cur, def[cur], Now(cur))
  BY <1>1 DEF Held, TarOf, Source
<1>17. Laid'
  BY <1>7, <1>9, <1>13, <1>14, <1>15, <1>16 DEF Laid
<1> QED BY <1>1, <1>9, <1>17 DEF Underway, Pipeline

LEMMA RestoreOn ==
  ASSUME Orderly, NoContent, Sane, Underway, Restore  PROVE Underway' /\ ~Fail
<1> DEFINE b == From[cur]
           rm == roots[b].meta
           m == [rm EXCEPT !.built = Append(@, b)]
<1>1. /\ pc = "metadata" /\ b # None
      /\ UNCHANGED <<userVars, copyVars, cache, hashDirs, refs>>
  BY DEF Restore, dirVars, ociVars
<1>2. /\ roots[cur] # None /\ roots[cur].upper = Empty /\ cur \in Layers /\ Settled
      /\ def[cur] \in Versions
  BY <1>1, CurIs DEF Sane, Work, Underway, Pipeline, InputTypes
<1>3. /\ roots[b] # None /\ rm # None /\ b \in Layers /\ b # cur
      /\ \A t \in Types : rm.ods[t] = None
      /\ Others(rm.manifests, TypeSet)
      /\ rm.hasOut => b \in BuildOnly
      /\ rm.built \in Seq(Under(b) \ BuildOnly)
      /\ \A t \in Types : rm.manifests[t] # None =>
           /\ IsSeq(rm.manifests[t])
           /\ rm.manifests[t] \o Rest = Low(cur)
      /\ (\A t \in Types : rm.manifests[t] = None) => Rest = Low(cur)
  BY Zenon, <1>1, <1>2, BaseLies
<1>4. DOMAIN rm = MetaFields /\ IsMeta(rm, hashDirs)
  BY <1>3 DEF Sane, RootsOK, IsDir, IsMeta
<1>5. /\ IsSeq(Low(cur)) /\ IsSeq(Rest)
      /\ \A x : In(x, Low(cur)) => OfImage(x) \/ \E l \in Under(cur) : MadeFor(x, l)
  <2>1. IsSeq(Rest)
    BY Singles, Nothing DEF Rest, Held
  <2>2. NoDests /\ def \in [Layers -> Versions]
    BY DEF Orderly, Sane, InputTypes
  <2> QED BY <1>2, <2>1, <2>2, FreshIs, FreshTokens
<1>6. ASSUME NEW mm \in SomeManifest(rm), NEW i \in 1..Len(mm)  PROVE mm[i] \in hashDirs
  <2> DEFINE f == rm.manifests
  <2>1. \A t \in Types : f[t] # None => IsSeq(f[t])
    BY <1>3
  <2>2. \/ mm = <<>> /\ \A t \in Types : f[t] = None
        \/ \E t \in Types : /\ f[t] # None /\ Len(mm) = Len(f[t]) /\ IsSeq(mm)
                            /\ \A j \in 1..Len(mm) : mm[j] = <<t, f[t][j]>>
    <3>1. mm \in Stops(f)
      BY Zenon, <1>6 DEF SomeManifest, Stops
    <3> HIDE DEF f
    <3> QED BY <2>1, <3>1, SomeIs
  <2>3. mm # <<>>
    BY <1>6
  <2>4. PICK t \in Types : /\ f[t] # None /\ Len(mm) = Len(f[t])
                           /\ \A j \in 1..Len(mm) : mm[j] = <<t, f[t][j]>>
    BY <2>2, <2>3
  <2>5. Unpacked(f[t], t, hashDirs) /\ (t \in TypeSet \/ NoDest(f[t]))
    BY <1>3, <1>4, <2>4 DEF IsMeta, Others
  <2>6. \A x : In(x, f[t]) => OfImage(x) \/ \E l \in Under(cur) : MadeFor(x, l)
    <3>1. IsSeq(f[t]) /\ f[t] \o Rest = Low(cur)
      BY <1>3, <2>4
    <3> QED BY Zenon, <1>5, <3>1, InLeft
  <2> HIDE DEF f, rm
  <2>7. <<t, f[t][i]>> \in hashDirs
    BY <1>1, <1>2, <2>4, <2>5, <2>6, TokensThere
  <2> QED BY <2>4, <2>7
<1>7. HasMetadata(b)
  BY <1>3 DEF HasMetadata
<1>8. roots' = [roots EXCEPT ![cur].meta = m] /\ pc' = "overlayDirs" /\ UNCHANGED <<idx, types>>
  BY <1>6, <1>7 DEF Restore, Goto, runVars
<1>9. m.built = Append(rm.built, b) /\ m.manifests = rm.manifests /\ m.ods = rm.ods /\ m.hasOut = rm.hasOut
  <2> HIDE DEF rm, b
  <2> QED BY <1>4 DEF MetaFields
<1> HIDE DEF m
<1>10. /\ \A n \in Layers : n # cur => roots'[n] = roots[n]
       /\ roots'[cur].meta = m /\ roots'[cur].upper = Empty
  BY <1>2, <1>8, CurDir DEF DirFields
<1>11. \A n \in Layers : n # cur => Untouched(n)
  BY <1>1, <1>10, HoldsAll DEF Untouched
<1>12. /\ Settled' /\ Imported(cur)' /\ Based(cur)'
       /\ UNCHANGED <<cur, TypeSet, Fresh, def, imp, Now(cur), Low(cur), OwnNow(cur)>>
  BY <1>1, <1>8, <1>11, Goes
<1>13. Rest' = Rest
  BY <1>3, <1>10, <1>12 DEF Rest
<1>14. Lies(m, Rest, Low(cur), TypeSet, cur)
  <2>1. Stack(m.built, cur)
    <3>1. Stack(Append(rm.built, From[cur]), cur)
      BY Zenon, <1>1, <1>2, <1>3, StackNext
    <3> QED BY <1>9, <3>1
  <2> QED BY Zenon, <1>3, <1>9, <2>1 DEF Lies
<1>15. LiesNow'
  BY <1>10, <1>12, <1>13, <1>14 DEF LiesNow
<1>16. Source(cur) = None
  BY Zenon, <1>1, <1>2, BuildAssumption DEF Source
<1>17. ImagedNow'
  <2>1. Imaged(cur, def[cur], Now(cur), hashDirs)
    BY <1>16, NoTar DEF Imaged, Source
  <2> QED BY <1>1, <1>12, <2>1 DEF ImagedNow
<1>18. NoOds(roots[cur].meta)'
  BY <1>3, <1>9, <1>10, <1>12 DEF NoOds
<1>19. Held(Empty) = TarOf(cur, def[cur], Now(cur))
  BY <1>16, NoTar DEF Held, TarOf, Source
<1>20. Laid'
  BY <1>10, <1>12, <1>15, <1>17, <1>18, <1>19 DEF Laid
<1> QED BY <1>8, <1>12, <1>20 DEF Underway, Pipeline, Fail

LEMMA SetOverlayDirsOn == ASSUME Orderly, Sane, Underway, SetOverlayDirs  PROVE Underway'
<1> DEFINE od == OverlayDir(cur, IF ImportKind[cur] = "dest" THEN impDir[cur] ELSE imp[cur])
           ods == [t \in Types |-> IF t \in TypeSet THEN <<od>> ELSE None]
           new == {<<t, od>> : t \in TypeSet}
<1>1. /\ pc = "overlayDirs" /\ pc' = "run"
      /\ UNCHANGED <<userVars, copyVars, cache, refs, idx, types>>
  BY DEF SetOverlayDirs, Goto, runVars, ociVars
<1>2. Laid /\ cur \in Layers /\ roots[cur] # None /\ roots[cur].meta # None /\ ImportKind[cur] # "dest"
  BY <1>1, CurIs DEF Underway, Pipeline, Sane, Work, Orderly, NoDests
<1>3. CASE ImportKind[cur] # "overlay"
  <2>1. UNCHANGED <<roots, hashDirs>>
    BY <1>2, <1>3 DEF SetOverlayDirs, dirVars
  <2>2. \A n \in Layers : n # cur => Untouched(n)
    BY <1>1, <2>1, HoldsAll DEF Untouched
  <2>3. /\ Settled' /\ Imported(cur)' /\ Based(cur)'
        /\ UNCHANGED <<cur, TypeSet, Fresh, def, imp, Now(cur), Low(cur), OwnNow(cur)>>
    BY <1>1, <2>2, Goes
  <2>4. UNCHANGED Rest
    BY <2>1, <2>3 DEF Rest
  <2>5. LiesNow' /\ ImagedNow' /\ LinkedNow'
    BY <1>2, <1>3, <2>1, <2>3, <2>4 DEF Laid, LiesNow, ImagedNow, LinkedNow, Linked
  <2>6. OdsNow'
    BY <1>2, <1>3, <2>1, <2>3 DEF Laid, OdsNow, OdsAre, NoOds
  <2>7. Mounted'
    BY <1>2, <2>1, <2>3, <2>5, <2>6 DEF Mounted, Laid
  <2> QED BY <1>1, <2>3, <2>7 DEF Underway, Pipeline
<1>4. CASE ImportKind[cur] = "overlay"
  <2>1. /\ roots' = [roots EXCEPT ![cur].odDir = TRUE, ![cur].meta.ods = ods]
        /\ hashDirs' = hashDirs \union new
    BY Zenon, <1>4 DEF SetOverlayDirs
  <2>2. od = OverlayDir(cur, imp[cur])
    BY <1>4
  <2>3. \A t \in TypeSet : <<t, od>> \in new
    OBVIOUS
  <2>4. \A t \in Types : ods[t] = IF t \in TypeSet THEN <<od>> ELSE None
    OBVIOUS
  <2> HIDE DEF od, ods, new
  <2>5. /\ \A n \in Layers : n # cur => roots'[n] = roots[n]
        /\ roots'[cur].odDir = TRUE /\ roots'[cur].upper = roots[cur].upper
        /\ roots'[cur].meta.ods = ods /\ roots'[cur].meta.built = roots[cur].meta.built
        /\ roots'[cur].meta.hasOut = roots[cur].meta.hasOut
        /\ roots'[cur].meta.manifests = roots[cur].meta.manifests
    BY <1>2, <2>1, CurDir DEF DirFields, MetaFields
  <2>6. \A n \in Layers : n # cur => Untouched(n)
    <3>1. hashDirs \subseteq hashDirs'
      BY <2>1
    <3> QED BY <1>1, <2>5, <3>1, HoldsIf DEF Untouched
  <2>7. /\ Settled' /\ Imported(cur)' /\ Based(cur)'
        /\ UNCHANGED <<cur, TypeSet, Fresh, def, imp, Now(cur), Low(cur), OwnNow(cur)>>
    BY <1>1, <2>6, Goes
  <2>8. UNCHANGED Rest
    <3>1. From[cur] \in BuildOnly => From[cur] \in Layers /\ From[cur] # cur
      BY UnderFirst, NoTar
    <3> QED BY <2>5, <2>7, <3>1 DEF Rest
  <2>9. LiesNow'
    BY Zenon, <1>2, <2>5, <2>7, <2>8 DEF Laid, LiesNow, Lies
  <2>10. ImagedNow'
    BY <1>2, <2>1, <2>7 DEF Laid, ImagedNow, Imaged
  <2>11. LinkedNow'
    BY <2>1, <2>2, <2>3, <2>5, <2>7 DEF LinkedNow, Linked
  <2>12. OdsNow'
    BY <1>4, <2>2, <2>4, <2>5, <2>7 DEF OdsNow, OdsAre
  <2>13. Mounted'
    BY <1>2, <2>5, <2>7, <2>9, <2>10, <2>11, <2>12 DEF Mounted, Laid
  <2> QED BY <1>1, <2>7, <2>13 DEF Underway, Pipeline
<1> QED BY <1>3, <1>4

-----------------------------------------------------------------------------
(* The container *)

\* A manifest whose layers have their directories is mounted as it is.
LEMMA ExistingIs ==
  ASSUME NEW m, NEW s, IsSeq(s), Len(m) = Len(s),
         \A i \in 1..Len(m) : m[i] \in hashDirs /\ m[i][2] = s[i] /\ s[i] \notin torn
  PROVE  Existing(m) = s
<1>1. [i \in 1..Len(m) |-> IF m[i] \in hashDirs THEN <<Contents(m[i][2])>> ELSE <<>>]
        = [i \in 1..Len(s) |-> <<s[i]>>]
  BY DEF Contents
<1> QED BY <1>1, FlattenSingles DEF Existing

\* Of the built layers only a build-only base has content.
LEMMA UppersAre ==
  ASSUME Sane, Settled, pc \notin {"idle", "gc", "builtMeta"}, NEW built, Stack(built, cur)
  PROVE  /\ Uppers(built) = Rest /\ IsSeq(Rest)
         /\ \A i \in 1..Len(built) : roots[built[i]] # None
<1> DEFINE ss == [i \in 1..Len(built) |-> Held(roots[built[i]].upper)]
<1>0. IsSeq(Rest) /\ \A u : IsSeq(Held(u))
  BY Singles, Nothing DEF Rest, Held
<1>1. built \in Seq(Under(cur)) /\ Len(built) \in Nat /\ \A i \in 1..Len(built) : built[i] \in Under(cur)
  <2>1. built \in Seq(Under(cur))
    BY DEF Stack
  <2> QED BY <2>1
<1>2. \A i \in 1..Len(built) : Match(built[i]) /\ FullNow(built[i])
  <2>1. \A i \in 1..Len(built) : built[i] \in Ready
    BY <1>1, UnderFirst DEF Ready
  <2> QED BY <2>1 DEF Settled, Spared
<1>3. \A i \in 1..Len(built) : roots[built[i]] # None
  BY Zenon, <1>2 DEF Match, CommonNow, Common
<1>4. \A i \in 1..Len(built) : built[i] \notin BuildOnly => Held(roots[built[i]].upper) = <<>>
  BY Zenon, <1>2 DEF FullNow, Full, Held
<1>5. CASE From[cur] = None
  <2>1. built = <<>>
    BY <1>5 DEF Stack
  <2>2. ss = <<>>
    BY <2>1
  <2>3. Rest = <<>>
    BY <1>5, NoTar DEF Rest
  <2> QED BY <1>0, <1>3, <2>2, <2>3, FlattenNothing DEF Uppers
<1>6. CASE From[cur] # None
  <2>1. built # <<>> /\ built[Len(built)] = From[cur] /\ Len(built) \in 1..Len(built)
    BY <1>1, <1>6 DEF Stack
  <2> DEFINE N == Len(built)
             S == {Held(roots[built[i]].upper) : i \in 1..N}
  <2>2. ss \in Seq(S) /\ Len(ss) = N
    <3>1. ss \in [1..N -> S]
      OBVIOUS
    <3>2. N \in Nat
      BY <1>1
    <3> HIDE DEF ss, S, N
    <3> QED BY <3>1, <3>2
  <2>3. IsSeq(ss) /\ Len(ss) = Len(built) /\ ss # <<>>
    <3>1. Len(built) # 0
      BY <1>1, <2>1
    <3>2. Len(ss) # 0 /\ Len(ss) = Len(built)
      BY <2>2, <3>1
    <3>3. IsSeq(ss)
      <4> HIDE DEF ss, S
      <4> QED BY <2>2 DEF IsSeq
    <3> HIDE DEF ss
    <3> QED BY <3>2, <3>3, Nothing
  <2>4. \A i \in 1..Len(built) : ss[i] = Held(roots[built[i]].upper)
    OBVIOUS
  <2>5. \A i \in 1..Len(built) : i # Len(built) => ss[i] = <<>>
    BY <1>4, <2>4 DEF Stack
  <2>6. ss[Len(built)] = Rest
    BY <1>4, <2>1, <2>4 DEF Rest
  <2>7. FlattenSeq(ss) = Rest
    <3> HIDE DEF ss
    <3>1. IsSeq(ss[Len(ss)]) /\ \A i \in 1..Len(ss) : i # Len(ss) => ss[i] = <<>>
      BY <1>0, <2>3, <2>5, <2>6
    <3> QED BY <2>3, <2>6, <3>1, FlattenLast
  <2> QED BY <1>0, <1>3, <2>7 DEF Uppers
<1> QED BY <1>5, <1>6

\* On a base that is in the output the metadata is as Restore left it.
LEMMA LiesMounts ==
  ASSUME Sane, LiesNow, roots[cur] # None, roots[cur].meta # None, From[cur] \notin BuildOnly
  PROVE  /\ ~roots[cur].meta.hasOut /\ Mounts(roots[cur].meta.manifests, Low(cur))
         /\ roots[cur].meta.built \in Seq(Under(cur) \ BuildOnly)
<1> DEFINE m == roots[cur].meta
           built == m.built
<1>1. Rest = <<>> /\ Lies(m, <<>>, Low(cur), TypeSet, cur)
  BY DEF LiesNow, Rest
<1>2. \A t \in Types : m.manifests[t] # None => IsSeq(m.manifests[t])
  BY CurDir, UnpackedSeq DEF IsMeta
<1>3. \A t \in Types : m.manifests[t] # None => m.manifests[t] \o <<>> = m.manifests[t]
  BY <1>2, ConcatNothing
<1>4. ~m.hasOut /\ Mounts(m.manifests, Low(cur))
  BY <1>1, <1>3 DEF Lies, Mounts
<1>5. built \in Seq(Under(cur)) /\ \A i \in 1..Len(built) : built[i] \notin BuildOnly
  BY <1>1 DEF Lies, Stack
<1>6. built \in Seq(Under(cur) \ BuildOnly)
  <2> HIDE DEF built
  <2>1. Len(built) \in Nat /\ built \in [1..Len(built) -> Under(cur)]
    BY <1>5
  <2>2. built \in [1..Len(built) -> Under(cur) \ BuildOnly]
    BY <1>5, <2>1
  <2> QED BY <2>1, <2>2
<1> QED BY <1>4, <1>6

\* The container sees what a build from nothing would show it.
LEMMA ViewIs ==
  ASSUME Orderly, NoContent, Sane, Parts, Intact, Underway, pc = "run",
         NEW m \in SomeManifest(roots[cur].meta), NEW ods \in SomeOverlayDirs(roots[cur].meta)
  PROVE  /\ Mountable(roots[cur].meta, ods)
         /\ RootfsView(roots[cur].meta, m, ods)
              = (Low(cur) \o OdOf(cur, imp[cur])) \o TarOf(cur, def[cur], Now(cur))
<1> DEFINE meta == roots[cur].meta
           f == meta.manifests
           g == meta.ods
           od == OverlayDir(cur, imp[cur])
<1>1. Settled /\ Mounted /\ roots[cur] # None /\ meta # None /\ cur \in Layers
  BY CurIs DEF Underway, Pipeline, Sane, Work
<1>2. /\ Lies(meta, Rest, Low(cur), TypeSet, cur) /\ OdsAre(meta, TypeSet, cur, imp[cur])
      /\ Linked(roots[cur], cur, imp[cur], TypeSet, hashDirs)
      /\ Held(roots[cur].upper) = TarOf(cur, def[cur], Now(cur))
  BY <1>1 DEF Mounted, LiesNow, OdsNow, LinkedNow
<1>3. IsMeta(meta, hashDirs)
  BY <1>1, CurDir
<1>4. Stack(meta.built, cur)
  BY <1>2 DEF Lies
<1>5. Uppers(meta.built) = Rest /\ IsSeq(Rest) /\ \A i \in 1..Len(meta.built) : roots[meta.built[i]] # None
  BY <1>1, <1>4, UppersAre
<1>6. /\ IsSeq(Low(cur))
      /\ \A x : In(x, Low(cur)) => OfImage(x) \/ \E l \in Under(cur) : MadeFor(x, l)
  <2>1. NoDests /\ def \in [Layers -> Versions]
    BY DEF Orderly, Sane, InputTypes
  <2> QED BY <1>1, <2>1, FreshIs, FreshTokens
<1>7. Existing(m) \o Rest = Low(cur)
  <2>1. \A t \in Types : f[t] # None => IsSeq(f[t])
    BY <1>3, UnpackedSeq DEF IsMeta
  <2>2. m \in Stops(f)
    BY DEF SomeManifest, Stops
  <2>3. \/ m = <<>> /\ \A t \in Types : f[t] = None
        \/ \E t \in Types : /\ f[t] # None /\ Len(m) = Len(f[t])
                            /\ \A j \in 1..Len(m) : m[j] = <<t, f[t][j]>>
    <3> HIDE DEF f
    <3> QED BY <2>1, <2>2, SomeIs
  <2>4. CASE m = <<>> /\ \A t \in Types : f[t] = None
    <3>1. Rest = Low(cur)
      BY <1>2, <2>4 DEF Lies
    <3>2. Existing(m) = <<>>
      <4>1. [i \in 1..Len(m) |-> IF m[i] \in hashDirs THEN <<Contents(m[i][2])>> ELSE <<>>] = <<>>
        BY <2>4
      <4> QED BY <4>1, FlattenNothing DEF Existing
    <3> QED BY <1>5, <3>1, <3>2, ConcatNothing
  <2>5. CASE \E t \in Types : /\ f[t] # None /\ Len(m) = Len(f[t])
                              /\ \A j \in 1..Len(m) : m[j] = <<t, f[t][j]>>
    <3>1. PICK t \in Types : /\ f[t] # None /\ Len(m) = Len(f[t])
                             /\ \A j \in 1..Len(m) : m[j] = <<t, f[t][j]>>
      BY <2>5
    <3>2. Unpacked(f[t], t, hashDirs) /\ (t \in TypeSet \/ NoDest(f[t])) /\ IsSeq(f[t])
          /\ f[t] \o Rest = Low(cur)
      BY <1>2, <1>3, <2>1, <3>1 DEF IsMeta, Others, Lies
    <3>3. \A x : In(x, f[t]) => OfImage(x) \/ \E l \in Under(cur) : MadeFor(x, l)
      BY Zenon, <1>5, <1>6, <3>2, InLeft
    <3> HIDE DEF f
    <3>4. \A i \in 1..Len(f[t]) : <<t, f[t][i]>> \in hashDirs
      BY <1>1, <3>2, <3>3, TokensThere
    <3>5. \A i \in 1..Len(m) : m[i] \in hashDirs /\ m[i][2] = f[t][i] /\ f[t][i] \notin torn
      <4>1. SUFFICES ASSUME NEW i \in 1..Len(m)
                     PROVE  m[i] \in hashDirs /\ m[i][2] = f[t][i] /\ f[t][i] \notin torn
        OBVIOUS
      <4>2. m[i] = <<t, f[t][i]>> /\ <<t, f[t][i]>> \in hashDirs
        BY <3>1, <3>4
      <4>3. <<t, f[t][i]>>[2] = f[t][i]
        OBVIOUS
      <4>4. In(f[t][i], f[t])
        BY <3>1 DEF In
      <4>5. f[t][i] \notin torn
        <5>1. CASE OfImage(f[t][i])
          BY <5>1 DEF OfImage, Intact, Now
        <5>2. CASE \E l \in Under(cur) : MadeFor(f[t][i], l)
          BY <5>2, MadeDomain DEF Parts
        <5> QED BY <3>3, <4>4, <5>1, <5>2
      <4> QED BY <4>2, <4>3, <4>5
    <3>6. Existing(m) = f[t]
      BY <3>1, <3>2, <3>5, ExistingIs
    <3> QED BY <3>2, <3>6
  <2> QED BY Zenon, <2>3, <2>4, <2>5
<1>8. Tokens(ods) = OdOf(cur, imp[cur]) /\ \A i \in 1..Len(ods) : ods[i] \in hashDirs
  <2>1. \A t \in Types : g[t] = IF ImportKind[cur] = "overlay" /\ t \in TypeSet THEN <<od>> ELSE None
    BY <1>2 DEF OdsAre
  <2>2. \A t \in Types : g[t] # None => IsSeq(g[t])
    BY <2>1, Singles
  <2>3. ods \in Stops(g)
    BY DEF SomeOverlayDirs, Stops
  <2>4. \/ ods = <<>> /\ \A t \in Types : g[t] = None
        \/ \E t \in Types : /\ g[t] # None /\ Len(ods) = Len(g[t]) /\ IsSeq(ods)
                            /\ \A j \in 1..Len(ods) : ods[j] = <<t, g[t][j]>>
    <3> HIDE DEF g
    <3> QED BY <2>2, <2>3, SomeIs
  <2>5. CASE ods = <<>> /\ \A t \in Types : g[t] = None
    <3>1. ImportKind[cur] # "overlay"
      <4>1. PICK t \in TypeSet : t \in Types
        BY TypesNeeded
      <4>2. <<od>> # None
        BY Zenon, Singles DEF NoContent, IsSeq
      <4> QED BY <2>1, <2>5, <4>1, <4>2
    <3>2. [i \in 1..Len(ods) |-> ods[i][2]] = <<>>
      BY <2>5
    <3> QED BY <2>5, <3>1, <3>2 DEF Tokens, OdOf
  <2>6. CASE \E t \in Types : /\ g[t] # None /\ Len(ods) = Len(g[t]) /\ IsSeq(ods)
                              /\ \A j \in 1..Len(ods) : ods[j] = <<t, g[t][j]>>
    <3>1. PICK t \in Types : /\ g[t] # None /\ Len(ods) = Len(g[t]) /\ IsSeq(ods)
                             /\ \A j \in 1..Len(ods) : ods[j] = <<t, g[t][j]>>
      BY <2>6
    <3>2. ImportKind[cur] = "overlay" /\ t \in TypeSet /\ g[t] = <<od>>
      BY <2>1, <3>1
    <3>3. Len(ods) = 1 /\ ods[1] = <<t, od>>
      BY <3>1, <3>2, Singles
    <3> HIDE DEF od
    <3>4. [i \in 1..Len(ods) |-> ods[i][2]] = <<od>>
      BY <3>3
    <3>5. <<t, od>> \in hashDirs
      BY <1>2, <3>2 DEF Linked, od
    <3>6. OdOf(cur, imp[cur]) = <<od>>
      BY <3>2 DEF OdOf, od
    <3> QED BY <3>3, <3>4, <3>5, <3>6 DEF Tokens
  <2> QED BY <2>4, <2>5, <2>6
<1>9. Mountable(meta, ods)
  BY <1>5, <1>8 DEF Mountable
<1>10. RootfsView(meta, m, ods) = ((Existing(m) \o Rest) \o OdOf(cur, imp[cur])) \o TarOf(cur, def[cur], Now(cur))
  BY <1>2, <1>5, <1>8 DEF RootfsView
<1> QED BY <1>7, <1>9, <1>10

LEMMA RunContainerOn ==
  ASSUME Apart, Orderly, NoContent, Marked, Sane, Parts, Intact, Underway, RunContainer
  PROVE  (Underway' /\ ~Fail) \/ ("run" \in Faults /\ Fail)
<1> DEFINE meta == roots[cur].meta
           token == TokenOf(cur, def[cur], imp[cur], Now(cur), Low(cur))
<1>1. /\ pc = "run" /\ UNCHANGED <<userVars, copyVars, cache, hashDirs, refs>>
  BY DEF RunContainer, dirVars, ociVars
<1>2. /\ Settled /\ Mounted /\ roots[cur] # None /\ meta # None /\ cur \in Layers /\ Imported(cur)
  BY <1>1, CurIs DEF Underway, Pipeline, Sane, Work
<1>3. \/ "run" \in Faults /\ Fail
      \/ /\ AfterRun
         /\ roots' = IF def[cur] \in Idle THEN roots ELSE [roots EXCEPT ![cur].upper = token]
  <2>1. PICK m \in SomeManifest(meta), ods \in SomeOverlayDirs(meta) :
          \/ ~Mountable(meta, ods)
          \/ /\ roots' = IF def[cur] \in Idle THEN roots
                         ELSE [roots EXCEPT ![cur].upper = Diff(cur, RootfsView(meta, m, ods), TRUE)]
             /\ AfterRun
          \/ "run" \in Faults /\ Fail
    BY Zenon DEF RunContainer, AfterFailedRun
  <2>2. /\ Mountable(meta, ods)
        /\ RootfsView(meta, m, ods) = (Low(cur) \o OdOf(cur, imp[cur])) \o TarOf(cur, def[cur], Now(cur))
    BY <1>1, ViewIs
  <2>3. Diff(cur, RootfsView(meta, m, ods), TRUE) = token
    <3> DEFINE v == RootfsView(meta, m, ods)
               w == (Low(cur) \o OdOf(cur, imp[cur])) \o TarOf(cur, def[cur], Now(cur))
    <3>1. v = w
      BY <2>2
    <3>2. token = [layer |-> cur, def |-> def[cur], view |-> w, whole |-> TRUE,
                   imp |-> IF ImportKind[cur] = "plain" THEN imp[cur] ELSE None]
      BY DEF TokenOf
    <3> HIDE DEF v, w
    <3>3. Diff(cur, v, TRUE) = token
      BY Zenon, <1>2, <3>1, <3>2 DEF Diff, Imported
    <3> QED BY Zenon, <3>3 DEF v
  <2> QED BY Zenon, <2>1, <2>2, <2>3
<1>4. CASE /\ AfterRun
           /\ roots' = IF def[cur] \in Idle THEN roots ELSE [roots EXCEPT ![cur].upper = token]
  <2>1. /\ pc' = IF cur \in BuildOnly THEN "put" ELSE "initBases"
        /\ UNCHANGED <<idx, types>>
    BY <1>4 DEF AfterRun, Goto, runVars
  <2>2. Held(token) = <<token>>
    <3>1. DOMAIN token = {"layer", "def", "view", "whole", "imp"}
      BY DEF TokenOf
    <3> HIDE DEF token
    <3> QED BY <3>1 DEF Marked, Held
  <2>3. OwnNow(cur) = IF def[cur] \in Idle THEN TarOf(cur, def[cur], Now(cur)) ELSE <<token>>
    BY DEF OwnNow, OwnOf
  <2> HIDE DEF token
  <2>4. /\ \A n \in Layers : n # cur => roots'[n] = roots[n]
        /\ roots'[cur] # None
        /\ roots'[cur].meta = meta /\ roots'[cur].odDir = roots[cur].odDir
        /\ Held(roots'[cur].upper) = OwnNow(cur)
    <3>1. CASE def[cur] \in Idle
      BY <1>2, <1>4, <2>3, <3>1 DEF Mounted
    <3>2. CASE def[cur] \notin Idle
      <4>1. roots' = [roots EXCEPT ![cur].upper = token]
        BY <1>4, <3>2
      <4>2. /\ \A n \in Layers : n # cur => roots'[n] = roots[n]
            /\ roots'[cur].meta = meta /\ roots'[cur].odDir = roots[cur].odDir
            /\ roots'[cur].upper = token
        BY <1>2, <4>1, CurDir DEF DirFields
      <4>3. roots'[cur] # None
        <5>1. DOMAIN roots'[cur] = DirFields
          BY <1>2, <4>1, CurDir
        <5> QED BY <5>1 DEF Apart
      <4> QED BY <2>2, <2>3, <3>2, <4>2, <4>3
    <3> QED BY <3>1, <3>2
  <2>5. \A n \in Layers : n # cur => Untouched(n)
    BY <1>1, <2>4, HoldsAll DEF Untouched
  <2>6. /\ Settled' /\ Imported(cur)' /\ Based(cur)'
        /\ UNCHANGED <<cur, TypeSet, Fresh, def, imp, Now(cur), Low(cur), OwnNow(cur)>>
    BY <1>1, <2>1, <2>5, Goes
  <2>7. UNCHANGED Rest
    <3>1. From[cur] \in BuildOnly => From[cur] \in Layers /\ From[cur] # cur
      BY UnderFirst, NoTar
    <3> QED BY <2>4, <2>6, <3>1 DEF Rest
  <2>8. LiesNow' /\ ImagedNow' /\ LinkedNow' /\ OdsNow' /\ Held(roots'[cur].upper) = OwnNow(cur)'
    BY <1>1, <1>2, <2>4, <2>6, <2>7 DEF Mounted, LiesNow, ImagedNow, LinkedNow, Linked, OdsNow
  <2>9. CASE cur \notin BuildOnly
    <3>1. Ran'
      BY <2>6, <2>8, <2>9 DEF Ran
    <3> QED BY <2>1, <2>6, <2>9, <3>1 DEF Underway, Pipeline, Fail
  <2>10. CASE cur \in BuildOnly
    <3>1. From[cur] \notin BuildOnly /\ ImportKind[cur] # "overlay"
      BY <1>2, <2>10 DEF Orderly
    <3>2. /\ ~meta.hasOut /\ Mounts(meta.manifests, Low(cur))
          /\ meta.built \in Seq(Under(cur) \ BuildOnly)
      BY <1>2, <3>1, LiesMounts DEF Mounted
    <3>3. (\A t \in Types : meta.ods[t] = None) /\ Others(meta.manifests, TypeSet)
      BY <1>2, <3>1 DEF Mounted, OdsNow, OdsAre, LiesNow, Lies
    <3>4. CommonNow(cur)'
      BY <1>2, <2>4, <2>6, <2>8, <3>2, <3>3 DEF CommonNow, Common, ImagedNow, LinkedNow
    <3>5. FullNow(cur)'
      BY <2>4, <2>6, <2>8, <2>10, <3>2 DEF FullNow, Full, OwnNow
    <3>6. Final'
      BY <2>6, <2>10, <3>4, <3>5 DEF Final
    <3> QED BY <2>1, <2>6, <2>10, <3>6 DEF Underway, Pipeline, Fail
  <2> QED BY <2>9, <2>10
<1> QED BY <1>3, <1>4

-----------------------------------------------------------------------------
(* Repack *)

LEMMA StartSteady == ASSUME UNCHANGED <<userVars, idx>>  PROVE UNCHANGED StartNow
<1>1. UNCHANGED <<def, upstream, Fresh, cur>>
  BY FreshSteady DEF userVars, cur
<1> QED BY <1>1 DEF StartNow, Low, Now, Source

\* The layer whose base is the first in the output.
LEMMA Lowest ==
  ASSUME Orderly, Sane, Underway, pc = "initBases"
  PROVE  \E n \in Layers : /\ FirstBaseInOutput[cur] = From[n] /\ StartNow = Low(n)
                           /\ From[n] = None => Root[cur] = n
                           /\ Based(n) /\ Imaged(n, def[n], Now(n), hashDirs)
                           /\ From[n] # None => ImagesAre(refs[From[n]], TypeSet, Fresh[From[n]])
<1>1. Settled /\ Ran /\ Based(cur) /\ cur \in Layers /\ Ready = First(idx - 1)
  BY CurIs DEF Underway, Pipeline, Ready
<1>2. \A n \in Ready : Match(n) /\ n \in Layers
  BY <1>1, UnderFirst DEF Settled
<1>3. \A n \in Ready : n \notin BuildOnly => ImagesAre(refs[n], TypeSet, Fresh[n])
  BY <1>2 DEF Match
<1>4. CASE From[cur] \notin BuildOnly
  <2>1. FirstBaseInOutput[cur] = From[cur]
    BY <1>1, <1>4, FirstBaseEq
  <2>2. From[cur] = None => Root[cur] = cur
    BY <1>1, RootEq
  <2>3. Imaged(cur, def[cur], Now(cur), hashDirs)
    BY <1>1 DEF Ran, ImagedNow
  <2>4. From[cur] # None => From[cur] \in Ready
    BY <1>1, UnderFirst
  <2>5. StartNow = Low(cur)
    BY <1>4 DEF StartNow
  <2> QED BY <1>1, <1>3, <1>4, <2>1, <2>2, <2>3, <2>4, <2>5
<1>5. CASE From[cur] \in BuildOnly
  <2> DEFINE c == From[cur]
  <2>1. c # None /\ c \in Ready /\ c \in Layers /\ Match(c)
    BY <1>1, <1>2, <1>5, UnderFirst, NoTar
  <2>2. From[c] \notin BuildOnly
    BY <1>5 DEF Orderly
  <2>3. FirstBaseInOutput[cur] = From[c]
    <3>1. FirstBaseInOutput[cur] = FirstBaseInOutput[c]
      BY <1>1, <1>5, <2>1, FirstBaseEq
    <3>2. FirstBaseInOutput[c] = From[c]
      <4> HIDE DEF c
      <4> QED BY <2>1, <2>2, FirstBaseEq
    <3> QED BY <3>1, <3>2
  <2>4. From[c] = None => Root[cur] = c
    <3>1. Root[cur] = Root[c]
      BY <1>1, <2>1, RootEq
    <3>2. From[c] = None => Root[c] = c
      <4> HIDE DEF c
      <4> QED BY <2>1, RootEq
    <3> QED BY <3>1, <3>2
  <2>5. Based(c) /\ Imaged(c, def[c], Now(c), hashDirs)
    BY <2>1 DEF Match, CommonNow, Common
  <2>6. From[c] # None => From[c] \in Ready
    BY <1>1, <2>1, UnderFirst
  <2>7. StartNow = Low(c)
    BY <1>5 DEF StartNow
  <2> HIDE DEF c
  <2> QED BY <1>3, <2>1, <2>2, <2>3, <2>4, <2>5, <2>6, <2>7
<1> QED BY <1>4, <1>5

LEMMA InitializeBasesInOutputOn ==
  ASSUME Apart, Orderly, NoContent, Marked, Sane, Intact, Underway, InitializeBasesInOutput
  PROVE  Underway' /\ ~Fail
<1> DEFINE b == FirstBaseInOutput[cur]
           foreign == b = None /\ Source(Root[cur]) \in Images \ Tars
           image == Cached(Root[cur])
           own(t) == [layers |-> <<Converted(image, t)>>, def |-> None]
           start == [t \in TypeSet |->
                       IF b # None THEN refs[b][t]
                       ELSE IF ~foreign THEN NewImage
                       ELSE IF image = None \/ ~Convertible(image, t) THEN None
                       ELSE own(t)]
           meta == roots[cur].meta
<1>1. UNCHANGED <<userVars, copyVars, cache, roots>> /\ pc = "initBases"
  BY Zenon DEF InitializeBasesInOutput
<1>2. Settled /\ Ran /\ cur \in Layers /\ roots[cur] # None /\ meta # None
  BY <1>1, CurIs DEF Underway, Pipeline, Sane, Work
<1>3. PICK n \in Layers : /\ b = From[n] /\ StartNow = Low(n)
                          /\ From[n] = None => Root[cur] = n
                          /\ Based(n) /\ Imaged(n, def[n], Now(n), hashDirs)
                          /\ From[n] # None => ImagesAre(refs[From[n]], TypeSet, Fresh[From[n]])
  BY <1>1, Lowest
<1>4. ASSUME NEW t \in TypeSet  PROVE start[t] # None /\ start[t].layers = StartNow
  <2>1. CASE b # None
    <3>1. start[t] = refs[From[n]][t] /\ From[n] # None
      BY <1>3, <2>1
    <3>2. StartNow = Fresh[From[n]]
      BY <1>3, <3>1 DEF Low, LowOf
    <3> HIDE DEF start
    <3> QED BY <1>3, <3>1, <3>2 DEF ImagesAre
  <2>2. CASE b = None /\ ~foreign
    <3>1. start[t] = NewImage
      BY <2>2
    <3>2. NewImage # None /\ NewImage.layers = <<>>
      <4>1. DOMAIN NewImage = ImageFields /\ NewImage.layers = <<>>
        BY DEF NewImage, ImageFields
      <4> QED BY <4>1 DEF Apart
    <3>3. Source(n) \in Tars \union {None} /\ From[n] = None
      BY <1>3, <2>2, SourceIs
    <3>4. StartNow = <<>>
      BY <1>3, <3>3 DEF Low, LowOf, Source
    <3> HIDE DEF start
    <3> QED BY <3>1, <3>2, <3>4
  <2>3. CASE b = None /\ foreign
    <3>1. From[n] = None /\ Source(n) \in Images \ Tars /\ image = Cached(n)
      BY <1>3, <2>3
    <3>2. Source(n) # None /\ Source(n) \notin Tars \union {None}
      BY <3>1, NoTar
    <3>3. image = Now(n) /\ image # None
      BY <1>3, <3>1, <3>2, NowIs DEF Based
    <3>4. Convertible(image, t)
      BY <1>3, <3>1, <3>3 DEF Imaged, Convertible, Source
    <3>5. start[t] = own(t)
      BY <2>3, <3>3, <3>4
    <3>6. DOMAIN own(t) = ImageFields /\ own(t).layers = <<image>>
      <4>1. image \notin torn
        BY <3>2, <3>3 DEF Intact, Now
      <4>2. Converted(image, t) = image
        BY Zenon, <4>1 DEF Converted, Contents
      <4> HIDE DEF image
      <4> QED BY <4>2 DEF ImageFields
    <3>7. StartNow = <<Now(n)>>
      BY <1>3, <3>1, <3>2 DEF Low, LowOf, Source
    <3> HIDE DEF start, own
    <3> QED BY <3>3, <3>5, <3>6, <3>7 DEF Apart
  <2> QED BY <2>1, <2>2, <2>3
<1>5. /\ refs' = [refs EXCEPT ![cur] = [t \in Types |-> IF t \in TypeSet THEN start[t] ELSE @[t]]]
      /\ hashDirs' = IF foreign THEN hashDirs \union {<<t, Converted(image, t)>> : t \in TypeSet} ELSE hashDirs
      /\ mut' = [t \in Types |-> IF t \in TypeSet
                                 THEN start[t].layers \o Manifest(meta.ods[t]) ELSE <<>>]
      /\ k' = 1 /\ mutated' = FALSE /\ pc' = "built" /\ UNCHANGED <<idx, types>>
  BY Zenon, <1>4 DEF InitializeBasesInOutput, Goto, runVars
<1>6. hashDirs \subseteq hashDirs'
  BY <1>5
<1> HIDE DEF start, foreign, image, own, b
<1>7. TypeSet \subseteq Types /\ DOMAIN refs = Layers
  BY TypeSetIs DEF Sane, RefsOK
<1>8. /\ \A m \in Layers : m # cur => refs'[m] = refs[m]
      /\ \A t \in TypeSet : refs'[cur][t] = start[t]
  <2>1. refs'[cur] = [t \in Types |-> IF t \in TypeSet THEN start[t] ELSE refs[cur][t]]
    BY <1>2, <1>5, <1>7
  <2> QED BY <1>5, <1>7, <2>1
<1>9. \A m \in Layers : m # cur => Untouched(m)
  BY <1>1, <1>6, <1>8, HoldsIf DEF Untouched
<1>10. /\ Settled' /\ Imported(cur)' /\ Based(cur)'
       /\ UNCHANGED <<cur, TypeSet, Fresh, def, imp, Now(cur), Low(cur), OwnNow(cur)>>
  BY <1>1, <1>5, <1>9, Goes
<1>11. UNCHANGED StartNow
  BY <1>1, <1>5, StartSteady
<1>12. Lies(meta, Rest, Low(cur), TypeSet, cur) /\ Stack(meta.built, cur) /\ Others(meta.manifests, TypeSet)
  BY <1>2 DEF Ran, LiesNow, Lies
<1>13. From[cur] \notin BuildOnly => ~meta.hasOut /\ Mounts(meta.manifests, Low(cur))
  BY <1>2, LiesMounts DEF Ran
<1>14. ImagedNow' /\ LinkedNow' /\ OdsNow'
  BY <1>1, <1>2, <1>6, <1>10 DEF Ran, ImagedNow, Imaged, LinkedNow, Linked, OdsNow
<1>15. ImagesAre(refs[cur], TypeSet, StartNow)'
  BY <1>4, <1>8, <1>10, <1>11 DEF ImagesAre
<1>16. Packing'
  <2>1. roots'[cur].meta = meta /\ cur \notin BuildOnly /\ Held(roots'[cur].upper) = OwnNow(cur)
    BY <1>1, <1>2 DEF Ran
  <2> HIDE DEF meta
  <2> QED BY <1>5, <1>10, <1>12, <1>13, <1>14, <1>15, <2>1 DEF Packing
<1>17. ASSUME NEW t \in TypeSet  PROVE mut'[t] = StartNow \o OdOf(cur, imp[cur])
  <2>1. mut'[t] = start[t].layers \o Manifest(meta.ods[t])
    BY Zenon, <1>5, <1>7
  <2>2. Manifest(meta.ods[t]) = OdOf(cur, imp[cur])
    <3>1. meta.ods[t] = IF ImportKind[cur] = "overlay" /\ t \in TypeSet
                        THEN <<OverlayDir(cur, imp[cur])>> ELSE None
      BY <1>2, <1>7 DEF Ran, OdsNow, OdsAre
    <3>2. \A x : <<x>> # None
      BY Zenon, Singles DEF NoContent, IsSeq
    <3> QED BY <3>1, <3>2 DEF Manifest, OdOf
  <2> QED BY Zenon, <1>4, <2>1, <2>2
<1>18. Taking'
  <2>1. 1 <= Len(meta.built) \/ StartNow = Low(cur)
    <3>1. CASE From[cur] = None
      BY <3>1, NoTar DEF StartNow
    <3>2. CASE From[cur] # None
      <4>1. meta.built # <<>> /\ meta.built \in Seq(Under(cur))
        BY <1>12, <3>2 DEF Stack
      <4> HIDE DEF meta
      <4> QED BY <4>1
    <3> QED BY <3>1, <3>2
  <2>2. roots'[cur].meta = meta
    BY <1>1
  <2> HIDE DEF meta
  <2> QED BY Zenon, <1>5, <1>10, <1>11, <1>17, <2>1, <2>2 DEF Taking
<1> QED BY <1>5, <1>10, <1>16, <1>18 DEF Underway, Pipeline, Fail

\* Steps that pack the base.
LEMMA Takes ==
  ASSUME Sane, Underway, pc \in {"built", "builtMeta"}, pc' \in {"built", "builtMeta"},
         UNCHANGED <<userVars, copyVars, cache, refs, idx, types>>, hashDirs \subseteq hashDirs',
         NEW b, b = From[cur], b # None,
         \A n \in Layers : n # b => roots'[n] = roots[n],
         CommonNow(b)', pc' = "builtMeta" \/ FullNow(b)'
  PROVE  /\ Settled' /\ Imported(cur)' /\ Based(cur)'
         /\ UNCHANGED <<cur, TypeSet, Fresh, def, imp, Now(cur), Low(cur), OwnNow(cur), StartNow>>
<1>1. Ready = First(idx - 1) /\ Ready' = Ready /\ UNCHANGED <<cur, TypeSet>>
  BY DEF Ready, cur, TypeSet
<1>2. cur \notin Ready /\ Ready \subseteq Layers /\ b \in Ready /\ b # cur
  BY <1>1, UnderFirst
<1>3. UNCHANGED <<Fresh, def, imp, upstream, impDir, bases>> /\ \A n : Now(n)' = Now(n)
  BY FreshSteady DEF userVars, copyVars
<1>4. \A n : (Based(n) => Based(n)') /\ (Imported(n) => Imported(n)')
  BY <1>3 DEF Based, Imported, Source, Cached
<1>5. \A n : Holds(n, hashDirs, hashDirs')
  BY HoldsIf
<1>6. Settled /\ Imported(cur) /\ Based(cur)
  BY DEF Underway, Pipeline
<1>7. ASSUME NEW n \in Ready, n # b  PROVE Match(n)' /\ FullNow(n)'
  <2>1. Match(n) /\ FullNow(n)
    BY <1>6, <1>7 DEF Settled, Spared
  <2> QED BY <1>2, <1>4, <1>5, <1>7, <2>1, MatchKept, FullKept
<1>8. Match(b)'
  <2>1. Match(b)
    BY <1>2, <1>6 DEF Settled
  <2>2. MatchEntry(b, cache[b], cache[From[b]])'
    BY <1>1, <1>3, <2>1 DEF Match, MatchEntry
  <2>3. b \notin BuildOnly => ImagesAre(refs[b], TypeSet, Fresh[b])'
    BY <1>1, <1>3, <2>1 DEF Match
  <2> QED BY <1>4, <2>1, <2>2, <2>3 DEF Match
<1>9. FullNow(b)' \/ Spared(b)'
  BY <1>1 DEF Spared
<1>10. ASSUME NEW n \in Layers, n \notin Ready  PROVE Sound(n)' \/ Remaking(n)'
  <2>1. CASE n # cur
    <3>1. Sound(n) /\ n # b
      BY <1>2, <1>6, <1>10, <2>1 DEF Settled, Remaking
    <3> QED BY <1>5, <3>1, SoundKept
  <2>2. CASE n = cur
    BY <1>1, <2>2 DEF Remaking
  <2> QED BY <2>1, <2>2
<1>11. Settled'
  BY <1>1, <1>7, <1>8, <1>9, <1>10 DEF Settled
<1>12. UNCHANGED <<Now(cur), Low(cur), OwnNow(cur)>>
  BY <1>1, <1>3 DEF Now, Low, OwnNow, Source
<1>13. Imported(cur)' /\ Based(cur)'
  BY <1>1, <1>3, <1>6, <1>12 DEF Imported, Based, Source, Cached
<1> QED BY <1>1, <1>3, <1>11, <1>12, <1>13, StartSteady

\* A build-only base on which the image at hand is built.
LEMMA BuildOnlyBase ==
  ASSUME Orderly, Sane, Settled, pc \notin {"idle", "gc"}, NEW b, b = From[cur], b \in BuildOnly
  PROVE  /\ b # None /\ b # cur /\ b \in Layers /\ cur \in Layers /\ b \in Ready
         /\ CommonNow(b) /\ roots[b] # None /\ roots[b].meta # None
         /\ DOMAIN roots[b] = DirFields /\ DOMAIN roots[b].meta = MetaFields
         /\ ImportKind[b] # "overlay" /\ ImportKind[cur] # "overlay" /\ OdOf(cur, imp[cur]) = <<>>
         /\ StartNow = Low(b) /\ IsSeq(Low(b)) /\ IsSeq(Low(cur))
         /\ \E token : OwnNow(b) = <<token>> /\ Low(cur) = Low(b) \o <<token>>
<1>1. b # None /\ b # cur /\ b \in Layers /\ cur \in Layers /\ b \in Ready
  BY UnderFirst, NoTar DEF Ready
<1>2. CommonNow(b) /\ roots[b] # None /\ roots[b].meta # None
  BY Zenon, <1>1 DEF Settled, Match, CommonNow, Common
<1>3. DOMAIN roots[b] = DirFields /\ DOMAIN roots[b].meta = MetaFields
  BY <1>1, <1>2 DEF Sane, RootsOK, IsDir, IsMeta
<1>4. ImportKind[b] # "overlay" /\ ImportKind[cur] # "overlay"
  BY <1>1 DEF Orderly
<1>5. OdOf(cur, imp[cur]) = <<>> /\ OdOf(b, imp[b]) = <<>>
  BY <1>4 DEF OdOf
<1>6. StartNow = Low(b)
  BY DEF StartNow
<1>7. /\ IsSeq(Low(b)) /\ IsSeq(Low(cur)) /\ Low(cur) = Fresh[b]
      /\ Fresh[b] = AllOf(b, def[b], imp[b], Now(b), Low(b))
  BY <1>1, FreshIs DEF Orderly
<1>8. Idle = {}
  BY <1>1 DEF Orderly
<1> DEFINE token == TokenOf(b, def[b], imp[b], Now(b), Low(b))
<1>9. OwnNow(b) = <<token>> /\ OwnOf(b, def[b], imp[b], Now(b), Low(b)) = <<token>>
  BY <1>8 DEF OwnNow, OwnOf
<1>10. Low(cur) = Low(b) \o <<token>>
  <2>1. Low(b) \o <<>> = Low(b)
    BY <1>7, ConcatNothing
  <2> HIDE DEF token
  <2> QED BY <1>5, <1>7, <1>9, <2>1 DEF AllOf
<1> HIDE DEF token
<1> QED BY Zenon, <1>1, <1>2, <1>3, <1>4, <1>5, <1>6, <1>7, <1>9, <1>10

\* Repack adds the layer of a build-only base, be it new or taken before.
LEMMA TakeBase ==
  ASSUME Apart, Orderly, NoContent, Marked, Sane, Underway, pc = "built", NEW b, b = From[cur], b \in BuildOnly,
         k = Len(roots[cur].meta.built), b = roots[cur].meta.built[k]
  PROVE  /\ ~NothingToAdd(b) /\ ~Unreadable(b)
         /\ GenerateNew(b) \/ AddExisting(b) =>
              /\ \A t \in TypeSet : mut'[t] = Low(cur)
              /\ roots'[b] # None /\ roots'[b].upper = Empty /\ roots'[b].meta = roots[b].meta
              /\ roots'[b].odDir = roots[b].odDir
              /\ \A n \in Layers : n # b => roots'[n] = roots[n]
              /\ hashDirs \subseteq hashDirs'
<1>1. Settled /\ Packing /\ Taking
  BY DEF Underway, Pipeline
<1>2. /\ b # None /\ b # cur /\ b \in Layers /\ cur \in Layers /\ b \in Ready
      /\ CommonNow(b) /\ roots[b] # None /\ roots[b].meta # None
      /\ DOMAIN roots[b] = DirFields /\ DOMAIN roots[b].meta = MetaFields
      /\ OdOf(cur, imp[cur]) = <<>>
      /\ StartNow = Low(b) /\ IsSeq(Low(b)) /\ IsSeq(Low(cur))
  BY <1>1, BuildOnlyBase
<1>3. PICK token : OwnNow(b) = <<token>> /\ Low(cur) = Low(b) \o <<token>>
  BY Zenon, <1>1, BuildOnlyBase
<1>4. Full(roots[b], TypeSet, b, def[b], imp[b], Now(b), Low(b))
  BY <1>1, <1>2 DEF Settled, Spared, FullNow
<1>5. \A t \in TypeSet : mut[t] = Low(b)
  <2>1. \A t \in TypeSet : mut[t] = StartNow \o OdOf(cur, imp[cur])
    <3>1. Len(roots[cur].meta.built) \in Nat /\ k \in Nat
      BY BuiltIs
    <3>2. k <= Len(roots[cur].meta.built)
      BY <3>1
    <3> QED BY <1>1, <3>2 DEF Taking
  <2>2. Low(b) \o <<>> = Low(b)
    BY <1>2, ConcatNothing
  <2> QED BY <1>2, <2>1, <2>2
<1>6. Append(Low(b), token) = Low(cur)
  BY Zenon, <1>2, <1>3, AppendIs
<1>7. TypeSet \subseteq Types /\ DOMAIN roots = Layers
  BY TypeSetIs DEF Sane, RootsOK
<1>8. CASE ~roots[b].meta.hasOut
  <2>1. Held(roots[b].upper) = <<token>>
    BY Zenon, <1>3, <1>4, <1>8 DEF Full, OwnNow
  <2>2. roots[b].upper # Empty /\ roots[b].upper = token
    BY <2>1, Singles DEF Held
  <2>3. ~NothingToAdd(b) /\ ~Unreadable(b) /\ ~AddExisting(b)
    BY Zenon, <2>2 DEF NothingToAdd, Unreadable, AddExisting
  <2>4. ASSUME GenerateNew(b)
        PROVE  /\ \A t \in TypeSet : mut'[t] = Low(cur)
               /\ roots'[b] # None /\ roots'[b].upper = Empty /\ roots'[b].meta = roots[b].meta
               /\ roots'[b].odDir = roots[b].odDir
               /\ \A n \in Layers : n # b => roots'[n] = roots[n]
               /\ hashDirs \subseteq hashDirs'
    <3>1. /\ mut' = [t \in Types |-> IF t \in TypeSet THEN Append(mut[t], token) ELSE mut[t]]
          /\ hashDirs \subseteq hashDirs'
          /\ roots' = [roots EXCEPT ![b].upper = Empty]
      BY <2>2, <2>4 DEF GenerateNew
    <3>2. \A t \in TypeSet : mut'[t] = Low(cur)
      BY <1>5, <1>6, <1>7, <3>1
    <3>3. /\ DOMAIN roots'[b] = DirFields /\ roots'[b].upper = Empty /\ roots'[b].meta = roots[b].meta
          /\ roots'[b].odDir = roots[b].odDir /\ \A n \in Layers : n # b => roots'[n] = roots[n]
      BY <1>2, <1>7, <3>1 DEF DirFields
    <3> QED BY <3>1, <3>2, <3>3 DEF Apart
  <2> QED BY <2>3, <2>4
<1>9. CASE roots[b].meta.hasOut
  <2>1. roots[b].upper = Empty /\ \A t \in TypeSet : roots[b].meta.manifests[t] = Low(cur)
    <3>1. Low(cur) = AllOf(b, def[b], imp[b], Now(b), Low(b))
      BY Zenon, <1>2, FreshIs DEF Orderly
    <3> QED BY Zenon, <1>2, <1>4, <1>9, <3>1 DEF Full
  <2>2. ~NothingToAdd(b) /\ ~Unreadable(b) /\ ~GenerateNew(b)
    BY Zenon, <1>2, <1>9, <2>1 DEF NothingToAdd, Unreadable, GenerateNew, HasMetadata
  <2>3. ASSUME AddExisting(b)
        PROVE  /\ \A t \in TypeSet : mut'[t] = Low(cur)
               /\ UNCHANGED <<roots, hashDirs>>
    <3>1. Low(cur) # <<>> /\ Low(cur)[Len(Low(cur))] = token /\ Low(cur) # None
      <4>1. Low(cur) # None
        BY <1>2 DEF NoContent, IsSeq
      <4> QED BY Zenon, <1>2, <1>3, <4>1, EndsIn
    <3>2. \A t \in TypeSet : Manifest(roots[b].meta.manifests[t]) = Low(cur)
      BY <2>1, <3>1 DEF Manifest
    <3> DEFINE m(t) == Manifest(roots[b].meta.manifests[t])
    <3>3. /\ UNCHANGED <<roots, hashDirs>>
          /\ mut' = [t \in Types |-> IF t \in TypeSet /\ m(t) # <<>>
                                     THEN Append(mut[t], m(t)[Len(m(t))]) ELSE mut[t]]
      BY Zenon, <2>3 DEF AddExisting, dirVars
    <3>4. \A t \in TypeSet : m(t) = Low(cur)
      BY <3>2
    <3> HIDE DEF m
    <3>5. \A t \in TypeSet : mut'[t] = Append(Low(b), token)
      BY Zenon, <1>5, <1>7, <3>1, <3>3, <3>4
    <3> QED BY Zenon, <1>6, <3>3, <3>5
  <2> QED BY Zenon, <1>2, <2>1, <2>2, <2>3
<1> QED BY <1>8, <1>9

LEMMA GenerateBuiltLayerOn ==
  ASSUME Apart, Orderly, NoContent, Marked, Sane, Underway, GenerateBuiltLayer  PROVE Underway' /\ ~Fail
<1> DEFINE built == roots[cur].meta.built
           b == built[k]
<1>1. /\ pc = "built" /\ k <= Len(built)
      /\ UNCHANGED <<userVars, copyVars, cache, refs, mutated>>
      /\ \/ /\ GenerateNew(b) \/ AddExisting(b)
            /\ Goto("builtMeta")
            /\ UNCHANGED <<k, runVars>>
         \/ /\ NothingToAdd(b)
            /\ k' = k + 1
            /\ UNCHANGED <<pc, mut, dirVars, roots, runVars>>
         \/ /\ Unreadable(b)
            /\ Fail /\ UNCHANGED <<k, mut, dirVars, roots>>
  BY DEF GenerateBuiltLayer, ociVars
<1>2. Settled /\ Packing /\ Taking /\ Stack(built, cur)
  BY <1>1 DEF Underway, Pipeline, Packing
<1>3. k \in 1..Len(built) /\ Len(built) \in Nat /\ cur \in Layers
  BY <1>1, BuiltIs
<1>4. b \in Under(cur) /\ b \in Ready /\ From[cur] # None /\ (b \in BuildOnly => k = Len(built))
      /\ built[Len(built)] = From[cur]
  <2>1. built \in Seq(Under(cur)) /\ built # <<>>
    BY <1>2, <1>3 DEF Stack
  <2>2. b \in Under(cur)
    <3> HIDE DEF built
    <3> QED BY <1>3, <2>1
  <2> QED BY <1>1, <1>2, <1>3, <2>1, <2>2, UnderFirst DEF Stack, Ready
<1>5. CASE b \notin BuildOnly
  <2>1. FullNow(b) /\ CommonNow(b)
    BY <1>1, <1>2, <1>4 DEF Settled, Spared, Match
  <2>2. NothingToAdd(b)
    BY Zenon, <1>5, <2>1 DEF FullNow, Full, CommonNow, Common, NothingToAdd, HasMetadata
  <2>3. /\ k' = k + 1 /\ pc' = "built"
        /\ UNCHANGED <<mut, hashDirs, roots, idx, types>>
    <3>1. ~GenerateNew(b) /\ ~AddExisting(b) /\ ~Unreadable(b)
      <4> HIDE DEF b
      <4> QED BY <2>2 DEF NothingToAdd, GenerateNew, AddExisting, Unreadable
    <3> QED BY <1>1, <3>1 DEF dirVars, runVars
  <2>4. \A n \in Layers : n # cur => Untouched(n)
    BY <1>1, <2>3, HoldsAll DEF Untouched
  <2>5. /\ Settled' /\ Imported(cur)' /\ Based(cur)'
        /\ UNCHANGED <<cur, TypeSet, Fresh, def, imp, Now(cur), Low(cur), OwnNow(cur)>>
    BY <1>1, <2>3, <2>4, Goes
  <2>6. UNCHANGED StartNow
    BY <1>1, <2>3, StartSteady
  <2>7. Packing'
    BY <1>1, <1>2, <2>3, <2>5, <2>6 DEF Packing, ImagedNow, LinkedNow, OdsNow
  <2>8. Taking'
    <3>1. \A t \in TypeSet : mut[t] = StartNow \o OdOf(cur, imp[cur])
      BY <1>1, <1>2 DEF Taking
    <3>2. k' <= Len(built) \/ StartNow = Low(cur)
      <4>1. CASE k = Len(built)
        BY <1>4, <1>5, <4>1 DEF StartNow
      <4>2. CASE k # Len(built)
        <5>1. k + 1 <= Len(built)
          BY ONLY <1>3, <4>2
        <5> QED BY <2>3, <5>1
      <4> QED BY <4>1, <4>2
    <3>3. roots'[cur].meta.built = built
      BY <2>3
    <3> HIDE DEF built
    <3> QED BY Zenon, <2>3, <2>5, <2>6, <3>1, <3>2, <3>3 DEF Taking
  <2> QED BY <2>3, <2>5, <2>7, <2>8 DEF Underway, Pipeline, Fail
<1>6. CASE b \in BuildOnly
  <2>1. k = Len(built) /\ b = From[cur] /\ b # None
    BY <1>4, <1>6
  <2>2. /\ b # cur /\ b \in Layers /\ CommonNow(b)
    <3> HIDE DEF b
    <3> QED BY <1>1, <1>2, <1>6, <2>1, BuildOnlyBase
  <2>3. /\ ~NothingToAdd(b) /\ ~Unreadable(b)
        /\ GenerateNew(b) \/ AddExisting(b) =>
              /\ \A t \in TypeSet : mut'[t] = Low(cur)
              /\ roots'[b] # None /\ roots'[b].upper = Empty /\ roots'[b].meta = roots[b].meta
              /\ roots'[b].odDir = roots[b].odDir
              /\ \A n \in Layers : n # b => roots'[n] = roots[n]
              /\ hashDirs \subseteq hashDirs'
    BY <1>1, <1>6, <2>1, TakeBase
  <2>4. pc' = "builtMeta" /\ UNCHANGED <<k, idx, types>> /\ (GenerateNew(b) \/ AddExisting(b))
    BY <1>1, <2>3 DEF Goto, runVars
  <2>5. ASSUME NEW c, c = b  PROVE CommonNow(c)'
    <3>1. UNCHANGED <<TypeSet, def, imp>> /\ Now(c)' = Now(c)
      BY <1>1, <2>4, FreshSteady DEF TypeSet, userVars
    <3>2. Holds(c, hashDirs, hashDirs')
      BY <2>3, <2>4, HoldsIf
    <3>3. Common(roots[c], hashDirs', TypeSet, c, def[c], imp[c], Now(c))
      BY <2>2, <2>5, <3>2, CommonKept DEF CommonNow
    <3>4. roots'[c] # None /\ roots'[c].meta = roots[c].meta /\ roots'[c].odDir = roots[c].odDir
      BY <2>3, <2>4, <2>5
    <3>5. Common(roots'[c], hashDirs', TypeSet, c, def[c], imp[c], Now(c))
      BY <3>3, <3>4 DEF Common, Linked
    <3> QED BY <3>1, <3>5 DEF CommonNow
  <2>6. /\ Settled' /\ Imported(cur)' /\ Based(cur)'
        /\ UNCHANGED <<cur, TypeSet, Fresh, def, imp, Now(cur), Low(cur), OwnNow(cur), StartNow>>
    <3>1. PICK c : c = b
      OBVIOUS
    <3>2. c = From[cur] /\ c # None /\ CommonNow(c)' /\ \A n \in Layers : n # c => roots'[n] = roots[n]
      BY <2>1, <2>3, <2>4, <2>5, <3>1
    <3> QED BY <1>1, <2>3, <2>4, <3>2, Takes
  <2>7. roots'[cur] = roots[cur]
    BY <1>3, <2>2, <2>3, <2>4
  <2>8. Packing'
    <3>1. ImagedNow'
      BY <1>2, <2>3, <2>4, <2>6 DEF Packing, ImagedNow, Imaged
    <3>2. LinkedNow'
      BY <1>2, <2>3, <2>4, <2>6, <2>7 DEF Packing, LinkedNow, Linked
    <3> QED BY <1>1, <1>2, <2>6, <2>7, <3>1, <3>2 DEF Packing, OdsNow
  <2>9. Took'
    BY <1>6, <2>1, <2>3, <2>4, <2>6, <2>7 DEF Took
  <2> QED BY <2>4, <2>6, <2>8, <2>9 DEF Underway, Pipeline, Fail
<1> QED BY <1>5, <1>6

LEMMA WriteBuiltMetadataOn ==
  ASSUME Apart, Orderly, NoContent, Marked, Sane, Underway, WriteBuiltMetadata  PROVE Underway'
<1> DEFINE built == roots[cur].meta.built
<1>1. PICK b : b = built[k]
  OBVIOUS
<1> DEFINE ms == WithManifests(roots[b].meta.manifests)
<1>2. /\ pc = "builtMeta" /\ pc' = "built" /\ mutated' = TRUE /\ k' = k + 1
      /\ UNCHANGED <<userVars, copyVars, cache, refs, hashDirs, mut, idx, types>>
      /\ roots' = [roots EXCEPT ![b].meta.manifests = ms, ![b].meta.hasOut = TRUE]
  BY Zenon, <1>1 DEF WriteBuiltMetadata, Goto, ociVars, dirVars, runVars
<1>3. Settled /\ Packing /\ Took /\ Stack(built, cur)
  BY <1>2 DEF Underway, Pipeline, Packing
<1>4. k \in Nat /\ Len(built) \in Nat /\ k = Len(built) /\ b = From[cur] /\ b \in BuildOnly
  BY Zenon, <1>1, <1>2, <1>3, BuiltIs, NoTar DEF Took, Stack
<1>5. /\ b # None /\ b # cur /\ b \in Layers /\ cur \in Layers /\ b \in Ready
      /\ CommonNow(b) /\ roots[b] # None /\ roots[b].meta # None
      /\ DOMAIN roots[b] = DirFields /\ DOMAIN roots[b].meta = MetaFields
      /\ ImportKind[b] # "overlay" /\ OdOf(cur, imp[cur]) = <<>>
      /\ IsSeq(Low(cur))
  BY <1>2, <1>3, <1>4, BuildOnlyBase
<1>6. \A t \in Types : ms[t] = IF t \in TypeSet THEN mut[t] ELSE roots[b].meta.manifests[t]
  BY DEF WithManifests
<1> HIDE DEF ms
<1>7. DOMAIN roots = Layers /\ TypeSet \subseteq Types
  BY TypeSetIs DEF Sane, RootsOK
<1>8. /\ \A n \in Layers : n # b => roots'[n] = roots[n]
      /\ DOMAIN roots'[b] = DirFields /\ DOMAIN roots'[b].meta = MetaFields
      /\ roots'[b].meta.manifests = ms /\ roots'[b].meta.built = roots[b].meta.built
      /\ roots'[b].meta.ods = roots[b].meta.ods /\ roots'[b].meta.hasOut = TRUE
      /\ roots'[b].upper = roots[b].upper
  BY <1>2, <1>5, <1>7 DEF DirFields, MetaFields
<1>9. UNCHANGED <<TypeSet, def, imp>> /\ Now(b)' = Now(b) /\ Low(b)' = Low(b)
  BY <1>2, FreshSteady DEF TypeSet, userVars
<1>10. CommonNow(b)'
  <2>1. Common(roots[b], hashDirs, TypeSet, b, def[b], imp[b], Now(b))
    BY <1>5 DEF CommonNow
  <2>2. roots'[b] # None /\ roots'[b].meta # None
    BY <1>8 DEF Apart
  <2>3. Others(ms, TypeSet)
    BY <1>6, <2>1 DEF Common, Others
  <2>4. Common(roots'[b], hashDirs, TypeSet, b, def[b], imp[b], Now(b))
    BY <1>5, <1>8, <2>1, <2>2, <2>3 DEF Common, Linked
  <2> QED BY <1>2, <1>9, <2>4 DEF CommonNow
<1>11. FullNow(b)'
  <2>1. Low(cur) = AllOf(b, def[b], imp[b], Now(b), Low(b))
    <3>1. Low(cur) = Fresh[b] /\ Fresh[b] = AllOf(b, def[b], imp[b], Now(b), Low(b))
      BY <1>4, <1>5, FreshIs DEF Orderly
    <3> QED BY <3>1
  <2>2. \A t \in TypeSet : ms[t] = AllOf(b, def[b], imp[b], Now(b), Low(b))
    BY <1>3, <1>6, <1>7, <2>1 DEF Took
  <2>3. roots'[b].upper = Empty
    BY <1>3, <1>4, <1>8 DEF Took
  <2> QED BY <1>4, <1>8, <1>9, <2>2, <2>3 DEF FullNow, Full
<1>12. /\ Settled' /\ Imported(cur)' /\ Based(cur)'
       /\ UNCHANGED <<cur, TypeSet, Fresh, def, imp, Now(cur), Low(cur), OwnNow(cur), StartNow>>
  BY Zenon, <1>2, <1>4, <1>5, <1>8, <1>10, <1>11, Takes
<1>13. roots'[cur] = roots[cur]
  BY <1>5, <1>8
<1>14. Packing'
  BY <1>2, <1>3, <1>4, <1>12, <1>13 DEF Packing, ImagedNow, LinkedNow, OdsNow
<1>15. Taking'
  <2>1. ~(k + 1 <= Len(built))
    BY ONLY <1>4
  <2>2. Low(cur) \o <<>> = Low(cur)
    BY <1>5, ConcatNothing
  <2>3. \A t \in TypeSet : mut[t] = Low(cur)
    BY <1>3 DEF Took
  <2>4. roots'[cur].meta.built = built
    BY <1>13
  <2> HIDE DEF built
  <2> QED BY Zenon, <1>2, <1>5, <1>12, <2>1, <2>2, <2>3, <2>4 DEF Taking
<1> QED BY <1>2, <1>12, <1>14, <1>15 DEF Underway, Pipeline

LEMMA GenerateOwnLayerOn ==
  ASSUME Orderly, NoContent, Sane, Underway, GenerateOwnLayer  PROVE Underway'
<1> DEFINE meta == roots[cur].meta
<1>1. /\ pc = "built" /\ k > Len(meta.built)
      /\ UNCHANGED <<userVars, copyVars, cache, refs, k, mutated, idx, types>>
      /\ \/ (GenerateNew(cur) \/ AddExisting(cur)) /\ pc' = "commit"
         \/ /\ NothingToAdd(cur)
            /\ pc' = IF mutated \/ \E t \in Types : meta.ods[t] # None THEN "commit" ELSE "config"
            /\ UNCHANGED <<mut, hashDirs, roots>>
  BY DEF GenerateOwnLayer, ociVars, runVars, Goto, dirVars
<1>2. Settled /\ Packing /\ Taking /\ cur \in Layers /\ roots[cur] # None /\ meta # None
  BY <1>1, BuiltIs DEF Underway, Pipeline
<1>3. TypeSet \subseteq Types /\ DOMAIN roots = Layers /\ DOMAIN roots[cur] = DirFields
  BY <1>2, TypeSetIs, CurDir
<1> DEFINE seen == Low(cur) \o OdOf(cur, imp[cur])
<1>4. Fresh[cur] = seen \o OwnNow(cur) /\ IsSeq(seen) /\ IsSeq(Low(cur))
  <2>1. /\ Fresh[cur] = AllOf(cur, def[cur], imp[cur], Now(cur), Low(cur)) /\ IsSeq(Low(cur))
    BY <1>2, FreshIs DEF Orderly
  <2>2. IsSeq(seen)
    BY <2>1, PartsAre
  <2> QED BY <2>1, <2>2 DEF AllOf, OwnNow
<1>5. \A t \in TypeSet : mut[t] = seen
  <2>1. ~(k <= Len(meta.built))
    <3>1. k \in Nat /\ Len(meta.built) \in Nat
      BY <1>1, BuiltIs
    <3> HIDE DEF meta
    <3> QED BY <1>1, <3>1
  <2> QED BY <1>2, <2>1 DEF Taking
<1>6. Held(roots[cur].upper) = OwnNow(cur)
  BY <1>2 DEF Packing
<1>7. roots[cur].upper = Empty => OwnNow(cur) = <<>> /\ From[cur] \notin BuildOnly
  <2>1. ASSUME roots[cur].upper = Empty  PROVE OwnNow(cur) = <<>>
    BY <1>6, <2>1 DEF Held
  <2>2. From[cur] \in BuildOnly => OwnNow(cur) # <<>>
    <3>1. SUFFICES ASSUME From[cur] \in BuildOnly  PROVE OwnNow(cur) # <<>>
      OBVIOUS
    <3>2. Idle = {}
      BY <1>2, <3>1 DEF Orderly
    <3>3. OwnNow(cur) = <<TokenOf(cur, def[cur], imp[cur], Now(cur), Low(cur))>>
      BY <3>2 DEF OwnNow, OwnOf
    <3> QED BY <3>3, Singles
  <2> QED BY <2>1, <2>2
<1> HIDE DEF seen
<1>8. CASE (GenerateNew(cur) \/ AddExisting(cur)) /\ pc' = "commit"
  <2>1. ~AddExisting(cur)
    <3>1. SUFFICES ASSUME roots[cur].upper = Empty, meta.hasOut  PROVE FALSE
      BY DEF AddExisting
    <3> QED BY <1>2, <1>7, <3>1 DEF Packing
  <2> DEFINE u == roots[cur].upper
  <2>2. /\ u # Empty
        /\ mut' = [t \in Types |-> IF t \in TypeSet THEN Append(mut[t], u) ELSE mut[t]]
        /\ hashDirs \subseteq hashDirs'
        /\ roots' = [roots EXCEPT ![cur].upper = Empty]
    BY <1>8, <2>1 DEF GenerateNew
  <2>3. OwnNow(cur) = <<u>>
    BY <1>6, <2>2 DEF Held
  <2> HIDE DEF u
  <2>4. \A t \in TypeSet : mut'[t] = Fresh[cur]
    <3>1. Append(seen, u) = Fresh[cur]
      BY <1>4, <2>3, AppendIs
    <3> QED BY Zenon, <1>3, <1>5, <2>2, <3>1
  <2>5. /\ \A n \in Layers : n # cur => roots'[n] = roots[n]
        /\ roots'[cur].upper = Empty /\ roots'[cur].odDir = roots[cur].odDir
    BY <1>2, <1>3, <2>2 DEF DirFields
  <2>6. \A n \in Layers : n # cur => Untouched(n)
    BY <1>1, <2>2, <2>5, HoldsIf DEF Untouched
  <2>7. /\ Settled' /\ Imported(cur)' /\ Based(cur)'
        /\ UNCHANGED <<cur, TypeSet, Fresh, def, imp, Now(cur), Low(cur), OwnNow(cur)>>
    BY <1>1, <1>8, <2>6, Goes
  <2>8. ImagedNow' /\ LinkedNow'
    BY <1>2, <2>2, <2>5, <2>7 DEF Packing, ImagedNow, Imaged, LinkedNow, Linked
  <2>9. Packed'
    BY <1>2, <2>4, <2>5, <2>7, <2>8 DEF Packed, Packing
  <2> QED BY <1>8, <2>7, <2>9 DEF Underway, Pipeline
<1>9. CASE /\ NothingToAdd(cur)
           /\ pc' = IF mutated \/ \E t \in Types : meta.ods[t] # None THEN "commit" ELSE "config"
           /\ UNCHANGED <<mut, hashDirs, roots>>
  <2>1. roots[cur].upper = Empty /\ OwnNow(cur) = <<>> /\ From[cur] \notin BuildOnly
    BY <1>7, <1>9 DEF NothingToAdd
  <2>2. \A n \in Layers : n # cur => Untouched(n)
    BY <1>1, <1>9, HoldsAll DEF Untouched
  <2>3. pc' \in {"commit", "config"}
    BY <1>9
  <2>4. /\ Settled' /\ Imported(cur)' /\ Based(cur)'
        /\ UNCHANGED <<cur, TypeSet, Fresh, def, imp, Now(cur), Low(cur), OwnNow(cur)>>
    BY <1>1, <2>2, <2>3, Goes
  <2>5. Fresh[cur] = seen
    BY <1>4, <2>1, ConcatNothing
  <2>6. ImagedNow' /\ LinkedNow'
    BY <1>2, <1>9, <2>4 DEF Packing, ImagedNow, LinkedNow
  <2>7. CASE pc' = "commit"
    <3>1. Packed'
      BY <1>2, <1>5, <1>9, <2>1, <2>4, <2>5, <2>6 DEF Packed, Packing
    <3> QED BY <2>4, <2>7, <3>1 DEF Underway, Pipeline
  <2>8. CASE pc' = "config"
    <3>1. \A t \in Types : meta.ods[t] = None
      BY <1>9, <2>8
    <3>2. ImportKind[cur] # "overlay"
      <4>1. PICK t \in TypeSet : t \in Types
        BY TypesNeeded
      <4>2. \A x : <<x>> # None
        BY Zenon, Singles DEF NoContent, IsSeq
      <4> QED BY <1>2, <3>1, <4>1, <4>2 DEF Packing, OdsNow, OdsAre
    <3>3. Fresh[cur] = Low(cur)
      BY Zenon, <1>4, <2>5, <3>2, ConcatNothing DEF seen, OdOf
    <3>4. ImagesAre(refs[cur], TypeSet, Fresh[cur])'
      BY <1>1, <1>2, <2>1, <2>4, <3>3 DEF Packing, StartNow
    <3>5. meta.built \in Seq(Under(cur) \ BuildOnly)
      <4> DEFINE built == meta.built
      <4>1. built \in Seq(Under(cur)) /\ \A i \in 1..Len(built) : built[i] \notin BuildOnly
        BY <1>2, <2>1 DEF Packing, Stack
      <4> HIDE DEF built
      <4>2. Len(built) \in Nat /\ built \in [1..Len(built) -> Under(cur)]
        BY <4>1
      <4>3. built \in [1..Len(built) -> Under(cur) \ BuildOnly]
        BY <4>1, <4>2
      <4>4. built \in Seq(Under(cur) \ BuildOnly)
        BY <4>2, <4>3
      <4> QED BY <4>4 DEF built
    <3>6. Others(meta.manifests, TypeSet) /\ ~meta.hasOut /\ Mounts(meta.manifests, Fresh[cur])
      BY <1>2, <2>1, <3>3 DEF Packing
    <3>7. CommonNow(cur)'
      BY <1>2, <1>9, <2>4, <2>6, <3>1, <3>5, <3>6 DEF CommonNow, Common, ImagedNow, LinkedNow
    <3>8. Fresh[cur] = AllOf(cur, def[cur], imp[cur], Now(cur), Low(cur)) /\ cur \notin BuildOnly
      BY <1>2, FreshIs DEF Orderly, Packing
    <3>9. FullNow(cur)'
      BY <1>9, <2>1, <2>4, <3>6, <3>8 DEF FullNow, Full
    <3>10. Final'
      BY <3>4, <3>7, <3>9 DEF Final
    <3> QED BY <2>4, <2>8, <3>10 DEF Underway, Pipeline
  <2> QED BY <2>3, <2>7, <2>8
<1> QED BY <1>1, <1>8, <1>9

\* Steps that change the image of the layer at hand only.
LEMMA RefsOn ==
  ASSUME Sane, Underway, pc \in {"commit", "config"}, pc' \in {"ownMeta", "put"},
         UNCHANGED <<userVars, copyVars, cache, roots, hashDirs, idx, types>>,
         \A n \in Layers : n # cur => refs'[n] = refs[n]
  PROVE  /\ Settled' /\ Imported(cur)' /\ Based(cur)'
         /\ UNCHANGED <<cur, TypeSet, Fresh, def, imp, Now(cur), Low(cur), OwnNow(cur)>>
<1>1. \A n \in Layers : n # cur => Untouched(n)
  BY HoldsAll DEF Untouched
<1> QED BY <1>1, Goes

LEMMA CommitOn == ASSUME Apart, Sane, Underway, Commit  PROVE Underway'
<1> DEFINE r == [t \in Types |-> IF t \in TypeSet THEN [refs[cur][t] EXCEPT !.layers = mut[t]]
                                ELSE refs[cur][t]]
<1>1. /\ pc = "commit" /\ pc' = "ownMeta"
      /\ UNCHANGED <<userVars, copyVars, cache, roots, hashDirs, mut, idx, types>>
      /\ refs' = [refs EXCEPT ![cur] = r]
  BY DEF Commit, Goto, dirVars, mutVars, runVars
<1>2. Packed /\ cur \in Layers /\ TypeSet \subseteq Types /\ \A t \in TypeSet : refs[cur][t] # None
  BY <1>1, CurIs, TypeSetIs DEF Underway, Pipeline, Sane, Work
<1>3. \A t \in TypeSet : DOMAIN refs[cur][t] = {"layers", "def"}
  BY <1>2 DEF Sane, RefsOK, IsImage
<1>4. ASSUME NEW t \in TypeSet
      PROVE  DOMAIN r[t] = {"layers", "def"} /\ r[t].layers = mut[t]
  <2>1. r[t] = [refs[cur][t] EXCEPT !.layers = mut[t]]
    BY <1>2
  <2> HIDE DEF r
  <2> QED BY <1>3, <2>1
<1> HIDE DEF r
<1>5. ImagesAre(r, TypeSet, Fresh[cur])
  <2>1. \A t \in TypeSet : r[t] # None
    BY <1>4 DEF Apart, ImageFields
  <2> QED BY <1>2, <1>4, <2>1 DEF Packed, ImagesAre
<1>6. refs'[cur] = r /\ \A n \in Layers : n # cur => refs'[n] = refs[n]
  BY <1>1, <1>2 DEF Sane, RefsOK
<1>7. /\ Settled' /\ Imported(cur)' /\ Based(cur)'
      /\ UNCHANGED <<cur, TypeSet, Fresh, def, imp, Now(cur), Low(cur), OwnNow(cur)>>
  BY <1>1, <1>6, RefsOn
<1>8. ImagesAre(refs[cur], TypeSet, Fresh[cur])'
  BY <1>5, <1>6, <1>7
<1>9. Packed'
  BY <1>1, <1>2, <1>7 DEF Packed, ImagedNow, LinkedNow
<1> QED BY <1>1, <1>7, <1>8, <1>9 DEF Underway, Pipeline

LEMMA UpdateOCIConfigOn == ASSUME Apart, Sane, Underway, UpdateOCIConfig  PROVE Underway'
<1> DEFINE r == [t \in Types |-> IF t \in TypeSet THEN [refs[cur][t] EXCEPT !.def = def[cur]]
                                ELSE refs[cur][t]]
<1>1. /\ pc = "config" /\ pc' = "put"
      /\ UNCHANGED <<userVars, copyVars, cache, roots, hashDirs, idx, types>>
      /\ refs' = [refs EXCEPT ![cur] = r]
  BY DEF UpdateOCIConfig, Goto, dirVars, mutVars, runVars
<1>2. Final /\ cur \in Layers /\ TypeSet \subseteq Types /\ \A t \in TypeSet : refs[cur][t] # None
  BY <1>1, CurIs, TypeSetIs DEF Underway, Pipeline, Sane, Work
<1>3. \A t \in TypeSet : DOMAIN refs[cur][t] = {"layers", "def"}
  BY <1>2 DEF Sane, RefsOK, IsImage
<1>4. ASSUME NEW t \in TypeSet
      PROVE  DOMAIN r[t] = {"layers", "def"} /\ r[t].layers = refs[cur][t].layers
  <2>1. r[t] = [refs[cur][t] EXCEPT !.def = def[cur]]
    BY <1>2
  <2> HIDE DEF r
  <2> QED BY <1>3, <2>1
<1> HIDE DEF r
<1>5. cur \notin BuildOnly => ImagesAre(r, TypeSet, Fresh[cur])
  <2>1. \A t \in TypeSet : r[t] # None
    BY <1>4 DEF Apart, ImageFields
  <2> QED BY <1>2, <1>4, <2>1 DEF Final, ImagesAre
<1>6. refs'[cur] = r /\ \A n \in Layers : n # cur => refs'[n] = refs[n]
  BY <1>1, <1>2 DEF Sane, RefsOK
<1>7. /\ Settled' /\ Imported(cur)' /\ Based(cur)'
      /\ UNCHANGED <<cur, TypeSet, Fresh, def, imp, Now(cur), Low(cur), OwnNow(cur)>>
  BY <1>1, <1>6, RefsOn
<1>8. Final'
  BY <1>1, <1>2, <1>5, <1>6, <1>7 DEF Final, CommonNow, FullNow
<1> QED BY <1>1, <1>7, <1>8 DEF Underway, Pipeline

LEMMA WriteOwnMetadataOn ==
  ASSUME Apart, Orderly, NoContent, Sane, Underway, WriteOwnMetadata  PROVE Underway'
<1> DEFINE ms == [t \in Types |-> IF t \in TypeSet THEN mut[t] ELSE None]
           m == [NewOverlayMetadata EXCEPT !.manifests = ms]
<1>1. /\ pc = "ownMeta" /\ pc' = "config"
      /\ UNCHANGED <<userVars, copyVars, cache, refs, hashDirs, idx, types>>
      /\ roots' = [roots EXCEPT ![cur].meta = m]
  BY DEF WriteOwnMetadata, Goto, dirVars, ociVars, runVars
<1>2. Packed /\ ImagesAre(refs[cur], TypeSet, Fresh[cur]) /\ cur \in Layers /\ roots[cur] # None
  BY <1>1, CurIs DEF Underway, Pipeline, Sane, Work
<1>3. /\ \A t \in TypeSet : ms[t] = Fresh[cur]
      /\ \A t \in Types \ TypeSet : ms[t] = None
  BY <1>2, TypesNeeded DEF Packed
<1> HIDE DEF ms
<1>4. /\ DOMAIN m = MetaFields /\ m.built = <<>> /\ m.manifests = ms /\ ~m.hasOut
      /\ \A t \in Types : m.ods[t] = None
  BY IsNewMetadata, IsNewMeta DEF MetaFields
<1> HIDE DEF m
<1>5. m # None
  BY <1>4 DEF Apart
<1>6. /\ \A n \in Layers : n # cur => roots'[n] = roots[n]
      /\ DOMAIN roots'[cur] = DirFields /\ roots'[cur].meta = m
      /\ roots'[cur].upper = roots[cur].upper /\ roots'[cur].odDir = roots[cur].odDir
  BY <1>1, <1>2, CurDir DEF DirFields
<1>7. roots'[cur] # None
  BY <1>6 DEF Apart
<1>8. \A n \in Layers : n # cur => Untouched(n)
  BY <1>1, <1>6, HoldsAll DEF Untouched
<1>9. /\ Settled' /\ Imported(cur)' /\ Based(cur)'
      /\ UNCHANGED <<cur, TypeSet, Fresh, def, imp, Now(cur), Low(cur), OwnNow(cur)>>
  BY <1>1, <1>8, Goes
<1>10. ImagedNow' /\ LinkedNow'
  BY <1>1, <1>2, <1>6, <1>9 DEF Packed, ImagedNow, LinkedNow, Linked
<1>11. Others(ms, TypeSet) /\ Mounts(ms, Fresh[cur])
  <2>1. IsSeq(Fresh[cur])
    BY <1>2, FreshIs DEF Orderly
  <2>2. Fresh[cur] # None
    BY <2>1 DEF NoContent, IsSeq
  <2>3. PICK t \in TypeSet : t \in Types
    BY TypesNeeded
  <2> QED BY <1>3, <2>2, <2>3 DEF Others, Mounts
<1>12. m.built \in Seq(Under(cur) \ BuildOnly)
  BY <1>4
<1>13. CommonNow(cur)'
  BY Zenon, <1>4, <1>5, <1>6, <1>7, <1>9, <1>10, <1>11, <1>12
     DEF CommonNow, Common, ImagedNow, LinkedNow
<1>14. Fresh[cur] = AllOf(cur, def[cur], imp[cur], Now(cur), Low(cur)) /\ cur \notin BuildOnly
  BY <1>2, FreshIs DEF Orderly, Packed
<1>15. FullNow(cur)'
  BY <1>2, <1>4, <1>6, <1>9, <1>11, <1>14 DEF FullNow, Full, Packed
<1>16. Final'
  BY <1>1, <1>2, <1>9, <1>13, <1>15 DEF Final
<1> QED BY <1>1, <1>9, <1>16 DEF Underway, Pipeline

\* What this invocation is through with can be trusted by the next one.
LEMMA MatchSound ==
  ASSUME Orderly, Sane, NEW n \in Layers, Match(n), FullNow(n), From[n] # None => Match(From[n])
  PROVE  Sound(n)
<1> DEFINE e == cache[n]
           below == Fresh[From[n]]
           low == LowOf(n, e.def, e.base, below)
<1>1. /\ MatchEntry(n, e, cache[From[n]]) /\ CommonNow(n)
      /\ From[n] # None => Describes(From[n], cache[From[n]], below)
  BY DEF Match, MatchEntry
<1>2. /\ e.def = def[n] /\ (ImportKind[n] \in {"plain", "overlay"} => e.imp = imp[n])
      /\ e.base = IF From[n] # None THEN cache[From[n]] ELSE Now(n)
      /\ n \notin BuildOnly => ImagesAre(e.manifests, TypeSet, Fresh[n])
  BY <1>1 DEF MatchEntry
<1>3. Image[n][def[n]] # None => e.base = Now(n)
  <2>1. def[n] \in Versions
    BY DEF Sane, InputTypes
  <2>2. Image[n][def[n]] # None => From[n] = None
    BY Zenon, <2>1, BuildAssumption
  <2> QED BY <1>2, <2>2
<1>4. low = Low(n)
  BY <1>2, <1>3 DEF Low, LowOf
<1>5. /\ AllOf(n, def[n], imp[n], Now(n), Low(n)) = AllOf(n, def[n], e.imp, e.base, Low(n))
      /\ OwnOf(n, def[n], imp[n], Now(n), Low(n)) = OwnOf(n, def[n], e.imp, e.base, Low(n))
  BY <1>2, <1>3, PartsSame
<1>6. Fresh[n] = AllOf(n, def[n], imp[n], Now(n), Low(n))
  BY FreshIs DEF Orderly
<1>7. Common(roots[n], hashDirs, TypeSet, n, def[n], e.imp, e.base)
  <2>1. Imaged(n, def[n], Now(n), hashDirs) => Imaged(n, def[n], e.base, hashDirs)
    BY Zenon, <1>3, BuildAssumption DEF Imaged, Images
  <2>2. Linked(roots[n], n, imp[n], TypeSet, hashDirs) => Linked(roots[n], n, e.imp, TypeSet, hashDirs)
    BY <1>2 DEF Linked
  <2> QED BY <1>1, <2>1, <2>2 DEF CommonNow, Common
<1>8. Full(roots[n], TypeSet, n, def[n], e.imp, e.base, Low(n))
  BY <1>5 DEF FullNow, Full
<1>9. n \notin BuildOnly => ImagesAre(e.manifests, TypeSet, AllOf(n, def[n], e.imp, e.base, Low(n)))
  BY <1>2, <1>5, <1>6
<1>10. From[n] # None => Describes(From[n], e.base, below)
  BY <1>1, <1>2
<1> HIDE DEF below, e
<1>11. SoundEntry(n, e, roots[n], hashDirs, TypeSet)
  BY <1>2, <1>4, <1>7, <1>8, <1>9, <1>10 DEF SoundEntry
<1> QED BY <1>11 DEF Sound, e

LEMMA GCOn ==
  ASSUME Orderly, Sane, Underway, GC
  PROVE  /\ \A n \in Layers : Sound(n)'
         /\ \A n \in Layers \ BuildOnly : ImagesAre(refs[n], TypeSet, Fresh[n])'
<1>1. pc = "gc" /\ UNCHANGED <<userVars, cache, roots, hashDirs, refs, types>>
  BY DEF GC, dirVars
<1>2. \A n \in Layers : Match(n) /\ FullNow(n)
  BY <1>1 DEF Underway, Settled, Ready, Spared
<1>3. \A n \in Layers : From[n] # None => From[n] \in Layers
  BY BuildAssumption
<1>4. ASSUME NEW n \in Layers  PROVE Sound(n)'
  <2>1. Sound(n)
    BY <1>2, <1>3, MatchSound
  <2> QED BY <1>1, <2>1, HoldsAll, SoundKept
<1>5. UNCHANGED <<TypeSet, Fresh>>
  BY <1>1, FreshSteady DEF TypeSet
<1>6. \A n \in Layers \ BuildOnly : ImagesAre(refs[n], TypeSet, Fresh[n])
  BY <1>2 DEF Match
<1>7. \A n \in Layers \ BuildOnly : ImagesAre(refs[n], TypeSet, Fresh[n])'
  BY <1>1, <1>5, <1>6
<1> QED BY <1>4, <1>7

\* Whoever trusts nothing, or has what was left as it was left, starts well.
LEMMA StartOn ==
  ASSUME Sane, NEW noCache \in BOOLEAN, Start(noCache),
         noCache \/ (OneTypeSet /\ \A n \in Layers : Sound(n))
  PROVE  Underway'
<1>1. pc' = "import" /\ idx' = 1 /\ types' \in TypeChoices /\ UNCHANGED <<roots, hashDirs>>
  BY DEF Start, dirVars
<1>2. Ready' = {}
  <2>1. 1..0 = {} /\ 1 - 1 = 0
    OBVIOUS
  <2> QED BY <1>1, <2>1 DEF Ready, First
<1>3. ASSUME NEW n \in Layers  PROVE Sound(n)'
  <2>1. CASE noCache
    BY <2>1 DEF Start, Sound
  <2>2. CASE ~noCache
    <3>1. cache'[n] \in {None, cache[n]}
      BY <2>2 DEF Start, Pruned
    <3>2. UNCHANGED TypeSet
      BY Zenon, <1>1, <2>2 DEF OneTypeSet, TypeSet, Sane, RunTypes
    <3> QED BY <1>1, <2>2, <3>1, <3>2, HoldsAll, SoundSame
  <2> QED BY <2>1, <2>2
<1> QED BY <1>1, <1>2, <1>3 DEF Underway, Settled, Pipeline

LEMMA StaysOn == ASSUME Underway, UNCHANGED vars  PROVE Underway'
<1>1. /\ UNCHANGED <<userVars, def, imp, upstream, impDir, bases, cache, roots, hashDirs, refs>>
      /\ UNCHANGED <<pc, mut, k, mutated, idx, types>>
  BY DEF vars, userVars, copyVars, dirVars, ociVars, mutVars, runVars
<1>2. UNCHANGED <<cur, TypeSet, Ready, Fresh>> /\ \A n : Now(n)' = Now(n) /\ Low(n)' = Low(n) /\ OwnNow(n)' = OwnNow(n)
  BY <1>1, FreshSteady DEF cur, TypeSet, Ready
<1>3. \A n : (Based(n) => Based(n)') /\ (Imported(n) => Imported(n)')
  BY <1>1, <1>2 DEF Based, Imported, Source, Cached
<1>4. ASSUME NEW n  PROVE /\ Match(n) => Match(n)'
                          /\ FullNow(n) => FullNow(n)'
                          /\ Sound(n) => Sound(n)'
  BY <1>1, <1>3, HoldsAll, MatchKept, FullKept, SoundKept
<1>5. Settled'
  BY <1>1, <1>2, <1>4 DEF Underway, Settled, Spared, Remaking
<1>6. UNCHANGED <<Now(cur), Low(cur), OwnNow(cur), StartNow, Low(From[cur])>>
  BY <1>1, <1>2 DEF Now, Low, OwnNow, StartNow, Source
<1>7. UNCHANGED <<LiesNow, ImagedNow, LinkedNow, OdsNow, CommonNow(cur), FullNow(cur)>>
  BY <1>1, <1>2, <1>6 DEF LiesNow, Rest, ImagedNow, LinkedNow, OdsNow, CommonNow, FullNow
<1>8. Imported(cur) => Imported(cur)'
  BY <1>1, <1>2 DEF Imported
<1>9. Based(cur) => Based(cur)'
  BY <1>1, <1>2, <1>6 DEF Based, Source, Cached
<1>10. (Laid => Laid') /\ (Mounted => Mounted') /\ (Ran => Ran')
  BY <1>1, <1>2, <1>6, <1>7 DEF Laid, Mounted, Ran
<1>11. (Packing => Packing') /\ (Taking => Taking') /\ (Took => Took')
  BY Zenon, <1>1, <1>2, <1>6, <1>7 DEF Packing, Taking, Took
<1>12. (Packed => Packed') /\ (Final => Final')
  BY <1>1, <1>2, <1>6, <1>7 DEF Packed, Final
<1>13. Pipeline'
  BY <1>1, <1>2, <1>8, <1>9, <1>10, <1>11, <1>12 DEF Underway, Pipeline
<1> QED BY <1>5, <1>13 DEF Underway

-----------------------------------------------------------------------------
(* All steps, and the theorems *)

\* A step of a build that is under way, the last one apart.
LEMMA BuildKeeps ==
  ASSUME Build, ~GC
  PROVE  /\ pc # "idle" /\ cold' = cold /\ UNCHANGED <<userVars, torn>>
         /\ \/ pc' # "idle" /\ outcome' = outcome
            \/ Fail /\ pc' = "idle" /\ outcome' = "failed"
<1>1. CASE Import \/ GetBase \/ Delete \/ Create \/ SetupEmptyRootfs \/ Unpack \/ SetOverlayDirs
  BY <1>1 DEF Import, GetBase, Delete, Create, SetupEmptyRootfs, Unpack, SetOverlayDirs, Goto, runVars,
              dirVars
<1>2. CASE CacheLookup \/ Put \/ Restore
  BY <1>2 DEF CacheLookup, Put, Restore, Goto, runVars, dirVars, NextLayer, Fail
<1>3. CASE RunContainer
  BY Zenon, <1>3 DEF RunContainer, AfterRun, AfterFailedRun, Goto, runVars, dirVars, Fail
<1>4. CASE InitializeBasesInOutput \/ GenerateBuiltLayer \/ WriteBuiltMetadata
  BY Zenon, <1>4 DEF InitializeBasesInOutput, GenerateBuiltLayer, GenerateNew, AddExisting,
                     WriteBuiltMetadata, Goto, runVars, dirVars, Fail
<1>5. CASE GenerateOwnLayer \/ Commit \/ WriteOwnMetadata \/ UpdateOCIConfig
  BY <1>5 DEF GenerateOwnLayer, GenerateNew, AddExisting, Commit, WriteOwnMetadata, UpdateOCIConfig,
              Goto, runVars, dirVars
<1> QED BY <1>1, <1>2, <1>3, <1>4, <1>5 DEF Build, SetupRootfs, Repack

\* It fails only if the run section does.
LEMMA BuildOn ==
  ASSUME Apart, NoContent, Marked, Orderly, Sane, Parts, Intact, Underway, Build, ~GC
  PROVE  \/ Underway' /\ pc' # "idle"
         \/ "run" \in Faults /\ pc' = "idle"
<1>1. CASE Import \/ GetBase \/ Delete \/ Create \/ SetupEmptyRootfs \/ Unpack \/ SetOverlayDirs
  <2>1. pc' # "idle"
    BY <1>1 DEF Import, GetBase, Delete, Create, SetupEmptyRootfs, Unpack, SetOverlayDirs, Goto
  <2> QED BY <1>1, <2>1, ImportOn, GetBaseOn, DeleteOn, CreateOn, SetupEmptyRootfsOn, UnpackOn,
             SetOverlayDirsOn
<1>2. CASE CacheLookup \/ Put \/ Restore
  <2>1. Underway' /\ ~Fail
    BY <1>2, CacheLookupOn, PutOn, RestoreOn
  <2> QED BY <2>1, BuildKeeps
<1>3. CASE RunContainer
  <2>1. (Underway' /\ ~Fail) \/ ("run" \in Faults /\ Fail)
    BY <1>3, RunContainerOn
  <2> QED BY <2>1, BuildKeeps DEF Fail
<1>4. CASE InitializeBasesInOutput \/ GenerateBuiltLayer
  <2>1. Underway' /\ ~Fail
    BY <1>4, InitializeBasesInOutputOn, GenerateBuiltLayerOn
  <2> QED BY <2>1, BuildKeeps
<1>5. CASE WriteBuiltMetadata \/ GenerateOwnLayer \/ Commit \/ WriteOwnMetadata \/ UpdateOCIConfig
  <2>1. pc' # "idle"
    BY Zenon, <1>5 DEF WriteBuiltMetadata, GenerateOwnLayer, Commit, WriteOwnMetadata, UpdateOCIConfig, Goto
  <2> QED BY <1>5, <2>1, WriteBuiltMetadataOn, GenerateOwnLayerOn, CommitOn, WriteOwnMetadataOn,
             UpdateOCIConfigOn
<1> QED BY <1>1, <1>2, <1>3, <1>4, <1>5 DEF Build, SetupRootfs, Repack

LEMMA UserOn ==
  ASSUME Orderly, Fresher,
         \/ \E n \in Layers : EditDefinition(n) \/ EditImport(n)
         \/ \E i \in Pushed : PushImage(i)
  PROVE  Fresher'
<1>1. pc = "idle" /\ pc' = "idle" /\ outcome' = "none" /\ UNCHANGED <<cache, roots, hashDirs, types>>
  BY DEF Orderly, EditDefinition, EditImport, PushImage, dirVars
<1>2. \A n : Sound(n) => Sound(n)'
  BY <1>1, HoldsAll, SoundKept
<1> QED BY <1>1, <1>2 DEF Fresher

\* The steps that make a layer lose no image in layer-bases.
LEMMA NextParts ==
  ASSUME NoContent, Sane, Parts, [Next]_vars  PROVE Parts'
<1> DEFINE Got == {"lookup", "delete", "create", "metadata"}
<1>1. ASSUME UNCHANGED <<bases, torn>>,
             pc' \in Got => pc \in Got /\ UNCHANGED <<def, idx>>
      PROVE  Parts'
  <2>1. BasesFine' /\ \A x \in torn' : DOMAIN x = {"image", "version"}
    BY <1>1 DEF Parts, BasesFine
  <2>2. ASSUME pc' \in Got, Source(cur)' # None  PROVE Cached(cur)' # None
    <3>1. pc \in Got /\ UNCHANGED <<def, idx, bases>>
      BY <1>1, <2>2
    <3>2. UNCHANGED <<Source(cur), Cached(cur)>>
      BY <3>1 DEF Source, Cached, cur
    <3> QED BY <2>2, <3>1, <3>2 DEF Parts
  <2> QED BY <1>1, <2>1, <2>2 DEF Parts
<1>2. CASE \/ \E n \in Layers : EditDefinition(n) \/ EditImport(n)
           \/ \E i \in Pushed : PushImage(i)
           \/ UNCHANGED vars \/ Kill \/ GC
  <2>1. UNCHANGED <<bases, torn>> /\ (pc' \in Got => pc \in Got /\ UNCHANGED <<def, idx>>)
    BY <1>2 DEF EditDefinition, EditImport, PushImage, Kill, GC, Fail, vars, userVars, copyVars,
                dirVars, runVars
  <2> QED BY <1>1, <2>1
<1>3. CASE GetBase
  <2>1. BasesFine' /\ (Source(cur)' # None => Cached(cur)' # None)
    BY <1>3, BasesGot DEF Parts
  <2>2. UNCHANGED torn
    BY <1>3 DEF GetBase, dirVars
  <2> QED BY <2>1, <2>2 DEF Parts
<1>4. CASE \E noCache \in BOOLEAN : Start(noCache)
  <2>1. pc' = "import" /\ UNCHANGED torn /\ \A tag \in Tags : bases'[tag] \in {None, bases[tag]}
    BY <1>4 DEF Start, dirVars
  <2>2. BasesFine'
    BY <2>1 DEF Parts, BasesFine, Tags, Images
  <2> QED BY <2>1, <2>2 DEF Parts
<1>5. CASE KillUnpack
  <2>1. /\ pc' = "idle" /\ pc = "metadata" /\ UNCHANGED bases /\ "kill" \in Faults
        /\ Source(cur) \in Images \ Tars /\ torn' = torn \union {Cached(cur)}
    BY <1>5 DEF KillUnpack, Fail, copyVars
  <2>2. Cached(cur) # None /\ Cached(cur) = bases[TagOf[Source(cur)]] /\ TagOf[Source(cur)] \in Tags
    BY <2>1, NoTar DEF Parts, Cached, Tags
  <2>3. DOMAIN Cached(cur) = {"image", "version"}
    BY <2>2 DEF Parts, BasesFine
  <2>4. BasesFine'
    BY <2>1 DEF Parts, BasesFine
  <2> QED BY <2>1, <2>3, <2>4 DEF Parts
<1>6. CASE Build /\ ~GC /\ ~GetBase
  <2>1. UNCHANGED <<userVars, torn>>
    BY <1>6, BuildKeeps
  <2>2. UNCHANGED bases /\ (pc' \in Got => pc \in Got /\ UNCHANGED idx)
    <3>1. CASE Import \/ Delete \/ Create \/ SetupEmptyRootfs \/ Unpack \/ SetOverlayDirs
      BY <3>1 DEF Import, Delete, Create, SetupEmptyRootfs, Unpack, SetOverlayDirs, Goto, runVars, copyVars
    <3>2. CASE CacheLookup \/ Put \/ Restore
      BY <3>2 DEF CacheLookup, Put, Restore, Goto, runVars, copyVars, NextLayer, Fail
    <3>3. CASE RunContainer
      BY Zenon, <3>3 DEF RunContainer, AfterRun, AfterFailedRun, Goto, runVars, copyVars, Fail
    <3>4. CASE InitializeBasesInOutput \/ GenerateBuiltLayer \/ WriteBuiltMetadata
      <4>1. UNCHANGED bases /\ pc' \in {"idle", "built", "builtMeta"}
        BY <3>4 DEF InitializeBasesInOutput, GenerateBuiltLayer, WriteBuiltMetadata, Goto, copyVars, Fail
      <4> QED BY <4>1
    <3>5. CASE GenerateOwnLayer \/ Commit \/ WriteOwnMetadata \/ UpdateOCIConfig
      BY <3>5 DEF GenerateOwnLayer, Commit, WriteOwnMetadata, UpdateOCIConfig, Goto, runVars, copyVars
    <3> QED BY <1>6, <3>1, <3>2, <3>3, <3>4, <3>5 DEF Build, SetupRootfs, Repack
  <2> QED BY <1>1, <2>1, <2>2 DEF userVars
<1> QED BY <1>2, <1>3, <1>4, <1>5, <1>6 DEF Next

LEMMA NextFresher ==
  ASSUME Apart, NoContent, Marked, Orderly, Sane, Parts, Fresher, [Next]_vars  PROVE Fresher'
<1>1. CASE Build /\ ~GC
  <2>1. /\ pc # "idle" /\ cold' = cold /\ outcome = "running" /\ UNCHANGED <<userVars, torn>>
        /\ \/ pc' # "idle" /\ outcome' = "running"
           \/ pc' = "idle" /\ outcome' = "failed"
    BY <1>1, BuildKeeps DEF Fresher
  <2>2. Trusted' = Trusted
    BY <2>1, IntactKept DEF Trusted
  <2>3. ASSUME Trusted  PROVE (Underway' /\ pc' # "idle") \/ ("run" \in Faults /\ pc' = "idle")
    <3>1. Underway
      BY <2>1, <2>3 DEF Fresher
    <3>2. Intact
      BY <2>3, TrustedIntact
    <3> QED BY <1>1, <3>1, <3>2, BuildOn
  <2>4. Quiet => Trusted /\ pc' # "idle"
    BY <2>3 DEF Quiet, Trusted
  <2> QED BY <2>1, <2>2, <2>3, <2>4 DEF Fresher
<1>2. CASE GC
  <2>1. pc = "gc" /\ pc' = "idle" /\ outcome' = "ok" /\ cold' = cold /\ UNCHANGED <<userVars, torn>>
    BY <1>2 DEF GC, dirVars
  <2>2. Trusted' = Trusted
    BY <2>1, IntactKept DEF Trusted
  <2>3. ASSUME Trusted
        PROVE  /\ \A n \in Layers : Sound(n)'
               /\ \A n \in Layers \ BuildOnly : ImagesAre(refs[n], TypeSet, Fresh[n])'
    <3>1. Underway
      BY <2>1, <2>3 DEF Fresher
    <3> QED BY <1>2, <3>1, GCOn
  <2> QED BY <2>1, <2>2, <2>3 DEF Fresher, Trusted
<1>3. CASE Kill \/ KillUnpack
  <2>1. pc' = "idle" /\ outcome' = "failed" /\ ~Quiet
    BY <1>3 DEF Kill, KillUnpack, Fail, Quiet
  <2> QED BY <2>1 DEF Fresher
<1>4. CASE \E noCache \in BOOLEAN : Start(noCache)
  <2>1. PICK noCache \in BOOLEAN : Start(noCache)
    BY <1>4
  <2>2. pc = "idle" /\ pc' = "import" /\ outcome' = "running" /\ cold' = noCache
    BY <2>1 DEF Start
  <2>3. Trusted' => Underway'
    BY <2>1, <2>2, StartOn DEF Trusted, Fresher, Quiet
  <2> QED BY <2>2, <2>3 DEF Fresher
<1>5. CASE UNCHANGED vars
  <2>1. UNCHANGED <<userVars, torn, cache, roots, hashDirs, refs, types, pc, cold, outcome>>
    BY <1>5 DEF vars, dirVars, ociVars, runVars
  <2>2. UNCHANGED <<TypeSet, Fresh>>
    BY <2>1, FreshSteady DEF TypeSet
  <2>3. \A n : Sound(n) => Sound(n)'
    BY <2>1, HoldsAll, SoundKept
  <2>4. Underway => Underway'
    BY <1>5, StaysOn
  <2> QED BY <2>1, <2>2, <2>3, <2>4, IntactKept DEF Fresher, Trusted
<1> QED BY <1>1, <1>2, <1>3, <1>4, <1>5, UserOn DEF Next

LEMMA InitFresher == Init => Parts /\ Fresher
  BY DEF Init, Parts, BasesFine, Fresher, Sound

\* A build with --no-cache that succeeds gives every requested image the content
\* of a build from nothing, whatever invocations failed, were killed or were of
\* other types before, unless the directory of one of the images it starts from
\* was left half extracted; with any number of layers, versions and invocations.
THEOREM NoCacheIsFresh ==
  ASSUME Apart, NoContent, Marked, Orderly
  PROVE  Spec => []ColdBuildIsFresh
<1>1. Init => Sane /\ Parts /\ Fresher
  BY InitSane, InitFresher
<1>2. Sane /\ Parts /\ Fresher /\ [Next]_vars => (Sane /\ Parts /\ Fresher)'
  BY NextSane, NextParts, NextFresher
<1>3. Sane /\ Fresher => ColdBuildIsFresh
  BY FresherFresh
<1> QED BY <1>1, <1>2, <1>3, PTL DEF Spec

\* With the cache too, if nothing fails or is killed and all invocations are of
\* the same layer types: the cache never takes an image that a build from
\* nothing would not give.
THEOREM CachedIsFresh ==
  ASSUME Apart, NoContent, Marked, Orderly, Quiet
  PROVE  Spec => []ImagesFresh
<1>1. Init => Sane /\ Parts /\ Fresher
  BY InitSane, InitFresher
<1>2. Sane /\ Parts /\ Fresher /\ [Next]_vars => (Sane /\ Parts /\ Fresher)'
  BY NextSane, NextParts, NextFresher
<1>3. Sane /\ Fresher => ImagesFresh
  BY FresherFresh
<1> QED BY <1>1, <1>2, <1>3, PTL DEF Spec

\* Under the same conditions no invocation fails: every base that is hashed is
\* in the cache, every directory that is mounted and every image that is built
\* on is there.
THEOREM NothingFails ==
  ASSUME Apart, NoContent, Marked, Orderly, Quiet
  PROVE  Spec => []NoSpuriousFailure
<1>1. Init => Sane /\ Parts /\ Fresher
  BY InitSane, InitFresher
<1>2. Sane /\ Parts /\ Fresher /\ [Next]_vars => (Sane /\ Parts /\ Fresher)'
  BY NextSane, NextParts, NextFresher
<1>3. Sane /\ Fresher => NoSpuriousFailure
  BY FresherFresh
<1> QED BY <1>1, <1>2, <1>3, PTL DEF Spec
=============================================================================
