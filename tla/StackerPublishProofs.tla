------------------------ MODULE StackerPublishProofs ------------------------
(***************************************************************************)
(* Proofs about StackerPublish for any stackerfile, layer types and number *)
(* of invocations: the type invariant, when build.cache can become         *)
(* unreadable (UnreadableIsExplained), that a publish does no harm to a    *)
(* build that will not open the cache again (RunningBuildUnharmed), and    *)
(* that what is published belongs to the stackerfile (PublishedIsFresh).   *)
(*                                                                         *)
(* The definitions by recursion along the chain of bases are shown to obey *)
(* their equations first: Order puts bases first, so a function that obeys *)
(* them can be put together layer by layer.                                *)
(***************************************************************************)
EXTENDS StackerPublish, WellFoundedInduction, TLAPS

\* The layers up to the k-th.
First(k) == {Order[i] : i \in 1..k}

\* The markers are values of their own: no entry of a cache, no cache.
Apart ==
  /\ \A d, b, m : [def |-> d, base |-> b, manifests |-> m] # None
  /\ \A c : DOMAIN c = Layers => c \notin {None, Cut, Garbled}
  /\ None # LookupError

-----------------------------------------------------------------------------
(* Induction *)

LEMMA NatSets ==
  ASSUME NEW S \in SUBSET Nat, 0 \in S, \A k \in S : k + 1 \in S
  PROVE  S = Nat
<1> DEFINE R == OpToRel(<, Nat)
           T == Nat \ S
<1>1. IsWellFoundedOn(R, Nat)
  BY NatLessThanWellFounded
<1>2. \A x, y \in Nat : <<y, x>> \in R <=> y < x
  BY DEF OpToRel
<1> HIDE DEF R
<1>3. SUFFICES ASSUME T # {}  PROVE FALSE
  OBVIOUS
<1>4. PICK x \in T : \A y \in T : ~(<<y, x>> \in R)
  <2>1. T \subseteq Nat
    OBVIOUS
  <2> HIDE DEF T
  <2> QED BY <1>1, <1>3, <2>1, WFMin
<1>5. x \in Nat /\ x # 0 /\ x - 1 \in Nat /\ x - 1 < x /\ (x - 1) + 1 = x
  OBVIOUS
<1>6. x - 1 \notin T
  BY <1>2, <1>4, <1>5
<1>7. x \in S
  BY <1>5, <1>6
<1> QED BY <1>4, <1>7

\* Order puts the layers one by one, each after its base.
LEMMA Ranked ==
  /\ Len(Order) \in Nat /\ Len(Order) >= 1
  /\ First(0) = {} /\ First(Len(Order)) = Layers
  /\ \A k \in Nat : k <= Len(Order) => First(k) \subseteq Layers
  /\ \A k \in Nat : k < Len(Order) =>
       /\ First(k + 1) = First(k) \union {Order[k + 1]}
       /\ Order[k + 1] \in Layers /\ Order[k + 1] \notin First(k)
  /\ \A k \in Nat : k <= Len(Order) =>
       \A n \in First(k) : From[n] # None => From[n] \in First(k)
  /\ \A k \in Nat : k < Len(Order) =>
       (From[Order[k + 1]] # None => From[Order[k + 1]] \in First(k))
<1> DEFINE N == Len(Order)
<1>1. /\ Order \in Seq(Layers) /\ N \in Nat
      /\ \A i \in 1..N : Order[i] \in Layers
  BY PublishAssumption
<1>2. \A n \in Layers : \E i \in 1..N : Order[i] = n
  BY PublishAssumption
<1>3. \A i, j \in 1..N : i # j => Order[i] # Order[j]
  BY PublishAssumption
<1>4. \A i \in 1..N : From[Order[i]] # None => \E j \in 1..(i - 1) : Order[j] = From[Order[i]]
  BY PublishAssumption
<1>5. N >= 1
  <2>1. Layers # {}
    BY PublishAssumption
  <2> QED BY <1>1, <1>2, <2>1
<1>6. First(0) = {} /\ First(N) = Layers
  BY <1>1, <1>2 DEF First
<1> HIDE DEF N
<1>7. ASSUME NEW k \in Nat, k <= N  PROVE First(k) \subseteq Layers
  <2>1. \A i \in 1..k : i \in 1..N
    BY <1>1, <1>7
  <2> QED BY <1>1, <2>1 DEF First
<1>8. ASSUME NEW k \in Nat, k < N
      PROVE  /\ First(k + 1) = First(k) \union {Order[k + 1]}
             /\ Order[k + 1] \in Layers /\ Order[k + 1] \notin First(k)
  <2>1. 1..(k + 1) = (1..k) \union {k + 1} /\ k + 1 \in 1..N
    BY <1>1, <1>8
  <2>2. \A i \in 1..k : i \in 1..N /\ i # k + 1
    BY <1>1, <1>8
  <2> QED BY <1>1, <1>3, <2>1, <2>2 DEF First
<1>9. ASSUME NEW k \in Nat, k <= N, NEW n \in First(k), From[n] # None
      PROVE  From[n] \in First(k)
  <2>1. PICK i \in 1..k : n = Order[i]
    BY DEF First
  <2>2. i \in 1..N
    BY <1>1, <1>9
  <2>3. PICK j \in 1..(i - 1) : Order[j] = From[n]
    BY <1>4, <1>9, <2>1, <2>2
  <2>4. j \in 1..k
    BY <1>1, <1>9
  <2> QED BY <2>3, <2>4 DEF First
<1>10. ASSUME NEW k \in Nat, k < N, From[Order[k + 1]] # None
       PROVE  From[Order[k + 1]] \in First(k)
  <2>1. k + 1 \in 1..N /\ (k + 1) - 1 = k
    BY <1>1, <1>10
  <2> QED BY <1>4, <1>10, <2>1 DEF First
<1> QED BY <1>1, <1>5, <1>6, <1>7, <1>8, <1>9, <1>10 DEF N

\* What holds of a layer when it holds of its base holds of all.
LEMMA LayerInduction ==
  ASSUME NEW S,
         \A n \in Layers : (From[n] # None => From[n] \in S) => n \in S
  PROVE  Layers \subseteq S
<1> DEFINE K == {k \in Nat : k <= Len(Order) => First(k) \subseteq S}
<1>1. 0 \in K
  BY Ranked
<1>2. ASSUME NEW k \in K  PROVE k + 1 \in K
  <2>1. CASE k < Len(Order)
    BY <1>2, <2>1, Ranked
  <2>2. CASE ~(k < Len(Order))
    BY <1>2, <2>2, Ranked
  <2> QED BY <2>1, <2>2
<1>3. K = Nat
  <2>1. K \in SUBSET Nat
    OBVIOUS
  <2> HIDE DEF K
  <2> QED BY <1>1, <1>2, <2>1, NatSets
<1>4. Len(Order) \in K
  BY <1>3, Ranked
<1> QED BY <1>4, Ranked

-----------------------------------------------------------------------------
(* The recursive definitions *)

LEMMA FreshDef ==
  ASSUME NEW d
  PROVE  Fresh(d) = [n \in Layers |->
           Append(IF From[n] = None THEN <<>> ELSE Fresh(d)[From[n]], d[n])]
<1> DEFINE Step(g, n) == Append(IF From[n] = None THEN <<>> ELSE g[From[n]], d[n])
           K == {k \in Nat : k <= Len(Order) => \E g : g = [n \in First(k) |-> Step(g, n)]}
<1>1. 0 \in K
  <2>1. \A g : g = [n \in {} |-> Step(g, n)] <=> g = [n \in {} |-> 0]
    OBVIOUS
  <2> QED BY <2>1, Ranked
<1>2. ASSUME NEW k \in K  PROVE k + 1 \in K
  <2>1. CASE k < Len(Order)
    <3>1. PICK g : g = [n \in First(k) |-> Step(g, n)]
      BY <1>2, <2>1, Ranked
    <3> DEFINE h == [n \in First(k + 1) |-> IF n \in First(k) THEN g[n] ELSE Step(g, n)]
    <3>2. ASSUME NEW n \in First(k + 1)  PROVE h[n] = Step(h, n)
      <4>1. CASE n \in First(k)
        <5>1. First(k) \subseteq First(k + 1) /\ (From[n] # None => From[n] \in First(k))
          BY <1>2, <2>1, <4>1, Ranked
        <5>2. h[n] = g[n] /\ (From[n] # None => h[From[n]] = g[From[n]])
          BY <4>1, <5>1
        <5>3. g[n] = Step(g, n)
          BY <3>1, <4>1
        <5> QED BY <5>2, <5>3
      <4>2. CASE n \notin First(k)
        <5>1. /\ n = Order[k + 1] /\ First(k) \subseteq First(k + 1)
              /\ From[n] # None => From[n] \in First(k)
          BY <1>2, <2>1, <4>2, Ranked
        <5>2. h[n] = Step(g, n) /\ (From[n] # None => h[From[n]] = g[From[n]])
          BY <4>2, <5>1
        <5> QED BY <5>2
      <4> QED BY <4>1, <4>2
    <3>3. h = [n \in First(k + 1) |-> Step(h, n)]
      BY <3>2
    <3> HIDE DEF h
    <3> QED BY <1>2, <3>3
  <2>2. CASE ~(k < Len(Order))
    BY <1>2, <2>2, Ranked
  <2> QED BY <2>1, <2>2
<1>3. K = Nat
  <2>1. K \in SUBSET Nat
    OBVIOUS
  <2> HIDE DEF K
  <2> QED BY <1>1, <1>2, <2>1, NatSets
<1>4. Len(Order) \in K
  BY <1>3, Ranked
<1>5. PICK g : g = [n \in Layers |-> Step(g, n)]
  BY <1>4, Ranked
<1> QED BY <1>5 DEF Fresh

LEMMA FirstBaseDef ==
  FirstBaseInOutput = [n \in Layers |->
    IF From[n] = None THEN None
    ELSE IF From[n] \notin BuildOnly THEN From[n] ELSE FirstBaseInOutput[From[n]]]
<1> DEFINE Step(g, n) == IF From[n] = None THEN None
                         ELSE IF From[n] \notin BuildOnly THEN From[n] ELSE g[From[n]]
           K == {k \in Nat : k <= Len(Order) => \E g : g = [n \in First(k) |-> Step(g, n)]}
<1>1. 0 \in K
  <2>1. \A g : g = [n \in {} |-> Step(g, n)] <=> g = [n \in {} |-> 0]
    OBVIOUS
  <2> QED BY <2>1, Ranked
<1>2. ASSUME NEW k \in K  PROVE k + 1 \in K
  <2>1. CASE k < Len(Order)
    <3>1. PICK g : g = [n \in First(k) |-> Step(g, n)]
      BY <1>2, <2>1, Ranked
    <3> DEFINE h == [n \in First(k + 1) |-> IF n \in First(k) THEN g[n] ELSE Step(g, n)]
    <3>2. ASSUME NEW n \in First(k + 1)  PROVE h[n] = Step(h, n)
      <4>1. CASE n \in First(k)
        <5>1. First(k) \subseteq First(k + 1) /\ (From[n] # None => From[n] \in First(k))
          BY <1>2, <2>1, <4>1, Ranked
        <5>2. h[n] = g[n] /\ (From[n] # None => h[From[n]] = g[From[n]])
          BY <4>1, <5>1
        <5>3. g[n] = Step(g, n)
          BY <3>1, <4>1
        <5> QED BY <5>2, <5>3
      <4>2. CASE n \notin First(k)
        <5>1. /\ n = Order[k + 1] /\ First(k) \subseteq First(k + 1)
              /\ From[n] # None => From[n] \in First(k)
          BY <1>2, <2>1, <4>2, Ranked
        <5>2. h[n] = Step(g, n) /\ (From[n] # None => h[From[n]] = g[From[n]])
          BY <4>2, <5>1
        <5> QED BY <5>2
      <4> QED BY <4>1, <4>2
    <3>3. h = [n \in First(k + 1) |-> Step(h, n)]
      BY <3>2
    <3> HIDE DEF h
    <3> QED BY <1>2, <3>3
  <2>2. CASE ~(k < Len(Order))
    BY <1>2, <2>2, Ranked
  <2> QED BY <2>1, <2>2
<1>3. K = Nat
  <2>1. K \in SUBSET Nat
    OBVIOUS
  <2> HIDE DEF K
  <2> QED BY <1>1, <1>2, <2>1, NatSets
<1>4. Len(Order) \in K
  BY <1>3, Ranked
<1>5. PICK g : g = [n \in Layers |-> Step(g, n)]
  BY <1>4, Ranked
<1> QED BY <1>5 DEF FirstBaseInOutput

LEMMA LookupDef ==
  ASSUME NEW c, NEW d
  PROVE  Lookup(c, d) = [n \in Layers |->
           LET baseHash == IF From[n] = None THEN None ELSE Lookup(c, d)[From[n]] IN
           IF c[n] = None THEN None
           ELSE IF c[n].def # d[n] THEN None
           ELSE IF From[n] # None /\ baseHash \in {None, LookupError} THEN LookupError
           ELSE IF baseHash # c[n].base THEN None
           ELSE c[n]]
<1> DEFINE Step(g, n) == LET baseHash == IF From[n] = None THEN None ELSE g[From[n]] IN
                         IF c[n] = None THEN None
                         ELSE IF c[n].def # d[n] THEN None
                         ELSE IF From[n] # None /\ baseHash \in {None, LookupError}
                         THEN LookupError
                         ELSE IF baseHash # c[n].base THEN None
                         ELSE c[n]
           K == {k \in Nat : k <= Len(Order) => \E g : g = [n \in First(k) |-> Step(g, n)]}
<1>1. 0 \in K
  <2>1. \A g : g = [n \in {} |-> Step(g, n)] <=> g = [n \in {} |-> 0]
    OBVIOUS
  <2> QED BY <2>1, Ranked
<1>2. ASSUME NEW k \in K  PROVE k + 1 \in K
  <2>1. CASE k < Len(Order)
    <3>1. PICK g : g = [n \in First(k) |-> Step(g, n)]
      BY <1>2, <2>1, Ranked
    <3> DEFINE h == [n \in First(k + 1) |-> IF n \in First(k) THEN g[n] ELSE Step(g, n)]
    <3>2. ASSUME NEW n \in First(k + 1)  PROVE h[n] = Step(h, n)
      <4>1. CASE n \in First(k)
        <5>1. First(k) \subseteq First(k + 1) /\ (From[n] # None => From[n] \in First(k))
          BY <1>2, <2>1, <4>1, Ranked
        <5>2. h[n] = g[n] /\ (From[n] # None => h[From[n]] = g[From[n]])
          BY <4>1, <5>1
        <5>3. g[n] = Step(g, n)
          BY <3>1, <4>1
        <5> QED BY <5>2, <5>3
      <4>2. CASE n \notin First(k)
        <5>1. /\ n = Order[k + 1] /\ First(k) \subseteq First(k + 1)
              /\ From[n] # None => From[n] \in First(k)
          BY <1>2, <2>1, <4>2, Ranked
        <5>2. h[n] = Step(g, n) /\ (From[n] # None => h[From[n]] = g[From[n]])
          BY <4>2, <5>1
        <5> QED BY <5>2
      <4> QED BY <4>1, <4>2
    <3>3. h = [n \in First(k + 1) |-> Step(h, n)]
      BY <3>2
    <3> HIDE DEF h
    <3> QED BY <1>2, <3>3
  <2>2. CASE ~(k < Len(Order))
    BY <1>2, <2>2, Ranked
  <2> QED BY <2>1, <2>2
<1>3. K = Nat
  <2>1. K \in SUBSET Nat
    OBVIOUS
  <2> HIDE DEF K
  <2> QED BY <1>1, <1>2, <2>1, NatSets
<1>4. Len(Order) \in K
  BY <1>3, Ranked
<1>5. PICK g : g = [n \in Layers |-> Step(g, n)]
  BY <1>4, Ranked
<1> QED BY <1>5 DEF Lookup

LEMMA FreshAt ==
  ASSUME NEW d, NEW n \in Layers
  PROVE  Fresh(d)[n] = Append(IF From[n] = None THEN <<>> ELSE Fresh(d)[From[n]], d[n])
  BY FreshDef

\* A hit, and what it says of the entry.
Hit(c, d, n) == Lookup(c, d)[n] \notin {None, LookupError}

LEMMA HitMeans ==
  ASSUME NEW c, NEW d, NEW n \in Layers, Hit(c, d, n)
  PROVE  /\ Lookup(c, d)[n] = c[n] /\ c[n] # None /\ c[n].def = d[n]
         /\ From[n] # None => Hit(c, d, From[n]) /\ c[n].base = Lookup(c, d)[From[n]]
  BY LookupDef DEF Hit

LEMMA HitIf ==
  ASSUME NEW c, NEW d, NEW n \in Layers, c[n] \notin {None, LookupError}, c[n].def = d[n],
         From[n] = None => c[n].base = None,
         From[n] # None => Hit(c, d, From[n]) /\ c[n].base = Lookup(c, d)[From[n]]
  PROVE  Hit(c, d, n)
  BY LookupDef DEF Hit

LEMMA ErrorMeans ==
  ASSUME NEW c, NEW d, NEW n \in Layers, Lookup(c, d)[n] = LookupError, c[n] # LookupError,
         None # LookupError
  PROVE  From[n] # None /\ ~Hit(c, d, From[n])
  BY LookupDef DEF Hit

\* Whether a layer is in the cache is a matter of the layers before it.
LEMMA LookupAgrees ==
  ASSUME NEW c, NEW g, NEW d, NEW k \in Nat, k <= Len(Order), \A m \in First(k) : c[m] = g[m]
  PROVE  \A n \in First(k) : Lookup(c, d)[n] = Lookup(g, d)[n]
<1> DEFINE S == {n \in Layers : n \in First(k) => Lookup(c, d)[n] = Lookup(g, d)[n]}
<1>1. ASSUME NEW n \in Layers, From[n] # None => From[n] \in S  PROVE n \in S
  <2>1. SUFFICES ASSUME n \in First(k)  PROVE Lookup(c, d)[n] = Lookup(g, d)[n]
    OBVIOUS
  <2>2. c[n] = g[n] /\ (From[n] # None => Lookup(c, d)[From[n]] = Lookup(g, d)[From[n]])
    BY <1>1, <2>1, Ranked
  <2> QED BY <2>2, LookupDef
<1>2. Layers \subseteq S
  <2> HIDE DEF S
  <2> QED BY <1>1, LayerInduction
<1> QED BY <1>2, Ranked

\* Equal entries stand for equal contents, whatever is around them.
LEMMA SameEntry ==
  ASSUME NEW c, NEW d, NEW g, NEW e
  PROVE  \A n \in Layers : Hit(c, d, n) /\ Hit(g, e, n) /\ c[n] = g[n] =>
                             Fresh(d)[n] = Fresh(e)[n]
<1> DEFINE S == {n \in Layers : Hit(c, d, n) /\ Hit(g, e, n) /\ c[n] = g[n] =>
                                 Fresh(d)[n] = Fresh(e)[n]}
<1>1. ASSUME NEW n \in Layers, From[n] # None => From[n] \in S  PROVE n \in S
  <2>1. SUFFICES ASSUME Hit(c, d, n), Hit(g, e, n), c[n] = g[n]
                 PROVE  Fresh(d)[n] = Fresh(e)[n]
    OBVIOUS
  <2>2. d[n] = e[n]
    BY <2>1, HitMeans
  <2>3. CASE From[n] = None
    BY <2>2, <2>3, FreshAt
  <2>4. CASE From[n] # None
    <3>1. From[n] \in Layers
      BY <1>1, <2>4
    <3>2. Hit(c, d, From[n]) /\ Hit(g, e, From[n])
      BY <2>1, <2>4, HitMeans
    <3>3. c[From[n]] = g[From[n]]
      <4>1. c[From[n]] = Lookup(c, d)[From[n]] /\ g[From[n]] = Lookup(g, e)[From[n]]
        BY <3>1, <3>2, HitMeans
      <4>2. c[n].base = Lookup(c, d)[From[n]] /\ g[n].base = Lookup(g, e)[From[n]]
        BY <2>1, <2>4, HitMeans
      <4> QED BY <2>1, <4>1, <4>2
    <3>4. Fresh(d)[From[n]] = Fresh(e)[From[n]]
      BY <1>1, <2>4, <3>2, <3>3
    <3> QED BY <2>2, <2>4, <3>4, FreshAt
  <2> QED BY <2>3, <2>4
<1>2. Layers \subseteq S
  <2> HIDE DEF S
  <2> QED BY <1>1, LayerInduction
<1> QED BY <1>2

\* x is what an entry e of n stands for.
StandsFor(n, e, x) == \A c, d : Hit(c, d, n) /\ c[n] = e => x = Fresh(d)[n]

LEMMA Stands ==
  ASSUME NEW c, NEW d, NEW n \in Layers, Hit(c, d, n)
  PROVE  StandsFor(n, c[n], Fresh(d)[n])
  BY SameEntry DEF StandsFor

\* The nearest base in the output is an earlier layer that is not build-only.
LEMMA FirstBaseIs ==
  ASSUME NEW n \in Layers, FirstBaseInOutput[n] # None
  PROVE  /\ FirstBaseInOutput[n] \in Layers \ BuildOnly
         /\ From[n] # None
         /\ \A k \in Nat : k <= Len(Order) /\ From[n] \in First(k) =>
                             FirstBaseInOutput[n] \in First(k)
<1> DEFINE Q(m) == FirstBaseInOutput[m] # None =>
                     /\ FirstBaseInOutput[m] \in Layers \ BuildOnly
                     /\ From[m] # None
                     /\ \A k \in Nat : k <= Len(Order) /\ From[m] \in First(k) =>
                                         FirstBaseInOutput[m] \in First(k)
           S == {m \in Layers : Q(m)}
<1>1. ASSUME NEW m \in Layers, From[m] # None => From[m] \in S  PROVE m \in S
  <2>1. CASE From[m] = None
    <3>1. FirstBaseInOutput[m] = None
      BY <2>1, FirstBaseDef
    <3> QED BY <3>1
  <2>2. CASE From[m] # None /\ From[m] \notin BuildOnly
    <3>1. FirstBaseInOutput[m] = From[m] /\ From[m] \in Layers
      BY <1>1, <2>2, FirstBaseDef
    <3> QED BY <2>2, <3>1
  <2>3. CASE From[m] # None /\ From[m] \in BuildOnly
    <3>1. FirstBaseInOutput[m] = FirstBaseInOutput[From[m]] /\ Q(From[m])
      BY <1>1, <2>3, FirstBaseDef
    <3>2. \A k \in Nat : k <= Len(Order) /\ From[m] \in First(k) /\ From[From[m]] # None =>
                          From[From[m]] \in First(k)
      BY Ranked
    <3> QED BY <2>3, <3>1, <3>2
  <2> QED BY <2>1, <2>2, <2>3
<1>2. Layers \subseteq S
  <2> HIDE DEF S
  <2> QED BY <1>1, LayerInduction
<1>3. Q(n)
  BY <1>2
<1> QED BY <1>3

-----------------------------------------------------------------------------
(* Types *)

LEMMA ContentFacts ==
  /\ <<>> \in Contents /\ None \notin Contents
  /\ \A s \in Contents, v \in Versions : Append(s, v) \in Contents
  BY PublishAssumption DEF Contents

SharedTypes ==
  /\ def \in [Layers -> Versions]
  /\ file \in {None} \union Unreadable \/ IsCache(file)
  /\ roots \in [Layers -> Contents \union {None}]
  /\ tags \in [Layers -> [Types -> Contents \union {None}]]
  /\ blobs \subseteq Types \X Contents
  /\ dest \in [Layers -> [Types -> Contents \union {None}]]

BuilderTypes ==
  /\ IsCache(bmem)
  /\ bpc \in {"idle", "pruned", "writePruned", "lookup", "delete", "rootfs",
              "bases", "commit", "put", "persist", "write", "gc", "reopen"}
  /\ bout \in {"none", "ok", "failed", "killed"}
  /\ bidx \in 1..Len(Order)
  /\ btypes \subseteq Types
  /\ builds \in 0..MaxBuilds
  /\ bpc \in {"bases", "commit"} => roots[cur] # None
  /\ bpc = "reopen" => bidx < Len(Order)

PublisherTypes ==
  /\ psf \in [Layers -> Versions]
  /\ IsCache(pmem)
  /\ ppc \in {"idle", "check", "write", "args", "layer", "type", "copy"}
  /\ pidx \in 1..(Len(Order) + 1)
  /\ ptypes \subseteq Types
  /\ ptodo \subseteq Layers \/ ptodo \subseteq Types
  /\ ppc = "copy" => psrc \in Types \X Contents
  /\ publishes \in 0..MaxPublishes
  /\ ppc \in {"type", "copy"} => pidx <= Len(Order)

\* The type invariant made inductive: the index of the layer being copied is
\* one, and the layer being packed has a root filesystem.
Typed == SharedTypes /\ BuilderTypes /\ PublisherTypes

LEMMA TypedTypeOK == Typed => TypeOK
  BY DEF Typed, SharedTypes, BuilderTypes, PublisherTypes, TypeOK

LEMMA SharedTypesKept ==
  SharedTypes /\ UNCHANGED <<def, file, roots, tags, blobs, dest>> => SharedTypes'
  BY DEF SharedTypes, IsCache

LEMMA BuilderTypesKept ==
  BuilderTypes /\ UNCHANGED <<roots, bpc, bmem, buildVars>> => BuilderTypes'
  BY DEF BuilderTypes, IsCache, buildVars, cur

LEMMA PublisherTypesKept ==
  PublisherTypes /\ UNCHANGED pubVars => PublisherTypes'
  BY DEF PublisherTypes, IsCache, pubVars, pubArgs

LEMMA EmptyIsCache == IsCache(EmptyCache)
  BY DEF IsCache, EmptyCache

LEMMA CurIs == BuilderTypes => cur \in Layers /\ bidx \in Nat /\ bidx <= Len(Order)
  <1>1. BuilderTypes => bidx \in Nat /\ bidx - 1 \in Nat /\ bidx - 1 < Len(Order) /\ (bidx - 1) + 1 = bidx /\ bidx <= Len(Order)
    BY Ranked DEF BuilderTypes
  <1> QED BY <1>1, Ranked DEF cur

LEMMA InitTyped == Init => Typed
<1> SUFFICES ASSUME Init  PROVE Typed
  OBVIOUS
<1>1. (CHOOSE v \in Versions : TRUE) \in Versions
  BY PublishAssumption
<1>2. IsCache(bmem) /\ IsCache(pmem)
  BY EmptyIsCache DEF Init
<1>3. SharedTypes
  BY <1>1 DEF Init, SharedTypes
<1>4. BuilderTypes
  BY <1>2, Ranked, PublishAssumption DEF Init, BuilderTypes
<1>5. PublisherTypes
  BY <1>1, <1>2, Ranked, PublishAssumption DEF Init, PublisherTypes
<1> QED BY <1>3, <1>4, <1>5 DEF Typed

\* How a builder step leaves the builder.
LEMMA BExitTyped ==
  ASSUME Typed, NEW how \in {"ok", "failed", "killed"}, BExit(how)  PROVE BuilderTypes'
  BY EmptyIsCache, Ranked DEF Typed, BuilderTypes, BExit, IsCache, EmptyCache

LEMMA BGotoTyped ==
  ASSUME Typed, NEW label, BGoto(label),
         label \in {"idle", "pruned", "writePruned", "lookup", "delete", "rootfs",
                    "bases", "commit", "put", "persist", "write", "gc", "reopen"},
         label \in {"bases", "commit"} => roots'[cur] # None,
         label = "reopen" => bidx < Len(Order)
  PROVE  BuilderTypes'
<1>1. IsCache(bmem)' /\ cur' = cur
  BY DEF Typed, BuilderTypes, BGoto, buildVars, IsCache, cur
<1> QED BY <1>1 DEF Typed, BuilderTypes, BGoto, buildVars

LEMMA BNextTyped == ASSUME Typed, BNext  PROVE BuilderTypes'
<1>1. IsCache(bmem)'
  BY DEF Typed, BuilderTypes, BNext, IsCache
<1>2. bidx' \in 1..Len(Order)
  BY Ranked DEF Typed, BuilderTypes, BNext
<1>3. bpc' \in {"gc", "lookup"}
  BY DEF BNext
<1> QED BY <1>1, <1>2, <1>3 DEF Typed, BuilderTypes, BNext

LEMMA WriteTyped ==
  ASSUME NEW c, NEW g, c \in {Garbled, g} \/ c = Cut, IsCache(g)
  PROVE  c \in {None} \union Unreadable \/ IsCache(c)
  BY DEF Unreadable

LEMMA EditTyped == ASSUME Typed, NEW n \in Layers, EditDefinition(n)  PROVE Typed'
<1>1. SharedTypes'
  BY DEF Typed, SharedTypes, EditDefinition, IsCache
<1>2. BuilderTypes'
  BY DEF Typed, BuilderTypes, EditDefinition, IsCache, cur
<1> QED BY <1>1, <1>2, PublisherTypesKept DEF Typed, EditDefinition

LEMMA BOpenCacheTyped ==
  ASSUME Typed, NEW k \in 1..Len(Order), BOpenCache(k), btypes' \subseteq Types,
         builds' \in 0..MaxBuilds
  PROVE  Typed'
<1> DEFINE read == IF file = None THEN EmptyCache ELSE file
           kept == [n \in Layers |-> IF read[n] = None THEN None
                                     ELSE IF StillThere(n, read[n]) THEN read[n]
                                     ELSE None]
<1>1. SharedTypes' /\ PublisherTypes'
  BY SharedTypesKept, PublisherTypesKept DEF Typed, BOpenCache
<1>2. CASE file \in Unreadable
  <2>1. IsCache(bmem')
    BY <1>2, EmptyIsCache DEF BOpenCache
  <2>2. IsCache(bmem)'
    BY <2>1 DEF IsCache
  <2>3. bpc' = "idle" /\ bidx' = 1 /\ bout' = "failed"
    BY <1>2 DEF BOpenCache
  <2> QED BY <1>1, <2>2, <2>3, Ranked DEF Typed, BuilderTypes
<1>3. CASE file \notin Unreadable
  <2>1. IsCache(read)
    BY <1>3, EmptyIsCache DEF Typed, SharedTypes
  <2>2. IsCache(kept)
    <3> HIDE DEF read
    <3> QED BY <2>1 DEF IsCache
  <2>3. bmem' = kept /\ bpc' \in {"lookup", "pruned"} /\ bout' = "none" /\ bidx' = k
    BY <1>3 DEF BOpenCache
  <2>4. IsCache(bmem)'
    <3> HIDE DEF kept
    <3> QED BY <2>2, <2>3 DEF IsCache
  <2> HIDE DEF kept
  <2> QED BY <1>1, <2>3, <2>4 DEF Typed, BuilderTypes
<1> QED BY <1>2, <1>3

LEMMA BStartTyped == ASSUME Typed, BStart  PROVE Typed'
<1>1. btypes' \in TypeChoices /\ builds < MaxBuilds /\ builds' = builds + 1 /\ BOpenCache(1)
  BY DEF BStart
<1>2. btypes' \subseteq Types
  BY <1>1, PublishAssumption
<1>3. builds' \in 0..MaxBuilds
  BY <1>1, PublishAssumption DEF Typed, BuilderTypes
<1>4. 1 \in 1..Len(Order)
  BY Ranked
<1> QED BY <1>1, <1>2, <1>3, <1>4, BOpenCacheTyped

LEMMA BReopenTyped == ASSUME Typed, BReopen  PROVE Typed'
<1>1. bpc = "reopen" /\ UNCHANGED <<btypes, builds>> /\ BOpenCache(bidx + 1)
  BY DEF BReopen
<1>2. bidx \in 1..Len(Order) /\ bidx < Len(Order)
  BY <1>1 DEF Typed, BuilderTypes
<1>3. bidx + 1 \in 1..Len(Order)
  BY <1>2, Ranked
<1> DEFINE k == bidx + 1
<1> HIDE DEF k
<1>4. k \in 1..Len(Order) /\ BOpenCache(k)
  BY <1>1, <1>3 DEF k
<1>5. btypes' \subseteq Types /\ builds' \in 0..MaxBuilds
  BY <1>1 DEF Typed, BuilderTypes
<1> QED BY <1>4, <1>5, BOpenCacheTyped

LEMMA BLookupTyped == ASSUME Typed, BLookup  PROVE Typed'
<1> DEFINE e == Lookup(bmem, def)[cur]
           found == {t \in btypes : e.manifests[t] # None}
<1>1. PublisherTypes'
  BY PublisherTypesKept DEF Typed, BLookup
<1>2. BuilderTypes'
  <2>1. BFail \/ BNext \/ BGoto("delete")
    BY DEF BLookup
  <2> QED BY <2>1, BExitTyped, BNextTyped, BGotoTyped DEF BFail
<1>3. tags' \in [Layers -> [Types -> Contents \union {None}]]
  <2>1. CASE UNCHANGED tags
    BY <2>1 DEF Typed, SharedTypes
  <2>2. CASE /\ e \notin {None, LookupError} /\ cur \notin BuildOnly
             /\ tags' = [tags EXCEPT ![cur] = [t \in Types |->
                      IF t \in found THEN e.manifests[t] ELSE @[t]]]
    <3>1. cur \in Layers /\ e = bmem[cur] /\ e # None
      BY <2>2, CurIs, HitMeans DEF Typed, Hit
    <3>2. e.manifests \in [Types -> Contents \union {None}]
      BY <3>1 DEF Typed, BuilderTypes, IsCache
    <3>3. tags' = [tags EXCEPT ![cur] = [t \in Types |->
                      IF t \in found THEN e.manifests[t] ELSE tags[cur][t]]]
      BY <2>2
    <3> HIDE DEF e, found
    <3> QED BY <3>1, <3>2, <3>3 DEF Typed, SharedTypes
  <2> QED BY <2>1, <2>2 DEF BLookup
<1>4. SharedTypes'
  BY <1>3 DEF Typed, SharedTypes, BLookup, IsCache
<1> QED BY <1>1, <1>2, <1>4 DEF Typed

LEMMA BDeleteTyped == ASSUME Typed, BDelete  PROVE Typed'
<1>1. SharedTypes'
  BY CurIs DEF Typed, SharedTypes, BDelete, IsCache
<1> QED BY <1>1, BGotoTyped, PublisherTypesKept DEF Typed, BDelete

LEMMA BRootfsTyped == ASSUME Typed, BRootfs  PROVE Typed'
<1> DEFINE below == IF From[cur] = None THEN <<>> ELSE roots[From[cur]]
<1>1. PublisherTypes'
  BY PublisherTypesKept DEF Typed, BRootfs
<1>2. cur \in Layers /\ From[cur] \in Layers \union {None}
  BY CurIs, PublishAssumption DEF Typed
<1>3. CASE below = None
  BY <1>1, <1>3, BExitTyped, SharedTypesKept DEF BRootfs, Typed, BFail
<1>4. CASE below # None
  <2>1. below \in Contents
    BY <1>2, <1>4, ContentFacts DEF Typed, SharedTypes
  <2>2. roots' = [roots EXCEPT ![cur] = Append(below, def[cur])]
    BY <1>4 DEF BRootfs
  <2>3. Append(below, def[cur]) \in Contents
    BY <1>2, <2>1, ContentFacts DEF Typed, SharedTypes
  <2>4. roots' \in [Layers -> Contents \union {None}] /\ roots'[cur] # None
    <3> HIDE DEF below
    <3> QED BY <1>2, <2>2, <2>3, ContentFacts DEF Typed, SharedTypes
  <2>5. SharedTypes'
    BY <2>4 DEF Typed, SharedTypes, BRootfs, IsCache
  <2>6. BGoto("put") \/ BGoto("bases")
    BY <1>4 DEF BRootfs
  <2>7. BuilderTypes'
    BY <2>4, <2>6, BGotoTyped
  <2> QED BY <1>1, <2>5, <2>7 DEF Typed
<1> QED BY <1>3, <1>4

LEMMA TaggedTyped ==
  ASSUME Typed, NEW images \in [Types -> Contents \union {None}], Tagged(images),
         \A t \in btypes : images[t] # None
  PROVE  /\ tags' \in [Layers -> [Types -> Contents \union {None}]]
         /\ blobs' \subseteq Types \X Contents
<1>1. cur \in Layers /\ btypes \subseteq Types
  BY CurIs DEF Typed, BuilderTypes
<1>2. tags' = [tags EXCEPT ![cur] = [t \in Types |->
                IF t \in btypes THEN images[t] ELSE tags[cur][t]]]
  BY DEF Tagged
<1>3. tags' \in [Layers -> [Types -> Contents \union {None}]]
  BY <1>1, <1>2 DEF Typed, SharedTypes
<1>4. blobs' \subseteq Types \X Contents
  BY <1>1 DEF Typed, SharedTypes, Tagged
<1> QED BY <1>3, <1>4

LEMMA BInitializeBasesTyped == ASSUME Typed, BInitializeBases  PROVE Typed'
<1> DEFINE b == FirstBaseInOutput[cur]
           start == [t \in Types |-> IF b = None THEN <<>> ELSE tags[b][t]]
<1>1. PublisherTypes'
  BY PublisherTypesKept DEF Typed, BInitializeBases
<1>2. cur \in Layers
  BY CurIs DEF Typed
<1>3. CASE \E t \in btypes : start[t] = None
  BY <1>1, <1>3, BExitTyped, SharedTypesKept DEF BInitializeBases, Typed, BFail
<1>4. CASE ~ \E t \in btypes : start[t] = None
  <2>1. b # None => b \in Layers
    BY <1>2, FirstBaseIs
  <2>2. start \in [Types -> Contents \union {None}]
    <3> HIDE DEF b
    <3> QED BY <2>1, ContentFacts DEF Typed, SharedTypes
  <2>3. Tagged(start) /\ BGoto("commit") /\ UNCHANGED <<def, file, roots, dest>> /\ bpc = "bases"
    BY <1>4 DEF BInitializeBases
  <2>4. roots'[cur] # None
    BY <2>3 DEF Typed, BuilderTypes
  <2>5. BuilderTypes'
    BY <2>3, <2>4, BGotoTyped
  <2> HIDE DEF start
  <2>6. SharedTypes'
    BY <1>4, <2>2, <2>3, TaggedTyped DEF Typed, SharedTypes, IsCache
  <2> QED BY <1>1, <2>5, <2>6 DEF Typed
<1> QED BY <1>3, <1>4

LEMMA BCommitTyped == ASSUME Typed, BCommit  PROVE Typed'
<1> DEFINE images == [t \in Types |-> roots[cur]]
<1>1. cur \in Layers /\ btypes \subseteq Types /\ roots[cur] # None
  BY CurIs DEF Typed, BuilderTypes, BCommit
<1>2. images \in [Types -> Contents \union {None}] /\ \A t \in btypes : images[t] # None
  BY <1>1 DEF Typed, SharedTypes
<1>3. Tagged(images) /\ BGoto("put") /\ UNCHANGED <<def, file, roots, dest, pubVars>>
  BY DEF BCommit
<1>4. BuilderTypes' /\ PublisherTypes'
  BY <1>3, BGotoTyped, PublisherTypesKept DEF Typed
<1> HIDE DEF images
<1>5. SharedTypes'
  BY <1>2, <1>3, TaggedTyped DEF Typed, SharedTypes, IsCache
<1> QED BY <1>4, <1>5 DEF Typed

\* The entry that Put makes.
Made(baseHash) ==
  [def |-> def[cur], base |-> baseHash, manifests |->
     [t \in Types |-> IF cur \notin BuildOnly /\ t \in btypes THEN tags[cur][t] ELSE None]]

LEMMA BPutTyped == ASSUME Typed, BPut  PROVE Typed'
<1> DEFINE baseHash == IF From[cur] = None THEN None ELSE Lookup(bmem, def)[From[cur]]
<1>1. SharedTypes' /\ PublisherTypes'
  BY SharedTypesKept, PublisherTypesKept DEF Typed, BPut
<1>2. cur \in Layers
  BY CurIs DEF Typed
<1>3. CASE BFail
  BY <1>1, <1>3, BExitTyped DEF Typed, BFail
<1>4. CASE ~BFail
  <2>1. bmem' = [bmem EXCEPT ![cur] = Made(baseHash)] /\ bpc' = "persist" /\ UNCHANGED buildVars
    BY <1>4 DEF BPut, Made
  <2> HIDE DEF baseHash
  <2>2. /\ DOMAIN Made(baseHash) = {"def", "base", "manifests"}
        /\ Made(baseHash).def \in Versions
        /\ Made(baseHash).manifests \in [Types -> Contents \union {None}]
    BY <1>2 DEF Made, Typed, SharedTypes
  <2>3. DOMAIN bmem = Layers
    BY DEF Typed, BuilderTypes, IsCache
  <2>4. DOMAIN bmem' = Layers
    BY <2>1, <2>3
  <2>5. \A n \in Layers : bmem'[n] = IF n = cur THEN Made(baseHash) ELSE bmem[n]
    BY <2>1, <2>3
  <2>6. IsCache(bmem)'
    BY <2>2, <2>4, <2>5 DEF Typed, BuilderTypes, IsCache
  <2> QED BY <1>1, <2>1, <2>6 DEF Typed, BuilderTypes, buildVars
<1> QED BY <1>3, <1>4

LEMMA BTruncateTyped == ASSUME Typed, BTruncate  PROVE Typed'
<1>1. SharedTypes' /\ PublisherTypes'
  BY PublisherTypesKept DEF Typed, SharedTypes, BTruncate, Unreadable
<1>2. BGoto("writePruned") \/ BGoto("write")
  BY DEF BTruncate
<1> QED BY <1>1, <1>2, BGotoTyped DEF Typed

LEMMA BWriteTyped == ASSUME Typed, BWrite  PROVE Typed'
<1>1. file' = bmem \/ file' = Garbled
  BY DEF BWrite, WriteFile
<1>2. file' \in {None} \union Unreadable \/ IsCache(file')
  BY <1>1 DEF Typed, BuilderTypes, Unreadable
<1>3. SharedTypes' /\ PublisherTypes'
  BY <1>2, PublisherTypesKept DEF Typed, SharedTypes, BWrite, IsCache
<1>4. BGoto("lookup") \/ BNext
  BY DEF BWrite
<1> QED BY <1>3, <1>4, BGotoTyped, BNextTyped DEF Typed

LEMMA BGCTyped == ASSUME Typed, BGC  PROVE Typed'
<1>1. blobs' \subseteq Types \X Contents
  BY DEF BGC, Typed, SharedTypes
<1>2. SharedTypes'
  BY <1>1 DEF BGC, Typed, SharedTypes, IsCache
<1>3. BuilderTypes'
  <2>1. CASE BExit("ok")
    BY <2>1, BExitTyped
  <2>2. CASE bidx # Len(Order) /\ BGoto("reopen")
    <3>1. bidx < Len(Order)
      BY <2>2, Ranked DEF Typed, BuilderTypes
    <3> QED BY <2>2, <3>1, BGotoTyped
  <2> QED BY <2>1, <2>2 DEF BGC
<1> QED BY <1>2, <1>3, PublisherTypesKept DEF BGC, Typed

LEMMA BKillTyped == ASSUME Typed, BKill  PROVE Typed'
  BY BExitTyped, SharedTypesKept, PublisherTypesKept DEF BKill, Typed

\* How a publisher step leaves the publisher.
LEMMA PFailTyped == ASSUME Typed, PFail  PROVE PublisherTypes'
<1>1. IsCache(pmem')
  BY EmptyIsCache DEF PFail
<1>2. IsCache(pmem)'
  BY <1>1 DEF IsCache
<1>3. 1 \in 1..(Len(Order) + 1)
  BY Ranked
<1> QED BY <1>2, <1>3 DEF PFail, Typed, SharedTypes, PublisherTypes

LEMMA PGotoTyped ==
  ASSUME Typed, NEW label, PGoto(label),
         label \in {"idle", "check", "write", "args", "layer", "type", "copy"},
         ptodo' \subseteq Layers \/ ptodo' \subseteq Types,
         label = "copy" => psrc' \in Types \X Contents,
         label \in {"type", "copy"} => pidx <= Len(Order)
  PROVE  PublisherTypes'
<1>1. IsCache(pmem)'
  BY DEF Typed, PublisherTypes, PGoto, IsCache
<1> QED BY <1>1 DEF Typed, PublisherTypes, PGoto, pubArgs

LEMMA PStartTyped ==
  ASSUME Typed, NEW types \in TypeChoices, NEW mode, NEW want, PStart(types, mode, want)
  PROVE  Typed'
<1>1. SharedTypes' /\ BuilderTypes'
  BY SharedTypesKept, BuilderTypesKept DEF Typed, PStart, builderVars
<1>2. IsCache(pmem')
  BY EmptyIsCache DEF PStart, Typed, SharedTypes
<1>3. IsCache(pmem)'
  BY <1>2 DEF IsCache
<1>4. ptypes' \subseteq Types
  BY PublishAssumption DEF PStart
<1>5. publishes' \in 0..MaxPublishes
  <2>1. publishes < MaxPublishes /\ publishes' = publishes + 1
    BY DEF PStart
  <2> QED BY <2>1, PublishAssumption DEF Typed, PublisherTypes
<1>6. pidx' \in 1..(Len(Order) + 1)
  <2>1. pidx' = 1
    BY DEF PStart
  <2> QED BY <2>1, Ranked
<1>7. ppc' \in {"idle", "check"} /\ ptodo' \subseteq Layers
  BY DEF PStart
<1>8. psf' \in [Layers -> Versions]
  BY DEF PStart, Typed, SharedTypes
<1> QED BY <1>1, <1>3, <1>4, <1>5, <1>6, <1>7, <1>8 DEF Typed, PublisherTypes

LEMMA PCheckTyped == ASSUME Typed, NEW n \in Layers, PCheck(n)  PROVE Typed'
<1>1. SharedTypes' /\ BuilderTypes'
  BY SharedTypesKept, BuilderTypesKept DEF Typed, PCheck, builderVars
<1>2. DOMAIN pmem' = Layers /\ \A m \in Layers : pmem'[m] \in {pmem[m], None}
  BY DEF PCheck, Typed, PublisherTypes, IsCache
<1>3. IsCache(pmem)'
  BY <1>2 DEF Typed, PublisherTypes, IsCache
<1> QED BY <1>1, <1>3 DEF Typed, PublisherTypes, PCheck, pubArgs

LEMMA PTruncateTyped == ASSUME Typed, PTruncate  PROVE Typed'
<1>1. SharedTypes' /\ BuilderTypes'
  BY BuilderTypesKept DEF Typed, SharedTypes, PTruncate, Unreadable, builderVars
<1>2. PublisherTypes'
  <2>1. PGoto("write") /\ (ptodo' \subseteq Layers \/ ptodo' \subseteq Types)
    BY DEF Typed, PublisherTypes, PTruncate
  <2> QED BY <2>1, PGotoTyped
<1> QED BY <1>1, <1>2 DEF Typed

LEMMA PWriteTyped == ASSUME Typed, PWrite  PROVE Typed'
<1>1. file' = pmem \/ file' = Garbled
  BY DEF PWrite, WriteFile
<1>2. file' \in {None} \union Unreadable \/ IsCache(file')
  BY <1>1 DEF Typed, PublisherTypes, Unreadable
<1>3. SharedTypes' /\ BuilderTypes'
  BY <1>2, BuilderTypesKept DEF Typed, SharedTypes, PWrite, IsCache, builderVars
<1>4. PGoto("args") /\ (ptodo' \subseteq Layers \/ ptodo' \subseteq Types)
  BY DEF PWrite, Typed, PublisherTypes
<1> QED BY <1>3, <1>4, PGotoTyped DEF Typed

LEMMA PArgsTyped == ASSUME Typed, PArgs  PROVE Typed'
<1>1. SharedTypes' /\ BuilderTypes'
  BY SharedTypesKept, BuilderTypesKept DEF Typed, PArgs, builderVars
<1>2. PFail \/ (PGoto("layer") /\ (ptodo' \subseteq Layers \/ ptodo' \subseteq Types))
  BY DEF PArgs, Typed, PublisherTypes
<1> QED BY <1>1, <1>2, PFailTyped, PGotoTyped DEF Typed

LEMMA PSkipTyped == ASSUME Typed, PSkip  PROVE Typed'
<1>1. SharedTypes' /\ BuilderTypes'
  BY SharedTypesKept, BuilderTypesKept DEF Typed, PSkip, builderVars
<1>2. IsCache(pmem)' /\ ppc = "layer"
  BY DEF Typed, PublisherTypes, PSkip, IsCache
<1>3. pidx' \in 1..(Len(Order) + 1)
  <2>1. pidx <= Len(Order) /\ pidx' = pidx + 1
    BY DEF PSkip
  <2> QED BY <2>1, Ranked DEF Typed, PublisherTypes
<1> QED BY <1>1, <1>2, <1>3 DEF Typed, PublisherTypes, PSkip, pubArgs

LEMMA PLookupTyped == ASSUME Typed, PLookup  PROVE Typed'
<1>1. SharedTypes' /\ BuilderTypes'
  BY SharedTypesKept, BuilderTypesKept DEF Typed, PLookup, builderVars
<1>2. PFail \/ (PGoto("type") /\ ptodo' = ptypes /\ pidx <= Len(Order))
  BY DEF PLookup
<1>3. ptypes \subseteq Types
  BY DEF Typed, PublisherTypes
<1> QED BY <1>1, <1>2, <1>3, PFailTyped, PGotoTyped DEF Typed

LEMMA PDoneTyped == ASSUME Typed, PDone  PROVE Typed'
<1>1. SharedTypes' /\ BuilderTypes'
  BY SharedTypesKept, BuilderTypesKept DEF Typed, PDone, builderVars
<1>2. IsCache(pmem)'
  BY DEF Typed, PublisherTypes, PDone, IsCache
<1>3. 1 \in 1..(Len(Order) + 1)
  BY Ranked
<1> QED BY <1>1, <1>2, <1>3 DEF Typed, PublisherTypes, PDone, pubArgs

LEMMA PIdxIs == ASSUME Typed, pidx <= Len(Order)  PROVE Order[pidx] \in Layers
<1>1. pidx - 1 \in Nat /\ pidx - 1 < Len(Order) /\ (pidx - 1) + 1 = pidx
  BY Ranked DEF Typed, PublisherTypes
<1> QED BY <1>1, Ranked

LEMMA PResolveTyped == ASSUME Typed, NEW t \in Types, PResolve(t)  PROVE Typed'
<1> DEFINE image == tags[Order[pidx]][t]
<1>1. SharedTypes' /\ BuilderTypes'
  BY SharedTypesKept, BuilderTypesKept DEF Typed, PResolve, builderVars
<1>2. CASE PFail
  BY <1>1, <1>2, PFailTyped DEF Typed
<1>3. CASE ~PFail
  <2>1. /\ ppc = "type" /\ ptodo' = ptodo \ {t}
        /\ \/ PGoto("type")
           \/ PGoto("copy") /\ psrc' = <<t, image>> /\ image # None
    BY <1>3 DEF PResolve
  <2>2. pidx <= Len(Order) /\ (ptodo' \subseteq Layers \/ ptodo' \subseteq Types)
    BY <2>1 DEF Typed, PublisherTypes
  <2>3. image # None => image \in Contents
    BY <2>2, PIdxIs DEF Typed, SharedTypes
  <2> HIDE DEF image
  <2> QED BY <1>1, <2>1, <2>2, <2>3, PGotoTyped DEF Typed
<1> QED BY <1>2, <1>3

LEMMA CopyTyped ==
  ASSUME NEW S, NEW f \in [Layers -> [Types -> S \union {None}]],
         NEW n \in Layers, NEW t \in Types, NEW v \in S
  PROVE  [f EXCEPT ![n][t] = v] \in [Layers -> [Types -> S \union {None}]]
<1>1. [f[n] EXCEPT ![t] = v] \in [Types -> S \union {None}]
  OBVIOUS
<1>2. [f EXCEPT ![n][t] = v] = [f EXCEPT ![n] = [f[n] EXCEPT ![t] = v]]
  OBVIOUS
<1> DEFINE g == [f[n] EXCEPT ![t] = v]
<1> HIDE DEF g
<1>3. [f EXCEPT ![n] = g] \in [Layers -> [Types -> S \union {None}]]
  BY <1>1 DEF g
<1> QED BY <1>2, <1>3 DEF g

LEMMA PCopyTyped == ASSUME Typed, PCopy  PROVE Typed'
<1>1. BuilderTypes'
  BY BuilderTypesKept DEF Typed, PCopy, builderVars
<1>2. ppc = "copy" /\ pidx <= Len(Order) /\ Order[pidx] \in Layers /\ psrc \in Types \X Contents
  BY PIdxIs DEF Typed, PublisherTypes, PCopy
<1>3. dest' \in [Layers -> [Types -> Contents \union {None}]]
  <2>1. dest' = dest \/ dest' = [dest EXCEPT ![Order[pidx]][psrc[1]] = psrc[2]]
    BY DEF PCopy
  <2>2. psrc[1] \in Types /\ psrc[2] \in Contents
    BY <1>2
  <2>3. dest \in [Layers -> [Types -> Contents \union {None}]]
    BY DEF Typed, SharedTypes
  <2>4. [dest EXCEPT ![Order[pidx]][psrc[1]] = psrc[2]]
          \in [Layers -> [Types -> Contents \union {None}]]
    BY <1>2, <2>2, <2>3, CopyTyped, Zenon
  <2> QED BY <2>1, <2>3, <2>4, Zenon
<1>4. SharedTypes'
  BY <1>3 DEF Typed, SharedTypes, PCopy, IsCache, builderVars
<1>5. PFail \/ (PGoto("type") /\ (ptodo' \subseteq Layers \/ ptodo' \subseteq Types))
  BY DEF PCopy, Typed, PublisherTypes
<1> QED BY <1>1, <1>2, <1>4, <1>5, PFailTyped, PGotoTyped DEF Typed

LEMMA PNextLayerTyped == ASSUME Typed, PNextLayer  PROVE Typed'
<1>1. SharedTypes' /\ BuilderTypes'
  BY SharedTypesKept, BuilderTypesKept DEF Typed, PNextLayer, builderVars
<1>2. IsCache(pmem)' /\ ppc' = "layer" /\ pidx' = pidx + 1 /\ pidx <= Len(Order)
  BY DEF Typed, PublisherTypes, PNextLayer, IsCache
<1>3. pidx' \in 1..(Len(Order) + 1)
  BY <1>2, Ranked DEF Typed, PublisherTypes
<1> QED BY <1>1, <1>2, <1>3 DEF Typed, PublisherTypes, PNextLayer, pubArgs

LEMMA PKillTyped == ASSUME Typed, PKill  PROVE Typed'
  BY SharedTypesKept, BuilderTypesKept, PFailTyped DEF Typed, PKill, builderVars

LEMMA NextTyped == ASSUME Typed, [Next]_vars  PROVE Typed'
<1>1. CASE UNCHANGED vars
  BY <1>1, SharedTypesKept, BuilderTypesKept, PublisherTypesKept DEF Typed, vars
<1>2. CASE \E n \in Layers : EditDefinition(n)
  BY <1>2, EditTyped
<1>3. CASE Build
  BY <1>3, BStartTyped, BReopenTyped, BLookupTyped, BDeleteTyped, BRootfsTyped,
     BInitializeBasesTyped, BCommitTyped, BPutTyped, BTruncateTyped, BWriteTyped, BGCTyped DEF Build
<1>4. CASE \E types \in TypeChoices, mode \in Modes, want \in Wants : PStart(types, mode, want)
  BY <1>4, PStartTyped
<1>5. CASE PStep
  BY <1>5, PCheckTyped, PTruncateTyped, PWriteTyped, PArgsTyped, PSkipTyped, PLookupTyped,
     PDoneTyped, PResolveTyped, PCopyTyped, PNextLayerTyped DEF PStep
<1>6. CASE BKill \/ PKill
  BY <1>6, BKillTyped, PKillTyped
<1> QED BY <1>1, <1>2, <1>3, <1>4, <1>5, <1>6 DEF Next

\* Every variable keeps its shape, and build.cache is absent, unreadable or a
\* cache: whatever overlaps, is killed or fails (cache.go, publisher.go).
THEOREM TypeCorrect == Spec => []TypeOK
<1>1. Typed /\ [Next]_vars => Typed'
  BY NextTyped
<1> QED BY <1>1, InitTyped, TypedTypeOK, PTL DEF Spec

-----------------------------------------------------------------------------
(* When build.cache is unreadable *)

\* What a writer finds when it writes is what it truncated the file to, unless
\* another one was writing at the same time.
Explained ==
  /\ UnreadableIsExplained
  /\ bpc \in {"writePruned", "write"} /\ ppc = "write" => "clash" \in mishaps
  /\ (bpc \in {"writePruned", "write"} \/ ppc = "write") /\ "clash" \notin mishaps => file = Cut

\* Steps that write nothing and start no write.
LEMMA NoWrite ==
  ASSUME Explained, file' = file, mishaps \subseteq mishaps',
         bpc' \in {"writePruned", "write"} => bpc' = bpc,
         ppc' = "write" => ppc' = ppc,
         \/ bpc' = bpc
         \/ bpc \notin {"writePruned", "write"}
         \/ "writeKilled" \in mishaps',
         \/ ppc' = ppc
         \/ ppc # "write"
         \/ "writeKilled" \in mishaps'
  PROVE  Explained'
  BY DEF Explained, UnreadableIsExplained, Unreadable

LEMMA NextExplained == ASSUME Apart, Typed, Explained, [Next]_vars  PROVE Explained'
<1>1. bmem \notin {Cut, Garbled} /\ pmem \notin {Cut, Garbled}
  BY DEF Apart, Typed, BuilderTypes, PublisherTypes, IsCache
<1>2. CASE BTruncate
  BY <1>2 DEF BTruncate, BGoto, pubVars, Explained, UnreadableIsExplained
<1>3. CASE PTruncate
  BY <1>3 DEF PTruncate, PGoto, builderVars, Explained, UnreadableIsExplained
<1>4. CASE BWrite
  <2>1. /\ bpc \in {"writePruned", "write"} /\ bpc' \in {"lookup", "gc"}
        /\ ppc' = ppc /\ mishaps' = mishaps
        /\ file' = bmem \/ (file # Cut /\ file' = Garbled)
    BY <1>4 DEF BWrite, WriteFile, BGoto, BNext, pubVars
  <2> QED BY <1>1, <2>1 DEF Explained, UnreadableIsExplained, Unreadable
<1>5. CASE PWrite
  <2>1. /\ ppc = "write" /\ ppc' = "args" /\ bpc' = bpc /\ mishaps' = mishaps
        /\ file' = pmem \/ (file # Cut /\ file' = Garbled)
    BY <1>5 DEF PWrite, WriteFile, PGoto, builderVars
  <2> QED BY <1>1, <2>1 DEF Explained, UnreadableIsExplained, Unreadable
<1>6. CASE UNCHANGED vars \/ \E n \in Layers : EditDefinition(n)
  BY <1>6, NoWrite DEF vars, EditDefinition, pubVars
<1>7. CASE BStart \/ BReopen \/ BLookup \/ BDelete \/ BRootfs
  <2>1. /\ file' = file /\ mishaps \subseteq mishaps' /\ ppc' = ppc
        /\ bpc \notin {"writePruned", "write"} /\ bpc' \notin {"writePruned", "write"}
    BY <1>7 DEF BStart, BReopen, BOpenCache, BLookup, BDelete, BRootfs, BNext, BFail, BExit, BGoto, Busy, pubVars
  <2> QED BY <2>1, NoWrite
<1>8. CASE BInitializeBases \/ BCommit \/ BPut \/ BGC
  <2>1. /\ file' = file /\ mishaps \subseteq mishaps' /\ ppc' = ppc
        /\ bpc \notin {"writePruned", "write"} /\ bpc' \notin {"writePruned", "write"}
    BY <1>8 DEF BInitializeBases, BCommit, BPut, BGC, BNext, BFail, BExit, BGoto, pubVars
  <2> QED BY <2>1, NoWrite
<1>9. CASE BKill
  <2>1. /\ file' = file /\ mishaps \subseteq mishaps' /\ ppc' = ppc /\ bpc' = "idle"
        /\ bpc \notin {"writePruned", "write"} \/ "writeKilled" \in mishaps'
    BY <1>9 DEF BKill, BExit, pubVars
  <2> QED BY <2>1, NoWrite
<1>10. CASE \E types \in TypeChoices, mode \in Modes, want \in Wants : PStart(types, mode, want)
  <2>1. /\ file' = file /\ mishaps \subseteq mishaps' /\ ppc # "write" /\ bpc' = bpc
        /\ ppc' # "write"
    BY <1>10 DEF PStart, builderVars, Publishing
  <2> QED BY <2>1, NoWrite
<1>11. CASE \/ \E n \in Layers : PCheck(n)
            \/ PArgs \/ PSkip \/ PLookup \/ PDone
            \/ \E t \in Types : PResolve(t)
            \/ PCopy \/ PNextLayer
  <2>1. /\ file' = file /\ mishaps' = mishaps /\ ppc # "write" /\ bpc' = bpc
        /\ ppc' # "write"
    BY <1>11 DEF PCheck, PArgs, PSkip, PLookup, PDone, PResolve, PCopy, PNextLayer,
       builderVars, PGoto, PFail
  <2> QED BY <2>1, NoWrite
<1>12. CASE PKill
  <2>1. /\ file' = file /\ mishaps \subseteq mishaps' /\ bpc' = bpc /\ ppc' = "idle"
        /\ ppc # "write" \/ "writeKilled" \in mishaps'
    BY <1>12 DEF PKill, PFail, builderVars
  <2> QED BY <2>1, NoWrite
<1> QED
  <2>1. Build => \/ BStart \/ BReopen \/ BLookup \/ BDelete \/ BRootfs
                 \/ BInitializeBases \/ BCommit \/ BPut \/ BGC \/ BTruncate \/ BWrite
    BY DEF Build
  <2> QED BY <1>2, <1>3, <1>4, <1>5, <1>6, <1>7, <1>8, <1>9, <1>10, <1>11, <1>12, <2>1
          DEF Next, PStep

\* build.cache is unreadable only while somebody rewrites it, after a kill just
\* then, or after two processes rewrote it at once (persist in cache.go).
THEOREM UnreadableExplained == ASSUME Apart  PROVE Spec => []UnreadableIsExplained
<1>1. Init => Explained
  BY PublishAssumption DEF Init, Explained, UnreadableIsExplained, Unreadable
<1>2. Typed /\ Explained /\ [Next]_vars => Typed' /\ Explained'
  BY NextTyped, NextExplained
<1>3. Explained => UnreadableIsExplained
  BY DEF Explained
<1> QED BY <1>1, <1>2, <1>3, InitTyped, PTL DEF Spec

-----------------------------------------------------------------------------
(* A build that opened the cache when nothing had gone wrong *)

\* The entry of n in cache c describes what is there: the root filesystem r[n]
\* and the tagged images g[n] are what the entry stands for.
Sound(c, r, g, n) ==
  c[n] # None =>
    /\ r[n] # None /\ StandsFor(n, c[n], r[n])
    /\ \A t \in Types : c[n].manifests[t] # None =>
         g[n][t] = c[n].manifests[t] /\ StandsFor(n, c[n], g[n][t])

\* cur is being made again.
Rebuilding == bpc \in {"delete", "rootfs", "bases", "commit", "put"}

\* The layers the build is through with.
Finished == IF bpc \in {"persist", "write", "gc", "reopen"} THEN First(bidx) ELSE First(bidx - 1)

\* n is in the cache, for all the types that are built.
Ready(c, d, types, n) ==
  Hit(c, d, n) /\ (n \notin BuildOnly => \A t \in types : c[n].manifests[t] # None)

\* The images that are tagged are there.
Swept == \A n \in Layers, t \in Types : tags[n][t] # None => <<t, tags[n][t]>> \in blobs

Progress ==
  /\ bout = "none"
  /\ \A n \in Layers : n # cur \/ ~Rebuilding => Sound(bmem, roots, tags, n)
  /\ \A n \in Finished : Ready(bmem, def, btypes, n)
  /\ bpc \in {"bases", "commit", "put"} => roots[cur] = Fresh(def)[cur]
  /\ bpc = "put" /\ cur \notin BuildOnly => \A t \in btypes : tags[cur][t] = roots[cur]
  /\ bpc = "reopen" => Swept

Steady ==
  bcalm =>
    /\ Busy => Progress
    /\ bout # "failed"
    /\ bout = "ok" =>
         /\ ~Busy
         /\ \A n \in Layers \ BuildOnly, t \in btypes : tags[n][t] = Fresh(def)[n]

LEMMA SteadyKept ==
  Steady /\ UNCHANGED <<def, roots, tags, blobs, bpc, bmem, buildVars>> => Steady'
  BY DEF Steady, Progress, Swept, Finished, Rebuilding, cur, Busy, buildVars

\* A build that goes on.
LEMMA GoesOn == ASSUME Busy', Progress'  PROVE Steady'
  BY DEF Steady, Progress

LEMMA CurFirst ==
  ASSUME BuilderTypes
  PROVE  /\ cur \in Layers /\ bidx \in Nat /\ bidx <= Len(Order)
         /\ bidx - 1 \in Nat /\ bidx - 1 <= Len(Order)
         /\ First(bidx) = First(bidx - 1) \union {cur} /\ cur \notin First(bidx - 1)
         /\ First(bidx - 1) \subseteq Layers
         /\ From[cur] # None => From[cur] \in First(bidx - 1)
<1>1. /\ bidx \in Nat /\ bidx - 1 \in Nat /\ bidx - 1 < Len(Order) /\ (bidx - 1) + 1 = bidx
      /\ bidx - 1 <= Len(Order) /\ bidx <= Len(Order)
  BY Ranked DEF BuilderTypes
<1> DEFINE k == bidx - 1
<1>2. k \in Nat /\ k < Len(Order) /\ k <= Len(Order) /\ k + 1 = bidx
  BY <1>1
<1> HIDE DEF k
<1>3. /\ First(k + 1) = First(k) \union {Order[k + 1]}
      /\ Order[k + 1] \in Layers /\ Order[k + 1] \notin First(k)
      /\ First(k) \subseteq Layers
      /\ From[Order[k + 1]] # None => From[Order[k + 1]] \in First(k)
  BY <1>2, Ranked
<1> QED BY <1>1, <1>2, <1>3 DEF cur, k

\* What the finished layers say about the bases of the current one.
LEMMA BaseReady ==
  ASSUME Typed, Progress, Finished = First(bidx - 1), NEW b \in First(bidx - 1)
  PROVE  /\ b \in Layers /\ b # cur /\ Hit(bmem, def, b)
         /\ roots[b] = Fresh(def)[b] /\ roots[b] # None
         /\ b \notin BuildOnly => \A t \in btypes : tags[b][t] # None
<1>1. b \in Layers /\ b # cur
  BY CurFirst DEF Typed
<1>2. Ready(bmem, def, btypes, b) /\ Sound(bmem, roots, tags, b)
  BY <1>1 DEF Progress
<1>3. Hit(bmem, def, b) /\ bmem[b] # None
  BY <1>1, <1>2, HitMeans DEF Ready
<1>4. roots[b] # None /\ roots[b] = Fresh(def)[b]
  BY <1>2, <1>3 DEF Sound, StandsFor
<1>5. b \notin BuildOnly => \A t \in btypes : tags[b][t] # None
  <2>1. btypes \subseteq Types
    BY DEF Typed, BuilderTypes
  <2> QED BY <1>2, <1>3, <2>1 DEF Sound, Ready
<1> QED BY <1>1, <1>3, <1>4, <1>5

LEMMA NoErrorEntry == ASSUME NEW c, IsCache(c), NEW n \in Layers, c[n] # None  PROVE c[n] # LookupError
<1>1. DOMAIN LookupError = {"error"}
  BY DEF LookupError
<1>2. DOMAIN c[n] = {"def", "base", "manifests"}
  BY DEF IsCache
<1> QED BY <1>1, <1>2

LEMMA NoLookupError ==
  ASSUME Apart, Typed, Progress, Finished = First(bidx - 1)
  PROVE  Lookup(bmem, def)[cur] # LookupError
<1>1. cur \in Layers /\ (From[cur] # None => Hit(bmem, def, From[cur]))
  BY BaseReady, CurFirst DEF Typed
<1>2. bmem[cur] # LookupError
  <2>1. IsCache(bmem)
    BY DEF Typed, BuilderTypes
  <2> QED BY <1>1, <2>1, NoErrorEntry DEF Apart
<1> QED BY <1>1, <1>2, ErrorMeans DEF Apart

\* On to the next layer.
LEMMA BNextProgress ==
  ASSUME Typed, Progress, BNext, UNCHANGED <<def, roots, tags>>, ~Rebuilding,
         \A n \in First(bidx) : Ready(bmem, def, btypes, n)
  PROVE  Steady'
<1>1. /\ bpc' \in {"gc", "lookup"} /\ (bpc' = "gc" => bidx' = bidx)
      /\ bpc' = "lookup" => bidx' = bidx + 1
      /\ UNCHANGED <<bmem, btypes, bout>>
  BY DEF BNext
<1>2. Finished' = First(bidx)
  <2>1. bidx \in Nat
    BY CurFirst DEF Typed
  <2>2. bpc' = "lookup" => bidx' - 1 = bidx
    BY <1>1, <2>1
  <2> QED BY <1>1, <2>2 DEF Finished
<1>3. Progress'
  BY <1>1, <1>2 DEF Progress, Rebuilding
<1> QED BY <1>1, <1>3, GoesOn DEF Busy

\* On to another step of the same layer.
LEMMA BGotoProgress ==
  ASSUME Typed, Progress, NEW label, BGoto(label), UNCHANGED def,
         Finished = First(bidx - 1),
         label \in {"delete", "rootfs", "bases", "commit", "put"},
         \A n \in Layers \ {cur} : roots'[n] = roots[n] /\ tags'[n] = tags[n],
         label \in {"bases", "commit", "put"} => roots'[cur] = Fresh(def)[cur],
         label = "put" /\ cur \notin BuildOnly => \A t \in btypes : tags'[cur][t] = roots'[cur]
  PROVE  Steady'
<1>1. bpc' = label /\ UNCHANGED <<bmem, bidx, btypes, bout, cur>>
  BY DEF BGoto, buildVars, cur
<1>2. Finished' = First(bidx - 1)
  BY <1>1 DEF Finished
<1>3. \A n \in Layers \ {cur} : Sound(bmem, roots', tags', n)
  BY DEF Progress, Sound
<1>4. Progress'
  BY <1>1, <1>2, <1>3 DEF Progress, Rebuilding
<1> QED BY <1>1, <1>4, GoesOn DEF Busy

\* A hit tags what is tagged already.
LEMMA BLookupSteady == ASSUME Apart, Typed, Progress, BLookup  PROVE Steady'
<1> DEFINE e == Lookup(bmem, def)[cur]
           found == {t \in btypes : e.manifests[t] # None}
<1>1. /\ Finished = First(bidx - 1) /\ ~Rebuilding
      /\ cur \in Layers /\ btypes \subseteq Types /\ Sound(bmem, roots, tags, cur)
      /\ UNCHANGED <<def, roots>>
  BY CurFirst DEF Typed, BuilderTypes, BLookup, Progress, Finished, Rebuilding
<1>2. e # LookupError
  BY <1>1, NoLookupError
<1>3. First(bidx) = First(bidx - 1) \union {cur}
  BY CurFirst DEF Typed
<1>4. CASE e = None
  <2>1. BGoto("delete") /\ UNCHANGED tags
    BY <1>2, <1>4 DEF BLookup
  <2> QED BY <1>1, <2>1, BGotoProgress
<1>5. CASE e # None
  <2>1. Hit(bmem, def, cur) /\ e = bmem[cur] /\ bmem[cur] # None
    BY <1>1, <1>2, <1>5, HitMeans DEF Hit
  <2>2. CASE cur \in BuildOnly
    <3>1. BNext /\ UNCHANGED tags
      BY <1>2, <1>5, <2>2 DEF BLookup
    <3>2. \A n \in First(bidx) : Ready(bmem, def, btypes, n)
      BY <1>1, <1>3, <2>1, <2>2 DEF Progress, Ready
    <3> QED BY <1>1, <3>1, <3>2, BNextProgress
  <2>3. CASE cur \notin BuildOnly
    <3>1. /\ tags' = [tags EXCEPT ![cur] = [t \in Types |->
                      IF t \in found THEN e.manifests[t] ELSE tags[cur][t]]]
          /\ IF found = btypes THEN BNext ELSE BGoto("delete")
      BY <1>2, <1>5, <2>3 DEF BLookup
    <3>2. \A t \in found : t \in Types /\ e.manifests[t] = tags[cur][t]
      BY <1>1, <2>1 DEF Sound
    <3>3. tags' = tags
      <4>1. tags \in [Layers -> [Types -> Contents \union {None}]]
        BY DEF Typed, SharedTypes
      <4>2. [t \in Types |-> IF t \in found THEN e.manifests[t] ELSE tags[cur][t]] = tags[cur]
        <5>1. [t \in Types |-> IF t \in found THEN e.manifests[t] ELSE tags[cur][t]]
                = [t \in Types |-> tags[cur][t]]
          BY <3>2
        <5>2. [t \in Types |-> tags[cur][t]] = tags[cur]
          BY <1>1, <4>1
        <5> QED BY <5>1, <5>2
      <4>3. [tags EXCEPT ![cur] = tags[cur]] = tags
        BY <1>1, <4>1
      <4> QED BY <3>1, <4>2, <4>3
    <3>4. CASE found = btypes
      <4>1. BNext
        BY <3>1, <3>4
      <4>2. \A t \in btypes : bmem[cur].manifests[t] # None
        BY <2>1, <3>4
      <4>3. \A n \in First(bidx) : Ready(bmem, def, btypes, n)
        BY <1>1, <1>3, <2>1, <4>2 DEF Progress, Ready
      <4> QED BY <1>1, <3>3, <4>1, <4>3, BNextProgress
    <3>5. CASE found # btypes
      <4>1. BGoto("delete")
        BY <3>1, <3>5
      <4> QED BY <1>1, <3>3, <4>1, BGotoProgress
    <3> QED BY <3>4, <3>5
  <2> QED BY <2>2, <2>3
<1> QED BY <1>4, <1>5

LEMMA BDeleteSteady == ASSUME Typed, Progress, BDelete  PROVE Steady'
<1>1. /\ Finished = First(bidx - 1) /\ BGoto("rootfs") /\ UNCHANGED <<def, tags>>
      /\ roots' = [roots EXCEPT ![cur] = None]
  BY DEF BDelete, Finished
<1>2. \A n \in Layers \ {cur} : roots'[n] = roots[n]
  BY <1>1 DEF Typed, SharedTypes
<1> QED BY <1>1, <1>2, BGotoProgress

LEMMA BRootfsSteady == ASSUME Typed, Progress, BRootfs  PROVE Steady'
<1> DEFINE below == IF From[cur] = None THEN <<>> ELSE roots[From[cur]]
           fresh == IF From[cur] = None THEN <<>> ELSE Fresh(def)[From[cur]]
<1>1. /\ Finished = First(bidx - 1) /\ UNCHANGED <<def, tags>>
      /\ cur \in Layers /\ (From[cur] # None => From[cur] \in First(bidx - 1))
  BY CurFirst DEF Typed, BRootfs, Finished
<1>2. below = fresh /\ below # None
  <2>1. From[cur] # None => roots[From[cur]] = Fresh(def)[From[cur]] /\ roots[From[cur]] # None
    BY <1>1, BaseReady
  <2>2. <<>> # None
    BY ContentFacts
  <2> QED BY <2>1, <2>2
<1>3. roots' = [roots EXCEPT ![cur] = Append(below, def[cur])]
  BY <1>2 DEF BRootfs
<1>4. BGoto(IF cur \in BuildOnly THEN "put" ELSE "bases")
  BY <1>2 DEF BRootfs
<1>5. Append(below, def[cur]) = Fresh(def)[cur]
  BY <1>1, <1>2, FreshAt
<1> HIDE DEF below, fresh
<1>6. roots'[cur] = Fresh(def)[cur] /\ \A n \in Layers \ {cur} : roots'[n] = roots[n]
  BY <1>1, <1>3, <1>5 DEF Typed, SharedTypes
<1>7. CASE cur \in BuildOnly
  <2>1. BGoto("put")
    BY <1>4, <1>7
  <2> QED BY <1>1, <1>6, <1>7, <2>1, BGotoProgress
<1>8. CASE cur \notin BuildOnly
  <2>1. BGoto("bases")
    BY <1>4, <1>8
  <2> QED BY <1>1, <1>6, <2>1, BGotoProgress
<1> QED BY <1>7, <1>8

LEMMA TaggedElsewhere ==
  ASSUME Typed, NEW images, Tagged(images)
  PROVE  /\ \A n \in Layers \ {cur} : tags'[n] = tags[n]
         /\ \A t \in btypes : tags'[cur][t] = images[t]
<1>1. tags' = [tags EXCEPT ![cur] = [t \in Types |->
                IF t \in btypes THEN images[t] ELSE tags[cur][t]]]
  BY DEF Tagged
<1>2. cur \in Layers /\ btypes \subseteq Types /\ tags \in [Layers -> [Types -> Contents \union {None}]]
  BY CurFirst DEF Typed, BuilderTypes, SharedTypes
<1> QED BY <1>1, <1>2

LEMMA BInitializeBasesSteady == ASSUME Typed, Progress, BInitializeBases  PROVE Steady'
<1> DEFINE b == FirstBaseInOutput[cur]
           start == [t \in Types |-> IF b = None THEN <<>> ELSE tags[b][t]]
<1>1. /\ Finished = First(bidx - 1) /\ UNCHANGED <<def, roots>> /\ bpc = "bases"
      /\ cur \in Layers /\ (From[cur] # None => From[cur] \in First(bidx - 1))
      /\ btypes \subseteq Types /\ bidx - 1 \in Nat /\ bidx - 1 <= Len(Order)
  BY CurFirst DEF Typed, BuilderTypes, BInitializeBases, Finished
<1>2. ~ \E t \in btypes : start[t] = None
  <2>1. CASE b = None
    BY <1>1, <2>1, ContentFacts
  <2>2. CASE b # None
    <3>1. b \in First(bidx - 1) /\ b \notin BuildOnly
      BY <1>1, <2>2, FirstBaseIs
    <3> HIDE DEF b
    <3>2. \A t \in btypes : tags[b][t] # None
      BY <1>1, <3>1, BaseReady
    <3> QED BY <1>1, <2>2, <3>2
  <2> QED BY <2>1, <2>2
<1>3. Tagged(start) /\ BGoto("commit")
  BY <1>2 DEF BInitializeBases
<1> HIDE DEF start
<1>4. \A n \in Layers \ {cur} : tags'[n] = tags[n]
  BY <1>3, TaggedElsewhere
<1>5. roots'[cur] = Fresh(def)[cur]
  BY <1>1 DEF Progress
<1> QED BY <1>1, <1>3, <1>4, <1>5, BGotoProgress

LEMMA BCommitSteady == ASSUME Typed, Progress, BCommit  PROVE Steady'
<1> DEFINE images == [t \in Types |-> roots[cur]]
<1>1. /\ Finished = First(bidx - 1) /\ UNCHANGED <<def, roots>> /\ bpc = "commit"
      /\ Tagged(images) /\ BGoto("put") /\ btypes \subseteq Types
  BY DEF Typed, BuilderTypes, BCommit, Finished
<1>2. \A t \in btypes : images[t] = roots[cur]
  BY <1>1
<1> HIDE DEF images
<1>3. /\ \A n \in Layers \ {cur} : tags'[n] = tags[n]
      /\ \A t \in btypes : tags'[cur][t] = images[t]
  BY <1>1, TaggedElsewhere
<1>4. roots'[cur] = Fresh(def)[cur] /\ \A t \in btypes : tags'[cur][t] = roots'[cur]
  BY <1>1, <1>2, <1>3 DEF Progress
<1> QED BY <1>1, <1>3, <1>4, BGotoProgress

\* What Put adds is a hit that stands for what has just been made.
LEMMA BPutSteady == ASSUME Apart, Typed, Progress, BPut  PROVE Steady'
<1> DEFINE baseHash == IF From[cur] = None THEN None ELSE Lookup(bmem, def)[From[cur]]
<1>1. /\ Finished = First(bidx - 1) /\ UNCHANGED <<def, roots, tags>> /\ bpc = "put"
      /\ cur \in Layers /\ (From[cur] # None => From[cur] \in First(bidx - 1))
      /\ btypes \subseteq Types
      /\ First(bidx) = First(bidx - 1) \union {cur} /\ cur \notin First(bidx - 1)
      /\ First(bidx - 1) \subseteq Layers
      /\ bidx - 1 \in Nat /\ bidx - 1 <= Len(Order)
  BY CurFirst DEF Typed, BuilderTypes, BPut, Finished
<1>2. From[cur] # None => Hit(bmem, def, From[cur])
  BY <1>1, BaseReady
<1>3. /\ bmem' = [bmem EXCEPT ![cur] = Made(baseHash)] /\ bpc' = "persist"
      /\ UNCHANGED buildVars
  BY <1>2 DEF BPut, Made, Hit
<1>4. /\ \A n \in Layers \ {cur} : bmem'[n] = bmem[n]
      /\ bmem'[cur] = Made(baseHash)
  <2>1. DOMAIN bmem = Layers
    BY DEF Typed, BuilderTypes, IsCache
  <2> HIDE DEF baseHash
  <2> QED BY <1>1, <1>3, <2>1
<1>5. \A n \in First(bidx - 1) : Lookup(bmem', def)[n] = Lookup(bmem, def)[n]
  <2>1. \A m \in First(bidx - 1) : bmem'[m] = bmem[m]
    BY <1>1, <1>4
  <2> QED BY <1>1, <2>1, LookupAgrees
<1>6. /\ Made(baseHash) \notin {None, LookupError}
      /\ Made(baseHash).def = def[cur] /\ Made(baseHash).base = baseHash
      /\ \A t \in Types : Made(baseHash).manifests[t] =
           IF cur \notin BuildOnly /\ t \in btypes THEN tags[cur][t] ELSE None
  <2> HIDE DEF baseHash
  <2>1. Made(baseHash) # None
    BY DEF Made, Apart
  <2>2. DOMAIN Made(baseHash) = {"def", "base", "manifests"} /\ DOMAIN LookupError = {"error"}
    BY DEF Made, LookupError
  <2>3. Made(baseHash) # LookupError
    BY <2>2
  <2> QED BY <2>1, <2>3 DEF Made
<1>7. Hit(bmem', def, cur)
  <2>1. From[cur] # None => Hit(bmem', def, From[cur]) /\ baseHash = Lookup(bmem', def)[From[cur]]
    BY <1>1, <1>2, <1>5 DEF Hit
  <2>2. From[cur] = None => baseHash = None
    OBVIOUS
  <2> HIDE DEF baseHash
  <2> QED BY <1>1, <1>4, <1>6, <2>1, <2>2, HitIf
<1> HIDE DEF baseHash
<1>8. roots[cur] = Fresh(def)[cur] /\ roots[cur] # None
  <2>1. roots[cur] = Fresh(def)[cur]
    BY <1>1 DEF Progress
  <2>2. Fresh(def)[cur] # None
    <3>1. From[cur] # None => Fresh(def)[From[cur]] \in Contents
      <4>1. From[cur] # None =>
              From[cur] \in Layers /\ roots[From[cur]] = Fresh(def)[From[cur]] /\ roots[From[cur]] # None
        BY <1>1, BaseReady
      <4> QED BY <4>1 DEF Typed, SharedTypes
    <3>2. def[cur] \in Versions
      BY <1>1 DEF Typed, SharedTypes
    <3> QED BY <1>1, <3>1, <3>2, FreshAt, ContentFacts
  <2> QED BY <2>1, <2>2
<1>9. StandsFor(cur, bmem'[cur], roots[cur])
  BY <1>1, <1>7, <1>8, Stands
<1>10. /\ cur \notin BuildOnly => \A t \in btypes : bmem'[cur].manifests[t] = roots[cur]
       /\ \A t \in Types : bmem'[cur].manifests[t] # None =>
            bmem'[cur].manifests[t] = tags[cur][t] /\ tags[cur][t] = roots[cur]
  <2>1. cur \notin BuildOnly => \A t \in btypes : tags[cur][t] = roots[cur]
    BY <1>1 DEF Progress
  <2> QED BY <1>1, <1>4, <1>6, <2>1
<1>11. \A n \in Layers : Sound(bmem', roots, tags, n)
  <2>1. Sound(bmem', roots, tags, cur)
    BY <1>8, <1>9, <1>10 DEF Sound
  <2>2. \A n \in Layers \ {cur} : Sound(bmem', roots, tags, n)
    BY <1>4 DEF Progress, Sound
  <2> QED BY <2>1, <2>2
<1>12. \A n \in First(bidx) : Ready(bmem', def, btypes, n)
  <2>1. Ready(bmem', def, btypes, cur)
    BY <1>7, <1>8, <1>10 DEF Ready
  <2>2. \A n \in First(bidx - 1) : Ready(bmem', def, btypes, n)
    <3>1. \A n \in First(bidx - 1) : bmem'[n] = bmem[n] /\ Ready(bmem, def, btypes, n)
      BY <1>1, <1>4 DEF Progress
    <3> QED BY <1>5, <3>1 DEF Ready, Hit
  <2> QED BY <1>1, <2>1, <2>2
<1>13. Finished' = First(bidx) /\ ~Rebuilding' /\ UNCHANGED <<bidx, btypes, bout>>
  BY <1>3 DEF Finished, Rebuilding, buildVars
<1>14. Progress'
  BY <1>1, <1>3, <1>11, <1>12, <1>13 DEF Progress
<1> QED BY <1>3, <1>14, GoesOn DEF Busy

LEMMA BTruncateSteady == ASSUME Typed, Progress, BTruncate  PROVE Steady'
<1>1. /\ UNCHANGED <<def, roots, tags, bmem, bidx, btypes, bout>>
      /\ \/ bpc = "pruned" /\ bpc' = "writePruned"
         \/ bpc = "persist" /\ bpc' = "write"
  BY DEF BTruncate, BGoto, buildVars
<1>2. Finished' = Finished
  BY <1>1 DEF Finished
<1>3. ~Rebuilding /\ ~Rebuilding'
  BY <1>1 DEF Rebuilding
<1>4. Progress'
  BY <1>1, <1>2, <1>3 DEF Progress
<1> QED BY <1>1, <1>4, GoesOn DEF Busy

LEMMA BWriteSteady == ASSUME Typed, Progress, BWrite  PROVE Steady'
<1>1. UNCHANGED <<def, roots, tags>> /\ ~Rebuilding
  BY DEF BWrite, Rebuilding
<1>2. CASE bpc = "writePruned"
  <2>1. bpc' = "lookup" /\ UNCHANGED <<bmem, bidx, btypes, bout>>
    BY <1>2 DEF BWrite, BGoto, buildVars
  <2>2. Finished' = Finished /\ ~Rebuilding'
    BY <1>2, <2>1 DEF Finished, Rebuilding
  <2>3. Progress'
    BY <1>1, <2>1, <2>2 DEF Progress
  <2> QED BY <2>1, <2>3, GoesOn DEF Busy
<1>3. CASE bpc = "write"
  <2>1. BNext /\ Finished = First(bidx)
    BY <1>3 DEF BWrite, Finished
  <2>2. \A n \in First(bidx) : Ready(bmem, def, btypes, n)
    BY <2>1 DEF Progress
  <2> QED BY <1>1, <2>1, <2>2, BNextProgress
<1> QED BY <1>2, <1>3 DEF BWrite

LEMMA BGCSteady == ASSUME Typed, Progress, BGC  PROVE Steady'
<1>1. bpc = "gc" /\ UNCHANGED <<def, roots, tags, btypes>>
  BY DEF BGC, BExit, BGoto, buildVars
<1>2. Finished = First(bidx) /\ ~Rebuilding
  BY <1>1 DEF Finished, Rebuilding
<1>3. CASE bidx = Len(Order)
  <2>1. Finished = Layers /\ bout' = "ok" /\ bpc' = "idle"
    BY <1>2, <1>3, Ranked DEF BGC, BExit
  <2>2. ASSUME NEW n \in Layers \ BuildOnly, NEW t \in btypes  PROVE tags[n][t] = Fresh(def)[n]
    <3>1. Ready(bmem, def, btypes, n) /\ Sound(bmem, roots, tags, n) /\ t \in Types
      BY <1>2, <2>1 DEF Progress, Typed, BuilderTypes
    <3>2. Hit(bmem, def, n) /\ bmem[n] # None /\ bmem[n].manifests[t] # None
      BY <3>1, HitMeans DEF Ready
    <3> QED BY <3>1, <3>2 DEF Sound, StandsFor
  <2> QED BY <1>1, <2>1, <2>2 DEF Steady, Busy
<1>4. CASE bidx # Len(Order)
  <2>1. bpc' = "reopen" /\ UNCHANGED <<bmem, bidx, bout>>
    BY <1>4 DEF BGC, BGoto, buildVars
  <2>2. Finished' = Finished /\ ~Rebuilding'
    BY <1>2, <2>1 DEF Finished, Rebuilding
  <2>3. Swept'
    <3>1. blobs' = {<<t, tags[n][t]>> : n \in Layers, t \in Types} \ {<<t, None>> : t \in Types}
      BY DEF BGC
    <3> QED BY <1>1, <3>1 DEF Swept
  <2>4. Progress'
    BY <1>1, <1>2, <2>1, <2>2, <2>3 DEF Progress
  <2> QED BY <2>1, <2>4, GoesOn DEF Busy
<1> QED BY <1>3, <1>4

-----------------------------------------------------------------------------
(* As long as nothing has gone wrong *)

Trusted(c) == IsCache(c) /\ \A n \in Layers : Sound(c, roots, tags, n)

\* The processes take turns, and whatever cache the next one reads is sound.
Quiet ==
  mishaps = {} =>
    /\ bcalm /\ ~(Busy /\ Publishing)
    /\ ~Busy => file = None \/ Trusted(file) \/ ppc = "write"
    /\ Busy => \/ bpc \in {"pruned", "writePruned", "persist", "write"}
               \/ file = bmem
               \/ file = None /\ bmem = EmptyCache
    /\ Publishing => \A n \in Layers : Sound(pmem, roots, tags, n)

\* After a publish was killed while it wrote, the cache cannot be opened.
Stuck ==
  mishaps = {"writeKilled"} => file = Cut /\ ~Busy /\ ~Publishing /\ ~pok

LEMMA EmptyTrusted == Trusted(EmptyCache)
  BY EmptyIsCache DEF Trusted, Sound, EmptyCache

LEMMA BStartSteady == ASSUME Apart, Typed, Quiet, Steady, BStart  PROVE Steady' /\ Quiet' /\ (Stuck => Stuck')
<1> DEFINE read == IF file = None THEN EmptyCache ELSE file
           kept == [n \in Layers |-> IF read[n] = None THEN None
                                     ELSE IF StillThere(n, read[n]) THEN read[n]
                                     ELSE None]
<1>1. /\ ~Busy /\ bidx' = 1 /\ UNCHANGED <<def, file, roots, tags, ppc, pmem, pok>>
      /\ mishaps' = mishaps \union IF Publishing THEN {"overlap"} ELSE {}
      /\ bcalm' = (mishaps' = {})
  BY DEF BStart, BOpenCache, pubVars
<1>2. CASE mishaps' = {}
  <2>1. mishaps = {} /\ ~Publishing /\ bcalm'
    BY <1>1, <1>2
  <2>2. file = None \/ Trusted(file)
    BY <1>1, <2>1 DEF Quiet, Publishing
  <2>3. Trusted(read) /\ file \notin Unreadable
    BY <2>2, EmptyTrusted, PublishAssumption DEF Apart, Trusted, IsCache, Unreadable
  <2>4. bmem' = kept /\ bout' = "none" /\ bpc' = IF kept = read THEN "lookup" ELSE "pruned"
    BY <2>3 DEF BStart, BOpenCache
  <2>5. \A n \in Layers : Sound(kept, roots, tags, n)
    <3> HIDE DEF read
    <3> QED BY <2>3 DEF Trusted, Sound
  <2>6. \A n \in Layers : Sound(bmem', roots, tags, n)
    <3> HIDE DEF kept
    <3> QED BY <2>4, <2>5
  <2>7. bpc' \in {"lookup", "pruned"} /\ (bpc' = "lookup" => bmem' = read)
    <3> HIDE DEF kept, read
    <3> QED BY <2>4
  <2> HIDE DEF kept
  <2>8. Finished' = {}
    <3>1. bidx' - 1 = 0
      BY <1>1
    <3> QED BY <2>7, <3>1, Ranked DEF Finished
  <2>9. Progress'
    BY <1>1, <2>4, <2>6, <2>7, <2>8 DEF Progress
  <2>10. Steady'
    BY <2>7, <2>9, GoesOn DEF Busy
  <2>11. Quiet'
    BY <1>1, <2>1, <2>7 DEF Quiet, Busy, Publishing
  <2> QED BY <1>2, <2>10, <2>11 DEF Stuck
<1>3. CASE mishaps' # {}
  <2>1. Steady' /\ Quiet'
    BY <1>1, <1>3 DEF Steady, Quiet
  <2>2. ASSUME Stuck, mishaps' = {"writeKilled"}  PROVE Stuck'
    <3>1. mishaps = {"writeKilled"}
      BY <1>1, <1>3, <2>2
    <3>2. file = Cut /\ ~Publishing /\ ~pok
      BY <2>2, <3>1 DEF Stuck
    <3>3. bpc' = "idle"
      BY <3>2 DEF BStart, BOpenCache, Unreadable
    <3> QED BY <1>1, <3>2, <3>3 DEF Stuck, Busy, Publishing
  <2> QED BY <2>1, <2>2 DEF Stuck
<1> QED BY <1>2, <1>3

\* The next stackerfile finds the cache that the build has in memory.
LEMMA BReopenSteady == ASSUME Apart, Typed, Quiet, Steady, BReopen  PROVE Steady' /\ Quiet' /\ (Stuck => Stuck')
<1> DEFINE read == IF file = None THEN EmptyCache ELSE file
           kept == [n \in Layers |-> IF read[n] = None THEN None
                                     ELSE IF StillThere(n, read[n]) THEN read[n]
                                     ELSE None]
<1>1. /\ bpc = "reopen" /\ Busy
      /\ UNCHANGED <<def, file, roots, tags, ppc, pmem, pok, btypes, mishaps>>
      /\ bcalm' = (mishaps' = {})
  BY DEF BReopen, BOpenCache, pubVars, Busy
<1>2. CASE mishaps = {}
  <2>1. bcalm /\ ~Publishing /\ Progress /\ Swept
    BY <1>1, <1>2 DEF Quiet, Steady, Progress
  <2>2. read = bmem
    BY <1>1, <1>2, PublishAssumption DEF Quiet, Apart, Typed, BuilderTypes, IsCache
  <2>3. IsCache(bmem) /\ bmem \notin Unreadable /\ bmem # None
    BY DEF Apart, Typed, BuilderTypes, IsCache, Unreadable
  <2>4. file \notin Unreadable
    <3>1. file = None \/ file = bmem
      BY <2>2
    <3> QED BY <2>3, <3>1, PublishAssumption DEF Unreadable
  <2>5. ASSUME NEW n \in Layers, bmem[n] # None  PROVE StillThere(n, bmem[n])
    <3>1. Sound(bmem, roots, tags, n)
      BY <1>1, <2>1 DEF Progress, Rebuilding
    <3> QED BY <2>1, <2>5, <3>1 DEF Sound, StillThere, Swept
  <2>6. \A n \in Layers : kept[n] = bmem[n]
    <3> HIDE DEF read
    <3> QED BY <2>2, <2>5
  <2>7. /\ bmem' = kept /\ bidx' = bidx + 1 /\ bout' = "none"
        /\ bpc' = IF kept = read THEN "lookup" ELSE "pruned"
    <3>1. BOpenCache(bidx + 1)
      BY DEF BReopen
    <3> QED BY <2>4, <3>1 DEF BOpenCache
  <2> HIDE DEF kept, read
  <2>8. /\ \A n \in Layers : bmem'[n] = bmem[n]
        /\ bpc' \in {"lookup", "pruned"} /\ (bpc' = "lookup" => bmem' = bmem)
    BY <2>2, <2>6, <2>7
  <2>9. Finished' = Finished /\ Finished = First(bidx) /\ ~Rebuilding /\ ~Rebuilding'
    <3>1. bidx' - 1 = bidx
      BY <2>7 DEF Typed, BuilderTypes
    <3> QED BY <1>1, <2>8, <3>1 DEF Finished, Rebuilding
  <2>10. Progress'
    <3>1. \A n \in Layers : Sound(bmem', roots, tags, n)
      BY <2>1, <2>8, <2>9 DEF Progress, Sound
    <3>2. \A n \in Finished : Ready(bmem', def, btypes, n)
      <4>1. bidx \in Nat /\ bidx <= Len(Order) /\ First(bidx) \subseteq Layers
        BY CurFirst DEF Typed
      <4>2. \A n \in First(bidx) : Lookup(bmem', def)[n] = Lookup(bmem, def)[n]
        BY <2>8, <4>1, LookupAgrees
      <4> QED BY <2>1, <2>8, <2>9, <4>1, <4>2 DEF Progress, Ready, Hit
    <3> QED BY <1>1, <2>7, <2>8, <2>9, <3>1, <3>2 DEF Progress
  <2>11. Steady'
    BY <2>8, <2>10, GoesOn DEF Busy
  <2>12. Quiet'
    BY <1>1, <1>2, <2>1, <2>8 DEF Quiet, Busy, Publishing
  <2> QED BY <1>1, <1>2, <2>11, <2>12 DEF Stuck
<1>3. CASE mishaps # {}
  <2>1. Steady' /\ Quiet'
    BY <1>1, <1>3 DEF Steady, Quiet
  <2> QED BY <1>1, <2>1 DEF Stuck
<1> QED BY <1>2, <1>3

\* The steps of a build under way.
BSteps == \/ BLookup \/ BDelete \/ BRootfs \/ BInitializeBases \/ BCommit \/ BPut
          \/ BTruncate \/ BWrite \/ BGC

LEMMA BStepsBusy ==
  ASSUME BSteps  PROVE Busy /\ UNCHANGED <<pubVars, bcalm>> /\ mishaps \subseteq mishaps'
                       /\ (mishaps' # mishaps => "clash" \in mishaps')
<1>1. CASE BLookup \/ BDelete \/ BRootfs \/ BInitializeBases
  BY <1>1 DEF BLookup, BDelete, BRootfs, BInitializeBases, BFail, BExit, BGoto, BNext, buildVars, Busy
<1>2. CASE BCommit \/ BPut \/ BTruncate \/ BWrite \/ BGC
  BY <1>2 DEF BCommit, BPut, BTruncate, BWrite, BGC, BFail, BExit, BGoto, BNext, buildVars, Busy
<1> QED BY <1>1, <1>2 DEF BSteps

LEMMA BStepsSteady == ASSUME Apart, Typed, Steady, BSteps  PROVE Steady'
<1>1. CASE ~bcalm
  BY <1>1, BStepsBusy DEF Steady
<1>2. CASE bcalm
  <2>1. Progress
    BY <1>2, BStepsBusy DEF Steady
  <2> QED BY <2>1, BLookupSteady, BDeleteSteady, BRootfsSteady, BInitializeBasesSteady,
             BCommitSteady, BPutSteady, BTruncateSteady, BWriteSteady, BGCSteady DEF BSteps
<1> QED BY <1>1, <1>2

LEMMA BStepsQuiet ==
  ASSUME Typed, Explained, Quiet, Steady, Steady', Stuck, BSteps  PROVE Quiet' /\ Stuck'
<1>1. Busy /\ mishaps \subseteq mishaps' /\ UNCHANGED <<ppc, pmem, pok, bcalm>>
      /\ (mishaps' # mishaps => "clash" \in mishaps')
  BY BStepsBusy DEF pubVars
<1>2. Stuck'
  <2>1. mishaps' = {"writeKilled"} => mishaps = {"writeKilled"}
    BY <1>1
  <2> QED BY <1>1, <2>1 DEF Stuck
<1>3. SUFFICES ASSUME mishaps' = {}  PROVE Quiet'
  BY <1>2 DEF Quiet
<1>4. mishaps = {} /\ bcalm /\ ~Publishing /\ Progress
  BY <1>1, <1>3 DEF Quiet, Steady
<1>5. bcalm' /\ ~Publishing' /\ bout' # "failed"
  BY <1>1, <1>4 DEF Publishing, Steady
<1>6. CASE BPut \/ BTruncate
  <2>1. bpc' \in {"persist", "writePruned", "write"}
    BY <1>5, <1>6 DEF BPut, BTruncate, BFail, BExit, BGoto
  <2> QED BY <1>5, <2>1 DEF Quiet, Busy, Publishing
<1>7. CASE BWrite
  <2>1. file = Cut
    BY <1>4, <1>7 DEF Explained, BWrite
  <2>2. file' = bmem /\ bmem' = bmem /\ bpc' # "idle"
    BY <1>7, <2>1 DEF BWrite, WriteFile, BGoto, BNext
  <2> QED BY <1>5, <2>2 DEF Quiet, Busy
<1>8. CASE BGC
  <2>1. /\ bpc = "gc" /\ UNCHANGED <<file, roots, tags>>
        /\ \/ bpc' = "idle"
           \/ bpc' = "reopen" /\ bmem' = bmem
    BY <1>8 DEF BGC, BExit, BGoto
  <2>2. file = bmem \/ (file = None /\ bmem = EmptyCache)
    BY <1>1, <1>4, <2>1 DEF Quiet
  <2>3. Trusted(bmem)
    BY <2>1, <1>4 DEF Trusted, Progress, Rebuilding, Typed, BuilderTypes
  <2>4. file' = None \/ Trusted(file)'
    BY <2>1, <2>2, <2>3 DEF Trusted, IsCache
  <2>5. CASE bpc' = "idle"
    BY <1>5, <2>4, <2>5 DEF Quiet, Busy
  <2>6. CASE bpc' = "reopen" /\ bmem' = bmem
    BY <1>5, <2>1, <2>2, <2>6 DEF Quiet, Busy, EmptyCache
  <2> QED BY <2>1, <2>5, <2>6
<1>9. CASE BLookup \/ BDelete \/ BRootfs \/ BInitializeBases \/ BCommit
  <2>1. /\ bpc \notin {"pruned", "writePruned", "persist", "write"}
        /\ bpc' # "idle" /\ UNCHANGED <<file, bmem>>
    BY <1>5, <1>9 DEF BLookup, BDelete, BRootfs, BInitializeBases, BCommit, BFail, BExit, BGoto, BNext
  <2> QED BY <1>1, <1>4, <1>5, <2>1 DEF Quiet, Busy
<1> QED BY <1>6, <1>7, <1>8, <1>9 DEF BSteps

LEMMA KillSteady ==
  ASSUME Steady, Quiet, Stuck, BKill  PROVE Steady' /\ Quiet' /\ Stuck'
<1>1. bout' = "killed" /\ bpc' = "idle" /\ "killed" \in mishaps'
  BY DEF BKill, BExit
<1> QED BY <1>1 DEF Steady, Quiet, Stuck, Busy

LEMMA EditSteady ==
  ASSUME Steady, Quiet, Stuck, NEW n \in Layers, EditDefinition(n)  PROVE Steady' /\ Quiet' /\ Stuck'
<1>1. /\ ~Busy /\ bout' = "none"
      /\ UNCHANGED <<file, roots, tags, bpc, bmem, bcalm, ppc, pmem, pok, mishaps>>
  BY DEF EditDefinition, pubVars
<1> QED BY <1>1 DEF Steady, Quiet, Stuck, Busy, Publishing, Trusted, IsCache

\* The publisher's steps leave the builder and what it makes alone.
LEMMA PStepKeeps ==
  ASSUME \/ PStep \/ PKill
         \/ \E types \in TypeChoices, mode \in Modes, want \in Wants : PStart(types, mode, want)
  PROVE  UNCHANGED <<def, roots, tags, blobs, bpc, bmem, buildVars>> /\ mishaps \subseteq mishaps'
<1>1. CASE PStep
  BY <1>1 DEF PStep, PCheck, PTruncate, PWrite, PArgs, PSkip, PLookup, PDone, PResolve, PCopy,
     PNextLayer, builderVars
<1>2. CASE PKill \/ \E types \in TypeChoices, mode \in Modes, want \in Wants : PStart(types, mode, want)
  BY <1>2 DEF PKill, PStart, builderVars
<1> QED BY <1>1, <1>2

LEMMA PStartQuiet ==
  ASSUME Apart, Typed, Quiet, Stuck, NEW types \in TypeChoices, NEW mode, NEW want,
         PStart(types, mode, want)
  PROVE  Quiet' /\ Stuck'
<1>1. /\ ~Publishing /\ pok' = FALSE /\ UNCHANGED <<file, roots, tags, bpc, bmem, bcalm>>
      /\ mishaps' = mishaps \union IF Busy THEN {"overlap"} ELSE {}
      /\ ppc' = IF file \in Unreadable THEN "idle" ELSE "check"
      /\ pmem' = IF file \in Unreadable \union {None} THEN EmptyCache ELSE file
  BY DEF PStart, builderVars, buildVars
<1>2. Stuck'
  <2>1. SUFFICES ASSUME mishaps' = {"writeKilled"}  PROVE Stuck'
    BY DEF Stuck
  <2>2. mishaps = {"writeKilled"}
    BY <1>1, <2>1
  <2> QED BY <1>1, <2>2 DEF Stuck, Unreadable, Busy, Publishing
<1>3. SUFFICES ASSUME mishaps' = {}  PROVE Quiet'
  BY <1>2 DEF Quiet
<1>4. mishaps = {} /\ ~Busy /\ bcalm /\ (file = None \/ Trusted(file))
  BY <1>1, <1>3 DEF Quiet, Publishing
<1>5. \A n \in Layers : Sound(pmem', roots, tags, n)
  BY <1>1, <1>4, EmptyTrusted, PublishAssumption DEF Trusted
<1>6. (file = None \/ Trusted(file))'
  BY <1>1, <1>4 DEF Trusted, IsCache
<1> QED BY <1>1, <1>4, <1>5, <1>6 DEF Quiet, Busy, Publishing

LEMMA PStepQuiet ==
  ASSUME Apart, Typed, Explained, Quiet, Stuck, PStep \/ PKill
  PROVE  Quiet' /\ Stuck'
<1>1. /\ UNCHANGED <<roots, tags, bpc, bmem, bcalm>> /\ mishaps \subseteq mishaps' /\ Publishing
      /\ mishaps' # mishaps => \/ "clash" \in mishaps'
                               \/ ppc = "write" /\ PKill /\ "writeKilled" \in mishaps'
  <2>1. Publishing
    BY DEF PStep, PCheck, PTruncate, PWrite, PArgs, PSkip, PLookup, PDone, PResolve, PCopy,
       PNextLayer, PKill, Publishing
  <2>2. CASE PKill
    BY <2>1, <2>2, PStepKeeps DEF PKill, buildVars
  <2>3. CASE PStep
    <3>1. mishaps' # mishaps => "clash" \in mishaps'
      BY <2>3 DEF PStep, PCheck, PTruncate, PWrite, PArgs, PSkip, PLookup, PDone, PResolve, PCopy,
         PNextLayer
    <3> QED BY <2>1, <2>3, <3>1, PStepKeeps DEF buildVars
  <2> QED BY <2>2, <2>3
<1>2. Stuck'
  <2>1. SUFFICES ASSUME mishaps' = {"writeKilled"}  PROVE Stuck'
    BY DEF Stuck
  <2>2. mishaps # {"writeKilled"}
    BY <1>1 DEF Stuck
  <2>3. mishaps = {} /\ ppc = "write" /\ PKill
    BY <1>1, <2>1, <2>2
  <2>4. file = Cut /\ ~Busy
    BY <1>1, <2>3 DEF Explained, Quiet
  <2>5. UNCHANGED <<file, bpc>> /\ ppc' = "idle" /\ pok' = FALSE
    BY <2>3 DEF PKill, PFail, builderVars
  <2> QED BY <2>4, <2>5 DEF Stuck, Busy, Publishing
<1>3. SUFFICES ASSUME mishaps' = {}  PROVE Quiet'
  BY <1>2 DEF Quiet
<1>4. mishaps = {} /\ ~Busy /\ bcalm /\ \A n \in Layers : Sound(pmem, roots, tags, n)
  BY <1>1, <1>3 DEF Quiet
<1>6. \A n \in Layers : pmem'[n] \in {pmem[n], None}
  <2>1. pmem' = pmem \/ pmem' = EmptyCache \/ \E n \in Layers : pmem' = [pmem EXCEPT ![n] = None]
    BY DEF PStep, PCheck, PTruncate, PWrite, PArgs, PSkip, PLookup, PDone, PResolve, PCopy,
       PNextLayer, PKill, PFail, PGoto
  <2>2. DOMAIN pmem = Layers
    BY DEF Typed, PublisherTypes, IsCache
  <2> QED BY <2>1, <2>2 DEF EmptyCache
<1>7. \A n \in Layers : Sound(pmem', roots', tags', n)
  BY <1>1, <1>4, <1>6 DEF Sound
<1>8. (file = None \/ Trusted(file) \/ ppc = "write")'
  <2>1. CASE PTruncate
    BY <2>1 DEF PTruncate, PGoto
  <2>2. CASE PWrite
    <3>1. file = Cut
      BY <1>4, <2>2 DEF PWrite, Explained
    <3>2. file' = pmem
      BY <2>2, <3>1 DEF PWrite, WriteFile
    <3>3. IsCache(pmem)
      BY DEF Typed, PublisherTypes
    <3> QED BY <1>1, <1>4, <3>2, <3>3 DEF Trusted, IsCache
  <2>3. CASE PKill
    <3>1. ppc # "write" /\ file' = file
      BY <1>3, <2>3 DEF PKill
    <3> QED BY <1>1, <1>4, <3>1 DEF Quiet, Trusted, IsCache
  <2>4. CASE ~PTruncate /\ ~PWrite /\ ~PKill
    <3>1. ppc # "write" /\ file' = file
      BY <2>4 DEF PStep, PCheck, PArgs, PSkip, PLookup, PDone, PResolve, PCopy, PNextLayer
    <3> QED BY <1>1, <1>4, <3>1 DEF Quiet, Trusted, IsCache
  <2> QED BY <2>1, <2>2, <2>3, <2>4
<1> QED BY <1>1, <1>4, <1>7, <1>8 DEF Quiet, Busy

CalmInv == Typed /\ Explained /\ Steady /\ Quiet /\ Stuck

LEMMA InitCalm == ASSUME Apart, Init  PROVE CalmInv
<1>1. Explained
  BY PublishAssumption DEF Init, Explained, UnreadableIsExplained, Unreadable
<1>2. Steady /\ Quiet /\ Stuck
  BY DEF Init, Steady, Quiet, Stuck, Busy, Publishing
<1> QED BY <1>1, <1>2, InitTyped DEF CalmInv

LEMMA NextCalm == ASSUME Apart, CalmInv, [Next]_vars  PROVE CalmInv'
<1>1. Typed' /\ Explained'
  BY NextTyped, NextExplained DEF CalmInv
<1>2. CASE UNCHANGED vars
  <2>1. UNCHANGED <<def, file, roots, tags, blobs, bpc, bmem, buildVars, bcalm, ppc, pmem, pok, mishaps>>
    BY <1>2 DEF vars, pubVars, buildVars
  <2>2. Steady'
    BY <2>1, SteadyKept DEF CalmInv
  <2>3. Quiet' /\ Stuck'
    BY <2>1 DEF CalmInv, Quiet, Stuck, Busy, Publishing, Trusted, IsCache
  <2> QED BY <1>1, <2>2, <2>3 DEF CalmInv
<1>3. CASE \E n \in Layers : EditDefinition(n)
  BY <1>1, <1>3, EditSteady DEF CalmInv
<1>4. CASE BStart \/ BReopen
  BY <1>1, <1>4, BStartSteady, BReopenSteady DEF CalmInv
<1>5. CASE BSteps
  <2>1. Steady'
    BY <1>5, BStepsSteady DEF CalmInv
  <2> QED BY <1>1, <1>5, <2>1, BStepsQuiet DEF CalmInv
<1>6. CASE BKill
  BY <1>1, <1>6, KillSteady DEF CalmInv
<1>7. CASE PStep \/ PKill
  <2>1. Steady'
    BY <1>7, PStepKeeps, SteadyKept DEF CalmInv
  <2> QED BY <1>1, <1>7, <2>1, PStepQuiet DEF CalmInv
<1>8. CASE \E types \in TypeChoices, mode \in Modes, want \in Wants : PStart(types, mode, want)
  <2>1. Steady'
    BY <1>8, PStepKeeps, SteadyKept DEF CalmInv
  <2> QED BY <1>1, <1>8, <2>1, PStartQuiet DEF CalmInv
<1> QED
  <2>1. Build => BStart \/ BReopen \/ BSteps
    BY DEF Build, BSteps
  <2> QED BY <1>2, <1>3, <1>4, <1>5, <1>6, <1>7, <1>8, <2>1 DEF Next

\* A publish that starts after a running build has opened the cache for its last
\* stackerfile, prunes its own copy, writes it or is killed anywhere makes that
\* build neither fail nor tag anything else than a build from nothing would
\* (build.go, cache.go, publisher.go).
THEOREM BuildUnharmed == ASSUME Apart  PROVE Spec => []RunningBuildUnharmed
<1>1. CalmInv => RunningBuildUnharmed
  BY DEF CalmInv, Steady, RunningBuildUnharmed
<1>2. Init => CalmInv
  BY InitCalm
<1>3. CalmInv /\ [Next]_vars => CalmInv'
  BY NextCalm
<1> QED BY <1>1, <1>2, <1>3, PTL DEF Spec

-----------------------------------------------------------------------------
(* What is published *)

Delivered(n, t) ==
  Requested(n) /\ pmem[n].manifests[t] # None => dest[n][t] = Fresh(psf)[n]

\* The publisher has delivered the layers it is through with, and of the layer
\* it is at the types it is through with.
Serving ==
  mishaps = {} /\ Publishing /\ pmode = "plain" =>
    /\ psf = def
    /\ ppc \in {"check", "write", "args"} => pidx = 1
    /\ ppc \in {"layer", "type", "copy"} =>
         \A n \in First(pidx - 1), t \in ptypes : Delivered(n, t)
    /\ ppc \in {"type", "copy"} =>
         /\ Hit(pmem, psf, Order[pidx])
         /\ \A t \in ptypes \ ptodo : ppc = "type" \/ t # psrc[1] => Delivered(Order[pidx], t)
    /\ ppc = "copy" => psrc[2] = tags[Order[pidx]][psrc[1]]

Served ==
  /\ ~Publishing /\ pok /\ pmode = "plain" /\ mishaps = {} =>
       \A n \in Layers, t \in ptypes : Delivered(n, t)
  /\ Publishing => pok = FALSE

LEMMA DeliveredKept ==
  ASSUME UNCHANGED <<pwant, pmem, psf, dest>>, NEW n, NEW t  PROVE Delivered(n, t)' = Delivered(n, t)
  BY DEF Delivered, Requested

\* Nothing of the publisher moves, and no mishap is undone.
LEMMA BuilderServes ==
  ASSUME Serving, Served, UNCHANGED <<pubVars, dest>>, mishaps \subseteq mishaps',
         (mishaps' = {} /\ Publishing) => UNCHANGED <<def, tags>>
  PROVE  Serving' /\ Served'
<1>1. UNCHANGED <<ppc, pidx, ptypes, pmode, pwant, psf, pmem, ptodo, psrc, pok, dest>>
  BY DEF pubVars, pubArgs
<1>2. \A n, t : Delivered(n, t)' = Delivered(n, t)
  BY <1>1, DeliveredKept
<1>3. mishaps' = {} => mishaps = {}
  OBVIOUS
<1>4. Served'
  BY <1>1, <1>2, <1>3 DEF Served, Publishing
<1>5. Serving'
  BY <1>1, <1>2, <1>3 DEF Serving, Publishing
<1> QED BY <1>4, <1>5

\* The image of a hit is the one that belongs to the stackerfile.
LEMMA HitIsFresh ==
  ASSUME CalmInv, Serving, mishaps = {}, Publishing, pmode = "plain", ppc \in {"type", "copy"},
         NEW t \in Types, pmem[Order[pidx]].manifests[t] # None
  PROVE  tags[Order[pidx]][t] = Fresh(psf)[Order[pidx]]
<1> DEFINE n == Order[pidx]
<1>1. n \in Layers
  BY PIdxIs DEF CalmInv, Typed, PublisherTypes
<1>2. Hit(pmem, psf, n) /\ Sound(pmem, roots, tags, n)
  BY <1>1 DEF Serving, CalmInv, Quiet
<1> HIDE DEF n
<1>3. pmem[n] # None
  BY <1>1, <1>2, HitMeans
<1> QED BY <1>2, <1>3 DEF Sound, StandsFor, n

LEMMA PFailServes == ASSUME PFail  PROVE Serving' /\ Served'
  BY DEF PFail, Serving, Served, Publishing

\* Up to the loop over the layers.
LEMMA EarlyServes ==
  ASSUME Serving, Served, Publishing, UNCHANGED <<def, psf, pmode, pok, pidx>>,
         mishaps \subseteq mishaps', ppc \in {"check", "write", "args"},
         ppc' \in {"check", "write", "args", "layer"}
  PROVE  Serving' /\ Served'
<1>1. Served'
  BY DEF Served, Publishing
<1>2. SUFFICES ASSUME mishaps' = {}, pmode' = "plain"  PROVE Serving'
  BY <1>1 DEF Serving
<1>3. psf' = def' /\ pidx' = 1
  BY <1>2 DEF Serving
<1>4. pidx' - 1 = 0
  BY <1>3
<1>5. First(pidx' - 1) = {}
  BY <1>4, Ranked
<1> QED BY <1>3, <1>5 DEF Serving

\* The loop over the layers.
LEMMA PFirst ==
  ASSUME Typed, pidx <= Len(Order)
  PROVE  First((pidx + 1) - 1) = First(pidx - 1) \union {Order[pidx]}
<1>1. /\ pidx \in Nat /\ pidx - 1 \in Nat /\ pidx - 1 < Len(Order) /\ (pidx - 1) + 1 = pidx
      /\ (pidx + 1) - 1 = pidx
  BY Ranked DEF Typed, PublisherTypes
<1> DEFINE k == pidx - 1
<1>2. k \in Nat /\ k < Len(Order) /\ k + 1 = pidx
  BY <1>1
<1> HIDE DEF k
<1>3. First(k + 1) = First(k) \union {Order[k + 1]}
  BY <1>2, Ranked
<1> QED BY <1>1, <1>2, <1>3 DEF k

LEMMA PSkipServes == ASSUME CalmInv, Serving, Served, PSkip  PROVE Serving' /\ Served'
<1>1. /\ ppc = "layer" /\ pidx <= Len(Order) /\ ~Requested(Order[pidx]) /\ pidx' = pidx + 1
      /\ UNCHANGED <<ppc, def, tags, ptypes, pmode, pwant, psf, pmem, pok, dest, mishaps>>
  BY DEF PSkip, builderVars, pubArgs
<1>2. \A n, t : Delivered(n, t)' = Delivered(n, t)
  BY <1>1, DeliveredKept
<1>3. First(pidx' - 1) = First(pidx - 1) \union {Order[pidx]}
  BY <1>1, PFirst DEF CalmInv
<1>4. \A t : Delivered(Order[pidx], t)
  BY <1>1 DEF Delivered
<1>5. Serving'
  BY <1>1, <1>2, <1>3, <1>4 DEF Serving, Publishing
<1> QED BY <1>1, <1>5 DEF Served, Publishing

LEMMA PLookupServes == ASSUME CalmInv, Serving, Served, PLookup  PROVE Serving' /\ Served'
<1>1. CASE PFail
  BY <1>1, PFailServes
<1>2. CASE ~PFail
  <2>1. /\ ppc = "layer" /\ ppc' = "type" /\ ptodo' = ptypes /\ Publishable(Order[pidx])
        /\ UNCHANGED <<pidx, def, tags, ptypes, pmode, pwant, psf, pmem, pok, dest, mishaps>>
    BY <1>2 DEF PLookup, PGoto, builderVars, pubArgs
  <2>2. \A n, t : Delivered(n, t)' = Delivered(n, t)
    BY <2>1, DeliveredKept
  <2>3. pmode = "plain" => Hit(pmem, psf, Order[pidx])
    BY <2>1 DEF Publishable, Hit
  <2>4. Serving'
    BY <2>1, <2>2, <2>3 DEF Serving, Publishing
  <2> QED BY <2>1, <2>4 DEF Served, Publishing
<1> QED BY <1>1, <1>2

LEMMA PDoneServes == ASSUME CalmInv, Serving, Served, PDone  PROVE Serving' /\ Served'
<1>1. /\ ppc = "layer" /\ pidx > Len(Order) /\ ppc' = "idle"
      /\ UNCHANGED <<ptypes, pmode, pwant, psf, pmem, dest, mishaps>>
  BY DEF PDone, pubArgs
<1>2. \A n, t : Delivered(n, t)' = Delivered(n, t)
  BY <1>1, DeliveredKept
<1>3. First(pidx - 1) = Layers
  <2>1. pidx - 1 = Len(Order)
    BY <1>1, Ranked DEF CalmInv, Typed, PublisherTypes
  <2> QED BY <2>1, Ranked
<1>4. pmode = "plain" /\ mishaps = {} => \A n \in Layers, t \in ptypes : Delivered(n, t)
  BY <1>1, <1>3 DEF Serving, Publishing
<1> QED BY <1>1, <1>2, <1>4 DEF Serving, Served, Publishing

LEMMA PResolveServes ==
  ASSUME CalmInv, Serving, Served, NEW t \in Types, PResolve(t)  PROVE Serving' /\ Served'
<1>1. CASE PFail
  BY <1>1, PFailServes
<1>2. CASE ~PFail
  <2>1. /\ ppc = "type" /\ ppc' \in {"type", "copy"} /\ ptodo' = ptodo \ {t}
        /\ pmode = "plain" => ppc' = "copy" /\ psrc' = <<t, tags[Order[pidx]][t]>>
        /\ UNCHANGED <<pidx, def, tags, ptypes, pmode, pwant, psf, pmem, pok, dest, mishaps>>
    BY <1>2 DEF PResolve, PGoto, builderVars, pubArgs
  <2>2. \A n, u : Delivered(n, u)' = Delivered(n, u)
    BY <2>1, DeliveredKept
  <2>3. pmode = "plain" => psrc'[1] = t /\ psrc'[2] = tags[Order[pidx]][t]
    BY <2>1
  <2>4. Served'
    BY <2>1 DEF Served, Publishing
  <2>5. SUFFICES ASSUME mishaps = {}, pmode = "plain"  PROVE Serving'
    BY <2>1, <2>4 DEF Serving
  <2>6. /\ psf = def /\ Hit(pmem, psf, Order[pidx])
        /\ \A n \in First(pidx - 1), u \in ptypes : Delivered(n, u)
        /\ \A u \in ptypes \ ptodo : Delivered(Order[pidx], u)
    BY <2>1, <2>5 DEF Serving, Publishing
  <2>7. \A u \in ptypes \ ptodo' : u # t => Delivered(Order[pidx], u)
    BY <2>1, <2>6
  <2> QED BY <2>1, <2>2, <2>3, <2>5, <2>6, <2>7 DEF Serving
<1> QED BY <1>1, <1>2

LEMMA PCopyServes == ASSUME CalmInv, Serving, Served, PCopy  PROVE Serving' /\ Served'
<1>1. CASE PFail
  BY <1>1, PFailServes
<1>2. CASE ~PFail
  <2> DEFINE m == Order[pidx]
             u == psrc[1]
             x == psrc[2]
  <2>1. /\ ppc = "copy" /\ ppc' = "type" /\ dest' = [dest EXCEPT ![m][u] = x]
        /\ UNCHANGED <<pidx, def, tags, ptypes, ptodo, pmode, pwant, psf, pmem, pok, mishaps>>
    BY <1>2 DEF PCopy, PGoto, builderVars, pubArgs
  <2>2. /\ m \in Layers /\ u \in Types /\ pidx <= Len(Order)
        /\ dest \in [Layers -> [Types -> Contents \union {None}]]
    <3>1. psrc \in Types \X Contents /\ pidx <= Len(Order)
      BY <2>1 DEF CalmInv, Typed, PublisherTypes
    <3> QED BY <3>1, PIdxIs DEF CalmInv, Typed, SharedTypes
  <2>3. Served'
    BY <2>1 DEF Served, Publishing
  <2>4. SUFFICES ASSUME mishaps = {}, pmode = "plain"  PROVE Serving'
    BY <2>1, <2>3 DEF Serving
  <2>5. /\ psf = def /\ Hit(pmem, psf, m)
        /\ \A n \in First(pidx - 1), t \in ptypes : Delivered(n, t)
        /\ \A t \in ptypes \ ptodo : t # u => Delivered(m, t)
        /\ x = tags[m][u]
    BY <2>1, <2>4 DEF Serving, Publishing
  <2>6. pmem[m].manifests[u] # None => x = Fresh(psf)[m]
    BY <2>1, <2>2, <2>4, <2>5, HitIsFresh DEF Publishing
  <2>7. First(pidx - 1) \subseteq Layers /\ ptypes \subseteq Types
    <3>1. pidx - 1 \in Nat /\ pidx - 1 <= Len(Order)
      BY <2>2, Ranked DEF CalmInv, Typed, PublisherTypes
    <3> QED BY <3>1, Ranked DEF CalmInv, Typed, PublisherTypes
  <2> HIDE DEF m, u, x
  <2>8. \A n \in Layers, t \in Types : dest'[n][t] = IF n = m /\ t = u THEN x ELSE dest[n][t]
    BY <2>1, <2>2
  <2>9. \A n \in Layers, t \in Types : Delivered(n, t) \/ (n = m /\ t = u) => Delivered(n, t)'
    BY <2>1, <2>6, <2>8 DEF Delivered, Requested
  <2>10. \A n \in First(pidx - 1), t \in ptypes : Delivered(n, t)'
    BY <2>5, <2>7, <2>9
  <2>11. \A n \in Layers, t \in ptypes \ ptodo : n = m => Delivered(n, t)'
    BY <2>2, <2>5, <2>7, <2>9
  <2>12. m' = m
    BY <2>1 DEF m
  <2>13. (\A t \in ptypes \ ptodo : Delivered(m, t))'
    BY <2>1, <2>2, <2>11, <2>12 DEF Delivered, Requested
  <2> QED BY <2>1, <2>4, <2>5, <2>10, <2>12, <2>13 DEF Serving, m
<1> QED BY <1>1, <1>2

LEMMA PNextLayerServes == ASSUME CalmInv, Serving, Served, PNextLayer  PROVE Serving' /\ Served'
<1>1. /\ ppc = "type" /\ ptodo = {} /\ ppc' = "layer" /\ pidx' = pidx + 1
      /\ UNCHANGED <<def, ptypes, pmode, pwant, psf, pmem, pok, dest, mishaps>>
  BY DEF PNextLayer, builderVars, pubArgs
<1>2. \A n, t : Delivered(n, t)' = Delivered(n, t)
  BY <1>1, DeliveredKept
<1>3. First(pidx' - 1) = First(pidx - 1) \union {Order[pidx]}
  BY <1>1, PFirst DEF CalmInv, Typed, PublisherTypes
<1>4. Serving'
  BY <1>1, <1>2, <1>3 DEF Serving, Publishing
<1> QED BY <1>1, <1>4 DEF Served, Publishing

PubInv == CalmInv /\ Serving /\ Served

LEMMA NextServes == ASSUME Apart, PubInv, [Next]_vars  PROVE PubInv'
<1> USE DEF PubInv
<1>1. CalmInv'
  BY NextCalm
<1>2. CASE UNCHANGED vars
  BY <1>1, <1>2, BuilderServes DEF vars
<1>3. CASE \E n \in Layers : EditDefinition(n)
  <2>1. ~Publishing /\ UNCHANGED <<pubVars, dest, mishaps>>
    BY <1>3 DEF EditDefinition
  <2> QED BY <1>1, <2>1, BuilderServes
<1>4. CASE BStart \/ BReopen
  <2>1. UNCHANGED <<pubVars, dest, def, tags>> /\ mishaps \subseteq mishaps'
    BY <1>4 DEF BStart, BReopen, BOpenCache
  <2> QED BY <1>1, <2>1, BuilderServes
<1>5. CASE BSteps
  <2>1. Busy /\ UNCHANGED pubVars /\ mishaps \subseteq mishaps'
    BY <1>5, BStepsBusy
  <2>2. UNCHANGED dest
    BY <1>5 DEF BSteps, BLookup, BDelete, BRootfs, BInitializeBases, BCommit, BPut, BTruncate,
       BWrite, BGC
  <2>3. ~(mishaps' = {} /\ Publishing)
    BY <2>1 DEF CalmInv, Quiet
  <2> QED BY <1>1, <2>1, <2>2, <2>3, BuilderServes
<1>6. CASE BKill
  <2>1. UNCHANGED <<pubVars, dest, def, tags>> /\ mishaps \subseteq mishaps'
    BY <1>6 DEF BKill
  <2> QED BY <1>1, <2>1, BuilderServes
<1>7. CASE \E types \in TypeChoices, mode \in Modes, want \in Wants : PStart(types, mode, want)
  <2>1. /\ ppc' \in {"idle", "check"} /\ psf' = def /\ def' = def /\ pok' = FALSE /\ pidx' = 1
    BY <1>7 DEF PStart, builderVars
  <2> QED BY <1>1, <2>1 DEF Serving, Served, Publishing
<1>8. CASE PKill
  BY <1>1, <1>8, PFailServes DEF PKill
<1>9. CASE (\E n \in Layers : PCheck(n)) \/ PTruncate \/ PWrite \/ PArgs
  <2>1. CASE PFail
    BY <1>1, <2>1, PFailServes
  <2>2. CASE ~PFail
    <3>1. /\ UNCHANGED <<def, psf, pmode, pok, pidx>> /\ mishaps \subseteq mishaps'
          /\ ppc \in {"check", "write", "args"} /\ ppc' \in {"check", "write", "args", "layer"}
      BY <1>9, <2>2 DEF PCheck, PTruncate, PWrite, PArgs, PGoto, builderVars, pubArgs
    <3> QED BY <1>1, <3>1, EarlyServes DEF Publishing
  <2> QED BY <2>1, <2>2
<1>10. CASE \/ PSkip \/ PLookup \/ PDone
            \/ \E t \in Types : PResolve(t)
            \/ PCopy \/ PNextLayer
  BY <1>1, <1>10, PSkipServes, PLookupServes, PDoneServes, PResolveServes, PCopyServes,
     PNextLayerServes
<1> QED
  <2>1. Build => BStart \/ BReopen \/ BSteps
    BY DEF Build, BSteps
  <2> QED BY <1>2, <1>3, <1>4, <1>5, <1>6, <1>7, <1>8, <1>9, <1>10, <2>1 DEF Next, PStep

\* As long as no build was killed and no publish has run beside a build, a plain
\* publish that succeeds has put the image that belongs to the stackerfile it
\* read under each requested name and type the cached build was made for
\* (publisher.go).
THEOREM PublishedFresh == ASSUME Apart  PROVE Spec => []PublishedIsFresh
<1>1. PubInv => PublishedIsFresh
  <2>1. SUFFICES ASSUME PubInv, ~Publishing, pok, pmode = "plain", mishaps \subseteq {"writeKilled"},
                        NEW n \in Layers, NEW t \in ptypes,
                        Requested(n), pmem[n].manifests[t] # None
                 PROVE  dest[n][t] = Fresh(psf)[n]
    BY DEF PublishedIsFresh
  <2>2. mishaps # {"writeKilled"}
    BY <2>1 DEF PubInv, CalmInv, Stuck
  <2>3. mishaps = {}
    BY <2>1, <2>2
  <2> QED BY <2>1, <2>3 DEF PubInv, Served, Delivered
<1>2. Init => PubInv
  <2>1. Init => Serving /\ Served
    BY DEF Init, Serving, Served, Publishing
  <2> QED BY <2>1, InitCalm DEF PubInv
<1>3. PubInv /\ [Next]_vars => PubInv'
  BY NextServes
<1> QED BY <1>1, <1>2, <1>3, PTL DEF Spec
=============================================================================
