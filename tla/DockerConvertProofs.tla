------------------------- MODULE DockerConvertProofs -------------------------
(***************************************************************************)
(* Proofs about DockerConvert: the types, that no reference to a variable  *)
(* with a value is left in a file that was read (NoReferenceLeft), and     *)
(* that publish reads what was built (PublishReadsWhatWasBuilt).           *)
(*                                                                         *)
(* First the equations of FlattenSeq and of mapping the tokens of a line   *)
(* and a file; then the inductive invariant ConvInv; at the end the files  *)
(* that the substitutions make one after the other (Same).                 *)
(***************************************************************************)
EXTENDS DockerConvert, FiniteSetTheorems, WellFoundedInduction, TLAPS

-----------------------------------------------------------------------------
(* FlattenSeq by its equations *)

LEMMA NatSets ==
  ASSUME NEW S \in SUBSET Nat, 0 \in S, \A q \in S : q + 1 \in S
  PROVE  S = Nat
<1> DEFINE R == OpToRel(<, Nat)
           T == Nat \ S
<1>1. IsWellFoundedOn(R, Nat)
  BY NatLessThanWellFounded
<1>2. \A x, y \in Nat : <<y, x>> \in R <=> y < x
  BY DEF OpToRel
<1> HIDE DEF R
<1>3. SUFFICES ASSUME T # {}  PROVE FALSE
  OBVIOUS
<1>4. PICK x \in T : \A y \in T : ~(<<y, x>> \in R)
  <2>1. T \subseteq Nat
    OBVIOUS
  <2> HIDE DEF T
  <2> QED BY <1>1, <1>3, <2>1, WFMin
<1>5. x \in Nat /\ x # 0 /\ x - 1 \in Nat /\ x - 1 < x /\ (x - 1) + 1 = x
  OBVIOUS
<1>6. x - 1 \notin T
  BY <1>2, <1>4, <1>5
<1>7. x \in S
  BY <1>5, <1>6
<1> QED BY <1>4, <1>7

\* The concatenations of the first, the first two, ... sequences of ss.
IsFlat(f, ss, n) ==
  f = [i \in 1..n |-> IF i = 1 THEN ss[i] ELSE f[i - 1] \o ss[i]]

LEMMA FlatExists ==
  ASSUME NEW ss, NEW n \in Nat  PROVE \E f : IsFlat(f, ss, n)
<1> DEFINE K == {j \in Nat : \E f : IsFlat(f, ss, j)}
<1>1. 0 \in K
  <2> DEFINE e == [i \in 1..0 |-> 0]
  <2>1. 1..0 = {}
    OBVIOUS
  <2>2. IsFlat(e, ss, 0)
    BY <2>1 DEF IsFlat
  <2> HIDE DEF e
  <2> QED BY <2>2
<1>2. ASSUME NEW j \in K  PROVE j + 1 \in K
  <2>1. PICK f : IsFlat(f, ss, j)
    BY <1>2
  <2> DEFINE g == [i \in 1..(j + 1) |-> IF i \in 1..j THEN f[i] ELSE IF i = 1 THEN ss[i] ELSE f[i - 1] \o ss[i]]
  <2>2. ASSUME NEW i \in 1..(j + 1)  PROVE g[i] = IF i = 1 THEN ss[i] ELSE g[i - 1] \o ss[i]
    <3>1. i # 1 => i - 1 \in 1..j /\ g[i - 1] = f[i - 1]
      BY <1>2, <2>2
    <3>2. CASE i \in 1..j
      BY <2>1, <3>1, <3>2 DEF IsFlat
    <3>3. CASE i \notin 1..j
      BY <3>1, <3>3
    <3> QED BY <3>2, <3>3
  <2>3. IsFlat(g, ss, j + 1)
    BY <2>2 DEF IsFlat
  <2> HIDE DEF g
  <2> QED BY <1>2, <2>3
<1>3. K = Nat
  <2>1. K \in SUBSET Nat
    OBVIOUS
  <2> HIDE DEF K
  <2> QED BY <1>1, <1>2, <2>1, NatSets
<1> QED BY <1>3

LEMMA FlattenIs ==
  ASSUME NEW S, NEW ss \in Seq(Seq(S)), Len(ss) # 0
  PROVE  \E f : IsFlat(f, ss, Len(ss)) /\ FlattenSeq(ss) = f[Len(ss)]
<1> DEFINE n == Len(ss)
           f == CHOOSE f : f = [i \in 1..n |-> IF i = 1 THEN ss[i] ELSE f[i - 1] \o ss[i]]
<1>1. \E g : g = [i \in 1..n |-> IF i = 1 THEN ss[i] ELSE g[i - 1] \o ss[i]]
  <2>1. n \in Nat
    OBVIOUS
  <2> HIDE DEF n
  <2>2. \E g : IsFlat(g, ss, n)
    BY <2>1, FlatExists
  <2> QED BY <2>2 DEF IsFlat
<1>2. f = [i \in 1..n |-> IF i = 1 THEN ss[i] ELSE f[i - 1] \o ss[i]]
  BY <1>1
<1>3. FlattenSeq(ss) = f[n]
  BY DEF FlattenSeq
<1> HIDE DEF f
<1> QED BY <1>2, <1>3 DEF IsFlat

LEMMA FlattenEmpty == FlattenSeq(<<>>) = <<>>
  BY DEF FlattenSeq

\* The values of f are sequences over S.
LEMMA FlatType ==
  ASSUME NEW S, NEW ss \in Seq(Seq(S)), NEW f, NEW n \in Nat, n <= Len(ss), IsFlat(f, ss, n)
  PROVE  \A i \in 1..n : f[i] \in Seq(S)
<1> DEFINE K == {j \in Nat : j \in 1..n => f[j] \in Seq(S)}
<1>1. 0 \in K
  OBVIOUS
<1>2. ASSUME NEW j \in K  PROVE j + 1 \in K
  <2>1. SUFFICES ASSUME j + 1 \in 1..n  PROVE f[j + 1] \in Seq(S)
    BY <1>2
  <2>2. ss[j + 1] \in Seq(S)
    BY <2>1
  <2>3. CASE j = 0
    BY <2>1, <2>2, <2>3 DEF IsFlat
  <2>4. CASE j # 0
    <3>1. j \in 1..n /\ (j + 1) - 1 = j /\ j + 1 # 1
      BY <1>2, <2>1, <2>4
    <3>2. f[j + 1] = f[j] \o ss[j + 1]
      BY <2>1, <3>1 DEF IsFlat
    <3> QED BY <1>2, <2>2, <3>1, <3>2
  <2> QED BY <2>3, <2>4
<1>3. K = Nat
  <2>1. K \in SUBSET Nat
    OBVIOUS
  <2> HIDE DEF K
  <2> QED BY <1>1, <1>2, <2>1, NatSets
<1> QED BY <1>3

LEMMA FlattenType ==
  ASSUME NEW S, NEW ss \in Seq(Seq(S))  PROVE FlattenSeq(ss) \in Seq(S)
<1>1. CASE Len(ss) = 0
  <2>1. ss = <<>>
    BY <1>1
  <2>2. FlattenSeq(ss) = <<>>
    BY <2>1, FlattenEmpty
  <2> QED BY <2>2
<1>2. CASE Len(ss) # 0
  <2>1. PICK f : IsFlat(f, ss, Len(ss)) /\ FlattenSeq(ss) = f[Len(ss)]
    BY <1>2, FlattenIs
  <2>2. Len(ss) \in Nat /\ Len(ss) \in 1..Len(ss)
    BY <1>2
  <2> QED BY <2>1, <2>2, FlatType
<1> QED BY <1>1, <1>2

\* Two prefixes of the same sequences give the same.
LEMMA FlatUnique ==
  ASSUME NEW ss, NEW tt, NEW f, NEW g, NEW n \in Nat, NEW m \in Nat, n <= m,
         IsFlat(f, ss, n), IsFlat(g, tt, m), \A i \in 1..n : ss[i] = tt[i]
  PROVE  \A i \in 1..n : f[i] = g[i]
<1> DEFINE K == {j \in Nat : j \in 1..n => f[j] = g[j]}
<1>1. 0 \in K
  OBVIOUS
<1>2. ASSUME NEW j \in K  PROVE j + 1 \in K
  <2>1. SUFFICES ASSUME j + 1 \in 1..n  PROVE f[j + 1] = g[j + 1]
    BY <1>2
  <2>2. j + 1 \in 1..m /\ ss[j + 1] = tt[j + 1]
    BY <2>1
  <2>3. CASE j = 0
    BY <2>1, <2>2, <2>3 DEF IsFlat
  <2>4. CASE j # 0
    <3>1. j \in 1..n /\ (j + 1) - 1 = j /\ j + 1 # 1
      BY <1>2, <2>1, <2>4
    <3>2. f[j + 1] = f[j] \o ss[j + 1] /\ g[j + 1] = g[j] \o tt[j + 1]
      BY <2>1, <2>2, <3>1 DEF IsFlat
    <3> QED BY <1>2, <2>2, <3>1, <3>2
  <2> QED BY <2>3, <2>4
<1>3. K = Nat
  <2>1. K \in SUBSET Nat
    OBVIOUS
  <2> HIDE DEF K
  <2> QED BY <1>1, <1>2, <2>1, NatSets
<1> QED BY <1>3

LEMMA FlattenAppend ==
  ASSUME NEW S, NEW ss \in Seq(Seq(S)), NEW s \in Seq(S)
  PROVE  FlattenSeq(Append(ss, s)) = FlattenSeq(ss) \o s
<1> DEFINE tt == Append(ss, s)
           n == Len(ss)
<1>1. /\ tt \in Seq(Seq(S)) /\ n \in Nat /\ Len(tt) = n + 1 /\ tt[n + 1] = s
      /\ \A i \in 1..n : ss[i] = tt[i]
  OBVIOUS
<1> HIDE DEF tt
<1>2. PICK g : IsFlat(g, tt, n + 1) /\ FlattenSeq(tt) = g[n + 1]
  <2>1. Len(tt) # 0
    BY <1>1
  <2> QED BY <1>1, <2>1, FlattenIs
<1>3. CASE n = 0
  <2>1. ss = <<>> /\ g[n + 1] = s
    BY <1>1, <1>2, <1>3 DEF IsFlat
  <2>2. <<>> \o s = s
    OBVIOUS
  <2> QED BY <1>2, <2>1, <2>2, FlattenEmpty DEF tt
<1>4. CASE n # 0
  <2>1. PICK f : IsFlat(f, ss, n) /\ FlattenSeq(ss) = f[n]
    BY <1>4, FlattenIs
  <2>2. n \in 1..n /\ n + 1 \in 1..(n + 1) /\ (n + 1) - 1 = n /\ n + 1 # 1 /\ n <= n + 1 /\ n + 1 \in Nat
    BY <1>1, <1>4
  <2>3. f[n] = g[n]
    <3> HIDE DEF n
    <3> QED BY <1>1, <1>2, <2>1, <2>2, FlatUnique
  <2>4. g[n + 1] = g[n] \o tt[n + 1]
    <3> HIDE DEF n
    <3> QED BY <1>2, <2>2 DEF IsFlat
  <2> QED BY <1>1, <1>2, <2>1, <2>3, <2>4 DEF tt
<1> QED BY <1>3, <1>4

-----------------------------------------------------------------------------
(* Lines and files with their tokens mapped by a function *)

\* What holds of the empty line and is kept by one more token holds of all.
LEMMA LineInduction ==
  ASSUME NEW S, NEW P, <<>> \in P,
         \A l \in Seq(S), x \in S : l \in P => Append(l, x) \in P
  PROVE  Seq(S) \subseteq P
<1> DEFINE K == {j \in Nat : \A l \in Seq(S) : Len(l) = j => l \in P}
<1>1. 0 \in K
  <2>1. ASSUME NEW l \in Seq(S), Len(l) = 0  PROVE l \in P
    <3>1. l = <<>>
      BY <2>1
    <3> QED BY <3>1
  <2> QED BY <2>1
<1>2. ASSUME NEW j \in K  PROVE j + 1 \in K
  <2>1. SUFFICES ASSUME NEW l \in Seq(S), Len(l) = j + 1  PROVE l \in P
    BY <1>2
  <2> DEFINE m == [i \in 1..j |-> l[i]]
             x == l[j + 1]
  <2>2. j \in Nat /\ \A i \in 1..j : i \in 1..Len(l)
    BY <1>2, <2>1
  <2>3. m \in Seq(S) /\ Len(m) = j /\ x \in S
    BY <2>1, <2>2
  <2>4. l = Append(m, x)
    BY <2>1, <2>2, <2>3
  <2> HIDE DEF m, x
  <2> QED BY <1>2, <2>3, <2>4
<1>3. K = Nat
  <2>1. K \in SUBSET Nat
    OBVIOUS
  <2> HIDE DEF K
  <2> QED BY <1>1, <1>2, <2>1, NatSets
<1> QED BY <1>3

Mapped(f, line) == FlattenSeq([i \in DOMAIN line |-> f[line[i]]])

Maps(f, S, R) == \A t \in S : f[t] \in Seq(R)

LEMMA MappedNothing == ASSUME NEW f  PROVE Mapped(f, <<>>) = <<>>
<1> DEFINE e == <<>>
<1>1. [i \in DOMAIN e |-> f[e[i]]] = e
  OBVIOUS
<1>2. FlattenSeq([i \in DOMAIN e |-> f[e[i]]]) = e
  <2> HIDE DEF e
  <2>1. FlattenSeq(e) = e
    BY FlattenEmpty DEF e
  <2> QED BY <1>1, <2>1
<1> QED BY <1>2 DEF Mapped

LEMMA MappedType ==
  ASSUME NEW S, NEW R, NEW f, Maps(f, S, R), NEW line \in Seq(S)
  PROVE  Mapped(f, line) \in Seq(R)
<1> DEFINE ss == [i \in DOMAIN line |-> f[line[i]]]
<1>1. ss \in Seq(Seq(R))
  <2>1. \A i \in 1..Len(line) : line[i] \in S
    OBVIOUS
  <2>2. DOMAIN line = 1..Len(line) /\ Len(line) \in Nat
    OBVIOUS
  <2> QED BY <2>1, <2>2 DEF Maps
<1> HIDE DEF ss
<1>2. FlattenSeq(ss) \in Seq(R)
  BY <1>1, FlattenType
<1> QED BY <1>2 DEF Mapped, ss

LEMMA MappedAppend ==
  ASSUME NEW S, NEW R, NEW f, Maps(f, S, R), NEW line \in Seq(S), NEW x \in S
  PROVE  Mapped(f, Append(line, x)) = Mapped(f, line) \o f[x]
<1> DEFINE ss == [i \in DOMAIN line |-> f[line[i]]]
           l2 == Append(line, x)
           tt == [i \in DOMAIN l2 |-> f[l2[i]]]
<1>1. DOMAIN line = 1..Len(line) /\ Len(line) \in Nat /\ \A i \in 1..Len(line) : line[i] \in S
  OBVIOUS
<1>2. ss \in Seq(Seq(R)) /\ Len(ss) = Len(line) /\ f[x] \in Seq(R)
  BY <1>1 DEF Maps
<1>3. /\ DOMAIN l2 = 1..(Len(line) + 1) /\ l2[Len(line) + 1] = x
      /\ \A i \in 1..Len(line) : l2[i] = line[i]
  BY <1>1
<1> HIDE DEF l2
<1>4. tt = Append(ss, f[x])
  BY <1>1, <1>2, <1>3
<1> HIDE DEF ss, tt
<1>5. FlattenSeq(tt) = FlattenSeq(ss) \o f[x]
  BY <1>2, <1>4, FlattenAppend
<1> QED BY <1>5 DEF Mapped, ss, tt, l2

LEMMA MappedOne ==
  ASSUME NEW R, NEW f, NEW x, f[x] \in Seq(R)
  PROVE  Mapped(f, <<x>>) = f[x]
<1> DEFINE S == {x}
           e == <<>>
<1>1. e \in Seq(S) /\ x \in S /\ Append(e, x) = <<x>> /\ Maps(f, S, R)
  BY DEF Maps
<1>2. Mapped(f, e) = e
  BY MappedNothing
<1>3. Mapped(f, Append(e, x)) = Mapped(f, e) \o f[x]
  <2> HIDE DEF S, e
  <2> QED BY <1>1, MappedAppend
<1>4. e \o f[x] = f[x]
  OBVIOUS
<1> HIDE DEF e
<1> QED BY <1>1, <1>2, <1>3, <1>4

LEMMA MappedConcat ==
  ASSUME NEW S, NEW R, NEW f, Maps(f, S, R), NEW l \in Seq(S), NEW m \in Seq(S)
  PROVE  Mapped(f, l \o m) = Mapped(f, l) \o Mapped(f, m)
<1> DEFINE P == {q \in Seq(S) : Mapped(f, l \o q) = Mapped(f, l) \o Mapped(f, q)}
<1>1. <<>> \in P
  <2> DEFINE e == <<>>
  <2>1. e \in Seq(S) /\ l \o e = l
    OBVIOUS
  <2>2. Mapped(f, l) \in Seq(R)
    BY MappedType
  <2>3. Mapped(f, l) \o e = Mapped(f, l)
    BY <2>2
  <2>4. Mapped(f, e) = e
    BY MappedNothing
  <2> HIDE DEF e
  <2>5. e \in P
    BY <2>1, <2>3, <2>4
  <2> QED BY <2>5 DEF e
<1>2. ASSUME NEW q \in Seq(S), NEW x \in S, q \in P  PROVE Append(q, x) \in P
  <2>1. l \o Append(q, x) = Append(l \o q, x) /\ l \o q \in Seq(S) /\ Append(q, x) \in Seq(S)
    OBVIOUS
  <2>2. Mapped(f, l \o q) = Mapped(f, l) \o Mapped(f, q)
    BY <1>2
  <2> HIDE DEF P
  <2> DEFINE lq == l \o q
  <2>3. Mapped(f, Append(lq, x)) = Mapped(f, lq) \o f[x]
    <3>1. lq \in Seq(S)
      BY <2>1
    <3> HIDE DEF lq
    <3> QED BY <3>1, MappedAppend
  <2>4. Mapped(f, Append(q, x)) = Mapped(f, q) \o f[x]
    BY MappedAppend
  <2>5. Mapped(f, l) \in Seq(R) /\ Mapped(f, q) \in Seq(R) /\ f[x] \in Seq(R)
    BY MappedType DEF Maps
  <2>6. (Mapped(f, l) \o Mapped(f, q)) \o f[x] = Mapped(f, l) \o (Mapped(f, q) \o f[x])
    <3> DEFINE a == Mapped(f, l)
               b == Mapped(f, q)
               c == f[x]
    <3>1. a \in Seq(R) /\ b \in Seq(R) /\ c \in Seq(R)
      BY <2>5
    <3> HIDE DEF a, b, c
    <3>2. (a \o b) \o c = a \o (b \o c)
      BY <3>1
    <3> QED BY <3>2 DEF a, b, c
  <2>7. Mapped(f, l \o Append(q, x)) = Mapped(f, l) \o Mapped(f, Append(q, x))
    BY <2>1, <2>2, <2>3, <2>4, <2>6
  <2> QED BY <2>1, <2>7 DEF P
<1>3. Seq(S) \subseteq P
  <2> HIDE DEF P
  <2> QED BY <1>1, <1>2, LineInduction
<1> QED BY <1>3

\* One mapping after the other.
LEMMA MappedTwice ==
  ASSUME NEW S, NEW f, NEW g, NEW h, NEW line \in Seq(S),
         Maps(f, S, S), Maps(g, S, S), \A t \in S : h[t] = Mapped(g, f[t])
  PROVE  Mapped(g, Mapped(f, line)) = Mapped(h, line)
<1> DEFINE P == {q \in Seq(S) : Mapped(g, Mapped(f, q)) = Mapped(h, q)}
<1>1. Maps(h, S, S)
  <2>1. ASSUME NEW t \in S  PROVE h[t] \in Seq(S)
    <3>1. f[t] \in Seq(S)
      BY DEF Maps
    <3> QED BY <3>1, MappedType
  <2> QED BY <2>1 DEF Maps
<1>2. <<>> \in P
  <2> DEFINE e == <<>>
  <2>1. e \in Seq(S) /\ Mapped(g, e) = e /\ Mapped(f, e) = e /\ Mapped(h, e) = e
    BY MappedNothing
  <2> HIDE DEF e
  <2>2. e \in P
    BY <2>1
  <2> QED BY <2>2 DEF e
<1>3. ASSUME NEW q \in Seq(S), NEW x \in S, q \in P  PROVE Append(q, x) \in P
  <2>0. Mapped(g, Mapped(f, q)) = Mapped(h, q) /\ h[x] = Mapped(g, f[x])
    BY <1>3
  <2> HIDE DEF P
  <2>1. Mapped(f, Append(q, x)) = Mapped(f, q) \o f[x]
    BY MappedAppend
  <2>2. Mapped(f, q) \in Seq(S) /\ f[x] \in Seq(S)
    BY MappedType DEF Maps
  <2>3. Mapped(g, Mapped(f, q) \o f[x]) = Mapped(g, Mapped(f, q)) \o Mapped(g, f[x])
    <3> DEFINE a == Mapped(f, q)
               b == f[x]
    <3>1. a \in Seq(S) /\ b \in Seq(S)
      BY <2>2
    <3> HIDE DEF a, b
    <3>2. Mapped(g, a \o b) = Mapped(g, a) \o Mapped(g, b)
      <4>1. Maps(g, S, S)
        OBVIOUS
      <4> QED BY ONLY <3>1, <4>1, MappedConcat
    <3> QED BY <3>2 DEF a, b
  <2>4. Mapped(h, Append(q, x)) = Mapped(h, q) \o h[x]
    BY <1>1, MappedAppend
  <2>5. Append(q, x) \in Seq(S)
    OBVIOUS
  <2>6. Mapped(g, Mapped(f, Append(q, x))) = Mapped(h, Append(q, x))
    BY <2>0, <2>1, <2>3, <2>4
  <2> QED BY <2>5, <2>6 DEF P
<1>4. Seq(S) \subseteq P
  <2> HIDE DEF P
  <2> QED BY <1>2, <1>3, LineInduction
<1> QED BY <1>4

\* Tokens that are mapped to themselves.
LEMMA MappedStays ==
  ASSUME NEW S, NEW f, \A t \in S : f[t] = <<t>>, NEW line \in Seq(S)
  PROVE  Mapped(f, line) = line
<1> DEFINE P == {q \in Seq(S) : Mapped(f, q) = q}
<1>0. Maps(f, S, S)
  <2>1. ASSUME NEW t \in S  PROVE <<t>> \in Seq(S)
    OBVIOUS
  <2> QED BY <2>1 DEF Maps
<1>1. <<>> \in P
  <2> DEFINE e == <<>>
  <2>1. e \in Seq(S) /\ Mapped(f, e) = e
    BY MappedNothing
  <2> HIDE DEF e
  <2>2. e \in P
    BY <2>1
  <2> QED BY <2>2 DEF e
<1>2. ASSUME NEW q \in Seq(S), NEW x \in S, q \in P  PROVE Append(q, x) \in P
  <2>1. Mapped(f, q) = q /\ f[x] = <<x>>
    BY <1>2
  <2> HIDE DEF P
  <2>2. Mapped(f, Append(q, x)) = Mapped(f, q) \o f[x]
    BY <1>0, MappedAppend
  <2>3. q \o <<x>> = Append(q, x) /\ Append(q, x) \in Seq(S)
    OBVIOUS
  <2> QED BY <2>1, <2>2, <2>3 DEF P
<1>3. Seq(S) \subseteq P
  <2> HIDE DEF P
  <2> QED BY <1>1, <1>2, LineInduction
<1> QED BY <1>3

LEMMA MappedSame ==
  ASSUME NEW f, NEW g, NEW line, \A t \in Tokens(line) : f[t] = g[t]
  PROVE  Mapped(f, line) = Mapped(g, line)
<1>1. [i \in DOMAIN line |-> f[line[i]]] = [i \in DOMAIN line |-> g[line[i]]]
  BY DEF Tokens
<1> QED BY <1>1 DEF Mapped

LEMMA TokensAppend ==
  ASSUME NEW S, NEW l \in Seq(S), NEW x \in S
  PROVE  Tokens(Append(l, x)) = Tokens(l) \union {x}
<1>1. DOMAIN l = 1..Len(l) /\ Len(l) \in Nat
  OBVIOUS
<1>2. /\ DOMAIN Append(l, x) = 1..(Len(l) + 1) /\ Append(l, x)[Len(l) + 1] = x
      /\ \A i \in 1..Len(l) : Append(l, x)[i] = l[i]
  BY <1>1
<1>3. 1..(Len(l) + 1) = (1..Len(l)) \union {Len(l) + 1}
  BY <1>1
<1> QED BY <1>1, <1>2, <1>3 DEF Tokens

LEMMA TokensConcat ==
  ASSUME NEW S, NEW l \in Seq(S), NEW m \in Seq(S)
  PROVE  Tokens(l \o m) = Tokens(l) \union Tokens(m)
<1>1. DOMAIN l = 1..Len(l) /\ Len(l) \in Nat /\ DOMAIN m = 1..Len(m) /\ Len(m) \in Nat
  OBVIOUS
<1>2. /\ DOMAIN (l \o m) = 1..(Len(l) + Len(m))
      /\ \A i \in 1..Len(l) : i \in 1..(Len(l) + Len(m)) /\ (l \o m)[i] = l[i]
      /\ \A i \in 1..Len(m) : i + Len(l) \in 1..(Len(l) + Len(m)) /\ (l \o m)[i + Len(l)] = m[i]
  BY <1>1
<1>3. \A i \in 1..(Len(l) + Len(m)) : i \in 1..Len(l) \/ (i - Len(l) \in 1..Len(m) /\ (i - Len(l)) + Len(l) = i)
  BY <1>1
<1>4. ASSUME NEW t  PROVE t \in Tokens(l \o m) <=> t \in Tokens(l) \union Tokens(m)
  <2>1. ASSUME NEW i \in 1..(Len(l) + Len(m)), t = (l \o m)[i]  PROVE t \in Tokens(l) \union Tokens(m)
    <3>1. CASE i \in 1..Len(l)
      BY <1>1, <1>2, <2>1, <3>1 DEF Tokens
    <3>2. CASE i \notin 1..Len(l)
      <4> DEFINE j == i - Len(l)
      <4>1. j \in 1..Len(m) /\ j + Len(l) = i
        BY <1>3, <3>2
      <4> HIDE DEF j
      <4>2. t = m[j]
        BY <1>2, <2>1, <4>1
      <4> QED BY <1>1, <4>1, <4>2 DEF Tokens
    <3> QED BY <3>1, <3>2
  <2>2. ASSUME t \in Tokens(l)  PROVE t \in Tokens(l \o m)
    BY <1>1, <1>2, <2>2 DEF Tokens
  <2>3. ASSUME t \in Tokens(m)  PROVE t \in Tokens(l \o m)
    BY <1>1, <1>2, <2>3 DEF Tokens
  <2>4. t \in Tokens(l \o m) => \E i \in 1..(Len(l) + Len(m)) : t = (l \o m)[i]
    BY <1>2 DEF Tokens
  <2> QED BY <2>1, <2>2, <2>3, <2>4
<1> QED BY <1>4

LEMMA TokensType == ASSUME NEW S, NEW l \in Seq(S)  PROVE Tokens(l) \subseteq S
<1>1. DOMAIN l = 1..Len(l) /\ \A i \in 1..Len(l) : l[i] \in S
  OBVIOUS
<1> QED BY <1>1 DEF Tokens

LEMMA LineType == ASSUME NEW S, NEW l, IsLine(l), Tokens(l) \subseteq S  PROVE l \in Seq(S)
  BY DEF IsLine

LEMMA LineIs == ASSUME NEW S, NEW l \in Seq(S)  PROVE IsLine(l)
<1>1. DOMAIN l = 1..Len(l) /\ Len(l) \in Nat
  OBVIOUS
<1>2. \A i \in 1..Len(l) : l[i] \in Tokens(l)
  BY <1>1 DEF Tokens
<1> HIDE DEF Tokens
<1>3. l \in Seq(Tokens(l))
  BY <1>1, <1>2
<1> QED BY <1>3 DEF IsLine

LEMMA MappedTokens ==
  ASSUME NEW S, NEW R, NEW f, Maps(f, S, R), NEW line \in Seq(S)
  PROVE  Tokens(Mapped(f, line)) = UNION {Tokens(f[t]) : t \in Tokens(line)}
<1> DEFINE U(q) == UNION {Tokens(f[t]) : t \in Tokens(q)}
           P == {q \in Seq(S) : Tokens(Mapped(f, q)) = U(q)}
<1>1. <<>> \in P
  <2> DEFINE e == <<>>
  <2>1. e \in Seq(S) /\ Mapped(f, e) = e /\ Tokens(e) = {}
    BY MappedNothing DEF Tokens
  <2> HIDE DEF e
  <2>2. e \in P
    BY <2>1
  <2> QED BY <2>2 DEF e
<1>2. ASSUME NEW q \in Seq(S), NEW x \in S, q \in P  PROVE Append(q, x) \in P
  <2>1. Mapped(f, Append(q, x)) = Mapped(f, q) \o f[x]
    BY MappedAppend
  <2>2. Mapped(f, q) \in Seq(R) /\ f[x] \in Seq(R)
    BY MappedType DEF Maps
  <2>3. Tokens(Mapped(f, q) \o f[x]) = Tokens(Mapped(f, q)) \union Tokens(f[x])
    BY <2>2, TokensConcat
  <2>4. Tokens(Append(q, x)) = Tokens(q) \union {x}
    BY TokensAppend
  <2>5. U(Append(q, x)) = U(q) \union Tokens(f[x])
    BY <2>4
  <2>6. Append(q, x) \in Seq(S)
    OBVIOUS
  <2> HIDE DEF U
  <2> QED BY <1>2, <2>1, <2>3, <2>5, <2>6
<1>3. Seq(S) \subseteq P
  <2> HIDE DEF P
  <2> QED BY <1>1, <1>2, LineInduction
<1> QED BY <1>3

-----------------------------------------------------------------------------
(* The operators of Substitution as mappings by functions *)

MappedFile(f, file) ==
  [i \in DOMAIN file |-> [file[i] EXCEPT !.layer = Mapped(f, @), !.val = Mapped(f, @)]]

IsEntry(e) == e = Entry(e.layer, e.field, e.key, e.val, e.flags)

LEMMA FileIs ==
  ASSUME NEW file, IsFile(file)
  PROVE  /\ DOMAIN file = 1..Len(file) /\ Len(file) \in Nat
         /\ \A i \in DOMAIN file :
              /\ IsEntry(file[i])
              /\ file[i].layer \in Seq(Content(file)) /\ file[i].val \in Seq(Content(file))
<1>1. DOMAIN file = 1..Len(file) /\ Len(file) \in Nat
  BY DEF IsFile
<1>2. ASSUME NEW i \in DOMAIN file
      PROVE  /\ IsEntry(file[i])
             /\ file[i].layer \in Seq(Content(file)) /\ file[i].val \in Seq(Content(file))
  <2>1. IsEntry(file[i]) /\ IsLine(file[i].layer) /\ IsLine(file[i].val)
    BY DEF IsFile, ToSet, IsEntry
  <2>2. Tokens(file[i].layer) \subseteq Content(file) /\ Tokens(file[i].val) \subseteq Content(file)
    BY DEF Content
  <2> QED BY <2>1, <2>2, LineType
<1> QED BY <1>1, <1>2

LEMMA FileIf ==
  ASSUME NEW S, NEW file, NEW n \in Nat, DOMAIN file = 1..n, file = [i \in 1..n |-> file[i]],
         \A i \in 1..n : /\ IsEntry(file[i])
                         /\ file[i].layer \in Seq(S) /\ file[i].val \in Seq(S)
  PROVE  IsFile(file)
<1>1. file \in Seq(ToSet(file))
  <2>1. \A i \in 1..n : file[i] \in ToSet(file)
    BY DEF ToSet
  <2> HIDE DEF ToSet
  <2> QED BY <2>1
<1>2. ASSUME NEW e \in ToSet(file)  PROVE IsEntry(e) /\ IsLine(e.layer) /\ IsLine(e.val)
  <2>1. PICK i \in 1..n : e = file[i]
    BY DEF ToSet
  <2> QED BY <2>1, LineIs
<1> QED BY <1>1, <1>2 DEF IsFile, IsEntry

LEMMA EntryParts ==
  ASSUME NEW a, NEW b, NEW c, NEW d, NEW x
  PROVE  /\ IsEntry(Entry(a, b, c, d, x))
         /\ Entry(a, b, c, d, x).layer = a /\ Entry(a, b, c, d, x).field = b
         /\ Entry(a, b, c, d, x).key = c /\ Entry(a, b, c, d, x).val = d
         /\ Entry(a, b, c, d, x).flags = x
  BY DEF IsEntry, Entry

LEMMA MappedEntry ==
  ASSUME NEW e, IsEntry(e), NEW a, NEW b
  PROVE  [e EXCEPT !.layer = a, !.val = b] = Entry(a, e.field, e.key, b, e.flags)
<1> DEFINE l == e.layer
           f == e.field
           k == e.key
           v == e.val
           x == e.flags
<1>1. e = Entry(l, f, k, v, x)
  BY DEF IsEntry
<1>2. e.field = f /\ e.key = k /\ e.flags = x
  OBVIOUS
<1> HIDE DEF l, f, k, v, x
<1>3. [Entry(l, f, k, v, x) EXCEPT !.layer = a] = Entry(a, f, k, v, x)
  BY DEF Entry
<1>4. [Entry(a, f, k, v, x) EXCEPT !.val = b] = Entry(a, f, k, b, x)
  BY DEF Entry
<1>5. [e EXCEPT !.layer = a, !.val = b] = [[e EXCEPT !.layer = a] EXCEPT !.val = b]
  OBVIOUS
<1> QED BY ONLY <1>1, <1>2, <1>3, <1>4, <1>5

LEMMA MappedFileIs ==
  ASSUME NEW file, IsFile(file), NEW R, NEW f, Maps(f, Content(file), R)
  PROVE  /\ IsFile(MappedFile(f, file))
         /\ DOMAIN MappedFile(f, file) = DOMAIN file
         /\ Content(MappedFile(f, file)) = UNION {Tokens(f[t]) : t \in Content(file)}
         /\ \A i \in DOMAIN file :
              /\ IsEntry(MappedFile(f, file)[i])
              /\ MappedFile(f, file)[i].layer = Mapped(f, file[i].layer)
              /\ MappedFile(f, file)[i].val = Mapped(f, file[i].val)
<1> DEFINE g == MappedFile(f, file)
<1>1. DOMAIN g = DOMAIN file /\ g = [i \in DOMAIN file |-> g[i]]
  BY DEF MappedFile
<1>2. ASSUME NEW i \in DOMAIN file
      PROVE  /\ IsEntry(g[i])
             /\ g[i].layer = Mapped(f, file[i].layer) /\ g[i].val = Mapped(f, file[i].val)
  <2>1. IsEntry(file[i])
    BY FileIs
  <2>2. g[i] = [file[i] EXCEPT !.layer = Mapped(f, @), !.val = Mapped(f, @)]
    BY DEF MappedFile
  <2>3. g[i] = Entry(Mapped(f, file[i].layer), file[i].field, file[i].key, Mapped(f, file[i].val), file[i].flags)
    BY <2>1, <2>2, MappedEntry
  <2> QED BY <2>3, EntryParts
<1> HIDE DEF g
<1>3. ASSUME NEW i \in DOMAIN file
      PROVE  /\ g[i].layer \in Seq(R) /\ g[i].val \in Seq(R)
             /\ Tokens(g[i].layer) = UNION {Tokens(f[t]) : t \in Tokens(file[i].layer)}
             /\ Tokens(g[i].val) = UNION {Tokens(f[t]) : t \in Tokens(file[i].val)}
  <2>1. file[i].layer \in Seq(Content(file)) /\ file[i].val \in Seq(Content(file))
    BY FileIs
  <2>2. Mapped(f, file[i].layer) \in Seq(R) /\ Mapped(f, file[i].val) \in Seq(R)
    BY <2>1, MappedType
  <2>3. /\ Tokens(Mapped(f, file[i].layer)) = UNION {Tokens(f[t]) : t \in Tokens(file[i].layer)}
        /\ Tokens(Mapped(f, file[i].val)) = UNION {Tokens(f[t]) : t \in Tokens(file[i].val)}
    BY <2>1, MappedTokens
  <2> QED BY <1>2, <2>2, <2>3
<1>4. IsFile(g)
  <2>1. DOMAIN file = 1..Len(file) /\ Len(file) \in Nat
    BY FileIs
  <2> QED BY <1>1, <1>2, <1>3, <2>1, FileIf
<1>5. Content(g) = UNION {Tokens(f[t]) : t \in Content(file)}
  <2>1. ASSUME NEW u \in Content(g)  PROVE \E t \in Content(file) : u \in Tokens(f[t])
    <3>1. PICK i \in DOMAIN file : u \in Tokens(g[i].layer) \union Tokens(g[i].val)
      BY <1>1 DEF Content
    <3>2. PICK t \in Tokens(file[i].layer) \union Tokens(file[i].val) : u \in Tokens(f[t])
      <4>1. u \in UNION {Tokens(f[t]) : t \in Tokens(file[i].layer)}
              \/ u \in UNION {Tokens(f[t]) : t \in Tokens(file[i].val)}
        BY <1>3, <3>1, Zenon
      <4> QED BY ONLY <4>1
    <3>3. t \in Content(file)
      BY DEF Content
    <3> QED BY <3>2, <3>3
  <2>2. ASSUME NEW t \in Content(file), NEW u \in Tokens(f[t])  PROVE u \in Content(g)
    <3>1. PICK i \in DOMAIN file : t \in Tokens(file[i].layer) \union Tokens(file[i].val)
      BY DEF Content
    <3>2. u \in Tokens(g[i].layer) \union Tokens(g[i].val)
      BY <1>3, <3>1
    <3> QED BY <1>1, <3>2 DEF Content
  <2> QED BY <2>1, <2>2
<1> QED BY <1>1, <1>2, <1>4, <1>5 DEF g

\* Two mappings of a file after each other are one.
LEMMA MappedFileTwice ==
  ASSUME NEW S, NEW file, IsFile(file), Content(file) \subseteq S, NEW f, NEW g, NEW h,
         Maps(f, S, S), Maps(g, S, S), \A t \in S : h[t] = Mapped(g, f[t])
  PROVE  MappedFile(g, MappedFile(f, file)) = MappedFile(h, file)
<1> DEFINE m == MappedFile(f, file)
<1>1. Maps(f, Content(file), S)
  BY DEF Maps
<1>2. /\ DOMAIN m = DOMAIN file
      /\ \A i \in DOMAIN file : m[i] = [file[i] EXCEPT !.layer = Mapped(f, @), !.val = Mapped(f, @)]
  BY DEF MappedFile
<1> HIDE DEF m
<1>3. ASSUME NEW i \in DOMAIN file
      PROVE  [m[i] EXCEPT !.layer = Mapped(g, @), !.val = Mapped(g, @)]
               = [file[i] EXCEPT !.layer = Mapped(h, @), !.val = Mapped(h, @)]
  <2>1. /\ IsEntry(file[i])
        /\ file[i].layer \in Seq(Content(file)) /\ file[i].val \in Seq(Content(file))
    BY FileIs
  <2>2. file[i].layer \in Seq(S) /\ file[i].val \in Seq(S)
    BY <2>1
  <2>3. /\ Mapped(g, Mapped(f, file[i].layer)) = Mapped(h, file[i].layer)
        /\ Mapped(g, Mapped(f, file[i].val)) = Mapped(h, file[i].val)
    BY <2>2, MappedTwice
  <2>4. m[i] = [file[i] EXCEPT !.layer = Mapped(f, @), !.val = Mapped(f, @)]
    BY <1>2
  <2> QED BY <2>1, <2>3, <2>4 DEF IsEntry, Entry
<1>4. MappedFile(g, m) = MappedFile(h, file)
  BY <1>2, <1>3 DEF MappedFile
<1> QED BY <1>4 DEF m

\* Functions that agree on the tokens of a file.
LEMMA MappedFileSame ==
  ASSUME NEW file, IsFile(file), NEW f, NEW g, \A t \in Content(file) : f[t] = g[t]
  PROVE  MappedFile(f, file) = MappedFile(g, file)
<1>1. ASSUME NEW i \in DOMAIN file
      PROVE  Mapped(f, file[i].layer) = Mapped(g, file[i].layer) /\ Mapped(f, file[i].val) = Mapped(g, file[i].val)
  <2>1. \A t \in Tokens(file[i].layer) : f[t] = g[t]
    BY DEF Content
  <2>2. \A t \in Tokens(file[i].val) : f[t] = g[t]
    BY DEF Content
  <2> QED BY <2>1, <2>2, MappedSame
<1> QED BY <1>1 DEF MappedFile

LEMMA MappedFileStays ==
  ASSUME NEW file, IsFile(file), NEW f, \A t \in Content(file) : f[t] = <<t>>
  PROVE  MappedFile(f, file) = file
<1>0. DOMAIN file = 1..Len(file) /\ file = [i \in DOMAIN file |-> file[i]]
  BY DEF IsFile
<1>1. ASSUME NEW i \in DOMAIN file
      PROVE  [file[i] EXCEPT !.layer = Mapped(f, @), !.val = Mapped(f, @)] = file[i]
  <2>1. /\ IsEntry(file[i])
        /\ file[i].layer \in Seq(Content(file)) /\ file[i].val \in Seq(Content(file))
    BY FileIs
  <2>2. Mapped(f, file[i].layer) = file[i].layer /\ Mapped(f, file[i].val) = file[i].val
    BY <2>1, MappedStays
  <2> QED BY <2>1, <2>2 DEF IsEntry, Entry
<1> QED BY <1>0, <1>1 DEF MappedFile

\* What a substitution does to a token.
Replacement(s, S) ==
  [t \in S |-> IF t.form = "double" /\ t.name = s.key /\ s.key \notin OddNames
               THEN Expanded(s.to) ELSE <<t>>]

LEMMA ReplacedIs ==
  ASSUME NEW S, NEW file, IsFile(file), Content(file) \subseteq S, NEW s
  PROVE  Replaced(file, s) = MappedFile(Replacement(s, S), file)
<1> DEFINE f == Replacement(s, S)
           F(tok) == IF tok.form = "double" /\ tok.name = s.key /\ s.key \notin OddNames
                     THEN Expanded(s.to) ELSE <<tok>>
<1>1. \A t \in S : f[t] = F(t)
  BY DEF Replacement
<1> HIDE DEF f, F
<1>2. ASSUME NEW line, Tokens(line) \subseteq S
      PROVE  FlattenSeq([i \in DOMAIN line |-> F(line[i])]) = Mapped(f, line)
  <2>1. \A i \in DOMAIN line : F(line[i]) = f[line[i]]
    BY <1>1, <1>2 DEF Tokens
  <2>2. [i \in DOMAIN line |-> F(line[i])] = [i \in DOMAIN line |-> f[line[i]]]
    BY <2>1
  <2> QED BY <2>2 DEF Mapped
<1>3. ASSUME NEW i \in DOMAIN file
      PROVE  Tokens(file[i].layer) \subseteq S /\ Tokens(file[i].val) \subseteq S
  BY DEF Content
<1>4. Replaced(file, s) = MapFile(F, file)
  BY DEF Replaced, F, MapFile, MapTokens
<1>5. MapFile(F, file) = MappedFile(f, file)
  <2> DEFINE G(e) == [e EXCEPT !.layer = FlattenSeq([j \in DOMAIN e.layer |-> F(e.layer[j])]),
                               !.val = FlattenSeq([j \in DOMAIN e.val |-> F(e.val[j])])]
             H(e) == [e EXCEPT !.layer = Mapped(f, e.layer), !.val = Mapped(f, e.val)]
  <2>1. MapFile(F, file) = [i \in DOMAIN file |-> G(file[i])]
    BY DEF MapFile, MapTokens
  <2>2. MappedFile(f, file) = [i \in DOMAIN file |-> H(file[i])]
    BY DEF MappedFile
  <2>3. ASSUME NEW i \in DOMAIN file  PROVE G(file[i]) = H(file[i])
    <3>1. /\ FlattenSeq([j \in DOMAIN file[i].layer |-> F(file[i].layer[j])]) = Mapped(f, file[i].layer)
          /\ FlattenSeq([j \in DOMAIN file[i].val |-> F(file[i].val[j])]) = Mapped(f, file[i].val)
      BY <1>2, <1>3
    <3> QED BY ONLY <3>1 DEF G, H
  <2> HIDE DEF G, H
  <2> QED BY <2>1, <2>2, <2>3
<1> QED BY <1>4, <1>5 DEF f

LEMMA ExpandedIs ==
  ASSUME NEW line, IsLine(line)
  PROVE  /\ IsLine(Expanded(line))
         /\ Tokens(Expanded(line)) = {t \in Tokens(line) : t.form \notin {"bare", "brace"}}
<1> DEFINE S == Tokens(line)
           f == [t \in S |-> IF t.form \in {"bare", "brace"} THEN <<>> ELSE <<t>>]
<1>1. Maps(f, S, S)
  <2>1. ASSUME NEW t \in S  PROVE <<t>> \in Seq(S) /\ <<>> \in Seq(S)
    OBVIOUS
  <2> HIDE DEF S
  <2> QED BY <2>1 DEF Maps
<1>2. line \in Seq(S)
  BY DEF IsLine
<1>3. Expanded(line) = Mapped(f, line)
  <2>1. [i \in DOMAIN line |-> IF line[i].form \in {"bare", "brace"} THEN <<>> ELSE <<line[i]>>]
          = [i \in DOMAIN line |-> f[line[i]]]
    BY DEF Tokens
  <2> HIDE DEF f
  <2> QED BY <2>1 DEF Expanded, MapTokens, Mapped
<1>4. \A t \in S : Tokens(f[t]) = IF t.form \in {"bare", "brace"} THEN {} ELSE {t}
  <2>1. Tokens(<<>>) = {} /\ \A t : Tokens(<<t>>) = {t}
    BY DEF Tokens
  <2> HIDE DEF S
  <2> QED BY <2>1
<1> HIDE DEF f, S
<1>5. Mapped(f, line) \in Seq(S)
  BY <1>1, <1>2, MappedType
<1>6. Tokens(Mapped(f, line)) = UNION {Tokens(f[t]) : t \in Tokens(line)}
  BY <1>1, <1>2, MappedTokens
<1>7. UNION {Tokens(f[t]) : t \in S} = {t \in S : t.form \notin {"bare", "brace"}}
  <2>1. ASSUME NEW t \in S, NEW u \in Tokens(f[t])  PROVE u = t /\ t.form \notin {"bare", "brace"}
    BY <1>4, <2>1
  <2>2. ASSUME NEW t \in S, t.form \notin {"bare", "brace"}  PROVE t \in Tokens(f[t])
    BY <1>4, <2>2
  <2> QED BY <2>1, <2>2
<1> QED BY <1>3, <1>5, <1>6, <1>7, LineIs DEF S

\* The references in a form that substitute does not replace.
Rough(file) == {t \in Content(file) : t.form \in {"bare", "brace"}}

\* What one substitution leaves of a file, and what it adds.
LEMMA ReplacedContent ==
  ASSUME NEW file, IsFile(file), NEW s, IsLine(s.to)
  PROVE  /\ IsFile(Replaced(file, s))
         /\ Rough(Replaced(file, s)) = Rough(file)
         /\ \A t \in Content(Replaced(file, s)) : t.form = "double" =>
              \/ t \in Content(file) /\ (t.name # s.key \/ s.key \in OddNames)
              \/ t \in Tokens(s.to)
<1> DEFINE S == Content(file) \union Tokens(s.to)
           f == Replacement(s, S)
           touched(t) == t.form = "double" /\ t.name = s.key /\ s.key \notin OddNames
<1>1. IsLine(Expanded(s.to)) /\ Tokens(Expanded(s.to)) = {t \in Tokens(s.to) : t.form \notin {"bare", "brace"}}
  BY ExpandedIs
<1>2. Expanded(s.to) \in Seq(S)
  BY <1>1, LineType
<1>3. \A t \in S : f[t] = IF touched(t) THEN Expanded(s.to) ELSE <<t>>
  BY DEF Replacement
<1>4. Content(file) \subseteq S
  OBVIOUS
<1> HIDE DEF S, f
<1>5. Maps(f, Content(file), S)
  <2>1. ASSUME NEW t \in S  PROVE <<t>> \in Seq(S)
    OBVIOUS
  <2> HIDE DEF touched
  <2> QED BY <1>2, <1>3, <1>4, <2>1 DEF Maps
<1>6. Replaced(file, s) = MappedFile(f, file)
  BY <1>4, ReplacedIs DEF f
<1>7. /\ IsFile(MappedFile(f, file))
      /\ Content(MappedFile(f, file)) = UNION {Tokens(f[t]) : t \in Content(file)}
  BY <1>5, MappedFileIs
<1>8. ASSUME NEW t \in Content(file)
      PROVE  Tokens(f[t]) = IF touched(t) THEN Tokens(Expanded(s.to)) ELSE {t}
  <2>1. \A u : Tokens(<<u>>) = {u}
    BY DEF Tokens
  <2> HIDE DEF touched
  <2> QED BY <1>3, <1>4, <2>1
<1>9. \A u \in Content(Replaced(file, s)) :
        \/ u \in Tokens(s.to) /\ u.form \notin {"bare", "brace"}
        \/ u \in Content(file) /\ ~touched(u)
  <2>1. SUFFICES ASSUME NEW t \in Content(file), NEW u \in Tokens(f[t])
                 PROVE  \/ u \in Tokens(s.to) /\ u.form \notin {"bare", "brace"}
                        \/ u \in Content(file) /\ ~touched(u)
    BY <1>6, <1>7
  <2> HIDE DEF touched
  <2> QED BY <1>1, <1>8
<1>10. \A u \in Content(file) : ~touched(u) => u \in Content(Replaced(file, s))
  <2> HIDE DEF touched
  <2> QED BY <1>6, <1>7, <1>8
<1>11. Rough(Replaced(file, s)) = Rough(file)
  BY <1>9, <1>10 DEF Rough
<1> QED BY <1>6, <1>7, <1>9, <1>11

LEMMA UnsupportedRough ==
  ASSUME NEW file, NEW other, Rough(file) = Rough(other), NEW v
  PROVE  Unsupported(file, v) <=> Unsupported(other, v)
<1>1. ASSUME NEW x PROVE Unsupported(x, v) <=> \E tok \in Rough(x) : IsBare(tok, v) \/ (tok.form = "brace" /\ tok.name = v)
  BY DEF Rough, Unsupported, IsBare
<1> QED BY <1>1

\* The end of NewStackerfile.
LEMMA DefaultsContent ==
  ASSUME NEW file, IsFile(file)
  PROVE  /\ IsFile(WithDefaults(file))
         /\ \A t \in Content(WithDefaults(file)) :
              t.form = "text" \/ (t \in Content(file) /\ t.form # "double")
<1> DEFINE C == Content(file)
           F(t) == <<IF t.form = "double" THEN Text(t.default) ELSE t>>
           f == [t \in C |-> F(t)]
           R == C \union {Text(t.default) : t \in C}
<1>1. \A t \in C : f[t] = F(t)
  OBVIOUS
<1>2. \A t \in C : F(t) \in Seq(R) /\ Tokens(F(t)) = {IF t.form = "double" THEN Text(t.default) ELSE t}
  <2>1. \A u : Tokens(<<u>>) = {u}
    BY DEF Tokens
  <2>2. ASSUME NEW u \in R  PROVE <<u>> \in Seq(R)
    OBVIOUS
  <2>3. \A t \in C : (IF t.form = "double" THEN Text(t.default) ELSE t) \in R
    OBVIOUS
  <2> HIDE DEF R, C
  <2> QED BY <2>1, <2>2, <2>3
<1> HIDE DEF f, F, R
<1>3. Maps(f, C, R)
  BY <1>1, <1>2 DEF Maps
<1>4. WithDefaults(file) = MappedFile(f, file)
  <2>1. ASSUME NEW line, Tokens(line) \subseteq C
        PROVE  FlattenSeq([i \in DOMAIN line |-> F(line[i])]) = Mapped(f, line)
    <3>1. \A i \in DOMAIN line : F(line[i]) = f[line[i]]
      BY <1>1, <2>1 DEF Tokens
    <3>2. [i \in DOMAIN line |-> F(line[i])] = [i \in DOMAIN line |-> f[line[i]]]
      BY <3>1
    <3> QED BY <3>2 DEF Mapped
  <2> DEFINE G(e) == [e EXCEPT !.layer = FlattenSeq([j \in DOMAIN e.layer |-> F(e.layer[j])]),
                               !.val = FlattenSeq([j \in DOMAIN e.val |-> F(e.val[j])])]
             H(e) == [e EXCEPT !.layer = Mapped(f, e.layer), !.val = Mapped(f, e.val)]
  <2>2. WithDefaults(file) = [i \in DOMAIN file |-> G(file[i])]
    BY DEF WithDefaults, F, MapFile, MapTokens
  <2>3. MappedFile(f, file) = [i \in DOMAIN file |-> H(file[i])]
    BY DEF MappedFile
  <2>4. ASSUME NEW i \in DOMAIN file  PROVE G(file[i]) = H(file[i])
    <3>1. Tokens(file[i].layer) \subseteq C /\ Tokens(file[i].val) \subseteq C
      BY DEF Content
    <3>2. /\ FlattenSeq([j \in DOMAIN file[i].layer |-> F(file[i].layer[j])]) = Mapped(f, file[i].layer)
          /\ FlattenSeq([j \in DOMAIN file[i].val |-> F(file[i].val[j])]) = Mapped(f, file[i].val)
      BY <2>1, <3>1
    <3> QED BY ONLY <3>2 DEF G, H
  <2> HIDE DEF G, H
  <2> QED BY <2>2, <2>3, <2>4
<1>5. /\ IsFile(MappedFile(f, file))
      /\ Content(MappedFile(f, file)) = UNION {Tokens(f[t]) : t \in C}
  BY <1>3, MappedFileIs
<1>6. ASSUME NEW t \in C, NEW u \in Tokens(f[t])
      PROVE  u.form = "text" \/ (u \in C /\ u.form # "double")
  <2>1. u = IF t.form = "double" THEN Text(t.default) ELSE t
    BY <1>1, <1>2, <1>6
  <2>2. Text(t.default).form = "text"
    BY DEF Text
  <2> QED BY <2>1, <2>2
<1> QED BY <1>4, <1>5, <1>6

-----------------------------------------------------------------------------
(* Types *)

IsLines(f) == \A v \in DOMAIN f : IsLine(f[v])

ResultOK(r) ==
  /\ r.status \in {"none", "ok", "unsupported", "missing", "invalid"}
  /\ (r.status = "missing") = (r.missing # {})

\* convert: the Dockerfile read so far and what was made of it.
Converted ==
  /\ phase \in {"convert", "panic", "error", "lost", "start", "build", "publish", "end"}
  /\ docker \in Seq(Commands) /\ Len(docker) <= MaxCommands
  /\ vols \in Nat /\ vols <= Len(docker)
  /\ args \in Seq(NamesOf("arg"))
  /\ DOMAIN env \subseteq NamesOf("env") /\ IsFiniteSet(DOMAIN env) /\ IsLines(env)
  /\ IsFile(output) /\ IsLine(currLayer) /\ IsLines(subs)
  /\ phase = "convert" => (currLayer = <<>>) = (output = <<>>)
  /\ opts \in Options

Results ==
  /\ ResultOK(built) /\ ResultOK(published) /\ published.status # "missing"

LEMMA ResultsTypeOK == Converted /\ Results => TypeOK
<1> SUFFICES ASSUME Converted, Results  PROVE TypeOK
  OBVIOUS
<1>1. ToSet(args) \subseteq NamesOf("arg")
  <2>1. args \in Seq(NamesOf("arg"))
    BY DEF Converted
  <2> HIDE DEF NamesOf
  <2> QED BY <2>1 DEF ToSet
<1>2. \A r \in {built, published} :
        /\ r.status \in {"none", "ok", "unsupported", "missing", "invalid"}
        /\ (r.status = "missing") = (r.missing # {})
  BY DEF Results, ResultOK
<1> QED BY <1>1, <1>2 DEF Converted, Results, TypeOK

LEMMA ReadResultOK ==
  ASSUME NEW file, NEW b, NEW h  PROVE ResultOK(ReadResult(file, b, h))
<1>1. CASE b
  BY <1>1 DEF ReadResult, ResultOK
<1>2. CASE ~b /\ Missing(file) # {}
  BY <1>2 DEF ReadResult, ResultOK
<1>3. CASE ~b /\ Missing(file) = {}
  BY <1>3 DEF ReadResult, ResultOK
<1> QED BY <1>1, <1>2, <1>3

LEMMA NoFileOK == ResultOK(NoFile) /\ NoFile.status # "missing"
  BY DEF ResultOK, NoFile

LEMMA SetLines ==
  ASSUME NEW f, IsLines(f), NEW k, NEW v, IsLine(v)
  PROVE  IsLines(Set(f, k, v)) /\ DOMAIN Set(f, k, v) = DOMAIN f \union {k}
  BY DEF IsLines, Set

LEMMA EmptyLines == IsLines(Empty) /\ DOMAIN Empty = {}
  BY DEF IsLines, Empty

LEMMA OneToken == ASSUME NEW t  PROVE IsLine(<<t>>) /\ Tokens(<<t>>) = {t}
<1>1. <<t>> \in Seq({t})
  OBVIOUS
<1>2. Tokens(<<t>>) = {t}
  BY DEF Tokens
<1> QED BY <1>1, <1>2 DEF IsLine

LEMMA NoToken == IsLine(<<>>) /\ Tokens(<<>>) = {}
<1>1. <<>> \in Seq({})
  OBVIOUS
<1>2. Tokens(<<>>) = {}
  BY DEF Tokens
<1> QED BY <1>1, <1>2 DEF IsLine

\* A line from a command.
LEMMA CommandLine ==
  ASSUME NEW c \in Commands
  PROVE  /\ c.cmd \in {"from", "env", "run", "volume", "config"} => IsLine(c.val)
         /\ c.cmd = "arg" /\ c.val # None => IsLine(c.val)
  BY ConvertAssumption

LEMMA ReplaceArgLine == ASSUME NEW line, IsLine(line)  PROVE IsLine(ReplaceArg(line))
<1> DEFINE i == SelectInSeq(args, LAMBDA a : FirstForm(line, a) # 0)
           form == Forms[FirstForm(line, args[i])]
           F(tok) == IF ~IsForm(tok, form, args[i]) THEN <<tok>>
                     ELSE IF tok.name = args[i] THEN <<Ref("double", args[i])>>
                     ELSE <<Ref("double", args[i]), Text("rest")>>
           S == Tokens(line)
           R == S \union {Ref("double", args[i]), Text("rest")}
           f == [t \in S |-> F(t)]
<1>1. ReplaceArg(line) = IF i = 0 THEN line ELSE FlattenSeq([j \in DOMAIN line |-> F(line[j])])
  BY DEF ReplaceArg, MapTokens
<1>2. Maps(f, S, R)
  <2> DEFINE d == Ref("double", args[i])
             r == Text("rest")
  <2>1. d \in R /\ r \in R /\ S \subseteq R
    OBVIOUS
  <2>2. \A t \in S : f[t] \in {<<t>>, <<d>>, <<d, r>>}
    OBVIOUS
  <2> HIDE DEF d, r, R, f, S
  <2>3. ASSUME NEW t \in S  PROVE <<t>> \in Seq(R) /\ <<d>> \in Seq(R) /\ <<d, r>> \in Seq(R)
    BY <2>1
  <2> QED BY <2>2, <2>3 DEF Maps
<1>3. [j \in DOMAIN line |-> F(line[j])] = [j \in DOMAIN line |-> f[line[j]]]
  BY DEF Tokens
<1>4. line \in Seq(S)
  BY DEF IsLine
<1> HIDE DEF i, F, S, R, f
<1>5. Mapped(f, line) \in Seq(R)
  BY <1>2, <1>4, MappedType
<1>6. IsLine(Mapped(f, line))
  BY <1>5, LineIs
<1> QED BY <1>1, <1>3, <1>6 DEF Mapped

-----------------------------------------------------------------------------
(* The files that convert writes *)

GoodEntry(e) == IsEntry(e) /\ IsLine(e.layer) /\ IsLine(e.val)

LEMMA FileOver ==
  ASSUME NEW S, \A e \in S : GoodEntry(e), NEW file \in Seq(S)  PROVE IsFile(file)
<1>1. IsLine(file) /\ Tokens(file) \subseteq S
  BY LineIs, TokensType
<1>2. ToSet(file) = Tokens(file)
  BY DEF ToSet, Tokens
<1>3. \A e \in ToSet(file) : GoodEntry(e)
  BY <1>1, <1>2
<1>4. file \in Seq(ToSet(file))
  BY <1>1, <1>2 DEF IsLine
<1> QED BY <1>3, <1>4 DEF IsFile, GoodEntry, IsEntry

LEMMA FileSeq ==
  ASSUME NEW file, IsFile(file)
  PROVE  file \in Seq(ToSet(file)) /\ \A e \in ToSet(file) : GoodEntry(e)
  BY DEF IsFile, GoodEntry, IsEntry

LEMMA PutGood ==
  ASSUME IsLine(currLayer), NEW field, NEW key, NEW val, IsLine(val), NEW flags
  PROVE  GoodEntry(Put(field, key, val, flags))
  BY EntryParts DEF GoodEntry, Put

LEMMA OneEntry == ASSUME NEW e, GoodEntry(e)  PROVE IsFile(<<e>>)
<1>1. <<e>> \in Seq({e})
  OBVIOUS
<1>2. \A x \in {e} : GoodEntry(x)
  OBVIOUS
<1> QED BY <1>1, <1>2, FileOver

LEMMA NoEntry == IsFile(<<>>)
<1>1. <<>> \in Seq({})
  OBVIOUS
<1>2. \A x \in {} : GoodEntry(x)
  OBVIOUS
<1> QED BY <1>1, <1>2, FileOver

LEMMA FileConcat ==
  ASSUME NEW a, NEW b, IsFile(a), IsFile(b)
  PROVE  IsFile(a \o b) /\ (a # <<>> => a \o b # <<>>)
<1> DEFINE S == ToSet(a) \union ToSet(b)
<1>1. /\ a \in Seq(ToSet(a)) /\ b \in Seq(ToSet(b))
      /\ \A e \in ToSet(a) : GoodEntry(e)
      /\ \A e \in ToSet(b) : GoodEntry(e)
  BY FileSeq
<1>2. a \in Seq(S) /\ b \in Seq(S) /\ \A e \in S : GoodEntry(e)
  <2> DEFINE A == ToSet(a)
             B == ToSet(b)
  <2>1. a \in Seq(A) /\ b \in Seq(B) /\ S = A \union B
    BY <1>1
  <2> HIDE DEF A, B, S
  <2>2. a \in Seq(S) /\ b \in Seq(S)
    BY <2>1
  <2> QED BY <1>1, <2>1, <2>2 DEF A, B
<1> HIDE DEF S
<1>3. a \o b \in Seq(S) /\ (a # <<>> => a \o b # <<>>)
  BY <1>2
<1> QED BY <1>2, <1>3, FileOver

LEMMA WithoutFile ==
  ASSUME NEW file, IsFile(file), NEW l, NEW e, GoodEntry(e)
  PROVE  IsFile(Append(Without(file, l), e)) /\ Append(Without(file, l), e) # <<>>
<1> DEFINE S == ToSet(file)
           ss == [i \in DOMAIN file |-> IF file[i].layer = l THEN <<>> ELSE <<file[i]>>]
<1>1. file \in Seq(S) /\ \A x \in S : GoodEntry(x)
  BY FileSeq
<1> HIDE DEF S
<1>2. DOMAIN file = 1..Len(file) /\ Len(file) \in Nat /\ \A i \in DOMAIN file : file[i] \in S
  BY <1>1
<1>3. \A x \in S : <<x>> \in Seq(S) /\ <<>> \in Seq(S)
  OBVIOUS
<1>4. \A i \in 1..Len(file) : ss[i] \in Seq(S)
  BY <1>2, <1>3
<1>5. ss \in Seq(Seq(S))
  <2>1. DOMAIN ss = 1..Len(file) /\ ss = [i \in 1..Len(file) |-> ss[i]]
    BY <1>2
  <2> HIDE DEF ss
  <2> QED BY <1>2, <1>4, <2>1
<1>6. Without(file, l) \in Seq(S)
  <2>1. Without(file, l) = FlattenSeq(ss)
    BY DEF Without
  <2> HIDE DEF ss
  <2> QED BY <1>5, <2>1, FlattenType
<1> DEFINE w == Without(file, l)
           T == S \union {e}
<1>7. w \in Seq(T) /\ e \in T /\ \A x \in T : GoodEntry(x)
  BY <1>1, <1>6
<1> HIDE DEF w, T
<1>8. Append(w, e) \in Seq(T) /\ Append(w, e) # <<>>
  <2>1. Append(w, e) \in Seq(T) /\ Len(Append(w, e)) = Len(w) + 1 /\ Len(w) \in Nat
    BY <1>7
  <2>2. Len(<<>>) = 0 /\ Len(w) + 1 # 0
    BY <2>1
  <2> QED BY <2>1, <2>2
<1>9. IsFile(Append(w, e))
  BY <1>7, <1>8, FileOver
<1> QED BY <1>8, <1>9 DEF w

\* The exports before a run.
LEMMA Exports ==
  ASSUME IsLine(currLayer), IsFiniteSet(DOMAIN env), IsLines(env), NEW order \in SetToSeqs(DOMAIN env)
  PROVE  IsFile([i \in DOMAIN order |-> Put("export", order[i], env[order[i]], {})])
<1> DEFINE K == DOMAIN env
           n == Cardinality(K)
           S == {Put("export", k, env[k], {}) : k \in K}
           x == [i \in DOMAIN order |-> Put("export", order[i], env[order[i]], {})]
<1>1. n \in Nat
  BY FS_CardinalityType
<1>2. order \in [1..n -> K]
  BY DEF SetToSeqs
<1>3. \A k \in K : GoodEntry(Put("export", k, env[k], {}))
  BY PutGood DEF IsLines
<1>4. \A e \in S : GoodEntry(e)
  BY <1>3
<1>5. DOMAIN x = 1..n /\ x = [i \in 1..n |-> x[i]] /\ \A i \in 1..n : x[i] \in S
  BY <1>2
<1> HIDE DEF S, x, n
<1>6. x \in Seq(S)
  BY <1>1, <1>5
<1>7. IsFile(x)
  BY <1>4, <1>6, FileOver
<1> QED BY <1>7 DEF x

-----------------------------------------------------------------------------
(* convertCommand keeps the types *)

LEMMA DockerGrows ==
  ASSUME Converted, NEW c \in Commands, Converting(c)
  PROVE  /\ docker' \in Seq(Commands) /\ Len(docker') = Len(docker) + 1 /\ Len(docker') <= MaxCommands
         /\ \A kind : NamesOf(kind) \subseteq NamesOf(kind)'
         /\ c.key \in NamesOf(c.cmd)'
         /\ opts' = opts
<1>1. docker \in Seq(Commands) /\ Len(docker) < MaxCommands /\ MaxCommands \in Nat /\ docker' = Append(docker, c)
  BY ConvertAssumption DEF Converted, Converting
<1>2. /\ docker' \in Seq(Commands) /\ Len(docker') = Len(docker) + 1 /\ Len(docker') <= MaxCommands
      /\ DOMAIN docker = 1..Len(docker) /\ DOMAIN docker' = 1..(Len(docker) + 1)
      /\ docker'[Len(docker) + 1] = c /\ Len(docker) + 1 \in 1..(Len(docker) + 1)
      /\ \A i \in 1..Len(docker) : i \in 1..(Len(docker) + 1) /\ docker'[i] = docker[i]
  BY <1>1
<1>3. ASSUME NEW kind  PROVE NamesOf(kind) \subseteq NamesOf(kind)'
  BY <1>2 DEF NamesOf, At
<1>4. c.key \in NamesOf(c.cmd)'
  BY <1>2 DEF NamesOf, At
<1> QED BY <1>2, <1>3, <1>4 DEF Converting, readVars

\* A command that leaves the rest as it is.
LEMMA ArgsKept ==
  ASSUME Converted, NEW c \in Commands, Converting(c), UNCHANGED args  PROVE args' \in Seq(NamesOf("arg")')
<1> DEFINE A == NamesOf("arg")
           B == NamesOf("arg")'
<1>1. args \in Seq(A) /\ A \subseteq B /\ args' = args
  BY DockerGrows DEF Converted
<1> HIDE DEF A, B
<1>2. args' \in Seq(B)
  BY <1>1
<1> QED BY <1>2 DEF B

LEMMA EnvKept ==
  ASSUME Converted, NEW c \in Commands, Converting(c), UNCHANGED env
  PROVE  DOMAIN env' \subseteq NamesOf("env")' /\ IsFiniteSet(DOMAIN env') /\ IsLines(env')
<1>1. DOMAIN env \subseteq NamesOf("env") /\ IsFiniteSet(DOMAIN env) /\ IsLines(env)
  BY DEF Converted
<1>2. NamesOf("env") \subseteq NamesOf("env")'
  BY DockerGrows
<1> QED BY <1>1, <1>2

LEMMA VolsKept ==
  ASSUME Converted, NEW c \in Commands, Converting(c), vols' \in {vols, vols + 1}
  PROVE  vols' \in Nat /\ vols' <= Len(docker')
<1>1. vols \in Nat /\ vols <= Len(docker) /\ docker \in Seq(Commands) /\ Len(docker') = Len(docker) + 1
  BY DockerGrows DEF Converted
<1> QED BY <1>1

\* Together: what a command has to say about the variables it changes.
LEMMA CommandKeeps ==
  ASSUME Converted, NEW c \in Commands, Converting(c), phase' \in {"convert", "panic", "error"},
         vols' \in {vols, vols + 1},
         args' \in Seq(NamesOf("arg")'),
         DOMAIN env' \subseteq NamesOf("env")' /\ IsFiniteSet(DOMAIN env') /\ IsLines(env'),
         IsFile(output'), IsLine(currLayer'), IsLines(subs'),
         phase' = "convert" => (currLayer' = <<>>) = (output' = <<>>)
  PROVE  Converted'
<1>1. vols' \in Nat /\ vols' <= Len(docker')
  BY VolsKept
<1>2. docker' \in Seq(Commands) /\ Len(docker') <= MaxCommands /\ opts' = opts
  BY DockerGrows
<1>3. opts' \in Options
  BY <1>2 DEF Converted
<1>4. phase' \in {"convert", "panic", "error", "lost", "start", "build", "publish", "end"}
  OBVIOUS
<1> QED BY <1>1, <1>2, <1>3, <1>4 DEF Converted

LEMMA InLayerKeeps ==
  ASSUME Converted, NEW c \in Commands, NEW entries, IsFile(entries), InLayer(c, entries),
         vols' \in {vols, vols + 1}, IsLines(subs'), UNCHANGED <<currLayer, args, env>>
  PROVE  Converted'
<1>1. Converting(c) /\ phase = "convert" /\ IsFile(output) /\ IsLine(currLayer)
      /\ (currLayer = <<>>) = (output = <<>>)
  BY DEF InLayer, Converting, Converted
<1>2. /\ args' \in Seq(NamesOf("arg")')
      /\ DOMAIN env' \subseteq NamesOf("env")' /\ IsFiniteSet(DOMAIN env') /\ IsLines(env')
  BY <1>1, ArgsKept, EnvKept
<1>3. CASE currLayer = <<>>
  <2>1. phase' = "panic" /\ output' = output /\ currLayer' = currLayer
    BY <1>3 DEF InLayer
  <2>2. IsFile(output') /\ IsLine(currLayer')
    BY <1>1, <2>1
  <2> QED BY <1>1, <1>2, <2>1, <2>2, CommandKeeps
<1>4. CASE currLayer # <<>>
  <2>1. phase' = "convert" /\ output' = output \o entries /\ currLayer' = currLayer /\ output # <<>>
    BY <1>1, <1>4 DEF InLayer
  <2>2. IsFile(output') /\ output' # <<>> /\ IsLine(currLayer')
    BY <1>1, <2>1, FileConcat
  <2>3. (currLayer' = <<>>) = (output' = <<>>)
    BY <1>4, <2>1, <2>2
  <2> QED BY <1>1, <1>2, <2>1, <2>2, <2>3, CommandKeeps
<1> QED BY <1>3, <1>4

\* A command that has to do with the output only by its entries.
LEMMA OutsideKeeps ==
  ASSUME Converted, NEW c \in Commands, Converting(c), phase' \in {"convert", "error"},
         UNCHANGED <<output, currLayer, vols>>, IsLines(subs'),
         args' \in Seq(NamesOf("arg")'),
         DOMAIN env' \subseteq NamesOf("env")' /\ IsFiniteSet(DOMAIN env') /\ IsLines(env')
  PROVE  Converted'
<1>1. phase = "convert" /\ IsFile(output) /\ IsLine(currLayer) /\ (currLayer = <<>>) = (output = <<>>)
  BY DEF Converting, Converted
<1>2. IsFile(output') /\ IsLine(currLayer') /\ (currLayer' = <<>>) = (output' = <<>>)
  BY <1>1
<1>3. vols' \in {vols, vols + 1} /\ phase' \in {"convert", "panic", "error"}
  OBVIOUS
<1> QED BY <1>2, <1>3, CommandKeeps

LEMMA ConvertKeeps ==
  ASSUME Converted, NEW c \in Commands, convertCommand(c)  PROVE Converted'
<1>0. IsLines(subs) /\ IsLines(env) /\ IsLine(currLayer) /\ IsFile(output)
  BY DEF Converted
<1>1. CASE ConvertFrom(c)
  <2>1. Converting(c) /\ IsLine(c.val) /\ phase' = "convert"
    BY <1>1, CommandLine DEF ConvertFrom, Converting
  <2>2. IsLine(currLayer') /\ currLayer' # <<>>
    <3>1. currLayer' \in {ImageName, <<Text(c.key)>>}
      BY <1>1 DEF ConvertFrom
    <3>2. ImageName # <<>> /\ <<Text(c.key)>> # <<>>
      BY DEF ImageName
    <3> QED BY <3>1, <3>2, OneToken DEF ImageName
  <2>3. GoodEntry(Entry(currLayer', "from", None, c.val, {}))
    BY <2>1, <2>2, EntryParts DEF GoodEntry
  <2>4. IsFile(output') /\ output' # <<>>
    <3>1. output' = Append(Without(output, currLayer'), Entry(currLayer', "from", None, c.val, {}))
      BY <1>1 DEF ConvertFrom
    <3> QED BY <1>0, <2>3, <3>1, WithoutFile
  <2>5. IsLines(subs')
    <3>1. subs' \in {subs, Set(subs, "IMAGE", <<Text("app")>>)}
      BY <1>1 DEF ConvertFrom
    <3>2. IsLine(<<Text("app")>>)
      BY OneToken
    <3>3. IsLines(Set(subs, "IMAGE", <<Text("app")>>))
      <4> DEFINE l == <<Text("app")>>
      <4>1. IsLine(l)
        BY <3>2
      <4> HIDE DEF l
      <4>2. IsLines(Set(subs, "IMAGE", l))
        BY <1>0, <4>1, SetLines
      <4> QED BY <4>2 DEF l
    <3> QED BY <1>0, <3>1, <3>3
  <2>6. /\ args' \in Seq(NamesOf("arg")')
        /\ DOMAIN env' \subseteq NamesOf("env")' /\ IsFiniteSet(DOMAIN env') /\ IsLines(env')
    BY <1>1, <2>1, ArgsKept, EnvKept DEF ConvertFrom
  <2>7. vols' \in {vols, vols + 1} /\ (currLayer' = <<>>) = (output' = <<>>)
    BY <1>1, <2>2, <2>4 DEF ConvertFrom
  <2> QED BY <2>1, <2>2, <2>4, <2>5, <2>6, <2>7, CommandKeeps
<1>2. CASE ConvertRun(c)
  <2>1. PICK order \in SetToSeqs(DOMAIN env) :
          InLayer(c, [i \in DOMAIN order |-> Put("export", order[i], env[order[i]], {})]
                     \o <<Put("run", currUid, ReplaceArg(c.val), {})>>)
    BY <1>2 DEF ConvertRun
  <2>2. IsFile([i \in DOMAIN order |-> Put("export", order[i], env[order[i]], {})])
    BY <1>0, Exports DEF Converted
  <2>3. IsFile(<<Put("run", currUid, ReplaceArg(c.val), {})>>)
    <3>1. IsLine(ReplaceArg(c.val))
      BY <1>2, CommandLine, ReplaceArgLine DEF ConvertRun
    <3>2. GoodEntry(Put("run", currUid, ReplaceArg(c.val), {}))
      BY <1>0, <3>1, PutGood
    <3> QED BY <3>2, OneEntry
  <2>4. IsLines(subs') /\ vols' \in {vols, vols + 1} /\ UNCHANGED <<currLayer, args, env>>
    BY <1>0, <1>2 DEF ConvertRun
  <2> DEFINE entries == [i \in DOMAIN order |-> Put("export", order[i], env[order[i]], {})]
                        \o <<Put("run", currUid, ReplaceArg(c.val), {})>>
  <2>5. IsFile(entries)
    BY <2>2, <2>3, FileConcat
  <2>6. InLayer(c, entries)
    BY <2>1
  <2> HIDE DEF entries
  <2> QED BY <2>4, <2>5, <2>6, InLayerKeeps
<1>3. CASE ConvertEnv(c)
  <2>1. Converting(c) /\ c.cmd = "env" /\ phase' = "convert" /\ IsLine(ReplaceArg(c.val)) /\ env' = Set(env, c.key, ReplaceArg(c.val))
    BY <1>3, CommandLine, ReplaceArgLine DEF ConvertEnv, Converting
  <2>2. IsLines(env') /\ DOMAIN env' = DOMAIN env \union {c.key}
    BY <1>0, <2>1, SetLines
  <2>3. DOMAIN env \subseteq NamesOf("env") /\ IsFiniteSet(DOMAIN env)
    BY DEF Converted
  <2>4. NamesOf("env") \subseteq NamesOf("env")' /\ c.key \in NamesOf("env")'
    BY <2>1, DockerGrows
  <2>5. IsFiniteSet(DOMAIN env')
    BY <2>2, <2>3, FS_AddElement
  <2>6. args' \in Seq(NamesOf("arg")') /\ IsLines(subs')
    BY <1>0, <1>3, <2>1, ArgsKept DEF ConvertEnv
  <2>7. DOMAIN env' \subseteq NamesOf("env")'
    BY <2>2, <2>3, <2>4
  <2> QED BY <1>3, <2>1, <2>2, <2>5, <2>6, <2>7, OutsideKeeps DEF ConvertEnv
<1>4. CASE ConvertArg(c)
  <2>1. Converting(c) /\ c.cmd = "arg" /\ phase' = "convert" /\ args' = Append(args, c.key)
    BY <1>4 DEF ConvertArg, Converting
  <2>2. args' \in Seq(NamesOf("arg")')
    <3> DEFINE A == NamesOf("arg")
               B == NamesOf("arg")'
    <3>1. args \in Seq(A) /\ A \subseteq B /\ c.key \in B
      BY <2>1, DockerGrows DEF Converted
    <3> HIDE DEF A, B
    <3>2. args' \in Seq(B)
      BY <2>1, <3>1
    <3> QED BY <3>2 DEF B
  <2>3. IsLines(subs')
    <3>1. subs' = IF c.val = None THEN subs ELSE Set(subs, c.key, c.val)
      BY <1>4 DEF ConvertArg
    <3> QED BY <1>0, <2>1, <3>1, CommandLine, SetLines
  <2>4. DOMAIN env' \subseteq NamesOf("env")' /\ IsFiniteSet(DOMAIN env') /\ IsLines(env')
    BY <1>4, <2>1, EnvKept DEF ConvertArg
  <2> QED BY <1>4, <2>1, <2>2, <2>3, <2>4, OutsideKeeps DEF ConvertArg
<1>5. CASE ConvertCopy(c)
  <2> DEFINE e == Put("imports", c.key, <<>>, IF c.val /\ currDir = "" THEN {"relative"} ELSE {})
  <2>1. InLayer(c, <<e>>) /\ UNCHANGED <<currLayer, subs, vols, args, env>>
    BY <1>5 DEF ConvertCopy
  <2>2. GoodEntry(e)
    BY <1>0, NoToken, PutGood
  <2> HIDE DEF e
  <2> QED BY <1>0, <2>1, <2>2, OneEntry, InLayerKeeps
<1>6. CASE ConvertVolume(c)
  <2> DEFINE e == Put("binds", None, <<Ref("double", VolumeNames[vols'])>>, {})
  <2>1. InLayer(c, <<e>>) /\ UNCHANGED <<currLayer, args, env>> /\ vols' = vols + 1 /\ c.cmd = "volume"
        /\ subs' = Set(subs, VolumeNames[vols'], c.val)
    BY <1>6 DEF ConvertVolume
  <2>2. GoodEntry(e)
    BY <1>0, OneToken, PutGood
  <2>3. IsLines(subs')
    BY <1>0, <2>1, CommandLine, SetLines
  <2>4. IsFile(<<e>>) /\ vols' \in {vols, vols + 1}
    BY <2>1, <2>2, OneEntry
  <2> HIDE DEF e
  <2> QED BY <2>1, <2>3, <2>4, InLayerKeeps
<1>7. CASE ConvertUser(c)
  <2>1. Converting(c) /\ phase' = "convert" /\ UNCHANGED <<output, currLayer, subs, vols, args, env>>
    BY <1>7 DEF ConvertUser, Converting
  <2> QED BY <1>0, <2>1, ArgsKept, EnvKept, OutsideKeeps
<1>8. CASE ConvertWorkdir(c)
  <2> DEFINE e == Put("cd", c.key, <<>>, {})
  <2>1. InLayer(c, <<e>>) /\ UNCHANGED <<currLayer, subs, vols, args, env>>
    BY <1>8 DEF ConvertWorkdir
  <2>2. GoodEntry(e)
    BY <1>0, NoToken, PutGood
  <2> HIDE DEF e
  <2> QED BY <1>0, <2>1, <2>2, OneEntry, InLayerKeeps
<1>9. CASE ConvertConfig(c)
  <2> DEFINE e == Put("config", c.key, c.val, {})
  <2>1. InLayer(c, <<e>>) /\ UNCHANGED <<currLayer, subs, vols, args, env>> /\ c.cmd = "config"
    BY <1>9 DEF ConvertConfig
  <2>2. GoodEntry(e)
    BY <1>0, <2>1, CommandLine, PutGood
  <2> HIDE DEF e
  <2> QED BY <1>0, <2>1, <2>2, OneEntry, InLayerKeeps
<1>10. CASE ConvertExpose(c)
  <2>1. Converting(c) /\ phase' = "convert" /\ UNCHANGED <<output, currLayer, subs, vols, args, env>>
    BY <1>10 DEF ConvertExpose, Converting, convVars
  <2> QED BY <1>0, <2>1, ArgsKept, EnvKept, OutsideKeeps
<1>11. CASE ConvertUnknown(c)
  <2>1. Converting(c) /\ phase' = "error" /\ UNCHANGED <<output, currLayer, subs, vols, args, env>>
    BY <1>11 DEF ConvertUnknown, convVars
  <2> QED BY <1>0, <2>1, ArgsKept, EnvKept, OutsideKeeps
<1> QED BY <1>1, <1>2, <1>3, <1>4, <1>5, <1>6, <1>7, <1>8, <1>9, <1>10, <1>11 DEF convertCommand

-----------------------------------------------------------------------------
(* The list of substitutions *)

LEMMA OneMore ==
  ASSUME NEW S, NEW o \in Seq(S), NEW x \in S
  PROVE  /\ o \o <<x>> \in Seq(S) /\ Len(o \o <<x>>) = Len(o) + 1
         /\ DOMAIN (o \o <<x>>) = 1..(Len(o) + 1)
         /\ \A i \in 1..Len(o) : (o \o <<x>>)[i] = o[i]
         /\ (o \o <<x>>)[Len(o) + 1] = x
<1>1. o \o <<x>> = Append(o, x)
  OBVIOUS
<1>2. /\ Append(o, x) \in Seq(S) /\ Len(Append(o, x)) = Len(o) + 1
      /\ DOMAIN Append(o, x) = 1..(Len(o) + 1)
      /\ \A i \in 1..Len(o) : Append(o, x)[i] = o[i]
      /\ Append(o, x)[Len(o) + 1] = x
  OBVIOUS
<1> QED BY ONLY <1>1, <1>2

LEMMA ListIs ==
  ASSUME NEW cli, cli \in Seq(ToSet(cli)), NEW A, NEW B
  PROVE  /\ Len(cli) \in Nat /\ DOMAIN cli = 1..Len(cli)
         /\ DOMAIN (OneByOne(cli) \o <<A>>) = 1..(Len(cli) + 1)
         /\ \A i \in 1..Len(cli) : (OneByOne(cli) \o <<A>>)[i] = {cli[i]}
         /\ (OneByOne(cli) \o <<A>>)[Len(cli) + 1] = A
         /\ DOMAIN ((OneByOne(cli) \o <<A>>) \o <<B>>) = 1..(Len(cli) + 2)
         /\ \A i \in 1..Len(cli) : ((OneByOne(cli) \o <<A>>) \o <<B>>)[i] = {cli[i]}
         /\ ((OneByOne(cli) \o <<A>>) \o <<B>>)[Len(cli) + 1] = A
         /\ ((OneByOne(cli) \o <<A>>) \o <<B>>)[Len(cli) + 2] = B
<1> DEFINE S == {{x} : x \in ToSet(cli)} \union {A, B}
           o == OneByOne(cli)
           n == Len(cli)
<1>1. n \in Nat /\ DOMAIN cli = 1..n
  OBVIOUS
<1>2. DOMAIN o = 1..n /\ o = [i \in 1..n |-> o[i]] /\ \A i \in 1..n : o[i] = {cli[i]} /\ o[i] \in S
  BY <1>1 DEF OneByOne, ToSet
<1>3. A \in S /\ B \in S
  OBVIOUS
<1> HIDE DEF S, n, o
<1>5. o \in Seq(S) /\ Len(o) = n
  BY <1>1, <1>2
<1> DEFINE oa == o \o <<A>>
<1>6. /\ oa \in Seq(S) /\ Len(oa) = n + 1 /\ DOMAIN oa = 1..(n + 1)
      /\ \A i \in 1..n : oa[i] = o[i]
      /\ oa[n + 1] = A
  BY <1>3, <1>5, OneMore
<1> HIDE DEF oa
<1> DEFINE ob == oa \o <<B>>
<1>7. /\ DOMAIN ob = 1..(n + 2)
      /\ \A i \in 1..(n + 1) : ob[i] = oa[i]
      /\ ob[n + 2] = B
  <2>1. (n + 1) + 1 = n + 2
    BY <1>1
  <2>2. /\ DOMAIN ob = 1..(Len(oa) + 1) /\ ob[Len(oa) + 1] = B
        /\ \A i \in 1..Len(oa) : ob[i] = oa[i]
    BY <1>3, <1>6, OneMore
  <2> QED BY <1>6, <2>1, <2>2
<1> HIDE DEF ob
<1>8. (\A i \in 1..n : oa[i] = {cli[i]}) /\ (\A i \in 1..n : ob[i] = {cli[i]}) /\ ob[n + 1] = A
  BY <1>1, <1>2, <1>6, <1>7
<1> QED BY <1>1, <1>6, <1>7, <1>8 DEF oa, ob, o, n

LEMMA OptionIs ==
  ASSUME Converted
  PROVE  opts.cli \in Seq(ToSet(opts.cli)) /\ \A s \in ToSet(opts.cli) : IsLine(s.to)
  BY ConvertAssumption DEF Converted

\* Every substitution of a list has a line to put in.
Substitutions(list) == \A i \in DOMAIN list : \A s \in list[i] : IsLine(s.to)

LEMMA SubParts == ASSUME NEW v, NEW l  PROVE Sub(v, l).key = v /\ Sub(v, l).to = l
  BY DEF Sub

LEMMA ValuesAre ==
  ASSUME NEW f, IsLines(f)
  PROVE  /\ \A s \in Values(f) : IsLine(s.to) /\ s.key \in DOMAIN f /\ s = Sub(s.key, f[s.key])
         /\ \A v \in DOMAIN f : Sub(v, f[v]) \in Values(f)
  BY SubParts DEF Values, IsLines

\* The list of a builder: every name that has a value is in it.
LEMMA BuilderList ==
  ASSUME Converted
  PROVE  LET list == BuilderSubs(opts.cli, subs)
             n == Len(opts.cli)
         IN /\ DOMAIN list = 1..(n + 1)
            /\ \A i \in 1..n : list[i] = {opts.cli[i]}
            /\ list[n + 1] = {Sub(v, subs[v]) : v \in DOMAIN subs \ Keys(opts.cli)}
            /\ Substitutions(list)
            /\ \A v \in Given : \E i \in DOMAIN list : \E s \in list[i] : s.key = v
<1> DEFINE A == {s \in Values(subs) : s.key \notin Keys(opts.cli)}
           cli == opts.cli
           n == Len(cli)
           list == BuilderSubs(cli, subs)
<1>0. list = OneByOne(cli) \o <<A>>
  BY DEF BuilderSubs
<1>1. cli \in Seq(ToSet(cli)) /\ \A s \in ToSet(cli) : IsLine(s.to)
  BY OptionIs
<1>2. IsLines(subs)
  BY DEF Converted
<1>3. A = {Sub(v, subs[v]) : v \in DOMAIN subs \ Keys(cli)}
  BY SubParts DEF Values
<1>4. \A s \in A : IsLine(s.to)
  BY <1>2, ValuesAre
<1> HIDE DEF A, list, cli
<1>5. n \in Nat /\ DOMAIN cli = 1..n /\ DOMAIN list = 1..(n + 1) /\ (\A i \in 1..n : list[i] = {cli[i]}) /\ list[n + 1] = A
  BY <1>0, <1>1, ListIs
<1> HIDE DEF n
<1>6. \A i \in 1..(n + 1) : i \in 1..n \/ i = n + 1
  BY <1>5
<1>7. Substitutions(list)
  <2>1. \A i \in 1..n : cli[i] \in ToSet(cli)
    BY <1>5 DEF ToSet
  <2> QED BY <1>1, <1>4, <1>5, <1>6, <2>1 DEF Substitutions
<1>8. \A i \in 1..n : i \in DOMAIN list
  BY <1>5
<1>9. n + 1 \in DOMAIN list
  BY <1>5
<1>10. ASSUME NEW v \in Given  PROVE \E i \in DOMAIN list : \E s \in list[i] : s.key = v
  <2>1. CASE v \in Keys(cli)
    <3>1. PICK i \in 1..n : cli[i].key = v
      BY <1>5, <2>1 DEF Keys
    <3> QED BY <1>5, <1>8, <3>1
  <2>2. CASE v \notin Keys(cli)
    <3>1. v \in DOMAIN subs
      BY <2>2 DEF Given, cli
    <3>2. Sub(v, subs[v]) \in A /\ Sub(v, subs[v]).key = v
      BY <1>3, <2>2, <3>1, SubParts
    <3> QED BY <1>5, <1>9, <3>2
  <2> QED BY <2>1, <2>2
<1> QED BY <1>3, <1>5, <1>7, <1>10 DEF list, cli, n

\* The list of a publisher, with the substitution file and without.
LEMMA PublisherList ==
  ASSUME Converted, NEW names
  PROVE  LET n == Len(opts.cli)
             list == PublishList(TRUE, names)
         IN /\ Substitutions(PublishList(TRUE, names)) /\ Substitutions(PublishList(FALSE, names))
            /\ DOMAIN list = 1..(n + 2)
            /\ \A i \in 1..n : list[i] = {opts.cli[i]}
            /\ list[n + 1] = {Sub(v, subs[v]) : v \in DOMAIN subs}
            /\ list[n + 2] = {Sub(v, <<Text("dummy")>>) : v \in names}
<1> DEFINE A == Values(subs)
           B == {Sub(v, <<Text("dummy")>>) : v \in names}
           cli == opts.cli
           n == Len(cli)
           list == PublishList(TRUE, names)
           short == PublishList(FALSE, names)
<1>0. list = (OneByOne(cli) \o <<A>>) \o <<B>> /\ short = OneByOne(cli) \o <<B>>
  BY DEF PublishList, PublisherSubs
<1>1. cli \in Seq(ToSet(cli)) /\ \A s \in ToSet(cli) : IsLine(s.to)
  BY OptionIs
<1>2. IsLines(subs)
  BY DEF Converted
<1>3. A = {Sub(v, subs[v]) : v \in DOMAIN subs}
  BY DEF Values
<1>4. \A s \in A : IsLine(s.to)
  BY <1>2, ValuesAre
<1>5. \A s \in B : IsLine(s.to)
  <2> DEFINE d == <<Text("dummy")>>
  <2>1. IsLine(d)
    BY OneToken
  <2> HIDE DEF d
  <2>2. \A v : IsLine(Sub(v, d).to)
    BY <2>1, SubParts
  <2> QED BY <2>2 DEF d
<1> HIDE DEF A, B, list, short, cli
<1>6. /\ n \in Nat /\ DOMAIN cli = 1..n
      /\ DOMAIN list = 1..(n + 2) /\ \A i \in 1..n : list[i] = {cli[i]}
      /\ list[n + 1] = A /\ list[n + 2] = B
  <2> DEFINE x == (OneByOne(cli) \o <<A>>) \o <<B>>
  <2>1. /\ n \in Nat /\ DOMAIN cli = 1..n
        /\ DOMAIN x = 1..(n + 2) /\ \A i \in 1..n : x[i] = {cli[i]}
        /\ x[n + 1] = A /\ x[n + 2] = B
    BY <1>1, ListIs
  <2> QED BY <1>0, <2>1
<1>7. DOMAIN short = 1..(n + 1) /\ (\A i \in 1..n : short[i] = {cli[i]}) /\ short[n + 1] = B
  BY <1>0, <1>1, ListIs
<1> HIDE DEF n
<1>8. (\A i \in 1..(n + 1) : i \in 1..n \/ i = n + 1) /\ (\A i \in 1..(n + 2) : i \in 1..n \/ i = n + 1 \/ i = n + 2)
  BY <1>6
<1>9. \A i \in 1..n : cli[i] \in ToSet(cli)
  BY <1>6 DEF ToSet
<1>10. Substitutions(list)
  BY <1>1, <1>4, <1>5, <1>6, <1>8, <1>9 DEF Substitutions
<1>11. Substitutions(short)
  BY <1>1, <1>5, <1>7, <1>8, <1>9 DEF Substitutions
<1> QED BY <1>3, <1>6, <1>10, <1>11 DEF list, short, cli, n, B

-----------------------------------------------------------------------------
(* Reading a stackerfile *)

\* The names that wait for their turn.
Waiting == UNION {{s.key : s \in todo[i]} : i \in DOMAIN todo}

\* Substitutions neither add nor take away references in a form that is not
\* replaced, so every name that has had its turn was checked against the file
\* as it was written.
Reading ==
  /\ IsFile(text) /\ Substitutions(todo) /\ bad \in BOOLEAN
  /\ phase \in {"build", "publish"} => Rough(text) = Rough(output)
  /\ phase = "build" =>
       \A v \in Given : bad \/ v \in Waiting \/ ~Unsupported(output, v)
  /\ phase \notin {"publish", "end"} => built = NoFile
  /\ phase # "end" => published = NoFile
  /\ built.status = "ok" => \A v \in Given : ~Unsupported(output, v)
  /\ NoReferenceLeft

ConvInv == Converted /\ Results /\ Reading

LEMMA InitInv == Init => ConvInv
<1> SUFFICES ASSUME Init  PROVE ConvInv
  OBVIOUS
<1>1. IsFile(output) /\ IsLines(subs) /\ phase \in {"convert", "start"}
  <2>1. CASE phase = "convert" /\ output = <<>> /\ subs = Empty
    BY <2>1, NoEntry, EmptyLines
  <2>2. CASE \E h \in Handwritten : phase = "start" /\ output = h.file /\ subs = h.subs
    BY <2>2, ConvertAssumption DEF IsLines
  <2> QED BY <2>1, <2>2 DEF Init
<1>2. Converted
  <2>1. docker \in Seq(Commands) /\ Len(docker) <= MaxCommands /\ vols \in Nat /\ vols <= Len(docker)
    <3>1. docker = <<>> /\ vols = 0 /\ MaxCommands \in Nat
      BY ConvertAssumption DEF Init
    <3>2. <<>> \in Seq(Commands) /\ Len(<<>>) = 0
      OBVIOUS
    <3> QED BY <3>1, <3>2
  <2>2. args \in Seq(NamesOf("arg"))
    <3>1. <<>> \in Seq(NamesOf("arg"))
      OBVIOUS
    <3> QED BY <3>1 DEF Init
  <2>3. DOMAIN env \subseteq NamesOf("env") /\ IsFiniteSet(DOMAIN env) /\ IsLines(env)
    BY EmptyLines, FS_EmptySet DEF Init
  <2>4. IsLine(currLayer)
    BY NoToken DEF Init
  <2>5. phase = "convert" => (currLayer = <<>>) = (output = <<>>)
    BY DEF Init
  <2>6. opts \in Options
    BY DEF Init
  <2> QED BY <1>1, <2>1, <2>2, <2>3, <2>4, <2>5, <2>6 DEF Converted
<1>3. built = NoFile /\ published = NoFile /\ text = <<>> /\ todo = <<>> /\ bad = FALSE
  BY DEF Init
<1>4. Results
  BY <1>3, NoFileOK DEF Results
<1>5. NoFile.status # "ok"
  BY DEF NoFile
<1>6. Substitutions(<<>>)
  BY DEF Substitutions
<1>7. Reading
  BY <1>1, <1>3, <1>5, <1>6, NoEntry DEF Reading, NoReferenceLeft
<1> QED BY <1>2, <1>4, <1>7 DEF ConvInv

\* While a Dockerfile is converted nothing has been read.
LEMMA NotReading ==
  ASSUME Reading, phase \in {"convert", "start"}, phase' \in {"convert", "panic", "error", "lost", "start"},
         UNCHANGED <<text, todo, bad, built, published>>
  PROVE  Reading'
<1>1. built = NoFile /\ published = NoFile /\ IsFile(text) /\ Substitutions(todo) /\ bad \in BOOLEAN
  BY DEF Reading
<1>2. NoFile.status # "ok" /\ NoFile' = NoFile
  BY DEF NoFile
<1>3. NoReferenceLeft'
  BY <1>1, <1>2 DEF NoReferenceLeft
<1> QED BY <1>1, <1>2, <1>3 DEF Reading

\* Both lists start on the file as it was written.
LEMMA ReadingStarts ==
  ASSUME Converted, Reading, NEW list, StartReading(list), Substitutions(list),
         UNCHANGED <<output, subs, opts>>
  PROVE  /\ IsFile(text') /\ Substitutions(todo') /\ bad' = FALSE /\ Rough(text') = Rough(output')
         /\ todo' = list /\ Given' = Given
<1>1. text' = output /\ todo' = list /\ bad' = FALSE /\ output' = output /\ IsFile(output)
  BY DEF StartReading, Converted
<1>2. Given' = Given
  BY DEF Given
<1> QED BY <1>1, <1>2

LEMMA SubstituteKeeps ==
  ASSUME Converted, Reading, Substitute
  PROVE  Reading'
<1>1. PICK i \in Left : \E s \in todo[i] :
        /\ todo' = [todo EXCEPT ![i] = @ \ {s}] /\ text' = Replaced(text, s)
        /\ bad' = (bad \/ Unsupported(text, s.key))
  BY DEF Substitute
<1>2. PICK s \in todo[i] :
        /\ todo' = [todo EXCEPT ![i] = @ \ {s}] /\ text' = Replaced(text, s)
        /\ bad' = (bad \/ Unsupported(text, s.key))
  BY <1>1
<1>3. i \in DOMAIN todo
  BY DEF Left
<1>4. phase \in {"build", "publish"} /\ UNCHANGED <<phase, output, subs, opts, built, published>>
  BY DEF Substitute, convVars
<1>5. IsFile(text) /\ Substitutions(todo) /\ Rough(text) = Rough(output) /\ IsLine(s.to)
  BY <1>3, <1>4 DEF Reading, Substitutions
<1>6. IsFile(text') /\ Rough(text') = Rough(text)
  BY <1>2, <1>5, ReplacedContent
<1>7. DOMAIN todo' = DOMAIN todo /\ \A j \in DOMAIN todo : todo'[j] = IF j = i THEN todo[j] \ {s} ELSE todo[j]
  BY <1>2, <1>3
<1>8. Substitutions(todo')
  BY <1>5, <1>7 DEF Substitutions
<1>9. Unsupported(text, s.key) <=> Unsupported(output, s.key)
  BY <1>5, UnsupportedRough
<1>10. \A v \in Waiting : v = s.key \/ v \in Waiting'
  BY <1>7 DEF Waiting
<1>11. Given' = Given
  BY <1>4 DEF Given
<1>12. ASSUME phase = "build", NEW v \in Given  PROVE bad' \/ v \in Waiting' \/ ~Unsupported(output, v)
  <2>1. bad \/ v \in Waiting \/ ~Unsupported(output, v)
    BY <1>12 DEF Reading
  <2> QED BY <1>2, <1>9, <1>10, <2>1
<1>13. bad' \in BOOLEAN
  BY <1>2 DEF Reading, Unsupported
<1>14. NoReferenceLeft'
  BY <1>4, <1>11 DEF Reading, NoReferenceLeft
<1>15. \A v : Unsupported(output', v) <=> Unsupported(output, v)
  BY <1>4
<1> QED BY <1>4, <1>5, <1>6, <1>8, <1>11, <1>12, <1>13, <1>14, <1>15 DEF Reading

LEMMA ParsedContent ==
  ASSUME NEW file, IsFile(file)  PROVE Content(Parsed(file)) = Content(file)
<1>1. DOMAIN Parsed(file) = DOMAIN file
  BY DEF Parsed
<1>2. ASSUME NEW i \in DOMAIN file
      PROVE  Parsed(file)[i].layer = file[i].layer /\ Parsed(file)[i].val = file[i].val
  <2> DEFINE e == file[i]
             d == [e EXCEPT !.field = "imports", !.flags = @ \union {"legacy"}]
  <2>1. Parsed(file)[i] = IF e.field = "import" THEN d ELSE e
    BY DEF Parsed
  <2>2. IsEntry(e)
    BY FileIs
  <2> HIDE DEF e
  <2>3. DOMAIN e = {"layer", "field", "key", "val", "flags"}
    BY <2>2 DEF IsEntry, Entry
  <2>4. d.layer = e.layer /\ d.val = e.val
    BY <2>3
  <2> HIDE DEF d
  <2>5. Parsed(file)[i].layer = e.layer /\ Parsed(file)[i].val = e.val
    BY <2>1, <2>4
  <2> QED BY <2>5 DEF e
<1> QED BY <1>1, <1>2 DEF Content

\* What a file that was read says about the text it was read from.
LEMMA ReadOK ==
  ASSUME NEW file, IsFile(file), NEW b \in BOOLEAN, NEW h, ReadResult(file, b, h).status = "ok"
  PROVE  /\ ~b /\ Missing(file) = {} /\ ~ParseError(WithDefaults(file), h)
         /\ ReadResult(file, b, h) = [status |-> "ok", file |-> Parsed(WithDefaults(file)), missing |-> {}]
         /\ \A t \in Content(ReadResult(file, b, h).file) :
              t.form # "double" /\ (t.form \in {"bare", "brace"} => t \in Rough(file))
<1>1. ~b
  BY DEF ReadResult
<1>2. Missing(file) = {}
  BY <1>1 DEF ReadResult
<1>3. ~ParseError(WithDefaults(file), h)
  BY <1>1, <1>2 DEF ReadResult
<1>4. ReadResult(file, b, h) = [status |-> "ok", file |-> Parsed(WithDefaults(file)), missing |-> {}]
  BY <1>1, <1>2, <1>3 DEF ReadResult
<1>5. /\ IsFile(WithDefaults(file))
      /\ \A t \in Content(WithDefaults(file)) :
           t.form = "text" \/ (t \in Content(file) /\ t.form # "double")
  BY DefaultsContent
<1>6. Content(ReadResult(file, b, h).file) = Content(WithDefaults(file))
  BY <1>4, <1>5, ParsedContent
<1>7. \A t \in Content(ReadResult(file, b, h).file) :
        t.form # "double" /\ (t.form \in {"bare", "brace"} => t \in Rough(file))
  BY <1>5, <1>6 DEF Rough
<1> QED BY <1>1, <1>2, <1>3, <1>4, <1>7

\* Nothing is left to do.
LEMMA NothingWaits == Left = {} => Waiting = {}
  BY DEF Left, Waiting

LEMMA BuildReadsKeeps ==
  ASSUME Converted, Results, Reading, BuildReads
  PROVE  Reading' /\ Results' /\ built' = ReadResult(text, bad, opts.hash)
<1>1. /\ phase = "build" /\ Left = {} /\ built' = ReadResult(text, bad, opts.hash) /\ phase' = "publish"
      /\ reread' \in BOOLEAN /\ StartReading(PublishList(reread', {}))
      /\ UNCHANGED <<output, subs, opts, published>>
  BY DEF BuildReads, convVars
<1>2. Results'
  BY <1>1, ReadResultOK DEF Results, ResultOK
<1>3. IsFile(text) /\ bad \in BOOLEAN /\ Rough(text) = Rough(output) /\ published = NoFile
  BY <1>1 DEF Reading
<1>4. ASSUME built'.status = "ok", NEW v \in Given  PROVE ~Unsupported(output, v)
  <2>1. ~bad
    BY <1>1, <1>3, <1>4, ReadOK
  <2>2. v \notin Waiting
    BY <1>1, NothingWaits
  <2> QED BY <1>1, <2>1, <2>2 DEF Reading
<1>5. Substitutions(PublishList(reread', {}))
  <2>1. reread' = TRUE \/ reread' = FALSE
    BY <1>1
  <2>2. Substitutions(PublishList(TRUE, {})) /\ Substitutions(PublishList(FALSE, {}))
    BY PublisherList
  <2> QED BY <2>1, <2>2
<1>6. /\ IsFile(text') /\ Substitutions(todo') /\ bad' = FALSE /\ Rough(text') = Rough(output')
      /\ Given' = Given
  <2> DEFINE list == PublishList(reread', {})
  <2>1. StartReading(list) /\ Substitutions(list)
    BY <1>1, <1>5
  <2> HIDE DEF list
  <2> QED BY <1>1, <2>1, ReadingStarts
<1>7. ASSUME built'.status = "ok", NEW tok \in Content(built'.file)
      PROVE  /\ tok.form # "double"
             /\ \A v \in Given : ~IsBare(tok, v) /\ ~(tok.form = "brace" /\ tok.name = v)
  <2>1. tok.form # "double" /\ (tok.form \in {"bare", "brace"} => tok \in Rough(output))
    BY <1>1, <1>3, <1>7, ReadOK
  <2>2. ASSUME NEW v \in Given, IsBare(tok, v) \/ (tok.form = "brace" /\ tok.name = v)  PROVE FALSE
    <3>1. tok \in Content(output)
      BY <2>1, <2>2 DEF IsBare, Rough
    <3>2. Unsupported(output, v)
      BY <2>2, <3>1 DEF Unsupported
    <3> QED BY <1>4, <1>7, <3>2
  <2> QED BY <2>1, <2>2
<1>8. NoReferenceLeft'
  BY <1>6, <1>7 DEF NoReferenceLeft
<1>9. \A v : Unsupported(output', v) <=> Unsupported(output, v)
  BY <1>1
<1>10. Reading'
  <2>1. built'.status = "ok" => \A v \in Given' : ~Unsupported(output', v)
    BY <1>4, <1>6, <1>9
  <2> QED BY <1>1, <1>3, <1>6, <1>8, <2>1 DEF Reading, NoFile
<1> QED BY <1>1, <1>2, <1>10

\* publish goes on with what it reads; what was built stays.
LEMMA PublishKeeps ==
  ASSUME Converted, Results, Reading, PublishReads
  PROVE  Reading' /\ Results'
<1>1. phase = "publish" /\ UNCHANGED <<output, subs, opts, built, reread>>
  BY DEF PublishReads, convVars
<1>2. Given' = Given /\ \A v : Unsupported(output', v) <=> Unsupported(output, v)
  BY <1>1 DEF Given
<1>3. NoReferenceLeft'
  BY <1>1, <1>2 DEF Reading, NoReferenceLeft
<1>4. CASE \E v : PublishRetry(v) /\ UNCHANGED <<phase, published>>
  <2>1. PICK v : PublishRetry(v) /\ UNCHANGED <<phase, published>>
    BY <1>4
  <2> DEFINE list == PublishList(reread, dummies')
  <2>2. StartReading(list)
    BY <2>1 DEF PublishRetry
  <2>3. Substitutions(list)
    <3>1. Substitutions(PublishList(TRUE, dummies')) /\ Substitutions(PublishList(FALSE, dummies'))
      BY PublisherList
    <3>2. PublishList(reread, dummies') \in {PublishList(TRUE, dummies'), PublishList(FALSE, dummies')}
      BY DEF PublishList
    <3> QED BY <3>1, <3>2
  <2> HIDE DEF list
  <2>4. /\ IsFile(text') /\ Substitutions(todo') /\ bad' = FALSE /\ Rough(text') = Rough(output')
    BY <1>1, <2>2, <2>3, ReadingStarts
  <2>5. Results'
    BY <1>1, <2>1 DEF Results, ResultOK
  <2>6. published' = NoFile' /\ phase' = "publish"
    BY <1>1, <2>1 DEF Reading, NoFile
  <2>7. built'.status = "ok" => \A u \in Given' : ~Unsupported(output', u)
    BY <1>1, <1>2 DEF Reading
  <2> QED BY <1>3, <2>4, <2>5, <2>6, <2>7 DEF Reading
<1>5. CASE LET r == ReadResult(text, bad, FALSE)
           IN r.status # "missing" /\ published' = r /\ phase' = "end" /\ UNCHANGED <<text, todo, bad, dummies>>
  <2>1. Results'
    BY <1>1, <1>5, ReadResultOK DEF Results, ResultOK
  <2>2. built'.status = "ok" => \A u \in Given' : ~Unsupported(output', u)
    BY <1>1, <1>2 DEF Reading
  <2>3. IsFile(text') /\ Substitutions(todo') /\ bad' \in BOOLEAN /\ phase' = "end"
    BY <1>5 DEF Reading
  <2> QED BY <1>3, <2>1, <2>2, <2>3 DEF Reading
<1> QED BY <1>4, <1>5 DEF PublishReads

LEMMA NextInv == ConvInv /\ [Next]_vars => ConvInv'
<1> SUFFICES ASSUME ConvInv, [Next]_vars  PROVE ConvInv'
  OBVIOUS
<1>0. Converted /\ Results /\ Reading
  BY DEF ConvInv
<1>1. CASE \E c \in Commands : convertCommand(c)
  <2>1. PICK c \in Commands : convertCommand(c)
    BY <1>1
  <2>2. Converting(c) /\ phase' \in {"convert", "panic", "error"}
    BY <2>1 DEF convertCommand, ConvertFrom, ConvertRun, ConvertEnv, ConvertArg, ConvertCopy, ConvertVolume,
         ConvertUser, ConvertWorkdir, ConvertConfig, ConvertExpose, ConvertUnknown, InLayer, Converting
  <2>3. phase = "convert" /\ UNCHANGED <<text, todo, bad, built, published>>
    BY <2>2 DEF Converting, readVars
  <2>4. Reading'
    BY <1>0, <2>2, <2>3, NotReading
  <2>5. Results'
    BY <1>0, <2>3 DEF Results, ResultOK
  <2> QED BY <1>0, <2>1, <2>4, <2>5, ConvertKeeps DEF ConvInv
<1>2. ASSUME UNCHANGED <<docker, convVars, opts>>,
             phase' \in {"panic", "error", "lost", "start", "build", "publish", "end"} \/ phase' = phase
      PROVE  Converted'
  BY <1>0, <1>2 DEF Converted, convVars, NamesOf, At
<1>3. CASE WriteFiles
  <2>1. Converted'
    BY <1>2, <1>3 DEF WriteFiles, readVars
  <2>2. phase = "convert" /\ phase' \in {"start", "lost", "error"} /\ UNCHANGED <<text, todo, bad, built, published>>
    BY <1>3 DEF WriteFiles, readVars
  <2> QED BY <1>0, <2>1, <2>2, NotReading DEF ConvInv, Results, ResultOK
<1>4. CASE BuildStarts
  <2>1. Converted'
    BY <1>2, <1>4 DEF BuildStarts
  <2> DEFINE list == BuilderSubs(opts.cli, subs)
  <2>2. /\ phase = "start" /\ phase' = "build" /\ StartReading(list)
        /\ UNCHANGED <<output, subs, opts, built, published>>
    BY <1>4 DEF BuildStarts, convVars
  <2>3. Substitutions(list) /\ \A v \in Given : \E i \in DOMAIN list : \E s \in list[i] : s.key = v
    BY <1>0, BuilderList
  <2> HIDE DEF list
  <2>4. /\ IsFile(text') /\ Substitutions(todo') /\ bad' = FALSE /\ Rough(text') = Rough(output')
        /\ todo' = list /\ Given' = Given
    BY <1>0, <2>2, <2>3, ReadingStarts
  <2>5. \A v \in Given' : v \in Waiting'
    BY <2>3, <2>4 DEF Waiting
  <2>6. built' = NoFile' /\ published' = NoFile' /\ built'.status # "ok"
    BY <1>0, <2>2 DEF Reading, NoFile
  <2>7. Reading'
    BY <2>2, <2>4, <2>5, <2>6 DEF Reading, NoReferenceLeft
  <2> QED BY <1>0, <2>1, <2>2, <2>7 DEF ConvInv, Results, ResultOK
<1>5. CASE Substitute
  <2>1. Converted'
    BY <1>2, <1>5 DEF Substitute
  <2>2. Results'
    BY <1>0, <1>5 DEF Substitute, Results, ResultOK
  <2> QED BY <1>0, <1>5, <2>1, <2>2, SubstituteKeeps DEF ConvInv
<1>6. CASE BuildReads
  <2>1. Converted'
    BY <1>2, <1>6 DEF BuildReads
  <2> QED BY <1>0, <1>6, <2>1, BuildReadsKeeps DEF ConvInv
<1>7. CASE PublishReads
  <2>1. Converted'
    BY <1>2, <1>7 DEF PublishReads
  <2> QED BY <1>0, <1>7, <2>1, PublishKeeps DEF ConvInv
<1>8. CASE UNCHANGED vars
  <2>1. UNCHANGED <<phase, docker, output, currLayer, subs, vols, args, env, opts, text, todo, bad, built, published>>
    BY <1>8 DEF vars, convVars, readVars
  <2>2. Converted'
    BY <1>2, <1>8 DEF vars, readVars
  <2>3. Results'
    BY <1>0, <2>1 DEF Results, ResultOK
  <2>4. Given' = Given /\ Waiting' = Waiting /\ NoFile' = NoFile /\ \A v : Unsupported(output', v) <=> Unsupported(output, v)
    BY <2>1 DEF Given, Waiting, NoFile
  <2>5. NoReferenceLeft'
    BY <1>0, <2>1, <2>4 DEF Reading, NoReferenceLeft
  <2>6. Reading'
    BY <1>0, <2>1, <2>4, <2>5 DEF Reading
  <2> QED BY <2>2, <2>3, <2>6 DEF ConvInv
<1> QED BY <1>1, <1>3, <1>4, <1>5, <1>6, <1>7, <1>8 DEF Next

LEMMA Inv == Spec => []ConvInv
  BY InitInv, NextInv, PTL DEF Spec

\* The stackerfile, the substitutions and the state of convert, build and publish
\* keep their types, for any Dockerfile and any stackerfile written by hand, and
\* publish never ends with a variable that has no value.
THEOREM TypeCorrect == Spec => []TypeOK
<1>1. ConvInv => TypeOK
  BY ResultsTypeOK DEF ConvInv
<1> QED BY <1>1, Inv, PTL

\* NewStackerfile: a file that was read has no reference to a variable with a
\* value left, though each is only looked for when its turn comes and the values
\* put in before may have brought references with them.
THEOREM NoReferenceIsLeft == Spec => []NoReferenceLeft
<1>1. ConvInv => NoReferenceLeft
  BY DEF ConvInv, Reading
<1> QED BY <1>1, Inv, PTL

-----------------------------------------------------------------------------
(* build and publish read the same file *)

\* A value from the command line has no reference with a default to another name
\* of the command line.  Build would leave it to its default where publish takes
\* the value of the substitution file, if that has the name too.
PlainOptions ==
  \A o \in Options : \A s \in ToSet(o.cli) : \A tok \in Tokens(s.to) :
    tok.form = "double" /\ tok.default # None => tok.name \notin Keys(o.cli)

\* The values in the substitution file have no references of the form replaced.
Simple == \A v \in DOMAIN subs : \A tok \in Tokens(subs[v]) : tok.form # "double"

\* The file after none, one, ... of the substitutions of the command line.
IsChain(f, file, cli, n) ==
  f = [k \in 0..n |-> IF k = 0 THEN file ELSE Replaced(f[k - 1], cli[k])]

LEMMA ChainExists ==
  ASSUME NEW file, NEW cli, NEW n \in Nat  PROVE \E f : IsChain(f, file, cli, n)
<1> DEFINE K == {j \in Nat : \E f : IsChain(f, file, cli, j)}
<1>1. 0 \in K
  <2> DEFINE e == [k \in 0..0 |-> file]
  <2>1. IsChain(e, file, cli, 0)
    BY DEF IsChain
  <2> HIDE DEF e
  <2> QED BY <2>1
<1>2. ASSUME NEW j \in K  PROVE j + 1 \in K
  <2>1. PICK f : IsChain(f, file, cli, j)
    BY <1>2
  <2> DEFINE g == [k \in 0..(j + 1) |-> IF k \in 0..j THEN f[k] ELSE Replaced(f[k - 1], cli[k])]
  <2>2. ASSUME NEW k \in 0..(j + 1)  PROVE g[k] = IF k = 0 THEN file ELSE Replaced(g[k - 1], cli[k])
    <3>1. k # 0 => k - 1 \in 0..j /\ g[k - 1] = f[k - 1]
      BY <1>2, <2>2
    <3>2. CASE k \in 0..j
      BY <2>1, <3>1, <3>2 DEF IsChain
    <3>3. CASE k \notin 0..j
      BY <1>2, <3>1, <3>3
    <3> QED BY <3>2, <3>3
  <2>3. IsChain(g, file, cli, j + 1)
    BY <2>2 DEF IsChain
  <2> HIDE DEF g
  <2> QED BY <1>2, <2>3
<1>3. K = Nat
  <2>1. K \in SUBSET Nat
    OBVIOUS
  <2> HIDE DEF K
  <2> QED BY <1>1, <1>2, <2>1, NatSets
<1> QED BY <1>3

Chain(file, cli) == CHOOSE f : IsChain(f, file, cli, Len(cli))
CliText == Chain(output, opts.cli)

LEMMA CliTextIs ==
  ASSUME Converted
  PROVE  /\ CliText[0] = output
         /\ \A k \in 0..Len(opts.cli) : k # 0 => CliText[k] = Replaced(CliText[k - 1], opts.cli[k])
<1> DEFINE n == Len(opts.cli)
<1>1. n \in Nat
  BY OptionIs
<1>2. IsChain(CliText, output, opts.cli, n)
  <2> HIDE DEF n
  <2>1. \E f : IsChain(f, output, opts.cli, n)
    BY <1>1, ChainExists
  <2> QED BY <2>1 DEF CliText, Chain, n
<1> HIDE DEF n
<1>3. 0 \in 0..n
  BY <1>1
<1>4. CliText = [k \in 0..n |-> IF k = 0 THEN output ELSE Replaced(CliText[k - 1], opts.cli[k])]
  BY <1>2 DEF IsChain
<1>5. \A k \in 0..n : CliText[k] = IF k = 0 THEN output ELSE Replaced(CliText[k - 1], opts.cli[k])
  <2> DEFINE f == CliText
  <2>1. f = [k \in 0..n |-> IF k = 0 THEN output ELSE Replaced(f[k - 1], opts.cli[k])]
    BY <1>4
  <2> HIDE DEF f
  <2>2. \A k \in 0..n : f[k] = IF k = 0 THEN output ELSE Replaced(f[k - 1], opts.cli[k])
    BY <2>1
  <2> QED BY <2>2 DEF f
<1> QED BY <1>3, <1>5 DEF n

\* References with a default come from the file, and go when the command line
\* has a value for them.
LEMMA CliTextKeeps ==
  ASSUME Converted, PlainOptions
  PROVE  \A k \in 0..Len(opts.cli) :
           /\ IsFile(CliText[k])
           /\ \A t \in Content(CliText[k]) : t.form = "double" /\ t.default # None =>
                \A j \in 1..k : t.name # opts.cli[j].key \/ t.name \in OddNames
<1> DEFINE n == Len(opts.cli)
           Good(k) == /\ IsFile(CliText[k])
                      /\ \A t \in Content(CliText[k]) : t.form = "double" /\ t.default # None =>
                           \A j \in 1..k : t.name # opts.cli[j].key \/ t.name \in OddNames
           K == {k \in Nat : k <= n => Good(k)}
<1>1. n \in Nat
  BY OptionIs
<1>2. 0 \in K
  <2>1. CliText[0] = output /\ IsFile(output)
    BY CliTextIs DEF Converted
  <2>2. Good(0)
    BY <2>1
  <2> HIDE DEF Good
  <2> QED BY <2>2
<1>3. ASSUME NEW k \in K  PROVE k + 1 \in K
  <2>1. SUFFICES ASSUME k + 1 <= n  PROVE Good(k + 1)
    <3> HIDE DEF Good
    <3> QED BY <1>3
  <2>2. k \in Nat /\ k <= n /\ k + 1 \in 0..n /\ k + 1 # 0 /\ (k + 1) - 1 = k /\ k + 1 \in 1..n
    BY <1>1, <1>3, <2>1
  <2>3. Good(k)
    <3> HIDE DEF Good
    <3> QED BY <1>3, <2>2
  <2> DEFINE s == opts.cli[k + 1]
  <2>4. CliText[k + 1] = Replaced(CliText[k], s)
    BY <2>2, CliTextIs
  <2>5. s \in ToSet(opts.cli)
    BY <2>2, OptionIs DEF ToSet
  <2>6. /\ IsLine(s.to)
        /\ \A tok \in Tokens(s.to) : tok.form = "double" /\ tok.default # None => tok.name \notin Keys(opts.cli)
    BY <2>5, OptionIs DEF PlainOptions, Converted
  <2> HIDE DEF s
  <2>7. IsFile(CliText[k]) /\ \A t \in Content(CliText[k]) : t.form = "double" /\ t.default # None =>
          \A j \in 1..k : t.name # opts.cli[j].key \/ t.name \in OddNames
    BY <2>3
  <2>8. IsFile(CliText[k + 1])
    BY <2>4, <2>6, <2>7, ReplacedContent
  <2>9. ASSUME NEW t \in Content(CliText[k + 1]), t.form = "double", t.default # None, NEW j \in 1..(k + 1)
        PROVE  t.name # opts.cli[j].key \/ t.name \in OddNames
    <3>1. CASE t \in Tokens(s.to)
      <4>1. j \in DOMAIN opts.cli
        BY <1>1, <2>2, OptionIs
      <4> QED BY <2>6, <2>9, <3>1, <4>1 DEF Keys
    <3>2. CASE t \notin Tokens(s.to)
      <4>1. t \in Content(CliText[k]) /\ (t.name # s.key \/ s.key \in OddNames)
        BY <2>4, <2>6, <2>7, <2>9, <3>2, ReplacedContent
      <4>2. CASE j = k + 1
        BY <4>1, <4>2 DEF s
      <4>3. CASE j # k + 1
        <5>1. j \in 1..k
          BY <2>2, <4>3
        <5> QED BY <2>7, <2>9, <4>1, <5>1
      <4> QED BY <4>2, <4>3
    <3> QED BY <3>1, <3>2
  <2> QED BY <2>8, <2>9
<1>4. K = Nat
  <2>1. K \in SUBSET Nat
    OBVIOUS
  <2> HIDE DEF K
  <2> QED BY <1>2, <1>3, <2>1, NatSets
<1>5. ASSUME NEW k \in 0..n  PROVE Good(k)
  <2>1. k \in Nat /\ k <= n
    BY <1>1
  <2> HIDE DEF Good
  <2> QED BY <1>4, <2>1
<1> QED BY <1>5

\* A file in which the names of D have been given their values.
Fill(vals, D, S) ==
  [t \in S |-> IF t.form = "double" /\ t.name \in D /\ t.name \notin OddNames
               THEN Expanded(vals[t.name]) ELSE <<t>>]

Filled(vals, D, file) == MappedFile(Fill(vals, D, Content(file)), file)

\* Lines without references of the form replaced.
IsPlain(vals) == \A v \in DOMAIN vals : \A tok \in Tokens(vals[v]) : tok.form # "double"

LEMMA FilledNone ==
  ASSUME NEW vals, NEW file, IsFile(file)  PROVE Filled(vals, {}, file) = file
<1> DEFINE f == Fill(vals, {}, Content(file))
<1>1. \A t \in Content(file) : f[t] = <<t>>
  BY DEF Fill
<1> HIDE DEF f
<1>2. MappedFile(f, file) = file
  BY <1>1, MappedFileStays
<1> QED BY <1>2 DEF Filled, f

\* The substitutions of the file commute: one more is the same as all at once.
LEMMA FilledOne ==
  ASSUME NEW vals, IsLines(vals), IsPlain(vals), NEW file, IsFile(file),
         NEW D \in SUBSET DOMAIN vals, NEW v \in DOMAIN vals
  PROVE  Replaced(Filled(vals, D, file), Sub(v, vals[v])) = Filled(vals, D \union {v}, file)
<1> DEFINE S == Content(file) \union UNION {Tokens(vals[w]) : w \in DOMAIN vals}
           s == Sub(v, vals[v])
           f == Fill(vals, D, S)
           g == Replacement(s, S)
           h == Fill(vals, D \union {v}, S)
           hit(t) == t.form = "double" /\ t.name \in D /\ t.name \notin OddNames
<1>0. s.key = v /\ s.to = vals[v]
  BY SubParts
<1>1. Content(file) \subseteq S /\ \A w \in DOMAIN vals : Tokens(vals[w]) \subseteq S
  OBVIOUS
<1>2. /\ \A t \in S : f[t] = IF hit(t) THEN Expanded(vals[t.name]) ELSE <<t>>
      /\ \A t \in S : h[t] = IF t.form = "double" /\ t.name \in D \union {v} /\ t.name \notin OddNames
                              THEN Expanded(vals[t.name]) ELSE <<t>>
  BY DEF Fill
<1>3. \A t \in S : g[t] = IF t.form = "double" /\ t.name = v /\ v \notin OddNames
                          THEN Expanded(vals[v]) ELSE <<t>>
  BY <1>0 DEF Replacement
<1> HIDE DEF S, f, g, h, s
<1>4. ASSUME NEW w \in DOMAIN vals
      PROVE  /\ Expanded(vals[w]) \in Seq(S)
             /\ \A t \in Tokens(Expanded(vals[w])) : t \in S /\ t.form # "double"
  <2>1. IsLine(vals[w])
    BY DEF IsLines
  <2>2. IsLine(Expanded(vals[w])) /\ Tokens(Expanded(vals[w])) \subseteq Tokens(vals[w])
    BY <2>1, ExpandedIs
  <2>3. Expanded(vals[w]) \in Seq(S)
    BY <1>1, <2>2, LineType
  <2> QED BY <1>1, <2>2, <2>3 DEF IsPlain
<1>5. ASSUME NEW t \in S  PROVE <<t>> \in Seq(S)
  OBVIOUS
<1>6. Maps(f, S, S)
  BY <1>2, <1>4, <1>5 DEF Maps
<1>7. Maps(g, S, S)
  BY <1>3, <1>4, <1>5 DEF Maps
<1>8. ASSUME NEW t \in S  PROVE h[t] = Mapped(g, f[t])
  <2>1. CASE hit(t)
    <3> DEFINE x == Expanded(vals[t.name])
               T == Tokens(x)
    <3>1. t.name \in DOMAIN vals /\ f[t] = x /\ h[t] = x
      BY <1>2, <2>1
    <3>2. IsLine(x)
      BY <3>1, ExpandedIs DEF IsLines
    <3>3. \A u \in T : g[u] = <<u>>
      BY <1>3, <1>4, <3>1
    <3>4. x \in Seq(T)
      BY <3>2 DEF IsLine
    <3> HIDE DEF x, T
    <3>5. Mapped(g, x) = x
      BY <3>3, <3>4, MappedStays
    <3> QED BY <3>1, <3>5
  <2>2. CASE ~hit(t)
    <3>1. f[t] = <<t>> /\ h[t] = g[t]
      BY <1>2, <1>3, <2>2
    <3>2. g[t] \in Seq(S)
      BY <1>7 DEF Maps
    <3>3. Mapped(g, <<t>>) = g[t]
      BY <3>2, MappedOne
    <3> QED BY <3>1, <3>3
  <2> QED BY <2>1, <2>2
<1>9. MappedFile(g, MappedFile(f, file)) = MappedFile(h, file)
  BY <1>1, <1>6, <1>7, <1>8, MappedFileTwice
<1>10. MappedFile(f, file) = Filled(vals, D, file)
  <2> DEFINE f2 == Fill(vals, D, Content(file))
  <2>1. \A t \in Content(file) : f[t] = f2[t]
    BY <1>1, <1>2 DEF Fill
  <2> HIDE DEF f2
  <2>2. MappedFile(f, file) = MappedFile(f2, file)
    BY <2>1, MappedFileSame
  <2> QED BY <2>2 DEF Filled, f2
<1>11. MappedFile(h, file) = Filled(vals, D \union {v}, file)
  <2> DEFINE h2 == Fill(vals, D \union {v}, Content(file))
  <2>1. \A t \in Content(file) : h[t] = h2[t]
    BY <1>1, <1>2 DEF Fill
  <2> HIDE DEF h2
  <2>2. MappedFile(h, file) = MappedFile(h2, file)
    BY <2>1, MappedFileSame
  <2> QED BY <2>2 DEF Filled, h2
<1>12. IsFile(MappedFile(f, file)) /\ Content(MappedFile(f, file)) \subseteq S
  <2>1. Maps(f, Content(file), S)
    BY <1>1, <1>6 DEF Maps
  <2>2. /\ IsFile(MappedFile(f, file))
        /\ Content(MappedFile(f, file)) = UNION {Tokens(f[t]) : t \in Content(file)}
    BY <2>1, MappedFileIs
  <2>3. \A t \in Content(file) : Tokens(f[t]) \subseteq S
    BY <2>1, TokensType DEF Maps
  <2> QED BY <2>2, <2>3
<1>13. Replaced(MappedFile(f, file), s) = MappedFile(g, MappedFile(f, file))
  BY <1>12, ReplacedIs DEF g
<1> QED BY <1>9, <1>10, <1>11, <1>13 DEF s

\* The k-th substitution of the command line comes next, or those of the file are
\* being made.
Underway(D, list, txt, chain, cli, vals) ==
  /\ DOMAIN list \in {1..(Len(cli) + 1), 1..(Len(cli) + 2)}
  /\ \A i \in DOMAIN list : i = Len(cli) + 2 => list[i] = {}
  /\ list[Len(cli) + 1] \subseteq {Sub(v, vals[v]) : v \in D}
  /\ \E k \in 0..Len(cli) :
       /\ \A i \in 1..Len(cli) : list[i] = IF i <= k THEN {} ELSE {cli[i]}
       /\ k < Len(cli) => list[Len(cli) + 1] = {Sub(v, vals[v]) : v \in D}
       /\ txt = Filled(vals, {v \in D : Sub(v, vals[v]) \notin list[Len(cli) + 1]}, chain[k])

\* chain is the files after the substitutions of the command line.
ChainOf(chain, cli) ==
  /\ Len(cli) \in Nat /\ DOMAIN cli = 1..Len(cli)
  /\ \A k \in 0..Len(cli) : IsFile(chain[k])
  /\ \A k \in 1..Len(cli) : chain[k] = Replaced(chain[k - 1], cli[k])

LEMMA UnderwayStarts ==
  ASSUME NEW D, NEW list, NEW chain, NEW cli, NEW vals, ChainOf(chain, cli),
         DOMAIN list \in {1..(Len(cli) + 1), 1..(Len(cli) + 2)},
         \A i \in 1..Len(cli) : list[i] = {cli[i]},
         list[Len(cli) + 1] = {Sub(v, vals[v]) : v \in D},
         \A i \in DOMAIN list : i = Len(cli) + 2 => list[i] = {}
  PROVE  Underway(D, list, chain[0], chain, cli, vals)
<1>1. 0 \in 0..Len(cli) /\ IsFile(chain[0]) /\ Len(cli) \in Nat
  BY DEF ChainOf
<1>2. {v \in D : Sub(v, vals[v]) \notin list[Len(cli) + 1]} = {}
  OBVIOUS
<1>3. chain[0] = Filled(vals, {v \in D : Sub(v, vals[v]) \notin list[Len(cli) + 1]}, chain[0])
  BY <1>1, <1>2, FilledNone
<1>4. ASSUME NEW i \in 1..Len(cli)  PROVE list[i] = IF i <= 0 THEN {} ELSE {cli[i]}
  <2>1. ~(i <= 0)
    BY <1>1
  <2> QED BY <2>1
<1> QED BY <1>1, <1>3, <1>4 DEF Underway

LEMMA UnderwayEnds ==
  ASSUME NEW D, NEW list, NEW txt, NEW chain, NEW cli, NEW vals, ChainOf(chain, cli),
         Underway(D, list, txt, chain, cli, vals), \A i \in DOMAIN list : list[i] = {}
  PROVE  txt = Filled(vals, D, chain[Len(cli)])
<1> DEFINE n == Len(cli)
<1>1. n \in Nat
  BY DEF ChainOf
<1>2. PICK k \in 0..n :
        /\ \A i \in 1..n : list[i] = IF i <= k THEN {} ELSE {cli[i]}
        /\ txt = Filled(vals, {v \in D : Sub(v, vals[v]) \notin list[n + 1]}, chain[k])
  BY DEF Underway
<1>3. DOMAIN list \in {1..(n + 1), 1..(n + 2)}
  BY DEF Underway
<1> HIDE DEF n
<1>4. n + 1 \in DOMAIN list /\ \A i \in 1..n : i \in DOMAIN list
  BY <1>1, <1>3
<1>5. k = n
  <2>1. SUFFICES ASSUME k # n  PROVE FALSE
    OBVIOUS
  <2>2. k + 1 \in 1..n /\ ~(k + 1 <= k)
    BY <1>1, <2>1
  <2>3. list[k + 1] = {cli[k + 1]}
    BY <1>2, <2>2
  <2> QED BY <1>4, <2>2, <2>3
<1>6. {v \in D : Sub(v, vals[v]) \notin list[n + 1]} = D
  BY <1>4
<1> QED BY <1>2, <1>5, <1>6 DEF n

\* The first substitution of what is left of a list is taken out.
Taken(list, i, s, next) ==
  /\ i \in DOMAIN list /\ s \in list[i] /\ \A j \in DOMAIN list : list[j] # {} => i <= j
  /\ next = [list EXCEPT ![i] = @ \ {s}]

\* One substitution is one step along the chain, or one more name of the file.
LEMMA UnderwayStep ==
  ASSUME NEW D, NEW list, NEW txt, NEW chain, NEW cli, NEW vals, ChainOf(chain, cli),
         Underway(D, list, txt, chain, cli, vals), IsLines(vals), IsPlain(vals),
         D \subseteq DOMAIN vals,
         NEW i, NEW s, NEW next, Taken(list, i, s, next)
  PROVE  /\ Underway(D, next, Replaced(txt, s), chain, cli, vals)
         /\ s.key \in Keys(cli) \union D
<1>0. /\ i \in DOMAIN list /\ s \in list[i] /\ \A j \in DOMAIN list : list[j] # {} => i <= j
      /\ next = [list EXCEPT ![i] = @ \ {s}]
  BY DEF Taken
<1> DEFINE n == Len(cli)
           M == {Sub(v, vals[v]) : v \in D}
           done(l) == {v \in D : Sub(v, vals[v]) \notin l[n + 1]}
           At1(l, k, t) ==
             /\ \A j \in 1..n : l[j] = IF j <= k THEN {} ELSE {cli[j]}
             /\ k < n => l[n + 1] = M
             /\ t = Filled(vals, done(l), chain[k])
<1>1. n \in Nat /\ (\A k \in 0..n : IsFile(chain[k])) /\ \A k \in 1..n : chain[k] = Replaced(chain[k - 1], cli[k])
  BY DEF ChainOf
<1>2. /\ DOMAIN list \in {1..(n + 1), 1..(n + 2)}
      /\ \A j \in DOMAIN list : j = n + 2 => list[j] = {}
      /\ list[n + 1] \subseteq M
      /\ \E k \in 0..n : At1(list, k, txt)
  BY DEF Underway
<1>3. PICK k \in 0..n : At1(list, k, txt)
  BY <1>2
<1>4. /\ DOMAIN next = DOMAIN list
      /\ \A j \in DOMAIN list : next[j] = IF j = i THEN list[i] \ {s} ELSE list[j]
  BY <1>0
<1>5. ASSUME next[n + 1] \subseteq M, NEW m \in 0..n, At1(next, m, Replaced(txt, s))
      PROVE  Underway(D, next, Replaced(txt, s), chain, cli, vals)
  <2>1. \A j \in DOMAIN next : j = n + 2 => next[j] = {}
    BY <1>2, <1>4
  <2> QED BY <1>2, <1>4, <1>5, <2>1 DEF Underway
<1>6. \A v \in D : Sub(v, vals[v]).key = v /\ Sub(v, vals[v]).to = vals[v]
  BY SubParts
<1>7. n + 1 \in DOMAIN list /\ \A j \in 1..n : j \in DOMAIN list
  BY <1>1, <1>2
<1> HIDE DEF n, M
<1>8. CASE k < n
  <2>1. k + 1 \in 1..n /\ ~(k + 1 <= k) /\ k + 1 \in DOMAIN list /\ k + 1 # n + 1 /\ k + 1 \in 0..n /\ (k + 1) - 1 = k
    BY <1>1, <1>7, <1>8
  <2>2. list[k + 1] = {cli[k + 1]}
    BY <1>3, <2>1
  <2>3. i <= k + 1
    BY <1>0, <2>1, <2>2
  <2>4. i = k + 1
    <3>1. SUFFICES ASSUME i # k + 1  PROVE FALSE
      OBVIOUS
    <3>2. i \in 1..n /\ i <= k
      BY <1>0, <1>1, <1>2, <2>1, <2>3, <3>1
    <3>3. list[i] = {}
      BY <1>3, <3>2
    <3> QED BY <1>0, <3>3
  <2>5. s = cli[k + 1]
    BY <1>0, <2>2, <2>4
  <2>6. list[n + 1] = M /\ next[n + 1] = M
    BY <1>3, <1>4, <1>7, <1>8, <2>1, <2>4
  <2>7. done(list) = {} /\ done(next) = {}
    BY <2>6 DEF M
  <2>8. txt = chain[k]
    BY <1>1, <1>3, <2>7, FilledNone
  <2>9. Replaced(txt, s) = chain[k + 1]
    BY <1>1, <2>1, <2>5, <2>8
  <2>10. Replaced(txt, s) = Filled(vals, done(next), chain[k + 1])
    BY <1>1, <2>1, <2>7, <2>9, FilledNone
  <2>11. ASSUME NEW j \in 1..n  PROVE next[j] = IF j <= k + 1 THEN {} ELSE {cli[j]}
    <3>1. CASE j = k + 1
      BY <1>4, <1>7, <2>2, <2>4, <2>5, <3>1
    <3>2. CASE j # k + 1
      <4>1. (j <= k + 1) <=> (j <= k)
        BY <1>1, <3>2
      <4>2. next[j] = list[j]
        BY <1>4, <1>7, <2>4, <3>2
      <4> QED BY <1>3, <4>1, <4>2
    <3> QED BY <3>1, <3>2
  <2>12. s.key \in Keys(cli)
    <3>1. k + 1 \in DOMAIN cli
      BY <1>1, <2>1 DEF n, ChainOf
    <3> QED BY <2>5, <3>1 DEF Keys
  <2>13. At1(next, k + 1, Replaced(txt, s))
    BY <2>6, <2>10, <2>11
  <2> QED BY <1>5, <2>1, <2>6, <2>12, <2>13
<1>9. CASE k = n
  <2>1. i \notin 1..n
    <3>1. SUFFICES ASSUME i \in 1..n  PROVE FALSE
      OBVIOUS
    <3>2. i <= n
      BY <1>1, <3>1
    <3>3. list[i] = {}
      BY <1>3, <1>9, <3>1, <3>2
    <3> QED BY <1>0, <3>3
  <2>2. i # n + 2
    BY <1>0, <1>2
  <2>3. i = n + 1
    BY <1>0, <1>1, <1>2, <2>1, <2>2
  <2>4. s \in M
    BY <1>0, <1>2, <2>3
  <2>5. PICK v \in D : s = Sub(v, vals[v])
    BY <2>4 DEF M
  <2>6. next[n + 1] = list[n + 1] \ {s}
    BY <1>4, <1>7, <2>3
  <2>7. done(next) = done(list) \union {v}
    <3>1. ASSUME NEW w \in D  PROVE Sub(w, vals[w]) = s <=> w = v
      BY <1>6, <2>5
    <3> QED BY <2>5, <2>6, <3>1
  <2>8. done(list) \in SUBSET DOMAIN vals /\ v \in DOMAIN vals
    OBVIOUS
  <2>9. Replaced(txt, s) = Filled(vals, done(next), chain[n])
    <3> DEFINE E == done(list)
               F == done(next)
    <3>1. txt = Filled(vals, E, chain[n]) /\ IsFile(chain[n]) /\ E \in SUBSET DOMAIN vals /\ F = E \union {v}
      BY <1>1, <1>3, <1>9, <2>7, <2>8
    <3> HIDE DEF E, F
    <3>2. Replaced(Filled(vals, E, chain[n]), Sub(v, vals[v])) = Filled(vals, E \union {v}, chain[n])
      BY <2>8, <3>1, FilledOne
    <3>3. Replaced(txt, s) = Filled(vals, F, chain[n])
      BY <2>5, <3>1, <3>2
    <3> QED BY <3>3 DEF F
  <2>10. \A j \in 1..n : next[j] = list[j]
    BY <1>4, <1>7, <2>1
  <2>11. At1(next, n, Replaced(txt, s))
    BY <1>3, <1>9, <2>9, <2>10
  <2>12. next[n + 1] \subseteq M
    BY <1>2, <2>6
  <2>13. s.key \in D
    BY <1>6, <2>5
  <2>14. n \in 0..n
    BY <1>1
  <2> QED BY <1>5, <2>11, <2>12, <2>13, <2>14
<1> QED BY <1>1, <1>8, <1>9

LEMMA CliChain ==
  ASSUME Converted, PlainOptions  PROVE ChainOf(CliText, opts.cli) /\ CliText[0] = output
<1> DEFINE n == Len(opts.cli)
<1>1. n \in Nat /\ DOMAIN opts.cli = 1..n
  BY OptionIs
<1>2. \A k \in 1..n : k \in 0..n /\ k # 0
  BY <1>1
<1>3. \A k \in 1..n : CliText[k] = Replaced(CliText[k - 1], opts.cli[k])
  BY <1>2, CliTextIs
<1>4. \A k \in 0..n : IsFile(CliText[k])
  BY CliTextKeeps
<1> QED BY <1>1, <1>3, <1>4, CliTextIs DEF ChainOf

\* The names of the substitution file that build uses, and the file in which all
\* have been given their values.
Own == DOMAIN subs \ Keys(opts.cli)
Whole == Filled(subs, DOMAIN subs, CliText[Len(opts.cli)])

\* If nothing is missing, the names that publish substitutes once more are gone.
LEMMA FilledAgree ==
  ASSUME Converted, PlainOptions, Simple, NEW T, T = CliText[Len(opts.cli)],
         Missing(Filled(subs, Own, T)) = {}
  PROVE  Filled(subs, Own, T) = Whole
<1> DEFINE n == Len(opts.cli)
           C == Content(T)
           f == Fill(subs, Own, C)
           g == Fill(subs, DOMAIN subs, C)
<1>1. n \in Nat /\ n \in 0..n /\ DOMAIN opts.cli = 1..n
  BY OptionIs
<1>2. /\ IsFile(T)
      /\ \A t \in C : t.form = "double" /\ t.default # None =>
           \A j \in 1..n : t.name # opts.cli[j].key \/ t.name \in OddNames
  BY <1>1, CliTextKeeps
<1>3. IsLines(subs)
  BY DEF Converted
<1>4. /\ \A t \in C : f[t] = IF t.form = "double" /\ t.name \in Own /\ t.name \notin OddNames
                             THEN Expanded(subs[t.name]) ELSE <<t>>
      /\ \A t \in C : g[t] = IF t.form = "double" /\ t.name \in DOMAIN subs /\ t.name \notin OddNames
                             THEN Expanded(subs[t.name]) ELSE <<t>>
  BY DEF Fill
<1>5. Filled(subs, Own, T) = MappedFile(f, T) /\ Whole = MappedFile(g, T)
  BY DEF Filled, Whole
<1> DEFINE R == C \union UNION {Tokens(subs[w]) : w \in DOMAIN subs}
<1>6. Maps(f, C, R)
  <2>1. ASSUME NEW v \in DOMAIN subs  PROVE Expanded(subs[v]) \in Seq(R)
    <3>1. IsLine(Expanded(subs[v])) /\ Tokens(Expanded(subs[v])) \subseteq Tokens(subs[v])
      BY <1>3, ExpandedIs DEF IsLines
    <3>2. Tokens(subs[v]) \subseteq R
      OBVIOUS
    <3> HIDE DEF R
    <3> QED BY <3>1, <3>2, LineType
  <2>2. ASSUME NEW t \in C  PROVE <<t>> \in Seq(R)
    OBVIOUS
  <2> HIDE DEF f, C, R
  <2> QED BY <1>4, <2>1, <2>2 DEF Maps, Own
<1> HIDE DEF f, g, R
<1>7. Content(MappedFile(f, T)) = UNION {Tokens(f[t]) : t \in C}
  BY <1>2, <1>6, MappedFileIs
<1>8. ASSUME NEW t \in C  PROVE f[t] = g[t]
  <2>1. SUFFICES ASSUME t.form = "double", t.name \in Keys(opts.cli), t.name \notin OddNames
                 PROVE  FALSE
    BY <1>4 DEF Own
  <2>2. PICK j \in 1..n : t.name = opts.cli[j].key
    BY <1>1, <2>1 DEF Keys
  <2>3. t.default = None
    BY <1>2, <2>1, <2>2
  <2>4. f[t] = <<t>>
    BY <1>4, <2>1 DEF Own
  <2>5. t \in Content(MappedFile(f, T))
    <3>1. Tokens(<<t>>) = {t}
      BY OneToken
    <3>2. t \in Tokens(f[t])
      BY <2>4, <3>1
    <3> QED BY <1>7, <3>2
  <2>6. t.name \in Missing(MappedFile(f, T))
    BY <2>1, <2>3, <2>5 DEF Missing
  <2> QED BY <1>5, <2>6
<1>9. MappedFile(f, T) = MappedFile(g, T)
  BY <1>2, <1>8, MappedFileSame
<1> QED BY <1>5, <1>9

\* Build is on its way to that file and, if it could read it, publish is too.
Same ==
  Simple =>
    /\ phase = "build" => Underway(Own, todo, text, CliText, opts.cli, subs)
    /\ phase \in {"publish", "end"} /\ built.status = "ok" =>
         /\ built = ReadResult(Whole, FALSE, FALSE)
         /\ phase = "publish" /\ reread =>
              ~bad /\ Underway(DOMAIN subs, todo, text, CliText, opts.cli, subs)
         /\ phase = "end" /\ reread => published = built

LEMMA SameFiles ==
  ASSUME UNCHANGED <<output, subs, opts>>
  PROVE  CliText' = CliText /\ Own' = Own /\ Whole' = Whole /\ Simple' = Simple /\ Given' = Given
<1>1. CliText' = CliText
  BY DEF CliText
<1> QED BY <1>1 DEF Own, Whole, Simple, Given

LEMMA SameBuildStarts ==
  ASSUME PlainOptions, Converted, BuildStarts  PROVE Same'
<1> DEFINE list == BuilderSubs(opts.cli, subs)
           n == Len(opts.cli)
<1>1. phase' = "build" /\ text' = output /\ todo' = list /\ UNCHANGED <<output, subs, opts>>
  BY DEF BuildStarts, StartReading, convVars
<1>2. /\ DOMAIN list = 1..(n + 1) /\ \A i \in 1..n : list[i] = {opts.cli[i]}
      /\ list[n + 1] = {Sub(v, subs[v]) : v \in Own}
  BY BuilderList DEF Own
<1>3. ChainOf(CliText, opts.cli) /\ CliText[0] = output /\ n \in Nat
  BY CliChain DEF ChainOf
<1>4. \A i \in DOMAIN list : i # n + 2
  BY <1>2, <1>3
<1> HIDE DEF list
<1>5. Underway(Own, list, CliText[0], CliText, opts.cli, subs)
  BY <1>2, <1>3, <1>4, UnderwayStarts
<1>6. Underway(Own', todo', text', CliText', opts'.cli, subs')
  BY <1>1, <1>3, <1>5, SameFiles
<1> QED BY <1>1, <1>6 DEF Same

LEMMA SameSubstitute ==
  ASSUME PlainOptions, Converted, Reading, Same, Substitute  PROVE Same'
<1>1. PICK i \in Left : \E s \in todo[i] :
        /\ \A j \in Left : i <= j
        /\ todo' = [todo EXCEPT ![i] = @ \ {s}] /\ text' = Replaced(text, s)
        /\ bad' = (bad \/ Unsupported(text, s.key))
  BY DEF Substitute
<1>2. PICK s \in todo[i] :
        /\ \A j \in Left : i <= j
        /\ todo' = [todo EXCEPT ![i] = @ \ {s}] /\ text' = Replaced(text, s)
        /\ bad' = (bad \/ Unsupported(text, s.key))
  BY <1>1
<1>3. i \in DOMAIN todo /\ \A j \in DOMAIN todo : todo[j] # {} => i <= j
  BY <1>2 DEF Left
<1>4. phase \in {"build", "publish"} /\ UNCHANGED <<phase, output, subs, opts, built, reread, published>>
  BY DEF Substitute, convVars
<1>5. CliText' = CliText /\ Own' = Own /\ Whole' = Whole /\ Simple' = Simple /\ Given' = Given
  BY <1>4, SameFiles
<1>6. ChainOf(CliText, opts.cli) /\ IsLines(subs)
  BY CliChain DEF Converted
<1>7. ASSUME Simple, NEW D, D \subseteq DOMAIN subs, Underway(D, todo, text, CliText, opts.cli, subs)
      PROVE  /\ Underway(D, todo', text', CliText, opts.cli, subs)
             /\ s.key \in Keys(opts.cli) \union D
  <2> DEFINE next == [todo EXCEPT ![i] = @ \ {s}]
  <2>1. IsPlain(subs)
    BY <1>7 DEF Simple, IsPlain
  <2>2. todo' = next /\ text' = Replaced(text, s) /\ next = [todo EXCEPT ![i] = @ \ {s}]
    BY <1>2
  <2>3. Taken(todo, i, s, next)
    BY <1>3, <2>2 DEF Taken
  <2> HIDE DEF next
  <2>4. /\ Underway(D, next, Replaced(text, s), CliText, opts.cli, subs)
        /\ s.key \in Keys(opts.cli) \union D
    BY <1>6, <1>7, <2>1, <2>3, UnderwayStep
  <2> QED BY <2>2, <2>4
<1>8. ASSUME Simple, phase = "build"  PROVE Underway(Own, todo', text', CliText, opts.cli, subs)
  <2>1. Own \subseteq DOMAIN subs
    BY DEF Own
  <2> QED BY <1>7, <1>8, <2>1 DEF Same
<1>9. ASSUME Simple, phase = "publish", built.status = "ok", reread
      PROVE  ~bad' /\ Underway(DOMAIN subs, todo', text', CliText, opts.cli, subs)
  <2>1. ~bad /\ Underway(DOMAIN subs, todo, text, CliText, opts.cli, subs)
    BY <1>9 DEF Same
  <2>2. /\ Underway(DOMAIN subs, todo', text', CliText, opts.cli, subs)
        /\ s.key \in Keys(opts.cli) \union DOMAIN subs
    BY <1>7, <1>9, <2>1
  <2>3. ~Unsupported(output, s.key)
    BY <1>9, <2>2 DEF Reading, Given
  <2>4. ~Unsupported(text, s.key)
    BY <1>4, <2>3, UnsupportedRough DEF Reading
  <2> QED BY <1>2, <2>1, <2>2, <2>4
<1>10. Simple /\ phase \in {"publish", "end"} /\ built.status = "ok" => built = ReadResult(Whole, FALSE, FALSE)
  BY DEF Same
<1> QED BY <1>4, <1>5, <1>8, <1>9, <1>10 DEF Same

\* Without the check for hashes the same is read.
LEMMA ReadWithoutHash ==
  ASSUME NEW file, IsFile(file), NEW b \in BOOLEAN, NEW h, ReadResult(file, b, h).status = "ok"
  PROVE  ReadResult(file, FALSE, FALSE) = ReadResult(file, b, h)
<1>1. /\ Missing(file) = {} /\ ~ParseError(WithDefaults(file), h)
      /\ ReadResult(file, b, h) = [status |-> "ok", file |-> Parsed(WithDefaults(file)), missing |-> {}]
  BY ReadOK
<1>2. ~ParseError(WithDefaults(file), FALSE)
  BY <1>1 DEF ParseError
<1>3. ReadResult(file, FALSE, FALSE) = [status |-> "ok", file |-> Parsed(WithDefaults(file)), missing |-> {}]
  BY <1>1, <1>2 DEF ReadResult
<1> QED BY <1>1, <1>3

LEMMA NothingLeft == Left = {} => \A i \in DOMAIN todo : todo[i] = {}
  BY DEF Left

LEMMA SameBuildReads ==
  ASSUME PlainOptions, Converted, Reading, Same, BuildReads  PROVE Same'
<1> DEFINE list == PublishList(TRUE, {})
           n == Len(opts.cli)
           T == CliText[n]
<1>1. /\ phase = "build" /\ Left = {} /\ built' = ReadResult(text, bad, opts.hash) /\ phase' = "publish"
      /\ reread' \in BOOLEAN /\ StartReading(PublishList(reread', {}))
      /\ UNCHANGED <<output, subs, opts>>
  BY DEF BuildReads, convVars
<1>2. CliText' = CliText /\ Own' = Own /\ Whole' = Whole /\ Simple' = Simple
  BY <1>1, SameFiles
<1>3. ChainOf(CliText, opts.cli) /\ CliText[0] = output /\ n \in Nat
  BY CliChain DEF ChainOf
<1>4. ASSUME Simple, built'.status = "ok"  PROVE built' = ReadResult(Whole, FALSE, FALSE)
  <2>1. Underway(Own, todo, text, CliText, opts.cli, subs) /\ \A i \in DOMAIN todo : todo[i] = {}
    BY <1>1, <1>4, NothingLeft DEF Same
  <2>2. text = Filled(subs, Own, T)
    BY <1>3, <2>1, UnderwayEnds
  <2>3. IsFile(text) /\ bad \in BOOLEAN
    BY DEF Reading
  <2>4. Missing(text) = {} /\ ReadResult(text, FALSE, FALSE) = ReadResult(text, bad, opts.hash)
    BY <1>1, <1>4, <2>3, ReadOK, ReadWithoutHash
  <2>5. text = Whole
    BY <1>4, <2>2, <2>4, FilledAgree
  <2> QED BY <1>1, <2>4, <2>5
<1>5. ASSUME reread'  PROVE ~bad' /\ Underway(DOMAIN subs, todo', text', CliText, opts.cli, subs)
  <2>1. reread' = TRUE
    BY <1>1, <1>5
  <2>2. text' = output /\ todo' = list /\ bad' = FALSE
    BY <1>1, <2>1 DEF StartReading
  <2>3. /\ DOMAIN list = 1..(n + 2) /\ \A i \in 1..n : list[i] = {opts.cli[i]}
        /\ list[n + 1] = {Sub(v, subs[v]) : v \in DOMAIN subs}
        /\ list[n + 2] = {}
    <3> DEFINE names == {}
    <3>1. names = {}
      OBVIOUS
    <3> HIDE DEF names
    <3> DEFINE l == PublishList(TRUE, names)
    <3>2. /\ DOMAIN l = 1..(n + 2) /\ \A i \in 1..n : l[i] = {opts.cli[i]}
          /\ l[n + 1] = {Sub(v, subs[v]) : v \in DOMAIN subs}
          /\ l[n + 2] = {Sub(v, <<Text("dummy")>>) : v \in names}
      BY PublisherList
    <3>3. l[n + 2] = {}
      BY <3>1, <3>2
    <3> QED BY <3>1, <3>2, <3>3
  <2> HIDE DEF list
  <2>4. Underway(DOMAIN subs, list, CliText[0], CliText, opts.cli, subs)
    BY <1>3, <2>3, UnderwayStarts
  <2> QED BY <1>3, <2>2, <2>4
<1>6. ASSUME Simple', built'.status = "ok"
      PROVE  /\ built' = ReadResult(Whole', FALSE, FALSE)
             /\ reread' => ~bad' /\ Underway(DOMAIN subs', todo', text', CliText', opts'.cli, subs')
  BY <1>1, <1>2, <1>4, <1>5, <1>6
<1> QED BY <1>1, <1>6 DEF Same

LEMMA SamePublishReads ==
  ASSUME PlainOptions, Converted, Results, Reading, Same, PublishReads  PROVE Same'
<1> DEFINE r == ReadResult(text, bad, FALSE)
<1>1. phase = "publish" /\ Left = {} /\ UNCHANGED <<output, subs, opts, built, reread>>
  BY DEF PublishReads, convVars
<1>2. CliText' = CliText /\ Own' = Own /\ Whole' = Whole /\ Simple' = Simple
  BY <1>1, SameFiles
<1>3. \/ r.status = "missing" /\ UNCHANGED phase
      \/ published' = r /\ phase' = "end"
  BY DEF PublishReads
<1>4. ASSUME Simple, built.status = "ok"
      PROVE  built = ReadResult(Whole, FALSE, FALSE) /\ (reread => r = built)
  <2>1. built = ReadResult(Whole, FALSE, FALSE)
    BY <1>1, <1>4 DEF Same
  <2>2. ASSUME reread  PROVE r = built
    <3>1. ~bad /\ bad \in BOOLEAN /\ Underway(DOMAIN subs, todo, text, CliText, opts.cli, subs)
      BY <1>1, <1>4, <2>2 DEF Same, Reading
    <3>2. ChainOf(CliText, opts.cli) /\ \A i \in DOMAIN todo : todo[i] = {}
      BY <1>1, CliChain, NothingLeft
    <3>3. text = Whole
      BY <3>1, <3>2, UnderwayEnds DEF Whole
    <3>4. bad = FALSE
      BY <3>1
    <3> QED BY <2>1, <3>3, <3>4
  <2> QED BY <2>1, <2>2
<1> HIDE DEF r
<1>5. ASSUME Simple', built'.status = "ok"
      PROVE  /\ built' = ReadResult(Whole', FALSE, FALSE)
             /\ reread' => phase' = "end" /\ published' = built'
  BY <1>1, <1>2, <1>3, <1>4, <1>5
<1>6. phase' # "build"
  BY <1>1, <1>3
<1> QED BY <1>5, <1>6 DEF Same

LEMMA SameInit == Init => Same
  BY DEF Init, Same

LEMMA SameNext ==
  ASSUME PlainOptions  PROVE ConvInv /\ Same /\ [Next]_vars => Same'
<1> SUFFICES ASSUME ConvInv, Same, [Next]_vars  PROVE Same'
  OBVIOUS
<1>0. Converted /\ Results /\ Reading
  BY DEF ConvInv
<1>1. CASE \E c \in Commands : convertCommand(c)
  <2>1. phase' \in {"convert", "panic", "error"}
    BY <1>1 DEF convertCommand, ConvertFrom, ConvertRun, ConvertEnv, ConvertArg, ConvertCopy, ConvertVolume,
         ConvertUser, ConvertWorkdir, ConvertConfig, ConvertExpose, ConvertUnknown, InLayer, Converting
  <2> QED BY <2>1 DEF Same
<1>2. CASE WriteFiles
  BY <1>2 DEF WriteFiles, Same
<1>3. CASE UNCHANGED vars
  <2>1. UNCHANGED <<phase, output, subs, opts, todo, text, bad, built, reread, published>>
    BY <1>3 DEF vars, convVars, readVars
  <2>2. CliText' = CliText /\ Own' = Own /\ Whole' = Whole /\ Simple' = Simple
    BY <2>1, SameFiles
  <2> QED BY <2>1, <2>2 DEF Same
<1> QED BY <1>0, <1>1, <1>2, <1>3, SameBuildStarts, SameSubstitute, SameBuildReads, SamePublishReads DEF Next

\* NewPublisher: publish orders the substitutions its own way and repeats those of
\* the command line, but with the same options it reads the file that was built,
\* unless a value in the substitution file has a reference of its own or one from
\* the command line has a reference with a default to another name given there.
THEOREM PublishReadsTheSame ==
  ASSUME PlainOptions  PROVE Spec => []PublishReadsWhatWasBuilt
<1>1. Init => ConvInv /\ Same
  BY InitInv, SameInit
<1>2. ConvInv /\ Same /\ [Next]_vars => (ConvInv /\ Same)'
  BY NextInv, SameNext
<1>3. ConvInv /\ Same => PublishReadsWhatWasBuilt
  BY DEF Same, Simple, PublishReadsWhatWasBuilt
<1> QED BY <1>1, <1>2, <1>3, PTL DEF Spec
=============================================================================
