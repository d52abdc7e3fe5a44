-------------------------- MODULE BuildOrderProofs --------------------------
(***************************************************************************)
(* Proofs about BuildOrder for any stackerfiles, prerequisites and layers: *)
(* the type invariant, that every layer is built after what it needs       *)
(* (DepsBuiltFirst) and only once, and that success means that everything  *)
(* was built (EachBuiltOnce); that the order of the files and the number   *)
(* of passes of DependencyOrder are sufficient (FailureIsJustified).  No   *)
(* assumption says that the prerequisites are acyclic: that NewStackerFiles *)
(* has come to its end shows that they are.                                *)
(***************************************************************************)
EXTENDS BuildOrder, FiniteSetTheorems, TLAPS

\* The layers of a set of files.
LayersIn(S) == UNION {LayersOf(f) : f \in S}

\* The files that come before the n-th, and the first k members of a sequence.
First(seq, k) == {seq[i] : i \in 1..k}
Before == First(sorted, n - 1)

Distinct(seq) == \A i, j \in 1..Len(seq) : i # j => seq[i] # seq[j]

\* No cycle of prerequisites can be reached from f.
Grounded(f) ==
  \A S \in SUBSET Files : f \in S => \E g \in S : PrereqsOf(g) \intersect S = {}

-----------------------------------------------------------------------------
Frames == [reading : Files \union {None}, todo : Seq(Files), sfm : SUBSET Files]

Inputs ==
  /\ fileOrder \in [Files -> Seq(Layers)]
  /\ base \in [Layers -> Layers \union {None}]
  /\ imports \in [Layers -> SUBSET Layers]

Values ==
  /\ pc \in {"read", "dag", "file", "scan", "layers", "returned"}
  /\ outcome \in Outcomes
  /\ pc # "returned" => outcome = "running"
  /\ stack \in Seq(Frames) /\ Len(stack) >= 1
  /\ sfm \subseteq Files /\ built \subseteq Files
  /\ sorted \in Seq(Files)
  /\ n \in Nat \ {0} /\ pass \in Nat \ {0} /\ pos \in Nat \ {0} /\ li \in Nat \ {0}
  /\ processed \subseteq Layers /\ ret \in Seq(Layers)
  /\ done \in Seq(Layers) /\ cached \subseteq Layers

\* NewStackerFiles: the prerequisites of a file have all been read when the call
\* for them returns, and none of them leads to a cycle.
Reading ==
  pc = "read" =>
    /\ \A k \in 1..Len(stack) : \A f \in stack[k].sfm :
         \/ PrereqsOf(f) \subseteq stack[k].sfm /\ Grounded(f)
         \/ k < Len(stack) /\ stack[k + 1].reading = f
    /\ \A k \in 2..Len(stack) :
         /\ stack[k].reading \in Files
         /\ PrereqsOf(stack[k].reading) \subseteq stack[k].sfm \union Elems(stack[k].todo)
    /\ Elems(Paths) \subseteq stack[1].sfm \union Elems(stack[1].todo)

\* The files it returned are complete, without cycles, and share no names.
ReadDone ==
  /\ ~DuplicateNames(sfm)
  /\ \A f \in sfm : PrereqsOf(f) \subseteq sfm /\ Grounded(f)
  /\ pc # "read" /\ outcome # "duplicate" => Elems(Paths) \subseteq sfm

\* The DAG, and its order so far.
Sorting ==
  /\ pc = "read" => edges = {} /\ sorted = <<>>
  /\ edges \subseteq {e \in sfm \X sfm : e[2] \in PrereqsOf(e[1])}
  /\ Elems(sorted) \subseteq sfm /\ Distinct(sorted)
  /\ \A i \in 1..Len(sorted) : PrereqsOf(sorted[i]) \subseteq First(sorted, i - 1)
  /\ pc \in {"file", "scan", "layers"} \/ outcome = "ok" => Elems(sorted) = sfm

\* BuildMultiple's position, and what has been built so far.
Position ==
  /\ pc \in {"read", "dag"} => n = 1 /\ built = {} /\ done = <<>>
  /\ n <= Len(sorted) + 1
  /\ pc \in {"scan", "layers"} \/ outcome = "unresolved" => n <= Len(sorted)
  /\ pc \in {"file", "scan"} => built = Before /\ Elems(done) = LayersIn(Before)
  /\ pc = "layers" =>
       /\ built = Before \union {file}
       /\ li <= Len(ret) + 1 /\ Elems(ret) = LayersOf(file)
       /\ Elems(done) = LayersIn(Before) \union First(ret, li - 1)
  /\ outcome = "ok" => n = Len(sorted) + 1 /\ Elems(done) = LayersIn(Before)

\* DependencyOrder's result so far.
Resolving ==
  pc \in {"scan", "layers"} \/ outcome = "unresolved" =>
    /\ AllPrereqs(file) \subseteq Before
    /\ processed = LayersIn(AllPrereqs(file)) \union Elems(ret)
    /\ Elems(ret) \subseteq LayersOf(file) /\ Distinct(ret)
    /\ \A i \in 1..Len(ret) :
         Deps(ret[i]) \subseteq LayersIn(AllPrereqs(file)) \union First(ret, i - 1)

\* The layers DependencyOrder can do nothing about at the moment.
Settled(l) == l \in processed \/ ~Ready(l)

\* Every pass finds a layer, or there is none left to be found.
Passing ==
  /\ pc = "scan" => pos <= Len(fileOrder[file]) \/ Len(fileOrder[file]) = 0
  /\ pc = "scan" =>
       \/ \A l \in LayersOf(file) : Settled(l)
       \/ Len(ret) >= pass
       \/ /\ Len(ret) >= pass - 1
          /\ \A q \in 1..(pos - 1) : Settled(fileOrder[file][q])

\* What has been built, and why the build ended.
Results ==
  /\ DepsBuiltFirst /\ Distinct(done)
  /\ ~NoCache => cached = Elems(done)
  /\ outcome = "unresolved" => NoOrder(file)
  /\ outcome \notin {"cycle", "prerequisite"}
  /\ ~NoCache => outcome # "baseHash"

OrderInv == /\ Inputs /\ Values /\ Reading /\ ReadDone /\ Sorting
            /\ Position /\ Resolving /\ Passing /\ Results
-----------------------------------------------------------------------------
(* Sequences *)

\* What Append does to the members of a sequence.
LEMMA Appended ==
  ASSUME NEW S, NEW s \in Seq(S), NEW x \in S
  PROVE  /\ Append(s, x) \in Seq(S)
         /\ Len(Append(s, x)) = Len(s) + 1
         /\ \A i \in 1..Len(s) : Append(s, x)[i] = s[i]
         /\ Append(s, x)[Len(s) + 1] = x
  OBVIOUS

LEMMA AppendedElems ==
  ASSUME NEW S, NEW s \in Seq(S), NEW x \in S
  PROVE  /\ Elems(Append(s, x)) = Elems(s) \union {x}
         /\ \A k \in Nat : k <= Len(s) => First(Append(s, x), k) = First(s, k)
         /\ First(s, Len(s)) = Elems(s)
<1>1. Len(s) \in Nat /\ \A i \in 1..Len(s) : s[i] \in S
  OBVIOUS
<1>2. Elems(Append(s, x)) \subseteq Elems(s) \union {x}
  BY <1>1, Appended DEF Elems
<1>3. Elems(s) \subseteq Elems(Append(s, x))
  BY <1>1, Appended DEF Elems
<1>4. x \in Elems(Append(s, x))
  BY <1>1, Appended DEF Elems
<1>5. ASSUME NEW k \in Nat, k <= Len(s)  PROVE First(Append(s, x), k) = First(s, k)
  BY <1>1, <1>5, Appended DEF First
<1>6. First(s, Len(s)) = Elems(s)
  BY DEF First, Elems
<1> QED BY <1>2, <1>3, <1>4, <1>5, <1>6

LEMMA AppendedDistinct ==
  ASSUME NEW S, NEW s \in Seq(S), NEW x \in S, Distinct(s), x \notin Elems(s)
  PROVE  Distinct(Append(s, x))
<1>1. Len(s) \in Nat
  OBVIOUS
<1> SUFFICES ASSUME NEW i \in 1..Len(Append(s, x)), NEW j \in 1..Len(Append(s, x)), i # j
             PROVE  Append(s, x)[i] # Append(s, x)[j]
  BY DEF Distinct
<1>2. CASE i <= Len(s) /\ j <= Len(s)
  BY <1>1, <1>2, Appended DEF Distinct
<1>3. CASE i <= Len(s) /\ j = Len(s) + 1
  BY <1>1, <1>3, Appended DEF Elems
<1>4. CASE i = Len(s) + 1 /\ j <= Len(s)
  BY <1>1, <1>4, Appended DEF Elems
<1> QED BY <1>1, <1>2, <1>3, <1>4, Appended

\* A sequence has finitely many members, as many as it is long if none is repeated.
LEMMA Counted ==
  ASSUME NEW S, NEW s \in Seq(S)
  PROVE  /\ IsFiniteSet(Elems(s))
         /\ Cardinality(Elems(s)) \in Nat
         /\ Elems(s) # {} => Cardinality(Elems(s)) > 0
         /\ Distinct(s) => Cardinality(Elems(s)) = Len(s)
<1> DEFINE f == [i \in 1..Len(s) |-> s[i]]
<1>1. Len(s) \in Nat
  OBVIOUS
<1>2. f \in Surjection(1..Len(s), Elems(s))
  BY DEF Surjection, Elems
<1>3. IsFiniteSet(1..Len(s))
  BY <1>1, FS_Interval
<1>4. IsFiniteSet(Elems(s))
  BY <1>2, <1>3, FS_Surjection
<1>5. Cardinality(Elems(s)) \in Nat
  BY <1>4, FS_CardinalityType
<1>6. Elems(s) # {} => Cardinality(Elems(s)) > 0
  BY <1>4, <1>5, FS_EmptySet
<1>7. ASSUME Distinct(s)  PROVE Cardinality(Elems(s)) = Len(s)
  <2>1. f \in Bijection(1..Len(s), Elems(s))
    BY <1>2, <1>7 DEF Distinct, Bijection, Injection, IsInjective, Surjection
  <2> QED BY <1>1, <2>1, FS_CountingElements DEF ExistsBijection
<1> QED BY <1>4, <1>5, <1>6, <1>7

\* A nonempty sequence consists of its first member and the others.
LEMMA HeadTail ==
  ASSUME NEW S, NEW q \in Seq(S), q # <<>>
  PROVE  /\ Head(q) \in S /\ Tail(q) \in Seq(S)
         /\ Elems(q) = {Head(q)} \union Elems(Tail(q))
<1>1. Head(q) \in S /\ Tail(q) \in Seq(S)
  OBVIOUS
<1>2. /\ Len(Tail(q)) = Len(q) - 1 /\ Len(q) \in Nat /\ Len(q) # 0
      /\ \A i \in 1..(Len(q) - 1) : Tail(q)[i] = q[i + 1]
      /\ Head(q) = q[1]
  OBVIOUS
<1>3. ASSUME NEW i \in 1..Len(q)
      PROVE  q[i] \in {Head(q)} \union Elems(Tail(q))
  <2>1. CASE i = 1
    BY <1>2, <2>1
  <2>2. CASE i # 1
    <3>1. i - 1 \in 1..Len(Tail(q)) /\ q[i] = Tail(q)[i - 1]
      BY <1>2, <2>2
    <3> QED BY <3>1 DEF Elems
  <2> QED BY <2>1, <2>2
<1>4. ASSUME NEW i \in 1..Len(Tail(q))  PROVE Tail(q)[i] \in Elems(q)
  <2>1. i + 1 \in 1..Len(q) /\ Tail(q)[i] = q[i + 1]
    BY <1>2
  <2> QED BY <2>1 DEF Elems
<1>5. 1 \in 1..Len(q)
  BY <1>2
<1>6. Head(q) \in Elems(q)
  BY <1>2, <1>5 DEF Elems
<1> QED BY <1>1, <1>3, <1>4, <1>6 DEF Elems

-----------------------------------------------------------------------------
(* Frames *)

LEMMA FrameTypes ==
  ASSUME NEW s \in Seq(Frames), NEW k \in 1..Len(s)
  PROVE  /\ s[k] \in Frames
         /\ s[k].todo \in Seq(Files) /\ s[k].sfm \subseteq Files
         /\ Len(s) \in Nat
<1>1. s[k] \in Frames /\ Len(s) \in Nat
  OBVIOUS
<1> QED BY <1>1 DEF Frames

\* The stack after a call for the frame new, and after a return of the files S.
Called(s, rest, f, new) ==
  Append([s EXCEPT ![Len(s)].todo = rest, ![Len(s)].sfm = @ \union {f}], new)

Returned(s, S) ==
  [SubSeq(s, 1, Len(s) - 1) EXCEPT ![Len(s) - 1].sfm = @ \union S]

LEMMA Pushed ==
  ASSUME NEW s \in Seq(Frames), Len(s) >= 1,
         NEW f \in Files, NEW rest \in Seq(Files), NEW new \in Frames, NEW t,
         t = Called(s, rest, f, new)
  PROVE  /\ t \in Seq(Frames) /\ Len(t) = Len(s) + 1
         /\ \A k \in 1..(Len(s) - 1) : t[k] = s[k]
         /\ t[Len(s)].reading = s[Len(s)].reading
         /\ t[Len(s)].todo = rest
         /\ t[Len(s)].sfm = s[Len(s)].sfm \union {f}
         /\ t[Len(s) + 1] = new
<1> DEFINE L == Len(s)
           x == [[s[L] EXCEPT !.todo = rest] EXCEPT !.sfm = @ \union {f}]
           u == [s EXCEPT ![L] = x]
           y == [s EXCEPT ![L].todo = rest, ![L].sfm = @ \union {f}]
<1>1. L \in Nat /\ L \in 1..L /\ s[L] \in Frames
  OBVIOUS
<1>2. x \in Frames
  BY <1>1 DEF Frames
<1>3. x.todo = rest /\ x.sfm = s[L].sfm \union {f} /\ x.reading = s[L].reading
  BY <1>1 DEF Frames
<1>4. y = u
  BY <1>1
<1> HIDE DEF x
<1>5. u \in Seq(Frames) /\ Len(u) = L /\ u[L] = x /\ \A k \in 1..(L - 1) : u[k] = s[k]
  BY <1>1, <1>2
<1> HIDE DEF u
<1>6. /\ Append(u, new) \in Seq(Frames) /\ Len(Append(u, new)) = L + 1
      /\ \A k \in 1..L : Append(u, new)[k] = u[k]
      /\ Append(u, new)[L + 1] = new
  BY <1>1, <1>5
<1>7. t = Append(y, new)
  BY DEF Called
<1> HIDE DEF y
<1>8. t = Append(u, new)
  BY <1>4, <1>7
<1>9. t \in Seq(Frames) /\ Len(t) = L + 1 /\ t[L + 1] = new
  BY <1>6, <1>8
<1>10. \A k \in 1..(L - 1) : t[k] = s[k]
  BY <1>1, <1>5, <1>6, <1>8
<1>11. t[L] = x
  BY <1>1, <1>5, <1>6, <1>8
<1> QED BY <1>3, <1>9, <1>10, <1>11

LEMMA Popped ==
  ASSUME NEW s \in Seq(Frames), Len(s) >= 2, NEW S, S \subseteq Files
  PROVE  /\ Returned(s, S) \in Seq(Frames) /\ Len(Returned(s, S)) = Len(s) - 1
         /\ \A k \in 1..(Len(s) - 2) : Returned(s, S)[k] = s[k]
         /\ Returned(s, S)[Len(s) - 1].reading = s[Len(s) - 1].reading
         /\ Returned(s, S)[Len(s) - 1].todo = s[Len(s) - 1].todo
         /\ Returned(s, S)[Len(s) - 1].sfm = s[Len(s) - 1].sfm \union S
<1> DEFINE t == Returned(s, S)
<1> DEFINE L == Len(s)
           u == SubSeq(s, 1, L - 1)
           x == [u[L - 1] EXCEPT !.sfm = @ \union S]
<1>0. t = [u EXCEPT ![L - 1].sfm = @ \union S]
  BY DEF Returned
<1>1. L \in Nat /\ L - 1 \in 1..L /\ L - 1 \in Nat /\ s[L - 1] \in Frames
  OBVIOUS
<1>2. u \in Seq(Frames) /\ Len(u) = L - 1 /\ \A k \in 1..(L - 1) : u[k] = s[k]
  BY <1>1
<1>3. u[L - 1] = s[L - 1]
  BY <1>1, <1>2
<1> HIDE DEF u
<1>4. x \in Frames
  BY <1>1, <1>3 DEF Frames
<1>5. x.todo = s[L - 1].todo /\ x.sfm = s[L - 1].sfm \union S /\ x.reading = s[L - 1].reading
  BY <1>1, <1>3 DEF Frames
<1>6. t = [u EXCEPT ![L - 1] = x]
  BY <1>0, <1>2
<1> HIDE DEF x, t
<1>7. t \in Seq(Frames) /\ Len(t) = L - 1 /\ t[L - 1] = x /\ \A k \in 1..(L - 2) : t[k] = s[k]
  BY <1>1, <1>2, <1>4, <1>6
<1> QED BY <1>1, <1>5, <1>7 DEF t

-----------------------------------------------------------------------------
(* Prerequisites *)

\* A file whose prerequisites lead to no cycle leads to none.
LEMMA GroundedStep ==
  ASSUME NEW f \in Files, \A g \in PrereqsOf(f) : Grounded(g)
  PROVE  Grounded(f)
  BY DEF Grounded

\* The prerequisites of a file are in every set that holds its own and is closed.
LEMMA Closed ==
  ASSUME NEW f, NEW S \in SUBSET Files, PrereqsOf(f) \subseteq S,
         \A h \in S : PrereqsOf(h) \subseteq S
  PROVE  AllPrereqs(f) \subseteq S
  BY DEF AllPrereqs

\* isAcyclic accepts every graph of such files.
LEMMA NoCycle ==
  ASSUME sfm \subseteq Files, \A f \in sfm : Grounded(f),
         NEW es, \A f, g : <<f, g>> \in es => g \in PrereqsOf(f)
  PROVE  Acyclic(es)
  BY DEF Acyclic, Grounded

\* Duplicate names: the layers of the files that were read are all different.
LEMMA NoDuplicates ==
  ASSUME Inputs, NEW S \in SUBSET Files, ~DuplicateNames(S)
  PROVE  /\ \A f, g \in S : f # g => LayersOf(f) \intersect LayersOf(g) = {}
         /\ \A f \in S : Cardinality(LayersOf(f)) = Len(fileOrder[f])
  BY DEF DuplicateNames
-----------------------------------------------------------------------------
(* NewStackerFiles *)

LEMMA Started == Init => OrderInv
<1> SUFFICES ASSUME Init PROVE OrderInv
  OBVIOUS
<1> USE OrderAssumption DEF Init
<1>1. Inputs
  BY DEF Inputs
<1>2. Values
  BY DEF Values, Outcomes, Frames
<1>3. Reading
  BY DEF Reading, Elems
<1>4. ReadDone
  BY DEF ReadDone, DuplicateNames
<1>5. Sorting
  BY DEF Sorting, Elems, Distinct
<1>6. Position /\ Resolving /\ Passing
  BY DEF Position, Resolving, Passing
<1>7. Results
  BY DEF Results, DepsBuiltFirst, Distinct, Elems
<1> QED BY <1>1, <1>2, <1>3, <1>4, <1>5, <1>6, <1>7 DEF OrderInv

\* Whether names are defined twice is a matter of the files that are compared.
LEMMA SameNames ==
  ASSUME UNCHANGED fileOrder, NEW S
  PROVE  DuplicateNames(S)' <=> DuplicateNames(S)
  BY DEF DuplicateNames, LayersOf, Elems

\* A step of NewStackerFiles leaves the rest as it was.
LEMMA OnlyReading ==
  ASSUME OrderInv, pc = "read", pc' \in {"read", "dag", "returned"},
         pc' # "returned" => outcome' = outcome,
         outcome' \in {"running", "duplicate"},
         UNCHANGED <<inputVars, edges, sorted, built, n, scanVars, buildVars>>
  PROVE  Inputs' /\ Sorting' /\ Position' /\ Resolving' /\ Passing' /\ Results'
<1> USE DEF OrderInv, inputVars, scanVars, buildVars
<1>1. Inputs'
  BY DEF Inputs
<1>2. Sorting'
  BY DEF Sorting, Elems, Distinct
<1>3. Position'
  BY DEF Position, Values, Sorting
<1>4. Resolving' /\ Passing'
  BY DEF Resolving, Passing
<1>5. Results'
  <2>1. DepsBuiltFirst' /\ Distinct(done)'
    BY DEF Results, DepsBuiltFirst, Distinct, Deps
  <2>2. ~NoCache => (cached = Elems(done))'
    BY DEF Results, Elems
  <2> QED BY <2>1, <2>2 DEF Results
<1> QED BY <1>1, <1>2, <1>3, <1>4, <1>5

\* What NewStackerFiles' frames hold, without the conditions.
LEMMA ReadingFacts ==
  ASSUME OrderInv, pc = "read"
  PROVE  /\ stack \in Seq(Frames) /\ Len(stack) \in Nat /\ Len(stack) >= 1
         /\ \A k \in 1..Len(stack) : \A f \in stack[k].sfm :
              \/ PrereqsOf(f) \subseteq stack[k].sfm /\ Grounded(f)
              \/ k < Len(stack) /\ stack[k + 1].reading = f
         /\ \A k \in 2..Len(stack) :
              /\ stack[k].reading \in Files
              /\ PrereqsOf(stack[k].reading) \subseteq stack[k].sfm \union Elems(stack[k].todo)
         /\ Elems(Paths) \subseteq stack[1].sfm \union Elems(stack[1].todo)
<1>1. stack \in Seq(Frames) /\ Len(stack) >= 1
  BY DEF OrderInv, Values
<1>2. Len(stack) \in Nat
  BY <1>1
<1> QED BY <1>1, <1>2 DEF OrderInv, Reading

LEMMA StepReadFile ==
  ASSUME OrderInv, ReadFile
  PROVE  OrderInv'
<1> DEFINE L == Len(stack)
           f == Head(stack[L].todo)
           rest == Tail(stack[L].todo)
           new == [reading |-> f, todo |-> Prereqs[f], sfm |-> {}]
<1>0. pc = "read" /\ pc' = "read" /\ stack[L].todo # <<>>
  BY DEF ReadFile, top
<1>1. stack \in Seq(Frames) /\ L \in Nat /\ L >= 1 /\ L \in 1..L
  BY <1>0, ReadingFacts
<1>2. f \in Files /\ rest \in Seq(Files) /\ Elems(stack[L].todo) = {f} \union Elems(rest)
  <2>1. stack[L].todo \in Seq(Files)
    BY <1>1, FrameTypes
  <2> QED BY <1>0, <2>1, HeadTail
<1>3. Prereqs[f] \in Seq(Files)
  BY <1>2, OrderAssumption
<1>4. new \in Frames
  BY <1>2, <1>3 DEF Frames
<1>5. stack' = Called(stack, rest, f, new)
  BY <1>1 DEF ReadFile, top, Called
<1>6. new.reading = f /\ new.todo = Prereqs[f] /\ new.sfm = {}
  OBVIOUS
<1> HIDE DEF new, f, rest
<1>7. /\ stack' \in Seq(Frames) /\ Len(stack') = L + 1
      /\ \A k \in 1..(L - 1) : stack'[k] = stack[k]
      /\ stack'[L].reading = stack[L].reading
      /\ stack'[L].todo = rest
      /\ stack'[L].sfm = stack[L].sfm \union {f}
      /\ stack'[L + 1] = new
  BY <1>1, <1>2, <1>4, <1>5, Pushed
<1>8. ASSUME NEW k \in 1..(L + 1), NEW g \in stack'[k].sfm
      PROVE  \/ PrereqsOf(g) \subseteq stack'[k].sfm /\ Grounded(g)
             \/ k < L + 1 /\ stack'[k + 1].reading = g
  <2>1. CASE k < L
    <3>1. k \in 1..L /\ stack'[k] = stack[k]
      BY <1>1, <1>7, <2>1
    <3>2. stack'[k + 1].reading = stack[k + 1].reading
      BY <1>1, <1>7, <2>1
    <3> QED BY <1>0, <1>1, <1>8, <2>1, <3>1, <3>2, ReadingFacts
  <2>2. CASE k = L /\ g = f
    BY <1>1, <1>6, <1>7, <2>2
  <2>3. CASE k = L /\ g # f
    <3>1. g \in stack[L].sfm
      BY <1>7, <1>8, <2>3
    <3>2. PrereqsOf(g) \subseteq stack[L].sfm /\ Grounded(g)
      BY <1>0, <1>1, <3>1, ReadingFacts
    <3> QED BY <1>7, <2>3, <3>2
  <2>4. CASE k = L + 1
    BY <1>6, <1>7, <1>8, <2>4
  <2> QED BY <1>1, <2>1, <2>2, <2>3, <2>4
<1>9. ASSUME NEW k \in 2..(L + 1)
      PROVE  /\ stack'[k].reading \in Files
             /\ PrereqsOf(stack'[k].reading)
                  \subseteq stack'[k].sfm \union Elems(stack'[k].todo)
  <2>1. CASE k < L
    <3>1. k \in 2..L /\ stack'[k] = stack[k]
      BY <1>1, <1>7, <2>1
    <3> QED BY <1>0, <3>1, ReadingFacts
  <2>2. CASE k = L
    <3>1. k \in 2..L
      BY <1>1, <2>2
    <3> QED BY <1>0, <1>2, <1>7, <2>2, <3>1, ReadingFacts
  <2>3. CASE k = L + 1
    BY <1>2, <1>6, <1>7, <2>3 DEF PrereqsOf
  <2> QED BY <1>1, <2>1, <2>2, <2>3
<1>10. Elems(Paths) \subseteq stack'[1].sfm \union Elems(stack'[1].todo)
  <2>1. CASE L > 1
    BY <1>0, <1>1, <1>7, <2>1, ReadingFacts
  <2>2. CASE L = 1
    <3>1. Elems(Paths) \subseteq stack[1].sfm \union Elems(stack[1].todo)
      BY <1>0, ReadingFacts
    <3> QED BY <1>2, <1>7, <2>2, <3>1
  <2>3. L > 1 \/ L = 1
    <3>1. L \in Nat /\ L >= 1
      BY <1>1
    <3> HIDE DEF L
    <3> QED BY <3>1
  <2> QED BY <2>1, <2>2, <2>3
<1>11. Reading'
  BY <1>7, <1>8, <1>9, <1>10 DEF Reading
<1>12. ReadDone'
  <2>1. UNCHANGED <<fileOrder, sfm, pc, outcome>>
    BY DEF ReadFile, inputVars
  <2> QED BY <2>1, SameNames DEF OrderInv, ReadDone
<1>13. Values'
  <2>1. stack' \in Seq(Frames) /\ Len(stack') >= 1
    BY <1>1, <1>7
  <2> QED BY <2>1 DEF OrderInv, Values, ReadFile, scanVars, buildVars
<1>14. Inputs' /\ Sorting' /\ Position' /\ Resolving' /\ Passing' /\ Results'
  BY OnlyReading DEF ReadFile, OrderInv, Values
<1> QED BY <1>11, <1>12, <1>13, <1>14 DEF OrderInv

LEMMA StepReturnFiles ==
  ASSUME OrderInv, ReturnFiles
  PROVE  OrderInv'
<1> DEFINE L == Len(stack)
<1>0. pc = "read" /\ outcome = "running" /\ stack[L].todo = <<>>
  BY DEF ReturnFiles, top, OrderInv, Values
<1>1. stack \in Seq(Frames) /\ L \in Nat /\ L >= 1 /\ L \in 1..L
  BY <1>0, ReadingFacts
<1>a. stack[L].sfm \subseteq Files
  BY <1>1, FrameTypes
<1>b. Elems(stack[L].todo) = {}
  BY <1>0 DEF Elems
<1>2. \A g \in stack[L].sfm : PrereqsOf(g) \subseteq stack[L].sfm /\ Grounded(g)
  BY <1>0, <1>1, ReadingFacts
<1>3. Inputs' /\ Sorting' /\ Position' /\ Resolving' /\ Passing' /\ Results'
  <2>1. /\ pc' \in {"read", "dag", "returned"}
        /\ pc' # "returned" => outcome' = outcome
        /\ outcome' \in {"running", "duplicate"}
    BY <1>0 DEF ReturnFiles, Returns, Goto
  <2> QED BY <1>0, <2>1, OnlyReading DEF ReturnFiles
<1>4. CASE Returns("duplicate") /\ UNCHANGED <<stack, sfm>>
  <2>1. Reading'
    BY <1>4 DEF Reading, Returns
  <2>2. ReadDone'
    <3>1. UNCHANGED <<fileOrder, sfm>> /\ outcome' = "duplicate"
      BY <1>4 DEF ReturnFiles, inputVars, Returns
    <3> QED BY <3>1, SameNames DEF OrderInv, ReadDone
  <2>3. Values'
    BY <1>4 DEF OrderInv, Values, ReturnFiles, Returns, Outcomes, scanVars, buildVars
  <2> QED BY <1>3, <2>1, <2>2, <2>3 DEF OrderInv
<1>5. CASE /\ L > 1
           /\ stack' = Returned(stack, stack[L].sfm)
           /\ Goto("read") /\ UNCHANGED sfm
  <2>1. L >= 2 /\ L - 1 \in 1..L /\ L \in 2..L /\ (L - 1) + 1 = L
    BY <1>1, <1>5
  <2>2. /\ stack' \in Seq(Frames) /\ Len(stack') = L - 1
        /\ \A k \in 1..(L - 2) : stack'[k] = stack[k]
        /\ stack'[L - 1].reading = stack[L - 1].reading
        /\ stack'[L - 1].todo = stack[L - 1].todo
        /\ stack'[L - 1].sfm = stack[L - 1].sfm \union stack[L].sfm
    <3> DEFINE S == stack[L].sfm
    <3>1. stack' = Returned(stack, S) /\ S \subseteq Files
      BY <1>a, <1>5
    <3>2. stack \in Seq(Frames) /\ Len(stack) >= 2
      BY <1>1, <2>1
    <3> HIDE DEF S
    <3>3. /\ Returned(stack, S) \in Seq(Frames) /\ Len(Returned(stack, S)) = Len(stack) - 1
          /\ \A k \in 1..(Len(stack) - 2) : Returned(stack, S)[k] = stack[k]
          /\ Returned(stack, S)[Len(stack) - 1].reading = stack[Len(stack) - 1].reading
          /\ Returned(stack, S)[Len(stack) - 1].todo = stack[Len(stack) - 1].todo
          /\ Returned(stack, S)[Len(stack) - 1].sfm = stack[Len(stack) - 1].sfm \union S
      BY <3>1, <3>2, Popped, Zenon
    <3> QED BY <3>1, <3>3, Zenon DEF S
  <2>3. ASSUME NEW k \in 1..(L - 1), NEW g \in stack'[k].sfm
        PROVE  \/ PrereqsOf(g) \subseteq stack'[k].sfm /\ Grounded(g)
               \/ k < L - 1 /\ stack'[k + 1].reading = g
    <3>1. CASE k < L - 1
      <4>1. k \in 1..L /\ stack'[k] = stack[k] /\ stack'[k + 1].reading = stack[k + 1].reading
        BY <1>1, <2>1, <2>2, <3>1
      <4> QED BY <1>0, <1>1, <2>3, <3>1, <4>1, ReadingFacts
    <3>2. CASE k = L - 1 /\ g \in stack[L].sfm
      BY <1>2, <2>2, <3>2
    <3>3. CASE k = L - 1 /\ g \in stack[L - 1].sfm
      <4>1. CASE PrereqsOf(g) \subseteq stack[L - 1].sfm /\ Grounded(g)
        BY <2>2, <3>3, <4>1
      <4>2. CASE stack[L].reading = g
        <5>1. g \in Files /\ PrereqsOf(g) \subseteq stack[L].sfm
          BY <1>0, <1>b, <2>1, <4>2, ReadingFacts
        <5>2. Grounded(g)
          BY <1>2, <5>1, GroundedStep
        <5> QED BY <2>2, <3>3, <5>1, <5>2
      <4> QED BY <1>0, <2>1, <3>3, <4>1, <4>2, ReadingFacts
    <3> QED BY <1>1, <2>2, <2>3, <3>1, <3>2, <3>3
  <2>4. ASSUME NEW k \in 2..(L - 1)
        PROVE  /\ stack'[k].reading \in Files
               /\ PrereqsOf(stack'[k].reading)
                    \subseteq stack'[k].sfm \union Elems(stack'[k].todo)
    <3>1. k \in 2..L /\ stack'[k].reading = stack[k].reading
          /\ stack'[k].todo = stack[k].todo /\ stack[k].sfm \subseteq stack'[k].sfm
      BY <1>1, <2>1, <2>2
    <3> QED BY <1>0, <3>1, ReadingFacts
  <2>5. Elems(Paths) \subseteq stack'[1].sfm \union Elems(stack'[1].todo)
    <3>1. stack'[1].todo = stack[1].todo /\ stack[1].sfm \subseteq stack'[1].sfm
      BY <1>1, <2>1, <2>2
    <3> QED BY <1>0, <3>1, ReadingFacts
  <2>6. Reading'
    BY <2>2, <2>3, <2>4, <2>5 DEF Reading
  <2>7. ReadDone'
    <3>1. UNCHANGED <<fileOrder, sfm>> /\ pc' = "read"
      BY <1>5 DEF ReturnFiles, inputVars, Goto
    <3> QED BY <3>1, SameNames DEF OrderInv, ReadDone
  <2>8. Values'
    <3>1. stack' \in Seq(Frames) /\ Len(stack') >= 1
      BY <1>1, <2>1, <2>2
    <3> QED BY <1>0, <1>5, <3>1 DEF OrderInv, Values, ReturnFiles, Goto, scanVars, buildVars
  <2> QED BY <1>3, <2>6, <2>7, <2>8 DEF OrderInv
<1>6. CASE ~DuplicateNames(stack[L].sfm) /\ L = 1 /\ sfm' = stack[L].sfm
           /\ Goto("dag") /\ UNCHANGED stack
  <2>1. Reading'
    BY <1>6 DEF Reading, Goto
  <2>2. sfm' \subseteq Files /\ Elems(Paths) \subseteq sfm'
    BY <1>0, <1>a, <1>b, <1>6, ReadingFacts
  <2>3. ReadDone'
    <3>1. UNCHANGED fileOrder
      BY DEF ReturnFiles, inputVars
    <3>2. ~DuplicateNames(sfm)'
      BY <1>6, <3>1, SameNames
    <3>3. \A f \in sfm' : PrereqsOf(f) \subseteq sfm' /\ Grounded(f)
      BY <1>2, <1>6
    <3> QED BY <2>2, <3>2, <3>3 DEF ReadDone
  <2>4. Values'
    BY <1>0, <1>6, <2>2 DEF OrderInv, Values, ReturnFiles, Goto, scanVars, buildVars
  <2> QED BY <1>3, <2>1, <2>3, <2>4 DEF OrderInv
<1> QED BY <1>1, <1>4, <1>5, <1>6 DEF ReturnFiles, top, Returned
-----------------------------------------------------------------------------
(* StackerFilesDAG *)

\* What does not depend on the DAG.
LEMMA OnlySorting ==
  ASSUME OrderInv, pc = "dag", pc' \in {"dag", "file"},
         UNCHANGED <<inputVars, stack, sfm, n, built, scanVars, buildVars, outcome>>,
         sorted' \in Seq(Files)
  PROVE  Inputs' /\ Values' /\ Reading' /\ ReadDone' /\ Resolving' /\ Passing' /\ Results'
<1> USE DEF OrderInv, inputVars, scanVars, buildVars
<1>1. outcome = "running"
  BY DEF Values
<1>2. Inputs'
  BY DEF Inputs
<1>3. Values'
  BY DEF Values
<1>4. Reading'
  BY DEF Reading
<1>5. ReadDone'
  BY <1>1, SameNames DEF ReadDone
<1>6. Resolving'
  BY <1>1 DEF Resolving
<1>7. Passing'
  BY DEF Passing
<1>8. Results'
  <2>1. DepsBuiltFirst' /\ Distinct(done)'
    BY DEF Results, DepsBuiltFirst, Distinct, Deps
  <2>2. ~NoCache => (cached = Elems(done))'
    BY DEF Results, Elems
  <2> QED BY <1>1, <2>1, <2>2 DEF Results
<1> QED BY <1>2, <1>3, <1>4, <1>5, <1>6, <1>7, <1>8

LEMMA StepAddDependencies ==
  ASSUME OrderInv, NEW f \in Files, AddDependencies(f)
  PROVE  OrderInv'
<1> DEFINE es == edges \union {<<f, g>> : g \in PrereqsOf(f)}
<1>1. /\ pc = "dag" /\ f \in sfm
      /\ UNCHANGED <<inputVars, stack, sfm, sorted, built, n, scanVars, buildVars>>
  BY DEF AddDependencies
<1>2. /\ edges \subseteq {e \in sfm \X sfm : e[2] \in PrereqsOf(e[1])}
      /\ sfm \subseteq Files
      /\ \A h \in sfm : PrereqsOf(h) \subseteq sfm /\ Grounded(h)
  BY DEF OrderInv, Sorting, Values, ReadDone
<1>3. es \subseteq {e \in sfm \X sfm : e[2] \in PrereqsOf(e[1])}
  BY <1>1, <1>2
<1>4. Acyclic(es)
  <2>1. \A g, h : <<g, h>> \in es => h \in PrereqsOf(g)
    BY <1>3
  <2> HIDE DEF es
  <2> QED BY <1>2, <2>1, NoCycle
<1>5. edges' = es /\ pc' = "dag" /\ outcome' = outcome
  BY <1>4 DEF AddDependencies, Goto
<1>6. Sorting'
  <2>1. edges' \subseteq {e \in sfm' \X sfm' : e[2] \in PrereqsOf(e[1])}
    BY <1>1, <1>3, <1>5
  <2> HIDE DEF es
  <2>2. outcome' = "running"
    BY <1>1, <1>5 DEF OrderInv, Values
  <2> QED BY <1>1, <1>5, <2>1, <2>2 DEF OrderInv, Sorting
<1>7. Position'
  BY <1>1, <1>5 DEF OrderInv, Position, Values, buildVars
<1>8. Inputs' /\ Values' /\ Reading' /\ ReadDone' /\ Resolving' /\ Passing' /\ Results'
  <2>1. sorted' \in Seq(Files)
    BY <1>1 DEF OrderInv, Values
  <2> QED BY <1>1, <1>5, <2>1, OnlySorting
<1> QED BY <1>6, <1>7, <1>8 DEF OrderInv

LEMMA StepSort ==
  ASSUME OrderInv, NEW f \in Files, Sort(f)
  PROVE  OrderInv'
<1>1. /\ pc = "dag" /\ f \in sfm /\ f \notin Elems(sorted) /\ pc' = "dag"
      /\ sorted' = Append(sorted, f)
      /\ UNCHANGED <<inputVars, stack, sfm, edges, built, n, scanVars, buildVars, outcome>>
  BY DEF Sort, Goto
<1>2. /\ sorted \in Seq(Files) /\ sfm \subseteq Files /\ Elems(sorted) \subseteq sfm
      /\ Distinct(sorted) /\ outcome = "running"
      /\ \A i \in 1..Len(sorted) : PrereqsOf(sorted[i]) \subseteq First(sorted, i - 1)
  BY <1>1 DEF OrderInv, Sorting, Values
<1>3. PrereqsOf(f) \subseteq Elems(sorted)
  <2>1. PrereqsOf(f) \subseteq sfm
    BY <1>1 DEF OrderInv, ReadDone
  <2>2. ASSUME NEW g \in PrereqsOf(f)  PROVE g \in Elems(sorted)
    <3>1. <<f, g>> \in {e \in sfm \X sfm : e[2] \in PrereqsOf(e[1])}
      BY <1>1, <2>1
    <3> QED BY <2>1, <3>1 DEF Sort
  <2> QED BY <2>2
<1>4. /\ sorted' \in Seq(Files) /\ Len(sorted') = Len(sorted) + 1 /\ Len(sorted) \in Nat
      /\ \A i \in 1..Len(sorted) : sorted'[i] = sorted[i]
      /\ sorted'[Len(sorted) + 1] = f
  BY <1>1, <1>2, Appended
<1>5. /\ Elems(sorted)' = Elems(sorted) \union {f}
      /\ \A k \in Nat : k <= Len(sorted) => First(sorted', k) = First(sorted, k)
      /\ First(sorted, Len(sorted)) = Elems(sorted)
  BY <1>1, <1>2, AppendedElems
<1>6. Distinct(sorted)'
  BY <1>1, <1>2, AppendedDistinct
<1>7. ASSUME NEW i \in 1..Len(sorted')
      PROVE  PrereqsOf(sorted'[i]) \subseteq First(sorted', i - 1)
  <2>1. CASE i <= Len(sorted)
    <3>1. i \in 1..Len(sorted) /\ i - 1 \in Nat /\ i - 1 <= Len(sorted)
      BY <1>4, <2>1
    <3> QED BY <1>2, <1>4, <1>5, <3>1
  <2>2. CASE i = Len(sorted) + 1
    <3>1. i - 1 = Len(sorted) /\ Len(sorted) <= Len(sorted)
      BY <1>4, <2>2
    <3> QED BY <1>3, <1>4, <1>5, <2>2, <3>1
  <2> QED BY <1>4, <2>1, <2>2
<1>8. Sorting'
  <2>1. edges' \subseteq {e \in sfm' \X sfm' : e[2] \in PrereqsOf(e[1])}
    BY <1>1 DEF OrderInv, Sorting
  <2>2. (Elems(sorted) \subseteq sfm)'
    BY <1>1, <1>2, <1>5
  <2> QED BY <1>1, <1>2, <1>6, <1>7, <2>1, <2>2 DEF Sorting
<1>9. Position'
  <2>1. n' = 1 /\ built' = {} /\ done' = <<>>
    BY <1>1 DEF OrderInv, Position, buildVars
  <2>2. 1 <= Len(sorted') + 1
    BY <1>4
  <2> QED BY <1>1, <1>2, <2>1, <2>2 DEF Position
<1>10. Inputs' /\ Values' /\ Reading' /\ ReadDone' /\ Resolving' /\ Passing' /\ Results'
  BY <1>1, <1>4, OnlySorting
<1> QED BY <1>8, <1>9, <1>10 DEF OrderInv

LEMMA StepSortDone ==
  ASSUME OrderInv, SortDone
  PROVE  OrderInv'
<1>1. /\ pc = "dag" /\ Elems(sorted) = sfm /\ pc' = "file"
      /\ UNCHANGED <<inputVars, stack, sfm, edges, sorted, built, n, scanVars, buildVars, outcome>>
  BY DEF SortDone, Goto, fileVars
<1>2. Sorting'
  BY <1>1 DEF OrderInv, Sorting
<1>3. Position'
  <2>1. n = 1 /\ built = {} /\ done = <<>> /\ n <= Len(sorted) + 1 /\ outcome = "running"
    BY <1>1 DEF OrderInv, Position, Values
  <2>2. Before = {} /\ Elems(done) = {} /\ LayersIn({}) = {}
    BY <2>1 DEF Before, First, Elems, LayersIn
  <2>3. Before' = {} /\ Elems(done)' = {} /\ LayersIn({})' = {}
    BY <1>1, <2>1 DEF Before, First, Elems, LayersIn, buildVars
  <2> QED BY <1>1, <2>1, <2>3 DEF Position, buildVars
<1>4. Inputs' /\ Values' /\ Reading' /\ ReadDone' /\ Resolving' /\ Passing' /\ Results'
  <2>1. sorted' \in Seq(Files)
    BY <1>1 DEF OrderInv, Values
  <2> QED BY <1>1, <2>1, OnlySorting
<1> QED BY <1>2, <1>3, <1>4 DEF OrderInv
-----------------------------------------------------------------------------
(* BuildMultiple's loop over the files *)

LEMMA FirstGrows ==
  ASSUME NEW s, NEW k \in Nat, NEW m \in Nat, k <= m
  PROVE  First(s, k) \subseteq First(s, m)
  BY DEF First

LEMMA FirstNext ==
  ASSUME NEW s, NEW k \in Nat
  PROVE  First(s, k + 1) = First(s, k) \union {s[k + 1]}
<1>1. 1..(k + 1) = (1..k) \union {k + 1}
  OBVIOUS
<1> QED BY <1>1 DEF First

\* The layers of files do not change.
LEMMA SameLayers ==
  ASSUME UNCHANGED fileOrder, NEW S
  PROVE  LayersIn(S)' = LayersIn(S) /\ LayersOf(S)' = LayersOf(S)
  BY DEF LayersIn, LayersOf, Elems

\* The file at hand comes after its prerequisites and shares no layer with the
\* files before it.
LEMMA FileFacts ==
  ASSUME OrderInv, pc \in {"file", "scan", "layers"} \/ outcome = "unresolved", n <= Len(sorted),
         Elems(sorted) = sfm
  PROVE  /\ file \in sfm /\ file \in Files /\ fileOrder[file] \in Seq(Layers)
         /\ AllPrereqs(file) \subseteq Before /\ Before \subseteq sfm
         /\ LayersOf(file) \intersect LayersIn(Before) = {}
         /\ Cardinality(LayersOf(file)) = Len(fileOrder[file])
<1>1. /\ n \in Nat /\ n >= 1 /\ n \in 1..Len(sorted) /\ n - 1 \in Nat
      /\ sorted \in Seq(Files) /\ Len(sorted) \in Nat
  BY DEF OrderInv, Values
<1>2. /\ sfm \subseteq Files /\ Distinct(sorted) /\ ~DuplicateNames(sfm) /\ Inputs
      /\ \A i \in 1..Len(sorted) : PrereqsOf(sorted[i]) \subseteq First(sorted, i - 1)
  BY DEF OrderInv, Values, Sorting, ReadDone
<1>3. file \in sfm /\ file \in Files
  BY <1>1, <1>2 DEF file, Elems
<1>4. fileOrder[file] \in Seq(Layers)
  BY <1>2, <1>3 DEF Inputs
<1>5. Before \subseteq sfm
  BY <1>1 DEF Before, First, Elems
<1>6. AllPrereqs(file) \subseteq Before
  <2>1. PrereqsOf(file) \subseteq Before
    BY <1>1, <1>2 DEF file, Before
  <2>2. ASSUME NEW h \in Before  PROVE PrereqsOf(h) \subseteq Before
    <3>1. PICK i \in 1..(n - 1) : h = sorted[i]
      BY DEF Before, First
    <3>2. i \in 1..Len(sorted) /\ i - 1 \in Nat /\ i - 1 <= n - 1
      BY <1>1
    <3>3. First(sorted, i - 1) \subseteq First(sorted, n - 1)
      BY <1>1, <3>2, FirstGrows
    <3> QED BY <1>2, <3>1, <3>2, <3>3 DEF Before
  <2> QED BY <1>2, <1>5, <2>1, <2>2, Closed
<1>7. file \notin Before
  BY <1>1, <1>2 DEF file, Before, First, Distinct
<1>8. LayersOf(file) \intersect LayersIn(Before) = {}
  BY <1>2, <1>3, <1>5, <1>7, NoDuplicates DEF LayersIn
<1>9. Cardinality(LayersOf(file)) = Len(fileOrder[file])
  BY <1>2, <1>3, NoDuplicates
<1> QED BY <1>3, <1>4, <1>5, <1>6, <1>8, <1>9

\* What does not depend on the build.
LEMMA OnlyBuilding ==
  ASSUME OrderInv, pc \in {"file", "scan", "layers"},
         pc' \in {"file", "scan", "layers", "returned"},
         UNCHANGED <<inputVars, stack, sfm, edges, sorted>>
  PROVE  /\ Inputs' /\ Reading' /\ ReadDone' /\ Sorting'
         /\ Elems(sorted) = sfm /\ Elems(sorted)' = sfm' /\ outcome = "running"
<1> USE DEF OrderInv, inputVars
<1>1. outcome = "running"
  BY DEF Values
<1>2. Inputs'
  BY DEF Inputs
<1>3. Reading'
  BY DEF Reading
<1>4. ReadDone'
  BY <1>1, SameNames DEF ReadDone
<1>5. Elems(sorted) = sfm /\ Elems(sorted)' = sfm'
  BY DEF Sorting
<1>6. Sorting'
  BY <1>5 DEF Sorting
<1> QED BY <1>1, <1>2, <1>3, <1>4, <1>5, <1>6

\* What has been built stays built, and the cache with it.
LEMMA SameResults ==
  ASSUME OrderInv, UNCHANGED inputVars, UNCHANGED done, ~NoCache => UNCHANGED cached,
         outcome' \notin {"cycle", "prerequisite", "baseHash", "unresolved"}
  PROVE  Results'
<1>1. DepsBuiltFirst' /\ Distinct(done)'
  BY DEF OrderInv, Results, DepsBuiltFirst, Distinct, Deps, inputVars
<1>2. ~NoCache => (cached = Elems(done))'
  BY DEF OrderInv, Results, Elems
<1> QED BY <1>1, <1>2 DEF Results

\* BuildMultiple with --order-only.
LEMMA StepOrderOnly ==
  ASSUME OrderInv, OrderOnly
  PROVE  OrderInv'
<1>1. /\ pc = "dag" /\ pc' = "returned" /\ outcome' = "ordered"
      /\ UNCHANGED <<inputVars, stack, sfm, edges, sorted, built, n, pass, pos, processed, ret,
                     li, done, cached>>
  BY DEF OrderOnly, Returns, fileVars, scanVars, buildVars
<1>2. outcome = "running" /\ n = 1 /\ n <= Len(sorted) + 1
  BY <1>1 DEF OrderInv, Values, Position
<1>3. Inputs' /\ Reading'
  BY <1>1 DEF OrderInv, Inputs, Reading, inputVars
<1>4. ReadDone'
  BY <1>1, <1>2, SameNames DEF OrderInv, ReadDone, inputVars
<1>5. Sorting'
  BY <1>1 DEF OrderInv, Sorting
<1>6. Results'
  BY <1>1, SameResults
<1>7. Values'
  BY <1>1 DEF OrderInv, Values, Outcomes
<1>8. Resolving' /\ Passing' /\ Position'
  BY <1>1, <1>2 DEF Resolving, Passing, Position
<1> QED BY <1>3, <1>4, <1>5, <1>6, <1>7, <1>8 DEF OrderInv

LEMMA StepBuildFile ==
  ASSUME OrderInv, BuildFile
  PROVE  OrderInv'
<1>1. /\ pc = "file" /\ n <= Len(sorted)
      /\ UNCHANGED <<inputVars, stack, sfm, edges, sorted, built, n, li, done>>
  BY DEF BuildFile, fileVars
<1>2. Elems(sorted) = sfm /\ outcome = "running"
  BY <1>1 DEF OrderInv, Sorting, Values
<1>3. built = Before /\ AllPrereqs(file) \subseteq Before
  BY <1>1, <1>2, FileFacts DEF OrderInv, Position
<1>4. /\ processed' = LayersIn(AllPrereqs(file))
      /\ ret' = <<>> /\ pass' = 1 /\ pos' = 1 /\ pc' = "scan" /\ outcome' = outcome
  BY <1>3 DEF BuildFile, Goto, LayersIn
<1>5. cached' = IF NoCache THEN {} ELSE cached
  BY DEF BuildFile
<1>6. Inputs' /\ Reading' /\ ReadDone' /\ Sorting'
  BY <1>1, <1>4, OnlyBuilding
<1>7. Results'
  BY <1>1, <1>2, <1>4, <1>5, SameResults
<1>8. /\ file' = file /\ Before' = Before
      /\ \A S : LayersIn(S)' = LayersIn(S)
  BY <1>1, SameLayers DEF file, Before, inputVars
<1>9. Values'
  <2>1. processed' \subseteq Layers
    <3>1. Inputs /\ AllPrereqs(file) \subseteq Files
      BY DEF OrderInv, AllPrereqs
    <3> QED BY <1>4, <3>1 DEF Inputs, LayersIn, LayersOf, Elems
  <2>2. ret' \in Seq(Layers)
    BY <1>4
  <2>3. cached' \subseteq Layers
    BY <1>5 DEF OrderInv, Values
  <2> QED BY <1>1, <1>4, <2>1, <2>2, <2>3 DEF OrderInv, Values
<1>10. Position'
  BY <1>1, <1>2, <1>4, <1>8 DEF OrderInv, Position
<1>11. Resolving'
  <2>1. Elems(ret)' = {} /\ Len(ret)' = 0
    BY <1>4 DEF Elems
  <2> QED BY <1>3, <1>4, <1>8, <2>1 DEF Resolving, Distinct
<1>12. Passing'
  <2>1. Len(ret') >= pass' - 1 /\ 1..(pos' - 1) = {}
    BY <1>4
  <2>2. pos' <= Len(fileOrder'[file']) \/ Len(fileOrder'[file']) = 0
    <3>1. fileOrder[file] \in Seq(Layers)
      BY <1>1, <1>2, FileFacts
    <3>2. Len(fileOrder[file]) \in Nat
      BY <3>1
    <3> QED BY <1>1, <1>4, <1>8, <3>2 DEF inputVars
  <2> QED BY <2>1, <2>2 DEF Passing
<1> QED BY <1>6, <1>7, <1>9, <1>10, <1>11, <1>12 DEF OrderInv
-----------------------------------------------------------------------------
(* DependencyOrder *)

\* The layer that is looked at is one of the file.
LEMMA ScanFacts ==
  ASSUME OrderInv, pc = "scan"
  PROVE  /\ n <= Len(sorted) /\ Elems(sorted) = sfm /\ outcome = "running"
         /\ Len(fileOrder[file]) \in Nat /\ SfLen = Len(fileOrder[file])
         /\ pass \in Nat /\ pass >= 1 /\ pos \in Nat /\ pos >= 1
         /\ ret \in Seq(Layers) /\ Len(ret) \in Nat
         /\ pass <= Passes =>
              /\ pos \in 1..Len(fileOrder[file])
              /\ fileOrder[file][pos] \in LayersOf(file)
              /\ fileOrder[file][pos] \in Layers
<1>1. n <= Len(sorted) /\ Elems(sorted) = sfm /\ outcome = "running"
  BY DEF OrderInv, Position, Sorting, Values
<1>2. fileOrder[file] \in Seq(Layers) /\ SfLen = Len(fileOrder[file])
  BY <1>1, FileFacts DEF SfLen
<1>3. Len(fileOrder[file]) \in Nat
  BY <1>2
<1>4. /\ pass \in Nat /\ pass >= 1 /\ pos \in Nat /\ pos >= 1
      /\ ret \in Seq(Layers) /\ Len(ret) \in Nat
  BY DEF OrderInv, Values
<1>5. ASSUME pass <= Passes
      PROVE  pos \in 1..Len(fileOrder[file])
  <2>1. pos <= Len(fileOrder[file]) \/ Len(fileOrder[file]) = 0
    BY DEF OrderInv, Passing
  <2> QED BY <1>2, <1>3, <1>4, <1>5, <2>1 DEF Passes
<1>6. ASSUME pos \in 1..Len(fileOrder[file])
      PROVE  fileOrder[file][pos] \in LayersOf(file) /\ fileOrder[file][pos] \in Layers
  BY <1>2, <1>6 DEF LayersOf, Elems
<1> QED BY <1>1, <1>2, <1>3, <1>4, <1>5, <1>6

\* The result so far, without the conditions.
LEMMA ResolvingFacts ==
  ASSUME OrderInv, pc \in {"scan", "layers"}
  PROVE  /\ AllPrereqs(file) \subseteq Before
         /\ processed = LayersIn(AllPrereqs(file)) \union Elems(ret)
         /\ Elems(ret) \subseteq LayersOf(file) /\ Distinct(ret)
         /\ \A i \in 1..Len(ret) :
              Deps(ret[i]) \subseteq LayersIn(AllPrereqs(file)) \union First(ret, i - 1)
  BY DEF OrderInv, Resolving

\* A layer is ready when everything it needs is processed.
LEMMA ReadyMeans ==
  ASSUME NEW l \in Layers
  PROVE  Ready(l) <=> Deps(l) \subseteq processed
  BY DEF Ready, Deps

\* The inner and the outer loop.
NextPos(p, N) == IF p < N THEN p + 1 ELSE 1
NextPass(k, p, N) == IF p < N THEN k ELSE k + 1

LEMMA Advanced ==
  ASSUME NEW N \in Nat, NEW p \in 1..N, NEW r \in Nat, NEW k \in Nat, k >= 1
  PROVE  /\ NextPos(p, N) \in 1..N /\ NextPos(p, N) \in Nat \ {0}
         /\ NextPass(k, p, N) \in Nat \ {0}
         /\ r >= k => r + 1 >= NextPass(k, p, N)
         /\ r >= k - 1 /\ p < N => r + 1 >= NextPass(k, p, N)
         /\ r >= k - 1 /\ ~(p < N) => r + 1 >= NextPass(k, p, N) - 1
         /\ r >= k /\ ~(p < N) => r >= NextPass(k, p, N) - 1
         /\ ~(p < N) => 1..(NextPos(p, N) - 1) = {} /\ p = N
         /\ p < N => NextPass(k, p, N) = k /\ NextPos(p, N) - 1 = p
  BY DEF NextPos, NextPass

LEMMA StepScanLayer ==
  ASSUME OrderInv, ScanLayer
  PROVE  OrderInv'
<1> DEFINE N == Len(fileOrder[file])
           l == fileOrder[file][pos]
<1>1. /\ pc = "scan" /\ pass <= Passes
      /\ UNCHANGED <<inputVars, stack, sfm, edges, sorted, built, n, li, done, cached>>
  BY DEF ScanLayer, fileVars, buildVars
<1>2. /\ n <= Len(sorted) /\ Elems(sorted) = sfm /\ outcome = "running"
      /\ N \in Nat /\ pos \in 1..N /\ l \in LayersOf(file) /\ l \in Layers
      /\ pass \in Nat /\ pass >= 1 /\ ret \in Seq(Layers) /\ Len(ret) \in Nat
  BY <1>1, ScanFacts
<1>3. /\ file' = file /\ Before' = Before
      /\ \A S : LayersIn(S)' = LayersIn(S) /\ LayersOf(S)' = LayersOf(S)
  BY <1>1, SameLayers DEF file, Before, inputVars
<1>4. \A d : Deps(d)' = Deps(d)
  BY <1>1 DEF Deps, inputVars
<1>5. CASE Returns("baseless") /\ UNCHANGED scanVars
  <2>1. pc' = "returned" /\ outcome' = "baseless"
    BY <1>5 DEF Returns
  <2>2. Inputs' /\ Reading' /\ ReadDone' /\ Sorting'
    BY <1>1, <2>1, OnlyBuilding
  <2>3. Results'
    BY <1>1, <2>1, SameResults
  <2>4. Values'
    BY <1>1, <1>5, <2>1 DEF OrderInv, Values, Outcomes, scanVars
  <2>5. Position' /\ Resolving' /\ Passing'
    BY <1>1, <2>1 DEF OrderInv, Position, Resolving, Passing
  <2> QED BY <2>2, <2>3, <2>4, <2>5 DEF OrderInv
<1>6. ASSUME Advance
      PROVE  /\ Inputs' /\ Reading' /\ ReadDone' /\ Sorting' /\ Results'
             /\ Position'
             /\ pc' = "scan" /\ outcome' = "running"
             /\ pos' \in 1..N /\ pos' \in Nat \ {0} /\ pass' \in Nat \ {0}
             /\ fileOrder' = fileOrder
             /\ pos' = NextPos(pos, N) /\ pass' = NextPass(pass, pos, N)
  <2>1. pc' = "scan" /\ outcome' = "running"
    BY <1>2, <1>6 DEF Advance, Goto
  <2>2. Inputs' /\ Reading' /\ ReadDone' /\ Sorting'
    BY <1>1, <2>1, OnlyBuilding
  <2>3. Results'
    BY <1>1, <2>1, SameResults
  <2>4. Position'
    BY <1>1, <1>3, <2>1 DEF OrderInv, Position
  <2>5. pos' = NextPos(pos, N) /\ pass' = NextPass(pass, pos, N)
    BY <1>6 DEF Advance, NextPos, NextPass
  <2> HIDE DEF N
  <2>6. pos' \in 1..N /\ pos' \in Nat \ {0} /\ pass' \in Nat \ {0}
    BY <1>2, <2>5, Advanced
  <2> QED BY <1>1, <2>1, <2>2, <2>3, <2>4, <2>5, <2>6 DEF inputVars
<1>7. \/ \A m \in LayersOf(file) : Settled(m)
      \/ Len(ret) >= pass
      \/ Len(ret) >= pass - 1 /\ \A q \in 1..(pos - 1) : Settled(fileOrder[file][q])
  BY <1>1 DEF OrderInv, Passing
<1>8. CASE /\ l \notin processed /\ Ready(l)
           /\ ret' = Append(ret, l) /\ processed' = processed \union {l}
           /\ Advance
  <2> USE <1>6, <1>8
  <2> HIDE DEF l, N
  <2>1. /\ ret' \in Seq(Layers) /\ Len(ret') = Len(ret) + 1
        /\ \A i \in 1..Len(ret) : ret'[i] = ret[i]
        /\ ret'[Len(ret) + 1] = l
    BY <1>2, Appended
  <2>2. /\ Elems(ret)' = Elems(ret) \union {l}
        /\ \A k \in Nat : k <= Len(ret) => First(ret', k) = First(ret, k)
        /\ First(ret, Len(ret)) = Elems(ret)
    BY <1>2, AppendedElems
  <2>3. Values'
    <3>1. processed' \subseteq Layers
      BY <1>2 DEF OrderInv, Values
    <3> QED BY <1>1, <2>1, <3>1 DEF OrderInv, Values
  <2>4. Distinct(ret)'
    BY <1>1, <1>2, ResolvingFacts, AppendedDistinct
  <2>5. ASSUME NEW i \in 1..Len(ret')
        PROVE  Deps(ret'[i]) \subseteq LayersIn(AllPrereqs(file)) \union First(ret', i - 1)
    <3>1. CASE i <= Len(ret)
      <4>1. i \in 1..Len(ret) /\ i - 1 \in Nat /\ i - 1 <= Len(ret)
        BY <1>2, <2>1, <3>1
      <4> QED BY <1>1, <2>1, <2>2, <4>1, ResolvingFacts
    <3>2. CASE i = Len(ret) + 1
      <4>1. i - 1 = Len(ret) /\ Len(ret) <= Len(ret)
        BY <1>2, <3>2
      <4>2. Deps(l) \subseteq processed
        BY <1>2, ReadyMeans
      <4> QED BY <1>1, <1>2, <2>1, <2>2, <3>2, <4>1, <4>2, ResolvingFacts
    <3> QED BY <1>2, <2>1, <3>1, <3>2
  <2>6. Resolving'
    <3>1. processed' = LayersIn(AllPrereqs(file)) \union Elems(ret)'
      BY <1>1, <2>2, ResolvingFacts
    <3>2. Elems(ret)' \subseteq LayersOf(file) /\ AllPrereqs(file) \subseteq Before
      BY <1>1, <1>2, <2>2, ResolvingFacts
    <3> QED BY <1>3, <1>4, <2>4, <2>5, <3>1, <3>2 DEF Resolving
  <2>7. Passing'
    <3>1. ~Settled(l)
      BY DEF Settled
    <3>2. Len(ret) >= pass \/ Len(ret) >= pass - 1
      BY <1>2, <1>7, <3>1
    <3>3. /\ Len(ret) >= pass => Len(ret) + 1 >= pass'
          /\ Len(ret) >= pass - 1 /\ pos < N => Len(ret) + 1 >= pass'
          /\ Len(ret) >= pass - 1 /\ ~(pos < N) => Len(ret) + 1 >= pass' - 1
          /\ ~(pos < N) => 1..(pos' - 1) = {}
      <4>1. pos' = NextPos(pos, N) /\ pass' = NextPass(pass, pos, N)
        OBVIOUS
      <4>2. N \in Nat /\ pos \in 1..N /\ pass \in Nat /\ pass >= 1 /\ Len(ret) \in Nat
        BY <1>2
      <4> QED BY ONLY <4>1, <4>2, Advanced
    <3>4. pos' <= Len(fileOrder'[file'])
      BY <1>2, <1>3 DEF N
    <3>5. \/ Len(ret') >= pass'
          \/ Len(ret') >= pass' - 1 /\ 1..(pos' - 1) = {}
      BY <2>1, <3>2, <3>3
    <3> QED BY <3>4, <3>5 DEF Passing
  <2> QED BY <2>3, <2>6, <2>7 DEF OrderInv
<1>9. CASE /\ Settled(l)
           /\ Advance /\ UNCHANGED <<ret, processed>>
  <2> USE <1>6, <1>9
  <2>1. Values'
    BY <1>1 DEF OrderInv, Values
  <2>2. Resolving'
    BY <1>1, <1>3, <1>4, ResolvingFacts DEF Resolving
  <2>3. \A m : Settled(m)' = Settled(m)
    BY <1>1 DEF Settled, Ready, inputVars
  <2>4. Passing'
    <3> HIDE DEF N
    <3>1. /\ pos < N => pass' = pass /\ pos' - 1 = pos
          /\ Len(ret) >= pass /\ ~(pos < N) => Len(ret) >= pass' - 1
          /\ ~(pos < N) => 1..(pos' - 1) = {} /\ pos = N
      <4>1. pos' = NextPos(pos, N) /\ pass' = NextPass(pass, pos, N)
        OBVIOUS
      <4>2. N \in Nat /\ pos \in 1..N /\ pass \in Nat /\ pass >= 1 /\ Len(ret) \in Nat
        BY <1>2
      <4> DEFINE r == Len(ret)
      <4> HIDE DEF r
      <4>3. pos < N => pass' = pass /\ pos' - 1 = pos
        BY ONLY <4>1, <4>2, Advanced
      <4>4. r >= pass /\ ~(pos < N) => r >= pass' - 1
        <5>1. r \in Nat
          BY <4>2 DEF r
        <5> QED BY ONLY <4>1, <4>2, <5>1, Advanced
      <4>5. ~(pos < N) => 1..(pos' - 1) = {} /\ pos = N
        BY ONLY <4>1, <4>2, Advanced
      <4> QED BY <4>3, <4>4, <4>5 DEF r
    <3>2. pos' <= Len(fileOrder'[file'])
      BY <1>2, <1>3 DEF N
    <3>3. CASE \A m \in LayersOf(file) : Settled(m)
      BY <1>3, <2>3, <3>2, <3>3 DEF Passing
    <3>4. CASE Len(ret) >= pass
      <4>1. \/ Len(ret') >= pass'
            \/ Len(ret') >= pass' - 1 /\ 1..(pos' - 1) = {}
        BY <3>1, <3>4
      <4> QED BY <3>2, <4>1 DEF Passing
    <3>5. CASE Len(ret) >= pass - 1 /\ \A q \in 1..(pos - 1) : Settled(fileOrder[file][q])
      <4>1. \A q \in 1..pos : Settled(fileOrder[file][q])
        <5>1. \A q \in 1..pos : q = pos \/ q \in 1..(pos - 1)
          BY <1>2
        <5> QED BY <3>5, <5>1
      <4>2. CASE pos < N
        BY <1>3, <2>3, <3>1, <3>2, <3>5, <4>1, <4>2 DEF Passing
      <4>3. CASE ~(pos < N)
        <5>1. \A m \in LayersOf(file) : Settled(m)
          BY <3>1, <4>1, <4>3 DEF LayersOf, Elems, N
        <5> QED BY <1>3, <2>3, <3>2, <5>1 DEF Passing
      <4> QED BY <4>2, <4>3
    <3> QED BY <1>7, <3>3, <3>4, <3>5
  <2> QED BY <2>1, <2>2, <2>4 DEF OrderInv
<1> QED BY <1>5, <1>8, <1>9 DEF ScanLayer, Settled
\* The result has at most as many layers as the file, and all of them if it has
\* as many.
LEMMA ResultCounts ==
  ASSUME OrderInv, pc = "scan"
  PROVE  /\ SfLen \in Nat /\ Len(ret) <= SfLen
         /\ Len(ret) = SfLen <=> Elems(ret) = LayersOf(file)
<1>1. ret \in Seq(Layers) /\ Distinct(ret) /\ Elems(ret) \subseteq LayersOf(file)
  BY ScanFacts, ResolvingFacts
<1>2. fileOrder[file] \in Seq(Layers)
  BY ScanFacts, FileFacts
<1>3. Cardinality(Elems(ret)) = Len(ret)
  BY <1>1, Counted
<1>4. IsFiniteSet(LayersOf(file)) /\ SfLen \in Nat
  BY <1>2, Counted DEF LayersOf, SfLen
<1>5. /\ Cardinality(Elems(ret)) <= Cardinality(LayersOf(file))
      /\ Cardinality(LayersOf(file)) = Cardinality(Elems(ret)) => LayersOf(file) = Elems(ret)
  BY <1>1, <1>4, FS_Subset
<1> QED BY <1>3, <1>4, <1>5 DEF SfLen

\* After as many passes as there are layers, the ones that are left wait for each
\* other or for a layer that is nowhere.
LEMMA NothingLeft ==
  ASSUME OrderInv, pc = "scan", pass > Passes, Len(ret) # SfLen
  PROVE  NoOrder(file)
<1> DEFINE U == LayersOf(file) \ Elems(ret)
           pre == LayersIn(AllPrereqs(file))
<1>1. \A l \in LayersOf(file) : Settled(l)
  <2>1. /\ SfLen \in Nat /\ Len(ret) <= SfLen /\ Len(ret) \in Nat /\ pass \in Nat
        /\ pass > SfLen /\ Len(ret) # SfLen
    BY ScanFacts, ResultCounts DEF Passes
  <2>2. ~(Len(ret) >= pass) /\ ~(Len(ret) >= pass - 1)
    BY <2>1
  <2> QED BY <2>2 DEF OrderInv, Passing
<1>2. U # {}
  BY ResultCounts, ResolvingFacts
<1>3. processed = pre \union Elems(ret) /\ LayersOf(file) \intersect pre = {}
  <2>1. LayersOf(file) \intersect LayersIn(Before) = {} /\ AllPrereqs(file) \subseteq Before
    BY ScanFacts, FileFacts
  <2> QED BY <2>1, ResolvingFacts DEF LayersIn
<1>4. LayersOf(file) \subseteq Layers
  <2>1. fileOrder[file] \in Seq(Layers)
    BY ScanFacts, FileFacts
  <2> QED BY <2>1 DEF LayersOf, Elems
<1>5. ASSUME NEW l \in U
      PROVE  \E d \in Deps(l) : d \in U \/ d \notin LayersOf(file) \union pre
  <2>1. l \in Layers /\ ~Ready(l)
    BY <1>1, <1>3, <1>4 DEF Settled
  <2>2. PICK d \in Deps(l) : d \notin processed
    BY <2>1, ReadyMeans
  <2> QED BY <1>3, <2>2
<1>6. U \in (SUBSET LayersOf(file)) \ {{}}
  BY <1>2
<1>7. pre = UNION {LayersOf(g) : g \in AllPrereqs(file)}
  BY DEF LayersIn
<1> HIDE DEF U, pre
<1> QED BY <1>5, <1>6, <1>7 DEF NoOrder

LEMMA StepResolved ==
  ASSUME OrderInv, Resolved
  PROVE  OrderInv'
<1>1. /\ pc = "scan" /\ pass > Passes
      /\ UNCHANGED <<inputVars, stack, sfm, edges, sorted, n, pass, pos, processed, ret, done, cached>>
  BY DEF Resolved, scanVars
<1>2. n <= Len(sorted) /\ Elems(sorted) = sfm /\ outcome = "running"
  BY <1>1, ScanFacts
<1>3. /\ file' = file /\ Before' = Before
      /\ \A S : LayersIn(S)' = LayersIn(S) /\ LayersOf(S)' = LayersOf(S)
  BY <1>1, SameLayers DEF file, Before, inputVars
<1>4. \A d : Deps(d)' = Deps(d)
  BY <1>1 DEF Deps, inputVars
<1>5. Resolving'
  BY <1>1, <1>3, <1>4, ResolvingFacts DEF Resolving
<1>6. DepsBuiltFirst' /\ Distinct(done)' /\ (~NoCache => (cached = Elems(done))')
  <2>1. DepsBuiltFirst'
    <3>1. UNCHANGED <<done, imports, base>>
      BY <1>1 DEF inputVars
    <3>2. DepsBuiltFirst
      BY DEF OrderInv, Results
    <3> QED BY <3>1, <3>2 DEF DepsBuiltFirst, Deps
  <2>2. Distinct(done)' /\ (~NoCache => (cached = Elems(done))')
    BY <1>1 DEF OrderInv, Results
  <2> QED BY <2>1, <2>2
<1>7. CASE Len(ret) # SfLen /\ Returns("unresolved") /\ UNCHANGED <<built, li>>
  <2>1. pc' = "returned" /\ outcome' = "unresolved"
    BY <1>7 DEF Returns
  <2>2. Inputs' /\ Reading' /\ ReadDone' /\ Sorting'
    BY <1>1, <2>1, OnlyBuilding
  <2>3. NoOrder(file)'
    <3>1. NoOrder(file)
      BY <1>1, <1>7, NothingLeft
    <3>2. \A f : NoOrder(f)' = NoOrder(f)
      BY <1>1 DEF NoOrder, Deps, LayersOf, Elems, inputVars
    <3> QED BY <1>3, <3>1, <3>2
  <2>4. Results'
    BY <1>6, <2>1, <2>3 DEF Results
  <2>5. Values'
    BY <1>1, <1>7, <2>1 DEF OrderInv, Values, Outcomes
  <2>6. Position' /\ Passing'
    BY <1>1, <1>2, <2>1 DEF OrderInv, Position, Passing
  <2> QED BY <1>5, <2>2, <2>4, <2>5, <2>6 DEF OrderInv
<1>8. CASE Returns("colon") /\ UNCHANGED <<built, li>>
  <2>1. pc' = "returned" /\ outcome' = "colon"
    BY <1>8 DEF Returns
  <2>2. Inputs' /\ Reading' /\ ReadDone' /\ Sorting'
    BY <1>1, <2>1, OnlyBuilding
  <2>3. Results'
    BY <1>6, <2>1 DEF Results
  <2>4. Values'
    BY <1>1, <1>8, <2>1 DEF OrderInv, Values, Outcomes
  <2>5. Position' /\ Passing'
    BY <1>1, <1>2, <2>1 DEF OrderInv, Position, Passing
  <2> QED BY <1>5, <2>2, <2>3, <2>4, <2>5 DEF OrderInv
<1>9. CASE Len(ret) = SfLen /\ built' = built \union {file} /\ li' = 1 /\ Goto("layers")
  <2>1. pc' = "layers" /\ outcome' = "running"
    BY <1>2, <1>9 DEF Goto
  <2>2. Inputs' /\ Reading' /\ ReadDone' /\ Sorting'
    BY <1>1, <2>1, OnlyBuilding
  <2>3. Results'
    BY <1>6, <2>1 DEF Results
  <2>4. Values'
    <3>1. file \in Files
      BY <1>1, <1>2, FileFacts
    <3> QED BY <1>1, <1>9, <2>1, <3>1 DEF OrderInv, Values
  <2>5. Passing'
    BY <2>1 DEF Passing
  <2>6. Position'
    <3>1. built = Before /\ Elems(done) = LayersIn(Before)
      BY <1>1 DEF OrderInv, Position
    <3>2. Elems(ret) = LayersOf(file)
      BY <1>1, <1>9, ResultCounts
    <3>3. First(ret', li' - 1) = {}
      BY <1>9 DEF First
    <3>4. li' <= Len(ret') + 1 /\ n' <= Len(sorted') + 1 /\ n' <= Len(sorted')
      <4>1. Len(ret) \in Nat
        BY <1>1, ScanFacts
      <4>2. n <= Len(sorted) + 1
        BY DEF OrderInv, Position
      <4> QED BY <1>1, <1>2, <1>9, <4>1, <4>2
    <3> QED BY <1>1, <1>3, <1>9, <2>1, <3>1, <3>2, <3>3, <3>4 DEF Position
  <2> QED BY <1>5, <2>2, <2>3, <2>4, <2>5, <2>6 DEF OrderInv
<1> QED BY <1>7, <1>8, <1>9 DEF Resolved

-----------------------------------------------------------------------------
(* The loop over the layers *)

LEMMA BuildFacts ==
  ASSUME OrderInv, pc = "layers"
  PROVE  /\ n <= Len(sorted) /\ n <= Len(sorted) + 1 /\ Elems(sorted) = sfm /\ outcome = "running"
         /\ n \in Nat /\ n >= 1 /\ li \in Nat /\ li >= 1 /\ li <= Len(ret) + 1
         /\ ret \in Seq(Layers) /\ Len(ret) \in Nat
         /\ done \in Seq(Layers) /\ Len(done) \in Nat
         /\ built = Before \union {file} /\ Elems(ret) = LayersOf(file)
         /\ Elems(done) = LayersIn(Before) \union First(ret, li - 1)
<1>1. /\ n \in Nat /\ n >= 1 /\ li \in Nat /\ li >= 1
      /\ ret \in Seq(Layers) /\ done \in Seq(Layers)
  BY DEF OrderInv, Values
<1>2. Len(ret) \in Nat /\ Len(done) \in Nat
  BY <1>1
<1> QED BY <1>1, <1>2 DEF OrderInv, Values, Position, Sorting

LEMMA StepBuildLayer ==
  ASSUME OrderInv, BuildLayer
  PROVE  OrderInv'
<1> DEFINE l == ret[li]
<1>1. /\ pc = "layers" /\ li <= Len(ret)
      /\ UNCHANGED <<inputVars, stack, sfm, edges, sorted, built, n, pass, pos, processed, ret>>
  BY DEF BuildLayer, fileVars, scanVars
<1>2. /\ li \in 1..Len(ret) /\ li - 1 \in Nat /\ li \in Nat
      /\ l \in Layers /\ l \in LayersOf(file)
  BY <1>1, BuildFacts DEF Elems
<1>3. /\ file' = file /\ Before' = Before
      /\ \A S : LayersIn(S)' = LayersIn(S) /\ LayersOf(S)' = LayersOf(S)
  BY <1>1, SameLayers DEF file, Before, inputVars
<1>4. \A d : Deps(d)' = Deps(d)
  BY <1>1 DEF Deps, inputVars
<1>5. Resolving'
  BY <1>1, <1>3, <1>4, ResolvingFacts DEF Resolving
<1>6. Deps(l) \subseteq Elems(done)
  <2>1. LayersIn(AllPrereqs(file)) \subseteq LayersIn(Before)
    BY <1>1, ResolvingFacts DEF LayersIn
  <2> QED BY <1>1, <1>2, <2>1, BuildFacts, ResolvingFacts
<1>7. l \notin Elems(done)
  <2>1. l \notin LayersIn(Before)
    BY <1>1, <1>2, BuildFacts, FileFacts
  <2>2. l \notin First(ret, li - 1)
    BY <1>1, <1>2, BuildFacts, ResolvingFacts DEF First, Distinct
  <2> QED BY <1>1, <2>1, <2>2, BuildFacts
<1>8. CASE Returns("baseHash") /\ UNCHANGED buildVars /\ ~(base[l] = None \/ base[l] \in cached)
  <2>1. pc' = "returned" /\ outcome' = "baseHash" /\ UNCHANGED <<li, done, cached>>
    BY <1>8 DEF Returns, buildVars
  <2>2. NoCache
    <3>1. base[l] \in Deps(l)
      BY <1>8 DEF Deps
    <3> QED BY <1>6, <1>8, <3>1 DEF OrderInv, Results
  <2>3. Inputs' /\ Reading' /\ ReadDone' /\ Sorting'
    BY <1>1, <2>1, OnlyBuilding
  <2>4. DepsBuiltFirst' /\ Distinct(done)'
    BY <1>4, <2>1 DEF OrderInv, Results, DepsBuiltFirst
  <2>5. Results'
    BY <2>1, <2>2, <2>4 DEF Results
  <2>6. Values'
    BY <1>1, <2>1 DEF OrderInv, Values, Outcomes
  <2>7. Position' /\ Passing'
    BY <1>1, <2>1 DEF OrderInv, Position, Passing
  <2> QED BY <1>5, <2>3, <2>5, <2>6, <2>7 DEF OrderInv
<1>9. CASE /\ cached' = cached \union {l} /\ done' = Append(done, l)
           /\ li' = li + 1 /\ Goto("layers")
  <2> HIDE DEF l
  <2>1. pc' = "layers" /\ outcome' = "running"
    BY <1>1, <1>9, BuildFacts DEF Goto
  <2>2. Inputs' /\ Reading' /\ ReadDone' /\ Sorting'
    BY <1>1, <2>1, OnlyBuilding
  <2>3. /\ done \in Seq(Layers) /\ done' \in Seq(Layers)
        /\ Len(done') = Len(done) + 1 /\ Len(done) \in Nat
        /\ \A i \in 1..Len(done) : done'[i] = done[i]
        /\ done'[Len(done) + 1] = l
    BY <1>1, <1>2, <1>9, BuildFacts, Appended
  <2>4. /\ Elems(done)' = Elems(done) \union {l}
        /\ \A k \in Nat : k <= Len(done) => First(done', k) = First(done, k)
        /\ First(done, Len(done)) = Elems(done)
    BY <1>2, <1>9, <2>3, AppendedElems
  <2>5. Distinct(done)'
    <3>1. Distinct(done)
      BY DEF OrderInv, Results
    <3> QED BY <1>2, <1>7, <1>9, <2>3, <3>1, AppendedDistinct
  <2>6. DepsBuiltFirst'
    <3>1. ASSUME NEW i \in 1..Len(done')
          PROVE  Deps(done'[i]) \subseteq First(done', i - 1)
      <4>1. CASE i <= Len(done)
        <5>1. i \in 1..Len(done) /\ i - 1 \in Nat /\ i - 1 <= Len(done)
          BY <2>3, <4>1
        <5>2. Deps(done[i]) \subseteq First(done, i - 1)
          BY <5>1 DEF OrderInv, Results, DepsBuiltFirst, First
        <5> QED BY <2>3, <2>4, <5>1, <5>2
      <4>2. CASE i = Len(done) + 1
        <5>1. i - 1 = Len(done) /\ Len(done) <= Len(done)
          BY <2>3, <4>2
        <5> QED BY <1>6, <2>3, <2>4, <4>2, <5>1
      <4> QED BY <2>3, <4>1, <4>2
    <3> QED BY <1>4, <3>1 DEF DepsBuiltFirst, First
  <2>7. Results'
    <3>1. ~NoCache => cached' = Elems(done)'
      BY <1>9, <2>4 DEF OrderInv, Results
    <3> QED BY <2>1, <2>5, <2>6, <3>1 DEF Results
  <2>8. Values'
    <3>1. cached' \subseteq Layers
      BY <1>2, <1>9 DEF OrderInv, Values
    <3>2. li' \in Nat \ {0}
      BY <1>2, <1>9
    <3> QED BY <1>1, <2>1, <2>3, <3>1, <3>2 DEF OrderInv, Values
  <2>9. Passing'
    BY <2>1 DEF Passing
  <2>10. Position'
    <3>1. (li' - 1 = (li - 1) + 1) /\ li' <= Len(ret) + 1 /\ (li - 1) + 1 = li
      BY <1>1, <1>2, <1>9, BuildFacts
    <3>2. First(ret', li' - 1) = First(ret, li - 1) \union {l}
      BY <1>1, <1>2, <3>1, FirstNext DEF l
    <3>3. Elems(done)' = LayersIn(Before) \union First(ret', li' - 1)
      BY <1>1, <2>4, <3>2, BuildFacts
    <3> QED BY <1>1, <1>3, <2>1, <3>1, <3>3, BuildFacts DEF Position
  <2> QED BY <1>5, <2>2, <2>7, <2>8, <2>9, <2>10 DEF OrderInv
<1> QED BY <1>8, <1>9 DEF BuildLayer

LEMMA StepNextFile ==
  ASSUME OrderInv, NextFile
  PROVE  OrderInv'
<1>1. /\ pc = "layers" /\ li > Len(ret) /\ n' = n + 1 /\ pc' = "file" /\ outcome' = outcome
      /\ UNCHANGED <<inputVars, stack, sfm, edges, sorted, built, pass, pos, processed, ret,
                     li, done, cached>>
  BY DEF NextFile, Goto, fileVars, scanVars, buildVars
<1>2. outcome = "running"
  BY <1>1, BuildFacts
<1>3. Inputs' /\ Reading' /\ ReadDone' /\ Sorting'
  BY <1>1, OnlyBuilding
<1>4. Results'
  BY <1>1, <1>2, SameResults
<1>5. Values'
  <2>1. n' \in Nat \ {0}
    BY <1>1, BuildFacts
  <2> QED BY <1>1, <2>1 DEF OrderInv, Values
<1>6. Resolving' /\ Passing'
  BY <1>1, <1>2 DEF Resolving, Passing
<1>7. Position'
  <2>1. /\ n \in Nat /\ n - 1 \in Nat /\ (n - 1) + 1 = n /\ n' - 1 = n /\ n' <= Len(sorted) + 1
        /\ li - 1 = Len(ret)
    <3>1. /\ n \in Nat /\ n >= 1 /\ n <= Len(sorted) /\ li \in Nat /\ li <= Len(ret) + 1
          /\ Len(ret) \in Nat
      BY <1>1, BuildFacts
    <3>2. Len(sorted) \in Nat
      BY DEF OrderInv, Values
    <3> QED BY <1>1, <3>1, <3>2
  <2>2. First(sorted, n) = Before \union {file}
    BY <2>1, FirstNext DEF Before, file
  <2>3. Before' = Before \union {file}
    BY <1>1, <2>1, <2>2 DEF Before
  <2>4. First(ret, li - 1) = LayersOf(file)
    <3>1. First(ret, Len(ret)) = Elems(ret)
      BY DEF First, Elems
    <3> QED BY <1>1, <2>1, <3>1, BuildFacts
  <2>5. LayersIn(Before \union {file}) = LayersIn(Before) \union LayersOf(file)
    BY DEF LayersIn
  <2>6. Elems(done) = LayersIn(Before \union {file}) /\ built = Before \union {file}
    BY <1>1, <2>4, <2>5, BuildFacts
  <2>7. LayersIn(Before \union {file}) = LayersIn(Before)'
    BY <1>1, <2>3 DEF LayersIn, LayersOf, inputVars
  <2> QED BY <1>1, <1>2, <2>1, <2>3, <2>6, <2>7 DEF Position
<1> QED BY <1>3, <1>4, <1>5, <1>6, <1>7 DEF OrderInv

LEMMA StepReturn ==
  ASSUME OrderInv, Return
  PROVE  OrderInv'
<1>1. /\ pc = "file" /\ n > Len(sorted) /\ pc' = "returned" /\ outcome' = "ok"
      /\ UNCHANGED <<inputVars, stack, sfm, edges, sorted, built, n, pass, pos, processed, ret,
                     li, done, cached>>
  BY DEF Return, Returns, fileVars, scanVars, buildVars
<1>2. Inputs' /\ Reading' /\ ReadDone' /\ Sorting'
  BY <1>1, OnlyBuilding
<1>3. Results'
  BY <1>1, SameResults
<1>4. Values'
  BY <1>1 DEF OrderInv, Values, Outcomes
<1>5. Resolving' /\ Passing'
  BY <1>1 DEF Resolving, Passing
<1>6. Position'
  <2>1. n = Len(sorted) + 1
    <3>1. n \in Nat /\ n <= Len(sorted) + 1 /\ Len(sorted) \in Nat
      BY DEF OrderInv, Position, Values
    <3> QED BY <1>1, <3>1
  <2>2. Before' = Before /\ \A S : LayersIn(S)' = LayersIn(S)
    BY <1>1, SameLayers DEF Before, inputVars
  <2>3. Elems(done) = LayersIn(Before) /\ n <= Len(sorted) + 1
    BY <1>1 DEF OrderInv, Position
  <2> QED BY <1>1, <2>1, <2>2, <2>3 DEF Position
<1> QED BY <1>2, <1>3, <1>4, <1>5, <1>6 DEF OrderInv

-----------------------------------------------------------------------------
(* The theorems *)

\* The invariant holds in every state of every invocation.
THEOREM OrderIsKept == Spec => []OrderInv
<1>1. ASSUME OrderInv, [Next]_vars  PROVE OrderInv'
  <2>1. CASE UNCHANGED vars
    <3>1. UNCHANGED <<inputVars, fileVars, scanVars, buildVars, pc, n, outcome>>
      BY <2>1 DEF vars
    <3>0. OrderInv
      BY <1>1
    <3> USE <3>0, <3>1 DEF inputVars, fileVars, scanVars, buildVars
    <3>2. Inputs' /\ Values' /\ Reading' /\ Sorting'
      <4>1. Inputs' /\ Values'
        BY DEF OrderInv, Inputs, Values
      <4>2. Reading'
        BY DEF OrderInv, Reading
      <4>3. Sorting'
        BY DEF OrderInv, Sorting
      <4> QED BY <4>1, <4>2, <4>3
    <3>3. ReadDone'
      BY SameNames DEF OrderInv, ReadDone
    <3>4. /\ file' = file /\ Before' = Before
          /\ \A S : LayersIn(S)' = LayersIn(S) /\ LayersOf(S)' = LayersOf(S)
      BY SameLayers DEF file, Before
    <3>5. Position'
      BY <3>4 DEF OrderInv, Position
    <3>6. \A d : Deps(d)' = Deps(d) /\ Settled(d)' = Settled(d)
      BY DEF Deps, Settled, Ready
    <3>7. Resolving'
      BY <3>4, <3>6 DEF OrderInv, Resolving
    <3>8. Passing'
      BY <3>4, <3>6 DEF OrderInv, Passing
    <3>9. \A f : NoOrder(f)' = NoOrder(f)
      BY DEF NoOrder, Deps, LayersOf, Elems
    <3>10. DepsBuiltFirst'
      <4>1. UNCHANGED <<base, imports, done>>
        OBVIOUS
      <4>2. DepsBuiltFirst
        BY DEF OrderInv, Results
      <4> QED BY ONLY <4>1, <4>2 DEF DepsBuiltFirst, Deps
    <3>11. Results'
      BY <3>4, <3>9, <3>10 DEF OrderInv, Results
    <3> QED BY <3>2, <3>3, <3>5, <3>7, <3>8, <3>11 DEF OrderInv
  <2>2. CASE Next
    BY <1>1, <2>2, StepReadFile, StepReturnFiles, StepAddDependencies, StepSort, StepSortDone,
       StepOrderOnly, StepBuildFile, StepScanLayer, StepResolved, StepBuildLayer, StepNextFile, StepReturn
       DEF Next
  <2> QED BY <1>1, <2>1, <2>2
<1> QED BY <1>1, Started, PTL DEF Spec

\* Every variable keeps its type, and DependencyOrder never indexes past the end
\* of the file it scans.
THEOREM TypeCorrect == Spec => []TypeOK
<1>1. OrderInv => TypeOK
  <2> SUFFICES ASSUME OrderInv PROVE TypeOK
    OBVIOUS
  <2>1. edges \subseteq Files \X Files
    BY DEF OrderInv, Sorting, Values
  <2>2. pc = "scan" /\ pass <= Passes => pos \in 1..Len(fileOrder[file])
    BY ScanFacts
  <2> QED BY <2>1, <2>2 DEF OrderInv, Inputs, Values, Frames, TypeOK
<1> QED BY <1>1, OrderIsKept, PTL

\* Whatever is built, its base and the layers it imports from were built before:
\* for any files, prerequisites and dependencies, well-formed or not.
THEOREM DependenciesFirst == Spec => []DepsBuiltFirst
<1>1. OrderInv => DepsBuiltFirst
  BY DEF OrderInv, Results
<1> QED BY <1>1, OrderIsKept, PTL

\* No layer is built twice, and BuildMultiple's success means that all layers of
\* the files named and of all their prerequisites were built.
THEOREM BuiltOnceAndAll == Spec => []EachBuiltOnce
<1>1. OrderInv => EachBuiltOnce
  <2> SUFFICES ASSUME OrderInv PROVE EachBuiltOnce
    OBVIOUS
  <2>1. \A i, j \in 1..Len(done) : i # j => done[i] # done[j]
    BY DEF OrderInv, Results, Distinct
  <2>2. ASSUME outcome = "ok", NEW f \in Elems(Paths), NEW g \in {f} \union AllPrereqs(f)
        PROVE  LayersOf(g) \subseteq Elems(done)
    <3>1. /\ pc = "returned" /\ Elems(Paths) \subseteq sfm /\ sfm \subseteq Files
          /\ \A h \in sfm : PrereqsOf(h) \subseteq sfm
          /\ Elems(sorted) = sfm
      BY <2>2 DEF OrderInv, Values, ReadDone, Sorting
    <3>2. g \in sfm
      BY <2>2, <3>1, Closed
    <3>3. n - 1 = Len(sorted)
      <4>1. n = Len(sorted) + 1 /\ Len(sorted) \in Nat
        BY <2>2 DEF OrderInv, Position, Values
      <4> QED BY <4>1
    <3>4. Before = sfm
      BY <3>1, <3>3 DEF Before, First, Elems
    <3>5. Elems(done) = LayersIn(sfm)
      BY <2>2, <3>4 DEF OrderInv, Position
    <3> QED BY <3>2, <3>5 DEF LayersIn
  <2> QED BY <2>1, <2>2 DEF EachBuiltOnce
<1> QED BY <1>1, OrderIsKept, PTL

\* The build fails only for a reason that is in the stackerfiles: as many passes
\* as there are layers find every order there is, StackerFilesDAG never meets a
\* cycle, no prerequisite is missing, and without --no-cache every base is in
\* the cache when Put asks for it.
THEOREM FailuresAreJustified ==
  ASSUME ~NoCache
  PROVE  Spec => []FailureIsJustified
<1>1. OrderInv => FailureIsJustified
  BY DEF OrderInv, Results, FailureIsJustified
<1> QED BY <1>1, OrderIsKept, PTL
=============================================================================
