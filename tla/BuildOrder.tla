----------------------------- MODULE BuildOrder -----------------------------
(***************************************************************************)
(* In which order BuildMultiple (pkg/stacker/build.go) builds what: it     *)
(* reads the stackerfiles and their prerequisites (NewStackerFiles), sorts *)
(* them (StackerFilesDAG), and for each file in turn computes the order of *)
(* its layers (DependencyOrder) and builds them, remembering each one in   *)
(* the build cache.  One invocation, one process: what is hard here is the *)
(* input, so the layers' dependencies are chosen freely in Init.           *)
(***************************************************************************)
EXTENDS Naturals, Sequences, FiniteSets

CONSTANTS
  Files,          \* paths of stackerfiles
  Paths,          \* the files named on the command line, a sequence
  Prereqs,        \* Prereqs[f]: the sequence f's config.prerequisites
  Layers,         \* layer names
  FileOrders,     \* the maps from files to the layers they define, in order
  Bases,          \* the maps from layers to the layer they are built from,
                  \* None for another kind of base
  StackerImports, \* the maps from layers to the layers they import from
  Baseless,       \* the layers without a "from"
  Colons,         \* the layers with a ':' in their name
  NoCache,        \* --no-cache
  MaxDepth,       \* bound on the recursion of NewStackerFiles
  None

ASSUME OrderAssumption ==
  /\ None \notin Layers
  /\ Paths \in Seq(Files)
  /\ Prereqs \in [Files -> Seq(Files)]
  /\ FileOrders \subseteq [Files -> Seq(Layers)]
  /\ Bases \subseteq [Layers -> Layers \union {None}]
  /\ StackerImports \subseteq [Layers -> SUBSET Layers]
  /\ Baseless \subseteq Layers /\ Colons \subseteq Layers
  /\ NoCache \in BOOLEAN
  /\ MaxDepth \in Nat

VARIABLES
  fileOrder,     \* fileOrder[f]: the layers in the order f defines them
  base, imports, \* the dependencies of this invocation's layers
  pc,            \* the step that is next
  stack,         \* NewStackerFiles' frames: whose prerequisites, paths to
                 \* read, files read
  sfm,           \* the StackerFiles it returned
  edges,         \* the DAG's edges <<file, prerequisite>>
  sorted,        \* the files in the order of the DAG
  n,             \* BuildMultiple's position in sorted
  built,         \* builtStackerfiles
  pass, pos,     \* DependencyOrder's two loops
  processed,     \* its map of processed layers
  ret,           \* its result so far
  li,            \* build()'s position in the result
  done,          \* the layers built so far, in order
  cached,        \* the layers that have an entry in the build cache
  outcome        \* "running", "ok", or the error

inputVars == <<fileOrder, base, imports>>
fileVars == <<stack, sfm, edges, sorted, built>>
scanVars == <<pass, pos, processed, ret>>
buildVars == <<li, done, cached>>
vars == <<inputVars, pc, fileVars, n, scanVars, buildVars, outcome>>

-----------------------------------------------------------------------------
Elems(seq) == {seq[i] : i \in 1..Len(seq)}

PrereqsOf(f) == Elems(Prereqs[f])

LayersOf(f) == Elems(fileOrder[f])

\* addPrerequisites: the prerequisites of f, theirs, and so on.
AllPrereqs(f) ==
  {g \in Files : \A S \in SUBSET Files :
     PrereqsOf(f) \subseteq S /\ (\A h \in S : PrereqsOf(h) \subseteq S)
       => g \in S}

\* The layers that l needs: its base, and those it imports stacker:// from.
Deps(l) == imports[l] \union ({base[l]} \ {None})

Init ==
  /\ fileOrder \in FileOrders
  /\ base \in Bases /\ imports \in StackerImports
  /\ pc = "read"
  /\ stack = <<[reading |-> None, todo |-> Paths, sfm |-> {}]>>
  /\ sfm = {} /\ edges = {} /\ sorted = <<>>
  /\ n = 1 /\ built = {}
  /\ pass = 1 /\ pos = 1 /\ processed = {} /\ ret = <<>>
  /\ li = 1 /\ done = <<>> /\ cached = {}
  /\ outcome = "running"

Goto(label) == pc' = label /\ UNCHANGED outcome

Returns(why) == pc' = "returned" /\ outcome' = why

-----------------------------------------------------------------------------
(* NewStackerFiles *)

top == stack[Len(stack)]

\* Reads one file and calls itself with its prerequisites.
ReadFile ==
  /\ pc = "read" /\ top.todo # <<>>
  /\ Len(stack) <= MaxDepth
  /\ LET f == Head(top.todo) IN
     stack' = Append([stack EXCEPT ![Len(stack)].todo = Tail(@),
                                   ![Len(stack)].sfm = @ \union {f}],
                     [reading |-> f, todo |-> Prereqs[f], sfm |-> {}])
  /\ UNCHANGED <<inputVars, pc, sfm, edges, sorted, built, n, scanVars,
                 buildVars, outcome>>

\* Some name is defined twice, in one file or in two.
DuplicateNames(files) ==
  \/ \E f \in files : Cardinality(LayersOf(f)) # Len(fileOrder[f])
  \/ \E f, g \in files : f # g /\ LayersOf(f) \intersect LayersOf(g) # {}

\* Mutant of ReturnFiles: the names are not compared.
ReturnFilesUnchecked ==
  /\ pc = "read" /\ top.todo = <<>>
  /\ \/ /\ Len(stack) > 1
        /\ stack' = [SubSeq(stack, 1, Len(stack) - 1) EXCEPT
                       ![Len(stack) - 1].sfm = @ \union top.sfm]
        /\ Goto("read") /\ UNCHANGED sfm
     \/ /\ Len(stack) = 1
        /\ sfm' = top.sfm
        /\ Goto("dag") /\ UNCHANGED stack
  /\ UNCHANGED <<inputVars, edges, sorted, built, n, scanVars, buildVars>>

\* It returns its map to its caller, unless a name is defined twice.
ReturnFiles ==
  /\ pc = "read" /\ top.todo = <<>>
  /\ \/ /\ DuplicateNames(top.sfm)
        /\ Returns("duplicate") /\ UNCHANGED <<stack, sfm>>
     \/ /\ ~DuplicateNames(top.sfm) /\ Len(stack) > 1
        /\ stack' = [SubSeq(stack, 1, Len(stack) - 1) EXCEPT
                       ![Len(stack) - 1].sfm = @ \union top.sfm]
        /\ Goto("read") /\ UNCHANGED sfm
     \/ /\ ~DuplicateNames(top.sfm) /\ Len(stack) = 1
        /\ sfm' = top.sfm
        /\ Goto("dag") /\ UNCHANGED stack
  /\ UNCHANGED <<inputVars, edges, sorted, built, n, scanVars, buildVars>>

-----------------------------------------------------------------------------
(* StackerFilesDAG *)

\* isAcyclic.
Acyclic(es) == \A S \in (SUBSET sfm) \ {{}} :
                 \E f \in S : \A g \in S : <<f, g>> \notin es

\* AddDependencies of one file, in the random order of a Go map.
AddDependencies(f) ==
  LET es == edges \union {<<f, g>> : g \in PrereqsOf(f)} IN
  /\ pc = "dag"
  /\ f \in sfm /\ ~(PrereqsOf(f) \subseteq {e[2] : e \in {e \in edges : e[1] = f}})
  /\ IF Acyclic(es) THEN edges' = es /\ Goto("dag")
     ELSE Returns("cycle") /\ UNCHANGED edges
  /\ UNCHANGED <<inputVars, stack, sfm, sorted, built, n, scanVars, buildVars>>

\* The next file of a topological sort of the finished DAG: external, any
\* order that puts prerequisites first.
Sort(f) ==
  /\ pc = "dag"
  /\ edges = {e \in sfm \X sfm : e[2] \in PrereqsOf(e[1])}
  /\ f \in sfm \ Elems(sorted)
  /\ \A g \in sfm : <<f, g>> \in edges => g \in Elems(sorted)
  /\ sorted' = Append(sorted, f)
  /\ Goto("dag")
  /\ UNCHANGED <<inputVars, stack, sfm, edges, built, n, scanVars, buildVars>>

SortDone ==
  /\ pc = "dag" /\ Elems(sorted) = sfm
  /\ Goto("file")
  /\ UNCHANGED <<inputVars, fileVars, n, scanVars, buildVars>>

\* With --order-only BuildMultiple ends here.
OrderOnly ==
  /\ pc = "dag" /\ Elems(sorted) = sfm
  /\ Returns("ordered")
  /\ UNCHANGED <<inputVars, fileVars, n, scanVars, buildVars>>

-----------------------------------------------------------------------------
(* build(): DependencyOrder, then the layers *)

file == sorted[n]

\* --no-cache removes the stacker dir; addPrerequisites looks the files up in
\* builtStackerfiles.
BuildFile ==
  /\ pc = "file" /\ n <= Len(sorted)
  /\ cached' = IF NoCache THEN {} ELSE cached
  /\ IF AllPrereqs(file) \subseteq built
     THEN /\ processed' = UNION {LayersOf(g) : g \in AllPrereqs(file)}
          /\ ret' = <<>> /\ pass' = 1 /\ pos' = 1
          /\ Goto("scan")
     ELSE Returns("prerequisite") /\ UNCHANGED scanVars
  /\ UNCHANGED <<inputVars, fileVars, n, li, done>>

\* Mutant of Advance: the inner loop does not start over.
AdvanceNoWrap ==
  /\ pos' = pos + 1
  /\ pass' = IF pos < Len(fileOrder[file]) THEN pass ELSE pass + 1
  /\ Goto("scan")

\* Mutant of Advance: the passes are not counted.
AdvanceStuck ==
  /\ pos' = IF pos < Len(fileOrder[file]) THEN pos + 1 ELSE 1
  /\ Goto("scan")
  /\ UNCHANGED pass

\* The inner loop goes on to the next layer, or the outer one to the next pass.
Advance ==
  /\ pos' = IF pos < Len(fileOrder[file]) THEN pos + 1 ELSE 1
  /\ pass' = IF pos < Len(fileOrder[file]) THEN pass ELSE pass + 1
  /\ Goto("scan")

\* Mutant of Ready: imports are not looked at.
ReadyBaseOnly(l) == base[l] = None \/ base[l] \in processed

\* No import is from an unprocessed layer, and the base is processed.
Ready(l) ==
  /\ imports[l] \subseteq processed
  /\ base[l] = None \/ base[l] \in processed

\* s.Len(): a map, so a repeated name would count once.
SfLen == Cardinality(LayersOf(file))

\* Mutant of Passes: the outer loop ends one pass too early.
PassesShort == SfLen - 1

\* The outer loop makes as many passes as the file has layers.
Passes == SfLen

ScanLayer ==
  LET l == fileOrder[file][pos] IN
  /\ pc = "scan" /\ pass <= Passes
  /\ \/ /\ l \notin processed /\ l \in Baseless
        /\ Returns("baseless") /\ UNCHANGED scanVars
     \/ /\ l \notin processed \union Baseless /\ Ready(l)
        /\ ret' = Append(ret, l)
        /\ processed' = processed \union {l}
        /\ Advance
     \/ /\ l \in processed \/ (l \notin Baseless /\ ~Ready(l))
        /\ Advance /\ UNCHANGED <<ret, processed>>
  /\ UNCHANGED <<inputVars, fileVars, n, buildVars>>

\* DependencyOrder returns; the names are checked and the file is remembered.
Resolved ==
  /\ pc = "scan" /\ pass > Passes
  /\ \/ /\ Len(ret) # SfLen
        /\ Returns("unresolved") /\ UNCHANGED <<built, li>>
     \/ /\ Len(ret) = SfLen
        /\ Elems(ret) \intersect Colons # {}
        /\ Returns("colon") /\ UNCHANGED <<built, li>>
     \/ /\ Len(ret) = SfLen
        /\ Elems(ret) \intersect Colons = {}
        /\ built' = built \union {file}
        /\ li' = 1
        /\ Goto("layers")
  /\ UNCHANGED <<inputVars, stack, sfm, edges, sorted, n, scanVars, done, cached>>

\* The loop over the layers; Put asks the cache for the hash of the base.
BuildLayer ==
  LET l == ret[li] IN
  /\ pc = "layers" /\ li <= Len(ret)
  /\ IF base[l] = None \/ base[l] \in cached
     THEN /\ cached' = cached \union {l}
          /\ done' = Append(done, l)
          /\ li' = li + 1
          /\ Goto("layers")
     ELSE Returns("baseHash") /\ UNCHANGED buildVars
  /\ UNCHANGED <<inputVars, fileVars, n, scanVars>>

NextFile ==
  /\ pc = "layers" /\ li > Len(ret)
  /\ n' = n + 1
  /\ Goto("file")
  /\ UNCHANGED <<inputVars, fileVars, scanVars, buildVars>>

Return ==
  /\ pc = "file" /\ n > Len(sorted)
  /\ Returns("ok")
  /\ UNCHANGED <<inputVars, fileVars, n, scanVars, buildVars>>

-----------------------------------------------------------------------------
Next ==
  \/ ReadFile \/ ReturnFiles
  \/ \E f \in Files : AddDependencies(f) \/ Sort(f)
  \/ SortDone \/ OrderOnly \/ BuildFile \/ ScanLayer \/ Resolved \/ BuildLayer \/ NextFile \/ Return

Spec == Init /\ [][Next]_vars

FairSpec == Spec /\ WF_vars(Next)

-----------------------------------------------------------------------------
(* Properties *)

Outcomes == {"running", "ok", "ordered", "duplicate", "cycle", "prerequisite", "baseless",
             "unresolved", "colon", "baseHash"}

\* Every variable has the type the code declares, and the index into the layers
\* of a file never leaves the file while it is scanned.
TypeOK ==
  /\ fileOrder \in [Files -> Seq(Layers)]
  /\ base \in [Layers -> Layers \union {None}]
  /\ imports \in [Layers -> SUBSET Layers]
  /\ pc \in {"read", "dag", "file", "scan", "layers", "returned"}
  /\ stack \in Seq([reading : Files \union {None},
                    todo : Seq(Files), sfm : SUBSET Files])
  /\ sfm \subseteq Files /\ edges \subseteq Files \X Files
  /\ sorted \in Seq(Files) /\ built \subseteq Files
  /\ n \in Nat \ {0} /\ pass \in Nat /\ li \in Nat
  /\ pc = "scan" /\ pass <= Passes => pos \in 1..Len(fileOrder[file])
  /\ processed \subseteq Layers /\ ret \in Seq(Layers)
  /\ done \in Seq(Layers) /\ cached \subseteq Layers
  /\ outcome \in Outcomes

\* doc of DependencyOrder: "in the order in which they should be built so all
\* dependencies are satisfied": whatever is built, its base and everything it
\* imports from were built before it, in this file or in a prerequisite.
DepsBuiltFirst ==
  \A i \in 1..Len(done) : Deps(done[i]) \subseteq {done[j] : j \in 1..(i - 1)}

\* No layer name is built twice by an invocation: two files that define it
\* would overwrite each other's rootfs and cache entry.  And doc/stacker_yaml.md:
\* stacker "will make sure to build all the layers in the stacker.yaml files
\* found at the paths contained in the list": success means that every file
\* named and every prerequisite is completely built.
EachBuiltOnce ==
  /\ \A i, j \in 1..Len(done) : i # j => done[i] # done[j]
  /\ outcome = "ok" =>
       \A f \in Elems(Paths) : \A g \in {f} \union AllPrereqs(f) :
         LayersOf(g) \subseteq Elems(done)

\* There is no order for f's layers: some of them wait for each other, or for
\* a layer that neither f nor a prerequisite defines.
NoOrder(f) ==
  LET known == LayersOf(f) \union UNION {LayersOf(g) : g \in AllPrereqs(f)} IN
  \E U \in (SUBSET LayersOf(f)) \ {{}} :
    \A l \in U : \E d \in Deps(l) : d \in U \/ d \notin known

\* "couldn't resolve some dependencies" is only said when there is no order:
\* as many passes as there are layers are always enough.  Nor does the build
\* trip over its own order: the prerequisites of a file are built before it
\* (builtStackerfiles), and the base of a layer, which doc/stacker_yaml.md lets
\* it take "from the same stacker file or its prerequisites", is in the cache
\* when Put hashes it.
FailureIsJustified ==
  /\ outcome = "unresolved" => NoOrder(file)
  /\ outcome \notin {"cycle", "prerequisite", "baseHash"}

\* Every invocation returns.
Termination == <>(pc = "returned")
=============================================================================
