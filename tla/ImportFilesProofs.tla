-------------------------- MODULE ImportFilesProofs --------------------------
(***************************************************************************)
(* Proofs about ImportFiles for any sources, stackerfiles and number of    *)
(* builds: the type invariant, and that Import leaves the current version  *)
(* of every import in the layer's directory, with the hash that was asked  *)
(* for and with nothing else beside it (ImportsFresh, HashHonoured), after *)
(* any history of failed, killed and successful builds.  The second part   *)
(* needs the conditions under which the reuse of files is right (Regular): *)
(* outside of them the code does reuse the wrong file.                     *)
(***************************************************************************)
EXTENDS ImportFiles, TLAPS

\* The current import is being worked on.
AtWork == {"download", "body", "verify", "copy"}

Types ==
  /\ source \in [Sources -> Versions]
  /\ want \in Wants
  /\ disk \in [Bases -> Files \union {None}]
  /\ copies \in [Slots -> Files \union {None}]
  /\ entry # None => entry \subseteq Sources
  /\ pc \in {"idle", "acquire", "imported"} \union AtWork
  /\ remoteHash \in Versions \union {None}
  /\ existing \subseteq Bases
  /\ outcome \in {"none", "running", "imported", "failed", "badHash"}
  /\ runs \in Nat /\ runs <= MaxRuns

Position ==
  /\ pos \in Nat /\ 1 <= pos
  /\ pc # "idle" => pos <= Len(want) + 1
  /\ pc \in AtWork => pos <= Len(want)

-----------------------------------------------------------------------------
(* When what is found in the directory may be trusted *)

\* No two imports without a dest have the same name in one stackerfile, and none
\* has the name that an import with a dest gets in any.
OwnNames ==
  \A w, x \in Wants : \A i \in 1..Len(w), j \in Plain(x) :
    (w = x /\ i # j) \/ w[i].dest => NameOf(w[i]) # Base[x[j].path]

\* HEAD requests succeed, and every server whose files are kept in the directory
\* sends a hash; no version of another source of that name, and no other version
\* of the same source, has the same size.
SizesTell ==
  /\ "offline" \notin Faults
  /\ \A w \in Wants : \A i \in Plain(w) : Kind[w[i].path] = "http" =>
       /\ w[i].path \in HashHeader
       /\ \A t \in Sources, u, v \in Versions :
            Base[t] = Base[w[i].path] /\ Size[t][u] = Size[w[i].path][v] =>
              t = w[i].path /\ u = v

\* Hashes are given for the kinds of imports that check them, in lower case if
\* they are compared as they are written.
HashesUsable ==
  \A w \in Wants : \A i \in 1..Len(w) : w[i].hash # None =>
    /\ Kind[w[i].path] # "stacker"
    /\ Kind[w[i].path] = "http" => ~w[i].upper

Regular == OwnNames /\ SizesTell /\ HashesUsable

-----------------------------------------------------------------------------
(* The inductive invariant of Import's loop *)

\* The i-th import is there, and has the hash that was asked for.
Done(i) ==
  /\ Imported(i) = File(want[i].path, source[want[i].path], TRUE)
  /\ want[i].hash \in {None, source[want[i].path]}

\* Imports are done in order; directories of imports with a dest start empty.
Progress ==
  pc # "idle" =>
    /\ pc = "imported" => pos > Len(want)
    /\ \A i \in 1..Len(want) : i < pos => Done(i)
    /\ \A i \in 1..Len(want) :
         i > pos \/ (i = pos /\ pc \in {"acquire", "download"}) => copies[i] = None

\* What is known about the import at hand.
Current ==
  /\ pc \in {"download", "body", "verify"} => Kind[imp.path] = "http"
  /\ pc = "download" =>
       /\ imp.path \in HashHeader => remoteHash = source[imp.path]
       /\ imp.hash # None /\ remoteHash # None => imp.hash = remoteHash
  /\ pc = "verify" => Target = File(imp.path, source[imp.path], TRUE)
  /\ pc = "copy" => imp.hash \in {None, source[imp.path]}

\* Some stackerfile puts a file b into the directory.
PlainBase(b) == \E w \in Wants : \E j \in Plain(w) : b = Base[w[j].path]

\* The i-th import of this build has put b into the directory.
PutBy(b, i) ==
  /\ b = Base[want[i].path]
  /\ i < pos \/ (i = pos /\ pc \in {"body", "verify", "copy"})

\* Every file in the directory came from an import without a dest, of that name;
\* in a build it is an import of this build or will be deleted at the end of it.
Accounted ==
  /\ \A b \in Bases : disk[b] # None => PlainBase(b) /\ Base[disk[b].of] = b
  /\ pc # "idle" => \A b \in existing : PlainBase(b)
  /\ pc \notin {"idle", "imported"} =>
       \A b \in Bases : disk[b] # None =>
         b \in existing \/ \E i \in Plain(want) : PutBy(b, i)
  /\ pc # "idle" => \A i \in Plain(want) : i < pos => Base[want[i].path] \notin existing
  /\ pc = "imported" =>
       \A b \in Bases : disk[b] # None => \E i \in Plain(want) : b = Base[want[i].path]

\* A hash is only said not to match if it does not.
Rejected == outcome = "badHash" => /\ pc = "idle"
                                   /\ want[pos].hash # source[want[pos].path]

TypesInv == Types /\ Position

FreshInv == TypesInv /\ Progress /\ Current /\ Accounted /\ Rejected

-----------------------------------------------------------------------------
(* Types *)

LEMMA WantIsSeq ==
  ASSUME NEW w \in Wants
  PROVE  /\ w \in Seq(Imports) /\ Len(w) \in Nat
         /\ \A i \in 1..Len(w) :
              /\ w[i] \in Imports /\ i \in Slots
              /\ w[i].path \in Sources /\ w[i].hash \in Versions \union {None}
              /\ Base[w[i].path] \in Bases
<1>1. w \in Seq(Imports) /\ Len(w) \in Nat
  BY ImportAssumption
<1>2. ASSUME NEW i \in 1..Len(w)
      PROVE  /\ w[i] \in Imports /\ i \in Slots
             /\ w[i].path \in Sources /\ w[i].hash \in Versions \union {None}
             /\ Base[w[i].path] \in Bases
  <2>1. w[i] \in Imports
    BY <1>1
  <2>2. i \in Slots
    BY DEF Slots
  <2> QED BY <2>1, <2>2, ImportAssumption DEF Imports
<1> QED BY <1>1, <1>2

LEMMA FileIsFile ==
  ASSUME NEW s \in Sources, NEW v \in Versions, NEW b \in BOOLEAN
  PROVE  File(s, v, b) \in Files /\ File(s, v, b) # None
  BY ImportAssumption DEF File, Files

\* The current import, while there is one.
LEMMA CurrentImport ==
  ASSUME TypesInv, pos <= Len(want)
  PROVE  /\ pos \in 1..Len(want) /\ pos \in Slots
         /\ imp \in Imports /\ imp.path \in Sources
         /\ imp.hash \in Versions \union {None}
         /\ Base[imp.path] \in Bases
         /\ source[imp.path] \in Versions
<1>1. pos \in 1..Len(want)
  BY WantIsSeq DEF TypesInv, Types, Position
<1> QED BY <1>1, WantIsSeq DEF TypesInv, Types, imp

LEMMA SetTargetTypes ==
  ASSUME TypesInv, pos <= Len(want), NEW f \in Files \union {None}, SetTarget(f)
  PROVE  /\ disk' \in [Bases -> Files \union {None}]
         /\ copies' \in [Slots -> Files \union {None}]
  BY CurrentImport DEF TypesInv, Types, SetTarget

LEMMA InitTypes == Init => TypesInv
<1> SUFFICES ASSUME Init PROVE TypesInv
  OBVIOUS
<1>1. source \in [Sources -> Versions]
  BY ImportAssumption DEF Init
<1> QED BY <1>1, ImportAssumption, WantIsSeq
        DEF Init, TypesInv, Types, Position, AtWork, NoCopies

LEMMA StepTypes ==
  ASSUME TypesInv, [Next]_vars
  PROVE  TypesInv'
<1> USE ImportAssumption, WantIsSeq
    DEF TypesInv, Types, Position, AtWork, Goto, Fails, Acquired
<1>c. pos <= Len(want) =>
        /\ File(imp.path, source[imp.path], TRUE) \in Files
        /\ File(imp.path, source[imp.path], FALSE) \in Files
  BY CurrentImport, FileIsFile
<1>1. ASSUME NEW s \in Sources, EditSource(s) PROVE TypesInv'
  BY <1>1 DEF EditSource
<1>2. CASE EditStackerfile
  BY <1>2 DEF EditStackerfile
<1>3. CASE Start
  BY <1>3 DEF Start, NoCopies
<1>4. CASE GetHttpFileInfo
  <2>1. RemoteHash \subseteq Versions \union {None}
    BY <1>4, CurrentImport DEF GetHttpFileInfo, RemoteHash
  <2> QED BY <1>4, <2>1 DEF GetHttpFileInfo
<1>5. CASE UseCachedCopy
  BY <1>5 DEF UseCachedCopy
<1>6. CASE Get
  BY <1>6, <1>c, SetTargetTypes DEF Get
<1>7. CASE Body
  <2>1. /\ disk' \in [Bases -> Files \union {None}]
        /\ copies' \in [Slots -> Files \union {None}]
    BY <1>7, <1>c, SetTargetTypes DEF Body
  <2> QED BY <1>7, <2>1 DEF Body
<1>8. CASE Verify
  BY <1>8, SetTargetTypes DEF Verify
<1>9. CASE ImportFile
  <2>1. /\ disk' \in [Bases -> Files \union {None}]
        /\ copies' \in [Slots -> Files \union {None}]
    BY <1>9, <1>c, SetTargetTypes DEF ImportFile
  <2>2. CASE Acquired
    BY <1>9, <2>1, <2>2 DEF ImportFile
  <2>3. CASE Fails("badHash") \/ Goto("copy")
    BY <1>9, <2>1, <2>3 DEF ImportFile
  <2> QED BY <1>9, <2>2, <2>3 DEF ImportFile
<1>10. CASE Grab
  BY <1>10, <1>c, SetTargetTypes DEF Grab
<1>11. CASE FileCopy
  <2>1. /\ disk' \in [Bases -> Files \union {None}]
        /\ copies' \in [Slots -> Files \union {None}]
    BY <1>11, <1>c, SetTargetTypes DEF FileCopy
  <2> QED BY <1>11, <2>1 DEF FileCopy
<1>12. CASE DeleteOldImports
  BY <1>12 DEF DeleteOldImports
<1>13. CASE Build
  <2>1. {want[i].path : i \in Plain(want)} \subseteq Sources
    BY DEF Plain
  <2>2. entry' # None => entry' \subseteq Sources
    BY <1>13, <2>1 DEF Build
  <2> QED BY <1>13, <2>2 DEF Build
<1>14. CASE Kill
  BY <1>14 DEF Kill
<1>15. CASE UNCHANGED vars
  BY <1>15 DEF vars
<1> QED BY <1>1, <1>2, <1>3, <1>4, <1>5, <1>6, <1>7, <1>8, <1>9, <1>10, <1>11,
           <1>12, <1>13, <1>14, <1>15 DEF Next, Download

LEMMA TypesInvariant == Spec => []TypesInv
<1>1. TypesInv /\ [Next]_vars => TypesInv'
  BY StepTypes
<1> QED BY InitTypes, <1>1, PTL DEF Spec

\* The state of Import and of its directories is well typed, and acquireUrl is
\* never called for an import past the end of the section.
THEOREM TypeCorrect == Spec => []TypeOK
<1>1. TypesInv => TypeOK
  <2> SUFFICES ASSUME TypesInv PROVE TypeOK
    OBVIOUS
  <2>1. Len(want) \in Nat
    BY WantIsSeq DEF TypesInv, Types
  <2> QED BY <2>1, ImportAssumption DEF TypesInv, Types, Position, AtWork, TypeOK
<1> QED BY TypesInvariant, <1>1, PTL

-----------------------------------------------------------------------------
(* What one import may do to the others *)

\* A step on the current import leaves the files of the others alone, and makes
\* no file in the directory but its own.
Moved ==
  /\ \A i \in 1..Len(want) : i # pos => /\ Imported(i)' = Imported(i)
                                       /\ copies'[i] = copies[i]
  /\ \A b \in Bases : disk'[b] # None =>
       \/ disk'[b] = disk[b]
       \/ ~imp.dest /\ b = Base[imp.path] /\ disk'[b].of = imp.path

LEMMA TargetMoved ==
  ASSUME TypesInv, OwnNames, pos <= Len(want), want' = want,
         NEW f, f = None \/ f.of = imp.path, SetTarget(f)
  PROVE  Moved /\ \A i : i = pos => Imported(i)' = f
<1> USE WantIsSeq, CurrentImport DEF TypesInv, Types, SetTarget, Imported, imp
<1>1. \A i \in 1..Len(want) : i \in Slots /\ Base[want[i].path] \in Bases
  OBVIOUS
<1>2. CASE imp.dest
  <2>1. disk' = disk /\ copies' = [copies EXCEPT ![pos] = f]
    BY <1>2
  <2>2. \A i \in 1..Len(want) : i # pos => Imported(i)' = Imported(i)
    BY <1>1, <2>1
  <2> QED BY <1>1, <1>2, <2>1, <2>2 DEF Moved
<1>3. CASE ~imp.dest
  <2>1. \A i \in 1..Len(want) : i # pos /\ ~want[i].dest =>
          Base[want[i].path] # Base[want[pos].path]
    BY <1>3 DEF OwnNames, Plain, NameOf
  <2>2. copies' = copies /\ disk' = [disk EXCEPT ![Base[imp.path]] = f]
    BY <1>3
  <2>3. \A i \in 1..Len(want) : i # pos => Imported(i)' = Imported(i)
    BY <1>1, <2>1, <2>2
  <2> QED BY <1>1, <1>3, <2>2, <2>3 DEF Moved
<1> QED BY <1>2, <1>3

LEMMA TargetKept ==
  ASSUME UNCHANGED <<disk, copies, want>>
  PROVE  Moved /\ \A i : Imported(i)' = Imported(i)
  BY DEF Moved, Imported

LEMMA PlainHere ==
  ASSUME TypesInv, NEW i \in Plain(want)
  PROVE  PlainBase(Base[want[i].path])
  BY DEF TypesInv, Types, PlainBase

\* Whatever a step on the current import does, the directory holds only files of
\* imports without a dest.
LEMMA MovedPlain ==
  ASSUME FreshInv, pos <= Len(want), Moved
  PROVE  \A b \in Bases : disk'[b] # None => PlainBase(b) /\ Base[disk'[b].of] = b
<1>1. ~imp.dest => PlainBase(Base[imp.path])
  BY CurrentImport, PlainHere DEF FreshInv, Plain, imp
<1> QED BY <1>1 DEF FreshInv, Accounted, Moved

\* acquireUrl has returned the path of a file that is what it should be.
LEMMA AcquiredFresh ==
  ASSUME FreshInv, TypesInv', OwnNames, pc \in {"acquire"} \union AtWork,
         pos <= Len(want), Acquired, UNCHANGED <<source, want>>, Moved,
         \A i : i = pos => Done(i)'
  PROVE  FreshInv'
<1> USE WantIsSeq, CurrentImport DEF FreshInv, TypesInv, Types, Position
<1>1. /\ pos \in 1..Len(want) /\ pos' = pos + 1 /\ pc' = "acquire"
      /\ existing' = existing \ {NameOf(imp)} /\ outcome' = outcome
      /\ pc # "idle" /\ pc # "imported"
  BY DEF Acquired, AtWork
<1>2. Progress'
  <2>1. ASSUME NEW i \in 1..Len(want), i < pos' PROVE Done(i)'
    <3>1. CASE i = pos
      BY <3>1
    <3>2. CASE i # pos
      <4>1. i < pos /\ Done(i)
        BY <1>1, <2>1, <3>2 DEF Progress
      <4> QED BY <3>2, <4>1 DEF Done, Moved
    <3> QED BY <3>1, <3>2
  <2>2. ASSUME NEW i \in 1..Len(want), i >= pos' PROVE copies'[i] = None
    <3>1. i > pos /\ i # pos
      BY <1>1, <2>2
    <3> QED BY <1>1, <3>1 DEF Progress, Moved
  <2> QED BY <1>1, <2>1, <2>2 DEF Progress
<1>3. Current' /\ Rejected'
  BY <1>1 DEF Current, Rejected
<1>4. Accounted'
  <2>1. \A b \in existing : PlainBase(b)
    BY <1>1 DEF Accounted
  <2>2. imp.dest => ~PlainBase(NameOf(imp))
    BY <1>1 DEF OwnNames, PlainBase, imp
  <2>n. ~imp.dest => NameOf(imp) = Base[imp.path]
    BY DEF NameOf
  <2>3. ASSUME NEW b \in Bases, disk'[b] # None
        PROVE  b \in existing' \/ \E i \in Plain(want) : PutBy(b, i)'
    <3>1. CASE b = Base[imp.path] /\ ~imp.dest
      <4>1. pos \in Plain(want) /\ \A i : i = pos => PutBy(b, i)'
        BY <1>1, <3>1 DEF Plain, PutBy, imp
      <4> QED BY <4>1
    <3>2. CASE ~(b = Base[imp.path] /\ ~imp.dest)
      <4>1. disk[b] # None
        BY <2>3, <3>2 DEF Moved
      <4>2. CASE b \in existing
        BY <1>1, <2>1, <2>2, <2>n, <3>2, <4>2
      <4>3. CASE \E i \in Plain(want) : PutBy(b, i)
        <5>1. PICK i \in Plain(want) : PutBy(b, i)
          BY <4>3
        <5>2. i \in 1..Len(want) /\ i < pos'
          BY <1>1, <5>1 DEF PutBy, Plain
        <5> QED BY <5>1, <5>2 DEF PutBy
      <4> QED BY <1>1, <4>1, <4>2, <4>3 DEF Accounted
    <3> QED BY <3>1, <3>2
  <2>4. ASSUME NEW i \in Plain(want), i < pos'
        PROVE  Base[want[i].path] \notin existing'
    <3>1. CASE i = pos
      BY <1>1, <2>n, <3>1 DEF imp, Plain
    <3>2. CASE i # pos
      <4>1. i < pos
        BY <1>1, <2>4, <3>2 DEF Plain
      <4> QED BY <1>1, <4>1 DEF Accounted
    <3> QED BY <3>1, <3>2
  <2> QED BY <1>1, <2>1, <2>3, <2>4, MovedPlain DEF Accounted, PlainBase
<1> QED BY <1>2, <1>3, <1>4

\* acquireUrl goes on with the current import.
LEMMA GotoFresh ==
  ASSUME FreshInv, TypesInv', pc \in {"acquire"} \union AtWork, pos <= Len(want),
         NEW label \in AtWork, Goto(label), UNCHANGED <<source, want>>, Moved,
         Current',
         label = "download" => pc = "acquire" /\ UNCHANGED <<disk, copies>>
  PROVE  FreshInv'
<1> USE WantIsSeq, CurrentImport DEF FreshInv, TypesInv, Types, Position
<1>1. /\ pos \in 1..Len(want) /\ pos' = pos /\ pc' = label
      /\ existing' = existing /\ outcome' = outcome
      /\ pc # "idle" /\ pc # "imported" /\ label # "idle" /\ label # "imported"
      /\ label # "acquire"
  BY DEF Goto, AtWork
<1>2. Progress'
  <2>1. ASSUME NEW i \in 1..Len(want), i < pos' PROVE Done(i)'
    <3>1. i < pos /\ i # pos /\ Done(i)
      BY <1>1, <2>1 DEF Progress
    <3> QED BY <3>1 DEF Done, Moved
  <2>2. ASSUME NEW i \in 1..Len(want), i > pos' PROVE copies'[i] = None
    BY <1>1, <2>2 DEF Progress, Moved
  <2>3. ASSUME label = "download" PROVE copies'[pos] = None
    BY <1>1, <2>3 DEF Progress
  <2> QED BY <1>1, <2>1, <2>2, <2>3 DEF Progress
<1>3. Rejected'
  BY <1>1 DEF Rejected
<1>4. Accounted'
  <2>1. ASSUME NEW b \in Bases, disk'[b] # None
        PROVE  b \in existing' \/ \E i \in Plain(want) : PutBy(b, i)'
    <3>1. CASE disk[b] # None
      <4>1. ASSUME NEW i \in Plain(want), PutBy(b, i) PROVE PutBy(b, i)'
        BY <1>1, <4>1 DEF PutBy, AtWork
      <4> QED BY <1>1, <3>1, <4>1 DEF Accounted
    <3>2. CASE disk[b] = None
      <4>1. ~imp.dest /\ b = Base[imp.path] /\ label # "download"
        BY <2>1, <3>2 DEF Moved
      <4>2. pos \in Plain(want) /\ \A i : i = pos => PutBy(b, i)'
        BY <1>1, <4>1 DEF Plain, PutBy, imp, AtWork
      <4> QED BY <4>2
    <3> QED BY <3>1, <3>2
  <2>2. \A i \in Plain(want) : i < pos' => Base[want[i].path] \notin existing'
    BY <1>1 DEF Accounted
  <2> QED BY <1>1, <2>1, <2>2, MovedPlain DEF Accounted, PlainBase
<1> QED BY <1>2, <1>3, <1>4

\* The build ends, or the user is at work.
LEMMA StopFresh ==
  ASSUME TypesInv', pc' = "idle", Rejected',
         \A b \in Bases : disk'[b] # None => PlainBase(b) /\ Base[disk'[b].of] = b
  PROVE  FreshInv'
  BY DEF FreshInv, Progress, Current, Accounted, AtWork, PlainBase

\* The file Download reuses is the one the server has now.
LEMMA ReusedIsCurrent ==
  ASSUME FreshInv, Regular, pc = "download", Reusable(Target)
  PROVE  Done(pos)
<1> USE CurrentImport, WantIsSeq DEF FreshInv, TypesInv, Types
<1>1. pos \in 1..Len(want) /\ want[pos] = imp /\ Target = Imported(pos)
  BY DEF Position, AtWork, imp, Target, Imported
<1>2. ~imp.dest
  BY <1>1 DEF Progress, Reusable, Target
<1>3. /\ imp.path \in HashHeader
      /\ \A t \in Sources, u, v \in Versions :
           Base[t] = Base[imp.path] /\ Size[t][u] = Size[imp.path][v] =>
             t = imp.path /\ u = v
  BY <1>1, <1>2 DEF Regular, SizesTell, Plain, Current
<1>4. /\ remoteHash = source[imp.path] /\ remoteHash # None
      /\ imp.hash \in {None, source[imp.path]}
  BY <1>1, <1>3, ImportAssumption DEF Current
<1>5. \/ Target = File(imp.path, remoteHash, TRUE)
      \/ SizeOf(Target) = Size[imp.path][remoteHash]
  BY <1>4 DEF Reusable, HasHash
<1>6. Target \in Files
  BY <1>1, <1>2 DEF Target, Reusable
<1>7. Base[Target.of] = Base[imp.path]
  BY <1>1, <1>2 DEF Target, Reusable, Accounted
<1>8. Target = File(imp.path, source[imp.path], TRUE)
  <2>1. CASE Target.whole
    <3>1. /\ SizeOf(Target) = Size[Target.of][Target.ver]
          /\ Target.of \in Sources /\ Target.ver \in Versions
      BY <1>6, <2>1 DEF SizeOf, Files
    <3>2. Target.of = imp.path /\ Target.ver = remoteHash
      BY <1>1, <1>3, <1>4, <1>5, <1>7, <3>1 DEF File
    <3> QED BY <1>4, <1>6, <2>1, <3>2 DEF File, Files
  <2>2. CASE ~Target.whole
    <3>1. SizeOf(Target) = 0 /\ Size[imp.path][remoteHash] \in Nat \ {0}
      BY <1>1, <1>4, <2>2, ImportAssumption DEF SizeOf
    <3> QED BY <1>4, <1>5, <2>2, <3>1 DEF File
  <2> QED BY <2>1, <2>2
<1> QED BY <1>1, <1>4, <1>8 DEF Done

-----------------------------------------------------------------------------
(* The steps of Import *)

LEMMA InitFresh == Init => FreshInv
<1> SUFFICES ASSUME Init PROVE FreshInv
  OBVIOUS
<1>1. TypesInv
  BY InitTypes
<1> QED BY <1>1 DEF Init, FreshInv, Progress, Current, Accounted, Rejected

LEMMA StartFresh ==
  ASSUME FreshInv, TypesInv', Start
  PROVE  FreshInv'
<1> USE WantIsSeq DEF FreshInv, TypesInv, Types, Start
<1>1. \A b \in Bases : disk'[b] # None => disk'[b] = disk[b]
  OBVIOUS
<1>2. Progress'
  <2>1. \A i \in 1..Len(want) : copies'[i] = None /\ ~(i < pos')
    BY DEF NoCopies
  <2> QED BY <2>1 DEF Progress
<1>3. Current' /\ Rejected'
  BY DEF Current, Rejected
<1>4. Accounted'
  <2>1. \A i \in Plain(want) : ~(i < pos')
    BY DEF Plain
  <2> QED BY <1>1, <2>1 DEF Accounted, PlainBase
<1> QED BY <1>2, <1>3, <1>4

LEMMA HttpFresh ==
  ASSUME FreshInv, TypesInv', Regular, Download
  PROVE  FreshInv'
<1> USE DEF FreshInv, Regular
<1>c. pos <= Len(want) =>
        /\ pos \in 1..Len(want) /\ want[pos] = imp /\ imp.path \in Sources
        /\ source[imp.path] \in Versions /\ source[imp.path] # None
  BY CurrentImport, ImportAssumption DEF imp
<1>1. CASE GetHttpFileInfo
  <2>1. Moved /\ UNCHANGED <<disk, copies, source, want>> /\ pos <= Len(want)
    BY <1>1, TargetKept DEF GetHttpFileInfo
  <2>2. PICK h \in RemoteHash :
          /\ remoteHash' = h
          /\ IF imp.hash # None /\ h # None /\ imp.hash # h
             THEN Fails("badHash") ELSE Goto("download")
    BY <1>1 DEF GetHttpFileInfo
  <2>3. /\ imp.path \in HashHeader => h = source[imp.path]
        /\ h \in {None, source[imp.path]}
    BY <2>2 DEF RemoteHash, SizesTell
  <2>4. CASE imp.hash # None /\ h # None /\ imp.hash # h
    <3>1. Rejected'
      BY <1>c, <2>1, <2>2, <2>3, <2>4 DEF Fails, Rejected
    <3> QED BY <2>1, <2>2, <2>4, <3>1, StopFresh, MovedPlain DEF Fails
  <2>5. CASE ~(imp.hash # None /\ h # None /\ imp.hash # h)
    <3>1. Current'
      BY <1>1, <2>1, <2>2, <2>3, <2>5 DEF GetHttpFileInfo, Goto, Current, imp
    <3> QED BY <1>1, <2>1, <2>2, <2>5, <3>1, GotoFresh DEF GetHttpFileInfo, AtWork
  <2> QED BY <2>4, <2>5
<1>2. CASE UseCachedCopy
  <2>1. Moved /\ UNCHANGED <<source, want>> /\ pos <= Len(want)
    BY <1>2, TargetKept DEF UseCachedCopy, TypesInv, Position, AtWork
  <2>2. \A i : i = pos => Done(i)'
    BY <1>2, ReusedIsCurrent DEF UseCachedCopy, Done, Imported
  <2> QED BY <1>2, <2>1, <2>2, AcquiredFresh DEF UseCachedCopy, AtWork
<1>3. CASE Get
  <2>1. UNCHANGED <<source, want>> /\ pos <= Len(want)
    BY <1>3 DEF Get, TypesInv, Position, AtWork
  <2>2. PICK f : /\ SetTarget(f)
                 /\ f \in {None, File(imp.path, source[imp.path], FALSE)}
    BY <1>3 DEF Get
  <2>3. Moved
    <3>1. f = None \/ f.of = imp.path
      BY <2>2 DEF File
    <3> QED BY <2>1, <2>2, <3>1, TargetMoved
  <2>4. CASE Goto("body")
    <3>1. Current'
      BY <1>3, <2>1, <2>4 DEF Get, Goto, Current, imp
    <3> QED BY <1>3, <2>1, <2>3, <2>4, <3>1, GotoFresh DEF Get, AtWork
  <2>5. CASE Fails("failed")
    BY <2>1, <2>3, <2>5, StopFresh, MovedPlain DEF Fails, Rejected
  <2> QED BY <1>3, <2>4, <2>5 DEF Get
<1>4. CASE Body
  <2>1. UNCHANGED <<source, want>> /\ pos <= Len(want)
    BY <1>4 DEF Body, TypesInv, Position, AtWork
  <2>2. CASE /\ SetTarget(File(imp.path, source[imp.path], TRUE))
             /\ Goto("verify")
    <3>1. Moved /\ \A i : i = pos =>
                     Imported(i)' = File(imp.path, source[imp.path], TRUE)
      <4>1. File(imp.path, source[imp.path], TRUE).of = imp.path
        BY DEF File
      <4> QED BY <2>1, <2>2, <4>1, TargetMoved
    <3>2. Current'
      BY <1>4, <2>1, <2>2, <3>1 DEF Body, Goto, Current, imp, Imported, Target
    <3> QED BY <1>4, <2>1, <2>2, <3>1, <3>2, GotoFresh DEF Body, AtWork
  <2>3. CASE Fails("failed") /\ UNCHANGED <<disk, copies>>
    BY <2>1, <2>3, StopFresh, TargetKept, MovedPlain DEF Fails, Rejected
  <2> QED BY <1>4, <2>2, <2>3 DEF Body
<1>5. CASE Verify
  <2>1. /\ UNCHANGED <<source, want>> /\ pos <= Len(want)
        /\ Kind[imp.path] = "http"
        /\ Target = File(imp.path, source[imp.path], TRUE)
        /\ Target = Imported(pos)
    BY <1>5 DEF Verify, TypesInv, Position, AtWork, Current, Target, Imported, imp
  <2>2. Accepted => imp.hash \in {None, source[imp.path]}
    BY <2>1 DEF Accepted, HasHash, File
  <2>3. ~Accepted => imp.hash # source[imp.path]
    BY <1>c, <2>1 DEF Accepted, HasHash, HashesUsable, TypesInv, Types
  <2>4. CASE Accepted /\ Acquired /\ UNCHANGED <<disk, copies>>
    <3>1. \A i : i = pos => Done(i)'
      BY <1>c, <2>1, <2>2, <2>4 DEF Done, Imported
    <3> QED BY <1>5, <2>1, <2>4, <3>1, TargetKept, AcquiredFresh DEF Verify, AtWork
  <2>5. CASE ~Accepted /\ SetTarget(None) /\ Fails("badHash")
    <3>1. Moved
      BY <2>1, <2>5, TargetMoved
    <3>2. Rejected'
      BY <1>c, <2>1, <2>3, <2>5 DEF Fails, Rejected
    <3> QED BY <2>1, <2>5, <3>1, <3>2, StopFresh, MovedPlain DEF Fails
  <2> QED BY <1>5, <2>4, <2>5 DEF Verify
<1> QED BY <1>1, <1>2, <1>3, <1>4, <1>5 DEF Download

LEMMA CopyFresh ==
  ASSUME FreshInv, TypesInv', Regular, ImportFile \/ Grab \/ FileCopy
  PROVE  FreshInv'
<1> USE DEF FreshInv, Regular
<1>c. /\ UNCHANGED <<source, want>> /\ pos <= Len(want) /\ pos \in 1..Len(want)
      /\ want[pos] = imp /\ imp.path \in Sources /\ source[imp.path] \in Versions
      /\ pc \in {"acquire", "copy"}
  BY CurrentImport DEF ImportFile, Grab, FileCopy, TypesInv, Position, AtWork, imp
<1>1. ASSUME SetTarget(File(imp.path, source[imp.path], FALSE)), Goto("copy"),
             imp.hash \in {None, source[imp.path]}
      PROVE  FreshInv'
  <2>1. File(imp.path, source[imp.path], FALSE).of = imp.path
    BY DEF File
  <2>2. Moved
    BY <1>1, <1>c, <2>1, TargetMoved
  <2>3. Current'
    BY <1>1, <1>c DEF Goto, Current, imp
  <2> QED BY <1>1, <1>c, <2>2, <2>3, GotoFresh DEF AtWork
<1>2. CASE ImportFile
  <2>1. CASE ~VerifyImportFileHash /\ Fails("badHash") /\ UNCHANGED <<disk, copies>>
    <3>1. Rejected'
      BY <1>c, <2>1 DEF VerifyImportFileHash, Fails, Rejected
    <3> QED BY <1>c, <2>1, <3>1, TargetKept, StopFresh, MovedPlain DEF Fails
  <2>2. CASE /\ VerifyImportFileHash /\ ~FilesDiffer(Target)
             /\ Acquired /\ UNCHANGED <<disk, copies>>
    <3>1. \A i : i = pos => Done(i)'
      BY <1>c, <2>2 DEF VerifyImportFileHash, FilesDiffer, Target, Imported, Done, imp
    <3> QED BY <1>c, <2>2, <3>1, TargetKept, AcquiredFresh DEF AtWork
  <2> QED BY <1>1, <1>2, <2>1, <2>2 DEF ImportFile, VerifyImportFileHash
<1>3. CASE Grab
  <2>1. imp.hash = None
    BY <1>3, <1>c DEF Grab, HashesUsable, TypesInv, Types
  <2> QED BY <1>1, <1>3, <2>1 DEF Grab
<1>4. CASE FileCopy
  <2>1. File(imp.path, source[imp.path], TRUE).of = imp.path
    BY DEF File
  <2>2. Moved /\ \A i : i = pos =>
                   Imported(i)' = File(imp.path, source[imp.path], TRUE)
    BY <1>4, <1>c, <2>1, TargetMoved DEF FileCopy
  <2>3. \A i : i = pos => Done(i)'
    BY <1>4, <1>c, <2>2 DEF FileCopy, Current, Done, imp
  <2> QED BY <1>4, <1>c, <2>2, <2>3, AcquiredFresh DEF FileCopy, AtWork
<1> QED BY <1>2, <1>3, <1>4

LEMMA DeleteFresh ==
  ASSUME FreshInv, TypesInv', DeleteOldImports
  PROVE  FreshInv'
<1> USE WantIsSeq DEF FreshInv, TypesInv, Types, DeleteOldImports
<1>1. \A b \in Bases : /\ b \in existing => disk'[b] = None
                       /\ b \notin existing => disk'[b] = disk[b]
  OBVIOUS
<1>2. Progress'
  <2>1. ASSUME NEW i \in 1..Len(want) PROVE Done(i)'
    <3>1. Done(i) /\ i < pos
      BY DEF Progress, Position
    <3>2. ~want[i].dest => Base[want[i].path] \notin existing
      BY <3>1 DEF Accounted, Plain
    <3> QED BY <1>1, <3>1, <3>2 DEF Done, Imported
  <2> QED BY <2>1 DEF Progress, Position
<1>3. Current' /\ Rejected'
  BY DEF Current, Rejected
<1>4. Accounted'
  <2>1. ASSUME NEW b \in Bases, disk'[b] # None
        PROVE  \E i \in Plain(want) : b = Base[want[i].path]
    BY <1>1, <2>1 DEF Accounted, PutBy
  <2> QED BY <1>1, <2>1 DEF Accounted, PlainBase
<1> QED BY <1>2, <1>3, <1>4

LEMMA StepFresh ==
  ASSUME Regular, FreshInv, [Next]_vars
  PROVE  FreshInv'
<1>t. TypesInv'
  BY StepTypes DEF FreshInv
<1>p. \A b \in Bases : disk[b] # None => PlainBase(b) /\ Base[disk[b].of] = b
  BY DEF FreshInv, Accounted
<1>1. ASSUME NEW s \in Sources, EditSource(s) PROVE FreshInv'
  BY <1>1, <1>t, <1>p, StopFresh DEF EditSource, Rejected
<1>2. CASE EditStackerfile
  BY <1>2, <1>t, <1>p, StopFresh DEF EditStackerfile, Rejected
<1>3. CASE Build
  BY <1>3, <1>t, <1>p, StopFresh DEF Build, FreshInv, Rejected
<1>4. CASE Kill
  BY <1>4, <1>t, <1>p, StopFresh DEF Kill, Fails, Rejected
<1>5. CASE Start
  BY <1>5, <1>t, StartFresh
<1>6. CASE Download
  BY <1>6, <1>t, HttpFresh
<1>7. CASE ImportFile \/ Grab \/ FileCopy
  BY <1>7, <1>t, CopyFresh
<1>8. CASE DeleteOldImports
  BY <1>8, <1>t, DeleteFresh
<1>9. CASE UNCHANGED vars
  <2> USE <1>9 DEF vars, FreshInv
  <2>1. Progress'
    BY DEF Progress, Done, Imported
  <2>2. Current' /\ Rejected'
    BY DEF Current, imp, Target, Rejected
  <2>3. Accounted'
    BY DEF Accounted, PlainBase, PutBy
  <2> QED BY <1>t, <2>1, <2>2, <2>3
<1> QED BY <1>1, <1>2, <1>3, <1>4, <1>5, <1>6, <1>7, <1>8, <1>9 DEF Next

\* The invariant of Import's loop and of the directory between builds.
LEMMA FreshInvariant ==
  ASSUME Regular
  PROVE  Spec => []FreshInv
<1>1. FreshInv /\ [Next]_vars => FreshInv'
  BY Regular, StepFresh
<1> QED BY InitFresh, <1>1, PTL DEF Spec

\* After any history of edited sources and stackerfiles and of builds that were
\* killed, cut off or failed, Import leaves the whole current version of every
\* import, and no other file, in the layer's directory.
THEOREM ImportsAreFresh ==
  ASSUME Regular
  PROVE  Spec => []ImportsFresh
<1>1. FreshInv => ImportsFresh
  <2> SUFFICES ASSUME FreshInv, pc = "imported"
               PROVE  /\ \A i \in 1..Len(want) :
                           Imported(i) = File(want[i].path, source[want[i].path], TRUE)
                      /\ {b \in Bases : disk[b] # None} =
                           {Base[want[i].path] : i \in Plain(want)}
    BY DEF ImportsFresh
  <2> USE WantIsSeq DEF FreshInv, TypesInv, Types
  <2>1. \A i \in 1..Len(want) : Done(i)
    BY DEF Progress, Position
  <2>2. ASSUME NEW i \in Plain(want)
        PROVE  Base[want[i].path] \in Bases /\ disk[Base[want[i].path]] # None
    <3>1. i \in 1..Len(want) /\ ~want[i].dest
      BY DEF Plain
    <3>2. want[i].path \in Sources /\ source[want[i].path] \in Versions
      BY <3>1
    <3>3. disk[Base[want[i].path]] = File(want[i].path, source[want[i].path], TRUE)
      BY <2>1, <3>1 DEF Done, Imported
    <3> QED BY <3>1, <3>2, <3>3, FileIsFile
  <2>3. \A b \in Bases : disk[b] # None =>
          \E i \in Plain(want) : b = Base[want[i].path]
    BY DEF Accounted
  <2>4. {b \in Bases : disk[b] # None} = {Base[want[i].path] : i \in Plain(want)}
    BY <2>2, <2>3
  <2> QED BY <2>1, <2>4 DEF Done
<1> QED BY Regular, FreshInvariant, <1>1, PTL

\* An import with a hash has that hash when Import returns, and Import says that
\* a hash does not match only of a source that has another one.
THEOREM HashesAreHonoured ==
  ASSUME Regular
  PROVE  Spec => []HashHonoured
<1>1. FreshInv => HashHonoured
  <2> SUFFICES ASSUME FreshInv PROVE HashHonoured
    OBVIOUS
  <2>1. ASSUME pc = "imported" PROVE \A i \in 1..Len(want) : Done(i)
    BY <2>1, WantIsSeq DEF FreshInv, TypesInv, Types, Progress, Position
  <2> QED BY <2>1 DEF FreshInv, Rejected, Done, HashHonoured
<1> QED BY Regular, FreshInvariant, <1>1, PTL
==============================================================================
