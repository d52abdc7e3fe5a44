----------------------------- MODULE ImportFiles -----------------------------
(***************************************************************************)
(* How the imports of one layer get into <stacker dir>/imports/<layer>     *)
(* (pkg/stacker/import.go, network.go), over several builds between which  *)
(* the user edits the stackerfile and the sources change.  The directory   *)
(* outlives a build that fails or is killed, and what is found in it may   *)
(* be taken for what was asked for.                                        *)
(*                                                                         *)
(* A file's content is the source it came from, the version of the source, *)
(* and whether all of it is there.  Equal contents have equal hashes.      *)
(***************************************************************************)
EXTENDS Naturals, Sequences, FiniteSets

CONSTANTS
  Sources,    \* what an import's path can name
  Kind,       \* Kind[s]: "http", "local" or "stacker" (another layer)
  Bases,      \* names of files
  Base,       \* Base[s]: the last component of the path
  Versions,   \* versions of a source
  Size,       \* Size[s][v]: bytes in version v of source s
  HashHeader, \* the web servers that send X-Checksum-Sha256
  Wants,      \* the "imports" sections the user may write, as sequences
  Faults,     \* which faults happen, see below
  MaxRuns,    \* bound on the builds
  None

(* Faults: "kill" the process dies; "offline" HEAD fails; "get" GET fails;  *)
(* "cut" the connection is lost in the middle; "build" the layer's build    *)
(* fails after its imports.                                                 *)

Files == [of : Sources, ver : Versions, whole : BOOLEAN]

\* name: the last component of an import's dest, if it names a file; a dest that
\* names a directory leaves the file its own name.
Imports == [path : Sources, hash : Versions \union {None},
            upper : BOOLEAN, dest : BOOLEAN, name : Bases]

ASSUME ImportAssumption ==
  /\ Kind \in [Sources -> {"http", "local", "stacker"}]
  /\ Base \in [Sources -> Bases]
  /\ Size \in [Sources -> [Versions -> Nat \ {0}]]
  /\ HashHeader \subseteq Sources
  /\ Wants \subseteq Seq(Imports)
  /\ Faults \subseteq {"kill", "offline", "get", "cut", "build"}
  /\ MaxRuns \in Nat
  /\ Versions # {} /\ None \notin Versions /\ None \notin Files

VARIABLES
  source,     \* source[s]: the version of s that is there now
  want,       \* the layer's imports, as the stackerfile has them
  disk,       \* disk[b]: the file b in the imports directory, or None
  copies,     \* copies[i]: the file of the i-th import, if it has a dest
  entry,      \* the import paths in the layer's cache entry, or None
  pc, pos,    \* Import's next step, and the import it is at
  remoteHash, \* the version whose hash the server sent, or None
  existing,   \* files that were there and no import has accounted for
  outcome,    \* how the last Import ended
  runs        \* builds so far

vars == <<source, want, disk, copies, entry, pc, pos, remoteHash, existing,
          outcome, runs>>

File(s, v, whole) == [of |-> s, ver |-> v, whole |-> whole]

imp == want[pos]

Plain(imports) == {i \in 1..Len(imports) : ~imports[i].dest}

\* HashFile and FileInfo.Size.  A part of a file has neither the hash nor the
\* size of a whole one.
HasHash(f, s, v) == f = File(s, v, TRUE)

SizeOf(f) == IF f.whole THEN Size[f.of][f.ver] ELSE 0

\* The file acquireUrl is asked to produce: an import with a dest gets a new
\* directory in imports-copy.
Target == IF imp.dest THEN copies[pos] ELSE disk[Base[imp.path]]

SetTarget(f) ==
  IF imp.dest
  THEN copies' = [copies EXCEPT ![pos] = f] /\ UNCHANGED disk
  ELSE disk' = [disk EXCEPT ![Base[imp.path]] = f] /\ UNCHANGED copies

\* Positions in an "imports" section; imports-copy/<layer> is empty.
Slots == UNION {1..Len(w) : w \in Wants}

NoCopies == [i \in Slots |-> None]

-----------------------------------------------------------------------------
Init ==
  /\ source = [s \in Sources |-> CHOOSE v \in Versions : TRUE]
  /\ want \in Wants
  /\ disk = [b \in Bases |-> None] /\ copies = NoCopies
  /\ entry = None
  /\ pc = "idle" /\ pos = 1 /\ remoteHash = None /\ existing = {}
  /\ outcome = "none"
  /\ runs = 0

\* The user, or whoever owns the source.
EditSource(s) ==
  /\ pc = "idle" /\ runs < MaxRuns
  /\ \E v \in Versions \ {source[s]} : source' = [source EXCEPT ![s] = v]
  /\ outcome' = "none"
  /\ UNCHANGED <<want, disk, copies, entry, pc, pos, remoteHash, existing, runs>>

EditStackerfile ==
  /\ pc = "idle" /\ runs < MaxRuns
  /\ want' \in Wants \ {want}
  /\ outcome' = "none"
  /\ UNCHANGED <<source, disk, copies, entry, pc, pos, remoteHash, existing, runs>>

Goto(label) == pc' = label /\ UNCHANGED <<pos, existing, outcome>>

Fails(why) == pc' = "idle" /\ outcome' = why /\ UNCHANGED <<pos, existing>>

-----------------------------------------------------------------------------
\* What CleanImportsDir removes: everything without a cache entry, otherwise
\* the files whose name was imported from another URL.
Pruned ==
  IF entry = None THEN Bases
  ELSE {Base[want[i].path] : i \in {j \in 1..Len(want) :
          \E s \in entry : Base[s] = Base[want[j].path] /\ s # want[j].path}}

\* CleanImportsDir, and Import up to its loop.
Start ==
  /\ pc = "idle" /\ runs < MaxRuns
  /\ runs' = runs + 1
  /\ disk' = [b \in Bases |-> IF b \in Pruned THEN None ELSE disk[b]]
  /\ copies' = NoCopies
  /\ existing' = {b \in Bases : disk'[b] # None}
  /\ pos' = 1 /\ remoteHash' = None
  /\ pc' = "acquire"
  /\ outcome' = "running"
  /\ UNCHANGED <<source, want, entry>>

\* The name of the file that acquireUrl returns; Grab's is that of the source.
NameOf(i) == IF i.dest /\ Kind[i.path] # "stacker" THEN i.name ELSE Base[i.path]

\* Mutant of Acquired: an import is skipped.
AcquiredTwo ==
  /\ existing' = existing \ {NameOf(imp)}
  /\ pos' = pos + 2
  /\ pc' = "acquire"
  /\ UNCHANGED outcome

\* acquireUrl returned a path: its name is not an old import.
Acquired ==
  /\ existing' = existing \ {NameOf(imp)}
  /\ pos' = pos + 1
  /\ pc' = "acquire"
  /\ UNCHANGED outcome

-----------------------------------------------------------------------------
(* http:// and https:// *)

\* What getHttpFileInfo may return as the hash.
RemoteHash ==
  (IF imp.path \in HashHeader THEN {source[imp.path]} ELSE {None})
    \union (IF "offline" \in Faults THEN {None} ELSE {})

\* acquireUrl of a URL, up to Download: a hash in the header that is not the
\* wanted one ends it.
GetHttpFileInfo ==
  /\ pc = "acquire" /\ pos <= Len(want) /\ Kind[imp.path] = "http"
  /\ \E h \in RemoteHash :
       /\ remoteHash' = h
       /\ IF imp.hash # None /\ h # None /\ imp.hash # h
          THEN Fails("badHash") ELSE Goto("download")
  /\ UNCHANGED <<source, want, disk, copies, entry, runs>>

\* Download reuses the file it finds, if any, if there is no hash to compare it with,
\* or the hash matches, or at least the size.
Reusable(f) ==
  f # None /\ (remoteHash # None =>
    HasHash(f, imp.path, remoteHash) \/ SizeOf(f) = Size[imp.path][remoteHash])

UseCachedCopy ==
  /\ pc = "download" /\ Reusable(Target)
  /\ Acquired
  /\ UNCHANGED <<source, want, disk, copies, entry, remoteHash, runs>>

\* The old file is removed, the new one created, and GET sent.
Get ==
  /\ pc = "download" /\ ~Reusable(Target)
  /\ \/ SetTarget(File(imp.path, source[imp.path], FALSE)) /\ Goto("body")
     \/ "get" \in Faults /\ SetTarget(None) /\ Fails("failed")
  /\ UNCHANGED <<source, want, entry, remoteHash, runs>>

\* io.Copy; if it fails the file stays where it is.
Body ==
  /\ pc = "body"
  /\ \/ SetTarget(File(imp.path, source[imp.path], TRUE)) /\ Goto("verify")
     \/ "cut" \in Faults /\ Fails("failed") /\ UNCHANGED <<disk, copies>>
  /\ UNCHANGED <<source, want, entry, remoteHash, runs>>

\* Mutant of Accepted: the hash of what was downloaded is not looked at.
AcceptedAlways == TRUE

\* The wanted hash is compared as it is written.
Accepted == \/ imp.hash = None
            \/ HasHash(Target, imp.path, imp.hash) /\ ~imp.upper

Verify ==
  /\ pc = "verify"
  /\ \/ Accepted /\ Acquired /\ UNCHANGED <<disk, copies>>
     \/ ~Accepted /\ SetTarget(None) /\ Fails("badHash")
  /\ UNCHANGED <<source, want, entry, remoteHash, runs>>

-----------------------------------------------------------------------------
(* A path on the host, and stacker:// *)

\* Mutant of FilesDiffer: files of the same size are not compared.
FilesDifferInSize(f) ==
  IF f = None THEN TRUE ELSE SizeOf(f) # Size[imp.path][source[imp.path]]

\* filesDiffer; a file that is not there has to be copied too.
FilesDiffer(f) == f # File(imp.path, source[imp.path], TRUE)

\* verifyImportFileHash, in lower case.
VerifyImportFileHash == imp.hash \in {None, source[imp.path]}

\* importFile of a file.
ImportFile ==
  /\ pc = "acquire" /\ pos <= Len(want) /\ Kind[imp.path] = "local"
  /\ \/ /\ ~VerifyImportFileHash
        /\ Fails("badHash") /\ UNCHANGED <<disk, copies>>
     \/ /\ VerifyImportFileHash
        /\ FilesDiffer(Target)
        /\ SetTarget(File(imp.path, source[imp.path], FALSE)) /\ Goto("copy")
     \/ /\ VerifyImportFileHash
        /\ ~FilesDiffer(Target)
        /\ Acquired /\ UNCHANGED <<disk, copies>>
  /\ UNCHANGED <<source, want, entry, remoteHash, runs>>

\* Grab from a temporary snapshot of another layer: no hash is checked.
Grab ==
  /\ pc = "acquire" /\ pos <= Len(want) /\ Kind[imp.path] = "stacker"
  /\ SetTarget(File(imp.path, source[imp.path], FALSE)) /\ Goto("copy")
  /\ UNCHANGED <<source, want, entry, remoteHash, runs>>

\* FileCopy, or cp in the container, comes to its end.
FileCopy ==
  /\ pc = "copy"
  /\ SetTarget(File(imp.path, source[imp.path], TRUE)) /\ Acquired
  /\ UNCHANGED <<source, want, entry, remoteHash, runs>>

-----------------------------------------------------------------------------
\* Import deletes what is left over from earlier builds, and returns.
DeleteOldImports ==
  /\ pc = "acquire" /\ pos > Len(want)
  /\ disk' = [b \in Bases |-> IF b \in existing THEN None ELSE disk[b]]
  /\ pc' = "imported" /\ outcome' = "imported"
  /\ UNCHANGED <<source, want, copies, entry, pos, remoteHash, existing, runs>>

\* The rest of the build: Put records the imports without a dest.
Build ==
  /\ pc = "imported"
  /\ \/ entry' = {want[i].path : i \in Plain(want)}
     \/ "build" \in Faults /\ UNCHANGED entry
  /\ pc' = "idle"
  /\ UNCHANGED <<source, want, disk, copies, pos, remoteHash, existing, outcome, runs>>

Kill ==
  /\ "kill" \in Faults /\ pc # "idle"
  /\ Fails("failed")
  /\ UNCHANGED <<source, want, disk, copies, entry, remoteHash, runs>>

Download == GetHttpFileInfo \/ UseCachedCopy \/ Get \/ Body \/ Verify

Next ==
  \/ \E s \in Sources : EditSource(s)
  \/ EditStackerfile \/ Start \/ Download \/ ImportFile \/ Grab \/ FileCopy
  \/ DeleteOldImports \/ Build \/ Kill

Spec == Init /\ [][Next]_vars

-----------------------------------------------------------------------------
(* Properties *)

\* Every variable has its type; Import never looks past the end of its list.
TypeOK ==
  /\ source \in [Sources -> Versions]
  /\ want \in Wants
  /\ disk \in [Bases -> Files \union {None}]
  /\ copies \in [Slots -> Files \union {None}]
  /\ entry # None => entry \subseteq Sources
  /\ pc \in {"idle", "acquire", "download", "body", "verify", "copy", "imported"}
  /\ pos \in 1..(Len(want) + 1) \/ pc = "idle"
  /\ pc \in {"download", "body", "verify", "copy"} => pos <= Len(want)
  /\ remoteHash \in Versions \union {None}
  /\ existing \subseteq Bases
  /\ outcome \in {"none", "running", "imported", "failed", "badHash"}
  /\ runs \in 0..MaxRuns

\* The file that the i-th import gave the layer.
Imported(i) == IF want[i].dest THEN copies[i] ELSE disk[Base[want[i].path]]

\* doc/stacker_yaml.md, on host files: "If the file or directory changes between
\* stacker builds, it will be hashed and the new file will be imported", and
\* network.go, when the server sends another hash: "Need to cleanup".  When
\* Import returns, every file is the whole current version of its own source,
\* whatever earlier builds, killed ones too, left in the directory.  And
\* import.go: "Now, delete all the old imports": what the run section sees in
\* the directory is the imports without a dest, and nothing else.
ImportsFresh ==
  pc = "imported" =>
    /\ \A i \in 1..Len(want) :
         Imported(i) = File(want[i].path, source[want[i].path], TRUE)
    /\ {b \in Bases : disk[b] # None} = {Base[want[i].path] : i \in Plain(want)}

\* doc/stacker_yaml.md: a file "which [has] the hash specified will be checked":
\* when Import returns, every import with a hash has that hash; and a hash is
\* only said not to match if it does not match (the one in the document's
\* example is written in both cases).
HashHonoured ==
  /\ pc = "imported" =>
       \A i \in 1..Len(want) :
         want[i].hash # None =>
           Imported(i) = File(want[i].path, want[i].hash, TRUE)
  /\ outcome = "badHash" => want[pos].hash # source[want[pos].path]

\* test/import.bats: "different URLs with same base get re-imported": a file is
\* never taken for the one of the same name from another URL.
OriginKept ==
  pc = "imported" => \A i \in 1..Len(want) : Imported(i).of = want[i].path
=============================================================================
