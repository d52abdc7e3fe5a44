---------------------------- MODULE StackerLocks ----------------------------
(***************************************************************************)
(* How concurrent stacker invocations share a stacker dir and a roots dir. *)
(*                                                                         *)
(* Every invocation that touches storage (build, grab, chroot, gc, clean)  *)
(* calls NewStorage (pkg/stacker/storage.go), which prepares the two       *)
(* directories, records the storage type and then takes two non-blocking   *)
(* flock(2) locks, on <stacker dir>/.lock and on <roots dir>/.lock         *)
(* (pkg/stacker/lock.go).  A flock belongs to the INODE that was opened,   *)
(* not to the path: "build --no-cache" and "clean" remove directories that *)
(* contain lock files, so the path can come to name another inode while    *)
(* the first one is still locked.  That is the hazard this module is about.*)
(*                                                                         *)
(* One process of the model is one user who runs the same command again    *)
(* and again.  Each step is one system call, or several that commute with  *)
(* the steps of the other processes.  A process may be killed at any time; *)
(* the kernel then closes its files, which releases its locks.             *)
(***************************************************************************)
EXTENDS Naturals, FiniteSets

CONSTANTS
  Procs,        \* the concurrent users of stacker
  StackerDirs,  \* values of --stacker-dir
  RootsDirs,    \* values of --roots-dir
  Inodes,       \* inodes for lock files; reused once unlinked and closed
  None,         \* no inode, no process, no file
  SDir,         \* SDir[p]: the stacker dir p is configured with
  RDir,         \* RDir[p]: the roots dir p is configured with
  Cmd,          \* Cmd[p]: the command p runs
  StorageType,  \* StorageType[p]: p's --storage-type
  MaxRuns       \* MaxRuns[p]: bound on the invocations of p

Dirs == StackerDirs \union RootsDirs

ASSUME LocksAssumption ==
  /\ None \notin Procs /\ None \notin Inodes
  /\ StackerDirs \intersect RootsDirs = {}
  /\ SDir \in [Procs -> StackerDirs]
  /\ RDir \in [Procs -> RootsDirs]
  /\ Cmd \in [Procs -> {"build", "nocache", "grab", "clean"}]
  /\ StorageType \in [Procs -> {"overlay", "other"}]
  /\ MaxRuns \in [Procs -> Nat]

VARIABLES
  dirs,         \* the directories that exist
  link,         \* link[d]: the inode that d/.lock names, None if no such file
  holder,       \* holder[i]: the process that has flocked inode i
  storageType,  \* storageType[d]: content of d/storage.type, None if no file
  populated,    \* <<d, what>>: roots dir d has what, see RootsEntries
  pc,           \* pc[p]: the step p takes next
  stackerLock,  \* stackerLock[p]: inode of p's open <stacker dir>/.lock
  rootsLock,    \* rootsLock[p]: inode of p's open <roots dir>/.lock
  outcome,      \* outcome[p]: how p's last invocation ended
  runs          \* runs[p]: invocations of p so far

fsVars == <<dirs, link, storageType, populated>>
vars == <<dirs, link, holder, storageType, populated, pc, stackerLock,
          rootsLock, outcome, runs>>

\* Inside the region that both locks protect.
Critical == {"locked", "building", "fileDone"}

PCs == {"idle", "newStorage", "typeSwitch", "mkdirs", "writeType",
        "openStorage", "createS", "flockS", "createR", "flockR",
        "unlockS", "unlockR", "rmStacker"} \union Critical

Outcomes == {"none", "running", "ok", "badType", "enoent", "locked",
             "killed"}

\* Extracted layers of base images, and layers of overlay storage.
RootsEntries == {"images", "layers"}

-----------------------------------------------------------------------------
Init ==
  /\ dirs = {}
  /\ link = [d \in Dirs |-> None]
  /\ holder = [i \in Inodes |-> None]
  /\ storageType = [d \in StackerDirs |-> None]
  /\ populated = {}
  /\ pc = [p \in Procs |-> "idle"]
  /\ stackerLock = [p \in Procs |-> None]
  /\ rootsLock = [p \in Procs |-> None]
  /\ outcome = [p \in Procs |-> "none"]
  /\ runs = [p \in Procs |-> 0]

\* Mutant of Released: a child that inherited the lock files outlives p.
ReleasedInherited(p) == holder

\* The locks with p's taken away: what close(2) of p's files leaves behind.
Released(p) == [i \in Inodes |-> IF holder[i] = p THEN None ELSE holder[i]]

\* p's invocation returns; its open lock files are closed.
Exit(p, how) ==
  /\ pc' = [pc EXCEPT ![p] = "idle"]
  /\ outcome' = [outcome EXCEPT ![p] = how]
  /\ holder' = Released(p)
  /\ stackerLock' = [stackerLock EXCEPT ![p] = None]
  /\ rootsLock' = [rootsLock EXCEPT ![p] = None]

\* p moves on without touching a lock.
Goto(p, label) ==
  /\ pc' = [pc EXCEPT ![p] = label]
  /\ UNCHANGED <<holder, stackerLock, rootsLock, outcome>>

\* What os.RemoveAll of a directory removes besides the directory itself.
RemoveAll(d) ==
  /\ dirs' = dirs \ {d}
  /\ link' = [link EXCEPT ![d] = None]
  /\ storageType' = [s \in StackerDirs |->
                       IF s = d THEN None ELSE storageType[s]]
  /\ populated' = {x \in populated : x[1] # d}

-----------------------------------------------------------------------------
(* cmd/stacker: an invocation starts. "clean" calls NewStorage only if the *)
(* roots dir exists and otherwise goes straight to the removals.           *)

\* Mutant of Start: clean goes to work without NewStorage and its locks.
StartCleanUnlocked(p) ==
  /\ pc[p] = "idle"
  /\ runs[p] < MaxRuns[p]
  /\ runs' = [runs EXCEPT ![p] = @ + 1]
  /\ outcome' = [outcome EXCEPT ![p] = "running"]
  /\ pc' = [pc EXCEPT ![p] = IF Cmd[p] = "clean" THEN "locked" ELSE "newStorage"]
  /\ UNCHANGED <<fsVars, holder, stackerLock, rootsLock>>

Start(p) ==
  /\ pc[p] = "idle"
  /\ runs[p] < MaxRuns[p]
  /\ runs' = [runs EXCEPT ![p] = @ + 1]
  /\ outcome' = [outcome EXCEPT ![p] = "running"]
  /\ pc' = [pc EXCEPT ![p] = IF Cmd[p] = "clean" /\ RDir[p] \notin dirs
                             THEN "rmStacker" ELSE "newStorage"]
  /\ UNCHANGED <<fsVars, holder, stackerLock, rootsLock>>

(* NewStorage, statement by statement. *)

MkdirRoots(p) ==
  /\ pc[p] = "newStorage"
  /\ dirs' = dirs \union {RDir[p]}
  /\ Goto(p, "typeSwitch")
  /\ UNCHANGED <<link, storageType, populated, runs>>

\* Without a storage.type file, layers in the roots dir give the overlay
\* backend away and anything else is taken for btrfs; an empty roots dir means
\* no previous storage.  (No btrfs.loop file: no code makes one.)
TryToDetectStorageType(p) ==
  IF <<RDir[p], "layers">> \in populated THEN "overlay"
  ELSE IF <<RDir[p], "images">> \in populated THEN "btrfs"
  ELSE None

PreviousType(p) == IF storageType[SDir[p]] # None
                   THEN storageType[SDir[p]]
                   ELSE TryToDetectStorageType(p)

ErrorOnStorageTypeSwitch(p) ==
  /\ pc[p] = "typeSwitch"
  /\ IF PreviousType(p) \in {None, StorageType[p]}
     THEN Goto(p, "mkdirs")
     ELSE Exit(p, "badType")
  /\ UNCHANGED <<fsVars, runs>>

MkdirBoth(p) ==
  /\ pc[p] = "mkdirs"
  /\ dirs' = dirs \union {SDir[p], RDir[p]}
  /\ Goto(p, "writeType")
  /\ UNCHANGED <<link, storageType, populated, runs>>

\* Mutant of WriteStorageType: records the wrong field of the configuration.
WriteStorageTypeWrongField(p) ==
  /\ pc[p] = "writeType"
  /\ SDir[p] \in dirs
  /\ storageType' = [storageType EXCEPT ![SDir[p]] = RDir[p]]
  /\ Goto(p, "openStorage")
  /\ UNCHANGED <<dirs, link, populated, runs>>

\* The storage type is recorded before it is validated and before any lock.
WriteStorageType(p) ==
  /\ pc[p] = "writeType"
  /\ IF SDir[p] \in dirs
     THEN /\ storageType' = [storageType EXCEPT ![SDir[p]] = StorageType[p]]
          /\ Goto(p, "openStorage")
     ELSE /\ Exit(p, "enoent")
          /\ UNCHANGED storageType
  /\ UNCHANGED <<dirs, link, populated, runs>>

\* openStorage knows "overlay" only; overlay.Check needs the roots dir.
OpenStorage(p) ==
  /\ pc[p] = "openStorage"
  /\ \/ /\ StorageType[p] # "overlay"
        /\ Exit(p, "badType")
     \/ /\ StorageType[p] = "overlay" /\ RDir[p] \notin dirs
        /\ Exit(p, "enoent")
     \/ /\ StorageType[p] = "overlay" /\ RDir[p] \in dirs
        /\ Goto(p, "createS")
  /\ UNCHANGED <<fsVars, runs>>

(* lock and acquireLock: os.Create opens the inode the path names now, or  *)
(* a new one; flock(LOCK_EX|LOCK_NB) then asks for that inode.             *)

FreshInodes == {i \in Inodes : /\ \A d \in Dirs : link[d] # i
                               /\ \A p \in Procs : /\ stackerLock[p] # i
                                                   /\ rootsLock[p] # i}

\* The inodes os.Create(d/.lock) may open.
Opened(d) == IF link[d] # None THEN {link[d]} ELSE FreshInodes

CreateStackerLock(p) ==
  /\ pc[p] = "createS"
  /\ \/ /\ SDir[p] \in dirs
        /\ \E i \in Opened(SDir[p]) :
             /\ link' = [link EXCEPT ![SDir[p]] = i]
             /\ stackerLock' = [stackerLock EXCEPT ![p] = i]
        /\ pc' = [pc EXCEPT ![p] = "flockS"]
        /\ UNCHANGED <<holder, rootsLock, outcome>>
     \/ /\ SDir[p] \notin dirs
        /\ Exit(p, "enoent")
        /\ UNCHANGED link
  /\ UNCHANGED <<dirs, storageType, populated, runs>>

\* Mutant of FlockStacker: LOCK_SH, or an ignored EWOULDBLOCK.
FlockStackerShared(p) ==
  /\ pc[p] = "flockS"
  /\ holder' = [holder EXCEPT ![stackerLock[p]] = p]
  /\ pc' = [pc EXCEPT ![p] = "createR"]
  /\ UNCHANGED <<fsVars, stackerLock, rootsLock, outcome, runs>>

FlockStacker(p) ==
  /\ pc[p] = "flockS"
  /\ IF holder[stackerLock[p]] = None
     THEN /\ holder' = [holder EXCEPT ![stackerLock[p]] = p]
          /\ pc' = [pc EXCEPT ![p] = "createR"]
          /\ UNCHANGED <<stackerLock, rootsLock, outcome>>
     ELSE Exit(p, "locked")
  /\ UNCHANGED <<fsVars, runs>>

\* Mutant of CreateRootsLock: the stacker dir's lock file a second time.
CreateRootsLockSameFile(p) ==
  /\ pc[p] = "createR"
  /\ rootsLock' = [rootsLock EXCEPT ![p] = stackerLock[p]]
  /\ pc' = [pc EXCEPT ![p] = "flockR"]
  /\ UNCHANGED <<fsVars, holder, stackerLock, outcome, runs>>

CreateRootsLock(p) ==
  /\ pc[p] = "createR"
  /\ \/ /\ RDir[p] \in dirs
        /\ \E i \in Opened(RDir[p]) :
             /\ link' = [link EXCEPT ![RDir[p]] = i]
             /\ rootsLock' = [rootsLock EXCEPT ![p] = i]
        /\ pc' = [pc EXCEPT ![p] = "flockR"]
        /\ UNCHANGED <<holder, stackerLock, outcome>>
     \/ /\ RDir[p] \notin dirs
        /\ Exit(p, "enoent")
        /\ UNCHANGED link
  /\ UNCHANGED <<dirs, storageType, populated, runs>>

\* Mutant of FlockRoots: LOCK_SH, or an ignored EWOULDBLOCK.
FlockRootsShared(p) ==
  /\ pc[p] = "flockR"
  /\ holder' = [holder EXCEPT ![rootsLock[p]] = p]
  /\ pc' = [pc EXCEPT ![p] = "locked"]
  /\ UNCHANGED <<fsVars, stackerLock, rootsLock, outcome, runs>>

\* On failure lock() unlocks the stacker dir before it returns the error.
FlockRoots(p) ==
  /\ pc[p] = "flockR"
  /\ IF holder[rootsLock[p]] = None
     THEN /\ holder' = [holder EXCEPT ![rootsLock[p]] = p]
          /\ pc' = [pc EXCEPT ![p] = "locked"]
          /\ UNCHANGED <<stackerLock, rootsLock, outcome>>
     ELSE Exit(p, "locked")
  /\ UNCHANGED <<fsVars, runs>>

-----------------------------------------------------------------------------
(* The commands, with both locks held. *)

\* build(), once per stackerfile: --no-cache removes the stacker dir first.
BuildFile(p) ==
  /\ pc[p] = "locked"
  /\ Cmd[p] \in {"build", "nocache"}
  /\ IF Cmd[p] = "nocache" THEN RemoveAll(SDir[p]) ELSE UNCHANGED fsVars
  /\ Goto(p, "building")
  /\ UNCHANGED runs

\* Import, Unpack and container.New create what they need with MkdirAll.  A
\* base image is extracted before the first layer is created on it ...
BuildUnpack(p) ==
  /\ pc[p] = "building"
  /\ dirs' = dirs \union {SDir[p], RDir[p]}
  /\ populated' = populated \union {<<RDir[p], "images">>}
  /\ Goto(p, "building")
  /\ UNCHANGED <<link, storageType, runs>>

\* ... and then the layers are.
BuildLayers(p) ==
  /\ pc[p] = "building"
  /\ dirs' = dirs \union {SDir[p], RDir[p]}
  /\ populated' = populated \union {<<RDir[p], "layers">>}
  /\ Goto(p, "fileDone")
  /\ UNCHANGED <<link, storageType, runs>>

\* BuildMultiple: the next stackerfile, or the deferred Unlock.
NextFile(p) ==
  /\ pc[p] = "fileDone"
  /\ \E label \in {"locked", "unlockS"} : Goto(p, label)
  /\ UNCHANGED <<fsVars, runs>>

\* grab and chroot work on a temporary snapshot inside the roots dir, which has
\* to be there.
GrabOrChroot(p) ==
  /\ pc[p] = "locked"
  /\ Cmd[p] = "grab"
  /\ populated' = populated \union {<<d, "layers">> : d \in {RDir[p]} \intersect dirs}
  /\ Goto(p, "unlockS")
  /\ UNCHANGED <<dirs, link, storageType, runs>>

\* overlay.Clean removes the roots dir, lock file included.
Clean(p) ==
  /\ pc[p] = "locked"
  /\ Cmd[p] = "clean"
  /\ RemoveAll(RDir[p])
  /\ Goto(p, "unlockS")
  /\ UNCHANGED runs

\* StackerLocks.Unlock closes one file after the other.
UnlockStacker(p) ==
  /\ pc[p] = "unlockS"
  /\ holder' = [holder EXCEPT ![stackerLock[p]] = None]
  /\ stackerLock' = [stackerLock EXCEPT ![p] = None]
  /\ pc' = [pc EXCEPT ![p] = "unlockR"]
  /\ UNCHANGED <<fsVars, rootsLock, outcome, runs>>

UnlockRoots(p) ==
  /\ pc[p] = "unlockR"
  /\ IF Cmd[p] = "clean"
     THEN /\ holder' = [holder EXCEPT ![rootsLock[p]] = None]
          /\ rootsLock' = [rootsLock EXCEPT ![p] = None]
          /\ pc' = [pc EXCEPT ![p] = "rmStacker"]
          /\ UNCHANGED <<stackerLock, outcome>>
     ELSE Exit(p, "ok")
  /\ UNCHANGED <<fsVars, runs>>

\* doClean removes the stacker dir after it has unlocked it.
CleanStackerDir(p) ==
  /\ pc[p] = "rmStacker"
  /\ RemoveAll(SDir[p])
  /\ Exit(p, "ok")
  /\ UNCHANGED runs

\* SIGKILL, or SIGINT outside of a container: the kernel closes the files.
Kill(p) ==
  /\ pc[p] # "idle"
  /\ Exit(p, "killed")
  /\ UNCHANGED <<fsVars, runs>>

-----------------------------------------------------------------------------
NewStorage(p) ==
  \/ MkdirRoots(p) \/ ErrorOnStorageTypeSwitch(p) \/ MkdirBoth(p)
  \/ WriteStorageType(p) \/ OpenStorage(p)
  \/ CreateStackerLock(p) \/ FlockStacker(p)
  \/ CreateRootsLock(p) \/ FlockRoots(p)

Command(p) ==
  \/ BuildFile(p) \/ BuildUnpack(p) \/ BuildLayers(p) \/ NextFile(p)
  \/ GrabOrChroot(p) \/ Clean(p) \/ UnlockStacker(p) \/ UnlockRoots(p) \/ CleanStackerDir(p)

Next == \E p \in Procs : Start(p) \/ NewStorage(p) \/ Command(p) \/ Kill(p)

Spec == Init /\ [][Next]_vars

-----------------------------------------------------------------------------
(* Properties *)

\* Every variable has its type: lock files name inodes, flocks belong to
\* invocations, and storage.type only ever holds a --storage-type.
TypeOK ==
  /\ dirs \subseteq Dirs
  /\ link \in [Dirs -> Inodes \union {None}]
  /\ holder \in [Inodes -> Procs \union {None}]
  /\ storageType \in [StackerDirs -> {"overlay", "other", None}]
  /\ populated \subseteq RootsDirs \X RootsEntries
  /\ pc \in [Procs -> PCs]
  /\ stackerLock \in [Procs -> Inodes \union {None}]
  /\ rootsLock \in [Procs -> Inodes \union {None}]
  /\ outcome \in [Procs -> Outcomes]
  /\ runs \in [Procs -> Nat]

\* What the locks are for (lock.go, comment in Unlock: "multiple invocations
\* on a roots dir"): two invocations configured with the same roots dir are
\* never both inside the region between lock() and Unlock().
RootsExclusion ==
  \A p, q \in Procs :
    p # q /\ RDir[p] = RDir[q] => ~(pc[p] \in Critical /\ pc[q] \in Critical)

\* The same for the stacker dir, which holds build.cache and the imports.
StackerExclusion ==
  \A p, q \in Procs :
    p # q /\ SDir[p] = SDir[q] => ~(pc[p] \in Critical /\ pc[q] \in Critical)

\* No clean has started before p's.
FirstClean(p) ==
  \A q \in Procs : Cmd[q] = "clean" => runs[q] = IF q = p THEN 1 ELSE 0

\* doClean calls NewStorage for its locks before s.Clean: the first clean never
\* removes the roots dir while another invocation is at work in it, however it
\* and the others open, lock and are killed.  (After that the path may name a
\* new lock file and nobody is safe from a second clean.)
CleanAlone ==
  [][\A p \in Procs : Clean(p) /\ FirstClean(p) =>
       \A q \in Procs \ {p} : RDir[q] = RDir[p] => pc[q] \notin Critical]_vars

\* A flock never outlives the invocation that took it, and within an
\* invocation it is only held between its flock(2) and its close(2): a killed
\* or failed run, lock()'s error path included, leaves nothing locked behind.
NoStaleLock ==
  \A i \in Inodes : holder[i] # None =>
    LET p == holder[i] IN
      \/ stackerLock[p] = i /\ pc[p] \in Critical \union
                                 {"createR", "flockR", "unlockS"}
      \/ rootsLock[p] = i /\ pc[p] \in Critical \union {"unlockS", "unlockR"}

\* "couldn't acquire lock" is only reported while another live invocation
\* holds the very inode that was opened.
LockedMeansBusy ==
  [][\A p \in Procs :
       outcome'[p] = "locked" /\ outcome[p] = "running" =>
         \E q \in Procs \ {p} :
           /\ outcome[q] = "running"
           /\ \E i \in {stackerLock[p], rootsLock[p]} \ {None} :
                holder[i] = q]_vars

=============================================================================
