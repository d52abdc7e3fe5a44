------------------------- MODULE StackerLocksProofs -------------------------
(***************************************************************************)
(* Proofs about StackerLocks for any number of processes and directories:  *)
(* the type invariant, that no lock outlives its invocation (NoStaleLock), *)
(* that an invocation is only turned away by one that is alive             *)
(* (LockedMeansBusy), and that invocations on one roots dir, or on one     *)
(* stacker dir, exclude each other as long as nobody runs "clean"          *)
(* (RootsExclusion, StackerExclusion); and the first "clean" finds nobody  *)
(* else at work in the roots dir it removes (CleanAlone).  "build          *)
(* --no-cache" may remove stacker dirs, and the lock files in them, all    *)
(* the while.                                                              *)
(***************************************************************************)
EXTENDS StackerLocks, TLAPS

\* Where in an invocation each lock file is open, and where it is flocked.
HasS == Critical \union {"flockS", "createR", "flockR", "unlockS"}
HoldsS == HasS \ {"flockS"}
HasR == Critical \union {"flockR", "unlockS", "unlockR"}
HoldsR == HasR \ {"flockR"}

\* The open files agree with the control state.
OpenFiles ==
  \A p \in Procs : /\ stackerLock[p] # None <=> pc[p] \in HasS
                   /\ rootsLock[p] # None <=> pc[p] \in HasR

\* A process past its flock(2) holds the inode it opened.
Holding ==
  \A p \in Procs : /\ pc[p] \in HoldsS => holder[stackerLock[p]] = p
                   /\ pc[p] \in HoldsR => holder[rootsLock[p]] = p

\* No inode serves two directories, whether through a name or an open file.
Separate ==
  /\ \A d, e \in Dirs : d # e /\ link[d] # None => link[d] # link[e]
  /\ \A p \in Procs, d \in RootsDirs :
       stackerLock[p] # None => stackerLock[p] # link[d]
  /\ \A p \in Procs, d \in StackerDirs :
       rootsLock[p] # None => rootsLock[p] # link[d]
  /\ \A p, q \in Procs : stackerLock[p] # None => stackerLock[p] # rootsLock[q]

LockInv == TypeOK /\ OpenFiles /\ Holding /\ Separate /\ NoStaleLock

\* Nobody removes a roots dir.
NoClean == \A p \in Procs : Cmd[p] # "clean"

\* An open roots lock file is the one the path still names.
RootsLinked ==
  \A p \in Procs : rootsLock[p] # None => rootsLock[p] = link[RDir[p]]

\* An invocation that is under way has been counted.
Counted == \A p \in Procs : runs[p] = 0 => pc[p] = "idle"

\* No "clean" has removed a roots dir or given up.
BeforeClean ==
  \A p \in Procs : Cmd[p] = "clean" =>
    \/ runs[p] = 0
    \/ runs[p] = 1 /\ pc[p] \notin {"idle", "unlockS", "unlockR", "rmStacker"}

\* Nobody builds with --no-cache in stacker dir s.
CacheKept(s) == \A p \in Procs : SDir[p] = s => Cmd[p] # "nocache"

\* Two invocations that share a stacker dir share the roots dir too, as with
\* the default directories, or --no-cache is not used there.
StackerShared ==
  \A p, q \in Procs :
    p # q /\ SDir[p] = SDir[q] => RDir[p] = RDir[q] \/ CacheKept(SDir[p])

\* Nobody is about to remove a stacker dir that "clean" has unlocked, and where
\* the cache is kept an open stacker lock file is the one the path names.
StackerLinked ==
  \A p \in Procs :
    /\ pc[p] # "rmStacker"
    /\ stackerLock[p] # None /\ CacheKept(SDir[p]) =>
         stackerLock[p] = link[SDir[p]]

\* A process is under way exactly while its outcome is open.
Running == \A p \in Procs : outcome[p] = "running" <=> pc[p] # "idle"

-----------------------------------------------------------------------------
USE DEF Dirs

LEMMA InitLockInv == Init => LockInv
  BY LocksAssumption
  DEF Init, LockInv, TypeOK, OpenFiles, Holding, Separate, NoStaleLock, PCs,
      Outcomes, Critical, HasS, HoldsS, HasR, HoldsR

\* Removing names (or leaving them) never disturbs what the locks mean.
Unlinked == \A d \in Dirs : link'[d] \in {link[d], None}

\* Closing p's files, whatever the reason for it.
LEMMA ExitLockInv ==
  ASSUME LockInv, NEW p \in Procs, NEW how, Exit(p, how), Unlinked, TypeOK'
  PROVE  LockInv'
<1> USE LocksAssumption DEF LockInv, Exit, Released
<1>2. OpenFiles'
  BY DEF OpenFiles, TypeOK, HasS, HasR, Critical
<1>3. Holding'
  BY DEF Holding, OpenFiles, TypeOK, HasS, HasR, HoldsS, HoldsR, Critical
<1>4. Separate'
  BY DEF Separate, TypeOK, Unlinked
<1>5. NoStaleLock'
  BY DEF NoStaleLock, TypeOK
<1> QED BY <1>2, <1>3, <1>4, <1>5

\* Moving p between two places with the same files open and locked.
LEMMA GotoLockInv ==
  ASSUME LockInv, NEW p \in Procs, NEW label, Goto(p, label), Unlinked, TypeOK',
         label \in HasS <=> pc[p] \in HasS, label \in HasR <=> pc[p] \in HasR,
         label \in HoldsS <=> pc[p] \in HoldsS,
         label \in HoldsR <=> pc[p] \in HoldsR
  PROVE  LockInv'
<1> USE LocksAssumption DEF LockInv, Goto
<1>2. OpenFiles'
  BY DEF OpenFiles, TypeOK
<1>3. Holding'
  BY DEF Holding, TypeOK
<1>4. Separate'
  BY DEF Separate, TypeOK, Unlinked
<1>5. NoStaleLock'
  BY DEF NoStaleLock, TypeOK, HoldsS, HoldsR, HasS, HasR, Critical
<1> QED BY <1>2, <1>3, <1>4, <1>5

LEMMA ExitTypes ==
  ASSUME TypeOK, NEW p \in Procs, NEW how \in Outcomes, Exit(p, how)
  PROVE  /\ holder' \in [Inodes -> Procs \union {None}]
         /\ pc' \in [Procs -> PCs]
         /\ stackerLock' \in [Procs -> Inodes \union {None}]
         /\ rootsLock' \in [Procs -> Inodes \union {None}]
         /\ outcome' \in [Procs -> Outcomes]
  BY DEF TypeOK, Exit, Released, PCs

LEMMA StepTypeOK ==
  ASSUME TypeOK, OpenFiles, [Next]_vars
  PROVE  TypeOK'
<1> USE LocksAssumption DEF TypeOK, fsVars
<1>1. ASSUME NEW p \in Procs, Start(p) PROVE TypeOK'
  BY <1>1 DEF Start, PCs, Outcomes
<1>2. ASSUME NEW p \in Procs, NewStorage(p) PROVE TypeOK'
  <2> USE <1>2 DEF Goto, Exit, Released, PCs, Outcomes
  <2>1. CASE MkdirRoots(p)
    BY <2>1 DEF MkdirRoots
  <2>2. CASE ErrorOnStorageTypeSwitch(p)
    BY <2>2 DEF ErrorOnStorageTypeSwitch
  <2>3. CASE MkdirBoth(p)
    BY <2>3 DEF MkdirBoth
  <2>4. CASE WriteStorageType(p)
    <3>1. storageType' \in [StackerDirs -> {"overlay", "other", None}]
      <4>1. StorageType[p] \in {"overlay", "other", None}
        OBVIOUS
      <4> QED BY <2>4, <4>1 DEF WriteStorageType
    <3>2. CASE SDir[p] \in dirs
      BY <2>4, <3>1, <3>2 DEF WriteStorageType
    <3>3. CASE SDir[p] \notin dirs
      BY <2>4, <3>1, <3>3 DEF WriteStorageType
    <3> QED BY <3>2, <3>3
  <2>5. CASE OpenStorage(p)
    BY <2>5 DEF OpenStorage
  <2>6. CASE CreateStackerLock(p)
    <3>1. CASE SDir[p] \in dirs
      <4>1. link' \in [Dirs -> Inodes \union {None}]
        BY <2>6, <3>1 DEF CreateStackerLock, Opened, FreshInodes
      <4> QED BY <2>6, <3>1, <4>1 DEF CreateStackerLock, Opened, FreshInodes
    <3>2. CASE SDir[p] \notin dirs
      <4>1. /\ Exit(p, "enoent")
            /\ UNCHANGED <<dirs, link, storageType, populated, runs>>
        BY <2>6, <3>2 DEF CreateStackerLock
      <4> QED BY <4>1, ExitTypes
    <3> QED BY <3>1, <3>2
  <2>7. CASE FlockStacker(p)
    <3>1. CASE holder[stackerLock[p]] = None
      BY <2>7, <3>1 DEF FlockStacker, Critical
    <3>2. CASE holder[stackerLock[p]] # None
      <4>1. /\ Exit(p, "locked")
            /\ UNCHANGED <<dirs, link, storageType, populated, runs>>
        BY <2>7, <3>2 DEF FlockStacker
      <4> QED BY <4>1, ExitTypes
    <3> QED BY <3>1, <3>2
  <2>8. CASE CreateRootsLock(p)
    <3>1. CASE RDir[p] \in dirs
      <4>1. link' \in [Dirs -> Inodes \union {None}]
        BY <2>8, <3>1 DEF CreateRootsLock, Opened, FreshInodes
      <4> QED BY <2>8, <3>1, <4>1 DEF CreateRootsLock, Opened, FreshInodes
    <3>2. CASE RDir[p] \notin dirs
      <4>1. /\ Exit(p, "enoent")
            /\ UNCHANGED <<dirs, link, storageType, populated, runs>>
        BY <2>8, <3>2 DEF CreateRootsLock
      <4> QED BY <4>1, ExitTypes
    <3> QED BY <3>1, <3>2
  <2>9. CASE FlockRoots(p)
    <3>1. CASE holder[rootsLock[p]] = None
      BY <2>9, <3>1 DEF FlockRoots, Critical
    <3>2. CASE holder[rootsLock[p]] # None
      <4>1. /\ Exit(p, "locked")
            /\ UNCHANGED <<dirs, link, storageType, populated, runs>>
        BY <2>9, <3>2 DEF FlockRoots
      <4> QED BY <4>1, ExitTypes
    <3> QED BY <3>1, <3>2
  <2> QED BY <2>1, <2>2, <2>3, <2>4, <2>5, <2>6, <2>7, <2>8, <2>9
          DEF NewStorage
<1>3. ASSUME NEW p \in Procs, Command(p) PROVE TypeOK'
  <2> USE <1>3 DEF Goto, Exit, Released, RemoveAll, PCs, Outcomes, Critical
  <2>1. CASE BuildFile(p)
    BY <2>1 DEF BuildFile
  <2>2. CASE BuildUnpack(p) \/ BuildLayers(p)
    BY <2>2 DEF BuildUnpack, BuildLayers, RootsEntries
  <2>3. CASE NextFile(p)
    BY <2>3 DEF NextFile
  <2>4. CASE GrabOrChroot(p)
    BY <2>4 DEF GrabOrChroot, RootsEntries
  <2>5. CASE Clean(p)
    BY <2>5 DEF Clean
  <2>6. CASE UnlockStacker(p)
    BY <2>6 DEF UnlockStacker
  <2>7. CASE UnlockRoots(p)
    <3>1. CASE Cmd[p] = "clean"
      BY <2>7, <3>1 DEF UnlockRoots
    <3>2. CASE Cmd[p] # "clean"
      <4>1. /\ Exit(p, "ok")
            /\ UNCHANGED <<dirs, link, storageType, populated, runs>>
        BY <2>7, <3>2 DEF UnlockRoots
      <4> QED BY <4>1, ExitTypes
    <3> QED BY <3>1, <3>2
  <2>8. CASE CleanStackerDir(p)
    BY <2>8 DEF CleanStackerDir
  <2> QED BY <2>1, <2>2, <2>3, <2>4, <2>5, <2>6, <2>7, <2>8 DEF Command
<1>4. ASSUME NEW p \in Procs, Kill(p) PROVE TypeOK'
  BY <1>4 DEF Kill, Exit, Released, PCs, Outcomes
<1>5. CASE UNCHANGED vars
  BY <1>5 DEF vars
<1> QED BY <1>1, <1>2, <1>3, <1>4, <1>5 DEF Next

\* lock(): opening and locking the two files.
LEMMA CreateStackerLockInv ==
  ASSUME LockInv, NEW p \in Procs, CreateStackerLock(p), TypeOK'
  PROVE  LockInv'
<1>1. CASE SDir[p] \notin dirs
  BY <1>1, ExitLockInv DEF CreateStackerLock, Unlinked
<1>2. CASE SDir[p] \in dirs
  <2> USE LocksAssumption, <1>2 DEF LockInv, CreateStackerLock
  <2>1. PICK i \in Inodes :
          /\ i = link[SDir[p]] \/ i \in FreshInodes
          /\ link' = [link EXCEPT ![SDir[p]] = i]
          /\ stackerLock' = [stackerLock EXCEPT ![p] = i]
    BY DEF Opened, FreshInodes, TypeOK
  <2>2. OpenFiles'
    BY <2>1 DEF OpenFiles, TypeOK, HasS, HasR, Critical
  <2>3. Holding'
    BY <2>1 DEF Holding, TypeOK, HasS, HasR, HoldsS, HoldsR, Critical
  <2>4. Separate'
    BY <2>1 DEF Separate, TypeOK, FreshInodes
  <2>5. NoStaleLock'
    BY <2>1 DEF NoStaleLock, TypeOK, Critical
  <2> QED BY <2>2, <2>3, <2>4, <2>5
<1> QED BY <1>1, <1>2

LEMMA FlockStackerInv ==
  ASSUME LockInv, NEW p \in Procs, FlockStacker(p), TypeOK'
  PROVE  LockInv'
<1>1. CASE holder[stackerLock[p]] # None
  BY <1>1, ExitLockInv DEF FlockStacker, Unlinked, fsVars
<1>2. CASE holder[stackerLock[p]] = None
  <2> USE LocksAssumption, <1>2 DEF LockInv, FlockStacker, fsVars
  <2>2. OpenFiles'
    BY DEF OpenFiles, TypeOK, HasS, HasR, Critical
  <2>3. Holding'
    BY DEF Holding, OpenFiles, TypeOK, HasS, HasR, HoldsS, HoldsR, Critical
  <2>4. Separate'
    BY DEF Separate
  <2>5. NoStaleLock'
    BY DEF NoStaleLock, TypeOK, Critical
  <2> QED BY <2>2, <2>3, <2>4, <2>5
<1> QED BY <1>1, <1>2

LEMMA CreateRootsLockInv ==
  ASSUME LockInv, NEW p \in Procs, CreateRootsLock(p), TypeOK'
  PROVE  LockInv'
<1>1. CASE RDir[p] \notin dirs
  BY <1>1, ExitLockInv DEF CreateRootsLock, Unlinked
<1>2. CASE RDir[p] \in dirs
  <2> USE LocksAssumption, <1>2 DEF LockInv, CreateRootsLock
  <2>1. PICK i \in Inodes :
          /\ i = link[RDir[p]] \/ i \in FreshInodes
          /\ link' = [link EXCEPT ![RDir[p]] = i]
          /\ rootsLock' = [rootsLock EXCEPT ![p] = i]
    BY DEF Opened, FreshInodes, TypeOK
  <2>2. OpenFiles'
    BY <2>1 DEF OpenFiles, TypeOK, HasS, HasR, Critical
  <2>3. Holding'
    BY <2>1 DEF Holding, TypeOK, HasS, HasR, HoldsS, HoldsR, Critical
  <2>4. Separate'
    BY <2>1 DEF Separate, TypeOK, FreshInodes
  <2>5. NoStaleLock'
    BY <2>1 DEF NoStaleLock, TypeOK, Critical
  <2> QED BY <2>2, <2>3, <2>4, <2>5
<1> QED BY <1>1, <1>2

LEMMA FlockRootsInv ==
  ASSUME LockInv, NEW p \in Procs, FlockRoots(p), TypeOK'
  PROVE  LockInv'
<1>1. CASE holder[rootsLock[p]] # None
  BY <1>1, ExitLockInv DEF FlockRoots, Unlinked, fsVars
<1>2. CASE holder[rootsLock[p]] = None
  <2> USE LocksAssumption, <1>2 DEF LockInv, FlockRoots, fsVars
  <2>2. OpenFiles'
    BY DEF OpenFiles, TypeOK, HasS, HasR, Critical
  <2>3. Holding'
    BY DEF Holding, OpenFiles, TypeOK, HasS, HasR, HoldsS, HoldsR, Critical
  <2>4. Separate'
    BY DEF Separate
  <2>5. NoStaleLock'
    BY DEF NoStaleLock, TypeOK, Critical
  <2> QED BY <2>2, <2>3, <2>4, <2>5
<1> QED BY <1>1, <1>2

\* Unlock(): one file after the other.
LEMMA UnlockStackerInv ==
  ASSUME LockInv, NEW p \in Procs, UnlockStacker(p), TypeOK'
  PROVE  LockInv'
<1> USE LocksAssumption DEF LockInv, UnlockStacker, fsVars
<1>2. OpenFiles'
  BY DEF OpenFiles, TypeOK, HasS, HasR, Critical
<1>3. Holding'
  BY DEF Holding, OpenFiles, Separate, TypeOK, HasS, HasR, HoldsS, HoldsR,
         Critical
<1>4. Separate'
  BY DEF Separate, TypeOK
<1>5. NoStaleLock'
  BY DEF NoStaleLock, OpenFiles, TypeOK, Critical, HasS, HasR
<1> QED BY <1>2, <1>3, <1>4, <1>5

LEMMA UnlockRootsInv ==
  ASSUME LockInv, NEW p \in Procs, UnlockRoots(p), TypeOK'
  PROVE  LockInv'
<1>1. CASE Cmd[p] # "clean"
  BY <1>1, ExitLockInv DEF UnlockRoots, Unlinked, fsVars
<1>2. CASE Cmd[p] = "clean"
  <2> USE LocksAssumption, <1>2 DEF LockInv, UnlockRoots, fsVars
  <2>2. OpenFiles'
    BY DEF OpenFiles, TypeOK, HasS, HasR, Critical
  <2>3. Holding'
    <3>1. rootsLock[p] \in Inodes /\ holder[rootsLock[p]] = p
      BY DEF OpenFiles, Holding, TypeOK, HasR, HoldsR
    <3>2. /\ \A i \in Inodes : i # rootsLock[p] => holder'[i] = holder[i]
          /\ holder'[rootsLock[p]] = None
      BY <3>1 DEF TypeOK
    <3>3. /\ \A q \in Procs : pc'[q] \in HoldsS => pc[q] \in HoldsS
          /\ \A q \in Procs : pc'[q] \in HoldsR => pc[q] \in HoldsR /\ q # p
          /\ stackerLock' = stackerLock
          /\ \A q \in Procs \ {p} : rootsLock'[q] = rootsLock[q]
      BY DEF TypeOK, HoldsS, HoldsR, HasS, HasR, Critical
    <3>4. \A q \in Procs : pc[q] \in HoldsS =>
            /\ stackerLock[q] \in Inodes /\ stackerLock[q] # rootsLock[p]
      BY DEF OpenFiles, Separate, TypeOK, HoldsS, HasS
    <3>5. \A q \in Procs \ {p} : pc[q] \in HoldsR =>
            /\ rootsLock[q] \in Inodes /\ rootsLock[q] # rootsLock[p]
      BY <3>1 DEF OpenFiles, Holding, TypeOK, HoldsR, HasR
    <3> QED BY <3>2, <3>3, <3>4, <3>5 DEF Holding
  <2>4. Separate'
    <3>1. /\ link' = link /\ stackerLock' = stackerLock
          /\ \A q \in Procs : rootsLock'[q] \in {rootsLock[q], None}
      BY DEF TypeOK
    <3> QED BY <3>1 DEF Separate
  <2>5. NoStaleLock'
    BY DEF NoStaleLock, OpenFiles, TypeOK, Critical, HasS, HasR
  <2> QED BY <2>2, <2>3, <2>4, <2>5
<1> QED BY <1>1, <1>2

-----------------------------------------------------------------------------
LEMMA StepLockInv ==
  ASSUME LockInv, [Next]_vars
  PROVE  LockInv'
<1>0. TypeOK'
  BY StepTypeOK DEF LockInv
<1> USE LocksAssumption, <1>0 DEF fsVars
<1>u. (UNCHANGED link) => Unlinked
  BY DEF Unlinked
<1>r. ASSUME NEW d \in Dirs, RemoveAll(d) PROVE Unlinked
  BY <1>r DEF RemoveAll, Unlinked, LockInv, TypeOK
<1>1. ASSUME NEW p \in Procs, Start(p) PROVE LockInv'
  <2> USE <1>1 DEF Start, LockInv
  <2>2. OpenFiles'
    BY DEF OpenFiles, TypeOK, HasS, HasR, Critical
  <2>3. Holding'
    BY DEF Holding, TypeOK, HoldsS, HoldsR, HasS, HasR, Critical
  <2>4. Separate' /\ NoStaleLock'
    BY DEF Separate, NoStaleLock, TypeOK, Critical
  <2> QED BY <2>2, <2>3, <2>4
<1>2. ASSUME NEW p \in Procs, NewStorage(p) PROVE LockInv'
  <2> USE <1>2, <1>u, GotoLockInv, ExitLockInv
          DEF HasS, HasR, HoldsS, HoldsR, Critical
  <2>1. CASE MkdirRoots(p)
    BY <2>1 DEF MkdirRoots
  <2>2. CASE ErrorOnStorageTypeSwitch(p)
    BY <2>2 DEF ErrorOnStorageTypeSwitch
  <2>3. CASE MkdirBoth(p)
    BY <2>3 DEF MkdirBoth
  <2>4. CASE WriteStorageType(p)
    BY <2>4 DEF WriteStorageType
  <2>5. CASE OpenStorage(p)
    BY <2>5 DEF OpenStorage
  <2>6. CASE CreateStackerLock(p)
    BY <2>6, CreateStackerLockInv
  <2>7. CASE FlockStacker(p)
    BY <2>7, FlockStackerInv
  <2>8. CASE CreateRootsLock(p)
    BY <2>8, CreateRootsLockInv
  <2>9. CASE FlockRoots(p)
    BY <2>9, FlockRootsInv
  <2> QED BY <2>1, <2>2, <2>3, <2>4, <2>5, <2>6, <2>7, <2>8, <2>9
          DEF NewStorage
<1>3. ASSUME NEW p \in Procs, Command(p) PROVE LockInv'
  <2> USE <1>3, <1>u, <1>r DEF HasS, HasR, HoldsS, HoldsR, Critical
  <2>1. CASE BuildFile(p)
    BY <2>1, GotoLockInv DEF BuildFile
  <2>2. CASE BuildUnpack(p) \/ BuildLayers(p)
    BY <2>2, GotoLockInv DEF BuildUnpack, BuildLayers
  <2>3. CASE NextFile(p)
    BY <2>3, GotoLockInv DEF NextFile
  <2>4. CASE GrabOrChroot(p)
    BY <2>4, GotoLockInv DEF GrabOrChroot
  <2>5. CASE Clean(p)
    BY <2>5, GotoLockInv DEF Clean
  <2>6. CASE UnlockStacker(p)
    BY <2>6, UnlockStackerInv
  <2>7. CASE UnlockRoots(p)
    BY <2>7, UnlockRootsInv
  <2>8. CASE CleanStackerDir(p)
    BY <2>8, ExitLockInv DEF CleanStackerDir
  <2> QED BY <2>1, <2>2, <2>3, <2>4, <2>5, <2>6, <2>7, <2>8 DEF Command
<1>4. ASSUME NEW p \in Procs, Kill(p) PROVE LockInv'
  BY <1>4, <1>u, ExitLockInv DEF Kill
<1>5. CASE UNCHANGED vars
  BY <1>5 DEF vars, LockInv, TypeOK, OpenFiles, Holding, Separate, NoStaleLock
<1> QED BY <1>1, <1>2, <1>3, <1>4, <1>5 DEF Next
-----------------------------------------------------------------------------
\* The inductive invariant holds in every reachable state.
LEMMA LockInvariant == Spec => []LockInv
<1>1. LockInv /\ [Next]_vars => LockInv'
  BY StepLockInv
<1> QED BY InitLockInv, <1>1, PTL DEF Spec

\* The state of NewStorage, lock() and the commands is well typed.
THEOREM TypeCorrect == Spec => []TypeOK
<1>1. LockInv => TypeOK
  BY DEF LockInv
<1> QED BY LockInvariant, <1>1, PTL

\* No flock outlives its invocation: whatever ends a run (an error of
\* NewStorage, lock()'s own error path, Unlock, a kill, "clean" included),
\* every flocked inode belongs to a live run between its flock and its close.
THEOREM NoLockIsStale == Spec => []NoStaleLock
<1>1. LockInv => NoStaleLock
  BY DEF LockInv
<1> QED BY LockInvariant, <1>1, PTL

\* Unless a step removes a roots dir, the roots lock file a process has open
\* stays the one its path names.
LEMMA StepRootsLinked ==
  ASSUME \A p \in Procs : ~Clean(p), LockInv, LockInv', RootsLinked, [Next]_vars
  PROVE  RootsLinked'
<1> USE LocksAssumption DEF RootsLinked, LockInv, TypeOK, fsVars
<1>1. ASSUME NEW p \in Procs, Start(p) PROVE RootsLinked'
  BY <1>1 DEF Start
<1>2. ASSUME NEW p \in Procs, NewStorage(p) PROVE RootsLinked'
  <2> USE <1>2 DEF Goto, Exit
  <2>1. CASE MkdirRoots(p) \/ ErrorOnStorageTypeSwitch(p) \/ MkdirBoth(p)
             \/ WriteStorageType(p) \/ OpenStorage(p)
    BY <2>1 DEF MkdirRoots, ErrorOnStorageTypeSwitch, MkdirBoth,
                WriteStorageType, OpenStorage
  <2>2. CASE CreateStackerLock(p)
    BY <2>2 DEF CreateStackerLock
  <2>3. CASE FlockStacker(p) \/ FlockRoots(p)
    BY <2>3 DEF FlockStacker, FlockRoots
  <2>4. CASE CreateRootsLock(p)
    BY <2>4 DEF CreateRootsLock, Opened
  <2> QED BY <2>1, <2>2, <2>3, <2>4 DEF NewStorage
<1>3. ASSUME NEW p \in Procs, Command(p) PROVE RootsLinked'
  <2> USE <1>3 DEF Goto, Exit
  <2>1. CASE BuildFile(p)
    BY <2>1 DEF BuildFile, RemoveAll
  <2>2. CASE BuildUnpack(p) \/ BuildLayers(p) \/ NextFile(p) \/ GrabOrChroot(p)
    BY <2>2 DEF BuildUnpack, BuildLayers, NextFile, GrabOrChroot
  <2>3. CASE Clean(p)
    BY <2>3
  <2>4. CASE UnlockStacker(p) \/ UnlockRoots(p)
    BY <2>4 DEF UnlockStacker, UnlockRoots
  <2>5. CASE CleanStackerDir(p)
    BY <2>5 DEF CleanStackerDir, RemoveAll
  <2> QED BY <2>1, <2>2, <2>3, <2>4, <2>5 DEF Command
<1>4. ASSUME NEW p \in Procs, Kill(p) PROVE RootsLinked'
  BY <1>4 DEF Kill, Exit
<1>5. CASE UNCHANGED vars
  BY <1>5 DEF vars
<1> QED BY <1>1, <1>2, <1>3, <1>4, <1>5 DEF Next

LEMMA NoCleanStep == NoClean => \A p \in Procs : ~Clean(p)
  BY DEF NoClean, Clean

LEMMA LinkedExclusion == LockInv /\ RootsLinked => RootsExclusion
  BY LocksAssumption DEF LockInv, TypeOK, OpenFiles, Holding, RootsLinked,
     RootsExclusion, HasR, HoldsR, Critical

\* Builds, with or without --no-cache, grabs and chroots on one roots dir
\* exclude each other, for any number of processes, any assignment of stacker
\* dirs to them, and kills at any point.  The stacker lock alone would not do:
\* --no-cache unlinks it while it is held.
THEOREM RootsAreExclusive ==
  ASSUME NoClean
  PROVE  Spec => []RootsExclusion
<1>1. Init => RootsLinked
  BY DEF Init, RootsLinked
<1>2. LockInv /\ LockInv' /\ RootsLinked /\ [Next]_vars => RootsLinked'
  BY NoClean, NoCleanStep, StepRootsLinked
<1> QED BY <1>1, <1>2, LinkedExclusion, LockInvariant, PTL DEF Spec

\* An invocation under way has been counted, and nobody stops being past the
\* removal of its first clean.
LEMMA StepBeforeClean ==
  ASSUME TypeOK, Counted, [Next]_vars
  PROVE  /\ Counted'
         /\ BeforeClean' => BeforeClean /\ \A p \in Procs : ~Clean(p)
<1> DEFINE Kept == /\ Counted'
                   /\ BeforeClean' => BeforeClean /\ \A p \in Procs : ~Clean(p)
<1> USE DEF TypeOK, Counted, BeforeClean, Clean, Goto, Exit, fsVars, Critical
<1>1. ASSUME NEW p \in Procs, Start(p) PROVE Kept
  BY <1>1 DEF Start
<1>2. ASSUME NEW p \in Procs, NewStorage(p) PROVE Kept
  <2> USE <1>2
  <2>1. CASE MkdirRoots(p) \/ ErrorOnStorageTypeSwitch(p) \/ MkdirBoth(p)
    BY <2>1 DEF MkdirRoots, ErrorOnStorageTypeSwitch, MkdirBoth
  <2>2. CASE WriteStorageType(p) \/ OpenStorage(p)
    BY <2>2 DEF WriteStorageType, OpenStorage
  <2>3. CASE CreateStackerLock(p) \/ FlockStacker(p)
    BY <2>3 DEF CreateStackerLock, FlockStacker
  <2>4. CASE CreateRootsLock(p) \/ FlockRoots(p)
    BY <2>4 DEF CreateRootsLock, FlockRoots
  <2> QED BY <2>1, <2>2, <2>3, <2>4 DEF NewStorage
<1>3. ASSUME NEW p \in Procs, Command(p) PROVE Kept
  <2> USE <1>3
  <2>1. CASE BuildFile(p) \/ BuildUnpack(p) \/ BuildLayers(p) \/ NextFile(p)
             \/ GrabOrChroot(p)
    BY <2>1 DEF BuildFile, BuildUnpack, BuildLayers, NextFile, GrabOrChroot
  <2>2. CASE Clean(p)
    BY <2>2
  <2>3. CASE UnlockStacker(p) \/ UnlockRoots(p) \/ CleanStackerDir(p)
    BY <2>3 DEF UnlockStacker, UnlockRoots, CleanStackerDir
  <2> QED BY <2>1, <2>2, <2>3 DEF Command
<1>4. ASSUME NEW p \in Procs, Kill(p) PROVE Kept
  BY <1>4 DEF Kill
<1>5. CASE UNCHANGED vars
  BY <1>5 DEF vars
<1> QED BY <1>1, <1>2, <1>3, <1>4, <1>5 DEF Next

\* The first "clean" has the roots dir to itself when it removes it, for any
\* number of processes, commands and directories: until then every path still
\* names the lock file that its users have open.
THEOREM FirstCleanIsAlone == Spec => CleanAlone
<1> DEFINE Alone == \A p \in Procs : Clean(p) /\ FirstClean(p) =>
                      \A q \in Procs \ {p} :
                        RDir[q] = RDir[p] => pc[q] \notin Critical
<1> DEFINE Linked == Counted /\ (BeforeClean => RootsLinked)
<1>1. Init => Linked
  BY DEF Init, RootsLinked, Counted
<1>2. LockInv /\ LockInv' /\ Linked /\ [Next]_vars => Linked'
  <2>1. LockInv => TypeOK
    BY DEF LockInv
  <2> QED BY <2>1, StepBeforeClean, StepRootsLinked
<1>3. LockInv /\ Linked => [Alone]_vars
  <2> SUFFICES ASSUME LockInv, Linked,
                      NEW p \in Procs, Clean(p), FirstClean(p),
                      NEW q \in Procs \ {p}, RDir[q] = RDir[p]
               PROVE  pc[q] \notin Critical
    OBVIOUS
  <2>1. BeforeClean
    BY DEF BeforeClean, FirstClean, Clean
  <2>2. RootsExclusion
    BY <2>1, LinkedExclusion
  <2> QED BY <2>2 DEF RootsExclusion, Clean, Critical
<1> QED BY <1>1, <1>2, <1>3, LockInvariant, PTL DEF Spec, CleanAlone

\* As long as no directory is cleaned, only --no-cache can unlink a stacker
\* lock file that somebody has open.
LEMMA StepStackerLinked ==
  ASSUME NoClean, LockInv, LockInv', StackerLinked, [Next]_vars
  PROVE  StackerLinked'
<1> USE LocksAssumption DEF StackerLinked, LockInv, TypeOK, fsVars, CacheKept
<1>1. ASSUME NEW p \in Procs, Start(p) PROVE StackerLinked'
  BY <1>1, NoClean DEF Start, NoClean
<1>2. ASSUME NEW p \in Procs, NewStorage(p) PROVE StackerLinked'
  <2> USE <1>2 DEF Goto, Exit
  <2>1. CASE MkdirRoots(p) \/ ErrorOnStorageTypeSwitch(p) \/ MkdirBoth(p)
             \/ WriteStorageType(p) \/ OpenStorage(p)
    BY <2>1 DEF MkdirRoots, ErrorOnStorageTypeSwitch, MkdirBoth,
                WriteStorageType, OpenStorage
  <2>2. CASE CreateStackerLock(p)
    BY <2>2 DEF CreateStackerLock, Opened
  <2>3. CASE FlockStacker(p) \/ FlockRoots(p)
    BY <2>3 DEF FlockStacker, FlockRoots
  <2>4. CASE CreateRootsLock(p)
    BY <2>4 DEF CreateRootsLock
  <2> QED BY <2>1, <2>2, <2>3, <2>4 DEF NewStorage
<1>3. ASSUME NEW p \in Procs, Command(p) PROVE StackerLinked'
  <2> USE <1>3, NoClean DEF NoClean, Goto, Exit
  <2>1. CASE BuildFile(p)
    <3>1. CASE Cmd[p] = "nocache"
      BY <2>1, <3>1 DEF BuildFile, RemoveAll
    <3>2. CASE Cmd[p] # "nocache"
      BY <2>1, <3>2 DEF BuildFile
    <3> QED BY <3>1, <3>2
  <2>2. CASE BuildUnpack(p) \/ BuildLayers(p) \/ NextFile(p) \/ GrabOrChroot(p)
    BY <2>2 DEF BuildUnpack, BuildLayers, NextFile, GrabOrChroot
  <2>3. CASE Clean(p)
    BY <2>3 DEF Clean
  <2>4. CASE UnlockStacker(p) \/ UnlockRoots(p)
    BY <2>4 DEF UnlockStacker, UnlockRoots
  <2>5. CASE CleanStackerDir(p)
    BY <2>5 DEF CleanStackerDir
  <2> QED BY <2>1, <2>2, <2>3, <2>4, <2>5 DEF Command
<1>4. ASSUME NEW p \in Procs, Kill(p) PROVE StackerLinked'
  BY <1>4 DEF Kill, Exit
<1>5. CASE UNCHANGED vars
  BY <1>5 DEF vars
<1> QED BY <1>1, <1>2, <1>3, <1>4, <1>5 DEF Next

\* Invocations on one stacker dir exclude each other, for any number of
\* processes, as long as nobody runs "clean", and --no-cache is used only where
\* the roots dir, which it leaves alone, is shared as well: the build.cache and
\* the imports of a stacker dir have one user at a time.
THEOREM StackerDirsAreExclusive ==
  ASSUME NoClean, StackerShared
  PROVE  Spec => []StackerExclusion
<1>1. Init => StackerLinked /\ RootsLinked
  BY DEF Init, StackerLinked, RootsLinked
<1>2. LockInv /\ LockInv' /\ StackerLinked /\ [Next]_vars => StackerLinked'
  BY NoClean, StepStackerLinked
<1>3. LockInv /\ LockInv' /\ RootsLinked /\ [Next]_vars => RootsLinked'
  BY NoClean, NoCleanStep, StepRootsLinked
<1>4. LockInv /\ StackerLinked /\ RootsLinked => StackerExclusion
  <2> SUFFICES ASSUME LockInv, StackerLinked, RootsLinked,
                      NEW p \in Procs, NEW q \in Procs, p # q,
                      SDir[p] = SDir[q],
                      pc[p] \in Critical, pc[q] \in Critical
               PROVE  FALSE
    BY DEF StackerExclusion
  <2>1. /\ holder[stackerLock[p]] = p /\ holder[stackerLock[q]] = q
        /\ holder[rootsLock[p]] = p /\ holder[rootsLock[q]] = q
        /\ stackerLock[p] # None /\ stackerLock[q] # None
        /\ rootsLock[p] # None /\ rootsLock[q] # None
    BY DEF LockInv, OpenFiles, Holding, HasS, HoldsS, HasR, HoldsR, Critical
  <2>2. CASE RDir[p] = RDir[q]
    BY <2>1, <2>2 DEF RootsLinked
  <2>3. CASE CacheKept(SDir[p])
    BY <2>1, <2>3 DEF StackerLinked
  <2> QED BY <2>2, <2>3, StackerShared DEF StackerShared
<1> QED BY <1>1, <1>2, <1>3, <1>4, LockInvariant, PTL DEF Spec

-----------------------------------------------------------------------------
\* Every way out of an invocation sets its outcome, and only those do.
LEMMA StepRunning ==
  ASSUME TypeOK, Running, [Next]_vars
  PROVE  Running'
<1> USE DEF Running, TypeOK, Goto, Exit, fsVars
<1>1. ASSUME NEW p \in Procs, Start(p) PROVE Running'
  BY <1>1 DEF Start
<1>2. ASSUME NEW p \in Procs, NewStorage(p) PROVE Running'
  <2> USE <1>2
  <2>1. CASE MkdirRoots(p) \/ ErrorOnStorageTypeSwitch(p) \/ MkdirBoth(p)
    BY <2>1 DEF MkdirRoots, ErrorOnStorageTypeSwitch, MkdirBoth
  <2>2. CASE WriteStorageType(p) \/ OpenStorage(p)
    BY <2>2 DEF WriteStorageType, OpenStorage
  <2>3. CASE CreateStackerLock(p) \/ FlockStacker(p)
    BY <2>3 DEF CreateStackerLock, FlockStacker
  <2>4. CASE CreateRootsLock(p) \/ FlockRoots(p)
    BY <2>4 DEF CreateRootsLock, FlockRoots
  <2> QED BY <2>1, <2>2, <2>3, <2>4 DEF NewStorage
<1>3. ASSUME NEW p \in Procs, Command(p) PROVE Running'
  <2> USE <1>3
  <2>1. CASE BuildFile(p) \/ BuildUnpack(p) \/ BuildLayers(p) \/ NextFile(p) \/ GrabOrChroot(p)
    BY <2>1 DEF BuildFile, BuildUnpack, BuildLayers, NextFile, GrabOrChroot
  <2>2. CASE Clean(p) \/ UnlockStacker(p) \/ UnlockRoots(p)
             \/ CleanStackerDir(p)
    BY <2>2 DEF Clean, UnlockStacker, UnlockRoots, CleanStackerDir
  <2> QED BY <2>1, <2>2 DEF Command
<1>4. ASSUME NEW p \in Procs, Kill(p) PROVE Running'
  BY <1>4 DEF Kill
<1>5. CASE UNCHANGED vars
  BY <1>5 DEF vars
<1> QED BY <1>1, <1>2, <1>3, <1>4, <1>5 DEF Next

\* Only the two calls of flock(2) report "couldn't acquire lock", and they do
\* so when the inode they opened is locked.
LEMMA LockedAtFlock ==
  ASSUME TypeOK, [Next]_vars, NEW p \in Procs,
         outcome'[p] = "locked", outcome[p] = "running"
  PROVE  \/ pc[p] = "flockS" /\ holder[stackerLock[p]] # None
         \/ pc[p] = "flockR" /\ holder[rootsLock[p]] # None
<1> USE DEF TypeOK, Goto, Exit, fsVars
<1>1. ASSUME NEW q \in Procs, Start(q) \/ Kill(q) PROVE FALSE
  BY <1>1 DEF Start, Kill
<1>2. ASSUME NEW q \in Procs, NewStorage(q) PROVE
        \/ pc[p] = "flockS" /\ holder[stackerLock[p]] # None
        \/ pc[p] = "flockR" /\ holder[rootsLock[p]] # None
  <2> USE <1>2
  <2>1. CASE MkdirRoots(q) \/ ErrorOnStorageTypeSwitch(q) \/ MkdirBoth(q)
    BY <2>1 DEF MkdirRoots, ErrorOnStorageTypeSwitch, MkdirBoth
  <2>2. CASE WriteStorageType(q) \/ OpenStorage(q)
    BY <2>2 DEF WriteStorageType, OpenStorage
  <2>3. CASE CreateStackerLock(q) \/ CreateRootsLock(q)
    BY <2>3 DEF CreateStackerLock, CreateRootsLock
  <2>4. CASE FlockStacker(q)
    BY <2>4 DEF FlockStacker
  <2>5. CASE FlockRoots(q)
    BY <2>5 DEF FlockRoots
  <2> QED BY <2>1, <2>2, <2>3, <2>4, <2>5 DEF NewStorage
<1>3. ASSUME NEW q \in Procs, Command(q) PROVE FALSE
  <2> USE <1>3
  <2>1. CASE BuildFile(q) \/ BuildUnpack(q) \/ BuildLayers(q) \/ NextFile(q) \/ GrabOrChroot(q)
    BY <2>1 DEF BuildFile, BuildUnpack, BuildLayers, NextFile, GrabOrChroot
  <2>2. CASE Clean(q) \/ UnlockStacker(q) \/ UnlockRoots(q)
             \/ CleanStackerDir(q)
    BY <2>2 DEF Clean, UnlockStacker, UnlockRoots, CleanStackerDir
  <2> QED BY <2>1, <2>2 DEF Command
<1>4. CASE UNCHANGED vars
  BY <1>4 DEF vars
<1> QED BY <1>1, <1>2, <1>3, <1>4 DEF Next

\* An invocation is turned away only by one that is alive and holds the inode
\* it opened, whatever was killed, cleaned or removed before: flock(2) leaves no
\* stale lock to trip over, and lock() never trips over its own first lock.
THEOREM TurnedAwayByTheLiving == Spec => LockedMeansBusy
<1>1. Init => Running
  BY DEF Init, Running
<1>2. LockInv /\ Running /\ [Next]_vars => Running'
  BY StepRunning DEF LockInv
<1>3. LockInv /\ Running /\ [Next]_vars =>
        [\A p \in Procs :
           outcome'[p] = "locked" /\ outcome[p] = "running" =>
             \E q \in Procs \ {p} :
               /\ outcome[q] = "running"
               /\ \E i \in {stackerLock[p], rootsLock[p]} \ {None} :
                    holder[i] = q]_vars
  <2> SUFFICES ASSUME LockInv, Running, [Next]_vars, NEW p \in Procs,
                      outcome'[p] = "locked", outcome[p] = "running"
               PROVE  \E q \in Procs \ {p} :
                        /\ outcome[q] = "running"
                        /\ \E i \in {stackerLock[p], rootsLock[p]} \ {None} :
                             holder[i] = q
    OBVIOUS
  <2>1. PICK i \in {stackerLock[p], rootsLock[p]} \ {None} :
          /\ i \in Inodes /\ holder[i] # None
          /\ \/ pc[p] = "flockS" /\ i = stackerLock[p]
             \/ pc[p] = "flockR" /\ i = rootsLock[p]
    BY LockedAtFlock DEF LockInv, OpenFiles, TypeOK, HasS, HasR, Critical
  <2>2. /\ holder[i] \in Procs /\ pc[holder[i]] # "idle"
        /\ \/ /\ stackerLock[holder[i]] = i
              /\ pc[holder[i]] \in Critical \union
                                      {"createR", "flockR", "unlockS"}
           \/ /\ rootsLock[holder[i]] = i
              /\ pc[holder[i]] \in Critical \union {"unlockS", "unlockR"}
    BY <2>1 DEF LockInv, TypeOK, NoStaleLock, Critical
  <2>3. holder[i] # p
    BY <2>1, <2>2 DEF LockInv, Separate, Critical
  <2> QED BY <2>1, <2>2, <2>3 DEF Running
<1> QED BY <1>1, <1>2, <1>3, LockInvariant, PTL DEF Spec, LockedMeansBusy
=============================================================================
