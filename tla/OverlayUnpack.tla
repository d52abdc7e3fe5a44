---------------------------- MODULE OverlayUnpack ----------------------------
(***************************************************************************)
(* overlay.Unpack (pkg/overlay/pack.go) on the thread pool of              *)
(* pkg/overlay/pool.go: the caller queues one task per distinct layer      *)
(* digest of an image, closes the queue and runs the pool; n workers       *)
(* execute unpackOne, which extracts a layer into <roots dir>/<digest>.    *)
(* A directory that has any entry is taken to be extracted already.        *)
(*                                                                         *)
(* The directories survive from one Unpack to the next and from one        *)
(* invocation of stacker to the next; nothing else here does.              *)
(***************************************************************************)
EXTENDS Naturals, Sequences, FiniteSets

CONSTANTS
  Digests,   \* layer digests
  None,      \* no digest, no worker
  Images,    \* the manifests: sequences of digests, repetitions allowed
  Media,     \* Media[d]: "tar", "fs" (squashfs, erofs) or "unknown"
  Workers,   \* runtime.NumCPU() goroutines
  Cap,       \* capacity of the task channel, 1000 in NewThreadPool
  Faults,    \* which faults happen, see below
  MaxRuns    \* bound on the calls of Unpack

(* Faults: "kill"    the process dies; what is on disk stays               *)
(*         "rmfail"  the os.RemoveAll after a failed extraction fails       *)
(*         "fsdirty" a failed ExtractSingle leaves entries behind           *)

LayersOf(m) == {m[k] : k \in 1..Len(m)}

ASSUME UnpackAssumption ==
  /\ None \notin Digests /\ None \notin Workers
  /\ Images \subseteq Seq(Digests)
  /\ Media \in [Digests -> {"tar", "fs", "unknown"}]
  /\ Workers # {}
  /\ Cap \in Nat
  /\ \A m \in Images : Cardinality(LayersOf(m)) <= Cap
  /\ Faults \subseteq {"kill", "rmfail", "fsdirty"}
  /\ MaxRuns \in Nat

VARIABLES
  extractDir,  \* extractDir[d]: "empty", "partial" or "full"
  image,       \* the manifest's layers
  caller,      \* the goroutine that called Unpack
  next,        \* index of its loop over the layers
  seen,        \* digests it has queued
  tasks,       \* the channel's content
  closed,      \* close(tp.tasks)
  cancelled,   \* tp.cancel()
  err,         \* tp.err # nil
  worker,      \* worker[w]: the step w takes next
  job,         \* job[w]: the digest w works on
  tarEx,       \* the worker that holds the tarEx mutex
  result,      \* how the last Unpack ended
  runs         \* calls so far

poolVars == <<next, seen, tasks, closed, cancelled, err>>
vars == <<extractDir, image, caller, poolVars, worker, job, tarEx, result,
          runs>>

WorkerPCs == {"off", "select", "check", "fsExtract", "fsEnd", "tarLock",
              "tarOpen", "tarUnpack", "tarRemove", "setErr", "cancel",
              "returned"}

-----------------------------------------------------------------------------
Init ==
  /\ extractDir = [d \in Digests |-> "empty"]
  /\ image \in Images
  /\ caller = "idle"
  /\ next = 1
  /\ seen = {}
  /\ tasks = <<>>
  /\ closed = FALSE
  /\ cancelled = FALSE
  /\ err = FALSE
  /\ worker = [w \in Workers |-> "off"]
  /\ job = [w \in Workers |-> None]
  /\ tarEx = None
  /\ result = "none"
  /\ runs = 0

-----------------------------------------------------------------------------
(* The caller *)

\* Unpack is called; NewThreadPool.
Unpack ==
  /\ caller = "idle"
  /\ runs < MaxRuns
  /\ runs' = runs + 1
  /\ image' \in Images
  /\ caller' = "add"
  /\ next' = 1
  /\ seen' = {}
  /\ tasks' = <<>>
  /\ closed' = FALSE
  /\ cancelled' = FALSE
  /\ err' = FALSE
  /\ result' = "running"
  /\ UNCHANGED <<extractDir, worker, job, tarEx>>

\* The image cannot be opened or found: nothing was queued yet.
LookupFails ==
  /\ caller = "add" /\ next = 1
  /\ caller' = "idle"
  /\ result' = "err"
  /\ UNCHANGED <<extractDir, image, poolVars, worker, job, tarEx, runs>>

\* Mutant of AddJob: the same digest is queued once per occurrence.
AddJobUnseen ==
  /\ caller = "add" /\ next <= Len(image)
  /\ Len(tasks) < Cap
  /\ tasks' = Append(tasks, image[next])
  /\ seen' = seen \union {image[next]}
  /\ next' = next + 1
  /\ UNCHANGED <<extractDir, image, caller, closed, cancelled, err, worker,
                 job, tarEx, result, runs>>

\* Mutant of AddJob: a channel one slot too small; no worker runs yet, so the
\* send never completes.
AddJobSmallChannel ==
  /\ caller = "add" /\ next <= Len(image)
  /\ Len(tasks) < Cap - 1
  /\ tasks' = Append(tasks, image[next])
  /\ seen' = seen \union {image[next]}
  /\ next' = next + 1
  /\ UNCHANGED <<extractDir, image, caller, closed, cancelled, err, worker,
                 job, tarEx, result, runs>>

\* One iteration of the loop; the send blocks while the channel is full.
AddJob ==
  /\ caller = "add" /\ next <= Len(image)
  /\ next' = next + 1
  /\ \/ /\ image[next] \in seen
        /\ UNCHANGED <<seen, tasks>>
     \/ /\ image[next] \notin seen
        /\ Len(tasks) < Cap
        /\ tasks' = Append(tasks, image[next])
        /\ seen' = seen \union {image[next]}
  /\ UNCHANGED <<extractDir, image, caller, closed, cancelled, err, worker,
                 job, tarEx, result, runs>>

\* DoneAddingJobs, then Run starts the goroutines.
DoneAddingJobs ==
  /\ caller = "add" /\ next > Len(image)
  /\ closed' = TRUE
  /\ caller' = "wait"
  /\ worker' = [w \in Workers |-> "select"]
  /\ UNCHANGED <<extractDir, image, next, seen, tasks, cancelled, err, job,
                 tarEx, result, runs>>

\* Mutant of RunReturns: does not wait for all goroutines.
RunReturnsEarly ==
  /\ caller = "wait"
  /\ \E w \in Workers : worker[w] = "returned"
  /\ caller' = IF err THEN "idle" ELSE "create"
  /\ result' = IF err THEN "err" ELSE result
  /\ UNCHANGED <<extractDir, image, poolVars, worker, job, tarEx, runs>>

\* wg.Wait is over and Run returns tp.err.
RunReturns ==
  /\ caller = "wait"
  /\ \A w \in Workers : worker[w] = "returned"
  /\ caller' = IF err THEN "idle" ELSE "create"
  /\ result' = IF err THEN "err" ELSE result
  /\ UNCHANGED <<extractDir, image, poolVars, worker, job, tarEx, runs>>

\* Create, newOverlayMetadataFromOCI and write, any of which may fail.
WriteMetadata ==
  /\ caller = "create"
  /\ caller' = "idle"
  /\ result' \in {"ok", "err"}
  /\ UNCHANGED <<extractDir, image, poolVars, worker, job, tarEx, runs>>

-----------------------------------------------------------------------------
(* A worker *)

workerFrame == <<image, caller, next, seen, closed, result, runs>>

Step(w, from, to) == worker[w] = from /\ worker' = [worker EXCEPT ![w] = to]

Dir(w, state) == extractDir' = [extractDir EXCEPT ![job[w]] = state]

\* The select takes any ready case: a task, the closed channel, or Done.
SelectTask(w) ==
  /\ Step(w, "select", "check")
  /\ tasks # <<>>
  /\ job' = [job EXCEPT ![w] = Head(tasks)]
  /\ tasks' = Tail(tasks)
  /\ UNCHANGED <<workerFrame, extractDir, cancelled, err, tarEx>>

\* Mutant of SelectClosed: the second result of the receive is not looked at,
\* and the zero value of a closed channel is taken for a task.
SelectClosedUnchecked(w) ==
  /\ Step(w, "select", "check")
  /\ tasks = <<>> /\ closed
  /\ job' = [job EXCEPT ![w] = None]
  /\ UNCHANGED <<workerFrame, extractDir, tasks, cancelled, err, tarEx>>

SelectClosed(w) ==
  /\ Step(w, "select", "returned")
  /\ tasks = <<>> /\ closed
  /\ UNCHANGED <<workerFrame, extractDir, tasks, cancelled, err, job, tarEx>>

SelectDone(w) ==
  /\ Step(w, "select", "returned")
  /\ cancelled
  /\ UNCHANGED <<workerFrame, extractDir, tasks, cancelled, err, job, tarEx>>

\* unpackOne: hasDirEntries, then the media type decides.
AlreadyPopulated(w) ==
  /\ Step(w, "check", "select")
  /\ extractDir[job[w]] # "empty"
  /\ UNCHANGED <<workerFrame, extractDir, tasks, cancelled, err, job, tarEx>>

Dispatch(w) ==
  /\ worker[w] = "check"
  /\ extractDir[job[w]] = "empty"
  /\ worker' = [worker EXCEPT ![w] =
                  CASE Media[job[w]] = "fs" -> "fsExtract"
                    [] Media[job[w]] = "tar" -> "tarLock"
                    [] OTHER -> "setErr"]
  /\ UNCHANGED <<workerFrame, extractDir, tasks, cancelled, err, job, tarEx>>

\* ExtractSingle: external, it fills the directory.
FsBegin(w) ==
  /\ Step(w, "fsExtract", "fsEnd")
  /\ Dir(w, "partial")
  /\ UNCHANGED <<workerFrame, tasks, cancelled, err, job, tarEx>>

FsEnd(w) ==
  /\ \/ Step(w, "fsEnd", "select") /\ Dir(w, "full")
     \/ Step(w, "fsEnd", "setErr") /\ Dir(w, "empty")
     \/ /\ "fsdirty" \in Faults
        /\ Step(w, "fsEnd", "setErr") /\ UNCHANGED extractDir
  /\ UNCHANGED <<workerFrame, tasks, cancelled, err, job, tarEx>>

TarLock(w) ==
  /\ Step(w, "tarLock", "tarOpen")
  /\ tarEx = None
  /\ tarEx' = w
  /\ UNCHANGED <<workerFrame, extractDir, tasks, cancelled, err, job>>

\* OpenLayout, GetBlob or the gzip header fails, or UnpackLayer begins.
TarOpen(w) ==
  /\ \/ /\ Step(w, "tarOpen", "setErr")
        /\ tarEx' = None
        /\ UNCHANGED extractDir
     \/ /\ Step(w, "tarOpen", "tarUnpack")
        /\ Dir(w, "partial")
        /\ UNCHANGED tarEx
  /\ UNCHANGED <<workerFrame, tasks, cancelled, err, job>>

TarUnpack(w) ==
  /\ \/ /\ Step(w, "tarUnpack", "select")
        /\ Dir(w, "full")
        /\ tarEx' = None
     \/ /\ Step(w, "tarUnpack", "tarRemove")
        /\ UNCHANGED <<extractDir, tarEx>>
  /\ UNCHANGED <<workerFrame, tasks, cancelled, err, job>>

\* Mutant of TarRemove: no os.RemoveAll after a failed extraction.
TarRemoveForgotten(w) ==
  /\ Step(w, "tarRemove", "setErr")
  /\ tarEx' = None
  /\ UNCHANGED <<workerFrame, extractDir, tasks, cancelled, err, job>>

\* The extraction failed: os.RemoveAll, whose own failure is only logged.
TarRemove(w) ==
  /\ Step(w, "tarRemove", "setErr")
  /\ \/ Dir(w, "empty")
     \/ "rmfail" \in Faults /\ UNCHANGED extractDir
  /\ tarEx' = None
  /\ UNCHANGED <<workerFrame, tasks, cancelled, err, job>>

\* Mutant of SetErr: an error counts as a cancellation and is not recorded.
SetErrDropped(w) ==
  /\ Step(w, "setErr", "cancel")
  /\ UNCHANGED <<workerFrame, extractDir, tasks, cancelled, err, job, tarEx>>

\* tp.err = err; tp.cancel(); return.  Several workers may get here at once;
\* the last of the unsynchronised writes wins and none of them is nil.
SetErr(w) ==
  /\ Step(w, "setErr", "cancel")
  /\ err' = TRUE
  /\ UNCHANGED <<workerFrame, extractDir, tasks, cancelled, job, tarEx>>

Cancel(w) ==
  /\ Step(w, "cancel", "returned")
  /\ cancelled' = TRUE
  /\ UNCHANGED <<workerFrame, extractDir, tasks, err, job, tarEx>>

-----------------------------------------------------------------------------
\* The process is killed: only the directories are left.
Kill ==
  /\ "kill" \in Faults
  /\ caller # "idle"
  /\ caller' = "idle"
  /\ worker' = [w \in Workers |-> "off"]
  /\ tarEx' = None
  /\ result' = "killed"
  /\ UNCHANGED <<extractDir, image, poolVars, job, runs>>

Caller == Unpack \/ LookupFails \/ AddJob \/ DoneAddingJobs \/ RunReturns
          \/ WriteMetadata

Worker(w) ==
  \/ SelectTask(w) \/ SelectClosed(w) \/ SelectDone(w)
  \/ AlreadyPopulated(w) \/ Dispatch(w)
  \/ FsBegin(w) \/ FsEnd(w)
  \/ TarLock(w) \/ TarOpen(w) \/ TarUnpack(w) \/ TarRemove(w)
  \/ SetErr(w) \/ Cancel(w)

Next == Caller \/ (\E w \in Workers : Worker(w)) \/ Kill

Spec == Init /\ [][Next]_vars

\* Goroutines that can run do run; nobody has to call Unpack again.
FairSpec == /\ Spec
            /\ WF_vars(caller # "idle" /\ Caller)
            /\ \A w \in Workers : WF_vars(Worker(w))

-----------------------------------------------------------------------------
(* Properties *)

\* Inside unpackOne.
Working == {"check", "fsExtract", "fsEnd", "tarLock", "tarOpen", "tarUnpack",
            "tarRemove"}

\* Every variable of Unpack and of the pool has its type, and a worker that is
\* at work has a task to work on.
TypeOK ==
  /\ extractDir \in [Digests -> {"empty", "partial", "full"}]
  /\ image \in Images
  /\ caller \in {"idle", "add", "wait", "create"}
  /\ next \in Nat \ {0}
  /\ seen \subseteq Digests
  /\ tasks \in Seq(Digests)
  /\ closed \in BOOLEAN /\ cancelled \in BOOLEAN /\ err \in BOOLEAN
  /\ worker \in [Workers -> WorkerPCs]
  /\ job \in [Workers -> Digests \union {None}]
  /\ \A w \in Workers : worker[w] \in Working => job[w] \in Digests
  /\ tarEx \in Workers \union {None}
  /\ result \in {"none", "running", "ok", "err", "killed"}
  /\ runs \in Nat

\* No two goroutines are inside unpackOne for the same directory, which is
\* what its unlocked hasDirEntries check relies on.
OneWorkerPerDir ==
  \A v, w \in Workers :
    v # w /\ worker[v] \in Working /\ worker[w] \in Working => job[v] # job[w]

\* Unpack returns nil only if every layer of the image has a directory that is
\* not empty: every queued task ran, no error got lost, no cancelled worker left
\* one behind.  (After a kill it need not be the whole layer: unpackOne takes
\* any entry for all of them.)
UnpackedMeansPopulated ==
  result = "ok" => \A d \in LayersOf(image) : extractDir[d] # "empty"

\* unpackOne's comment: "The extractDir should be either empty or fully
\* populated with this layer."  Between two calls of Unpack no directory is
\* half extracted.
EmptyOrFull ==
  caller = "idle" => \A d \in Digests : extractDir[d] # "partial"

\* unpackOne's comment: "The result of calling unpackOne is either error or
\* the contents available at the provided extractDir."
UnpackedMeansAvailable ==
  result = "ok" => \A d \in LayersOf(image) : extractDir[d] = "full"

\* Every Unpack returns (or is killed): no worker, and not the caller, waits
\* forever for a task, the mutex or the channel.
Termination == result = "running" ~> result # "running"

\* Unpack does what LayerStore promises: the concurrency, the order of the
\* tasks and the failures are invisible, except in what gets extracted.
Store == INSTANCE LayerStore WITH
           extracted <- {d \in Digests : extractDir[d] = "full"}
Implements == Store!Spec
=============================================================================
