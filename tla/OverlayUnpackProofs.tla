------------------------ MODULE OverlayUnpackProofs ------------------------
(***************************************************************************)
(* Proofs about OverlayUnpack for any image, any number of workers and any *)
(* capacity of the channel.                                                *)
(***************************************************************************)
EXTENDS OverlayUnpack, TLAPS

\* Inside unpackOne before, and after, the first file is written.
Before == {"fsExtract", "tarLock", "tarOpen"}
Filling == {"fsEnd", "tarUnpack", "tarRemove"}
Failing == {"setErr", "cancel"}

Queued(d) == d \in LayersOf(tasks)
Distinct(s) == \A i, j \in 1..Len(s) : i # j => s[i] # s[j]
WorkedOn(d) == \E w \in Workers : worker[w] \in Working /\ job[w] = d
Failed == err \/ \E w \in Workers : worker[w] = "setErr"

\* Who is active when.
Phases ==
  /\ result = "running" <=> caller # "idle"
  /\ caller # "wait" => \A w \in Workers : worker[w] \in {"off", "returned"}
  /\ caller \in {"wait", "create"} => \A w \in Workers : worker[w] # "off"
  /\ caller = "create" => ~err

\* How errors and the end of the channel are noticed.
Signals ==
  /\ cancelled => err
  /\ \A w \in Workers : worker[w] = "cancel" => err
  /\ caller = "add" => ~err /\ ~cancelled
  /\ caller \in {"wait", "create"} =>
       \A w \in Workers : worker[w] = "returned" => err \/ tasks = <<>>

\* The loop over the layers has queued each digest it passed, once.
Queueing ==
  /\ caller = "add" => /\ \A k \in 1..Len(image) : k < next => image[k] \in seen
                       /\ \A d \in seen : Queued(d)
  /\ caller \in {"wait", "create"} => LayersOf(image) \subseteq seen
  /\ caller # "idle" => seen \subseteq LayersOf(image)
  /\ \A d \in Digests : Queued(d) => d \in seen
  /\ Distinct(tasks)

\* A digest is in one place: in the channel or with one worker.
Places ==
  /\ \A w \in Workers : worker[w] \in Working =>
       /\ job[w] \in seen
       /\ ~Queued(job[w])
  /\ OneWorkerPerDir

\* Every queued digest is still on its way, extracted, or an error is out.
Progress ==
  /\ caller \in {"wait", "create"} =>
       \A d \in seen :
         extractDir[d] # "empty" \/ Queued(d) \/ WorkedOn(d) \/ Failed
  /\ UnpackedMeansPopulated

PoolInv == TypeOK /\ Phases /\ Signals /\ Queueing /\ Places /\ Progress

-----------------------------------------------------------------------------
LEMMA EmptyTasks ==
  <<>> \in Seq(Digests) /\ LayersOf(<<>>) = {} /\ Distinct(<<>>)
  BY DEF LayersOf, Distinct

LEMMA InitPoolInv == Init => PoolInv
<1> SUFFICES ASSUME Init PROVE PoolInv
  OBVIOUS
<1> USE UnpackAssumption, EmptyTasks DEF Init
<1>1. TypeOK
  <2>1. tasks \in Seq(Digests)
    OBVIOUS
  <2>2. closed \in BOOLEAN /\ cancelled \in BOOLEAN /\ err \in BOOLEAN
    BY Zenon
  <2> QED BY <2>1, <2>2 DEF TypeOK, WorkerPCs, Working
<1>2. Phases /\ Signals
  BY DEF Phases, Signals
<1>3. Queueing
  BY DEF Queueing, Queued
<1>4. Places /\ Progress
  BY DEF Places, Progress, OneWorkerPerDir, UnpackedMeansPopulated, Working
<1> QED BY <1>1, <1>2, <1>3, <1>4 DEF PoolInv

LEMMA StepTypeOK ==
  ASSUME PoolInv, [Next]_vars
  PROVE  TypeOK'
<1> USE UnpackAssumption DEF TypeOK, PoolInv, WorkerPCs, Working
<1>1. CASE Caller
  <2>1. CASE Unpack
    <3>1. tasks' \in Seq(Digests)
      BY <2>1, EmptyTasks DEF Unpack
    <3>2. /\ closed' \in BOOLEAN /\ cancelled' \in BOOLEAN /\ err' \in BOOLEAN
      BY <2>1, Zenon DEF Unpack
    <3> QED BY <2>1, <3>1, <3>2 DEF Unpack
  <2>2. CASE LookupFails BY <2>2 DEF LookupFails, poolVars
  <2>3. CASE AddJob
    <3>1. image[next] \in Digests
      BY <2>3 DEF AddJob
    <3>2. Append(tasks, image[next]) \in Seq(Digests)
      BY <3>1
    <3>3. tasks' \in Seq(Digests) /\ seen' \subseteq Digests
      BY <2>3, <3>1, <3>2 DEF AddJob
    <3> QED BY <2>3, <3>3 DEF AddJob
  <2>4. CASE DoneAddingJobs BY <2>4 DEF DoneAddingJobs
  <2>5. CASE RunReturns BY <2>5 DEF RunReturns, poolVars
  <2>6. CASE WriteMetadata BY <2>6 DEF WriteMetadata, poolVars
  <2> QED BY <1>1, <2>1, <2>2, <2>3, <2>4, <2>5, <2>6 DEF Caller
<1>2. ASSUME NEW w \in Workers, Worker(w) PROVE TypeOK'
  <2> USE DEF Step, Dir, workerFrame
  <2>0. ASSUME worker[w] \in Working, NEW st \in {"empty", "partial", "full"}
        PROVE  [extractDir EXCEPT ![job[w]] = st]
                 \in [Digests -> {"empty", "partial", "full"}]
    BY <2>0
  <2>1. CASE SelectTask(w) BY <2>1 DEF SelectTask
  <2>2. CASE SelectClosed(w) \/ SelectDone(w)
    BY <2>2 DEF SelectClosed, SelectDone
  <2>3. CASE AlreadyPopulated(w) BY <2>3 DEF AlreadyPopulated
  <2>4. CASE Dispatch(w) BY <2>4 DEF Dispatch
  <2>5. CASE FsBegin(w) \/ FsEnd(w)
    <3>1. extractDir' \in [Digests -> {"empty", "partial", "full"}]
      BY <2>5, <2>0 DEF FsBegin, FsEnd, Working
    <3> QED BY <2>5, <3>1 DEF FsBegin, FsEnd
  <2>6. CASE TarLock(w) BY <2>6 DEF TarLock
  <2>7. CASE TarOpen(w)
    <3>1. extractDir' \in [Digests -> {"empty", "partial", "full"}]
      BY <2>7, <2>0 DEF TarOpen, Working
    <3>2. tarEx' \in Workers \union {None}
      BY <2>7 DEF TarOpen
    <3>3. worker' \in [Workers -> WorkerPCs]
      BY <2>7 DEF TarOpen
    <3> QED BY <2>7, <3>1, <3>2, <3>3 DEF TarOpen
  <2>8. CASE TarUnpack(w)
    <3>1. extractDir' \in [Digests -> {"empty", "partial", "full"}]
      BY <2>8, <2>0 DEF TarUnpack, Working
    <3>2. tarEx' \in Workers \union {None}
      BY <2>8 DEF TarUnpack
    <3>3. worker' \in [Workers -> WorkerPCs]
      BY <2>8 DEF TarUnpack
    <3> QED BY <2>8, <3>1, <3>2, <3>3 DEF TarUnpack
  <2>9. CASE TarRemove(w) BY <2>9, <2>0 DEF TarRemove, Working
  <2>10. CASE SetErr(w) BY <2>10 DEF SetErr
  <2>11. CASE Cancel(w) BY <2>11 DEF Cancel
  <2> QED BY <1>2, <2>1, <2>2, <2>3, <2>4, <2>5, <2>6, <2>7, <2>8, <2>9, <2>10,
             <2>11 DEF Worker
<1>3. CASE Kill
  BY <1>3 DEF Kill, poolVars
<1>4. CASE UNCHANGED vars
  BY <1>4 DEF vars, poolVars
<1> QED BY <1>1, <1>2, <1>3, <1>4 DEF Next

LEMMA StepPhases ==
  ASSUME PoolInv, [Next]_vars
  PROVE  Phases' /\ Signals'
<1> USE UnpackAssumption DEF TypeOK, PoolInv, Phases, Signals
<1>1. CASE Caller
  <2>1. CASE Unpack BY <2>1 DEF Unpack
  <2>2. CASE LookupFails BY <2>2 DEF LookupFails, poolVars
  <2>3. CASE AddJob BY <2>3 DEF AddJob
  <2>4. CASE DoneAddingJobs BY <2>4 DEF DoneAddingJobs
  <2>5. CASE RunReturns BY <2>5 DEF RunReturns, poolVars
  <2>6. CASE WriteMetadata BY <2>6 DEF WriteMetadata, poolVars
  <2> QED BY <1>1, <2>1, <2>2, <2>3, <2>4, <2>5, <2>6 DEF Caller
<1>2. ASSUME NEW w \in Workers, Worker(w) PROVE Phases' /\ Signals'
  <2> USE DEF Step, workerFrame
  <2>1. CASE SelectTask(w) BY <2>1 DEF SelectTask
  <2>2. CASE SelectClosed(w) \/ SelectDone(w)
    BY <2>2 DEF SelectClosed, SelectDone
  <2>3. CASE AlreadyPopulated(w) BY <2>3 DEF AlreadyPopulated
  <2>4. CASE Dispatch(w) BY <2>4 DEF Dispatch
  <2>5. CASE FsBegin(w) \/ FsEnd(w) BY <2>5 DEF FsBegin, FsEnd
  <2>6. CASE TarLock(w) \/ TarOpen(w) BY <2>6 DEF TarLock, TarOpen
  <2>7. CASE TarUnpack(w) \/ TarRemove(w) BY <2>7 DEF TarUnpack, TarRemove
  <2>8. CASE SetErr(w) BY <2>8 DEF SetErr
  <2>9. CASE Cancel(w) BY <2>9 DEF Cancel
  <2> QED BY <1>2, <2>1, <2>2, <2>3, <2>4, <2>5, <2>6, <2>7, <2>8, <2>9
          DEF Worker
<1>3. CASE Kill
  BY <1>3 DEF Kill, poolVars
<1>4. CASE UNCHANGED vars
  BY <1>4 DEF vars, poolVars
<1> QED BY <1>1, <1>2, <1>3, <1>4 DEF Next

\* The channel's content after a send and after a receive.
LEMMA AfterSend ==
  ASSUME NEW s \in Seq(Digests), NEW d \in Digests
  PROVE  /\ LayersOf(Append(s, d)) = LayersOf(s) \union {d}
         /\ Distinct(s) /\ d \notin LayersOf(s) => Distinct(Append(s, d))
<1>1. /\ Len(Append(s, d)) = Len(s) + 1 /\ Len(s) \in Nat
      /\ \A k \in 1..Len(s) : Append(s, d)[k] = s[k]
      /\ Append(s, d)[Len(s) + 1] = d
  OBVIOUS
<1> QED BY <1>1 DEF LayersOf, Distinct

LEMMA AfterReceive ==
  ASSUME NEW s \in Seq(Digests), s # <<>>
  PROVE  /\ Head(s) \in Digests
         /\ LayersOf(s) = LayersOf(Tail(s)) \union {Head(s)}
         /\ Distinct(s) => Distinct(Tail(s)) /\ Head(s) \notin LayersOf(Tail(s))
<1>1. /\ Len(s) \in Nat \ {0} /\ Len(Tail(s)) = Len(s) - 1
      /\ \A k \in 1..Len(Tail(s)) : Tail(s)[k] = s[k + 1]
      /\ Head(s) = s[1] /\ Head(s) \in Digests
  OBVIOUS
<1>2. LayersOf(s) \subseteq LayersOf(Tail(s)) \union {Head(s)}
  <2> SUFFICES ASSUME NEW k \in 1..Len(s)
               PROVE  s[k] \in LayersOf(Tail(s)) \union {Head(s)}
    BY DEF LayersOf
  <2>1. CASE k = 1
    BY <1>1, <2>1
  <2>2. CASE k # 1
    <3>1. k - 1 \in 1..Len(Tail(s)) /\ Tail(s)[k - 1] = s[k]
      BY <1>1, <2>2
    <3> QED BY <3>1 DEF LayersOf
  <2> QED BY <2>1, <2>2
<1>3. LayersOf(Tail(s)) \union {Head(s)} \subseteq LayersOf(s)
  <2> SUFFICES ASSUME NEW k \in 1..Len(Tail(s)) PROVE Tail(s)[k] \in LayersOf(s)
    BY <1>1 DEF LayersOf
  <2>1. k + 1 \in 1..Len(s) /\ Tail(s)[k] = s[k + 1]
    BY <1>1
  <2> QED BY <2>1 DEF LayersOf
<1>4. ASSUME Distinct(s) PROVE Distinct(Tail(s)) /\ Head(s) \notin LayersOf(Tail(s))
  <2>1. \A k \in 1..Len(Tail(s)) : k + 1 \in 1..Len(s) /\ k + 1 # 1
    BY <1>1
  <2>2. Head(s) \notin LayersOf(Tail(s))
    BY <1>1, <1>4, <2>1 DEF LayersOf, Distinct
  <2>3. Distinct(Tail(s))
    BY <1>1, <1>4, <2>1 DEF Distinct
  <2> QED BY <2>2, <2>3
<1> QED BY <1>1, <1>2, <1>3, <1>4

LEMMA StepQueueing ==
  ASSUME PoolInv, TypeOK', [Next]_vars
  PROVE  Queueing'
<1> USE UnpackAssumption DEF TypeOK, PoolInv, Queueing, Queued
<1>1. CASE Unpack
  BY <1>1, EmptyTasks DEF Unpack
<1>2. CASE AddJob
  <2> DEFINE d == image[next]
  <2>0. /\ UNCHANGED <<image, caller>> /\ caller = "add" /\ next' = next + 1
        /\ d \in LayersOf(image) /\ d \in Digests
    BY <1>2 DEF AddJob, LayersOf
  <2>1. seen' = seen \union {d}
    BY <1>2 DEF AddJob
  <2>2. \A k \in 1..Len(image) : k < next' => image[k] \in seen'
    BY <2>0, <2>1
  <2>3. LayersOf(tasks') = LayersOf(tasks) \union (seen' \ seen)
        /\ Distinct(tasks')
    <3>1. CASE d \in seen
      BY <1>2, <3>1 DEF AddJob
    <3>2. CASE d \notin seen
      <4>1. tasks' = Append(tasks, d) /\ d \notin LayersOf(tasks)
        BY <1>2, <2>0, <3>2 DEF AddJob
      <4>2. LayersOf(tasks') = LayersOf(tasks) \union {d} /\ Distinct(tasks')
        BY <2>0, <4>1, AfterSend
      <4> QED BY <2>1, <3>2, <4>2
    <3> QED BY <3>1, <3>2
  <2> QED BY <2>0, <2>1, <2>2, <2>3
<1>3. CASE DoneAddingJobs
  BY <1>3 DEF DoneAddingJobs, LayersOf
<1>4. CASE LookupFails \/ RunReturns \/ WriteMetadata \/ Kill
  BY <1>4 DEF LookupFails, RunReturns, WriteMetadata, Kill, poolVars, Phases
<1>5. ASSUME NEW w \in Workers, SelectTask(w) PROVE Queueing'
  <2>1. /\ tasks # <<>> /\ tasks' = Tail(tasks) /\ caller = "wait"
        /\ UNCHANGED <<image, caller, seen>>
    BY <1>5 DEF SelectTask, Step, workerFrame, Phases
  <2> QED BY <2>1, AfterReceive
<1>6. ASSUME NEW w \in Workers, Worker(w), ~SelectTask(w) PROVE Queueing'
  <2>1. UNCHANGED <<image, caller, seen, next, tasks>>
    BY <1>6 DEF Worker, SelectClosed, SelectDone, AlreadyPopulated, Dispatch,
       FsBegin, FsEnd, TarLock, TarOpen, TarUnpack, TarRemove, SetErr, Cancel,
       workerFrame
  <2> QED BY <2>1
<1>7. CASE UNCHANGED vars
  BY <1>7 DEF vars, poolVars
<1> QED BY <1>1, <1>2, <1>3, <1>4, <1>5, <1>6, <1>7 DEF Next, Caller

\* What a worker's step other than taking a task leaves alone.
LEMMA WorkerFrame ==
  ASSUME TypeOK, NEW w \in Workers, Worker(w), ~SelectTask(w)
  PROVE  /\ UNCHANGED <<image, caller, seen, tasks, job, result>>
         /\ \A v \in Workers \ {w} : worker'[v] = worker[v]
         /\ worker'[w] \in Working => worker[w] \in Working
  BY DEF TypeOK, Worker, SelectClosed, SelectDone, AlreadyPopulated, Dispatch,
     FsBegin, FsEnd, TarLock, TarOpen, TarUnpack, TarRemove, SetErr, Cancel,
     workerFrame, Step, Working

LEMMA StepPlaces ==
  ASSUME PoolInv, TypeOK', [Next]_vars
  PROVE  Places'
<1> USE UnpackAssumption DEF TypeOK, PoolInv, Places, OneWorkerPerDir, Queued
<1>1. CASE Unpack \/ AddJob \/ LookupFails \/ DoneAddingJobs \/ RunReturns
           \/ WriteMetadata \/ Kill
  <2>1. \A w \in Workers : worker'[w] \notin Working
    BY <1>1 DEF Phases, Unpack, AddJob, LookupFails, DoneAddingJobs, RunReturns,
       WriteMetadata, Kill, Working
  <2> QED BY <2>1
<1>2. ASSUME NEW w \in Workers, SelectTask(w) PROVE Places'
  <2> DEFINE d == Head(tasks)
  <2>1. /\ tasks # <<>> /\ tasks' = Tail(tasks) /\ seen' = seen
        /\ worker' = [worker EXCEPT ![w] = "check"]
        /\ job' = [job EXCEPT ![w] = d]
    BY <1>2 DEF SelectTask, Step, workerFrame
  <2>2. /\ d \in Digests /\ d \notin LayersOf(tasks')
        /\ LayersOf(tasks) = LayersOf(tasks') \union {d}
    BY <2>1, AfterReceive DEF Queueing
  <2>3. d \in seen
    BY <2>2 DEF Queueing
  <2>4. job'[w] = d /\ \A v \in Workers \ {w} : /\ worker'[v] = worker[v]
                                                /\ job'[v] = job[v]
    BY <2>1
  <2>5. \A v \in Workers : worker'[v] \in Working =>
          job'[v] \in seen' /\ job'[v] \notin LayersOf(tasks')
    BY <2>1, <2>2, <2>3, <2>4
  <2>6. \A v \in Workers \ {w} : worker[v] \in Working => job[v] # d
    BY <2>2
  <2>7. OneWorkerPerDir'
    BY <2>4, <2>6
  <2> QED BY <2>5, <2>7
<1>3. ASSUME NEW w \in Workers, Worker(w), ~SelectTask(w) PROVE Places'
  <2>1. /\ seen' = seen /\ tasks' = tasks /\ job' = job
        /\ \A v \in Workers : worker'[v] \in Working => worker[v] \in Working
    BY <1>3, WorkerFrame
  <2>2. \A v \in Workers : worker'[v] \in Working =>
          job'[v] \in seen' /\ job'[v] \notin LayersOf(tasks')
    BY <2>1
  <2>3. OneWorkerPerDir'
    BY <2>1
  <2> QED BY <2>2, <2>3
<1>4. CASE UNCHANGED vars
  BY <1>4 DEF vars, poolVars
<1> QED BY <1>1, <1>2, <1>3, <1>4 DEF Next, Caller

\* While the workers run, what each kind of step means for Progress.
LEMMA WorkerProgress ==
  ASSUME PoolInv, NEW w \in Workers, Worker(w),
         NEW d \in seen, caller = "wait",
         extractDir[d] # "empty" \/ Queued(d) \/ WorkedOn(d) \/ Failed
  PROVE  (extractDir[d] # "empty" \/ Queued(d) \/ WorkedOn(d) \/ Failed)'
<1> USE DEF PoolInv, TypeOK, Failed
<1>1. CASE err
  <2>1. err'
    BY <1>1 DEF Worker, SelectTask, SelectClosed, SelectDone, AlreadyPopulated,
       Dispatch, FsBegin, FsEnd, TarLock, TarOpen, TarUnpack, TarRemove, SetErr,
       Cancel
  <2> QED BY <2>1
<1>2. CASE worker'[w] = "setErr"
  BY <1>2
<1>3. CASE SelectTask(w)
  <2>1. /\ tasks # <<>> /\ tasks' = Tail(tasks) /\ job'[w] = Head(tasks)
        /\ worker'[w] = "check" /\ worker[w] = "select"
        /\ \A v \in Workers \ {w} : worker'[v] = worker[v] /\ job'[v] = job[v]
        /\ UNCHANGED <<extractDir, err>>
    BY <1>3 DEF SelectTask, Step
  <2>2. Queued(d) => Queued(d)' \/ d = Head(tasks)
    BY <2>1, AfterReceive DEF Queued
  <2>3. WorkedOn(d) => WorkedOn(d)'
    BY <2>1 DEF WorkedOn, Working
  <2>4. d = Head(tasks) => WorkedOn(d)'
    BY <2>1 DEF WorkedOn, Working
  <2>5. Failed => Failed'
    BY <2>1
  <2> QED BY <2>1, <2>2, <2>3, <2>4, <2>5
<1>4. CASE SetErr(w) \/ Cancel(w)
  <2>1. err'
    BY <1>4 DEF SetErr, Cancel, Step, Signals
  <2> QED BY <2>1
<1>5. CASE /\ ~SelectTask(w) /\ ~SetErr(w) /\ ~Cancel(w)
           /\ worker'[w] # "setErr" /\ ~err
  <2>1. /\ UNCHANGED <<tasks, job>> /\ worker[w] # "setErr" /\ err' = err
        /\ \A v \in Workers \ {w} : worker'[v] = worker[v]
    BY <1>5 DEF Worker, SelectClosed, SelectDone, AlreadyPopulated, Dispatch,
       FsBegin, FsEnd, TarLock, TarOpen, TarUnpack, TarRemove, workerFrame, Step
  <2>2. \/ UNCHANGED extractDir
        \/ Dir(w, "partial") /\ worker[w] \in Working
        \/ Dir(w, "full") /\ worker[w] \in Working
    BY <1>5 DEF Worker, SelectClosed, SelectDone, AlreadyPopulated, Dispatch,
       FsBegin, FsEnd, TarLock, TarOpen, TarUnpack, TarRemove, Step, Working
  <2>3. worker[w] \in Working =>
          worker'[w] \in Working \/ extractDir'[job[w]] # "empty"
    BY <1>5 DEF Worker, SelectClosed, SelectDone, AlreadyPopulated, Dispatch,
       FsBegin, FsEnd, TarLock, TarOpen, TarUnpack, TarRemove, Step, Working,
       Dir, Places
  <2>4. extractDir[d] # "empty" => extractDir'[d] # "empty"
    BY <2>2 DEF Dir
  <2>5. Queued(d) => Queued(d)'
    BY <2>1 DEF Queued
  <2>6. WorkedOn(d) => WorkedOn(d)' \/ extractDir'[d] # "empty"
    BY <2>1, <2>3 DEF WorkedOn
  <2>7. Failed => Failed'
    BY <2>1, <1>5
  <2> QED BY <2>4, <2>5, <2>6, <2>7
<1> QED BY <1>1, <1>2, <1>3, <1>4, <1>5

LEMMA StepProgress ==
  ASSUME PoolInv, [Next]_vars
  PROVE  Progress'
<1> USE DEF PoolInv, TypeOK, Progress, UnpackedMeansPopulated
<1>1. CASE Unpack \/ AddJob \/ LookupFails \/ Kill
  BY <1>1 DEF Unpack, AddJob, LookupFails, Kill, Phases
<1>2. CASE DoneAddingJobs
  BY <1>2 DEF DoneAddingJobs, Queueing, Phases, Queued
<1>3. CASE RunReturns
  BY <1>3 DEF RunReturns, poolVars, Phases, Queued, WorkedOn, Failed
<1>4. CASE WriteMetadata
  <2>1. \A w \in Workers : worker[w] = "returned"
    BY <1>4 DEF WriteMetadata, Phases
  <2>2. tasks = <<>> /\ ~err
    BY <1>4, <2>1, UnpackAssumption DEF WriteMetadata, Phases, Signals
  <2>3. \A d \in seen : ~Queued(d) /\ ~WorkedOn(d) /\ ~Failed
    BY <2>1, <2>2, EmptyTasks DEF Queued, WorkedOn, Failed, Working
  <2>4. \A d \in LayersOf(image) : extractDir[d] # "empty"
    BY <1>4, <2>3 DEF WriteMetadata, Queueing
  <2> QED BY <1>4, <2>4 DEF WriteMetadata
<1>5. ASSUME NEW w \in Workers, Worker(w) PROVE Progress'
  <2>1. caller = "wait"
    BY <1>5 DEF Worker, SelectTask, SelectClosed, SelectDone, AlreadyPopulated,
       Dispatch, FsBegin, FsEnd, TarLock, TarOpen, TarUnpack, TarRemove, SetErr,
       Cancel, Step, Phases
  <2>2. UNCHANGED <<caller, seen, result>>
    BY <1>5 DEF Worker, SelectTask, SelectClosed, SelectDone, AlreadyPopulated,
       Dispatch, FsBegin, FsEnd, TarLock, TarOpen, TarUnpack, TarRemove, SetErr,
       Cancel, workerFrame
  <2>3. \A d \in seen :
          (extractDir[d] # "empty" \/ Queued(d) \/ WorkedOn(d) \/ Failed)'
    BY <1>5, <2>1, WorkerProgress
  <2> QED BY <2>1, <2>2, <2>3 DEF Phases
<1>6. CASE UNCHANGED vars
  BY <1>6 DEF vars, poolVars, Queued, WorkedOn, Failed
<1> QED BY <1>1, <1>2, <1>3, <1>4, <1>5, <1>6 DEF Next, Caller

-----------------------------------------------------------------------------
LEMMA PoolInvariant == Spec => []PoolInv
<1>1. PoolInv /\ [Next]_vars => PoolInv'
  BY StepTypeOK, StepPhases, StepQueueing, StepPlaces, StepProgress DEF PoolInv
<1> QED BY InitPoolInv, <1>1, PTL DEF Spec

\* The state of Unpack and its pool is well typed.
THEOREM TypeCorrect == Spec => []TypeOK
<1>1. PoolInv => TypeOK
  BY DEF PoolInv
<1> QED BY PoolInvariant, <1>1, PTL

\* Whatever fails or is killed, two goroutines never work on one directory.
THEOREM OneWorker == Spec => []OneWorkerPerDir
<1>1. PoolInv => OneWorkerPerDir
  BY DEF PoolInv, Places
<1> QED BY PoolInvariant, <1>1, PTL

\* Whatever fails or is killed, a nil result means that every layer's task
\* ran and left something behind.
THEOREM NoLostTask == Spec => []UnpackedMeansPopulated
<1>1. PoolInv => UnpackedMeansPopulated
  BY DEF PoolInv, Progress
<1> QED BY PoolInvariant, <1>1, PTL
-----------------------------------------------------------------------------
(* Without faults: a directory is half full only while a worker fills it.  *)

NoFaults == Faults = {}

CleanInv ==
  /\ \A d \in Digests : extractDir[d] = "partial" =>
       \E w \in Workers : worker[w] \in Filling /\ job[w] = d
  /\ \A w \in Workers : /\ worker[w] \in Filling => extractDir[job[w]] = "partial"
                        /\ worker[w] \in Before => extractDir[job[w]] = "empty"

\* A worker that ends its step with its directory in the given state.
LEMMA DirStep ==
  ASSUME PoolInv, CleanInv, NEW w \in Workers, worker[w] \in Working,
         NEW st \in {"empty", "partial", "full"},
         Dir(w, st), UNCHANGED job,
         \A v \in Workers \ {w} : worker'[v] = worker[v],
         st = "partial" <=> worker'[w] \in Filling,
         worker'[w] \in Before => st = "empty"
  PROVE  CleanInv'
<1> USE DEF PoolInv, TypeOK
<1>1. job[w] \in Digests /\ extractDir'[job[w]] = st
      /\ \A d \in Digests \ {job[w]} : extractDir'[d] = extractDir[d]
  BY DEF Places, Dir
<1>2. \A v \in Workers \ {w} : worker[v] \in Working => job[v] # job[w]
  BY DEF Places, OneWorkerPerDir
<1>3. \A v \in Workers : worker[v] \in Filling \union Before =>
        worker[v] \in Working /\ job[v] \in Digests
  BY DEF Filling, Before, Working, Places
<1> QED BY <1>1, <1>2, <1>3 DEF CleanInv

LEMMA StepClean ==
  ASSUME NoFaults, PoolInv, CleanInv, [Next]_vars
  PROVE  CleanInv'
<1> USE DEF PoolInv, TypeOK
<1>1. CASE Caller
  <2>1. /\ UNCHANGED <<extractDir, job>>
        /\ \A w \in Workers : worker'[w] # worker[w] =>
             worker[w] \notin Filling \union Before
             /\ worker'[w] \notin Filling \union Before
    BY <1>1 DEF Caller, Unpack, LookupFails, AddJob, DoneAddingJobs, RunReturns,
       WriteMetadata, Phases, Filling, Before
  <2> QED BY <2>1 DEF CleanInv
<1>2. ASSUME NEW w \in Workers, Worker(w) PROVE CleanInv'
  <2>1. CASE SelectTask(w)
    <3>1. /\ worker[w] = "select" /\ worker'[w] = "check" /\ UNCHANGED extractDir
          /\ \A v \in Workers \ {w} : worker'[v] = worker[v] /\ job'[v] = job[v]
      BY <2>1 DEF SelectTask, Step
    <3> QED BY <3>1 DEF CleanInv, Filling, Before
  <2>2. CASE SelectClosed(w) \/ SelectDone(w) \/ AlreadyPopulated(w)
             \/ SetErr(w) \/ Cancel(w)
    <3>1. /\ worker[w] \notin Filling \union Before
          /\ worker'[w] \notin Filling \union Before
          /\ UNCHANGED <<extractDir, job>>
          /\ \A v \in Workers \ {w} : worker'[v] = worker[v]
      BY <2>2 DEF SelectClosed, SelectDone, AlreadyPopulated, SetErr, Cancel,
         Step, Filling, Before
    <3> QED BY <3>1 DEF CleanInv
  <2>3. CASE Dispatch(w)
    <3>1. /\ worker[w] = "check" /\ extractDir[job[w]] = "empty"
          /\ worker'[w] \notin Filling
          /\ UNCHANGED <<extractDir, job>>
          /\ \A v \in Workers \ {w} : worker'[v] = worker[v]
      BY <2>3 DEF Dispatch, Filling
    <3> QED BY <3>1 DEF CleanInv, Filling, Before
  <2>4. CASE FsBegin(w)
    BY <2>4, DirStep DEF FsBegin, Step, Working, Filling, Before
  <2>5. CASE FsEnd(w)
    <3>1. \E st \in {"full", "empty"} :
            /\ Dir(w, st) /\ worker'[w] \in {"select", "setErr"}
            /\ worker[w] \in Working /\ UNCHANGED job
            /\ \A v \in Workers \ {w} : worker'[v] = worker[v]
      BY <2>5, NoFaults DEF FsEnd, Step, Working, NoFaults
    <3> QED BY <3>1, DirStep DEF Filling, Before
  <2>6. CASE TarLock(w)
    <3>1. /\ worker[w] = "tarLock" /\ worker'[w] = "tarOpen"
          /\ UNCHANGED <<extractDir, job>>
          /\ \A v \in Workers \ {w} : worker'[v] = worker[v]
      BY <2>6 DEF TarLock, Step
    <3> QED BY <3>1 DEF CleanInv, Filling, Before
  <2>7. CASE TarOpen(w)
    <3>1. CASE worker'[w] = "setErr"
      <4>1. /\ worker[w] = "tarOpen" /\ UNCHANGED <<extractDir, job>>
            /\ \A v \in Workers \ {w} : worker'[v] = worker[v]
        BY <2>7, <3>1 DEF TarOpen, Step
      <4> QED BY <3>1, <4>1 DEF CleanInv, Filling, Before
    <3>2. CASE worker'[w] = "tarUnpack"
      BY <2>7, <3>2, DirStep DEF TarOpen, Step, Working, Filling, Before
    <3> QED BY <2>7, <3>1, <3>2 DEF TarOpen, Step
  <2>8. CASE TarUnpack(w)
    <3>1. CASE worker'[w] = "select"
      BY <2>8, <3>1, DirStep DEF TarUnpack, Step, Working, Filling, Before
    <3>2. CASE worker'[w] = "tarRemove"
      <4>1. /\ worker[w] = "tarUnpack" /\ UNCHANGED <<extractDir, job>>
            /\ \A v \in Workers \ {w} : worker'[v] = worker[v]
        BY <2>8, <3>2 DEF TarUnpack, Step
      <4> QED BY <3>2, <4>1 DEF CleanInv, Filling, Before
    <3> QED BY <2>8, <3>1, <3>2 DEF TarUnpack, Step
  <2>9. CASE TarRemove(w)
    BY <2>9, NoFaults, DirStep
    DEF TarRemove, Step, Working, Filling, Before, NoFaults
  <2> QED BY <1>2, <2>1, <2>2, <2>3, <2>4, <2>5, <2>6, <2>7, <2>8, <2>9
          DEF Worker
<1>3. CASE Kill
  BY <1>3, NoFaults DEF Kill, NoFaults
<1>4. CASE UNCHANGED vars
  BY <1>4 DEF vars, CleanInv
<1> QED BY <1>1, <1>2, <1>3, <1>4 DEF Next

LEMMA CleanImpliesEmptyOrFull ==
  ASSUME PoolInv, CleanInv
  PROVE  caller # "wait" => \A d \in Digests : extractDir[d] # "partial"
  BY DEF PoolInv, Phases, CleanInv, Filling

\* Without faults every directory is empty or complete between two calls.
THEOREM NoPartialLayers ==
  ASSUME NoFaults
  PROVE  Spec => []EmptyOrFull
<1>1. Init => CleanInv
  BY DEF Init, CleanInv, Filling, Before
<1>2. PoolInv /\ CleanInv /\ [Next]_vars => CleanInv'
  BY NoFaults, StepClean
<1>3. PoolInv /\ CleanInv => EmptyOrFull
  BY CleanImpliesEmptyOrFull DEF EmptyOrFull
<1> QED BY <1>1, <1>2, <1>3, PoolInvariant, PTL DEF Spec

\* Each step of the pool is a step of LayerStore or invisible to it.
LEMMA StepStore ==
  ASSUME NoFaults, PoolInv, PoolInv', CleanInv, CleanInv', [Next]_vars
  PROVE  [Store!Next]_(Store!vars)
<1> DEFINE full == {d \in Digests : extractDir[d] = "full"}
<1> USE DEF PoolInv, TypeOK
<1>1. CASE Unpack
  <2>1. Store!Begin
    BY <1>1 DEF Store!Begin, Unpack, Phases
  <2> QED BY <2>1 DEF Store!Next
<1>2. CASE LookupFails
  <2>1. Store!Fail
    BY <1>2 DEF Store!Fail, LookupFails, Phases
  <2> QED BY <2>1 DEF Store!Next
<1>3. CASE RunReturns
  <2>1. CASE err
    <3>1. Store!Fail
      BY <1>3, <2>1 DEF Store!Fail, RunReturns, Phases
    <3> QED BY <3>1 DEF Store!Next
  <2>2. CASE ~err
    BY <1>3, <2>2 DEF Store!vars, RunReturns
  <2> QED BY <2>1, <2>2
<1>4. CASE WriteMetadata
  <2>0. result = "running" /\ UNCHANGED <<extractDir, image>>
    BY <1>4 DEF WriteMetadata, Phases
  <2>1. CASE result' = "ok"
    <3>1. \A d \in LayersOf(image) : d \in full
      <4>1. \A d \in LayersOf(image) : extractDir[d] # "empty" /\ d \in Digests
        BY <2>0, <2>1, UnpackAssumption
        DEF Progress, UnpackedMeansPopulated, LayersOf
      <4>2. \A d \in Digests : extractDir[d] # "partial"
        BY <1>4, CleanImpliesEmptyOrFull DEF WriteMetadata
      <4> QED BY <4>1, <4>2
    <3>2. Store!Succeed
      BY <2>0, <2>1, <3>1 DEF Store!Succeed
    <3> QED BY <3>2 DEF Store!Next
  <2>2. CASE result' = "err"
    <3>1. Store!Fail
      BY <2>0, <2>2 DEF Store!Fail
    <3> QED BY <3>1 DEF Store!Next
  <2> QED BY <1>4, <2>1, <2>2 DEF WriteMetadata
<1>5. CASE AddJob \/ DoneAddingJobs
  BY <1>5 DEF AddJob, DoneAddingJobs, Store!vars
<1>6. ASSUME NEW w \in Workers, Worker(w) PROVE [Store!Next]_(Store!vars)
  <2>0. UNCHANGED <<image, result>>
    BY <1>6 DEF Worker, SelectTask, SelectClosed, SelectDone, AlreadyPopulated,
       Dispatch, FsBegin, FsEnd, TarLock, TarOpen, TarUnpack, TarRemove, SetErr,
       Cancel, workerFrame
  <2>1. CASE Dir(w, "full") /\ worker[w] \in Filling
    <3>1. job[w] \in seen /\ caller = "wait"
      BY <2>1 DEF Places, Filling, Working, Phases
    <3>2. job[w] \in LayersOf(image) \ full /\ result = "running"
          /\ job[w] \in Digests
      BY <2>1, <3>1 DEF Queueing, CleanInv, Phases
    <3>3. full' = full \union {job[w]}
      BY <2>1, <3>2 DEF Dir
    <3>4. Store!Populate
      BY <2>0, <3>2, <3>3 DEF Store!Populate
    <3> QED BY <3>4 DEF Store!Next
  <2>2. CASE UNCHANGED extractDir
    BY <2>0, <2>2 DEF Store!vars
  <2>3. CASE /\ Dir(w, "empty") \/ Dir(w, "partial")
             /\ extractDir[job[w]] # "full"
    <3>1. full' = full
      BY <2>3 DEF Dir
    <3> QED BY <2>0, <3>1 DEF Store!vars
  <2> QED BY <1>6, <2>1, <2>2, <2>3
          DEF Worker, SelectTask, SelectClosed, SelectDone, AlreadyPopulated,
              Dispatch, FsBegin, FsEnd, TarLock, TarOpen, TarUnpack, TarRemove,
              SetErr, Cancel, Step, CleanInv, Filling, Before
<1>7. CASE Kill
  BY <1>7, NoFaults DEF Kill, NoFaults
<1>8. CASE UNCHANGED vars
  BY <1>8 DEF vars, Store!vars
<1> QED BY <1>1, <1>2, <1>3, <1>4, <1>5, <1>6, <1>7, <1>8 DEF Next, Caller

\* Without faults Unpack implements LayerStore: success means that all layers
\* of the image are completely there, and nothing extracted is ever lost.
THEOREM UnpackImplementsStore ==
  ASSUME NoFaults
  PROVE  Spec => Implements
<1>1. Init => CleanInv
  BY DEF Init, CleanInv, Filling, Before
<1>2. PoolInv /\ CleanInv /\ [Next]_vars => CleanInv'
  BY NoFaults, StepClean
<1>3. Init => Store!Init
  BY DEF Init, Store!Init
<1>4. PoolInv /\ PoolInv' /\ CleanInv /\ CleanInv' /\ [Next]_vars
        => [Store!Next]_(Store!vars)
  BY NoFaults, StepStore
<1> QED BY <1>1, <1>2, <1>3, <1>4, PoolInvariant, PTL
        DEF Spec, Implements, Store!Spec
=============================================================================
