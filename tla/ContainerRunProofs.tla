------------------------- MODULE ContainerRunProofs -------------------------
(***************************************************************************)
(* Proofs about ContainerRun for any set of commands, any number of        *)
(* signals and any capacity of the channel: the type invariant, that the   *)
(* goroutine that forwards signals ends with its Execute (NoStrayKill),    *)
(* that no failed container is forgotten (NoFailureForgotten), and that a  *)
(* command leaves neither mount points to be packed nor temporary files    *)
(* (NothingLeftBehind).                                                    *)
(***************************************************************************)
EXTENDS ContainerRun, WellFoundedInduction, TLAPS

\* Execute and what it returns to need a step that is there.
Busy == mpc \in {"notified", "wait", "done", "return", "shell"}

\* The types of the variables.  Unlike in TypeOK, the queue is a sequence, and
\* the pipe holds no more than was written.
Position == script \in Scripts /\ pos \in Nat /\ 1 <= pos /\ pos <= Len(script) + 1

Flags ==
  /\ failed \in BOOLEAN /\ snap \in BOOLEAN /\ tty \in BOOLEAN
  /\ bad \in BOOLEAN /\ notified \in BOOLEAN /\ intr \in BOOLEAN

Channel == queue \in Seq(Signals) /\ Len(queue) <= Cap

Values ==
  /\ mpc \in {"step", "notified", "wait", "done", "return", "shell", "exit"}
  /\ result \in {"ok", "fail"}
  /\ files \subseteq {"config", "labels"}
  /\ traces \subseteq {"/stacker", "/.stacker"}
  /\ gpc \in {"none", "select", "kill"}
  /\ gsig \in {None, "KILL", "TERM"} /\ gpid \in {None, "init", "all"}
  /\ box \in {"none", "starting", "running", "over"}
  /\ wrote \in Nat /\ pipe \in Nat /\ pipe <= wrote /\ wrote <= MaxChunks
  /\ temps \in Nat /\ sent \in Nat /\ sent <= MaxSignals

Types == Position /\ Flags /\ Channel /\ Values

\* Where the main goroutine is, and what that says about the other actors.
Control ==
  /\ Busy => pos <= Len(script) /\ notified
  /\ box # "none" => mpc = "wait"
  /\ gpc # "none" => InExecute
  /\ "config" \in files => mpc \in {"notified", "wait", "done", "return"}
  /\ "/stacker" \in traces => mpc \in {"wait", "done", "return"}

\* Where a failure is while the command has not taken note of it: in the result
\* that Execute is about to return, or in the step, while the user has a shell.
Remembered ==
  bad => \/ failed
         \/ mpc = "return" /\ result = "fail"
         \/ step = "runOrShell" /\ (mpc = "shell" \/ (tty /\ Busy))

CoreInv == Types /\ Control /\ Remembered

\* From s[i] the next bracket is the end of a snapshot.
Closes(s, i) ==
  \E k \in i..Len(s) : /\ s[k] = "cleanup"
                       /\ \A m \in i..(k - 1) :
                            s[m] \notin {"snapshot", "cleanup"}

\* At s[i] the last bracket is the beginning of a snapshot.
Opens(s, i) ==
  \E j \in 1..(i - 1) : /\ s[j] = "snapshot"
                        /\ \A m \in (j + 1)..(i - 1) : s[m] # "cleanup"

\* Labels are only generated within a snapshot.
Nested(s) ==
  \A i \in 1..Len(s) : s[i] = "labels" => Opens(s, i) /\ Closes(s, i)

\* A command inside a snapshot has one, and it has a directory for labels only
\* where the cleanup is still to come.
Bracketed ==
  /\ pos <= Len(script) /\ Opens(script, pos) => snap
  /\ "labels" \in files => snap /\ Closes(script, pos)
  /\ Busy => step \notin {"snapshot", "cleanup"}

FullInv == CoreInv /\ Bracketed

\* What stacker runs: grab, chroot, and the layers of a build.
Commands ==
  {GrabCommand(a, b) : a, b \in BOOLEAN} \union {ChrootCommand(a) : a \in BOOLEAN}
    \union {BuildLayer(a, run, b) : a, b \in BOOLEAN, run \in Runs}

-----------------------------------------------------------------------------
(* The least element of a set of natural numbers, which Unwind looks for. *)

LEMMA SmallestOf ==
  ASSUME NEW T, T \subseteq Nat, T # {}
  PROVE  \E x \in T : \A y \in T : x <= y
<1> DEFINE R == OpToRel(<, Nat)
<1>1. IsWellFoundedOn(R, Nat)
  BY NatLessThanWellFounded
<1>2. \A x, y \in Nat : <<y, x>> \in R <=> y < x
  BY DEF OpToRel
<1> HIDE DEF R
<1>3. PICK x \in T : \A y \in T : ~(<<y, x>> \in R)
  BY <1>1, WFMin
<1>4. x \in T
  BY <1>3
<1>5. ASSUME NEW y \in T PROVE x <= y
  <2>1. x \in Nat /\ y \in Nat
    BY <1>4
  <2>2. ~(<<y, x>> \in R)
    BY <1>3
  <2>3. ~(y < x)
    BY <1>2, <2>1, <2>2
  <2> QED BY <2>1, <2>3
<1> QED BY <1>4, <1>5

LEMMA MinIsLeast ==
  ASSUME NEW T, T \subseteq Nat, T # {}
  PROVE  Min(T) \in T /\ \A y \in T : Min(T) <= y
  BY SmallestOf DEF Min

LEMMA ScriptIsSeq ==
  ASSUME script \in Scripts
  PROVE  script \in Seq(Steps) /\ Len(script) \in Nat
  BY ContainerAssumption

LEMMA Before ==
  ASSUME NEW a \in Nat, NEW b \in Nat, NEW n \in Nat, b <= n + 1
  PROVE  \A m \in a..(b - 1) : m \in a..n /\ ~(b <= m)
  OBVIOUS

\* After an error the command is over or at its next cleanup.
LEMMA UnwindPos ==
  ASSUME Types, NEW c \in BOOLEAN, Unwind(c)
  PROVE  /\ pos' \in Nat /\ pos <= pos' /\ pos' <= Len(script) + 1
         /\ pos' <= Len(script) => c /\ script[pos'] = "cleanup"
         /\ c => \A m \in pos..(pos' - 1) : script[m] # "cleanup"
         /\ failed' = TRUE /\ mpc' = "step"
<1> DEFINE later == {i \in pos..Len(script) : c /\ script[i] = "cleanup"}
           T == later \union {Len(script) + 1}
<1>1. pos \in Nat /\ pos <= Len(script) + 1 /\ Len(script) \in Nat
  BY ScriptIsSeq DEF Types, Position
<1>2. T \subseteq Nat /\ T # {}
  BY <1>1
<1>3. pos' = Min(T) /\ failed' = TRUE /\ mpc' = "step"
  BY DEF Unwind
<1>4. pos' \in T /\ \A y \in T : pos' <= y
  <2> HIDE DEF T
  <2> QED BY <1>2, <1>3, MinIsLeast
<1>5. pos' \in Nat /\ pos <= pos' /\ pos' <= Len(script) + 1
  BY <1>1, <1>4
<1>6. pos' <= Len(script) => c /\ script[pos'] = "cleanup"
  BY <1>1, <1>4
<1>7. \A m \in pos..(pos' - 1) : m \in pos..Len(script) /\ ~(pos' <= m)
  BY <1>1, <1>5, Before
<1>8. c => \A m \in pos..(pos' - 1) : script[m] # "cleanup"
  BY <1>4, <1>7
<1> QED BY <1>3, <1>5, <1>6, <1>8

-----------------------------------------------------------------------------
(* The inductive invariant without the snapshots *)

LEMMA InitCore == Init => CoreInv
<1> SUFFICES ASSUME Init PROVE CoreInv
  OBVIOUS
<1>1. Position
  BY ScriptIsSeq DEF Init, Position
<1>2. Flags
  BY DEF Init, Flags
<1>3. Channel
  BY ContainerAssumption DEF Init, Channel
<1>4. Values
  BY ContainerAssumption DEF Init, Values
<1>5. Control /\ Remembered
  BY DEF Init, Control, Remembered, Busy, InExecute
<1> QED BY <1>1, <1>2, <1>3, <1>4, <1>5 DEF CoreInv, Types

\* The steps of a command that are not Execute.
LEMMA StepsCore ==
  ASSUME CoreInv,
         Snapshot \/ Cleanup \/ MakeLabelsDir \/ Pack \/ SetupFails \/ Exit
  PROVE  CoreInv'
<1> USE ScriptIsSeq
    DEF CoreInv, Types, Work, Proceed, Return, execVars, sigVars, outVars, cmdVars,
        step
<1>1. CASE Snapshot
  <2>1. CASE Proceed
    <3>1. Position'
      BY <2>1, <1>1 DEF Position, Snapshot
    <3>2. Flags'
      BY <2>1, <1>1 DEF Flags, Snapshot
    <3>3. Channel' /\ Values'
      BY <2>1, <1>1 DEF Channel, Values, Snapshot
    <3>4. Control' /\ Remembered'
      BY <2>1, <1>1 DEF Position, Flags, Values, Control, Remembered, Busy,
             InExecute, Snapshot
    <3> QED BY <3>1, <3>2, <3>3, <3>4
  <2>2. CASE Unwind(FALSE)
    <3>0. /\ pos' \in Nat /\ pos <= pos' /\ pos' <= Len(script) + 1
         /\ failed' = TRUE /\ mpc' = "step"
      BY <2>2, <1>1, UnwindPos DEF Flags, Snapshot
    <3>1. Position'
      BY <2>2, <1>1, <3>0 DEF Position, Snapshot
    <3>2. Flags'
      BY <2>2, <1>1, <3>0 DEF Flags, Snapshot
    <3>3. Channel' /\ Values'
      BY <2>2, <1>1, <3>0 DEF Channel, Values, Snapshot
    <3>4. Control' /\ Remembered'
      BY <2>2, <1>1, <3>0 DEF Position, Flags, Values, Control, Remembered, Busy,
             InExecute, Snapshot
    <3> QED BY <3>1, <3>2, <3>3, <3>4
  <2> QED BY <1>1, <2>1, <2>2 DEF Snapshot
<1>2. CASE Cleanup
  <2>1. Position'
    BY <1>2 DEF Position, Cleanup
  <2>2. Flags'
    BY <1>2 DEF Flags, Cleanup
  <2>3. Channel' /\ Values'
    BY <1>2 DEF Channel, Values, Cleanup
  <2>4. Control' /\ Remembered'
    BY <1>2 DEF Position, Flags, Values, Control, Remembered, Busy,
           InExecute, Cleanup
  <2> QED BY <2>1, <2>2, <2>3, <2>4
<1>3. CASE MakeLabelsDir
  <2>1. Position'
    BY <1>3 DEF Position, MakeLabelsDir
  <2>2. Flags' /\ Channel' /\ Values'
    BY <1>3 DEF Flags, Channel, Values, MakeLabelsDir
  <2>3. Control' /\ Remembered'
    BY <1>3 DEF Position, Flags, Values, Control, Remembered, Busy,
           InExecute, MakeLabelsDir
  <2> QED BY <2>1, <2>2, <2>3
<1>4. CASE Pack
  <2>1. Position'
    BY <1>4 DEF Position, Pack
  <2>2. Flags' /\ Channel' /\ Values'
    BY <1>4 DEF Flags, Channel, Values, Pack
  <2>3. Control' /\ Remembered'
    BY <1>4 DEF Position, Flags, Values, Control, Remembered, Busy,
           InExecute, Pack
  <2> QED BY <2>1, <2>2, <2>3
<1>5. CASE SetupFails
  <2>0. /\ pos' \in Nat /\ pos <= pos' /\ pos' <= Len(script) + 1
       /\ failed' = TRUE /\ mpc' = "step"
    BY <1>5, UnwindPos DEF Flags, SetupFails
  <2>1. Position'
    BY <1>5, <2>0 DEF Position, SetupFails
  <2>2. Flags' /\ Channel' /\ Values'
    BY <1>5, <2>0 DEF Flags, Channel, Values, SetupFails
  <2>3. Control' /\ Remembered'
    BY <1>5, <2>0 DEF Position, Flags, Values, Control, Remembered, Busy,
           InExecute, SetupFails
  <2> QED BY <2>1, <2>2, <2>3
<1>6. CASE Exit
  <2>1. Position' /\ Flags' /\ Channel' /\ Values'
    BY <1>6 DEF Position, Flags, Channel, Values, Exit
  <2>2. Control' /\ Remembered'
    BY <1>6 DEF Position, Flags, Values, Control, Remembered, Busy,
           InExecute, Exit
  <2> QED BY <2>1, <2>2
<1> QED BY <1>1, <1>2, <1>3, <1>4, <1>5, <1>6

\* Execute in the main goroutine.
LEMMA ExecuteCore ==
  ASSUME CoreInv,
         Execute \/ Spawn \/ Reap \/ SendDone \/ LeaveExecute \/ OnRunFailure
  PROVE  CoreInv'
<1> USE ContainerAssumption, ScriptIsSeq
    DEF CoreInv, Types, Work, Proceed, execVars, sigVars, outVars, cmdVars, step
<1>1. CASE Execute
  <2>1. Channel'
    BY <1>1 DEF Channel, Execute, EnterExecute
  <2>2. Flags'
    BY <1>1 DEF Flags, Execute, EnterExecute
  <2>3. Position' /\ Values'
    BY <1>1 DEF Position, Values, Execute, EnterExecute
  <2>4. Control' /\ Remembered'
    BY <1>1 DEF Position, Flags, Values, Control, Remembered, Busy,
           InExecute, Execute, EnterExecute
  <2> QED BY <2>1, <2>2, <2>3, <2>4
<1>2. CASE Spawn
  <2>1. Position' /\ Flags' /\ Channel' /\ Values'
    BY <1>2 DEF Position, Flags, Channel, Values, Spawn
  <2>2. Control' /\ Remembered'
    BY <1>2 DEF Position, Flags, Values, Control, Remembered, Busy,
           InExecute, Spawn
  <2> QED BY <2>1, <2>2
<1>3. CASE Reap
  <2>1. Position' /\ Flags' /\ Channel' /\ Values'
    BY <1>3 DEF Position, Flags, Channel, Values, Reap
  <2>2. Control' /\ Remembered'
    BY <1>3 DEF Position, Flags, Values, Control, Remembered, Busy,
           InExecute, Reap
  <2> QED BY <2>1, <2>2
<1>4. CASE SendDone
  <2>1. Channel'
    BY <1>4 DEF Channel, SendDone
  <2>2. Position' /\ Flags' /\ Values'
    BY <1>4 DEF Position, Flags, Values, SendDone
  <2>3. Control' /\ Remembered'
    BY <1>4 DEF Position, Flags, Values, Control, Remembered, Busy,
           InExecute, SendDone
  <2> QED BY <2>1, <2>2, <2>3
<1>5. CASE LeaveExecute
  <2>1. CASE mpc' = "shell" /\ step = "runOrShell" /\ UNCHANGED <<pos, failed>>
    <3>1. Position' /\ Flags' /\ Channel' /\ Values'
      BY <2>1, <1>5 DEF Position, Flags, Channel, Values, LeaveExecute, RemoveTraces
    <3>2. Control' /\ Remembered'
      BY <2>1, <1>5 DEF Position, Flags, Values, Control, Remembered, Busy,
             InExecute, LeaveExecute, RemoveTraces
    <3> QED BY <3>1, <3>2
  <2>2. CASE Unwind(snap)
    <3>0. /\ pos' \in Nat /\ pos <= pos' /\ pos' <= Len(script) + 1
         /\ failed' = TRUE /\ mpc' = "step"
      BY <2>2, <1>5, UnwindPos DEF Flags, LeaveExecute, RemoveTraces
    <3>1. Position'
      BY <2>2, <1>5, <3>0 DEF Position, Control, Busy, LeaveExecute, RemoveTraces
    <3>2. Flags' /\ Channel' /\ Values'
      BY <2>2, <1>5, <3>0 DEF Flags, Channel, Values, LeaveExecute, RemoveTraces
    <3>3. Control' /\ Remembered'
      BY <2>2, <1>5, <3>0 DEF Position, Flags, Values, Control, Remembered, Busy,
             InExecute, LeaveExecute, RemoveTraces
    <3> QED BY <3>1, <3>2, <3>3
  <2>3. CASE result = "ok" /\ ~(step = "runOrShell" /\ tty) /\ Proceed
    <3>1. Position'
      BY <2>3, <1>5 DEF Position, Control, Busy, LeaveExecute, RemoveTraces
    <3>2. Flags' /\ Channel' /\ Values'
      BY <2>3, <1>5 DEF Flags, Channel, Values, LeaveExecute, RemoveTraces
    <3>3. Control' /\ Remembered'
      BY <2>3, <1>5 DEF Position, Flags, Values, Control, Remembered, Busy,
             InExecute, LeaveExecute, RemoveTraces
    <3> QED BY <3>1, <3>2, <3>3
  <2> QED BY <1>5, <2>1, <2>2, <2>3 DEF LeaveExecute
<1>6. CASE OnRunFailure
  <2>1. Channel'
    BY <1>6 DEF Channel, OnRunFailure, EnterExecute
  <2>2. Flags'
    BY <1>6 DEF Flags, OnRunFailure, EnterExecute
  <2>3. Position' /\ Values'
    BY <1>6 DEF Position, Values, OnRunFailure, EnterExecute
  <2>4. Control' /\ Remembered'
    BY <1>6 DEF Position, Flags, Values, Control, Remembered, Busy,
           InExecute, OnRunFailure, EnterExecute
  <2> QED BY <2>1, <2>2, <2>3, <2>4
<1> QED BY <1>1, <1>2, <1>3, <1>4, <1>5, <1>6

\* The container, the printer, the signals and the goroutine that forwards them.
LEMMA OthersCore ==
  ASSUME CoreInv,
         \/ Forwarder \/ CopyChunk \/ BoxStart \/ BoxWrite \/ BoxExit
         \/ \E s \in Signals : Signal(s)
  PROVE  CoreInv'
<1> USE ContainerAssumption, ScriptIsSeq
    DEF CoreInv, Types, execVars, sigVars, outVars, cmdVars, step
<1>1. CASE Receive
  <2>1. Channel'
    BY <1>1 DEF Channel, Receive, Upgraded
  <2>2. Flags'
    BY <1>1 DEF Flags, Receive, Upgraded
  <2>3. Position' /\ Values'
    <3>1. Head(queue) \in Signals
      BY <1>1 DEF Channel, Receive
    <3>2. gsig' \in {None, "KILL", "TERM"}
      BY <1>1, <3>1 DEF Values, Receive, Upgraded
    <3> QED BY <1>1, <3>2 DEF Position, Values, Receive
  <2>4. Control' /\ Remembered'
    BY <1>1 DEF Position, Flags, Values, Control, Remembered, Busy,
           InExecute, Receive, Upgraded
  <2> QED BY <2>1, <2>2, <2>3, <2>4
<1>2. CASE Kill
  <2>1. Position' /\ Flags' /\ Channel' /\ Values'
    BY <1>2 DEF Position, Flags, Channel, Values, Kill, Reached, Alive
  <2>2. Control' /\ Remembered'
    BY <1>2 DEF Position, Flags, Values, Control, Remembered, Busy,
           InExecute, Kill, Reached, Alive
  <2> QED BY <2>1, <2>2
<1>3. CASE CopyChunk
  <2>1. Position' /\ Flags' /\ Channel' /\ Values'
    BY <1>3 DEF Position, Flags, Channel, Values, CopyChunk
  <2>2. Control' /\ Remembered'
    BY <1>3 DEF Position, Flags, Values, Control, Remembered, Busy,
           InExecute, CopyChunk
  <2> QED BY <2>1, <2>2
<1>4. CASE BoxStart
  <2>1. Position' /\ Flags' /\ Channel' /\ Values'
    BY <1>4 DEF Position, Flags, Channel, Values, BoxStart
  <2>2. Control' /\ Remembered'
    BY <1>4 DEF Position, Flags, Values, Control, Remembered, Busy,
           InExecute, BoxStart
  <2> QED BY <2>1, <2>2
<1>5. CASE BoxWrite
  <2>1. Position' /\ Flags' /\ Channel' /\ Values'
    BY <1>5 DEF Position, Flags, Channel, Values, BoxWrite
  <2>2. Control' /\ Remembered'
    BY <1>5 DEF Position, Flags, Values, Control, Remembered, Busy,
           InExecute, BoxWrite
  <2> QED BY <2>1, <2>2
<1>6. CASE BoxExit
  <2>1. Position' /\ Flags' /\ Channel' /\ Values'
    BY <1>6 DEF Position, Flags, Channel, Values, BoxExit
  <2>2. Control' /\ Remembered'
    BY <1>6 DEF Position, Flags, Values, Control, Remembered, Busy,
           InExecute, BoxExit
  <2> QED BY <2>1, <2>2
<1>7. ASSUME NEW s \in Signals, Signal(s) PROVE CoreInv'
  <2>1. Channel'
    BY <1>7 DEF Channel, Signal
  <2>2. Flags'
    BY <1>7 DEF Flags, Signal
  <2>3. Position' /\ Values'
    BY <1>7 DEF Position, Values, Signal
  <2>4. Control' /\ Remembered'
    BY <1>7 DEF Position, Flags, Values, Control, Remembered, Busy,
           InExecute, Signal
  <2> QED BY <2>1, <2>2, <2>3, <2>4
<1> QED BY <1>1, <1>2, <1>3, <1>4, <1>5, <1>6, <1>7 DEF Forwarder

LEMMA StepCore ==
  ASSUME CoreInv, [Next]_vars
  PROVE  CoreInv'
<1>1. CASE UNCHANGED vars
  BY <1>1 DEF vars, cmdVars, execVars, sigVars, outVars, CoreInv, Types,
              Position, Flags, Channel, Values, Control,
              Remembered, Busy, InExecute, step
<1> QED BY <1>1, StepsCore, ExecuteCore, OthersCore DEF Next, Main

\* The invariant of Execute, its goroutines and the container.
LEMMA CoreInvariant == Spec => []CoreInv
<1>1. CoreInv /\ [Next]_vars => CoreInv'
  BY StepCore
<1> QED BY InitCore, <1>1, PTL DEF Spec

\* Every variable of the command, of Execute and of the container has its type,
\* there is a container only while Execute waits for it, and the channel of
\* signals never holds more than signal.Notify's buffer can take.
THEOREM TypeCorrect == Spec => []TypeOK
<1>1. CoreInv => TypeOK
  <2> SUFFICES ASSUME CoreInv PROVE TypeOK
    OBVIOUS
  <2>1. pos \in 1..(Len(script) + 1) /\ script \in Scripts
    BY ScriptIsSeq DEF CoreInv, Types, Position
  <2>2. Len(queue) <= Cap /\ \A i \in 1..Len(queue) : queue[i] \in Signals
    BY DEF CoreInv, Types, Channel
  <2>3. wrote \in 0..MaxChunks /\ pipe \in 0..MaxChunks /\ sent \in 0..MaxSignals
    BY ContainerAssumption DEF CoreInv, Types, Values
  <2> QED BY <2>1, <2>2, <2>3 DEF CoreInv, Types, Values, Flags, Control, TypeOK
<1> QED BY CoreInvariant, <1>1, PTL

\* The goroutine that forwards signals is gone when Execute returns, on every
\* path (cmd.Start failed, the container failed or was killed, signals in the
\* queue or in its hands): no kill(2) of it can reach a later container, or
\* with pid -1 everything else.
THEOREM NoKillStrays == Spec => []NoStrayKill
<1>1. CoreInv => NoStrayKill
  BY DEF CoreInv, Control, NoStrayKill
<1> QED BY CoreInvariant, <1>1, PTL

\* A command with a failed container reports an error, also when the user was
\* given a shell after it and that shell ended well.
THEOREM FailuresAreReported == Spec => []NoFailureForgotten
<1>1. CoreInv => NoFailureForgotten
  BY DEF CoreInv, Remembered, Busy, NoFailureForgotten
<1> QED BY CoreInvariant, <1>1, PTL

-----------------------------------------------------------------------------
(* Snapshots and temporary files *)

LEMMA BuildLayerNested ==
  ASSUME NEW run \in Runs, NEW a \in BOOLEAN, NEW b \in BOOLEAN
  PROVE  Nested(BuildLayer(a, run, b))
<1> DEFINE s == BuildLayer(a, run, b)
<1>1. CASE ~b
  BY <1>1 DEF Nested, BuildLayer, GrabCommand, Grab, Runs
<1>2. CASE b /\ ~a
  <2>1. /\ Len(s) = 6 /\ s[1] = run /\ s[2] = "pack" /\ s[3] = "snapshot"
        /\ s[4] = "labels" /\ s[5] = "exec" /\ s[6] = "cleanup"
    BY <1>2 DEF BuildLayer, GenerateLabels
  <2> HIDE DEF s
  <2>2. Opens(s, 4) /\ Closes(s, 4) /\ \A i \in 1..6 : s[i] = "labels" => i = 4
    BY <2>1 DEF Opens, Closes, Runs
  <2>3. Nested(s)
    BY <2>1, <2>2 DEF Nested
  <2> QED BY <2>3 DEF s
<1>3. CASE b /\ a
  <2>1. /\ Len(s) = 10 /\ s[1] = "snapshot" /\ s[2] = "exec" /\ s[3] = "exec"
        /\ s[4] = "cleanup" /\ s[5] = run /\ s[6] = "pack" /\ s[7] = "snapshot"
        /\ s[8] = "labels" /\ s[9] = "exec" /\ s[10] = "cleanup"
    BY <1>3 DEF BuildLayer, GenerateLabels, GrabCommand, Grab
  <2> HIDE DEF s
  <2>2. Opens(s, 8) /\ Closes(s, 8) /\ \A i \in 1..10 : s[i] = "labels" => i = 8
    BY <2>1 DEF Opens, Closes, Runs
  <2>3. Nested(s)
    BY <2>1, <2>2 DEF Nested
  <2> QED BY <2>3 DEF s
<1> QED BY <1>1, <1>2, <1>3

\* Every command of stacker generates labels within a snapshot.
LEMMA CommandsNested ==
  ASSUME NEW s \in Commands
  PROVE  Nested(s)
<1>1. ASSUME NEW a \in BOOLEAN, NEW b \in BOOLEAN, s = GrabCommand(a, b)
      PROVE  Nested(s)
  BY <1>1 DEF Nested, GrabCommand, Grab
<1>2. ASSUME NEW a \in BOOLEAN, s = ChrootCommand(a)
      PROVE  Nested(s)
  BY <1>2 DEF Nested, ChrootCommand
<1> QED BY <1>1, <1>2, BuildLayerNested DEF Commands

\* A step that is no bracket changes nothing about the brackets round it.
LEMMA Advance ==
  ASSUME Position, pos <= Len(script), step \notin {"snapshot", "cleanup"}
  PROVE  /\ Opens(script, pos + 1) => Opens(script, pos)
         /\ Closes(script, pos) => Closes(script, pos + 1)
<1> USE ScriptIsSeq DEF Position, step
<1>1. ASSUME Opens(script, pos + 1) PROVE Opens(script, pos)
  <2>1. PICK j \in 1..pos :
          /\ script[j] = "snapshot"
          /\ \A m \in (j + 1)..pos : script[m] # "cleanup"
    BY <1>1 DEF Opens
  <2>2. j \in 1..(pos - 1) /\ \A m \in (j + 1)..(pos - 1) : m \in (j + 1)..pos
    BY <2>1
  <2> QED BY <2>1, <2>2 DEF Opens
<1>2. ASSUME Closes(script, pos) PROVE Closes(script, pos + 1)
  <2>1. PICK k \in pos..Len(script) :
          /\ script[k] = "cleanup"
          /\ \A m \in pos..(k - 1) : script[m] \notin {"snapshot", "cleanup"}
    BY <1>2 DEF Closes
  <2>2. /\ k \in (pos + 1)..Len(script)
        /\ \A m \in (pos + 1)..(k - 1) : m \in pos..(k - 1)
    BY <2>1
  <2> QED BY <2>1, <2>2 DEF Closes
<1> QED BY <1>1, <1>2

\* At a bracket: no labels at the beginning of a snapshot, none to keep at its
\* end, and after its end no snapshot is open.
LEMMA AtBracket ==
  ASSUME Position, pos <= Len(script)
  PROVE  /\ step = "snapshot" => ~Closes(script, pos)
         /\ step = "cleanup" => ~Opens(script, pos + 1)
<1> USE ScriptIsSeq DEF Position, step
<1>1. ASSUME step = "snapshot", Closes(script, pos) PROVE FALSE
  <2>1. PICK k \in pos..Len(script) :
          /\ script[k] = "cleanup"
          /\ \A m \in pos..(k - 1) : script[m] \notin {"snapshot", "cleanup"}
    BY <1>1 DEF Closes
  <2>2. pos \in pos..(k - 1)
    BY <1>1, <2>1
  <2> QED BY <1>1, <2>1, <2>2
<1>2. ASSUME step = "cleanup", Opens(script, pos + 1) PROVE FALSE
  <2>1. PICK j \in 1..pos :
          /\ script[j] = "snapshot"
          /\ \A m \in (j + 1)..pos : script[m] # "cleanup"
    BY <1>2 DEF Opens
  <2>2. pos \in (j + 1)..pos
    BY <1>2, <2>1
  <2> QED BY <1>2, <2>1, <2>2
<1> QED BY <1>1, <1>2

LEMMA Beyond ==
  ASSUME NEW a \in Nat, NEW b \in Nat, NEW n \in Nat, a <= b,
         NEW k \in a..n, ~(k \in a..(b - 1))
  PROVE  k \in b..n /\ \A m \in b..(k - 1) : m \in a..(k - 1)
  OBVIOUS

\* The cleanup that was to come is the one an error unwinds to.
LEMMA UnwindCloses ==
  ASSUME Types, snap, Unwind(snap), Closes(script, pos)
  PROVE  Closes(script, pos')
<1> USE ScriptIsSeq DEF Types, Position
<1>1. PICK k \in pos..Len(script) :
        /\ script[k] = "cleanup"
        /\ \A m \in pos..(k - 1) : script[m] \notin {"snapshot", "cleanup"}
  BY DEF Closes
<1>2. /\ pos' \in Nat /\ pos <= pos' /\ pos' <= Len(script) + 1
      /\ \A m \in pos..(pos' - 1) : script[m] # "cleanup"
  BY UnwindPos
<1>3. k \in pos'..Len(script) /\ \A m \in pos'..(k - 1) : m \in pos..(k - 1)
  <2>1. ~(k \in pos..(pos' - 1))
    BY <1>1, <1>2
  <2> QED BY <1>2, <2>1, Beyond
<1> QED BY <1>1, <1>3 DEF Closes

\* An error of a step that is no bracket.
LEMMA UnwindBracketed ==
  ASSUME FullInv, Unwind(snap), script' = script, snap' = snap,
         "labels" \in files' => "labels" \in files
  PROVE  Bracketed'
<1>1. /\ pos' <= Len(script) => snap
      /\ mpc' = "step"
  BY UnwindPos DEF FullInv, CoreInv, Types, Flags
<1>2. ASSUME "labels" \in files' PROVE snap' /\ Closes(script, pos)'
  BY <1>2, UnwindCloses DEF FullInv, CoreInv, Bracketed, Closes
<1> QED BY <1>1, <1>2 DEF Bracketed, Busy

LEMMA StepBracketed ==
  ASSUME \A s \in Scripts : Nested(s), FullInv, [Next]_vars
  PROVE  Bracketed'
<1> USE ScriptIsSeq DEF FullInv, CoreInv, Types
<1>k. ASSUME UNCHANGED <<script, pos, snap>>,
             "labels" \in files' => "labels" \in files,
             Busy' => Busy \/ IsExec
      PROVE  Bracketed'
  BY <1>k DEF Bracketed, Opens, Closes, IsExec, Runs, step
<1>a. ASSUME pos <= Len(script), step \notin {"snapshot", "cleanup"}, Proceed,
             UNCHANGED <<script, snap>>,
             "labels" \in files' => "labels" \in files
      PROVE  Bracketed'
  BY <1>a, Advance DEF Position, Bracketed, Proceed, Busy, Opens, Closes
<1>1. CASE Snapshot
  <2>1. "labels" \notin files /\ files' = files /\ script' = script
    BY <1>1, AtBracket DEF Snapshot, Work, Bracketed, execVars
  <2>2. CASE snap' = TRUE /\ Proceed
    BY <2>1, <2>2 DEF Proceed, Bracketed, Busy
  <2>3. CASE Unwind(FALSE)
    <3>1. ~(pos' <= Len(script)) /\ mpc' = "step"
      BY <2>3, UnwindPos
    <3> QED BY <2>1, <3>1 DEF Bracketed, Busy
  <2> QED BY <1>1, <2>2, <2>3 DEF Snapshot
<1>2. CASE Cleanup
  <2>1. "labels" \notin files' /\ script' = script /\ mpc' = "step"
    BY <1>2 DEF Cleanup, Return
  <2>2. pos' <= Len(script) => pos' = pos + 1
    BY <1>2 DEF Cleanup, Return, Position
  <2>3. ~Opens(script, pos + 1)
    BY <1>2, AtBracket DEF Cleanup, Work
  <2> QED BY <2>1, <2>2, <2>3 DEF Bracketed, Busy, Opens
<1>3. CASE MakeLabelsDir
  <2>1. Opens(script, pos) /\ Closes(script, pos) /\ pos <= Len(script)
    BY <1>3 DEF MakeLabelsDir, Work, Nested, Position, step
  <2>2. snap /\ Closes(script, pos + 1)
    BY <1>3, <2>1, Advance DEF MakeLabelsDir, Bracketed
  <2> QED BY <1>3, <2>2 DEF MakeLabelsDir, Proceed, Bracketed, Busy, Closes
<1>4. CASE Pack
  BY <1>4, <1>a DEF Pack, Work, execVars
<1>5. CASE SetupFails
  BY <1>5, UnwindBracketed DEF SetupFails, execVars
<1>6. CASE LeaveExecute
  <2>1. CASE mpc' = "shell" /\ UNCHANGED <<pos, failed>>
    BY <1>6, <2>1, <1>k DEF LeaveExecute, Busy
  <2>2. CASE Unwind(snap)
    BY <1>6, <2>2, UnwindBracketed DEF LeaveExecute
  <2>3. CASE Proceed
    BY <1>6, <2>3, <1>a DEF LeaveExecute, Control, Bracketed, Busy
  <2> QED BY <1>6, <2>1, <2>2, <2>3 DEF LeaveExecute
<1>7. CASE Execute \/ OnRunFailure
  BY <1>7, <1>k DEF Execute, OnRunFailure, EnterExecute, cmdVars, Busy
<1>8. CASE Spawn \/ Reap \/ SendDone \/ Exit
  BY <1>8, <1>k DEF Spawn, Reap, SendDone, Exit, cmdVars, execVars, Busy
<1>9. CASE Forwarder \/ CopyChunk \/ BoxStart \/ BoxWrite \/ BoxExit
  BY <1>9, <1>k DEF Forwarder, Receive, Kill, CopyChunk, BoxStart, BoxWrite,
                    BoxExit, cmdVars, execVars, Busy
<1>10. ASSUME NEW s \in Signals, Signal(s) PROVE Bracketed'
  BY <1>10, <1>k DEF Signal, execVars, Busy
<1>11. CASE UNCHANGED vars
  BY <1>11, <1>k DEF vars, cmdVars, execVars, Busy
<1> QED BY <1>1, <1>2, <1>3, <1>4, <1>5, <1>6, <1>7, <1>8, <1>9, <1>10, <1>11
        DEF Next, Main

\* For every command of stacker, whatever fails and whenever: no layer is packed
\* with the mount point of Execute in it, and a command that runs to its end has
\* removed its configuration and the directory of its labels.
THEOREM NothingIsLeftBehind ==
  ASSUME Scripts \subseteq Commands
  PROVE  Spec => []NothingLeftBehind
<1>1. \A s \in Scripts : Nested(s)
  BY CommandsNested
<1>2. Init => FullInv
  <2> SUFFICES ASSUME Init PROVE Bracketed
    BY InitCore DEF FullInv
  <2> QED BY DEF Init, Bracketed, Opens, Busy
<1>3. FullInv /\ [Next]_vars => FullInv'
  BY <1>1, StepCore, StepBracketed DEF FullInv
<1>4. FullInv => NothingLeftBehind
  <2> SUFFICES ASSUME FullInv PROVE NothingLeftBehind
    OBVIOUS
  <2> USE ScriptIsSeq DEF FullInv, CoreInv, Types
  <2>1. Work => "/stacker" \notin traces
    BY DEF Work, Control
  <2>2. ASSUME mpc = "exit", pos > Len(script) PROVE files = {}
    <3>1. "config" \notin files
      BY <2>2 DEF Control
    <3>2. "labels" \notin files
      BY <2>2 DEF Bracketed, Closes, Position
    <3> QED BY <3>1, <3>2 DEF Values
  <2> QED BY <2>1, <2>2 DEF NothingLeftBehind
<1> QED BY <1>2, <1>3, <1>4, PTL DEF Spec
=============================================================================
