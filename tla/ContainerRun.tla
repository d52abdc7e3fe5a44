---------------------------- MODULE ContainerRun ----------------------------
(***************************************************************************)
(* How stacker runs commands in containers: Container.Execute              *)
(* (pkg/container/container.go) with its two goroutines, the signals that  *)
(* reach it, and what the callers in build.go, grab.go, import.go and      *)
(* chroot.go put round it: temporary snapshots, configuration, cleanup.    *)
(*                                                                         *)
(* A command is a script of steps.  Execute is the one that takes long:    *)
(* the main goroutine waits for lxc-wrapper, a second one forwards signals *)
(* to the container's init, a third one prints the output.  A container is *)
(* starting (lxc-wrapper runs, init does not), running, over (not waited   *)
(* for yet) or not there.  InitPid is -1 unless it is running, and a kill  *)
(* of process -1 reaches everything in stacker's pid namespace.            *)
(***************************************************************************)
EXTENDS Naturals, Sequences, FiniteSets, SequencesExt

CONSTANTS
  Scripts,     \* the commands: sequences of steps
  Signals,     \* the signals somebody may send: {"INT", "TERM", "CHLD"}
  Cap,         \* capacity of the channel of signals
  MaxSignals,  \* bound on the signals sent
  MaxChunks,   \* bound on the chunks of output of a container
  Faults,      \* subset of {"snapshot", "setup", "spawn", "exit"}: what may fail
  None

Runs == {"run", "runOrShell", "runLegacy"}
Steps == Runs \union {"exec", "shell", "snapshot", "cleanup", "labels", "pack"}

ASSUME ContainerAssumption ==
  /\ Scripts \subseteq Seq(Steps)
  /\ Signals \subseteq {"INT", "TERM", "CHLD"}
  /\ Cap \in Nat \ {0} /\ MaxSignals \in Nat /\ MaxChunks \in Nat
  /\ Faults \subseteq {"snapshot", "setup", "spawn", "exit"}

-----------------------------------------------------------------------------
(* The commands *)

\* Grab: a cp in the container, then chmod and chown if they are asked for.
Grab(mode, owner) ==
  <<"exec">> \o (IF mode THEN <<"exec">> ELSE <<>>)
             \o (IF owner THEN <<"exec">> ELSE <<>>)

\* "stacker grab", and an import from stacker://, in a snapshot of the layer.
GrabCommand(mode, owner) == <<"snapshot">> \o Grab(mode, owner) \o <<"cleanup">>

\* "stacker chroot"; without a stackerfile it runs in the layer itself.
ChrootCommand(file) ==
  IF file THEN <<"snapshot", "shell", "cleanup">> ELSE <<"shell">>

\* generate_labels, in updateOCIConfigForOutput.
GenerateLabels == <<"snapshot", "labels", "exec", "cleanup">>

\* One layer of a build: imports from another layer, the run section (legacy
\* imports mount their files at another place), --on-run-failure, the packing.
BuildLayer(import, run, labels) ==
  (IF import THEN GrabCommand(TRUE, FALSE) ELSE <<>>) \o <<run, "pack">>
    \o (IF labels THEN GenerateLabels ELSE <<>>)

-----------------------------------------------------------------------------
VARIABLES
  script, pos,  \* the command and its next step
  mpc,          \* the main goroutine
  result,       \* what Execute returns
  failed,       \* the command will report an error
  tty,          \* this Execute is interactive, as a shell after a failed run is
  gpc, gsig, gpid,  \* the goroutine that forwards signals
  queue,        \* the channel it reads
  notified,     \* signal.Notify has been called
  box,          \* the container
  wrote, pipe,  \* output: chunks written, chunks in the pipe
  temps,        \* the temporary snapshots in the roots dir
  snap,         \* the command has a snapshot
  files,        \* temporary files and directories elsewhere
  traces,       \* mount points left in the layer's overlay directory
  intr,         \* a SIGINT was accepted while this container was there
  sent,         \* signals so far
  bad           \* history: some Execute of the command has failed

cmdVars == <<script, pos, failed, temps, snap>>
execVars == <<result, tty, files, traces, bad>>
sigVars == <<gpc, gsig, gpid, queue, notified, intr, sent>>
outVars == <<wrote, pipe>>
vars == <<cmdVars, mpc, execVars, sigVars, box, outVars>>

step == script[pos]

Alive == box \in {"starting", "running"}

\* The main goroutine is inside Execute, after signal.Notify.
InExecute == mpc \in {"notified", "wait", "done"}

Init ==
  /\ script \in Scripts /\ pos = 1 /\ failed = FALSE
  /\ mpc = "step" /\ result = "ok" /\ tty = FALSE /\ bad = FALSE
  /\ gpc = "none" /\ gsig = None /\ gpid = None /\ queue = <<>>
  /\ notified = FALSE /\ intr = FALSE /\ sent = 0
  /\ box = "none" /\ wrote = 0 /\ pipe = 0
  /\ temps = 0 /\ snap = FALSE /\ files = {} /\ traces = {}

-----------------------------------------------------------------------------
(* The steps of a command *)

\* An error runs the deferred cleanup, if there is one, and ends the command.
Unwind(cleanup) ==
  LET later == {i \in pos..Len(script) : cleanup /\ script[i] = "cleanup"}
  IN /\ failed' = TRUE
     /\ pos' = Min(later \union {Len(script) + 1})
     /\ mpc' = "step"

Proceed == pos' = pos + 1 /\ mpc' = "step" /\ UNCHANGED failed

\* After the cleanup of a failed command there is nothing left to do.
Return ==
  /\ pos' = IF failed THEN Len(script) + 1 ELSE pos + 1
  /\ mpc' = "step" /\ UNCHANGED failed

Work == mpc = "step" /\ pos <= Len(script)

\* TemporaryWritableSnapshot: if Snapshot fails, the cleanup runs at once.
Snapshot ==
  /\ Work /\ step = "snapshot"
  /\ temps' = temps + 1
  /\ \/ snap' = TRUE /\ Proceed
     \/ "snapshot" \in Faults /\ snap' = FALSE /\ Unwind(FALSE)
  /\ UNCHANGED <<script, execVars, sigVars, box, outVars>>

\* The cleanup of a snapshot: Delete joins the directory, an absolute path, to
\* the roots dir and removes what is not there.  The labels' directory goes.
Cleanup ==
  /\ Work /\ step = "cleanup"
  /\ snap' = FALSE
  /\ files' = files \ {"labels"}
  /\ Return
  /\ UNCHANGED <<script, temps, result, tty, traces, bad, sigVars, box, outVars>>

\* The directory the labels are written to.
MakeLabelsDir ==
  /\ Work /\ step = "labels"
  /\ files' = files \union {"labels"}
  /\ Proceed
  /\ UNCHANGED <<script, temps, snap, result, tty, traces, bad, sigVars, box, outVars>>

\* Repack, the configuration of the image, Put.
Pack ==
  /\ Work /\ step = "pack"
  /\ Proceed
  /\ UNCHANGED <<script, temps, snap, execVars, sigVars, box, outVars>>

IsExec == step \in Runs \union {"exec", "shell"}

\* container.New, SetupBuildContainerConfig, SetupLayerConfig.
SetupFails ==
  /\ Work /\ IsExec /\ "setup" \in Faults
  /\ Unwind(snap)
  /\ UNCHANGED <<script, temps, snap, execVars, sigVars, box, outVars>>

\* Execute up to cmd.Run: a new channel of signals, a new goroutine.
EnterExecute(interactive) ==
  /\ tty' = interactive
  /\ files' = files \union {"config"}
  /\ result' = "ok"
  /\ notified' = TRUE
  /\ queue' = <<>> /\ gpc' = "select" /\ gsig' = None /\ gpid' = None
  /\ intr' = FALSE
  /\ mpc' = "notified"
  /\ wrote' = 0 /\ pipe' = 0
  /\ UNCHANGED <<traces, box, sent, bad>>

Execute ==
  /\ Work /\ IsExec
  /\ EnterExecute(step = "shell")
  /\ UNCHANGED cmdVars

\* cmd.Start, which may fail.
Spawn ==
  /\ mpc = "notified"
  /\ \/ box' = "starting" /\ mpc' = "wait" /\ UNCHANGED result
     \/ "spawn" \in Faults /\ mpc' = "done" /\ result' = "fail" /\ UNCHANGED box
  /\ UNCHANGED <<cmdVars, tty, files, traces, bad, sigVars, outVars>>

\* Mutant of Reap: the process is started and not waited for.
ReapNot ==
  /\ mpc = "wait" /\ mpc' = "done"
  /\ UNCHANGED <<cmdVars, execVars, sigVars, box, outVars>>

\* cmd.Wait returns when the process is over and its output has been read.
Reap ==
  /\ mpc = "wait" /\ box = "over" /\ pipe = 0
  /\ box' = "none"
  /\ mpc' = "done"
  /\ UNCHANGED <<cmdVars, execVars, sigVars, outVars>>

\* Mutant of SendDone: the channel has room for the message.
SendDoneBuffered ==
  /\ mpc = "done"
  /\ mpc' = "return"
  /\ UNCHANGED <<cmdVars, execVars, sigVars, box, outVars>>

\* done <- true on an unbuffered channel: both goroutines take part.
SendDone ==
  /\ mpc = "done" /\ gpc = "select"
  /\ gpc' = "none" /\ queue' = <<>> /\ intr' = FALSE
  /\ mpc' = "return"
  /\ bad' = (bad \/ result = "fail")
  /\ UNCHANGED <<cmdVars, result, tty, files, traces, gsig, gpid, notified, sent,
                 box, outVars>>

\* Mutant of RemoveTraces: the mount points are left to the packing.
RemoveTracesLater == traces

\* Execute's deferred RemoveAll knows one of the two mount points.
RemoveTraces == traces \ {"/stacker"}

\* Mutant of LeaveExecute: the error of the shell replaces that of the run.
LeaveExecuteShell ==
  /\ mpc = "return"
  /\ files' = files \ {"config"}
  /\ traces' = RemoveTraces
  /\ \/ /\ step = "runOrShell" /\ result = "fail" /\ ~tty
        /\ mpc' = "shell" /\ UNCHANGED <<pos, failed>>
     \/ /\ result = "fail" /\ ~(step = "runOrShell" /\ ~tty)
        /\ Unwind(snap)
     \/ result = "ok" /\ Proceed
  /\ UNCHANGED <<script, temps, snap, result, tty, bad, sigVars, box, outVars>>

\* Execute's deferred calls; a failed run section gets a shell if the user has
\* asked for one, and stays failed.
LeaveExecute ==
  /\ mpc = "return"
  /\ files' = files \ {"config"}
  /\ traces' = RemoveTraces
  /\ \/ /\ step = "runOrShell" /\ result = "fail" /\ ~tty
        /\ mpc' = "shell" /\ UNCHANGED <<pos, failed>>
     \/ /\ \/ step = "runOrShell" /\ tty
           \/ result = "fail" /\ step # "runOrShell"
        /\ Unwind(snap)
     \/ result = "ok" /\ ~(step = "runOrShell" /\ tty) /\ Proceed
  /\ UNCHANGED <<script, temps, snap, result, tty, bad, sigVars, box, outVars>>

OnRunFailure ==
  /\ mpc = "shell"
  /\ EnterExecute(TRUE)
  /\ UNCHANGED cmdVars

Exit ==
  /\ mpc = "step" /\ pos > Len(script)
  /\ mpc' = "exit"
  /\ UNCHANGED <<cmdVars, execVars, sigVars, box, outVars>>

-----------------------------------------------------------------------------
(* The container *)

\* The mounts of /stacker or /.stacker make directories in the layer.
BoxStart ==
  /\ box = "starting"
  /\ box' = "running"
  /\ traces' = traces \union
       CASE step = "runLegacy" -> {"/stacker", "/.stacker"}
         [] step \in {"run", "runOrShell"} -> {"/stacker"}
         [] OTHER -> {}
  /\ UNCHANGED <<cmdVars, mpc, result, tty, files, bad, sigVars, outVars>>

BoxWrite ==
  /\ box = "running" /\ ~tty /\ wrote < MaxChunks
  /\ wrote' = wrote + 1 /\ pipe' = pipe + 1
  /\ UNCHANGED <<cmdVars, mpc, execVars, sigVars, box>>

BoxExit ==
  /\ box = "running"
  /\ box' = "over"
  /\ result' \in {"ok"} \union IF "exit" \in Faults THEN {"fail"} ELSE {}
  /\ UNCHANGED <<cmdVars, mpc, tty, files, traces, bad, sigVars, outVars>>

-----------------------------------------------------------------------------
(* The printer *)

CopyChunk ==
  /\ pipe > 0
  /\ pipe' = pipe - 1
  /\ UNCHANGED <<cmdVars, mpc, execVars, sigVars, box, wrote>>

-----------------------------------------------------------------------------
(* Signals *)

\* Before the first Notify a signal has its default action.  Afterwards every
\* channel ever registered gets it if it has room; only the one of the running
\* Execute has a reader.
Signal(s) ==
  /\ mpc # "exit" /\ sent < MaxSignals
  /\ sent' = sent + 1
  /\ IF ~notified
     THEN /\ mpc' = IF s = "CHLD" THEN mpc ELSE "exit"
          /\ failed' = (failed \/ s # "CHLD")
          /\ UNCHANGED <<queue, intr>>
     ELSE /\ queue' = IF gpc # "none" /\ Len(queue) < Cap THEN Append(queue, s)
                      ELSE queue
          /\ intr' = (intr \/ (s = "INT" /\ queue' # queue /\ Alive))
          /\ UNCHANGED <<mpc, failed>>
  /\ UNCHANGED <<script, pos, temps, snap, execVars, gpc, gsig, gpid, notified,
                 box, outVars>>

\* Mutant of Upgraded: SIGINT is sent on as it is.
UpgradedNot(s) == s

\* SIGINT becomes SIGKILL.
Upgraded(s) == IF s = "INT" THEN "KILL" ELSE s

\* The other case of the select, and InitPid: -1 stands for all processes.
Receive ==
  /\ gpc = "select" /\ queue # <<>>
  /\ queue' = Tail(queue)
  /\ IF Head(queue) = "CHLD" THEN UNCHANGED <<gpc, gsig, gpid>>
     ELSE /\ gsig' = Upgraded(Head(queue))
          /\ gpid' = IF box = "running" THEN "init" ELSE "all"
          /\ gpc' = "kill"
  /\ UNCHANGED <<cmdVars, mpc, execVars, notified, intr, sent, box, outVars>>

\* The process the signal was meant for is there.
Reached == (gpid = "init" /\ box = "running") \/ (gpid = "all" /\ Alive)

\* syscall.Kill: init may ignore what is not SIGKILL, a process that is gone is
\* an error that is only logged; lxc-wrapper has no handlers.
Kill ==
  /\ gpc = "kill"
  /\ \/ Reached /\ box' = "over" /\ result' = "fail"
     \/ /\ ~Reached \/ (gpid = "init" /\ gsig # "KILL")
        /\ UNCHANGED <<box, result>>
  /\ gpc' = "select" /\ gsig' = None /\ gpid' = None
  /\ UNCHANGED <<cmdVars, mpc, tty, files, traces, bad, queue, notified, intr, sent,
                 outVars>>

-----------------------------------------------------------------------------
Main == Snapshot \/ Cleanup \/ MakeLabelsDir \/ Pack \/ SetupFails \/ Execute
        \/ Spawn \/ Reap \/ SendDone \/ LeaveExecute \/ OnRunFailure \/ Exit

Forwarder == Receive \/ Kill

Next ==
  \/ Main \/ Forwarder \/ CopyChunk
  \/ BoxStart \/ BoxWrite \/ BoxExit
  \/ \E s \in Signals : Signal(s)

\* Goroutines are scheduled, the kernel starts containers; nobody says that the
\* command in a container ever ends.
Spec == /\ Init /\ [][Next]_vars
        /\ WF_vars(Main) /\ WF_vars(Forwarder) /\ WF_vars(CopyChunk)
        /\ WF_vars(BoxStart)

-----------------------------------------------------------------------------
(* Properties *)

\* Every variable has its type; there is no container outside Execute, and the
\* channel never holds more than its capacity.
TypeOK ==
  /\ script \in Scripts /\ pos \in 1..(Len(script) + 1)
  /\ mpc \in {"step", "notified", "wait", "done", "return", "shell", "exit"}
  /\ result \in {"ok", "fail"}
  /\ failed \in BOOLEAN /\ bad \in BOOLEAN /\ tty \in BOOLEAN
  /\ snap \in BOOLEAN /\ notified \in BOOLEAN /\ intr \in BOOLEAN
  /\ gpc \in {"none", "select", "kill"}
  /\ gsig \in {None, "KILL", "TERM"} /\ gpid \in {None, "init", "all"}
  /\ Len(queue) <= Cap /\ \A i \in 1..Len(queue) : queue[i] \in Signals
  /\ box \in {"none", "starting", "running", "over"}
  /\ box # "none" => mpc = "wait"
  /\ wrote \in 0..MaxChunks /\ pipe \in 0..MaxChunks
  /\ temps \in Nat /\ files \subseteq {"config", "labels"}
  /\ traces \subseteq {"/stacker", "/.stacker"}
  /\ sent \in 0..MaxSignals

\* The goroutine that forwards signals never outlives its Execute: a kill that
\* comes late would find no init, go to process -1, and hit whatever runs next.
NoStrayKill == gpc # "none" => InExecute

\* An error of a container is never forgotten: a command that reports success
\* had none, not even one after which the user got a shell.
NoFailureForgotten == mpc = "exit" /\ bad => failed

\* The comment in Execute: "we want to be sure to remove the /stacker from the
\* generated filesystem": no mount point is there when a layer is packed.  And
\* whatever fails, a command that runs to its end removes its temporary files.
NothingLeftBehind ==
  /\ Work /\ step = "pack" => "/stacker" \notin traces
  /\ mpc = "exit" /\ pos > Len(script) => files = {}

\* When the container is over, Execute returns, whatever signals arrive.  The
\* comment in Execute: SIGINT is made SIGKILL because the command in the
\* container would go on otherwise.  A SIGINT that arrives while there is a
\* container ends it, also one that would run for ever, and Execute returns.
ExecuteReturns == (box = "over" \/ intr) ~> ~InExecute
=============================================================================
