--------------------------- MODULE DockerConvert ---------------------------
(***************************************************************************)
(* "stacker convert" and what happens to its output.  Converter            *)
(* (pkg/stacker/convert.go) reads a Dockerfile command by command and      *)
(* writes a stackerfile and a file of substitutions; build and publish     *)
(* then read both (NewBuilder, NewPublisher, readStackerFiles).  A         *)
(* stackerfile may also have been written by hand.                         *)
(*                                                                         *)
(* The Dockerfile is chosen command by command while it is converted.      *)
(***************************************************************************)
EXTENDS Substitution

CONSTANTS
  Commands,      \* the commands a Dockerfile may have
  MaxCommands,   \* bound on their number
  Handwritten,   \* stackerfiles with their substitution files
  Options,       \* what the user may give: [cli: substitutions, hash: BOOLEAN]
  Faults         \* subset of {"output", "subs"}: which WriteFile may fail

ASSUME ConvertAssumption ==
  /\ MaxCommands \in Nat /\ Faults \subseteq {"output", "subs"}
  /\ \A c \in Commands :
       /\ c.cmd \in {"from", "env", "run", "volume", "config"} => IsLine(c.val)
       /\ c.cmd = "arg" /\ c.val # None => IsLine(c.val)
  /\ \A h \in Handwritten : IsFile(h.file) /\ \A v \in DOMAIN h.subs : IsLine(h.subs[v])
  /\ \A o \in Options : o.cli \in Seq(ToSet(o.cli)) /\ \A s \in ToSet(o.cli) : IsLine(s.to)

From(base, name) == [cmd |-> "from", key |-> name, val |-> base]
Arg(v, default) == [cmd |-> "arg", key |-> v, val |-> default]
Env(k, val) == [cmd |-> "env", key |-> k, val |-> val]
Run(val) == [cmd |-> "run", key |-> None, val |-> val]
Copy(stage, relative) == [cmd |-> "copy", key |-> stage, val |-> relative]
Volume(path) == [cmd |-> "volume", key |-> None, val |-> <<Text(path)>>]
User(u) == [cmd |-> "user", key |-> u, val |-> <<>>]
Workdir(d) == [cmd |-> "workdir", key |-> d, val |-> <<>>]
Config(k, t) == [cmd |-> "config", key |-> k, val |-> <<Text(t)>>]
Expose == [cmd |-> "expose", key |-> None, val |-> <<>>]
Unknown == [cmd |-> "unknown", key |-> None, val |-> <<>>]

VARIABLES
  phase,      \* "convert", "build", "publish", "end", or how the conversion failed
  docker,     \* history: the Dockerfile so far
  output, currLayer, subs, vols, args, env, currDir, currUid,  \* Converter
  opts,       \* the options of build and publish
  text, todo, bad,  \* substitute: the file so far, what is left to do, an error
  built,      \* what build has read
  reread,     \* publish gets the substitution file too
  dummies,    \* the names publish substitutes with "dummy"
  published   \* what publish has read

convVars == <<output, currLayer, subs, vols, args, env, currDir, currUid>>
readVars == <<opts, text, todo, bad, built, reread, dummies, published>>
vars == <<phase, docker, convVars, readVars>>

NoFile == [status |-> "none", file |-> <<>>, missing |-> {}]
Empty == [x \in {} |-> <<>>]
Set(f, k, v) == [x \in DOMAIN f \union {k} |-> IF x = k THEN v ELSE f[x]]

Init ==
  /\ docker = <<>> /\ currLayer = <<>> /\ vols = 0 /\ args = <<>> /\ env = Empty
  /\ currDir = "" /\ currUid = ""
  /\ opts \in Options /\ built = NoFile
  /\ text = <<>> /\ todo = <<>> /\ bad = FALSE
  /\ reread = FALSE /\ dummies = {} /\ published = NoFile
  /\ \/ phase = "convert" /\ output = <<>> /\ subs = Empty
     \/ \E h \in Handwritten :
          phase = "start" /\ output = h.file /\ subs = h.subs

-----------------------------------------------------------------------------
(* convertCommand *)

Forms == <<"bare", "brace", "paren">>

IsForm(tok, form, v) ==
  IF form = "bare" THEN IsBare(tok, v) ELSE tok.form = form /\ tok.name = v


\* The first form in which the line has $V, or 0.
FirstForm(line, v) ==
  SelectInSeq(Forms, LAMBDA f : \E tok \in Tokens(line) : IsForm(tok, f, v))

\* The first ARG the line has is replaced, in the first form it has it in; where
\* V starts a longer name the rest of that name stays.
ReplaceArg(line) ==
  LET i == SelectInSeq(args, LAMBDA a : FirstForm(line, a) # 0)
      form == Forms[FirstForm(line, args[i])]
  IN IF i = 0 THEN line
     ELSE MapTokens(LAMBDA tok :
            IF ~IsForm(tok, form, args[i]) THEN <<tok>>
            ELSE IF tok.name = args[i] THEN <<Ref("double", args[i])>>
            ELSE <<Ref("double", args[i]), Text("rest")>>, line)

\* The name of the image of a FROM without "as".
ImageName == <<Ref("double", "IMAGE")>>

Converting(c) ==
  /\ phase = "convert" /\ Len(docker) < MaxCommands
  /\ docker' = Append(docker, c)
  /\ UNCHANGED readVars

\* Mutant of InLayer: a layer without a name is made up.
InLayerNoPanic(c, entries) ==
  /\ Converting(c)
  /\ phase' = phase /\ output' = output \o entries

\* Commands that go into the current layer: without one the program panics.
InLayer(c, entries) ==
  /\ Converting(c)
  /\ IF currLayer = <<>> THEN phase' = "panic" /\ UNCHANGED output
     ELSE phase' = phase /\ output' = output \o entries

Put(field, key, val, flags) == Entry(currLayer, field, key, val, flags)

\* The file without a layer.
Without(file, layer) ==
  FlattenSeq([i \in DOMAIN file |-> IF file[i].layer = layer THEN <<>> ELSE <<file[i]>>])

\* A second layer of the same name replaces the first.
ConvertFrom(c) ==
  /\ c.cmd = "from" /\ Converting(c)
  /\ currLayer' = IF c.key = None THEN ImageName ELSE <<Text(c.key)>>
  /\ subs' = IF c.key = None THEN Set(subs, "IMAGE", <<Text("app")>>) ELSE subs
  /\ output' = Append(Without(output, currLayer'), Entry(currLayer', "from", None, c.val, {}))
  /\ currDir' = "" /\ currUid' = ""
  /\ UNCHANGED <<phase, vols, args, env>>

\* The whole environment, in the order of an iteration over a map, then the line.
ConvertRun(c) ==
  /\ c.cmd = "run"
  /\ \E order \in SetToSeqs(DOMAIN env) :
       InLayer(c, [i \in DOMAIN order |-> Put("export", order[i], env[order[i]], {})]
                  \o <<Put("run", currUid, ReplaceArg(c.val), {})>>)
  /\ UNCHANGED <<currLayer, subs, vols, args, env, currDir, currUid>>

ConvertEnv(c) ==
  /\ c.cmd = "env" /\ Converting(c)
  /\ env' = Set(env, c.key, ReplaceArg(c.val))
  /\ UNCHANGED <<phase, output, currLayer, subs, vols, args, currDir, currUid>>

ConvertArg(c) ==
  /\ c.cmd = "arg" /\ Converting(c)
  /\ args' = Append(args, c.key)
  /\ subs' = IF c.val = None THEN subs ELSE Set(subs, c.key, c.val)
  /\ UNCHANGED <<phase, output, currLayer, vols, env, currDir, currUid>>

\* A relative destination is joined to the working directory, if there is one.
ConvertCopy(c) ==
  /\ c.cmd = "copy"
  /\ InLayer(c, <<Put("imports", c.key, <<>>,
                      IF c.val /\ currDir = "" THEN {"relative"} ELSE {})>>)
  /\ UNCHANGED <<currLayer, subs, vols, args, env, currDir, currUid>>

VolumeNames == <<"VOL1", "VOL2", "VOL3", "VOL4", "VOL5">>

ConvertVolume(c) ==
  /\ c.cmd = "volume"
  /\ vols' = vols + 1
  /\ subs' = Set(subs, VolumeNames[vols'], c.val)
  /\ InLayer(c, <<Put("binds", None, <<Ref("double", VolumeNames[vols'])>>, {})>>)
  /\ UNCHANGED <<currLayer, args, env, currDir, currUid>>

ConvertUser(c) ==
  /\ c.cmd = "user" /\ Converting(c)
  /\ currUid' = c.key
  /\ UNCHANGED <<phase, output, currLayer, subs, vols, args, env, currDir>>

ConvertWorkdir(c) ==
  /\ c.cmd = "workdir"
  /\ currDir' = c.key
  /\ InLayer(c, <<Put("cd", c.key, <<>>, {})>>)
  /\ UNCHANGED <<currLayer, subs, vols, args, env, currUid>>

\* CMD, ENTRYPOINT, LABEL: the last one counts.
ConvertConfig(c) ==
  /\ c.cmd = "config"
  /\ InLayer(c, <<Put("config", c.key, c.val, {})>>)
  /\ UNCHANGED <<currLayer, subs, vols, args, env, currDir, currUid>>

ConvertExpose(c) ==
  /\ c.cmd = "expose" /\ Converting(c)
  /\ UNCHANGED <<phase, convVars>>

\* Any other command, or one with arguments that are not understood.
ConvertUnknown(c) ==
  /\ c.cmd = "unknown" /\ Converting(c)
  /\ phase' = "error"
  /\ UNCHANGED convVars

convertCommand(c) ==
  \/ ConvertFrom(c) \/ ConvertRun(c) \/ ConvertEnv(c) \/ ConvertArg(c)
  \/ ConvertCopy(c) \/ ConvertVolume(c) \/ ConvertUser(c) \/ ConvertWorkdir(c)
  \/ ConvertConfig(c) \/ ConvertExpose(c) \/ ConvertUnknown(c)

\* The end of parseFile.  If the stackerfile cannot be written, convert says
\* nothing and writes no substitutions either.
WriteFiles ==
  /\ phase = "convert" /\ docker # <<>>
  /\ \/ phase' = "start"
     \/ "output" \in Faults /\ phase' = "lost"
     \/ "subs" \in Faults /\ DOMAIN subs # {} /\ phase' = "error"
  /\ UNCHANGED <<docker, convVars, readVars>>

-----------------------------------------------------------------------------
(* build and publish *)

\* substitute starts on the file with this list.
StartReading(list) == text' = output /\ todo' = list /\ bad' = FALSE

\* Where in the list there is something left to do.
Left == {i \in DOMAIN todo : todo[i] # {}}

BuildStarts ==
  /\ phase = "start"
  /\ phase' = "build"
  /\ StartReading(BuilderSubs(opts.cli, subs))
  /\ UNCHANGED <<docker, convVars, opts, built, reread, dummies, published>>

\* One substitution.
Substitute ==
  /\ phase \in {"build", "publish"}
  /\ \E i \in Left : \E s \in todo[i] :
       /\ \A j \in Left : i <= j
       /\ todo' = [todo EXCEPT ![i] = @ \ {s}]
       /\ text' = Replaced(text, s)
       /\ bad' = (bad \/ Unsupported(text, s.key))
  /\ UNCHANGED <<phase, docker, convVars, opts, built, reread, dummies, published>>

\* What publish substitutes: with the file or without, and its own additions.
PublishList(withFile, names) ==
  (IF withFile THEN PublisherSubs(opts.cli, subs) ELSE OneByOne(opts.cli))
    \o <<{Sub(v, <<Text("dummy")>>) : v \in names}>>

BuildReads ==
  /\ phase = "build" /\ Left = {}
  /\ built' = ReadResult(text, bad, opts.hash)
  /\ phase' = "publish"
  /\ reread' \in BOOLEAN
  /\ StartReading(PublishList(reread', {}))
  /\ UNCHANGED <<docker, convVars, opts, dummies, published>>

\* Mutant of PublishRetry: the new list is dropped.
PublishRetryForgets(v) ==
  /\ StartReading(PublishList(reread, dummies))
  /\ UNCHANGED dummies

\* readStackerFiles calls itself with a value for a name that had none.
PublishRetry(v) ==
  /\ dummies' = dummies \union {v}
  /\ StartReading(PublishList(reread, dummies'))

\* The end of an attempt; hashes are not required.
PublishReads ==
  /\ phase = "publish" /\ Left = {}
  /\ LET r == ReadResult(text, bad, FALSE)
     IN \/ /\ r.status = "missing" /\ \E v \in r.missing : PublishRetry(v)
           /\ UNCHANGED <<phase, published>>
        \/ /\ r.status # "missing" /\ published' = r /\ phase' = "end"
           /\ UNCHANGED <<text, todo, bad, dummies>>
  /\ UNCHANGED <<docker, convVars, opts, built, reread>>

Next ==
  \/ \E c \in Commands : convertCommand(c)
  \/ WriteFiles \/ BuildStarts \/ Substitute \/ BuildReads \/ PublishReads

\* Publish is one process that runs until it has read the files.
Spec == Init /\ [][Next]_vars /\ WF_vars(Substitute \/ PublishReads)

-----------------------------------------------------------------------------
(* What is done to build a stage of a Dockerfile or a layer of a            *)
(* stackerfile: on which base, in which order files are copied (from which   *)
(* stage) and commands are run (by which user, in which directory, with      *)
(* which values for their variables), and the CMD, ENTRYPOINT and LABEL.     *)

Value(line, vals) ==
  MapTokens(LAMBDA tok : CASE tok.form = "text" -> <<tok.name>>
                           [] tok.form = "paren" -> <<"a command's output">>
                           [] tok.name \in DOMAIN vals -> vals[tok.name]
                           [] OTHER -> <<>>, line)

Stage(name, base) ==
  [name |-> name, base |-> base, vals |-> Empty, dir |-> "", user |-> "",
   steps |-> <<>>, config |-> Empty]

CopyStep(from) == <<"copy", from>>
RunStep(user, dir, line) == <<"run", user, dir, line>>

\* A layer of a stackerfile, whose commands are one shell script.
LayerStep(l, e) ==
  CASE e.field = "from" -> [l EXCEPT !.base = Value(e.val, Empty)]
    [] e.field = "export" -> [l EXCEPT !.vals = Set(@, e.key, Value(e.val, @))]
    [] e.field = "cd" -> [l EXCEPT !.dir = e.key]
    [] e.field = "run" ->
         [l EXCEPT !.steps = Append(@, RunStep(e.key, l.dir, Value(e.val, l.vals)))]
    [] e.field = "imports" -> [l EXCEPT !.steps = Append(@, CopyStep(e.key))]
    [] e.field = "binds" -> l
    [] e.field = "config" -> [l EXCEPT !.config = Set(@, e.key, Value(e.val, Empty))]

\* The imports of a layer are all there before its script starts.
LayerMeaning(file, name) ==
  LET own == SelectSeq(file, LAMBDA e : e.layer = name)
      entries == SelectSeq(own, LAMBDA e : e.field = "imports")
                   \o SelectSeq(own, LAMBDA e : e.field # "imports")
      after[i \in 0..Len(entries)] ==
        IF i = 0 THEN Stage(Value(name, Empty), <<>>)
        ELSE LET before == after[i - 1] IN LayerStep(before, entries[i])
  IN after[Len(entries)]

\* The value of an ARG: what the user gives, or else the default.
ArgValue(c) ==
  LET i == SelectInSeq(opts.cli, LAMBDA s : s.key = c.key)
  IN IF i # 0 THEN Value(opts.cli[i].to, Empty) ELSE Value(c.val, Empty)

\* A Dockerfile's stages; an ARG before the first FROM is not seen in them.
DockerStep(stages, c) ==
  IF c.cmd = "from"
  THEN Append(stages, Stage(<<IF c.key = None THEN "app" ELSE c.key>>,
                            Value(c.val, Empty)))
  ELSE IF stages = <<>> THEN stages
  ELSE LET s == Last(stages)
           t == CASE c.cmd = "arg" -> [s EXCEPT !.vals = Set(@, c.key, ArgValue(c))]
                  [] c.cmd = "env" -> [s EXCEPT !.vals = Set(@, c.key, Value(c.val, @))]
                  [] c.cmd = "run" ->
                       [s EXCEPT !.steps = Append(@, RunStep(s.user, s.dir, Value(c.val, s.vals)))]
                  [] c.cmd = "copy" -> [s EXCEPT !.steps = Append(@, CopyStep(c.key))]
                  [] c.cmd = "user" -> [s EXCEPT !.user = c.key]
                  [] c.cmd = "workdir" -> [s EXCEPT !.dir = c.key]
                  [] c.cmd = "config" -> [s EXCEPT !.config = Set(@, c.key, Value(c.val, Empty))]
                  [] OTHER -> s
       IN Append(Front(stages), t)

\* What the two are compared by.  The environment, the user and the directory
\* matter to the commands that are run with them, and no further: convert writes
\* none of them into the layer's image configuration, where a Dockerfile has them.
Done(s) == [name |-> s.name, base |-> s.base, steps |-> s.steps, config |-> s.config]

DockerDone ==
  LET after[i \in 0..Len(docker)] ==
        IF i = 0 THEN <<>> ELSE LET before == after[i - 1] IN DockerStep(before, docker[i])
  IN {Done(s) : s \in ToSet(after[Len(docker)])}

ConvertedDone == {Done(LayerMeaning(built.file, n)) : n \in Layers(built.file)}

-----------------------------------------------------------------------------
(* The Dockerfiles that convert is made for *)

At(kinds) == {i \in DOMAIN docker : docker[i].cmd \in kinds}
NamesOf(kind) == {docker[i].key : i \in At({kind})}
StageOf(i) == Cardinality({j \in At({"from"}) : j <= i})
Given == Keys(opts.cli) \union DOMAIN subs
Literal(line) == \A tok \in Tokens(line) : tok.form = "text"
Mentions(line) == {tok \in Tokens(line) : tok.form # "text"}

\* v is set by such a command before i, in the same stage.
SetBefore(kind, v, i) ==
  \E j \in At({kind}) : j < i /\ docker[j].key = v /\ StageOf(j) = StageOf(i)

\* Bases are literal and names differ.
PlainStages ==
  /\ \A i \in At({"from"}) : Literal(docker[i].val) /\ docker[i].key # "app"
  /\ \A i, j \in At({"from"}) : docker[i].key = docker[j].key => i = j

\* Each ARG is declared once and has a literal value; no ENV has its name, and
\* the user gives values to nothing else.
PlainArgs ==
  /\ \A i \in At({"arg"}) :
       /\ docker[i].key \in Given
       /\ docker[i].val # None => Literal(docker[i].val)
       /\ \A j \in At({"arg"}) : docker[i].key = docker[j].key => i = j
  /\ (NamesOf("arg") \union Keys(opts.cli)) \intersect NamesOf("env") = {}

\* A line has one ARG in one form, of its own stage; variables of its own stage,
\* if it is a RUN; none whose name begins with that of an ARG.
PlainLines ==
  \A i \in At({"run", "env"}) :
    LET refs == Mentions(docker[i].val)
        toArgs == {tok \in refs : tok.name \in Given}
    IN /\ Cardinality(toArgs) <= 1
       /\ \A tok \in toArgs : tok.form # "paren" /\ SetBefore("arg", tok.name, i)
       /\ \A tok \in refs : \A v \in Given : IsBare(tok, v) => tok.name = v
       /\ \A tok \in refs : tok.name \in NamesOf("env") =>
            docker[i].cmd = "run" /\ SetBefore("env", tok.name, i)

\* A relative destination needs a working directory; a stage copies before it
\* runs anything, since its layer will.
PlainCopies ==
  \A i \in At({"copy"}) :
    /\ docker[i].val => \E j \in At({"workdir"}) : j < i /\ StageOf(j) = StageOf(i)
    /\ \A j \in At({"run"}) : j < i => StageOf(j) # StageOf(i)

\* A VOLUME becomes a directory of the host that is bound while the layer is
\* built, which no Dockerfile asks for.
NoVolumes == At({"volume"}) = {}

Plain == PlainStages /\ PlainArgs /\ PlainLines /\ PlainCopies /\ NoVolumes

-----------------------------------------------------------------------------
(* Properties *)

\* Every variable has its type; a stackerfile has no entries outside a layer,
\* and publish never ends with a variable that has no value.
TypeOK ==
  /\ phase \in {"convert", "panic", "error", "lost", "start", "build", "publish", "end"}
  /\ Len(docker) <= MaxCommands /\ vols <= Len(docker)
  /\ ToSet(args) \subseteq NamesOf("arg") /\ DOMAIN env \subseteq NamesOf("env")
  /\ phase = "convert" => (currLayer = <<>>) = (output = <<>>)
  /\ \A r \in {built, published} :
       /\ r.status \in {"none", "ok", "unsupported", "missing", "invalid"}
       /\ (r.status = "missing") = (r.missing # {})
  /\ published.status # "missing"


\* NewStackerfile's check: no reference to a variable that has a value is left
\* in a file that was read, in any of the forms that are not replaced.
NoReferenceLeft ==
  built.status = "ok" =>
    \A tok \in Content(built.file) :
      /\ tok.form # "double"
      /\ \A v \in Given : ~IsBare(tok, v) /\ ~(tok.form = "brace" /\ tok.name = v)

\* publish looks every layer up in the cache by its definition: with the same
\* options it reads the file that was built, though it orders the substitutions
\* its own way, unless one in the substitution file refers to another.  (Nor
\* may a value of the command line have a reference with a default to another
\* name of the command line: no option of an instance has one.)
PublishReadsWhatWasBuilt ==
  phase = "end" /\ reread /\ built.status = "ok" /\ published.status # "none"
  /\ (\A v \in DOMAIN subs : \A tok \in Tokens(subs[v]) : tok.form # "double")
    => published = built

\* readStackerFiles calls itself until every variable has a value, and that ends
\* for names that a regular expression can match.
PublishReadEnds ==
  (phase = "publish" /\ \A tok \in Content(output) : tok.name \notin OddNames)
    ~> (phase = "end")
=============================================================================
