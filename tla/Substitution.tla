---------------------------- MODULE Substitution ----------------------------
(***************************************************************************)
(* How a stackerfile is read: substitute and NewStackerfile                *)
(* (pkg/types/stackerfile.go), parseLayers and the unmarshalling of        *)
(* imports (pkg/types/layer.go).                                           *)
(*                                                                         *)
(* A line is a sequence of tokens: text, or a reference to a variable in   *)
(* one of the forms  $V  ${V}  $(V)  ${{V}},  the last with a default or   *)
(* without.  A file is a sequence of entries: one line (a base image, a    *)
(* command, an import, a bind) under a field of a layer, whose name is a   *)
(* line too.                                                               *)
(***************************************************************************)
EXTENDS Naturals, Sequences, FiniteSets, SequencesExt

CONSTANTS
  NamePrefixes,  \* the pairs of names of which one begins with the other
  OddNames,      \* names with "=" or characters that regular expressions interpret
  None

ASSUME SubstitutionAssumption == \A p \in NamePrefixes : p[1] # p[2]

-----------------------------------------------------------------------------
(* Tokens, lines, entries *)

Text(t) == [form |-> "text", name |-> t, default |-> None]
Ref(form, v) == [form |-> form, name |-> v, default |-> None]
RefOr(v, t) == [form |-> "double", name |-> v, default |-> t]

Entry(layer, field, key, val, flags) ==
  [layer |-> layer, field |-> field, key |-> key, val |-> val, flags |-> flags]

Tokens(line) == {line[i] : i \in DOMAIN line}

\* What lines and files are, for the assumptions about those that are given.
IsLine(line) == line \in Seq(Tokens(line))

IsFile(file) ==
  /\ file \in Seq(ToSet(file))
  /\ \A e \in ToSet(file) :
       /\ e = Entry(e.layer, e.field, e.key, e.val, e.flags)
       /\ IsLine(e.layer) /\ IsLine(e.val)

\* All the tokens of a file.
Content(file) ==
  UNION {Tokens(file[i].layer) \union Tokens(file[i].val) : i \in DOMAIN file}

\* A line with each token replaced by a line.
MapTokens(F(_), line) == FlattenSeq([i \in DOMAIN line |-> F(line[i])])

MapFile(F(_), file) ==
  [i \in DOMAIN file |-> [file[i] EXCEPT !.layer = MapTokens(F, @),
                                         !.val = MapTokens(F, @)]]

\* The text $V is there: as a reference to V, or as the start of a longer name.
IsBare(tok, v) ==
  tok.form = "bare" /\ (tok.name = v \/ <<v, tok.name>> \in NamePrefixes)

-----------------------------------------------------------------------------
(* substitute *)

Sub(v, line) == [key |-> v, to |-> line]

\* Mutant of Unsupported: only ${V} is refused.
UnsupportedBrace(file, v) ==
  \E tok \in Content(file) : tok.form = "brace" /\ tok.name = v

\* A form that is not replaced, of a name for which there is a value.
Unsupported(file, v) ==
  \E tok \in Content(file) : IsBare(tok, v) \/ (tok.form = "brace" /\ tok.name = v)

\* The value as ReplaceAllString inserts it: $V and ${V} in it are taken for
\* groups of the regular expression, of which there is none by that name.
Expanded(line) ==
  MapTokens(LAMBDA tok : IF tok.form \in {"bare", "brace"} THEN <<>> ELSE <<tok>>, line)

\* The name goes into a regular expression as it is, up to the first "=".
Replaced(file, s) ==
  MapFile(LAMBDA tok : IF tok.form = "double" /\ tok.name = s.key
                            /\ s.key \notin OddNames
                       THEN Expanded(s.to) ELSE <<tok>>, file)

\* The names that still need a value.
Missing(file) ==
  {tok.name : tok \in {t \in Content(file) : t.form = "double" /\ t.default = None}}

WithDefaults(file) ==
  MapFile(LAMBDA tok : <<IF tok.form = "double" THEN Text(tok.default) ELSE tok>>,
          file)

-----------------------------------------------------------------------------
(* parseLayers, the imports, and the layers' names *)

Layers(file) == {file[i].layer : i \in DOMAIN file}

Imports(file, field) ==
  {file[i] : i \in {j \in DOMAIN file : file[j].field = field}}

\* Two "from" entries of one name are two layers that became one by substitution.
DuplicateName(file) ==
  \E i, j \in DOMAIN file :
    /\ i # j /\ file[i].layer = file[j].layer
    /\ file[i].field = "from" /\ file[j].field = "from"

RelativeDest(file) ==
  \E e \in Imports(file, "imports") \union Imports(file, "import") :
    "relative" \in e.flags

\* The deprecated "import" is not looked at: it is taken over afterwards.
RemoteWithoutHash(file) ==
  \E e \in Imports(file, "imports") : "remote" \in e.flags /\ "hash" \notin e.flags

\* The last disjunct: a layer with "import" and "imports".
ParseError(file, requireHash) ==
  \/ DuplicateName(file)
  \/ RelativeDest(file)
  \/ requireHash /\ RemoteWithoutHash(file)
  \/ \E e \in Imports(file, "imports"), f \in Imports(file, "import") :
       e.layer = f.layer

\* The deprecated "import" becomes "imports".
Parsed(file) ==
  [i \in DOMAIN file |-> IF file[i].field = "import"
                         THEN [file[i] EXCEPT !.field = "imports",
                                              !.flags = @ \union {"legacy"}]
                         ELSE file[i]]

\* The end of NewStackerfile: the file that is used, or why there is none.
ReadResult(file, bad, requireHash) ==
  LET full == WithDefaults(file)
      failure(why) == [status |-> why, file |-> <<>>, missing |-> {}]
  IN IF bad THEN failure("unsupported")
     ELSE IF Missing(file) # {}
          THEN [failure("missing") EXCEPT !.missing = Missing(file)]
     ELSE IF ParseError(full, requireHash) THEN failure("invalid")
     ELSE [status |-> "ok", file |-> Parsed(full), missing |-> {}]

-----------------------------------------------------------------------------
(* The list of substitutions, as a sequence of sets: those of the command line *)
(* one by one, then those of a file in the order of an iteration over a map.   *)

OneByOne(cli) == [i \in DOMAIN cli |-> {cli[i]}]
Keys(cli) == {cli[i].key : i \in DOMAIN cli}
Values(f) == {Sub(v, f[v]) : v \in DOMAIN f}

\* NewBuilder: what the command line gives is left out.
BuilderSubs(cli, f) ==
  OneByOne(cli) \o <<{s \in Values(f) : s.key \notin Keys(cli)}>>

\* Mutant of PublisherSubs: the file comes first.
PublisherSubsFileFirst(cli, f) == <<Values(f)>> \o OneByOne(cli)

\* NewPublisher: the same without the check.
PublisherSubs(cli, f) == OneByOne(cli) \o <<Values(f)>>
=============================================================================
