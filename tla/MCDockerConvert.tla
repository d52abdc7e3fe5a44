-------------------------- MODULE MCDockerConvert --------------------------
(***************************************************************************)
(* Instances of DockerConvert: Dockerfiles of a few commands, and files    *)
(* written by hand with the forms convert never writes.                    *)
(***************************************************************************)
EXTENDS DockerConvert

BareA == Ref("bare", "A")
BraceA == Ref("brace", "A")
One == <<Text("1")>>

MCCommands ==
  {From(<<Text("img")>>, None), From(<<Text("img")>>, "s"),
   Arg("A", One), Arg("A", None), Env("A", One), Env("E", <<BraceA>>),
   Run(<<BraceA, Ref("bare", "E")>>), Run(<<BareA, Ref("bare", "AB")>>),
   Copy("s", TRUE), Volume("v"), User("u"), Workdir("d"),
   Config("cmd", "x"), Expose, Unknown}

L == <<Text("l")>>
Base == Entry(L, "from", None, <<Text("img")>>, {})
Import(field, flags) == Entry(L, field, "http", <<>>, flags)
File(entries, subsFile) == [file |-> <<Base>> \o entries, subs |-> subsFile]

\* Defaults, values that refer to values, names that are odd; imports that are
\* deprecated, without a hash, or of both kinds.
MCHandwritten ==
  {File(<<Entry(L, "run", "", <<RefOr("A", "d"), Ref("double", "B")>>, {})>>,
        [x \in {"A", "B"} |-> IF x = "A" THEN One ELSE <<Text("2")>>]),
   File(<<Entry(L, "run", "", <<Ref("double", "A"), Ref("double", "B")>>, {})>>,
        [x \in {"A", "B"} |-> IF x = "A" THEN <<Ref("double", "B")>> ELSE One]),
   File(<<Entry(L, "run", "", <<Ref("double", "A+"), RefOr("A", "d")>>, {})>>, Empty),
   File(<<Import("imports", {"remote"})>>, Empty),
   File(<<Import("import", {"remote"})>>, Empty),
   File(<<Import("import", {"remote"}), Import("imports", {"remote", "hash"})>>, Empty)}

MCOptions ==
  {[cli |-> <<>>, hash |-> TRUE],
   [cli |-> <<Sub("A", <<Text("2")>>)>>, hash |-> FALSE]}

MCPrefixes == {<<"A", "AB">>}
=============================================================================
