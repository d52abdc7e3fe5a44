---------------------------- MODULE MCImportFiles ----------------------------
(* Stackerfiles for the runs of ImportFiles. *)
EXTENDS ImportFiles, TLC

CONSTANTS bing, google, mirror, host, layer   \* sources
CONSTANTS icon, conf, pem, cert               \* names of files

\* Two URLs with the same last component and a third one; a file of the host
\* and one of another layer, of the same name.
Kinds == bing :> "http" @@ google :> "http" @@ mirror :> "http"
           @@ host :> "local" @@ layer :> "stacker"
Names == bing :> icon @@ google :> icon @@ mirror :> pem
           @@ host :> conf @@ layer :> conf

Named(s, h, u, d, n) == [path |-> s, hash |-> h, upper |-> u, dest |-> d, name |-> n]
Import(s, h, u, d) == Named(s, h, u, d, Names[s])

\* One import, without a dest.
OneOf(sources, hashes) == {<<Import(s, h, FALSE, FALSE)>> : s \in sources, h \in hashes}

\* No two downloads have the same size; or all files do.
DistinctSizes ==
  LET Sizes(n) == 1 :> n @@ 2 :> n + 1
  IN  bing :> Sizes(10) @@ google :> Sizes(20) @@ mirror :> Sizes(30)
        @@ host :> [v \in Versions |-> 40] @@ layer :> Sizes(50)
EqualSizes == [s \in Sources |-> [v \in Versions |-> 10]]

\* Nothing, one import or two, the third URL always with a dest, once with a name
\* of its own there.
MixedWants ==
  {<<>>, <<Import(layer, None, FALSE, FALSE)>>,
   <<Import(bing, None, FALSE, FALSE), Import(host, 1, TRUE, FALSE)>>,
   <<Import(google, 2, FALSE, FALSE)>>,
   <<Import(host, None, FALSE, FALSE), Named(mirror, 2, FALSE, TRUE, cert)>>,
   <<Import(mirror, None, FALSE, TRUE), Import(bing, 1, FALSE, FALSE)>>}

UnhashedWants == OneOf({bing, google}, {None})
BingWants == OneOf({bing}, {None, 1, 2})
LayerWants == OneOf({layer}, {None, 1, 2})
UpperWants == {<<Import(bing, 1, TRUE, FALSE)>>}
DestWants == {<<Import(host, None, FALSE, d)>> : d \in BOOLEAN}

\* A file of another name that goes where a dest of that name is asked for.
NamedWants == {<<Import(host, None, FALSE, FALSE)>>, <<Named(mirror, None, FALSE, TRUE, conf)>>}
=============================================================================
