---------------------------- MODULE MCBuildOrder ----------------------------
(* Stackerfiles for the runs of BuildOrder. *)
EXTENDS BuildOrder, TLC

CONSTANTS f1, f2, f3, f4,      \* stackerfiles
          a, b, c, d, e, g,    \* layers
          none, colon,         \* one without a base, one with a colon in its name
          ghost                \* a name that no file defines

\* f3 needs f1 and f2, and f2 needs f1; f2 is named on the command line too,
\* and so is f4, which nobody needs. A layer may be defined twice, in a
\* prerequisite or elsewhere, or have an unusable definition.
ThreePaths == <<f3, f2, f4>>
Diamond == f1 :> <<>> @@ f2 :> <<f1>> @@ f3 :> <<f2, f1>> @@ f4 :> <<>>
DiamondOrders ==
  {f1 :> <<a>> @@ f2 :> <<b>> @@ f3 :> o[1] @@ f4 :> o[2] :
     o \in {<<<<c, d, e>>, <<g>>>>, <<<<c, a>>, <<g>>>>, <<<<c, d>>, <<c>>>>,
            <<<<d, none>>, <<e>>>>, <<<<colon, d>>, <<e>>>>}}

\* Bases in the same file, before and after the layer, in a prerequisite, in a
\* file that is none, and nowhere; and imports besides.
SomeBases ==
  {ma @@ mb @@ mc @@ md @@ me @@ [l \in Layers |-> None] :
     ma \in [{a} -> {None, b}], mb \in [{b} -> {None, a, c}],
     mc \in [{c} -> {None, a, b, d, ghost}], md \in [{d} -> {None, b, c, e}],
     me \in [{e} -> {None, c}]}
SomeImports == {[l \in Layers |-> IF l = c THEN S ELSE {}] : S \in {{}, {a}, {e}}}

\* f2 needs f1; f1 and f2 need each other.
PairPath == <<f2>>
Pair == f1 :> <<>> @@ f2 :> <<f1>>
Loop == f1 :> <<f2>> @@ f2 :> <<f1>>
PairOrder == {f1 :> <<a>> @@ f2 :> <<b>>}
PairBases == {[l \in Layers |-> IF l = b THEN a ELSE None]}
NoImport == {[l \in Layers |-> {}]}
=============================================================================
