--------------------------- MODULE MCStackerBuild ---------------------------
(* Stackerfiles for the runs of StackerBuild. *)
EXTENDS StackerBuild, TLC

CONSTANTS base, tool, side, app   \* names of layers
CONSTANTS focal, jammy, rootfs    \* two tags of one image name, and a tarball

Scratch == [n \in Layers |-> [v \in Versions |-> None]]
NoTags == [i \in {} |-> None]
\* The base moves from one tag of an image to another, or to a tarball.
BaseOn(first, second) ==
  [n \in Layers |-> [v \in Versions |->
     IF n # base THEN None ELSE IF v = 1 THEN first ELSE second]]
FocalToJammy == BaseOn(focal, jammy)
FocalToTarball == BaseOn(focal, rootfs)
\* ParseTag drops the registry and the tag.
UbuntuTags == focal :> "ubuntu" @@ jammy :> "ubuntu"
MixedTags == focal :> "ubuntu" @@ rootfs :> "rootfs.tar"

Tar == {<<"tar">>}
Squashfs == {<<"squashfs">>}
Both == {<<"tar", "squashfs">>}
Switch == {<<"tar">>, <<"squashfs">>}

\* Two build-only layers between a base and an image.
LongOrder == <<base, tool, side, app>>
LongFrom == base :> None @@ tool :> base @@ side :> tool @@ app :> side

\* Two images on one build-only base.
FanOrder == <<base, side, app>>
FanFrom == base :> None @@ side :> base @@ app :> base
NoImports == [n \in Layers |-> "none"]
SideDest == [n \in Layers |-> IF n = side THEN "dest" ELSE "none"]

\* The same on a base of its own, which takes files from the host.
ForkOrder == <<base, tool, side, app>>
ForkFrom == base :> None @@ tool :> base @@ side :> tool @@ app :> tool
ForkInputs == base :> "overlay" @@ tool :> "plain" @@ side :> "none" @@ app :> "none"

\* As above, with a build-only layer between the base and the second image.
TowerOrder == <<base, tool, side, app>>
TowerFrom == base :> None @@ tool :> base @@ side :> base @@ app :> tool

\* Two bases with one name in layer-bases, and an image on the first.
ClashOrder == <<base, side, app>>
ClashFrom == base :> None @@ side :> None @@ app :> base
ClashImage ==
  [n \in Layers |-> [v \in Versions |->
     IF n = base THEN focal ELSE IF n = side THEN jammy ELSE None]]

\* One image on a base.
PairOrder == <<base, app>>
PairFrom == base :> None @@ app :> base
PairInputs == base :> "none" @@ app :> "plain"
AppDest == base :> "none" @@ app :> "dest"
AppOverlay == base :> "none" @@ app :> "overlay"
=============================================================================
