-------------------------- MODULE MCStackerPublish --------------------------
(***************************************************************************)
(* Instances of StackerPublish: an image on a build-only base.             *)
(***************************************************************************)
EXTENDS StackerPublish, TLC

CONSTANTS base, app

PairOrder == <<base, app>>
PairFrom == (base :> None) @@ (app :> base)

AnyTypes == {{"tar"}, {"tar", "squashfs"}}
Tar == {{"tar"}}
AllOrBase == {{}, {base}}
=============================================================================
