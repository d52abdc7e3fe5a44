--------------------------- MODULE MCOverlayUnpack ---------------------------
(***************************************************************************)
(* Instances of OverlayUnpack: two images that share a layer, one of which *)
(* lists a digest twice. The channel just holds the distinct digests, or   *)
(* just holds the longer list.                                             *)
(***************************************************************************)
EXTENDS OverlayUnpack, TLC

CONSTANTS a, b, c

MCImages == {<<a, b, a>>, <<b, c>>}

TarAndFs == (a :> "tar") @@ (b :> "tar") @@ (c :> "fs")
\* c has a media type without an extractor.
AllMedia == (a :> "tar") @@ (b :> "fs") @@ (c :> "unknown")
=============================================================================
