----------------------------- MODULE LayerStore -----------------------------
(***************************************************************************)
(* What overlay.Unpack promises its caller: the layers of an image are     *)
(* made available one by one, each either fully or not at all, no layer    *)
(* that is available ever goes away, and success is reported only when all *)
(* layers of the image are there.                                          *)
(***************************************************************************)
CONSTANTS Digests, Images, LayersOf(_)

VARIABLES
  extracted,  \* the digests whose whole content is in the roots dir
  image,      \* the image being unpacked
  result      \* "none", "running", or how the last Unpack ended

vars == <<extracted, image, result>>

Init == extracted = {} /\ image \in Images /\ result = "none"

Begin ==
  /\ result # "running"
  /\ result' = "running"
  /\ image' \in Images
  /\ UNCHANGED extracted

Populate ==
  /\ result = "running"
  /\ \E d \in LayersOf(image) \ extracted : extracted' = extracted \union {d}
  /\ UNCHANGED <<image, result>>

Succeed ==
  /\ result = "running"
  /\ LayersOf(image) \subseteq extracted
  /\ result' = "ok"
  /\ UNCHANGED <<extracted, image>>

Fail ==
  /\ result = "running"
  /\ result' \in {"err", "killed"}
  /\ UNCHANGED <<extracted, image>>

Next == Begin \/ Populate \/ Succeed \/ Fail

Spec == Init /\ [][Next]_vars
=============================================================================
