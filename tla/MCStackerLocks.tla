--------------------------- MODULE MCStackerLocks ---------------------------
(***************************************************************************)
(* Small instances of StackerLocks: who runs which command on which pair   *)
(* of directories.  Each cfg file picks one definition per constant.       *)
(***************************************************************************)
EXTENDS StackerLocks, TLC

CONSTANTS p1, p2, p3, p4, s1, s2, r1, r2

InodeSymmetry == Permutations(Inodes)

\* Everyone uses one roots dir, p1 and p2 one stacker dir and the rest another.
OneRDir == [p \in Procs |-> r1]
TwoSDirs == [p \in Procs |-> IF p \in {p1, p2} THEN s1 ELSE s2]
\* p1 and p2 share only the stacker dir, p1 and p3 only the roots dir.
CrossedSDir == (p1 :> s1) @@ (p2 :> s1) @@ (p3 :> s2)
CrossedRDir == (p1 :> r1) @@ (p2 :> r2) @@ (p3 :> r1)

AllOverlay == [p \in Procs |-> "overlay"]
P4Other == [p \in Procs |-> IF p = p4 THEN "other" ELSE "overlay"]

GrabCmd == (p1 :> "build") @@ (p2 :> "build") @@ (p3 :> "grab")
CleanNoCacheCmd == (p1 :> "clean") @@ (p2 :> "build") @@ (p3 :> "nocache") @@
                   (p4 :> "build")

Once == [p \in Procs |-> 1]
Twice == [p \in Procs |-> 2]
=============================================================================
