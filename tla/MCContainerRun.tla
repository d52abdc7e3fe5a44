--------------------------- MODULE MCContainerRun ---------------------------
(***************************************************************************)
(* Instances of ContainerRun: every kind of command.                       *)
(***************************************************************************)
EXTENDS ContainerRun

AllScripts ==
  {GrabCommand(FALSE, FALSE), GrabCommand(TRUE, TRUE), ChrootCommand(TRUE),
   ChrootCommand(FALSE), BuildLayer(TRUE, "run", TRUE),
   BuildLayer(FALSE, "runOrShell", FALSE), BuildLayer(FALSE, "runLegacy", FALSE)}
=============================================================================
