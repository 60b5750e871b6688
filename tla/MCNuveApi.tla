----------------------------- MODULE MCNuveApi -----------------------------
(* The instances of NuveApi that TLC checks.                               *)
EXTENDS NuveApi
=============================================================================
