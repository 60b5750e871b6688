------------------------------ MODULE MCWorker ------------------------------
(* The instances of Worker that TLC checks.                                *)
EXTENDS Worker
=============================================================================
