------------------------------ MODULE MCLoader ------------------------------
(***************************************************************************)
(* Instances of Loader: the debugger may fail or be killed at every step.  *)
(***************************************************************************)
EXTENDS Loader

AnyStep == Steps \cup {"fork"}
=============================================================================
