---------------------------- MODULE MCPermFlush ----------------------------
(***************************************************************************)
(* Five registers: cycles of every length up to five, and two at once.     *)
(***************************************************************************)
EXTENDS PermFlush
=============================================================================
