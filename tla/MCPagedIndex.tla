---------------------------- MODULE MCPagedIndex ----------------------------
(* The instance of PagedIndex for TLC. *)
EXTENDS PagedIndex
=============================================================================
