---------------------------- MODULE MCBlockFiles ----------------------------
(* An instance of BlockFiles for TLC. *)
EXTENDS BlockFiles

CONSTANTS job, request

=============================================================================
