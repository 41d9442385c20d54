-------------------------- MODULE MCAccessCounters --------------------------
(* An instance of AccessCounters for TLC: blocks of two entries, years of two months. *)
EXTENDS AccessCounters
=============================================================================
