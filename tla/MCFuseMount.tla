---------------------------- MODULE MCFuseMount ----------------------------
(* An instance of FuseMount for TLC. *)
EXTENDS FuseMount, TLC

CONSTANTS alice, player, m1, home, away

\* A player and a mount that act for one user.
MCUserOf == [c \in Clients |-> alice]

\* No address is different from the others.
AddressSymmetry == Permutations(Addresses)

=============================================================================
