------------------------- MODULE MCEncryptionKeys --------------------------
(* Instances of EncryptionKeys for TLC. *)
EXTENDS EncryptionKeys, TLC

\* Fetchers and keys are interchangeable.
Interchangeable == Permutations(Fetchers) \cup Permutations(Keys)

=============================================================================
