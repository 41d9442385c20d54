-------------------------- MODULE MCStorageBlocks --------------------------
(* Instances of StorageBlocks for TLC. *)
EXTENDS StorageBlocks

CONSTANTS b1, b2, b3, b4

\* Three blob blocks share a storage block of BLOCKSIZE 3; b4 fills one by itself.
MCSize == [b \in BlobBlocks |-> IF b = b4 THEN 3 ELSE 1]

\* The steps of the behaviours in which no combination and no collection overlaps a
\* request that stores: those most theorems of StorageBlocksProofs are about.
StaysApart == Apart'

=============================================================================
