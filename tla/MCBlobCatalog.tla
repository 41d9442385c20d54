--------------------------- MODULE MCBlobCatalog ---------------------------
(* Instances of BlobCatalog for TLC. *)
EXTENDS BlobCatalog

CONSTANTS x, y, short, long

\* Two blobs share their first blob block.
MCParts == [c \in Contents |-> IF c = short THEN <<x>> ELSE <<x, y>>]

=============================================================================
