---------------------------- MODULE MCDownloads ----------------------------
(* An instance of Downloads for TLC. *)
EXTENDS Downloads

CONSTANTS p, q, x, r1, r2

\* Blob 1 is two blob blocks, blob 2 the one that arrives.
MCParts == << <<p, q>>, <<x>> >>
MCSize == [b \in {p, q, x} |-> IF b = p THEN 2 ELSE 1]
MCResidual == <<p, q>>
MCRanges == {<<1, Open>>, <<1, 1>>}

=============================================================================
