-------------------------- MODULE MCUploadSessions --------------------------
(* An instance of UploadSessions for TLC. *)
EXTENDS UploadSessions

CONSTANTS u1, u2

\* Two chunks, the second one shorter; and one chunk that fills a block.
MCSize == [u \in Uploads |-> IF u = u1 THEN 3 ELSE 2]

=============================================================================
