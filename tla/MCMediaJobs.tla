---------------------------- MODULE MCMediaJobs ----------------------------
(* An instance of MediaJobs for TLC. *)
EXTENDS MediaJobs, TLC

CONSTANTS f1, f2, f3, c1, c2, t1, t2, osm, photo1, video1, thumb, first, second, tiles, preview, stream1, stream2

\* Two files of a container and one of another one.
MCContainerOf == [f \in Files |-> IF f = f3 THEN c2 ELSE c1]
MCInitialPath == [f \in Files |-> IF f = f1 THEN <<"d", "a">> ELSE <<"b">>]

Edit(f, path, tags, osmId) == [file |-> f, path |-> path, tags |-> tags, osmId |-> osmId]
MCEdits ==
    { Edit(f1, <<"d", "e">>, <<t1>>, osm),    \* a new path, a tag and a place
      Edit(f1, <<"b">>, Shown, Shown),        \* the path of another file
      Edit(f3, Shown, <<t1>>, "nowhere") }    \* a tag of the other container, an unknown place

MCRevisionOf == [b \in Blobs |-> IF b = photo1 THEN f1 ELSE f3]
MCMediaType == [b \in Blobs |-> IF b = photo1 THEN "image" ELSE "video"]
\* The video comes with a picture of its own.
MCVideoStreams == [b \in Blobs |-> IF b = photo1 THEN 1 ELSE 2]
MCPngStreams == [b \in Blobs |-> IF b = photo1 THEN 0 ELSE 1]
\* A second of video: its two pictures are those of the seconds 0 and 1.
MCDuration == [b \in Blobs |-> 1]
MCFrame == [b \in Blobs |-> [s \in 0..1 |-> IF b = photo1 THEN thumb
                                             ELSE IF s = 0 THEN first ELSE second]]
MCTiles == [b \in Blobs |-> tiles]
MCPreview == [b \in Blobs |-> preview]
MCStreamVersion == [b \in Blobs |-> IF b = photo1 THEN stream1 ELSE stream2]

\* Users do the same (used with invariants only).
AnyUser == Permutations(Requests)

=============================================================================
