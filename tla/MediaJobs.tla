----------------------------- MODULE MediaJobs -----------------------------
(***************************************************************************)
(* What the job worker computes of a blob: metadata, thumbnails, versions  *)
(* for streaming, and the location of photos, next to the requests of      *)
(* FileRecords.  One job at a time; a job that throws is not acknowledged, *)
(* the worker gets no other one, and after a restart the same job comes    *)
(* first again.                                                            *)
(*                                                                         *)
(* Storing and reading bytes is the matter of StorageBlocks and Downloads: *)
(* here they succeed.  Every run of a tool on a file writes the same bytes.*)
(***************************************************************************)
EXTENDS FileRecords

CONSTANTS
    Blobs, RevisionOf, \* the blobs uploaded as revisions, and of which file
    MediaType,      \* "image", "video", "audio" or "other"
    VideoStreams,   \* how many ffprobe finds, or NotMedia
    PngStreams,     \* how many of them are pictures
    HasGeolocation, \* the images that tell where they were taken, in a known place
    Duration,       \* seconds a video lasts
    SegmentsCount,  \* 9: pictures taken of a video
    Frame, Tiles, Preview,  \* Frame[b][second], and what is made of all: blobs
    StreamVersion,  \* the blob of its version for streaming, of one quality
    ChannelMax,     \* channels a connection can still open, for publishing
    MaxVersionRequests, MaxFaults   \* bounds

ASSUME BlobsAreFinite == IsFiniteSet(Blobs)
ASSUME VideosAreCut == SegmentsCount \in Nat \ {0}
ASSUME ChannelMaxIsNat == ChannelMax \in Nat

VARIABLES
    publishing, channels, queue,
    job, at,        \* the job of the worker, at most one, and how far it is
    blobs, revisions, metadata, versions,
    added,          \* thumbnails the job has added
    missing,        \* the first file its tools have not written, 0 if there is none
    toLocate,       \* files the job has still to locate
    asked,          \* versions users have asked for, in order
    failures, crashes,
    unsent          \* history: jobs lost for want of a channel

worker == <<job, at, added, missing, toLocate>>
tables == <<blobs, revisions, metadata, versions>>
faults == <<failures, crashes, unsent>>
vars == <<recordVars, publishing, channels, queue, worker, tables, asked, faults>>

NotMedia == -1
Job(type, b) == [type |-> type, blob |-> b, again |-> FALSE]
Current == job[1]
Pictures == {b \in Blobs : MediaType[b] \in {"image", "video"}}

Init ==
    /\ RecordsInit
    /\ publishing = <<>> /\ channels = 0
    /\ queue = SetToSeq({Job("upload", b) : b \in Blobs})
    /\ job = <<>> /\ at = "idle" /\ added = 0 /\ missing = 0 /\ toLocate = {}
    /\ blobs = {} /\ revisions = {} /\ metadata = {} /\ versions = {}
    /\ asked = <<>> /\ failures = 0 /\ crashes = 0 /\ unsent = {}

Goto(from, to) == at = from /\ at' = to

(***************************************************************************)
(* Publishing, each message on a channel of its own that is never closed;  *)
(* delivery.                                                               *)
(***************************************************************************)
\* Where no channel can be opened the callback throws, and the message is lost.
Publish(i) ==
    /\ i \in DOMAIN publishing
    /\ publishing' = RemoveAt(publishing, i)
    /\ IF channels < ChannelMax
       THEN /\ channels' = channels + 1 /\ queue' = Append(queue, publishing[i])
            /\ UNCHANGED unsent
       ELSE /\ unsent' = unsent \cup {publishing[i]}
            /\ UNCHANGED <<channels, queue>>
    /\ UNCHANGED <<recordVars, worker, tables, asked, failures, crashes>>

Deliver ==
    /\ queue # <<>>
    /\ Goto("idle", Head(queue).type)
    /\ job' = <<Head(queue)>> /\ queue' = Tail(queue)
    /\ added' = 0 /\ missing' = 0
    /\ UNCHANGED <<recordVars, publishing, channels, toLocate, tables, asked, faults>>

Acknowledge ==
    /\ Goto("ack", "idle")
    /\ job' = <<>> /\ added' = 0 /\ missing' = 0
    /\ UNCHANGED <<recordVars, publishing, channels, queue, toLocate, tables, asked, faults>>

(***************************************************************************)
(* UploadFileFromDisk, of a revision.                                      *)
(***************************************************************************)
FindOrCreateBlob ==
    /\ Goto("upload", IF Current.blob \in blobs THEN "reviseOld" ELSE "reviseNew")
    /\ blobs' = blobs \cup {Current.blob}
    /\ UNCHANGED <<recordVars, publishing, channels, queue, job, added, missing, toLocate,
                   revisions, metadata, versions, asked, faults>>

\* Mutant: a blob that was there is announced, too.
AddRevision_Announces ==
    /\ Goto("reviseNew", "announce") \/ Goto("reviseOld", "announce")
    /\ revisions' = revisions \cup {<<RevisionOf[Current.blob], Current.blob>>}
    /\ UNCHANGED <<recordVars, publishing, channels, queue, job, added, missing, toLocate,
                   blobs, metadata, versions, asked, faults>>

AddRevision ==
    /\ Goto("reviseNew", "announce") \/ Goto("reviseOld", "locate")
    /\ revisions' = revisions \cup {<<RevisionOf[Current.blob], Current.blob>>}
    /\ UNCHANGED <<recordVars, publishing, channels, queue, job, added, missing, toLocate,
                   blobs, metadata, versions, asked, faults>>

\* Mutant: only images get thumbnails.
OnNewFileBlobUploaded_Images ==
    /\ Goto("announce", "ack")
    /\ publishing' = IF MediaType[Current.blob] # "image" THEN publishing
                     ELSE Append(publishing, Job("thumbs", Current.blob))
    /\ UNCHANGED <<recordVars, channels, queue, job, added, missing, toLocate, tables, asked,
                   faults>>

OnNewFileBlobUploaded ==
    /\ Goto("announce", "ack")
    /\ publishing' = IF MediaType[Current.blob] = "other" THEN publishing
                     ELSE Append(publishing, Job("thumbs", Current.blob))
    /\ UNCHANGED <<recordVars, channels, queue, job, added, missing, toLocate, tables, asked,
                   faults>>

(***************************************************************************)
(* ThumbnailService.                                                       *)
(***************************************************************************)
\* An audio file, or one ffprobe makes nothing of, has none.
WithoutThumbs(b) == MediaType[b] = "audio" \/ VideoStreams[b] = NotMedia

\* Of several streams all but one have to be pictures.
ExtractVideoStream(b) ==
    VideoStreams[b] = 1 \/ (VideoStreams[b] > 1 /\ VideoStreams[b] - PngStreams[b] = 1)

\* A command is killed, or its output is cut where its process exits before it has been
\* read, and what is left cannot be parsed; or a lookup fails.  The job throws.
Fail ==
    /\ failures + crashes < MaxFaults
    /\ at \in {"thumbs", "exif", "locate", "pictures", "version"}
    /\ at = "pictures" => ~ WithoutThumbs(Current.blob)
    /\ at' = "failed" /\ failures' = failures + 1
    /\ UNCHANGED <<recordVars, publishing, channels, queue, job, added, missing, toLocate,
                   tables, asked, crashes, unsent>>

WriteMetaData(key) == metadata' = metadata \cup {<<Current.blob, key>>}

AnalyzeMediaFile ==
    /\ Goto("thumbs", IF MediaType[Current.blob] = "image" THEN "exif" ELSE "pictures")
    /\ IF VideoStreams[Current.blob] = NotMedia THEN UNCHANGED metadata ELSE WriteMetaData("av")
    /\ UNCHANGED <<recordVars, publishing, channels, queue, job, added, missing, toLocate,
                   blobs, revisions, versions, asked, faults>>

ExtractTags ==
    /\ Goto("exif", "locate")
    /\ WriteMetaData("img")
    /\ UNCHANGED <<recordVars, publishing, channels, queue, job, added, missing, toLocate,
                   blobs, revisions, versions, asked, faults>>

\* The rounded middles of the segments in their order, each once.
SplitIntoSegmentsByCount(b) ==
    LET middles == {((2 * i - 1) * Duration[b] + SegmentsCount) \div (2 * SegmentsCount) :
                      i \in 1..SegmentsCount}
    IN [i \in 1..Cardinality(middles) |->
          CHOOSE second \in middles : Cardinality({m \in middles : m < second}) = i - 1]

Thumbs(b) ==
    LET seconds == SplitIntoSegmentsByCount(b) IN
    IF MediaType[b] = "image" THEN <<Frame[b][0]>>
    ELSE [i \in DOMAIN seconds |-> Frame[b][seconds[i]]] \o <<Tiles[b], Preview[b]>>

\* Of a file without a video stream the thumbnail throws.  What a tool exits with is
\* not looked at, and it may have written nothing.
ComputeThumbs ==
    LET b == Current.blob IN
    /\ Goto("pictures", IF WithoutThumbs(b) THEN "ack"
                        ELSE IF ExtractVideoStream(b) THEN "add" ELSE "failed")
    /\ missing' \in IF at' = "add" THEN 0..Len(Thumbs(b)) ELSE {0}
    /\ UNCHANGED <<recordVars, publishing, channels, queue, job, added, toLocate, tables, asked,
                   faults>>

\* A file that is not there cannot be uploaded; a blob is a version of another one once.
AddVersion(version, then) ==
    LET pair == <<Current.blob, version>>
        there == missing' # added + 1
    IN /\ at' = IF there /\ pair \notin versions THEN then ELSE "failed"
       /\ versions' = IF there THEN versions \cup {pair} ELSE versions
       /\ blobs' = IF there THEN blobs \cup {version} ELSE blobs

AddThumb ==
    LET thumbs == Thumbs(Current.blob) IN
    /\ at = "add" /\ UNCHANGED missing
    /\ AddVersion(thumbs[added + 1], IF added + 1 = Len(thumbs) THEN "ack" ELSE "add")
    /\ added' = IF at' = "failed" THEN added ELSE added + 1
    /\ UNCHANGED <<recordVars, publishing, channels, queue, job, toLocate, revisions, metadata,
                   asked, faults>>

(***************************************************************************)
(* StreamingVersionService, and the request that asks for a version.       *)
(***************************************************************************)
\* The portal offers it for videos.
RequestFileVersionCreation(b) ==
    /\ MediaType[b] = "video"
    /\ <<RevisionOf[b], b>> \in revisions /\ Len(asked) < MaxVersionRequests
    /\ asked' = Append(asked, b)
    /\ publishing' = Append(publishing, Job("version", b))
    /\ UNCHANGED <<recordVars, channels, queue, worker, tables, faults>>

ComputeStreamingVersion ==
    /\ at = "version" /\ missing' \in 0..1
    /\ AddVersion(StreamVersion[Current.blob], "ack")
    /\ UNCHANGED <<recordVars, publishing, channels, queue, job, added, toLocate, revisions,
                   metadata, asked, faults>>

(***************************************************************************)
(* FileGeocodingService.                                                   *)
(***************************************************************************)
Located == IF Current.type = "upload" THEN "ack" ELSE "pictures"

\* Nothing may be recorded of the image, or nothing be known of where it was taken.
FetchTags ==
    LET b == Current.blob
        known == <<b, "img">> \in metadata /\ b \in HasGeolocation
    IN /\ Goto("locate", IF known THEN "check" ELSE Located)
       /\ toLocate' = IF known THEN {f \in Files : <<f, b>> \in revisions} ELSE {}
       /\ UNCHANGED <<recordVars, publishing, channels, queue, job, added, missing, tables,
                      asked, faults>>

CheckLocation(f) ==
    /\ at = "check" /\ f \in toLocate
    /\ toLocate' = toLocate \ {f}
    /\ QueryFileLocation(f)
    /\ at' = IF locating' = {} THEN "check" ELSE "unlocate"
    /\ UNCHANGED <<publishing, channels, queue, job, added, missing, tables, asked, faults>>

AllChecked ==
    /\ toLocate = {} /\ Goto("check", Located)
    /\ UNCHANGED <<recordVars, publishing, channels, queue, job, added, missing, toLocate,
                   tables, asked, faults>>

SetLocation ==
    /\ \E f \in locating :
          \/ Goto("unlocate", "relocate") /\ JobDeletesLocation(f)
          \/ Goto("relocate", "check") /\ location[f] = None /\ JobInsertsLocation(f)
          \/ Goto("relocate", "failed") /\ location[f] # None /\ UNCHANGED recordVars
    /\ UNCHANGED <<publishing, channels, queue, job, added, missing, toLocate, tables, asked,
                   faults>>

(***************************************************************************)
(* A crash while no request is served.                                     *)
(***************************************************************************)
Crash ==
    /\ failures + crashes < MaxFaults
    /\ \A q \in Requests : pc[q] \in {"idle", "editing", "saved", "failed"}
    /\ crashes' = crashes + 1
    /\ publishing' = <<>> /\ channels' = 0
    /\ queue' = [i \in DOMAIN job |-> [job[i] EXCEPT !.again = TRUE]] \o queue
    /\ job' = <<>> /\ at' = "idle" /\ added' = 0 /\ missing' = 0 /\ toLocate' = {} /\ locating' = {}
    /\ UNCHANGED <<records, requests, overlapped, saved, tables, asked, failures, unsent>>

Work ==
    \/ Deliver \/ Acknowledge
    \/ FindOrCreateBlob \/ AddRevision \/ OnNewFileBlobUploaded
    \/ AnalyzeMediaFile \/ ExtractTags \/ ComputeThumbs \/ AddThumb \/ ComputeStreamingVersion
    \/ FetchTags \/ AllChecked \/ SetLocation \/ \E f \in Files : CheckLocation(f)

Users ==
    \/ \E q \in Requests : UpdateFileMetadata(q) \/ \E edit \in Edits : Save(q, edit)
    \/ \E q \in Requests, f \in Files : RequestFile(q, f)
    \/ \E f \in Files : SoftDeleteFile(f)

Next ==
    \/ Work \/ Fail \/ Crash
    \/ \E i \in DOMAIN publishing : Publish(i)
    \/ \E b \in Blobs : RequestFileVersionCreation(b)
    \/ Users /\ UNCHANGED <<publishing, channels, queue, worker, tables, asked, faults>>

Spec == Init /\ [][Next]_vars

(***************************************************************************)
(* Properties.                                                             *)
(***************************************************************************)
Count(b) == Cardinality({i \in DOMAIN asked : asked[i] = b})

Versions(b) == Append(Thumbs(b), StreamVersion[b])

\* The worker, which stops with the first job that throws, stops only over a failed
\* command or lookup, a file its tools have not written, a file without a video stream,
\* two equal versions, a version asked for twice, a job that is repeated after a crash,
\* or a location that a user has saved while the job set it.
WorkerStopsForAReason ==
    at = "failed" =>
        \/ failures > 0 \/ Current.again
        \/ missing = added + 1
        \/ Current.type = "thumbs" /\ ~ ExtractVideoStream(Current.blob)
        \/ ~ IsInjective(Versions(Current.blob))
        \/ Current.type = "version" /\ Count(Current.blob) > 1
        \/ \E f \in locating, q \in Requests :
              pc[q] = "saved" /\ form[q].file = f /\ form[q].osmId \in OsmIds

Coming(b) ==
    \/ \E i \in DOMAIN job :
          job[i].blob = b /\ (job[i].type = "thumbs" \/ at \in {"reviseNew", "announce"})
    \/ \E i \in DOMAIN queue : queue[i].blob = b /\ queue[i].type = "thumbs"
    \/ \E i \in DOMAIN publishing : publishing[i].blob = b /\ publishing[i].type = "thumbs"

Unsent(b) == \E m \in unsent : m.type = "thumbs" /\ m.blob = b

\* A picture that is uploaded has its thumbnails, which the view of a file takes for
\* granted, or a job is at or before making them, unless the job or event was lost in a
\* crash, no channel was left to send the event on, or the same bytes are known as a
\* version of another blob.
ThumbnailsAreThereOrComing ==
    \A b \in blobs \cap Pictures : VideoStreams[b] # NotMedia =>
        \/ \A i \in DOMAIN Thumbs(b) : <<b, Thumbs(b)[i]>> \in versions
        \/ Coming(b) \/ crashes > 0 \/ Unsent(b)
        \/ \E pair \in versions : pair[2] = b

=============================================================================
