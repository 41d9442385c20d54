--------------------------- MODULE UploadSessions ---------------------------
(***************************************************************************)
(* The way of a file from the dialog that uploads it to the blob blocks it *)
(* is cut into: UploadFileModal sends it in chunks, the upload API and     *)
(* FileUploadReceiver append them to a temporary file and schedule a job,  *)
(* MessagingService publishes it, FileUploadProcessor reads the file.      *)
(*                                                                         *)
(* The answers that depend on the catalogue (no such container, the file   *)
(* exists) are left open.  The network may lose an answer, and may deliver *)
(* a request twice.                                                        *)
(***************************************************************************)
EXTENDS Naturals, Sequences, SequencesExt, FiniteSets

CONSTANTS
    Uploads,
    NewFiles,       \* the uploads that create a file; others add a revision
    Size,           \* bytes of the file of an upload
    ChunkSize,      \* 50 MiB in the dialog
    CONST_BLOCKSIZE,
    ChannelMax,     \* channels the broker allows on a connection
    MaxRepeats,     \* bound: uploads of which a request is delivered twice
    MaxCrashes      \* bound: crashes of the service

ASSUME SizesAreNumbers == NewFiles \subseteq Uploads /\ Size \in [Uploads -> Nat]
ASSUME ChunksAreNotEmpty == ChunkSize \in Nat \ {0} /\ CONST_BLOCKSIZE \in Nat \ {0}

VARIABLES
    client, sent,      \* where the dialog is, and how many chunks were accepted
    requests, reply,   \* requests on their way, and the answer on its way back
    session, finishing,\* uploadKeys, and the end requests that await the stream
    temp,              \* the chunks in the temporary file
    publishing, channels, queue,
    worker, job,       \* the job worker and its job, a sequence of at most one
    stored, unlinked,  \* the blob blocks of each revision made, files deleted
    jobs,              \* history: contents of the jobs scheduled
    repeated, crashes  \* bounded faults that have happened

dialog == <<client, sent>>
receiver == <<session, finishing, temp, jobs>>
broker == <<publishing, channels, queue>>
processor == <<worker, job, stored, unlinked>>
faults == <<repeated, crashes>>
vars == <<dialog, requests, reply, receiver, broker, processor, faults>>

\* A byte is named by its position in the file.
Least(m, n) == IF m < n THEN m ELSE n
Bytes(u, first, last) == [i \in 1..(Least(last, Size[u]) + 1 - first) |-> first + i - 1]
Chunks(u) == (Size[u] + ChunkSize - 1) \div ChunkSize
File == [u \in Uploads |-> [n \in 1..Chunks(u) |-> n]]

Init ==
    /\ client = [u \in Uploads |-> "ready"] /\ sent = [u \in Uploads |-> 0]
    /\ requests = {} /\ reply = [u \in Uploads |-> "none"]
    /\ session = [u \in Uploads |-> "none"] /\ finishing = [u \in Uploads |-> {}]
    /\ temp = [u \in Uploads |-> <<>>]
    /\ publishing = <<>> /\ channels = 0 /\ queue = <<>>
    /\ worker = "idle" /\ job = <<>>
    /\ stored = [u \in Uploads |-> <<>>] /\ unlinked = {}
    /\ jobs = [u \in Uploads |-> <<>>]
    /\ repeated = {} /\ crashes = 0

(***************************************************************************)
(* The dialog: one request at a time, the next when the answer is there.   *)
(***************************************************************************)
Request(u, op, n) == [upload |-> u, op |-> op, chunk |-> n, copy |-> 1]

InitUpload(u) ==
    /\ client[u] = "ready"
    /\ client' = [client EXCEPT ![u] = "init"]
    /\ requests' = requests \cup {Request(u, "init", 0)}
    /\ UNCHANGED <<sent, reply, receiver, broker, processor, faults>>

\* The loop over the file: another chunk while there are bytes left, then the end.
SendNext(u, n) ==
    LET op == IF n < Chunks(u) THEN "chunk" ELSE "finish" IN
    /\ client' = [client EXCEPT ![u] = op]
    /\ requests' = requests \cup {Request(u, op, IF op = "chunk" THEN n + 1 ELSE 0)}

OrchestrateFileUpload(u) ==
    /\ reply[u] # "none"
    /\ reply' = [reply EXCEPT ![u] = "none"]
    /\ \/ /\ reply[u] = "refused"
          /\ client' = [client EXCEPT ![u] = "error"]
          /\ UNCHANGED <<sent, requests>>
       \/ /\ reply[u] = "ok" /\ client[u] = "finish"
          /\ client' = [client EXCEPT ![u] = "success"]
          /\ UNCHANGED <<sent, requests>>
       \/ /\ reply[u] = "ok" /\ client[u] \in {"init", "chunk"}
          /\ sent' = [sent EXCEPT ![u] = IF client[u] = "chunk" THEN @ + 1 ELSE @]
          /\ SendNext(u, sent'[u])
    /\ UNCHANGED <<receiver, broker, processor, faults>>

\* An answer that does not arrive rejects the promise, and nothing is tried again.
LoseAnswer(u) ==
    /\ reply[u] # "none"
    /\ reply' = [reply EXCEPT ![u] = "none"]
    /\ client' = [client EXCEPT ![u] = "gone"]
    /\ UNCHANGED <<sent, requests, receiver, broker, processor, faults>>

RepeatRequest(r) ==
    LET u == r.upload IN
    /\ r.op \in {"chunk", "finish"} /\ u \notin repeated
    /\ Cardinality(repeated) < MaxRepeats
    /\ repeated' = repeated \cup {u}
    /\ requests' = requests \cup {[r EXCEPT !.copy = 2]}
    /\ UNCHANGED <<dialog, reply, receiver, broker, processor, crashes>>

(***************************************************************************)
(* The upload API and FileUploadReceiver.                                  *)
(***************************************************************************)
\* The dialog takes an answer to what it is waiting for.
Answer(r, ok) ==
    LET u == r.upload
        Waits == client[u] = r.op /\ (r.op = "chunk" => r.chunk = sent[u] + 1)
    IN reply' = IF Waits THEN [reply EXCEPT ![u] = ok] ELSE reply

\* "illegal upload key"
Status(u) == IF session[u] = "none" THEN "refused" ELSE "ok"

OpenSession(u) == session' = [session EXCEPT ![u] = "open"]

\* The name is free, or it is not.
InitNewFileUpload(u) == OpenSession(u) \/ session' = session

CreateNewFile(r) ==
    /\ r.op = "init" /\ r.upload \in NewFiles
    /\ requests' = requests \ {r}
    /\ InitNewFileUpload(r.upload)
    /\ Answer(r, IF session' = session THEN "refused" ELSE "ok")
    /\ UNCHANGED <<dialog, finishing, temp, jobs, broker, processor, faults>>

UploadFileRevision(r) ==
    /\ r.op = "init" /\ r.upload \notin NewFiles
    /\ requests' = requests \ {r}
    /\ \/ OpenSession(r.upload) /\ Answer(r, "ok")
       \/ session' = session /\ Answer(r, "refused")
    /\ UNCHANGED <<dialog, finishing, temp, jobs, broker, processor, faults>>

\* A write after the end destroys the stream.
Write(u, chunk) ==
    /\ temp' = [temp EXCEPT ![u] = IF session[u] = "open" THEN Append(@, chunk) ELSE @]
    /\ session' = [session EXCEPT ![u] = IF @ = "ending" THEN "broken" ELSE @]

\* The chunk is read into memory, which takes a while, and written then.
AppendChunk(r) ==
    /\ r.op = "chunk"
    /\ requests' = requests \ {r}
    /\ Write(r.upload, r.chunk)
    /\ Answer(r, Status(r.upload))
    /\ UNCHANGED <<dialog, finishing, jobs, broker, processor, faults>>

\* Mutant: the end of the stream is not awaited before the answer.
FinishUpload_AnswersFirst(r) ==
    LET u == r.upload IN
    /\ r.op = "finish"
    /\ requests' = requests \ {r}
    /\ Answer(r, Status(u))
    /\ session' = [session EXCEPT ![u] = IF @ = "open" THEN "ending" ELSE @]
    /\ finishing' = [finishing EXCEPT ![u] = IF session[u] = "none" THEN @ ELSE @ \cup {r}]
    /\ UNCHANGED <<dialog, temp, jobs, broker, processor, faults>>

\* Up to the await: the stream is told to end, the key stays.
FinishUpload(r) ==
    LET u == r.upload IN
    /\ r.op = "finish"
    /\ requests' = requests \ {r}
    /\ IF session[u] = "none"
       THEN Answer(r, Status(u)) /\ UNCHANGED <<session, finishing>>
       ELSE /\ session' = [session EXCEPT ![u] = IF @ = "open" THEN "ending" ELSE @]
            /\ finishing' = [finishing EXCEPT ![u] = @ \cup {r}]
            /\ reply' = reply
    /\ UNCHANGED <<dialog, temp, jobs, broker, processor, faults>>

ScheduleJobs(u, number) ==
    /\ publishing' = publishing \o [i \in 1..number |-> u]
    /\ jobs' = [jobs EXCEPT ![u] = @ \o [i \in 1..number |-> temp[u]]]

\* The stream has finished: everybody who awaits it schedules the job.
EndFinish(u) ==
    LET waiting == Cardinality(finishing[u]) IN
    /\ session[u] = "ending"
    /\ session' = [session EXCEPT ![u] = "none"]
    /\ finishing' = [finishing EXCEPT ![u] = {}]
    /\ ScheduleJobs(u, waiting)
    /\ Answer(Request(u, "finish", 0), "ok")
    /\ UNCHANGED <<dialog, requests, temp, channels, queue, processor, faults>>

\* A write to the disk fails.
BreakStream(u) ==
    /\ session[u] \in {"open", "ending"}
    /\ session' = [session EXCEPT ![u] = "broken"]
    /\ UNCHANGED <<dialog, requests, reply, finishing, temp, jobs, broker, processor, faults>>

\* The stream is destroyed: who awaits it gets an error, or waits for ever.
FailFinish(u) ==
    /\ session[u] = "broken" /\ finishing[u] # {}
    /\ finishing' = [finishing EXCEPT ![u] = {}]
    /\ Answer(Request(u, "finish", 0), "refused")
    /\ UNCHANGED <<dialog, requests, session, temp, jobs, broker, processor, faults>>

(***************************************************************************)
(* MessagingService: a channel for each message, never closed.             *)
(***************************************************************************)
\* Where no channel can be opened the callback throws, and the message is lost.
Publish ==
    /\ publishing # <<>>
    /\ publishing' = Tail(publishing)
    /\ IF channels < ChannelMax
       THEN channels' = channels + 1 /\ queue' = Append(queue, Head(publishing))
       ELSE UNCHANGED <<channels, queue>>
    /\ UNCHANGED <<dialog, requests, reply, receiver, processor, faults>>

\* Mutant: the temporary file is deleted when its job begins.
Deliver_Unlinks ==
    /\ worker = "idle" /\ queue # <<>>
    /\ worker' = "store" /\ job' = <<Head(queue)>>
    /\ queue' = Tail(queue)
    /\ unlinked' = unlinked \cup {Head(queue)}
    /\ UNCHANGED <<dialog, requests, reply, receiver, publishing, channels, stored, faults>>

Deliver ==
    /\ worker = "idle" /\ queue # <<>>
    /\ worker' = "store" /\ job' = <<Head(queue)>>
    /\ queue' = Tail(queue)
    /\ UNCHANGED <<dialog, requests, reply, receiver, publishing, channels, stored,
                   unlinked, faults>>

(***************************************************************************)
(* FileUploadProcessor.                                                    *)
(***************************************************************************)
FileBytes(u) == FlattenSeq([i \in DOMAIN temp[u] |->
                    Bytes(u, (temp[u][i] - 1) * ChunkSize + 1, temp[u][i] * ChunkSize)])

\* Mutant: the end of a block is taken as exclusive where the stream includes it.
ProcessFile_Overlaps(bytes) ==
    [counter \in 1..(Len(bytes) \div CONST_BLOCKSIZE + 1) |->
        LET start == (counter - 1) * CONST_BLOCKSIZE IN
        SubSeq(bytes, start + 1, Least(start + CONST_BLOCKSIZE + 1, Len(bytes)))]

\* One block after the other until the start lies past the end, so that the last
\* one is empty where the size is a multiple of the block size.
ProcessFile(bytes) ==
    [counter \in 1..(Len(bytes) \div CONST_BLOCKSIZE + 1) |->
        LET start == (counter - 1) * CONST_BLOCKSIZE IN
        SubSeq(bytes, start + 1, Least(start + CONST_BLOCKSIZE, Len(bytes)))]

\* The file must be there, and a new file must not have been made before.
UploadFileFromDisk ==
    /\ worker = "store"
    /\ LET u == Head(job) IN
       IF u \in unlinked \/ (u \in NewFiles /\ stored[u] # <<>>)
       THEN worker' = "failed" /\ UNCHANGED stored
       ELSE /\ worker' = "unlink"
            /\ stored' = [stored EXCEPT ![u] = Append(@, ProcessFile(FileBytes(u)))]
    /\ UNCHANGED <<dialog, requests, reply, receiver, broker, job, unlinked, faults>>

Unlink ==
    /\ worker = "unlink"
    /\ unlinked' = unlinked \cup {Head(job)}
    /\ worker' = "ack"
    /\ UNCHANGED <<dialog, requests, reply, receiver, broker, job, stored, faults>>

Acknowledge ==
    /\ worker = "ack"
    /\ worker' = "idle" /\ job' = <<>>
    /\ UNCHANGED <<dialog, requests, reply, receiver, broker, stored, unlinked, faults>>

(***************************************************************************)
(* A crash forgets the sessions and what is not published, the broker      *)
(* delivers the job again, temporary files stay.                           *)
(***************************************************************************)
Crash ==
    /\ crashes < MaxCrashes
    /\ crashes' = crashes + 1
    /\ client' = [u \in Uploads |->
                    IF client[u] \in {"init", "chunk", "finish"} THEN "gone" ELSE client[u]]
    /\ requests' = {} /\ reply' = [u \in Uploads |-> "none"]
    /\ session' = [u \in Uploads |-> "none"] /\ finishing' = [u \in Uploads |-> {}]
    /\ publishing' = <<>> /\ channels' = 0
    /\ queue' = job \o queue
    /\ worker' = "idle" /\ job' = <<>>
    /\ UNCHANGED <<sent, temp, jobs, stored, unlinked, repeated>>

Work == Deliver \/ UploadFileFromDisk \/ Unlink \/ Acknowledge

Serve(u) ==
    \/ \E r \in requests :
          /\ r.upload = u
          /\ CreateNewFile(r) \/ UploadFileRevision(r) \/ AppendChunk(r) \/ FinishUpload(r)
    \/ EndFinish(u)

Next ==
    \/ \E u \in Uploads : InitUpload(u) \/ OrchestrateFileUpload(u) \/ LoseAnswer(u)
    \/ \E r \in requests : RepeatRequest(r)
    \/ \E u \in Uploads : Serve(u) \/ BreakStream(u) \/ FailFinish(u)
    \/ Publish \/ Work \/ Crash

Spec == Init /\ [][Next]_vars

FairSpec ==
    /\ Spec
    /\ WF_vars(Publish) /\ WF_vars(Work)
    /\ \A u \in Uploads : WF_vars(Serve(u)) /\ WF_vars(OrchestrateFileUpload(u))

(***************************************************************************)
(* Properties.                                                             *)
(***************************************************************************)
States == {"ready", "init", "chunk", "finish", "success", "error", "gone"}

Sent == [upload : Uploads, op : {"init", "finish"}, chunk : {0}, copy : {1, 2}]
        \cup [upload : Uploads, op : {"chunk"}, chunk : Nat, copy : {1, 2}]
Ends(u) == {Request(u, "finish", 0), [Request(u, "finish", 0) EXCEPT !.copy = 2]}

DialogTypeOK ==
    /\ client \in [Uploads -> States] /\ sent \in [Uploads -> Nat]
    /\ requests \subseteq Sent /\ reply \in [Uploads -> {"none", "ok", "refused"}]
    /\ repeated \subseteq Uploads /\ crashes \in Nat

ReceiverTypeOK ==
    /\ session \in [Uploads -> {"none", "open", "ending", "broken"}]
    /\ DOMAIN finishing = Uploads /\ \A u \in Uploads : finishing[u] \subseteq Ends(u)
    /\ temp \in [Uploads -> Seq(Nat)] /\ jobs \in [Uploads -> Seq(Seq(Nat))]

ProcessorTypeOK ==
    /\ publishing \in Seq(Uploads) /\ queue \in Seq(Uploads) /\ channels \in Nat
    /\ worker \in {"idle", "store", "unlink", "ack", "failed"}
    /\ job \in {<<>>} \cup {<<u>> : u \in Uploads} /\ (worker = "idle" <=> job = <<>>)
    /\ DOMAIN stored = Uploads /\ unlinked \subseteq Uploads

UploadsTypeOK == DialogTypeOK /\ ReceiverTypeOK /\ ProcessorTypeOK

\* The upload keeps what UploadContract promises: one job per upload, of the
\* chunks in their order, and success reported only then.
Contract == INSTANCE UploadContract WITH
                told <- {u \in Uploads : client[u] = "success"}
ContractIsKept == Contract!Spec

\* What is stored is the file byte for byte, in full blocks but for the last one.
StoredIsFile ==
    \A u \in Uploads \ repeated : \A revision \in Range(stored[u]) :
        /\ FlattenSeq(revision) = Bytes(u, 1, Size[u])
        /\ \A i \in 1..(Len(revision) - 1) : Len(revision[i]) = CONST_BLOCKSIZE

Undisturbed == crashes = 0 /\ repeated = {} /\ channels < ChannelMax

\* A file whose upload was reported as successful is stored, unless the service
\* crashes, a request was delivered twice or the broker's channels are used up.
SuccessIsStored ==
    \A u \in Uploads : client[u] = "success" ~> stored[u] # <<>> \/ ~ Undisturbed

=============================================================================
