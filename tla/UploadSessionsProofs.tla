------------------------ MODULE UploadSessionsProofs ------------------------
(***************************************************************************)
(* UploadSessions implements UploadContract: theorems for any uploads,     *)
(* sizes, channels of the broker, repeated requests and crashes.           *)
(***************************************************************************)
EXTENDS UploadSessions, FiniteSetTheorems, SequenceTheorems, WellFoundedInduction, TLAPS

(***************************************************************************)
(* The invariant.  An answer waits only for a dialog that asked, and what  *)
(* it says of the end of an upload is true, repeated requests or not.      *)
(***************************************************************************)
Truthful(u) ==
    /\ reply[u] # "none" => client[u] \in {"init", "chunk", "finish"}
    /\ client[u] = "finish" /\ reply[u] = "ok" => jobs[u] # <<>>
    /\ client[u] = "success" => jobs[u] # <<>>
    /\ session[u] = "ending" => finishing[u] # {}

\* What the dialog asks for at the moment.
Asked(u) == Request(u, client[u], IF client[u] = "chunk" THEN sent[u] + 1 ELSE 0)

\* Without repetition the request, the end that awaits the stream and the answer exclude
\* each other.
OneAtATime(u) ==
    /\ \A r \in requests : r.upload = u =>
          /\ r = Asked(u) /\ client[u] \in {"init", "chunk", "finish"}
          /\ reply[u] = "none" /\ finishing[u] = {}
    /\ finishing[u] # {} =>
          /\ finishing[u] = {Request(u, "finish", 0)}
          /\ client[u] = "finish" /\ reply[u] = "none"

\* The temporary file is as long as the dialog thinks, as long as it can be completed.
First(n) == [i \in 1..n |-> i]
InStep(u) ==
    /\ client[u] \in {"ready", "init"} => sent[u] = 0 /\ temp[u] = <<>>
    /\ client[u] = "chunk" =>
          /\ sent[u] < Chunks(u)
          /\ session[u] = "open" =>
                temp[u] = First(IF reply[u] = "none" THEN sent[u] ELSE sent[u] + 1)
    /\ client[u] = "finish" /\ session[u] \in {"open", "ending"} => temp[u] = File[u]
    /\ client[u] \in {"ready", "init", "chunk"} => jobs[u] = <<>>
    /\ client[u] = "finish" /\ reply[u] = "none" => jobs[u] = <<>>

Orderly(u) == OneAtATime(u) /\ InStep(u)

Honest == \A u \in Uploads : Truthful(u)
Ordered == \A u \in Uploads \ repeated : Orderly(u)
UploadsInv == UploadsTypeOK /\ Honest /\ Ordered

(***************************************************************************)
(* A step of one upload leaves the others alone.                           *)
(***************************************************************************)
Same(v) ==
    /\ client'[v] = client[v] /\ sent'[v] = sent[v] /\ reply'[v] = reply[v]
    /\ session'[v] = session[v] /\ finishing'[v] = finishing[v]
    /\ temp'[v] = temp[v] /\ jobs'[v] = jobs[v]
    /\ \A r \in requests' : r.upload = v => r \in requests

LEMMA SameKeeps ==
  ASSUME NEW v \in Uploads, Same(v)
  PROVE  /\ Truthful(v) => Truthful(v)'
         /\ Orderly(v) => Orderly(v)'
  <1>1. Truthful(v) => Truthful(v)'
    BY DEF Same, Truthful
  <1>2. Asked(v)' = Asked(v)
    BY DEF Same, Asked, Request
  <1>3. OneAtATime(v) => OneAtATime(v)'
    BY <1>2 DEF Same, OneAtATime, Request
  <1>4. InStep(v) => InStep(v)'
    BY DEF Same, InStep, First, File, Chunks
  <1> QED
    BY <1>1, <1>3, <1>4 DEF Orderly

LEMMA Local ==
  ASSUME UploadsInv, NEW u \in Uploads, UploadsTypeOK', repeated \subseteq repeated',
         \A v \in Uploads \ {u} : Same(v),
         Truthful(u)', u \notin repeated' => Orderly(u)'
  PROVE  UploadsInv'
  <1>1. ASSUME NEW v \in Uploads PROVE Truthful(v)'
    BY <1>1, SameKeeps DEF UploadsInv, Honest
  <1>2. ASSUME NEW v \in Uploads \ repeated' PROVE Orderly(v)'
    BY <1>2, SameKeeps DEF UploadsInv, Ordered
  <1> QED
    BY <1>1, <1>2 DEF UploadsInv, Honest, Ordered

LEMMA SentFields ==
  ASSUME NEW r \in Sent
  PROVE  /\ r.upload \in Uploads /\ r.op \in {"init", "chunk", "finish"} /\ r.chunk \in Nat
         /\ r.op # "chunk" => r.chunk = 0
         /\ r.op = "finish" => r \in Ends(r.upload)
  BY DEF Sent, Ends, Request

\* An answer is a reply or is dropped; it answers what the dialog asked for.
LEMMA AnswerIsReply ==
  ASSUME DialogTypeOK, NEW r \in Sent, NEW ok \in {"ok", "refused"}, Answer(r, ok)
  PROVE  /\ reply' \in [Uploads -> {"none", "ok", "refused"}]
         /\ \A v \in Uploads \ {r.upload} : reply'[v] = reply[v]
         /\ \/ reply'[r.upload] = reply[r.upload]
            \/ client[r.upload] = r.op /\ reply'[r.upload] = ok
         /\ client[r.upload] = r.op /\ (r.op = "chunk" => r.chunk = sent[r.upload] + 1)
            => reply'[r.upload] = ok
  BY SentFields DEF Answer, DialogTypeOK

LEMMA UploadsInit == Init => UploadsInv
  <1> SUFFICES ASSUME Init PROVE UploadsInv
    OBVIOUS
  <1>1. UploadsTypeOK
    BY DEF Init, UploadsTypeOK, DialogTypeOK, ReceiverTypeOK, ProcessorTypeOK, States
  <1>2. Honest
    BY DEF Init, Honest, Truthful
  <1>3. Ordered
    BY DEF Init, Ordered, Orderly, OneAtATime, InStep
  <1> QED
    BY <1>1, <1>2, <1>3 DEF UploadsInv

(***************************************************************************)
(* The dialog, one lemma per action.                                       *)
(***************************************************************************)
LEMMA InitUploadKeeps ==
  ASSUME UploadsInv, NEW u \in Uploads, InitUpload(u)
  PROVE  UploadsInv'
  <1> USE DEF UploadsInv, UploadsTypeOK, InitUpload, receiver, broker, processor, faults
  <1>1. Request(u, "init", 0) \in Sent
    BY DEF Request, Sent
  <1>2. UploadsTypeOK'
    BY <1>1 DEF DialogTypeOK, ReceiverTypeOK, ProcessorTypeOK, States
  <1>3. ASSUME NEW v \in Uploads \ {u} PROVE Same(v)
    BY <1>3 DEF Same, DialogTypeOK, Request
  <1>4. Truthful(u)'
    BY DEF Truthful, Honest, DialogTypeOK
  <1>5. ASSUME u \notin repeated' PROVE Orderly(u)'
    <2>1. Orderly(u) /\ client'[u] = "init" /\ sent'[u] = sent[u]
      BY <1>5 DEF Ordered, DialogTypeOK
    <2>2. reply[u] = "none" /\ finishing[u] = {}
      BY <2>1 DEF Orderly, OneAtATime, Honest, Truthful, DialogTypeOK
    <2>3. OneAtATime(u)'
      BY <2>1, <2>2 DEF Orderly, OneAtATime, Asked, Request, DialogTypeOK
    <2>4. InStep(u)'
      BY <2>1 DEF Orderly, InStep
    <2> QED
      BY <2>3, <2>4 DEF Orderly
  <1> QED
    BY <1>2, <1>3, <1>4, <1>5, Local

LEMMA ChunksIsInteger ==
  ASSUME NEW u \in Uploads
  PROVE  Chunks(u) \in Int
  BY SizesAreNumbers, ChunksAreNotEmpty DEF Chunks

LEMMA OrchestrateFileUploadKeeps ==
  ASSUME UploadsInv, NEW u \in Uploads, OrchestrateFileUpload(u)
  PROVE  UploadsInv'
  <1> USE DEF UploadsInv, UploadsTypeOK, receiver, broker, processor, faults
  <1> DEFINE Quits == /\ requests' = requests /\ sent' = sent
                      /\ \/ reply[u] = "refused" /\ client' = [client EXCEPT ![u] = "error"]
                         \/ /\ reply[u] = "ok" /\ client[u] = "finish"
                            /\ client' = [client EXCEPT ![u] = "success"]
             Goes == /\ reply[u] = "ok" /\ client[u] \in {"init", "chunk"}
                     /\ sent' = [sent EXCEPT ![u] = IF client[u] = "chunk" THEN @ + 1 ELSE @]
                     /\ SendNext(u, sent'[u])
  <1>1. /\ reply[u] # "none" /\ reply' = [reply EXCEPT ![u] = "none"]
        /\ Quits \/ Goes
        /\ UNCHANGED <<receiver, broker, processor, faults>>
    BY DEF OrchestrateFileUpload
  <1>2. u \notin repeated => Orderly(u)
    BY DEF Ordered
  <1>3. u \notin repeated =>
          finishing[u] = {} /\ \A r \in requests : r.upload # u
    BY <1>1, <1>2 DEF Orderly, OneAtATime
  <1>4. CASE Quits
    <2>1. UploadsTypeOK'
      BY <1>1, <1>4 DEF DialogTypeOK, ReceiverTypeOK, ProcessorTypeOK, States
    <2>2. ASSUME NEW v \in Uploads \ {u} PROVE Same(v)
      BY <1>1, <1>4, <2>2 DEF Same, DialogTypeOK
    <2>3. reply'[u] = "none" /\ client'[u] \in {"error", "success"}
      BY <1>1, <1>4 DEF DialogTypeOK
    <2>4. Truthful(u)'
      BY <1>1, <1>4 DEF Truthful, Honest, DialogTypeOK
    <2>5. ASSUME u \notin repeated' PROVE Orderly(u)'
      BY <1>1, <1>3, <1>4, <2>3, <2>5 DEF Orderly, OneAtATime, InStep
    <2> QED
      BY <1>1, <2>1, <2>2, <2>4, <2>5, Local
  <1>5. CASE Goes
    <2> DEFINE op == IF sent'[u] < Chunks(u) THEN "chunk" ELSE "finish"
               new == Request(u, op, IF op = "chunk" THEN sent'[u] + 1 ELSE 0)
    <2>1. /\ sent' \in [Uploads -> Nat]
          /\ sent'[u] = IF client[u] = "chunk" THEN sent[u] + 1 ELSE sent[u]
          /\ \A v \in Uploads \ {u} : sent'[v] = sent[v]
      BY <1>5 DEF DialogTypeOK
    <2>2. client' = [client EXCEPT ![u] = op] /\ requests' = requests \cup {new}
      BY <1>5 DEF SendNext
    <2>3. new \in Sent /\ new.upload = u
      BY <2>1 DEF Request, Sent
    <2>4. UploadsTypeOK'
      BY <1>1, <2>1, <2>2, <2>3 DEF DialogTypeOK, ReceiverTypeOK, ProcessorTypeOK, States
    <2>5. ASSUME NEW v \in Uploads \ {u} PROVE Same(v)
      BY <1>1, <2>1, <2>2, <2>3, <2>5 DEF Same, DialogTypeOK
    <2>6. reply'[u] = "none" /\ client'[u] = op /\ client[u] # "finish"
      BY <1>1, <1>5, <2>2 DEF DialogTypeOK
    <2>7. Truthful(u)'
      BY <1>1, <2>6 DEF Truthful, Honest
    <2>8. ASSUME u \notin repeated' PROVE Orderly(u)'
      <3>1. Orderly(u) /\ u \notin repeated
        BY <1>1, <1>2, <2>8
      <3>2. new = Asked(u)'
        BY <2>6 DEF Asked
      <3>3. OneAtATime(u)'
        BY <1>1, <1>3, <2>2, <2>6, <3>1, <3>2 DEF OneAtATime
      <3>4. session[u] # "ending"
        BY <1>3, <3>1 DEF Honest, Truthful
      <3>5. Chunks(u) \in Int /\ sent[u] \in Nat /\ File[u] = First(Chunks(u))
        BY ChunksIsInteger DEF File, First, DialogTypeOK
      <3>6. session[u] = "open" => temp[u] = First(sent'[u])
        <4>1. CASE client[u] = "init"
          BY <2>1, <3>1, <4>1 DEF Orderly, InStep, First
        <4>2. CASE client[u] = "chunk"
          BY <1>1, <2>1, <3>1, <4>2 DEF Orderly, InStep
        <4> QED
          BY <1>5, <4>1, <4>2
      <3>7. op = "finish" => First(sent'[u]) = First(Chunks(u))
        <4>1. CASE client[u] = "init"
          BY <2>1, <3>1, <3>5, <4>1 DEF Orderly, InStep, First
        <4>2. CASE client[u] = "chunk"
          BY <1>1, <2>1, <3>1, <3>5, <4>2 DEF Orderly, InStep
        <4> QED
          BY <1>5, <4>1, <4>2
      <3>8. jobs[u] = <<>>
        BY <1>5, <3>1 DEF Orderly, InStep
      <3>9. InStep(u)'
        <4>1. session' = session /\ temp' = temp /\ jobs' = jobs
          BY <1>1
        <4>2. CASE op = "chunk"
          BY <2>6, <3>6, <3>8, <4>1, <4>2 DEF InStep, First, Chunks
        <4>3. CASE op = "finish"
          BY <2>6, <3>4, <3>5, <3>6, <3>7, <3>8, <4>1, <4>3 DEF InStep, File, Chunks
        <4> QED
          BY <4>2, <4>3
      <3> QED
        BY <3>3, <3>9 DEF Orderly
    <2> QED
      BY <1>1, <2>4, <2>5, <2>7, <2>8, Local
  <1> QED
    BY <1>1, <1>4, <1>5

LEMMA LoseAnswerKeeps ==
  ASSUME UploadsInv, NEW u \in Uploads, LoseAnswer(u)
  PROVE  UploadsInv'
  <1> USE DEF UploadsInv, UploadsTypeOK, LoseAnswer, receiver, broker, processor, faults
  <1>1. UploadsTypeOK'
    BY DEF DialogTypeOK, ReceiverTypeOK, ProcessorTypeOK, States
  <1>2. ASSUME NEW v \in Uploads \ {u} PROVE Same(v)
    BY <1>2 DEF Same, DialogTypeOK
  <1>3. client'[u] = "gone" /\ reply'[u] = "none"
    BY DEF DialogTypeOK
  <1>4. Truthful(u)'
    BY <1>3 DEF Truthful, Honest
  <1>5. ASSUME u \notin repeated' PROVE Orderly(u)'
    BY <1>3, <1>5 DEF Ordered, Orderly, OneAtATime, InStep
  <1> QED
    BY <1>1, <1>2, <1>4, <1>5, Local

LEMMA RepeatRequestKeeps ==
  ASSUME UploadsInv, NEW r \in requests, RepeatRequest(r)
  PROVE  UploadsInv' /\ r.upload \in Uploads
  <1> USE DEF UploadsInv, UploadsTypeOK, RepeatRequest, dialog, receiver, broker, processor
  <1> DEFINE u == r.upload
  <1>1. r \in Sent /\ u \in Uploads
    BY SentFields DEF DialogTypeOK
  <1>2. [r EXCEPT !.copy = 2] \in Sent /\ [r EXCEPT !.copy = 2].upload = u
    BY <1>1 DEF Sent
  <1>3. UploadsTypeOK'
    BY <1>1, <1>2 DEF DialogTypeOK, ReceiverTypeOK, ProcessorTypeOK
  <1>4. ASSUME NEW v \in Uploads \ {u} PROVE Same(v)
    BY <1>2, <1>4 DEF Same
  <1>5. Truthful(u)'
    BY <1>1 DEF Truthful, Honest
  <1> QED
    BY <1>1, <1>3, <1>4, <1>5, Local

(***************************************************************************)
(* The upload API and FileUploadReceiver, one lemma per handler.           *)
(***************************************************************************)
\* What both ways to begin an upload come to.
Begins(r) ==
    /\ r.op = "init" /\ requests' = requests \ {r}
    /\ \/ OpenSession(r.upload) \/ session' = session
    /\ \E ok \in {"ok", "refused"} : Answer(r, ok)
    /\ UNCHANGED <<dialog, finishing, temp, jobs, broker, processor, faults>>

LEMMA BeginsKeeps ==
  ASSUME UploadsInv, NEW r \in requests, Begins(r)
  PROVE  UploadsInv'
  <1> USE DEF UploadsInv, UploadsTypeOK, dialog, broker, processor, faults
  <1> DEFINE u == r.upload
  <1>1. r \in Sent /\ u \in Uploads /\ r.op = "init"
    BY SentFields DEF DialogTypeOK, Begins
  <1>2. PICK ok \in {"ok", "refused"} : Answer(r, ok)
    BY DEF Begins
  <1>3. /\ reply' \in [Uploads -> {"none", "ok", "refused"}]
        /\ \A v \in Uploads \ {u} : reply'[v] = reply[v]
        /\ reply'[u] = reply[u] \/ client[u] = "init"
        /\ client[u] = "init" => reply'[u] = ok
    BY <1>1, <1>2, AnswerIsReply
  <1>4. /\ session' \in [Uploads -> {"none", "open", "ending", "broken"}]
        /\ \A v \in Uploads \ {u} : session'[v] = session[v]
        /\ session'[u] \in {session[u], "open"}
    BY <1>1 DEF Begins, OpenSession, ReceiverTypeOK
  <1>5. /\ requests' = requests \ {r} /\ client' = client /\ sent' = sent
        /\ finishing' = finishing /\ temp' = temp /\ jobs' = jobs /\ repeated' = repeated
        /\ UNCHANGED <<broker, processor, faults>>
    BY DEF Begins
  <1>6. UploadsTypeOK'
    BY <1>3, <1>4, <1>5 DEF DialogTypeOK, ReceiverTypeOK, ProcessorTypeOK
  <1>7. ASSUME NEW v \in Uploads \ {u} PROVE Same(v)
    BY <1>3, <1>4, <1>5, <1>7 DEF Same
  <1>8. Truthful(u)'
    BY <1>1, <1>3, <1>4, <1>5 DEF Truthful, Honest
  <1>9. ASSUME u \notin repeated' PROVE Orderly(u)'
    <2>1. Orderly(u)
      BY <1>1, <1>5, <1>9 DEF Ordered
    <2>2. /\ r = Asked(u) /\ client[u] = "init" /\ finishing[u] = {}
          /\ \A q \in requests : q.upload = u => q = r
      BY <1>1, <2>1 DEF Orderly, OneAtATime, Asked, Request
    <2>3. OneAtATime(u)'
      BY <1>5, <2>2 DEF OneAtATime
    <2>4. InStep(u)'
      BY <1>5, <2>1, <2>2 DEF Orderly, InStep
    <2> QED
      BY <2>3, <2>4 DEF Orderly
  <1> QED
    BY <1>1, <1>5, <1>6, <1>7, <1>8, <1>9, Local

LEMMA CreateNewFileKeeps ==
  ASSUME UploadsInv, NEW r \in requests, CreateNewFile(r)
  PROVE  UploadsInv'
  <1>1. Begins(r)
    BY DEF CreateNewFile, InitNewFileUpload, Begins
  <1> QED
    BY <1>1, BeginsKeeps

LEMMA UploadFileRevisionKeeps ==
  ASSUME UploadsInv, NEW r \in requests, UploadFileRevision(r)
  PROVE  UploadsInv'
  <1>1. Begins(r)
    BY DEF UploadFileRevision, Begins
  <1> QED
    BY <1>1, BeginsKeeps

LEMMA AppendChunkKeeps ==
  ASSUME UploadsInv, NEW r \in requests, AppendChunk(r)
  PROVE  UploadsInv'
  <1> USE DEF UploadsInv, UploadsTypeOK, dialog, broker, processor, faults
  <1> DEFINE u == r.upload
             ok == Status(u)
  <1>1. r \in Sent /\ u \in Uploads /\ r.op = "chunk" /\ r.chunk \in Nat
    BY SentFields DEF DialogTypeOK, AppendChunk
  <1>2. ok \in {"ok", "refused"} /\ Answer(r, ok)
    BY DEF AppendChunk, Status
  <1> HIDE DEF ok
  <1>3. /\ reply' \in [Uploads -> {"none", "ok", "refused"}]
        /\ \A v \in Uploads \ {u} : reply'[v] = reply[v]
        /\ reply'[u] = reply[u] \/ client[u] = "chunk"
        /\ client[u] = "chunk" /\ r.chunk = sent[u] + 1 => reply'[u] = ok
    BY <1>1, <1>2, AnswerIsReply
  <1>4. /\ session' \in [Uploads -> {"none", "open", "ending", "broken"}]
        /\ \A v \in Uploads \ {u} : session'[v] = session[v]
        /\ session'[u] = IF session[u] = "ending" THEN "broken" ELSE session[u]
    BY <1>1 DEF AppendChunk, Write, ReceiverTypeOK
  <1>5. /\ temp' \in [Uploads -> Seq(Nat)]
        /\ \A v \in Uploads \ {u} : temp'[v] = temp[v]
        /\ temp'[u] = IF session[u] = "open" THEN Append(temp[u], r.chunk) ELSE temp[u]
    BY <1>1 DEF AppendChunk, Write, ReceiverTypeOK
  <1>6. /\ requests' = requests \ {r} /\ client' = client /\ sent' = sent
        /\ finishing' = finishing /\ jobs' = jobs /\ repeated' = repeated
        /\ UNCHANGED <<broker, processor, faults>>
    BY DEF AppendChunk
  <1>7. UploadsTypeOK'
    BY <1>3, <1>4, <1>5, <1>6 DEF DialogTypeOK, ReceiverTypeOK, ProcessorTypeOK
  <1>8. ASSUME NEW v \in Uploads \ {u} PROVE Same(v)
    BY <1>3, <1>4, <1>5, <1>6, <1>8 DEF Same
  <1>9. Truthful(u)'
    BY <1>1, <1>3, <1>4, <1>6 DEF Truthful, Honest
  <1>10. ASSUME u \notin repeated' PROVE Orderly(u)'
    <2>1. Orderly(u)
      BY <1>1, <1>6, <1>10 DEF Ordered
    <2>2. /\ r = Asked(u) /\ client[u] = "chunk" /\ reply[u] = "none" /\ finishing[u] = {}
          /\ \A q \in requests : q.upload = u => q = r
      BY <1>1, <2>1 DEF Orderly, OneAtATime, Asked, Request
    <2>3. r.chunk = sent[u] + 1 /\ sent[u] \in Nat
      BY <1>1, <2>2 DEF Asked, Request, DialogTypeOK
    <2>4. reply'[u] # "none"
      BY <1>2, <1>3, <2>2, <2>3
    <2>5. OneAtATime(u)'
      BY <1>6, <2>2 DEF OneAtATime
    <2>6. session[u] = "open" => temp'[u] = First(sent[u] + 1)
      <3>1. Append(First(sent[u]), sent[u] + 1) = First(sent[u] + 1)
        BY <2>3 DEF First
      <3> QED
        BY <1>5, <2>1, <2>2, <2>3, <3>1 DEF Orderly, InStep
    <2>7. InStep(u)'
      BY <1>4, <1>6, <2>1, <2>2, <2>4, <2>6 DEF Orderly, InStep, First, Chunks
    <2> QED
      BY <2>5, <2>7 DEF Orderly
  <1> QED
    BY <1>1, <1>6, <1>7, <1>8, <1>9, <1>10, Local

LEMMA FinishUploadKeeps ==
  ASSUME UploadsInv, NEW r \in requests, FinishUpload(r)
  PROVE  UploadsInv'
  <1> USE DEF UploadsInv, UploadsTypeOK, dialog, broker, processor, faults
  <1> DEFINE u == r.upload
  <1>1. r \in Sent /\ u \in Uploads /\ r.op = "finish" /\ r \in Ends(u)
    BY SentFields DEF DialogTypeOK, FinishUpload
  <1>2. /\ requests' = requests \ {r} /\ client' = client /\ sent' = sent
        /\ temp' = temp /\ jobs' = jobs /\ repeated' = repeated
        /\ UNCHANGED <<broker, processor, faults>>
    BY DEF FinishUpload
  <1>3. u \notin repeated =>
          /\ Orderly(u) /\ r = Request(u, "finish", 0) /\ client[u] = "finish"
          /\ reply[u] = "none" /\ finishing[u] = {}
          /\ \A q \in requests : q.upload = u => q = r
    BY <1>1 DEF Ordered, Orderly, OneAtATime, Asked, Request
  <1>4. CASE session[u] = "none"
    <2>1. session' = session /\ finishing' = finishing /\ Answer(r, "refused")
      BY <1>4 DEF FinishUpload, Status
    <2>2. /\ reply' \in [Uploads -> {"none", "ok", "refused"}]
          /\ \A v \in Uploads \ {u} : reply'[v] = reply[v]
          /\ \/ reply'[u] = reply[u]
             \/ client[u] = "finish" /\ reply'[u] = "refused"
          /\ client[u] = "finish" => reply'[u] = "refused"
      BY <1>1, <2>1, AnswerIsReply
    <2>3. UploadsTypeOK'
      BY <1>2, <2>1, <2>2 DEF DialogTypeOK, ReceiverTypeOK, ProcessorTypeOK
    <2>4. ASSUME NEW v \in Uploads \ {u} PROVE Same(v)
      BY <1>2, <2>1, <2>2, <2>4 DEF Same
    <2>5. Truthful(u)'
      BY <1>1, <1>2, <2>1, <2>2 DEF Truthful, Honest
    <2>6. ASSUME u \notin repeated' PROVE Orderly(u)'
      <3>1. OneAtATime(u)'
        BY <1>2, <1>3, <2>1, <2>6 DEF OneAtATime
      <3>2. InStep(u)'
        BY <1>2, <1>3, <1>4, <2>1, <2>2, <2>6 DEF InStep
      <3> QED
        BY <3>1, <3>2 DEF Orderly
    <2> QED
      BY <1>1, <1>2, <2>3, <2>4, <2>5, <2>6, Local
  <1>5. CASE session[u] # "none"
    <2>1. /\ session' = [session EXCEPT ![u] = IF @ = "open" THEN "ending" ELSE @]
          /\ finishing' = [finishing EXCEPT ![u] = @ \cup {r}] /\ reply' = reply
      BY <1>5 DEF FinishUpload
    <2>2. /\ session'[u] \in {"ending", "broken"} /\ finishing'[u] = finishing[u] \cup {r}
          /\ session'[u] = "ending" => session[u] \in {"open", "ending"}
      BY <1>1, <1>5, <2>1 DEF ReceiverTypeOK
    <2>3. UploadsTypeOK'
      BY <1>1, <1>2, <2>1 DEF DialogTypeOK, ReceiverTypeOK, ProcessorTypeOK, Ends, Request
    <2>4. ASSUME NEW v \in Uploads \ {u} PROVE Same(v)
      BY <1>2, <2>1, <2>4 DEF Same, ReceiverTypeOK
    <2>5. Truthful(u)'
      BY <1>1, <1>2, <2>1, <2>2 DEF Truthful, Honest
    <2>6. ASSUME u \notin repeated' PROVE Orderly(u)'
      <3>1. finishing'[u] = {Request(u, "finish", 0)}
        BY <1>2, <1>3, <2>2, <2>6
      <3>2. OneAtATime(u)'
        BY <1>2, <1>3, <2>1, <2>6, <3>1 DEF OneAtATime, Request
      <3>3. InStep(u)'
        BY <1>2, <1>3, <2>1, <2>2, <2>6 DEF Orderly, InStep, File, Chunks
      <3> QED
        BY <3>2, <3>3 DEF Orderly
    <2> QED
      BY <1>1, <1>2, <2>3, <2>4, <2>5, <2>6, Local
  <1> QED
    BY <1>4, <1>5

LEMMA EndsAreCounted ==
  ASSUME NEW u \in Uploads, NEW S \in SUBSET Ends(u)
  PROVE  /\ Cardinality(S) \in Nat
         /\ S # {} => Cardinality(S) # 0
         /\ S = {Request(u, "finish", 0)} => Cardinality(S) = 1
  <1> DEFINE a == Request(u, "finish", 0)
             b == [Request(u, "finish", 0) EXCEPT !.copy = 2]
  <1>1. Ends(u) = {a} \cup {b}
    BY DEF Ends
  <1> HIDE DEF a, b
  <1>2. IsFiniteSet({a}) /\ Cardinality({a}) = 1
    BY FS_Singleton
  <1>3. IsFiniteSet(Ends(u))
    BY <1>1, <1>2, FS_AddElement
  <1>4. IsFiniteSet(S)
    BY <1>3, FS_Subset
  <1> QED
    BY <1>2, <1>4, FS_CardinalityType, FS_EmptySet DEF a

LEMMA CountedIsNotEmpty ==
  ASSUME NEW s, Len(s) # 0
  PROVE  s # <<>>
  OBVIOUS

LEMMA Concatenation ==
  ASSUME NEW S, NEW s \in Seq(S), NEW t \in Seq(S)
  PROVE  s \o t \in Seq(S) /\ Len(s \o t) = Len(s) + Len(t)
  OBVIOUS

\* Who awaits the end of the stream makes a job of it, and without repetition it is one.
LEMMA EndFinishSchedules ==
  ASSUME UploadsInv, NEW u \in Uploads, EndFinish(u)
  PROVE  /\ jobs' \in [Uploads -> Seq(Seq(Nat))] /\ publishing' \in Seq(Uploads)
         /\ jobs'[u] # <<>> /\ \A v \in Uploads \ {u} : jobs'[v] = jobs[v]
         /\ u \notin repeated => /\ jobs[u] = <<>> /\ jobs'[u] = <<File[u]>>
                                 /\ client[u] = "finish" /\ reply[u] = "none"
                                 /\ \A r \in requests : r.upload # u
  <1> USE DEF UploadsInv, UploadsTypeOK
  <1> DEFINE n == Cardinality(finishing[u])
             more == [i \in 1..n |-> temp[u]]
  <1>1. finishing[u] \in SUBSET Ends(u) /\ finishing[u] # {}
    BY DEF ReceiverTypeOK, EndFinish, Honest, Truthful
  <1>2. n \in Nat /\ n # 0 /\ (finishing[u] = {Request(u, "finish", 0)} => n = 1)
    BY <1>1, EndsAreCounted
  <1>3. /\ jobs' = [jobs EXCEPT ![u] = jobs[u] \o more]
        /\ publishing' = publishing \o [i \in 1..n |-> u]
    BY DEF EndFinish, ScheduleJobs
  <1> HIDE DEF n
  <1>4. /\ temp[u] \in Seq(Nat) /\ jobs \in [Uploads -> Seq(Seq(Nat))]
        /\ publishing \in Seq(Uploads)
    BY DEF ReceiverTypeOK, ProcessorTypeOK
  <1>5. more \in Seq(Seq(Nat)) /\ Len(more) = n /\ [i \in 1..n |-> u] \in Seq(Uploads)
    BY <1>2, <1>4
  <1>6. jobs[u] \in Seq(Seq(Nat)) /\ jobs'[u] = jobs[u] \o more
    BY <1>3, <1>4
  <1>7. jobs[u] \o more \in Seq(Seq(Nat)) /\ Len(jobs[u] \o more) = Len(jobs[u]) + n
    <2> HIDE DEF more
    <2> QED
      BY <1>5, <1>6, Concatenation
  <1>8. jobs' \in [Uploads -> Seq(Seq(Nat))] /\ \A v \in Uploads \ {u} : jobs'[v] = jobs[v]
    BY <1>3, <1>4, <1>7
  <1>9. publishing' \in Seq(Uploads)
    BY <1>3, <1>4, <1>5
  <1>10. jobs'[u] # <<>>
    <2> HIDE DEF more, UploadsInv, UploadsTypeOK
    <2>1. Len(jobs[u]) \in Nat
      BY <1>6
    <2>2. Len(jobs'[u]) = Len(jobs[u]) + n
      BY <1>6, <1>7
    <2>3. Len(jobs'[u]) # 0
      BY <1>2, <2>1, <2>2
    <2> QED
      BY <2>3, CountedIsNotEmpty
  <1>11. ASSUME u \notin repeated
         PROVE  /\ jobs[u] = <<>> /\ jobs'[u] = <<File[u]>>
                /\ client[u] = "finish" /\ reply[u] = "none"
                /\ \A r \in requests : r.upload # u
    <2>1. Orderly(u)
      BY <1>11 DEF Ordered
    <2>2. /\ n = 1 /\ client[u] = "finish" /\ reply[u] = "none"
          /\ \A r \in requests : r.upload # u
      BY <1>1, <1>2, <2>1 DEF Orderly, OneAtATime
    <2>3. temp[u] = File[u] /\ jobs[u] = <<>>
      BY <2>1, <2>2 DEF Orderly, InStep, EndFinish
    <2>4. more = <<temp[u]>>
      BY <2>2
    <2>5. jobs'[u] = <<temp[u]>>
      BY <1>4, <1>6, <2>3, <2>4
    <2> QED
      BY <2>2, <2>3, <2>5
  <1> QED
    BY <1>8, <1>9, <1>10, <1>11

LEMMA EndFinishKeeps ==
  ASSUME UploadsInv, NEW u \in Uploads, EndFinish(u)
  PROVE  UploadsInv'
  <1> USE DEF UploadsInv, UploadsTypeOK, dialog, processor, faults
  <1>1. /\ jobs' \in [Uploads -> Seq(Seq(Nat))] /\ publishing' \in Seq(Uploads)
        /\ jobs'[u] # <<>> /\ \A v \in Uploads \ {u} : jobs'[v] = jobs[v]
        /\ u \notin repeated => /\ client[u] = "finish" /\ reply[u] = "none"
                                /\ \A r \in requests : r.upload # u
    BY EndFinishSchedules
  <1>2. /\ session' = [session EXCEPT ![u] = "none"]
        /\ finishing' = [finishing EXCEPT ![u] = {}]
        /\ client' = client /\ sent' = sent /\ requests' = requests /\ temp' = temp
        /\ channels' = channels /\ queue' = queue /\ repeated' = repeated
        /\ UNCHANGED <<processor, faults>>
    BY DEF EndFinish
  <1>3. Request(u, "finish", 0) \in Sent /\ Request(u, "finish", 0).upload = u
        /\ Request(u, "finish", 0).op = "finish"
    BY DEF Request, Sent
  <1>4. /\ reply' \in [Uploads -> {"none", "ok", "refused"}]
        /\ \A v \in Uploads \ {u} : reply'[v] = reply[v]
        /\ \/ reply'[u] = reply[u]
           \/ client[u] = "finish" /\ reply'[u] = "ok"
        /\ client[u] = "finish" => reply'[u] = "ok"
    <2>1. Answer(Request(u, "finish", 0), "ok")
      BY DEF EndFinish
    <2> QED
      BY <1>3, <2>1, AnswerIsReply
  <1>5. UploadsTypeOK'
    BY <1>1, <1>2, <1>4 DEF DialogTypeOK, ReceiverTypeOK, ProcessorTypeOK
  <1>6. ASSUME NEW v \in Uploads \ {u} PROVE Same(v)
    BY <1>1, <1>2, <1>4, <1>6 DEF Same, ReceiverTypeOK
  <1>7. session'[u] = "none" /\ finishing'[u] = {}
    BY <1>2 DEF ReceiverTypeOK
  <1>8. Truthful(u)'
    BY <1>1, <1>2, <1>4, <1>7 DEF Truthful, Honest
  <1>9. ASSUME u \notin repeated' PROVE Orderly(u)'
    BY <1>1, <1>2, <1>4, <1>7, <1>9 DEF Orderly, OneAtATime, InStep
  <1> QED
    BY <1>2, <1>5, <1>6, <1>8, <1>9, Local

LEMMA BreakStreamKeeps ==
  ASSUME UploadsInv, NEW u \in Uploads, BreakStream(u)
  PROVE  UploadsInv'
  <1> USE DEF UploadsInv, UploadsTypeOK, BreakStream, dialog, broker, processor, faults
  <1>1. UploadsTypeOK'
    BY DEF DialogTypeOK, ReceiverTypeOK, ProcessorTypeOK
  <1>2. ASSUME NEW v \in Uploads \ {u} PROVE Same(v)
    BY <1>2 DEF Same, ReceiverTypeOK
  <1>3. session'[u] = "broken"
    BY DEF ReceiverTypeOK
  <1>4. Truthful(u)'
    BY <1>3 DEF Truthful, Honest
  <1>5. ASSUME u \notin repeated' PROVE Orderly(u)'
    <2>1. Orderly(u)
      BY <1>5 DEF Ordered
    <2>2. OneAtATime(u)'
      BY <2>1 DEF Orderly, OneAtATime, Asked, Request
    <2>3. InStep(u)'
      BY <1>3, <2>1 DEF Orderly, InStep
    <2> QED
      BY <2>2, <2>3 DEF Orderly
  <1> QED
    BY <1>1, <1>2, <1>4, <1>5, Local

LEMMA FailFinishKeeps ==
  ASSUME UploadsInv, NEW u \in Uploads, FailFinish(u)
  PROVE  UploadsInv'
  <1> USE DEF UploadsInv, UploadsTypeOK, dialog, broker, processor, faults
  <1>1. /\ session[u] = "broken" /\ session' = session
        /\ finishing' = [finishing EXCEPT ![u] = {}]
        /\ client' = client /\ sent' = sent /\ requests' = requests /\ temp' = temp
        /\ jobs' = jobs /\ repeated' = repeated /\ UNCHANGED <<broker, processor, faults>>
    BY DEF FailFinish
  <1>2. Request(u, "finish", 0) \in Sent /\ Request(u, "finish", 0).upload = u
        /\ Request(u, "finish", 0).op = "finish"
    BY DEF Request, Sent
  <1>3. /\ reply' \in [Uploads -> {"none", "ok", "refused"}]
        /\ \A v \in Uploads \ {u} : reply'[v] = reply[v]
        /\ \/ reply'[u] = reply[u]
           \/ client[u] = "finish" /\ reply'[u] = "refused"
        /\ client[u] = "finish" => reply'[u] = "refused"
    <2>1. Answer(Request(u, "finish", 0), "refused")
      BY DEF FailFinish
    <2> QED
      BY <1>2, <2>1, AnswerIsReply
  <1>4. UploadsTypeOK'
    BY <1>1, <1>3 DEF DialogTypeOK, ReceiverTypeOK, ProcessorTypeOK
  <1>5. ASSUME NEW v \in Uploads \ {u} PROVE Same(v)
    BY <1>1, <1>3, <1>5 DEF Same, ReceiverTypeOK
  <1>6. finishing'[u] = {}
    BY <1>1 DEF ReceiverTypeOK
  <1>7. Truthful(u)'
    BY <1>1, <1>3 DEF Truthful, Honest
  <1>8. ASSUME u \notin repeated' PROVE Orderly(u)'
    <2>1. Orderly(u) /\ finishing[u] # {}
      BY <1>1, <1>8 DEF Ordered, FailFinish
    <2>2. client[u] = "finish" /\ \A r \in requests : r.upload # u
      BY <2>1 DEF Orderly, OneAtATime
    <2>3. OneAtATime(u)'
      BY <1>1, <1>6, <2>2 DEF OneAtATime
    <2>4. InStep(u)'
      BY <1>1, <1>3, <2>2 DEF InStep
    <2> QED
      BY <2>3, <2>4 DEF Orderly
  <1> QED
    BY <1>1, <1>4, <1>5, <1>7, <1>8, Local

(***************************************************************************)
(* The broker, the job worker and crashes.                                 *)
(***************************************************************************)
\* What has nothing to do with the dialogs and the receiver.
LEMMA BehindKeeps ==
  ASSUME UploadsInv, UNCHANGED <<dialog, requests, reply, receiver, faults>>, ProcessorTypeOK'
  PROVE  UploadsInv'
  <1> USE DEF UploadsInv, UploadsTypeOK, dialog, receiver, faults
  <1>1. UploadsTypeOK'
    BY DEF DialogTypeOK, ReceiverTypeOK
  <1>2. ASSUME NEW v \in Uploads PROVE Same(v)
    BY DEF Same
  <1>3. Honest'
    BY <1>2, SameKeeps DEF Honest
  <1>4. Ordered'
    BY <1>2, SameKeeps DEF Ordered
  <1> QED
    BY <1>1, <1>3, <1>4

LEMMA PublishKeeps ==
  ASSUME UploadsInv, Publish
  PROVE  UploadsInv'
  <1> USE DEF UploadsInv, UploadsTypeOK, Publish, processor
  <1>1. Head(publishing) \in Uploads /\ Tail(publishing) \in Seq(Uploads)
    BY DEF ProcessorTypeOK
  <1>2. queue \in Seq(Uploads) /\ channels \in Nat
    BY DEF ProcessorTypeOK
  <1>3. queue' \in Seq(Uploads) /\ channels' \in Nat
    <2>1. Append(queue, Head(publishing)) \in Seq(Uploads)
      BY <1>1, <1>2
    <2>2. \/ channels' = channels + 1 /\ queue' = Append(queue, Head(publishing))
          \/ channels' = channels /\ queue' = queue
      BY Zenon
    <2> HIDE DEF Publish
    <2> QED
      BY <1>2, <2>1, <2>2
  <1>4. ProcessorTypeOK'
    BY <1>1, <1>3 DEF ProcessorTypeOK
  <1> QED
    BY <1>4, BehindKeeps

LEMMA WorkKeeps ==
  ASSUME UploadsInv, Work
  PROVE  UploadsInv'
  <1> USE DEF UploadsInv, UploadsTypeOK, broker
  <1>1. CASE Deliver
    <2>1. Head(queue) \in Uploads /\ Tail(queue) \in Seq(Uploads)
      BY <1>1 DEF Deliver, ProcessorTypeOK
    <2>2. ProcessorTypeOK'
      BY <1>1, <2>1 DEF Deliver, ProcessorTypeOK
    <2> QED
      BY <1>1, <2>2, BehindKeeps DEF Deliver
  <1>2. CASE UploadFileFromDisk
    <2>1. stored' = stored \/ DOMAIN stored' = DOMAIN stored
      BY <1>2 DEF UploadFileFromDisk
    <2>2. worker = "store" /\ worker' \in {"failed", "unlink"}
      BY <1>2 DEF UploadFileFromDisk
    <2>3. ProcessorTypeOK'
      BY <1>2, <2>1, <2>2 DEF UploadFileFromDisk, ProcessorTypeOK
    <2> QED
      BY <1>2, <2>3, BehindKeeps DEF UploadFileFromDisk
  <1>3. CASE Unlink
    <2>1. Head(job) \in Uploads
      BY <1>3 DEF Unlink, ProcessorTypeOK
    <2>2. ProcessorTypeOK'
      BY <1>3, <2>1 DEF Unlink, ProcessorTypeOK
    <2> QED
      BY <1>3, <2>2, BehindKeeps DEF Unlink
  <1>4. CASE Acknowledge
    <2>1. ProcessorTypeOK'
      BY <1>4 DEF Acknowledge, ProcessorTypeOK
    <2> QED
      BY <1>4, <2>1, BehindKeeps DEF Acknowledge
  <1> QED
    BY <1>1, <1>2, <1>3, <1>4 DEF Work

LEMMA CrashKeeps ==
  ASSUME UploadsInv, Crash
  PROVE  UploadsInv'
  <1> USE DEF UploadsInv, UploadsTypeOK, Crash
  <1>1. job \in Seq(Uploads) /\ queue \in Seq(Uploads)
    <2>1. job = <<>> \/ \E u \in Uploads : job = <<u>>
      BY DEF ProcessorTypeOK
    <2>2. \A u \in Uploads : <<u>> \in Seq(Uploads)
      OBVIOUS
    <2>3. <<>> \in Seq(Uploads)
      OBVIOUS
    <2>4. job \in Seq(Uploads)
      BY <2>1, <2>2, <2>3
    <2> QED
      BY <2>4 DEF ProcessorTypeOK
  <1>2. job \o queue \in Seq(Uploads)
    BY <1>1, Concatenation
  <1>3. ProcessorTypeOK' /\ DialogTypeOK' /\ ReceiverTypeOK'
    BY <1>2 DEF ProcessorTypeOK, DialogTypeOK, ReceiverTypeOK, States
  <1>4. ASSUME NEW u \in Uploads
        PROVE  Truthful(u)' /\ (u \notin repeated' => Orderly(u)')
    <2>1. /\ reply'[u] = "none" /\ session'[u] = "none" /\ finishing'[u] = {}
          /\ client'[u] = IF client[u] \in {"init", "chunk", "finish"} THEN "gone"
                          ELSE client[u]
      OBVIOUS
    <2>2. Truthful(u)'
      BY <2>1 DEF Truthful, Honest
    <2>3. ASSUME u \notin repeated' PROVE Orderly(u)'
      <3>1. Orderly(u)
        BY <2>3 DEF Ordered
      <3>2. OneAtATime(u)'
        BY <2>1 DEF OneAtATime
      <3>3. InStep(u)'
        BY <2>1, <3>1 DEF Orderly, InStep
      <3> QED
        BY <3>2, <3>3 DEF Orderly
    <2> QED
      BY <2>2, <2>3
  <1> QED
    BY <1>3, <1>4 DEF Honest, Ordered

LEMMA UploadsNext ==
  ASSUME UploadsInv, [Next]_vars
  PROVE  UploadsInv'
  <1>1. CASE \E u \in Uploads : InitUpload(u) \/ OrchestrateFileUpload(u) \/ LoseAnswer(u)
    BY <1>1, InitUploadKeeps, OrchestrateFileUploadKeeps, LoseAnswerKeeps
  <1>2. CASE \E r \in requests : RepeatRequest(r)
    BY <1>2, RepeatRequestKeeps
  <1>3. CASE \E u \in Uploads : Serve(u)
    BY <1>3, CreateNewFileKeeps, UploadFileRevisionKeeps, AppendChunkKeeps,
       FinishUploadKeeps, EndFinishKeeps
    DEF Serve
  <1>4. CASE \E u \in Uploads : BreakStream(u) \/ FailFinish(u)
    BY <1>4, BreakStreamKeeps, FailFinishKeeps
  <1>5. CASE Publish \/ Work \/ Crash
    BY <1>5, PublishKeeps, WorkKeeps, CrashKeeps
  <1>6. CASE UNCHANGED vars
    <2>1. ProcessorTypeOK'
      BY <1>6 DEF vars, broker, processor, UploadsInv, UploadsTypeOK, ProcessorTypeOK
    <2> QED
      BY <1>6, <2>1, BehindKeeps DEF vars
  <1> QED
    BY <1>1, <1>2, <1>3, <1>4, <1>5, <1>6 DEF Next

(***************************************************************************)
(* The theorems.                                                           *)
(***************************************************************************)
LEMMA UploadsInvariance == Spec => []UploadsInv
  <1>1. Init => UploadsInv
    BY UploadsInit
  <1>2. UploadsInv /\ [Next]_vars => UploadsInv'
    BY UploadsNext
  <1> QED
    BY <1>1, <1>2, PTL DEF Spec

\* Dialogs, requests, sessions, temporary files and the queue keep their types, whatever is
\* lost, repeated or cut off.
THEOREM UploadsTypeCorrect == Spec => []UploadsTypeOK
  <1>1. UploadsInv => UploadsTypeOK
    BY DEF UploadsInv
  <1> QED
    BY <1>1, UploadsInvariance, PTL

told == {u \in Uploads : client[u] = "success"}

\* The steps that make no job and tell of nothing.
LEMMA Stutters ==
  ASSUME jobs' = jobs, repeated' = repeated, told' = told
  PROVE  UNCHANGED Contract!vars
  BY DEF Contract!vars, told

LEMMA DialogImplements ==
  ASSUME UploadsInv, NEW u \in Uploads,
         InitUpload(u) \/ OrchestrateFileUpload(u) \/ LoseAnswer(u)
  PROVE  [Contract!Next]_Contract!vars
  <1> USE DEF UploadsInv, UploadsTypeOK, DialogTypeOK
  <1>1. jobs' = jobs /\ repeated' = repeated
    BY DEF InitUpload, OrchestrateFileUpload, LoseAnswer, receiver, faults
  <1>2. client \in [Uploads -> States] /\ (client[u] = "success" => reply[u] = "none")
    BY DEF Honest, Truthful
  <1>3. CASE /\ OrchestrateFileUpload(u) /\ reply[u] = "ok" /\ client[u] = "finish"
             /\ client' = [client EXCEPT ![u] = "success"]
    <2>1. jobs[u] # <<>>
      BY <1>3 DEF Honest, Truthful
    <2>2. told' = told \cup {u}
      BY <1>2, <1>3 DEF told
    <2>3. Contract!Report(u)
      BY <1>1, <2>1, <2>2 DEF Contract!Report, told
    <2> QED
      BY <2>3 DEF Contract!Next
  <1>4. CASE \E state \in States \ {"success"} :
                client' = [client EXCEPT ![u] = state] /\ client[u] # "success"
    <2>1. told' = told
      BY <1>2, <1>4 DEF told
    <2> QED
      BY <1>1, <2>1, Stutters
  <1> QED
    BY <1>2, <1>3, <1>4 DEF InitUpload, OrchestrateFileUpload, LoseAnswer, SendNext, States

LEMMA RepeatImplements ==
  ASSUME UploadsInv, NEW r \in requests, RepeatRequest(r)
  PROVE  Contract!Next
  <1>1. r.upload \in Uploads
    BY RepeatRequestKeeps
  <1>2. Contract!Repeat(r.upload)
    BY DEF RepeatRequest, dialog, receiver, Contract!Repeat
  <1> QED
    BY <1>1, <1>2 DEF Contract!Next

LEMMA EndFinishImplements ==
  ASSUME UploadsInv, NEW u \in Uploads, EndFinish(u)
  PROVE  Contract!Next
  <1>1. /\ jobs \in [Uploads -> Seq(Seq(Nat))]
        /\ jobs' \in [Uploads -> Seq(Seq(Nat))] /\ \A v \in Uploads \ {u} : jobs'[v] = jobs[v]
        /\ u \notin repeated => jobs[u] = <<>> /\ jobs'[u] = <<File[u]>>
    BY EndFinishSchedules DEF UploadsInv, UploadsTypeOK, ReceiverTypeOK
  <1>2. repeated' = repeated /\ told' = told
    BY DEF EndFinish, dialog, faults, told
  <1>3. Contract!HandOver(u)
    BY <1>1, <1>2 DEF Contract!HandOver, told
  <1> QED
    BY <1>3 DEF Contract!Next

LEMMA RestImplements ==
  ASSUME UploadsInv, [Next]_vars,
         \A u \in Uploads : ~ (InitUpload(u) \/ OrchestrateFileUpload(u) \/ LoseAnswer(u)
                               \/ EndFinish(u)),
         \A r \in requests : ~ RepeatRequest(r)
  PROVE  UNCHANGED Contract!vars
  <1> USE DEF dialog, receiver, broker, processor, faults
  <1>1. jobs' = jobs /\ repeated' = repeated
    BY DEF Next, vars, Serve, CreateNewFile, UploadFileRevision, AppendChunk, FinishUpload,
           BreakStream, FailFinish, Publish, Work, Deliver, UploadFileFromDisk, Unlink,
           Acknowledge, Crash
  <1>2. client' = client \/ Crash
    BY DEF Next, vars, Serve, CreateNewFile, UploadFileRevision, AppendChunk, FinishUpload,
           BreakStream, FailFinish, Publish, Work, Deliver, UploadFileFromDisk, Unlink,
           Acknowledge
  <1>3. told' = told
    BY <1>2 DEF told, Crash
  <1> QED
    BY <1>1, <1>3, Stutters

\* UploadSessions implements UploadContract: a file is handed over for processing at most
\* once, complete and in order, and reported as uploaded only then, for any files, whatever
\* answers are lost and whenever the service crashes.
THEOREM UploadsKeepTheContract == Spec => ContractIsKept
  <1>1. Init => Contract!Init
    BY DEF Init, Contract!Init
  <1>2. UploadsInv /\ [Next]_vars => [Contract!Next]_Contract!vars
    BY DialogImplements, RepeatImplements, EndFinishImplements, RestImplements
  <1> QED
    BY <1>1, <1>2, UploadsInvariance, PTL DEF Spec, ContractIsKept, Contract!Spec

(***************************************************************************)
(* What FlattenSeq joins.  Induction is over natural numbers: where two    *)
(* functions on them differ there is a least number at which they do.      *)
(***************************************************************************)
LEMMA LeastOfNaturals ==
  ASSUME NEW B, B \subseteq Nat, B # {}
  PROVE  \E b \in B : \A other \in B : b <= other
  <1> DEFINE Below == {0..b : b \in B}
  <1>1. Below \subseteq FiniteSubsetsOf(Nat)
    <2>1. ASSUME NEW b \in B PROVE 0..b \subseteq Nat /\ IsFiniteSet(0..b)
      BY FS_Interval
    <2> QED
      BY <2>1 DEF FiniteSubsetsOf
  <1>2. Below # {}
    OBVIOUS
  <1> HIDE DEF Below
  <1>3. PICK x \in Below : \A y \in Below : <<y, x>> \notin StrictSubsetOrdering(Nat)
    BY <1>1, <1>2, FS_StrictSubsetOrderingWellFounded, WFMin
  <1>4. PICK b \in B : x = 0..b
    BY <1>3 DEF Below
  <1>5. ASSUME NEW other \in B, ~ (b <= other) PROVE FALSE
    <2>1. 0..other \in Below
      BY DEF Below
    <2>2. other \in Nat /\ b \in Nat /\ other < b
      BY <1>5
    <2>3. 0..other \subseteq 0..b /\ b \in 0..b /\ b \notin 0..other
      BY <2>2
    <2>4. <<0..other, 0..b>> \in StrictSubsetOrdering(Nat)
      BY <2>2, <2>3 DEF StrictSubsetOrdering
    <2> QED
      BY <1>3, <1>4, <2>1, <2>4
  <1> QED
    BY <1>5

\* A sequence that begins with the first part and goes on with one part after the other is
\* what FlattenSeq makes of them.  (Two functions that satisfy FlattenSeq's recursion would
\* differ at a least index, and cannot.)
LEMMA FlattenIs ==
  ASSUME NEW n \in Nat \ {0}, NEW parts, NEW joined,
         DOMAIN parts = 1..n, Len(parts) = n, DOMAIN joined = 1..n,
         joined = [i \in 1..n |-> IF i = 1 THEN parts[i] ELSE joined[i - 1] \o parts[i]]
  PROVE  FlattenSeq(parts) = joined[n]
  <1> DEFINE Solves(f) ==
               f = [i \in 1..n |-> IF i = 1 THEN parts[i] ELSE f[i - 1] \o parts[i]]
             flatten == CHOOSE f : Solves(f)
  <1>1. Solves(flatten)
    <2>1. Solves(joined)
      OBVIOUS
    <2> HIDE DEF Solves
    <2> QED
      BY <2>1
  <1>2. FlattenSeq(parts) = flatten[n]
    BY DEF FlattenSeq
  <1> HIDE DEF flatten
  <1> DEFINE Wrong == {i \in 1..n : flatten[i] # joined[i]}
  <1>3. Wrong = {}
    <2> SUFFICES ASSUME Wrong # {} PROVE FALSE
      OBVIOUS
    <2>1. PICK i \in Wrong : \A j \in Wrong : i <= j
      <3>1. Wrong \subseteq Nat
        OBVIOUS
      <3> HIDE DEF Wrong
      <3> QED
        BY <3>1, LeastOfNaturals
    <2>2. i \in 1..n /\ flatten[i] # joined[i]
      BY <2>1
    <2>3. /\ flatten[i] = IF i = 1 THEN parts[i] ELSE flatten[i - 1] \o parts[i]
          /\ joined[i] = IF i = 1 THEN parts[i] ELSE joined[i - 1] \o parts[i]
      <3>1. flatten[i] = IF i = 1 THEN parts[i] ELSE flatten[i - 1] \o parts[i]
        BY <1>1, <2>2
      <3>2. joined[i] = IF i = 1 THEN parts[i] ELSE joined[i - 1] \o parts[i]
        BY <2>2
      <3> QED
        BY <3>1, <3>2
    <2>4. CASE i = 1
      BY <2>2, <2>3, <2>4
    <2>5. CASE i # 1
      <3>1. i - 1 \in 1..n /\ i \in Nat
        BY <2>2, <2>5
      <3>2. i - 1 \notin Wrong
        <4>1. ~ (i <= i - 1)
          BY <3>1
        <4> HIDE DEF Wrong
        <4> QED
          BY <2>1, <4>1
      <3> QED
        BY <2>2, <2>3, <2>5, <3>1, <3>2
    <2> QED
      BY <2>4, <2>5
  <1>4. n \in 1..n
    OBVIOUS
  <1> QED
    BY <1>2, <1>3, <1>4
\* What division rounds to.
LEMMA Division ==
  ASSUME NEW n \in Nat, NEW k \in Nat \ {0}
  PROVE  /\ n \div k \in Nat
         /\ (n \div k) * k <= n
         /\ n < (n \div k) * k + k
  OBVIOUS

LEMMA Multiples ==
  ASSUME NEW i \in Nat, NEW j \in Nat, NEW k \in Nat, i <= j
  PROVE  i * k \in Nat /\ i * k <= j * k /\ (i + 1) * k = i * k + k
  OBVIOUS

\* A piece of a sequence, and what follows it.
LEMMA Pieces ==
  ASSUME NEW S, NEW s \in Seq(S), NEW m \in 0..Len(s), NEW l \in m..Len(s)
  PROVE  /\ SubSeq(s, 1, l) \in Seq(S)
         /\ SubSeq(s, 1, m) \o SubSeq(s, m + 1, l) = SubSeq(s, 1, l)
         /\ Len(SubSeq(s, m + 1, l)) = l - m
         /\ SubSeq(s, 1, Len(s)) = s
  <1>1. /\ SubSeq(s, 1, m) \in Seq(S) /\ Len(SubSeq(s, 1, m)) = m
        /\ \A i \in 1..m : SubSeq(s, 1, m)[i] = s[i]
    <2>1. \A i \in 1..m : s[i] \in S
      BY ElementOfSeq
    <2> QED
      BY <2>1, SubSeqProperties
  <1>2. /\ SubSeq(s, 1, l) \in Seq(S) /\ Len(SubSeq(s, 1, l)) = l
        /\ \A i \in 1..l : SubSeq(s, 1, l)[i] = s[i]
    <2>1. \A i \in 1..l : s[i] \in S
      BY ElementOfSeq
    <2> QED
      BY <2>1, SubSeqProperties
  <1>3. /\ SubSeq(s, m + 1, l) \in Seq(S) /\ Len(SubSeq(s, m + 1, l)) = l - m
        /\ \A i \in 1..(l - m) : SubSeq(s, m + 1, l)[i] = s[m + i]
    <2>1. \A i \in (m + 1)..l : s[i] \in S
      BY ElementOfSeq
    <2> QED
      BY <2>1, SubSeqProperties
  <1> DEFINE both == SubSeq(s, 1, m) \o SubSeq(s, m + 1, l)
  <1>4. /\ both \in Seq(S) /\ Len(both) = l
        /\ \A i \in 1..l : both[i] =
              IF i <= m THEN SubSeq(s, 1, m)[i] ELSE SubSeq(s, m + 1, l)[i - m]
    BY <1>1, <1>3, ConcatProperties
  <1>5. ASSUME NEW i \in 1..l PROVE both[i] = SubSeq(s, 1, l)[i]
    <2> HIDE DEF both
    <2>1. CASE i <= m
      BY <1>1, <1>2, <1>4, <2>1
    <2>2. CASE ~ (i <= m)
      <3>1. i - m \in 1..(l - m) /\ m + (i - m) = i
        BY <2>2
      <3> QED
        BY <1>2, <1>3, <1>4, <2>2, <3>1
    <2> QED
      BY <2>1, <2>2
  <1>6. both = SubSeq(s, 1, l)
    <2> HIDE DEF both
    <2> QED
      BY <1>2, <1>4, <1>5, SeqEqual
  <1> QED
    BY <1>2, <1>3, <1>6, SubSeqFull

\* The blocks that ProcessFile cuts give the bytes again, none is lost and none is stored
\* twice, and all of them but the last are full.
LEMMA ProcessFileCuts ==
  ASSUME NEW S, NEW bytes \in Seq(S)
  PROVE  /\ FlattenSeq(ProcessFile(bytes)) = bytes
         /\ \A i \in 1..(Len(ProcessFile(bytes)) - 1) :
               Len(ProcessFile(bytes)[i]) = CONST_BLOCKSIZE
  <1> DEFINE size == Len(bytes)
             full == size \div CONST_BLOCKSIZE
             n == full + 1
             upto(i) == Least(i * CONST_BLOCKSIZE, size)
             joined == [i \in 1..n |-> SubSeq(bytes, 1, upto(i))]
             blocks == ProcessFile(bytes)
  <1>1. size \in Nat /\ CONST_BLOCKSIZE \in Nat \ {0}
    BY ChunksAreNotEmpty, LenProperties
  <1>2. full \in Nat /\ full * CONST_BLOCKSIZE <= size /\ size < n * CONST_BLOCKSIZE
    BY <1>1, Division, Multiples
  <1>3. n \in Nat \ {0} /\ full < n
    BY <1>2
  <1> HIDE DEF full
  <1>4. blocks = [i \in 1..n |-> SubSeq(bytes, (i - 1) * CONST_BLOCKSIZE + 1, upto(i))]
    <2>1. \A i \in 1..n : (i - 1) * CONST_BLOCKSIZE + CONST_BLOCKSIZE = i * CONST_BLOCKSIZE
      <3> SUFFICES ASSUME NEW i \in 1..n
                   PROVE  (i - 1) * CONST_BLOCKSIZE + CONST_BLOCKSIZE = i * CONST_BLOCKSIZE
        OBVIOUS
      <3>1. i - 1 \in Nat /\ (i - 1) + 1 = i
        BY <1>3
      <3> QED
        BY <1>1, <3>1, Multiples
    <2> QED
      BY <2>1 DEF ProcessFile, full
  <1>5. ASSUME NEW i \in 1..n
        PROVE  /\ (i - 1) * CONST_BLOCKSIZE \in 0..size
               /\ upto(i) \in ((i - 1) * CONST_BLOCKSIZE)..size
               /\ i < n => upto(i) = i * CONST_BLOCKSIZE
               /\ upto(i) - (i - 1) * CONST_BLOCKSIZE <= CONST_BLOCKSIZE
               /\ i < n => upto(i) - (i - 1) * CONST_BLOCKSIZE = CONST_BLOCKSIZE
    <2>1. i \in Nat /\ i - 1 \in Nat /\ i - 1 <= full /\ (i - 1) + 1 = i /\ (i < n => i <= full)
      BY <1>2, <1>3
    <2>2. /\ (i - 1) * CONST_BLOCKSIZE \in Nat
          /\ (i - 1) * CONST_BLOCKSIZE <= full * CONST_BLOCKSIZE
          /\ i * CONST_BLOCKSIZE = (i - 1) * CONST_BLOCKSIZE + CONST_BLOCKSIZE
          /\ full * CONST_BLOCKSIZE \in Nat
      BY <1>1, <1>2, <2>1, Multiples
    <2>3. i < n => i * CONST_BLOCKSIZE <= full * CONST_BLOCKSIZE
      BY <1>1, <1>2, <2>1, Multiples
    <2> QED
      BY <1>1, <1>2, <2>2, <2>3 DEF Least
  <1>6. n \in 1..n /\ upto(n) = size
    BY <1>1, <1>2, <1>3 DEF Least
  <1>7. joined = [i \in 1..n |-> IF i = 1 THEN blocks[i] ELSE joined[i - 1] \o blocks[i]]
    <2> SUFFICES ASSUME NEW i \in 1..n
                 PROVE  joined[i] = IF i = 1 THEN blocks[i] ELSE joined[i - 1] \o blocks[i]
      OBVIOUS
    <2>1. /\ joined[i] = SubSeq(bytes, 1, upto(i))
          /\ blocks[i] = SubSeq(bytes, (i - 1) * CONST_BLOCKSIZE + 1, upto(i))
      BY <1>4
    <2>2. CASE i = 1
      <3>1. (i - 1) * CONST_BLOCKSIZE + 1 = 1
        BY <1>1, <2>2
      <3> QED
        BY <2>1, <2>2, <3>1
    <2>3. CASE i # 1
      <3>1. i - 1 \in 1..n /\ i - 1 < n
        BY <1>3, <2>3
      <3>2. joined[i - 1] = SubSeq(bytes, 1, (i - 1) * CONST_BLOCKSIZE)
        BY <1>5, <3>1
      <3>3. /\ (i - 1) * CONST_BLOCKSIZE \in 0..Len(bytes)
            /\ upto(i) \in ((i - 1) * CONST_BLOCKSIZE)..Len(bytes)
        BY <1>5
      <3> HIDE DEF upto, joined
      <3>4. SubSeq(bytes, 1, (i - 1) * CONST_BLOCKSIZE)
              \o SubSeq(bytes, (i - 1) * CONST_BLOCKSIZE + 1, upto(i))
            = SubSeq(bytes, 1, upto(i))
        BY <3>3, Pieces
      <3> QED
        BY <2>1, <2>3, <3>2, <3>4
    <2> QED
      BY <2>2, <2>3
  <1>8. DOMAIN blocks = 1..n /\ Len(blocks) = n
    BY <1>3, <1>4
  <1>9. joined[n] = bytes
    BY <1>6, SubSeqFull
  <1>10. FlattenSeq(blocks) = bytes
    <2>1. DOMAIN joined = 1..n
      OBVIOUS
    <2> HIDE DEF joined, blocks, n
    <2> QED
      BY <1>3, <1>7, <1>8, <1>9, <2>1, FlattenIs
  <1>11. ASSUME NEW i \in 1..(n - 1) PROVE Len(blocks[i]) = CONST_BLOCKSIZE
    <2>1. i \in 1..n /\ i < n
      BY <1>3
    <2>2. blocks[i] = SubSeq(bytes, (i - 1) * CONST_BLOCKSIZE + 1, upto(i))
      BY <1>4, <2>1
    <2>3. /\ (i - 1) * CONST_BLOCKSIZE \in 0..Len(bytes)
          /\ upto(i) \in ((i - 1) * CONST_BLOCKSIZE)..Len(bytes)
          /\ upto(i) - (i - 1) * CONST_BLOCKSIZE = CONST_BLOCKSIZE
      BY <1>5, <2>1
    <2> HIDE DEF upto
    <2>4. Len(blocks[i]) = upto(i) - (i - 1) * CONST_BLOCKSIZE
      BY <2>2, <2>3, Pieces
    <2> QED
      BY <2>3, <2>4
  <1> QED
    BY <1>8, <1>10, <1>11

\* The bytes of a file from one position to another, as a sequence.
LEMMA BytesAreThere ==
  ASSUME NEW u \in Uploads, NEW first \in Nat \ {0}, NEW last \in Nat, first <= Size[u] + 1,
         first <= last + 1
  PROVE  /\ Bytes(u, first, last) \in Seq(Nat)
         /\ Len(Bytes(u, first, last)) = Least(last, Size[u]) + 1 - first
         /\ \A i \in 1..(Least(last, Size[u]) + 1 - first) :
               Bytes(u, first, last)[i] = first + i - 1
  <1> DEFINE len == Least(last, Size[u]) + 1 - first
  <1>1. Size[u] \in Nat
    BY SizesAreNumbers
  <1>2. len \in Nat
    BY <1>1 DEF Least
  <1>3. Bytes(u, first, last) \in [1..len -> Nat]
    BY <1>1, <1>2 DEF Bytes
  <1>4. Bytes(u, first, last) \in Seq(Nat)
    BY <1>2, <1>3, SeqDef
  <1> QED
    BY <1>2, <1>3, <1>4 DEF Bytes

LEMMA ChunksCover ==
  ASSUME NEW u \in Uploads
  PROVE  /\ Chunks(u) \in Nat /\ Size[u] \in Nat
         /\ Chunks(u) = 0 => Size[u] = 0
         /\ Size[u] <= Chunks(u) * ChunkSize
         /\ \A i \in 1..Chunks(u) : /\ (i - 1) * ChunkSize \in Nat
                                    /\ i * ChunkSize = (i - 1) * ChunkSize + ChunkSize
                                    /\ (i - 1) * ChunkSize <= Size[u]
  <1> DEFINE n == Chunks(u)
  <1>1. Size[u] \in Nat /\ ChunkSize \in Nat \ {0}
    BY SizesAreNumbers, ChunksAreNotEmpty
  <1>2. Size[u] + ChunkSize - 1 \in Nat
    BY <1>1
  <1>3. /\ n \in Nat /\ n * ChunkSize <= Size[u] + ChunkSize - 1
        /\ Size[u] + ChunkSize - 1 < n * ChunkSize + ChunkSize
    BY <1>1, <1>2, Division DEF Chunks
  <1> HIDE DEF n
  <1>4. ASSUME NEW i \in 1..n
        PROVE  /\ (i - 1) * ChunkSize \in Nat
               /\ i * ChunkSize = (i - 1) * ChunkSize + ChunkSize
               /\ (i - 1) * ChunkSize <= Size[u]
    <2>1. i \in Nat /\ i - 1 \in Nat /\ (i - 1) + 1 = i /\ i <= n
      BY <1>3
    <2>2. /\ (i - 1) * ChunkSize \in Nat /\ i * ChunkSize \in Nat
          /\ i * ChunkSize = (i - 1) * ChunkSize + ChunkSize
      BY <1>1, <2>1, Multiples
    <2>3. i * ChunkSize <= n * ChunkSize /\ n * ChunkSize \in Nat
      BY <1>1, <1>3, <2>1, Multiples
    <2> QED
      BY <1>1, <1>3, <2>2, <2>3
  <1>5. n = 0 => n * ChunkSize = 0
    BY <1>1
  <1>6. n * ChunkSize \in Nat
    BY <1>1, <1>3, Multiples
  <1>7. Size[u] <= n * ChunkSize /\ (n = 0 => Size[u] = 0)
    BY <1>1, <1>3, <1>5, <1>6
  <1> QED
    BY <1>1, <1>3, <1>4, <1>7 DEF n

\* A complete temporary file has the bytes of the file, however it was cut into chunks.
LEMMA ChunksGiveTheFile ==
  ASSUME NEW u \in Uploads, temp[u] = File[u]
  PROVE  FileBytes(u) = Bytes(u, 1, Size[u]) /\ Bytes(u, 1, Size[u]) \in Seq(Nat)
  <1> DEFINE n == Chunks(u)
             before(i) == (i - 1) * ChunkSize
             parts == [i \in 1..n |-> Bytes(u, before(i) + 1, i * ChunkSize)]
             joined == [i \in 1..n |-> Bytes(u, 1, i * ChunkSize)]
  <1>1. /\ n \in Nat /\ Size[u] \in Nat /\ ChunkSize \in Nat \ {0}
        /\ n = 0 => Size[u] = 0
        /\ Size[u] <= n * ChunkSize
        /\ \A i \in 1..n : /\ before(i) \in Nat /\ i * ChunkSize = before(i) + ChunkSize
                           /\ before(i) <= Size[u]
    BY ChunksCover, ChunksAreNotEmpty
  <1>2. FileBytes(u) = FlattenSeq(parts)
    <2>1. temp[u] = [i \in 1..n |-> i]
      BY DEF File
    <2> QED
      BY <2>1 DEF FileBytes
  <1> HIDE DEF n, before
  <1>3. DOMAIN parts = 1..n /\ Len(parts) = n
    BY <1>1
  <1>4. Bytes(u, 1, Size[u]) \in Seq(Nat)
    BY <1>1, BytesAreThere
  <1>5. CASE n = 0
    <2>1. Bytes(u, 1, Size[u]) = <<>>
      <3>1. Len(Bytes(u, 1, Size[u])) = 0
        BY <1>1, <1>5, BytesAreThere DEF Least
      <3> QED
        BY <1>4, <3>1, EmptySeq
    <2>2. parts = <<>>
      <3>1. parts \in Seq(Nat)
        <4>1. parts \in [1..0 -> Nat] /\ 0 \in Nat
          BY <1>5
        <4> HIDE DEF parts
        <4> QED
          BY <4>1, SeqDef
      <3> QED
        BY <1>3, <1>5, <3>1, EmptySeq
    <2>3. FlattenSeq(parts) = parts
      <3> HIDE DEF parts
      <3> QED
        BY <1>3, <1>5 DEF FlattenSeq
    <2> QED
      BY <1>2, <1>4, <2>1, <2>2, <2>3
  <1>6. CASE n # 0
    <2>1. n \in Nat \ {0} /\ n \in 1..n
      BY <1>1, <1>6
    <2>2. joined = [i \in 1..n |-> IF i = 1 THEN parts[i] ELSE joined[i - 1] \o parts[i]]
      <3> SUFFICES ASSUME NEW i \in 1..n
                   PROVE  joined[i] = IF i = 1 THEN parts[i] ELSE joined[i - 1] \o parts[i]
        OBVIOUS
      <3>1. /\ before(i) \in Nat /\ i * ChunkSize = before(i) + ChunkSize
            /\ before(i) <= Size[u]
        BY <1>1
      <3>2. CASE i = 1
        <4>1. before(1) = 0
          BY <1>1 DEF before
        <4> QED
          BY <3>2, <4>1
      <3>3. CASE i # 1
        <4> DEFINE s == Bytes(u, 1, before(i))
                   t == Bytes(u, before(i) + 1, i * ChunkSize)
                   w == Bytes(u, 1, i * ChunkSize)
                   b == before(i)
                   l == Least(i * ChunkSize, Size[u])
        <4>1. joined[i - 1] = s /\ parts[i] = t /\ joined[i] = w
          <5>1. i - 1 \in 1..n
            BY <1>1, <3>3
          <5> QED
            BY <5>1 DEF before
        <4>2. b \in Nat /\ l \in Nat /\ b <= l /\ Least(b, Size[u]) = b
          BY <1>1, <3>1 DEF Least
        <4>3. /\ s \in Seq(Nat) /\ Len(s) = b /\ \A k \in 1..b : s[k] = k
          <5>1. /\ s \in Seq(Nat) /\ Len(s) = Least(b, Size[u]) + 1 - 1
                /\ \A k \in 1..(Least(b, Size[u]) + 1 - 1) : s[k] = 1 + k - 1
            <6>1. /\ 1 \in Nat \ {0} /\ before(i) \in Nat /\ 1 <= Size[u] + 1
                  /\ 1 <= before(i) + 1
              BY <1>1, <3>1
            <6> QED
              BY <6>1, BytesAreThere
          <5> HIDE DEF s, b
          <5> QED
            BY <4>2, <5>1
        <4>4. /\ t \in Seq(Nat) /\ Len(t) = l - b /\ \A k \in 1..(l - b) : t[k] = b + k
          <5>1. /\ t \in Seq(Nat) /\ Len(t) = l + 1 - (b + 1)
                /\ \A k \in 1..(l + 1 - (b + 1)) : t[k] = (b + 1) + k - 1
            <6>1. /\ before(i) + 1 \in Nat \ {0} /\ i * ChunkSize \in Nat
                  /\ before(i) + 1 <= Size[u] + 1 /\ before(i) + 1 <= i * ChunkSize + 1
              BY <1>1, <3>1
            <6> QED
              BY <6>1, BytesAreThere
          <5> HIDE DEF t, b, l
          <5> QED
            BY <4>2, <5>1
        <4>5. /\ w \in Seq(Nat) /\ Len(w) = l /\ \A k \in 1..l : w[k] = k
          <5>1. /\ w \in Seq(Nat) /\ Len(w) = l + 1 - 1
                /\ \A k \in 1..(l + 1 - 1) : w[k] = 1 + k - 1
            <6>1. /\ 1 \in Nat \ {0} /\ i * ChunkSize \in Nat /\ 1 <= Size[u] + 1
                  /\ 1 <= i * ChunkSize + 1
              BY <1>1, <3>1
            <6> QED
              BY <6>1, BytesAreThere
          <5> HIDE DEF w, l
          <5> QED
            BY <4>2, <5>1
        <4> HIDE DEF s, t, w, b, l
        <4>6. /\ s \o t \in Seq(Nat) /\ Len(s \o t) = l
              /\ \A k \in 1..l : (s \o t)[k] = IF k <= b THEN s[k] ELSE t[k - b]
          <5>1. /\ s \o t \in Seq(Nat) /\ Len(s \o t) = Len(s) + Len(t)
                /\ \A k \in 1..(Len(s) + Len(t)) :
                      (s \o t)[k] = IF k <= Len(s) THEN s[k] ELSE t[k - Len(s)]
            BY <4>3, <4>4, ConcatProperties
          <5>2. Len(s) = b /\ Len(s) + Len(t) = l
            BY <4>2, <4>3, <4>4
          <5> QED
            BY <5>1, <5>2
        <4>7. \A k \in 1..l : (s \o t)[k] = w[k]
          BY <4>2, <4>3, <4>4, <4>5, <4>6
        <4>8. s \o t = w
          BY <4>5, <4>6, <4>7, SeqEqual
        <4> QED
          BY <3>3, <4>1, <4>8
      <3> QED
        BY <3>2, <3>3
    <2>3. DOMAIN joined = 1..n
      OBVIOUS
    <2>4. joined[n] = Bytes(u, 1, Size[u])
      BY <1>1, <2>1 DEF Bytes, Least
    <2>5. FlattenSeq(parts) = joined[n]
      <3> HIDE DEF parts, joined
      <3> QED
        BY <1>3, <2>1, <2>2, <2>3, FlattenIs
    <2> QED
      BY <1>2, <1>4, <2>4, <2>5
  <1> QED
    BY <1>5, <1>6

(***************************************************************************)
(* What is stored.  A job is made of a complete file whose session is      *)
(* over; the temporary file stays as it is from there on, so that the      *)
(* worker reads it whole whenever the job is delivered, and however often. *)
(***************************************************************************)
Scheduled == {u \in Uploads : jobs[u] # <<>>}
Handed(u) == jobs[u] # <<>> => temp[u] = File[u] /\ session[u] = "none"
HandedOver == \A u \in Uploads \ repeated : Handed(u)
QueuedIsScheduled ==
    /\ publishing \in Seq(Scheduled) /\ queue \in Seq(Scheduled)
    /\ job \in {<<>>} \cup {<<u>> : u \in Scheduled}
Cut(u) == ProcessFile(Bytes(u, 1, Size[u]))
StoredIsCut == \A u \in Uploads \ repeated : stored[u] \in Seq({Cut(u)})
StoredInv == HandedOver /\ QueuedIsScheduled /\ StoredIsCut

\* Who still has a request on its way has no job.
LEMMA RequestsComeFirst ==
  ASSUME UploadsInv, NEW r \in requests, r.upload \notin repeated
  PROVE  jobs[r.upload] = <<>>
  <1>1. r.upload \in Uploads
    BY SentFields DEF UploadsInv, UploadsTypeOK, DialogTypeOK
  <1>2. Orderly(r.upload)
    BY <1>1 DEF UploadsInv, Ordered
  <1> QED
    BY <1>2 DEF Orderly, OneAtATime, InStep

\* Requests alone change the session and the temporary file, but for the end of the stream.
LEMMA HandedStays ==
  ASSUME UploadsInv, HandedOver, [Next]_vars
  PROVE  HandedOver'
  <1> SUFFICES ASSUME NEW u \in Uploads \ repeated', jobs'[u] # <<>>
               PROVE  temp'[u] = File[u] /\ session'[u] = "none"
    BY DEF HandedOver, Handed
  <1> USE DEF dialog, receiver, broker, processor, faults
  <1>1. u \in Uploads \ repeated
    BY DEF Next, vars, RepeatRequest, InitUpload, OrchestrateFileUpload, LoseAnswer, Serve,
           CreateNewFile, UploadFileRevision, AppendChunk, FinishUpload, EndFinish, BreakStream,
           FailFinish, Publish, Work, Deliver, UploadFileFromDisk, Unlink, Acknowledge, Crash
  <1>2. Handed(u) /\ Orderly(u) /\ Truthful(u)
    BY <1>1 DEF HandedOver, UploadsInv, Honest, Ordered
  <1>3. ASSUME temp' = temp, session' = session, jobs' = jobs
        PROVE  temp'[u] = File[u] /\ session'[u] = "none"
    BY <1>2, <1>3 DEF Handed
  <1>4. ASSUME NEW r \in requests,
               CreateNewFile(r) \/ UploadFileRevision(r) \/ AppendChunk(r) \/ FinishUpload(r)
        PROVE  temp'[u] = File[u] /\ session'[u] = "none"
    <2>1. jobs' = jobs /\ jobs[u] # <<>>
      BY <1>4 DEF CreateNewFile, UploadFileRevision, AppendChunk, FinishUpload
    <2>2. r.upload # u /\ r.upload \in Uploads
      BY <1>1, <2>1, RequestsComeFirst, SentFields DEF UploadsInv, UploadsTypeOK, DialogTypeOK
    <2>3. temp'[u] = temp[u] /\ session'[u] = session[u]
      BY <1>1, <1>4, <2>2 DEF CreateNewFile, InitNewFileUpload, UploadFileRevision, OpenSession,
                AppendChunk, Write, FinishUpload, UploadsInv, UploadsTypeOK, ReceiverTypeOK
    <2> QED
      BY <1>2, <2>1, <2>3 DEF Handed
  <1>5. ASSUME NEW v \in Uploads, EndFinish(v)
        PROVE  temp'[u] = File[u] /\ session'[u] = "none"
    <2>1. temp' = temp /\ session' = [session EXCEPT ![v] = "none"]
      BY <1>5 DEF EndFinish
    <2>2. CASE v = u
      <3>1. temp[u] = File[u]
        BY <1>1, <1>2, <1>5, <2>2 DEF EndFinish, Truthful, Orderly, OneAtATime, InStep
      <3> QED
        BY <1>1, <2>1, <2>2, <3>1 DEF UploadsInv, UploadsTypeOK, ReceiverTypeOK
    <2>3. CASE v # u
      <3>1. jobs'[u] = jobs[u]
        BY <1>1, <1>5, <2>3, EndFinishSchedules
      <3> QED
        BY <1>1, <1>2, <2>1, <2>3, <3>1 DEF Handed, UploadsInv, UploadsTypeOK, ReceiverTypeOK
    <2> QED
      BY <2>2, <2>3
  <1>6. ASSUME NEW v \in Uploads, BreakStream(v)
        PROVE  temp'[u] = File[u] /\ session'[u] = "none"
    <2>1. temp' = temp /\ jobs' = jobs /\ session' = [session EXCEPT ![v] = "broken"]
          /\ session[v] # "none"
      BY <1>6 DEF BreakStream
    <2> QED
      BY <1>1, <1>2, <2>1 DEF Handed, UploadsInv, UploadsTypeOK, ReceiverTypeOK
  <1>7. CASE Crash
    BY <1>1, <1>2, <1>7 DEF Crash, Handed
  <1>8. CASE \/ \E v \in Uploads : InitUpload(v) \/ OrchestrateFileUpload(v) \/ LoseAnswer(v)
                                  \/ FailFinish(v)
             \/ \E r \in requests : RepeatRequest(r)
             \/ Publish \/ Work \/ UNCHANGED vars
    <2>1. temp' = temp /\ session' = session /\ jobs' = jobs
      BY <1>8 DEF InitUpload, OrchestrateFileUpload, LoseAnswer, FailFinish, RepeatRequest,
                  Publish, Work, Deliver, UploadFileFromDisk, Unlink, Acknowledge, vars
    <2> QED
      BY <1>3, <2>1
  <1> QED
    BY <1>4, <1>5, <1>6, <1>7, <1>8 DEF Next, Serve

LEMMA ScheduledStays ==
  ASSUME UploadsInv, [Next]_vars
  PROVE  Scheduled \subseteq Scheduled'
  <1> USE DEF receiver
  <1>1. ASSUME NEW u \in Uploads, EndFinish(u)
        PROVE  Scheduled \subseteq Scheduled'
    BY <1>1, EndFinishSchedules DEF Scheduled
  <1>2. CASE \A u \in Uploads : ~ EndFinish(u)
    <2>1. jobs' = jobs
      BY <1>2 DEF Next, vars, RepeatRequest, InitUpload, OrchestrateFileUpload, LoseAnswer,
           Serve, CreateNewFile, UploadFileRevision, AppendChunk, FinishUpload, BreakStream,
           FailFinish, Publish, Work, Deliver, UploadFileFromDisk, Unlink, Acknowledge, Crash
    <2> QED
      BY <2>1 DEF Scheduled
  <1> QED
    BY <1>1, <1>2

LEMMA QueuedStays ==
  ASSUME UploadsInv, QueuedIsScheduled, [Next]_vars
  PROVE  QueuedIsScheduled'
  <1> DEFINE Now == Scheduled'
  <1>1. /\ publishing \in Seq(Now) /\ queue \in Seq(Now)
        /\ job \in {<<>>} \cup {<<u>> : u \in Now}
    <2>1. Scheduled \subseteq Now
      BY ScheduledStays
    <2> HIDE DEF Now
    <2>2. publishing \in Seq(Now) /\ queue \in Seq(Now)
      BY <2>1, SeqMonotonic DEF QueuedIsScheduled
    <2> QED
      BY <2>1, <2>2 DEF QueuedIsScheduled
  <1> SUFFICES /\ publishing' \in Seq(Now) /\ queue' \in Seq(Now)
               /\ job' \in {<<>>} \cup {<<u>> : u \in Now}
    BY DEF QueuedIsScheduled
  <1> USE DEF dialog, receiver, broker, processor, faults
  <1>2. ASSUME NEW u \in Uploads, EndFinish(u)
        PROVE  publishing' \in Seq(Now) /\ queue' = queue /\ job' = job
    <2> DEFINE n == Cardinality(finishing[u])
               more == [i \in 1..n |-> u]
    <2>1. publishing' = publishing \o more /\ queue' = queue /\ job' = job
      BY <1>2 DEF EndFinish, ScheduleJobs
    <2>2. u \in Now
      BY <1>2, EndFinishSchedules DEF Scheduled
    <2>3. n \in Nat
      <3>1. finishing[u] \in SUBSET Ends(u)
        BY DEF UploadsInv, UploadsTypeOK, ReceiverTypeOK
      <3>2. finishing[u] # {}
        BY <1>2 DEF EndFinish, UploadsInv, Honest, Truthful
      <3> QED
        BY <3>1, <3>2, EndsAreCounted
    <2> HIDE DEF Now, n
    <2>4. more \in Seq(Now)
      BY <2>2, <2>3
    <2> HIDE DEF more
    <2>5. publishing \o more \in Seq(Now)
      BY <1>1, <2>4, ConcatProperties
    <2> QED
      BY <2>1, <2>5
  <1>3. CASE Publish
    <2>1. /\ publishing # <<>> /\ publishing' = Tail(publishing) /\ job' = job
          /\ queue' = queue \/ queue' = Append(queue, Head(publishing))
      BY <1>3, Zenon DEF Publish
    <2> HIDE DEF Now
    <2>2. Head(publishing) \in Now /\ Tail(publishing) \in Seq(Now)
      BY <1>1, <2>1, HeadTailProperties
    <2>3. Append(queue, Head(publishing)) \in Seq(Now)
      BY <1>1, <2>2
    <2> QED
      BY <1>1, <2>1, <2>2, <2>3
  <1>4. CASE Deliver
    <2>1. /\ queue # <<>> /\ queue' = Tail(queue) /\ job' = <<Head(queue)>>
          /\ publishing' = publishing
      BY <1>4 DEF Deliver
    <2> HIDE DEF Now
    <2>2. Head(queue) \in Now /\ Tail(queue) \in Seq(Now)
      BY <1>1, <2>1, HeadTailProperties
    <2> QED
      BY <1>1, <2>1, <2>2
  <1>5. CASE Crash
    <2>1. publishing' = <<>> /\ queue' = job \o queue /\ job' = <<>>
      BY <1>5 DEF Crash
    <2> HIDE DEF Now
    <2>2. job \in Seq(Now)
      <3>1. job = <<>> \/ \E u \in Now : job = <<u>>
        BY <1>1
      <3>2. \A u \in Now : <<u>> \in Seq(Now)
        OBVIOUS
      <3> QED
        BY <3>1, <3>2, EmptySeq
    <2>3. job \o queue \in Seq(Now) /\ <<>> \in Seq(Now)
      BY <1>1, <2>2, ConcatProperties, EmptySeq
    <2> QED
      BY <2>1, <2>3
  <1>6. CASE UploadFileFromDisk \/ Unlink \/ Acknowledge
    <2>1. publishing' = publishing /\ queue' = queue /\ job' \in {job, <<>>}
      BY <1>6 DEF UploadFileFromDisk, Unlink, Acknowledge
    <2> QED
      BY <1>1, <2>1
  <1>7. CASE \/ \E v \in Uploads : InitUpload(v) \/ OrchestrateFileUpload(v) \/ LoseAnswer(v)
                                  \/ FailFinish(v) \/ BreakStream(v)
             \/ \E r \in requests : RepeatRequest(r) \/ CreateNewFile(r)
                   \/ UploadFileRevision(r) \/ AppendChunk(r) \/ FinishUpload(r)
             \/ UNCHANGED vars
    <2>1. publishing' = publishing /\ queue' = queue /\ job' = job
      BY <1>7 DEF InitUpload, OrchestrateFileUpload, LoseAnswer, FailFinish, BreakStream,
                  RepeatRequest, CreateNewFile, UploadFileRevision, AppendChunk, FinishUpload,
                  vars
    <2> QED
      BY <1>1, <2>1
  <1> HIDE DEF Now
  <1> QED
    BY <1>1, <1>2, <1>3, <1>4, <1>5, <1>6, <1>7 DEF Next, Serve, Work

\* The worker stores what it cuts the complete file into.
LEMMA StoredStays ==
  ASSUME UploadsInv, StoredInv, [Next]_vars
  PROVE  StoredIsCut'
  <1> SUFFICES ASSUME NEW u \in Uploads \ repeated'
               PROVE  stored'[u] \in Seq({Cut(u)})
    BY DEF StoredIsCut, Cut, ProcessFile, Bytes, Least
  <1> USE DEF dialog, receiver, broker, processor, faults
  <1>1. u \in Uploads \ repeated
    BY DEF Next, vars, RepeatRequest, InitUpload, OrchestrateFileUpload, LoseAnswer, Serve,
           CreateNewFile, UploadFileRevision, AppendChunk, FinishUpload, EndFinish, BreakStream,
           FailFinish, Publish, Work, Deliver, UploadFileFromDisk, Unlink, Acknowledge, Crash
  <1>2. stored[u] \in Seq({Cut(u)})
    BY <1>1 DEF StoredInv, StoredIsCut
  <1>3. CASE UploadFileFromDisk
    <2>1. PICK v \in Scheduled : job = <<v>>
      BY <1>3 DEF UploadFileFromDisk, StoredInv, QueuedIsScheduled, UploadsInv, UploadsTypeOK,
                  ProcessorTypeOK
    <2>2. Head(job) = v /\ v \in Uploads /\ jobs[v] # <<>>
      BY <2>1 DEF Scheduled
    <2>3. \/ stored' = stored
          \/ stored' = [stored EXCEPT ![v] = Append(stored[v], ProcessFile(FileBytes(v)))]
      BY <1>3, <2>2, Zenon DEF UploadFileFromDisk
    <2>4. CASE v # u
      <3>1. u \in DOMAIN stored
        BY <1>1 DEF UploadsInv, UploadsTypeOK, ProcessorTypeOK
      <3>2. stored'[u] = stored[u]
        BY <2>3, <2>4, <3>1
      <3> QED
        BY <1>2, <3>2
    <2>5. CASE v = u
      <3>1. temp[u] = File[u]
        BY <1>1, <2>2, <2>5 DEF StoredInv, HandedOver, Handed
      <3>2. ProcessFile(FileBytes(u)) = Cut(u)
        BY <3>1, ChunksGiveTheFile DEF Cut
      <3>3. stored'[u] = stored[u] \/ stored'[u] = Append(stored[u], Cut(u))
        BY <1>1, <2>3, <2>5, <3>2 DEF UploadsInv, UploadsTypeOK, ProcessorTypeOK
      <3> QED
        BY <1>2, <3>3
    <2> QED
      BY <2>4, <2>5
  <1>4. CASE ~ UploadFileFromDisk
    <2>1. stored' = stored
      BY <1>4 DEF Next, vars, RepeatRequest, InitUpload, OrchestrateFileUpload, LoseAnswer,
           Serve, CreateNewFile, UploadFileRevision, AppendChunk, FinishUpload, EndFinish,
           BreakStream, FailFinish, Publish, Work, Deliver, Unlink, Acknowledge, Crash
    <2> QED
      BY <1>2, <2>1
  <1> QED
    BY <1>3, <1>4

\* What is stored of an upload is the file that was chosen in the dialog, byte for byte and in
\* full blocks but for the last one, for any sizes of files, chunks and blocks, however often
\* the service crashes and the job is delivered; unless a request of it arrived twice.
THEOREM StoredStaysTheFile == Spec => []StoredIsFile
  <1>1. Init => StoredInv
    BY EmptySeq DEF Init, StoredInv, HandedOver, Handed, QueuedIsScheduled, StoredIsCut
  <1>2. UploadsInv /\ StoredInv /\ [Next]_vars => StoredInv'
    BY HandedStays, QueuedStays, StoredStays DEF StoredInv
  <1>3. StoredInv => StoredIsFile
    <2> SUFFICES ASSUME StoredInv, NEW u \in Uploads \ repeated, NEW revision \in Range(stored[u])
                 PROVE  /\ FlattenSeq(revision) = Bytes(u, 1, Size[u])
                        /\ \A i \in 1..(Len(revision) - 1) : Len(revision[i]) = CONST_BLOCKSIZE
      BY DEF StoredIsFile
    <2>1. stored[u] \in Seq({Cut(u)})
      BY DEF StoredInv, StoredIsCut
    <2>2. revision = Cut(u)
      BY <2>1 DEF Range
    <2>3. Bytes(u, 1, Size[u]) \in Seq(Nat)
      <3>1. Size[u] \in Nat
        BY SizesAreNumbers
      <3> QED
        BY <3>1, BytesAreThere
    <2> QED
      BY <2>2, <2>3, ProcessFileCuts DEF Cut
  <1> QED
    BY <1>1, <1>2, <1>3, UploadsInvariance, PTL DEF Spec

=============================================================================
