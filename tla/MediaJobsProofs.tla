-------------------------- MODULE MediaJobsProofs --------------------------
(***************************************************************************)
(* What is recorded of a file is what was saved, a worker that stops has a  *)
(* reason, and thumbnails are made: for any users, files, blobs and tools,  *)
(* and for failures and crashes at every step.                              *)
(***************************************************************************)
EXTENDS MediaJobs, FiniteSetTheorems, SequenceTheorems, TLAPS

(***************************************************************************)
(* The records of FileRecords.                                             *)
(***************************************************************************)
\* Whatever users enter as the id of a place.
Ids == OsmIds \cup {None, Photo} \cup {edit.osmId : edit \in Edits}
Form == [file : Files \cup {None}, path : Seq(STRING), tags : Seq(Tags), osmId : Ids]

RecordTypes ==
    /\ filePath \in [Files -> Paths] /\ deleted \subseteq Files
    /\ tagContainer \in [Tags -> Containers \cup {None}]
    /\ fileTags \in [Files -> [Tags -> Nat]]
    /\ location \in [Files -> Ids]
    /\ pc \in [Requests -> {"idle", "editing", "path", "untag", "tags", "link", "unlocate",
                            "relocate", "saved", "failed"}]
    /\ form \in [Requests -> Form]
    /\ tagging \in [Requests -> Seq({"query", "insert", "known", "refused"})]
    /\ linked \in [Requests -> Nat]
    /\ locating \subseteq Files /\ overlapped \subseteq Requests
    /\ saved \in [Files -> {<<>>} \cup {<<record>> : record \in Form}]

\* How far a request is tells what it has done.
FormIsFilled == \A q \in Requests :
    pc[q] # "idle" => form[q].file \in Files /\ form[q].path # <<>>

TagsAreAsked == \A q \in Requests :
    /\ pc[q] \in {"idle", "editing", "path", "untag"} => tagging[q] = <<>>
    /\ pc[q] \in {"tags", "link", "unlocate", "relocate"} => Len(tagging[q]) = Len(form[q].tags)
    /\ Len(tagging[q]) <= Len(form[q].tags)
    /\ pc[q] \in {"link", "unlocate", "relocate", "saved"} =>
          \A i \in 1..Len(tagging[q]) : tagging[q][i] = "known"

TagsAreLinked == \A q \in Requests :
    /\ pc[q] \in {"idle", "editing", "path", "untag", "tags"} => linked[q] = 0
    /\ pc[q] \in {"unlocate", "relocate"} => linked[q] = Len(form[q].tags)

PlaceIsKnown == \A q \in Requests :
    /\ pc[q] \in {"unlocate", "relocate"} => form[q].osmId \in OsmIds \cup {None}
    /\ pc[q] = "relocate" => form[q].osmId # None

\* What a request knows of a tag stays true.
KnownTags == \A q \in Requests : \A i \in 1..Len(tagging[q]) :
    tagging[q][i] = "known" => tagContainer[form[q].tags[i]] = ContainerOf[form[q].file]

\* Writers of a file who are not alone know it, and while one writes nothing counts as saved.
WritersMeet == \A f \in Files :
    /\ \A q, r \in Writing(f) : q # r => q \in overlapped
    /\ f \in locating => Writing(f) \subseteq overlapped
    /\ Writing(f) # {} => saved[f] = <<>>

Given(record, n, t) == Cardinality({i \in 1..n : record.tags[i] = t})

\* What a request that is alone has written is there.
Progress == \A f \in Files : \A q \in Writing(f) \ overlapped :
    /\ filePath[f] = form[q].path
    /\ pc[q] = "tags" => fileTags[f] = NoTags
    /\ pc[q] \in {"link", "unlocate", "relocate"} =>
          \A t \in Tags : fileTags[f][t] = Given(form[q], linked[q], t)
    /\ pc[q] = "relocate" => location[f] = None

SavedIsThere == \A f \in Files : \A record \in Form : saved[f] = <<record>> =>
    /\ filePath[f] = record.path
    /\ location[f] \in IF record.osmId = None THEN {None, Photo} ELSE {record.osmId}
    /\ \A t \in Tags : fileTags[f][t] = Given(record, Len(record.tags), t)
    /\ f \in locating => record.osmId = None

RecordInv ==
    /\ RecordTypes /\ FormIsFilled /\ TagsAreAsked /\ TagsAreLinked /\ PlaceIsKnown
    /\ KnownTags /\ TagsStayInContainer /\ WritersMeet /\ Progress /\ SavedIsThere

(***************************************************************************)
(* The worker of MediaJobs.                                                *)
(***************************************************************************)
Jobs == [type : {"upload", "thumbs", "version"}, blob : Blobs, again : BOOLEAN]

Uploading == {"upload", "reviseNew", "reviseOld", "announce"}
Locating == {"locate", "check", "unlocate", "relocate"}
Points(type) == {"ack", "failed"} \cup
    IF type = "upload" THEN Uploading \cup Locating
    ELSE IF type = "thumbs" THEN {"thumbs", "exif", "pictures", "add"} \cup Locating
    ELSE {"version"}

WorkerTypes ==
    /\ publishing \in Seq(Jobs) /\ queue \in Seq(Jobs)
    /\ \/ job = <<>> /\ at = "idle"
       \/ \E m \in Jobs : job = <<m>> /\ at \in Points(m.type)
    /\ added \in Nat /\ toLocate \subseteq Files /\ channels \in 0..ChannelMax
    /\ asked \in Seq(Blobs) /\ failures \in Nat /\ crashes \in Nat

\* Jobs of one kind for a blob.
Of(seq, type, b) == {i \in DOMAIN seq : seq[i].type = type /\ seq[i].blob = b}
Pending(type, b) == Of(job, type, b) # {} \/ Of(queue, type, b) # {} \/ Of(publishing, type, b) # {}

Once(seq, type, b) == \A i, j \in Of(seq, type, b) : i = j
Single(type, b) ==
    /\ Once(queue, type, b) /\ Once(publishing, type, b)
    /\ Of(job, type, b) # {} => Of(queue, type, b) = {} /\ Of(publishing, type, b) = {}
    /\ Of(queue, type, b) # {} => Of(publishing, type, b) = {}

NoThumbs(b) == \A i \in DOMAIN Thumbs(b) : <<b, Thumbs(b)[i]>> \notin versions
NoStream(b) == <<b, StreamVersion[b]>> \notin versions
Differ(b) == IsInjective(Versions(b))

\* Thumbnails are ordered once, for a blob that is new.
ThumbsOnce == \A b \in Blobs :
    /\ Single("thumbs", b)
    /\ Pending("thumbs", b) \/ (Differ(b) /\ ~NoThumbs(b)) => b \in blobs
    /\ at \in {"reviseNew", "announce"} /\ Current.blob = b =>
          b \in blobs /\ ~ Pending("thumbs", b) /\ (Differ(b) => NoThumbs(b))

VersionOnce == \A b \in Blobs :
    /\ Count(b) <= 1 => Single("version", b)
    /\ Count(b) = 0 => ~ Pending("version", b) /\ (Differ(b) => NoStream(b))

First(m) == ~ m.again /\ Differ(m.blob)

\* What a job that has not been begun is to make is not there yet.
Waiting(m) == (\E i \in DOMAIN queue : queue[i] = m) \/ \E i \in DOMAIN publishing : publishing[i] = m

ToDo(m) == First(m) =>
    /\ m.type = "thumbs" => NoThumbs(m.blob)
    /\ m.type = "version" /\ Count(m.blob) <= 1 => NoStream(m.blob)

WaitingIsToDo == \A m \in Jobs : Waiting(m) => ToDo(m)

CurrentIsToDo == \A m \in Jobs : job = <<m>> /\ First(m) =>
    /\ m.type = "thumbs" /\ at \notin {"add", "ack", "failed"} => NoThumbs(m.blob)
    /\ at = "add" => \A i \in DOMAIN Thumbs(m.blob) :
          <<m.blob, Thumbs(m.blob)[i]>> \in versions => i <= added
    /\ at = "version" /\ Count(m.blob) <= 1 => NoStream(m.blob)

AllThere(b) == \A i \in DOMAIN Thumbs(b) : <<b, Thumbs(b)[i]>> \in versions

\* While thumbnails are added.
AddedAreThere == \A m \in Jobs : job = <<m>> =>
    /\ at \notin {"add", "ack", "failed"} => added = 0
    /\ at = "add" => added < Len(Thumbs(m.blob)) /\ ExtractVideoStream(m.blob)
    /\ at = "add" => \A i \in 1..added : <<m.blob, Thumbs(m.blob)[i]>> \in versions
    /\ m.type = "thumbs" /\ at = "ack" =>
          AllThere(m.blob) \/ MediaType[m.blob] = "audio" \/ VideoStreams[m.blob] = NotMedia

\* A location that appears while the job sets it was saved by a user.
Told(f) == \E q \in Requests : pc[q] = "saved" /\ form[q].file = f /\ form[q].osmId \in OsmIds

LocationIsTold ==
    /\ \A f, g \in locating : f = g
    /\ at \in {"unlocate", "relocate"} => locating # {}
    /\ at = "relocate" => \A f \in locating : location[f] # None => Told(f)

WorkerInv ==
    /\ WorkerTypes /\ ThumbsOnce /\ VersionOnce /\ WaitingIsToDo /\ CurrentIsToDo
    /\ AddedAreThere /\ LocationIsTold /\ WorkerStopsForAReason

(***************************************************************************)
(* The tags of a file, as the API answers them.                            *)
(***************************************************************************)
LEMMA FiniteSequences ==
    ASSUME NEW S, IsFiniteSet(S)
    PROVE  /\ SetToSeq(S) \in Seq(S) /\ Len(SetToSeq(S)) = Cardinality(S)
           /\ DOMAIN SetToSeq(S) = 1..Cardinality(S) /\ Cardinality(S) \in Nat
           /\ \A i, j \in DOMAIN SetToSeq(S) : SetToSeq(S)[i] = SetToSeq(S)[j] => i = j
<1>1. Cardinality(S) \in Nat
  BY FS_CardinalityType
<1>2. PICK f \in Bijection(1..Cardinality(S), S) : TRUE
  BY FS_CardinalityType DEF ExistsBijection
<1>3. f \in [1..Cardinality(S) -> S] /\ IsInjective(f)
  BY <1>2 DEF Bijection, Injection, IsInjective
<1>4. SetToSeq(S) \in [1..Cardinality(S) -> S] /\ IsInjective(SetToSeq(S))
  BY <1>3 DEF SetToSeq
<1> QED
  BY <1>1, <1>4 DEF IsInjective

LEMMA TagsAreASequence ==
    ASSUME RecordTypes, NEW f \in Files
    PROVE  QueryFileTags(f) \in Seq(Tags)
<1> DEFINE rowsOf == [t \in Tags |-> {t} \X (1..fileTags[f][t])]
           all == {rowsOf[t] : t \in Tags}
           rows == UNION {{t} \X (1..fileTags[f][t]) : t \in Tags}
<1>1. rows = UNION all
  OBVIOUS
<1>2. IsFiniteSet(all)
  <2>1. rowsOf \in Surjection(Tags, all)
    BY DEF Surjection
  <2> HIDE DEF rowsOf, all
  <2> QED
    BY <2>1, TagsAreFinite, FS_Surjection
<1>3. ASSUME NEW r \in all PROVE IsFiniteSet(r)
  <2>1. PICK t \in Tags : r = {t} \X (1..fileTags[f][t])
    BY <1>3
  <2> DEFINE n == fileTags[f][t]
  <2>2. n \in Nat
    BY DEF RecordTypes
  <2>3. IsFiniteSet({t})
    BY FS_Singleton
  <2>4. IsFiniteSet(1..n)
    BY <2>2, FS_Interval
  <2> HIDE DEF n
  <2>5. IsFiniteSet({t} \X (1..n))
    BY <2>3, <2>4, FS_Product
  <2> QED
    BY <2>1, <2>5 DEF n
<1>4. IsFiniteSet(rows)
  <2> HIDE DEF all, rows
  <2> QED
    BY <1>1, <1>2, <1>3, FS_UNION
<1>5. \A r \in rows : r[1] \in Tags
  OBVIOUS
<1>6. SetToSeq(rows) \in Seq(rows)
  BY <1>4, FiniteSequences
<1>7. QueryFileTags(f) = [i \in DOMAIN SetToSeq(rows) |-> SetToSeq(rows)[i][1]]
  BY DEF QueryFileTags
<1> HIDE DEF rows
<1>8. DOMAIN SetToSeq(rows) = 1..Len(SetToSeq(rows)) /\ Len(SetToSeq(rows)) \in Nat
      /\ \A i \in DOMAIN SetToSeq(rows) : SetToSeq(rows)[i] \in rows
  BY <1>6
<1> QED
  BY <1>5, <1>7, <1>8

(***************************************************************************)
(* The steps of users and of the job that locates files.                   *)
(***************************************************************************)
RecordsNext ==
    \/ Users
    \/ \E f \in Files : \/ QueryFileLocation(f)
                        \/ f \in locating /\ JobDeletesLocation(f)
                        \/ f \in locating /\ location[f] = None /\ JobInsertsLocation(f)
    \/ UNCHANGED <<records, requests, overlapped, saved>> /\ locating' \subseteq locating

WritingPoints == {"untag", "tags", "link", "unlocate", "relocate"}

\* Whoever is neither before nor after a step a writer leaves the writers as they are.
LEMMA NotWriting ==
    ASSUME RecordTypes, NEW q \in Requests, pc[q] \notin WritingPoints,
           \A r \in Requests \ {q} : pc'[r] = pc[r] /\ form'[r] = form[r],
           pc'[q] \notin WritingPoints
    PROVE  \A f \in Files : Writing(f)' = Writing(f)
  BY DEF Writing, WritingPoints

\* Nor does a writer who goes on.
LEMMA StillWriting ==
    ASSUME RecordTypes, NEW q \in Requests, pc[q] \in WritingPoints, form' = form,
           \A r \in Requests \ {q} : pc'[r] = pc[r], pc'[q] \in WritingPoints
    PROVE  \A f \in Files : Writing(f)' = Writing(f)
  BY DEF Writing, WritingPoints

LEMMA NoLongerWriting ==
    ASSUME RecordTypes, NEW q \in Requests, form' = form,
           \A r \in Requests \ {q} : pc'[r] = pc[r], pc'[q] \notin WritingPoints
    PROVE  \A f \in Files : Writing(f)' = Writing(f) \ {q}
  BY DEF Writing, WritingPoints

\* A request that is not a writer changes its own form only.
LEMMA FormStep ==
    ASSUME RecordInv, NEW q \in Requests, pc[q] \in {"idle", "editing"},
           pc'[q] \in {"editing", "path"}, NEW new \in Form,
           new.file \in Files, new.path # <<>>,
           pc' = [pc EXCEPT ![q] = pc'[q]], form' = [form EXCEPT ![q] = new],
           UNCHANGED <<records, tagging, linked, locating, overlapped, saved>>
    PROVE  RecordInv'
<1> USE DEF RecordInv, records
<1>1. RecordTypes'
  BY DEF RecordTypes
<1>2. FormIsFilled' /\ TagsAreLinked' /\ PlaceIsKnown'
  BY DEF RecordTypes, FormIsFilled, TagsAreLinked, PlaceIsKnown
<1>3. \A r \in Requests : r # q => pc'[r] = pc[r] /\ form'[r] = form[r]
  BY DEF RecordTypes
<1>4. TagsAreAsked' /\ KnownTags' /\ tagging[q] = <<>> /\ form'[q] = new
  <2>1. tagging[q] = <<>> /\ form'[q] = new
    BY DEF RecordTypes, TagsAreAsked
  <2>2. Len(new.tags) \in Nat
    BY DEF Form
  <2> QED
    BY <1>3, <2>1, <2>2 DEF RecordTypes, TagsAreAsked, KnownTags
<1>5. \A f \in Files : Writing(f)' = Writing(f)
  BY <1>3, NotWriting DEF RecordTypes, WritingPoints
<1>6. WritersMeet'
  BY <1>5 DEF WritersMeet
<1>7. Progress'
  <2> SUFFICES ASSUME NEW f \in Files, NEW r \in Writing(f) \ overlapped
               PROVE  /\ filePath[f] = form'[r].path
                      /\ pc'[r] = "tags" => fileTags[f] = NoTags
                      /\ pc'[r] \in {"link", "unlocate", "relocate"} =>
                            \A t \in Tags : fileTags[f][t] = Given(form'[r], linked[r], t)
                      /\ pc'[r] = "relocate" => location[f] = None
    BY <1>5 DEF Progress, Given
  <2>1. r \in Requests /\ r # q
    BY DEF Writing
  <2> QED
    BY <1>3, <2>1 DEF Progress
<1>8. TagsStayInContainer' /\ SavedIsThere'
  BY DEF TagsStayInContainer, SavedIsThere, Given
<1> QED
  BY <1>1, <1>2, <1>4, <1>6, <1>7, <1>8

LEMMA RequestFileStep ==
    ASSUME RecordInv, NEW q \in Requests, NEW f \in Files, RequestFile(q, f)
    PROVE  RecordInv'
<1> DEFINE new == [file |-> f, path |-> filePath[f], tags |-> QueryFileTags(f),
                   osmId |-> IF location[f] = Photo THEN None ELSE location[f]]
<1>1. new \in Form
  BY TagsAreASequence DEF RecordInv, RecordTypes, Form, Ids, Paths
<1>2. new.file \in Files /\ new.path # <<>>
  BY DEF RecordInv, RecordTypes, Paths
<1>3. /\ pc[q] = "idle" /\ pc' = [pc EXCEPT ![q] = "editing"]
      /\ form' = [form EXCEPT ![q] = new]
      /\ UNCHANGED <<records, tagging, linked, locating, overlapped, saved>>
  BY DEF RequestFile
<1>4. pc'[q] = "editing"
  BY <1>3 DEF RecordInv, RecordTypes
<1> QED
  BY <1>1, <1>2, <1>3, <1>4, FormStep

LEMMA SaveStep ==
    ASSUME RecordInv, NEW q \in Requests, NEW edit \in Edits, Save(q, edit)
    PROVE  RecordInv'
<1> DEFINE old == form[q]
           Choice(n, shown) == IF n = Shown THEN shown ELSE n
           new == [file |-> old.file, path |-> Choice(edit.path, old.path),
                   tags |-> Choice(edit.tags, old.tags), osmId |-> Choice(edit.osmId, old.osmId)]
<1>1. /\ pc[q] = "editing" /\ pc' = [pc EXCEPT ![q] = "path"]
      /\ form' = [form EXCEPT ![q] = new]
      /\ UNCHANGED <<records, tagging, linked, locating, overlapped, saved>>
  BY DEF Save
<1>2. old \in Form /\ old.file \in Files /\ old.path # <<>>
  BY <1>1 DEF RecordInv, RecordTypes, FormIsFilled
<1>3. Choice(edit.path, old.path) \in Paths /\ Choice(edit.tags, old.tags) \in Seq(Tags)
  BY <1>2, EditsAreForms DEF Form, Paths
<1>4. Choice(edit.osmId, old.osmId) \in Ids
  BY <1>2 DEF Form, Ids
<1>5. new \in Form /\ new.file \in Files /\ new.path # <<>>
  BY <1>2, <1>3, <1>4 DEF Form, Paths
<1>6. pc'[q] = "path"
  BY <1>1 DEF RecordInv, RecordTypes
<1> HIDE DEF new
<1> QED
  BY <1>1, <1>5, <1>6, FormStep

\* A saved record stays where nobody writes.
LEMMA SavedStays ==
    ASSUME SavedIsThere,
           \A f \in Files : saved'[f] # <<>> =>
               /\ saved'[f] = saved[f] /\ filePath'[f] = filePath[f]
               /\ location'[f] = location[f] /\ fileTags'[f] = fileTags[f]
               /\ f \in locating' => f \in locating
    PROVE  SavedIsThere'
<1> SUFFICES ASSUME NEW f \in Files, NEW record \in Form, saved'[f] = <<record>>
             PROVE  /\ filePath'[f] = record.path
                    /\ location'[f] \in IF record.osmId = None THEN {None, Photo}
                                                               ELSE {record.osmId}
                    /\ \A t \in Tags : fileTags'[f][t] = Given(record, Len(record.tags), t)
                    /\ f \in locating' => record.osmId = None
  BY DEF SavedIsThere, Given
<1>1. saved'[f] # <<>>
  OBVIOUS
<1> QED
  BY <1>1 DEF SavedIsThere

\* What does not depend on how far a request is.
LEMMA RequestsStay ==
    ASSUME RecordTypes, FormIsFilled, TagsAreAsked, TagsAreLinked, PlaceIsKnown, KnownTags,
           NEW q \in Requests, pc'[q] \in {pc[q], "failed"}, pc[q] # "idle",
           \A r \in Requests \ {q} : pc'[r] = pc[r],
           UNCHANGED <<form, tagging, linked, tagContainer>>
    PROVE  FormIsFilled' /\ TagsAreAsked' /\ TagsAreLinked' /\ PlaceIsKnown' /\ KnownTags'
<1>1. \A r \in Requests : pc'[r] # pc[r] => pc'[r] = "failed" /\ pc[r] # "idle"
  OBVIOUS
<1>2. FormIsFilled'
  BY <1>1 DEF FormIsFilled
<1>3. TagsAreAsked'
  BY <1>1 DEF TagsAreAsked
<1>4. TagsAreLinked' /\ PlaceIsKnown'
  BY <1>1 DEF TagsAreLinked, PlaceIsKnown
<1>5. KnownTags'
  BY DEF KnownTags
<1> QED
  BY <1>2, <1>3, <1>4, <1>5

LEMMA SoftDeleteStep ==
    ASSUME RecordInv, NEW f \in Files, SoftDeleteFile(f)
    PROVE  RecordInv'
<1> USE DEF SoftDeleteFile, requests
<1>1. RecordTypes'
  BY DEF RecordInv, RecordTypes
<1>2. SavedIsThere'
  BY SavedStays DEF RecordInv
<1> QED
  BY <1>1, <1>2 DEF RecordInv, FormIsFilled, TagsAreAsked, TagsAreLinked, PlaceIsKnown,
                    KnownTags, TagsStayInContainer, WritersMeet, Writing, Progress, Given

\* Two writers of a file know each other, so that one who knows of nobody is alone.
LEMMA AloneOrKnown ==
    ASSUME RecordInv, NEW q \in Requests, pc[q] \in WritingPoints
    PROVE  /\ form[q].file \in Files /\ q \in Writing(form[q].file)
           /\ saved[form[q].file] = <<>>
           /\ \A f \in Files : \A r \in Writing(f) \ overlapped : f = form[q].file => r = q
           /\ q \notin overlapped => Writing(form[q].file) = {q} /\ form[q].file \notin locating
<1>1. form[q].file \in Files /\ q \in Writing(form[q].file)
  BY DEF RecordInv, FormIsFilled, Writing, WritingPoints
<1> QED
  BY <1>1 DEF RecordInv, WritersMeet

LEMMA UpdatePathStep ==
    ASSUME RecordInv, NEW q \in Requests, UpdatePath(q)
    PROVE  RecordInv'
<1> DEFINE f0 == form[q].file
           taken == \E g \in Files \ {f0} : ContainerOf[g] = ContainerOf[f0]
                                            /\ filePath[g] = form[q].path
           others == Writing(f0) \cup {w \in {q} : f0 \in locating}
<1> USE DEF RecordInv
<1>1. /\ pc[q] = "path" /\ pc' = [pc EXCEPT ![q] = IF taken THEN "failed" ELSE "untag"]
      /\ UNCHANGED <<deleted, tagContainer, fileTags, location, form, tagging, linked, locating>>
  BY DEF UpdatePath, Step
<1>2. f0 \in Files /\ form[q].path \in Paths
  BY <1>1 DEF RecordTypes, FormIsFilled, Form, Paths
<1>3. CASE taken
  <2>1. UNCHANGED <<filePath, overlapped, saved>> /\ pc' = [pc EXCEPT ![q] = "failed"]
    BY <1>1, <1>3 DEF UpdatePath
  <2>2. \A r \in Requests : r # q => pc'[r] = pc[r]
    BY <1>1 DEF RecordTypes
  <2>3. \A f \in Files : Writing(f)' = Writing(f)
    BY <1>1, <2>1, <2>2, NotWriting DEF RecordTypes, WritingPoints
  <2>4. RecordTypes'
    BY <1>1, <2>1 DEF RecordTypes
  <2>5. FormIsFilled' /\ TagsAreAsked' /\ TagsAreLinked' /\ PlaceIsKnown' /\ KnownTags'
    <3>1. pc'[q] = "failed"
      BY <2>1 DEF RecordTypes
    <3> QED
      BY <1>1, <2>2, <3>1, RequestsStay
  <2>6. TagsStayInContainer' /\ WritersMeet' /\ SavedIsThere'
    <3>1. SavedIsThere'
      BY <1>1, <2>1, SavedStays
    <3> QED
      BY <1>1, <2>1, <2>3, <3>1 DEF TagsStayInContainer, WritersMeet
  <2>7. Progress'
    <3>1. \A f \in Files : \A r \in Writing(f) : r \in Requests /\ r # q
      BY <1>1 DEF Writing
    <3> QED
      BY <1>1, <2>1, <2>2, <2>3, <3>1 DEF Progress, Given
  <2> QED
    BY <2>4, <2>5, <2>6, <2>7
<1>4. CASE ~taken
  <2>1. /\ pc' = [pc EXCEPT ![q] = "untag"]
        /\ filePath' = [filePath EXCEPT ![f0] = form[q].path]
        /\ overlapped' = IF others = {} THEN overlapped ELSE overlapped \cup others \cup {q}
        /\ saved' = [saved EXCEPT ![f0] = <<>>]
    BY <1>1, <1>4 DEF UpdatePath
  <2>2. /\ \A r \in Requests : r # q => pc'[r] = pc[r]
        /\ pc'[q] = "untag"
    BY <2>1 DEF RecordTypes
  <2>3. \A f \in Files : Writing(f)' = IF f = f0 THEN Writing(f) \cup {q} ELSE Writing(f)
    BY <1>1, <2>2 DEF Writing
  <2>4. RecordTypes'
    <3>1. others \subseteq Requests
      BY DEF Writing
    <3> HIDE DEF others
    <3> QED
      BY <1>1, <1>2, <2>1, <3>1 DEF RecordTypes
  <2>5. FormIsFilled' /\ TagsAreAsked' /\ TagsAreLinked' /\ PlaceIsKnown' /\ KnownTags'
        /\ TagsStayInContainer'
    BY <1>1, <2>1 DEF RecordTypes, FormIsFilled, TagsAreAsked, TagsAreLinked, PlaceIsKnown,
                      KnownTags, TagsStayInContainer
  <2>6. \A f \in Files \ {f0} : saved'[f] = saved[f] /\ filePath'[f] = filePath[f]
    BY <2>1 DEF RecordTypes
  <2>7. saved'[f0] = <<>> /\ filePath'[f0] = form[q].path
    BY <1>2, <2>1 DEF RecordTypes
  <2>8. overlapped \subseteq overlapped'
    BY <2>1
  <2>9. Writing(f0) # {} => Writing(f0) \cup {q} \subseteq overlapped'
    BY <2>1
  <2>10. f0 \in locating => Writing(f0) \cup {q} \subseteq overlapped'
    BY <2>1
  <2>11. WritersMeet'
    BY <1>1, <2>3, <2>6, <2>7, <2>8, <2>9, <2>10 DEF WritersMeet
  <2>12. Progress'
    <3> SUFFICES ASSUME NEW f \in Files, NEW r \in Writing(f)', r \notin overlapped'
                 PROVE  /\ filePath'[f] = form[r].path
                        /\ pc'[r] = "tags" => fileTags[f] = NoTags
                        /\ pc'[r] \in {"link", "unlocate", "relocate"} =>
                              \A t \in Tags : fileTags[f][t] = Given(form[r], linked[r], t)
                        /\ pc'[r] = "relocate" => location[f] = None
      BY <1>1 DEF Progress, Given
    <3>1. CASE r = q
      <4>1. f = f0
        BY <3>1, <1>1 DEF Writing
      <4> QED
        BY <2>2, <2>7, <3>1, <4>1
    <3>2. CASE r # q
      <4>1. r \in Writing(f) \ overlapped /\ f # f0 /\ r \in Requests
        BY <2>3, <2>8, <2>9, <3>2 DEF Writing
      <4> QED
        BY <2>2, <2>6, <3>2, <4>1 DEF Progress
    <3> QED
      BY <3>1, <3>2
  <2>13. SavedIsThere'
    BY <1>1, <2>6, <2>7, SavedStays
  <2> QED
    BY <2>4, <2>5, <2>11, <2>12, <2>13
<1> QED
  BY <1>3, <1>4

LEMMA DeleteTagsStep ==
    ASSUME RecordInv, NEW q \in Requests, DeleteTags(q)
    PROVE  RecordInv'
<1> DEFINE f0 == form[q].file
<1> USE DEF RecordInv
<1>1. /\ pc[q] = "untag" /\ pc' = [pc EXCEPT ![q] = "tags"]
      /\ fileTags' = [fileTags EXCEPT ![f0] = NoTags]
      /\ tagging' = [tagging EXCEPT ![q] = [i \in DOMAIN form[q].tags |-> "query"]]
      /\ UNCHANGED <<filePath, deleted, tagContainer, location, form, linked, locating,
                     overlapped, saved>>
  BY DEF DeleteTags, Step
<1>2. f0 \in Files /\ q \in Writing(f0) /\ saved[f0] = <<>>
      /\ \A f \in Files : \A r \in Writing(f) \ overlapped : f = f0 => r = q
  BY <1>1, AloneOrKnown DEF WritingPoints
<1>3. form[q].tags \in Seq(Tags)
  BY DEF RecordTypes, Form
<1>4. tagging'[q] = [i \in 1..Len(form[q].tags) |-> "query"]
      /\ \A r \in Requests : r # q => tagging'[r] = tagging[r]
  BY <1>1, <1>3 DEF RecordTypes
<1>5. tagging'[q] \in Seq({"query", "insert", "known", "refused"})
      /\ Len(tagging'[q]) = Len(form[q].tags)
      /\ \A i \in 1..Len(tagging'[q]) : tagging'[q][i] # "known"
  BY <1>3, <1>4
<1>6. RecordTypes'
  BY <1>1, <1>4, <1>5 DEF RecordTypes, NoTags
<1>7. /\ \A r \in Requests : r # q => pc'[r] = pc[r]
      /\ pc'[q] = "tags"
  BY <1>1 DEF RecordTypes
<1>8. FormIsFilled' /\ TagsAreAsked' /\ TagsAreLinked' /\ PlaceIsKnown' /\ KnownTags'
  <2>1. Len(form[q].tags) \in Nat
    BY <1>3
  <2> QED
    BY <1>1, <1>4, <1>5, <1>7, <2>1
       DEF FormIsFilled, TagsAreAsked, TagsAreLinked, PlaceIsKnown, KnownTags
<1>9. /\ fileTags'[f0] = NoTags
      /\ \A f \in Files : f # f0 => fileTags'[f] = fileTags[f]
  BY <1>1, <1>2 DEF RecordTypes
<1>10. TagsStayInContainer'
  BY <1>1, <1>9 DEF TagsStayInContainer, NoTags
<1>11. \A f \in Files : Writing(f)' = Writing(f)
  BY <1>1, <1>7, StillWriting DEF RecordTypes, WritingPoints
<1>12. WritersMeet'
  BY <1>1, <1>11 DEF WritersMeet
<1>13. Progress'
  <2> SUFFICES ASSUME NEW f \in Files, NEW r \in Writing(f) \ overlapped
               PROVE  /\ filePath[f] = form[r].path
                      /\ pc'[r] = "tags" => fileTags'[f] = NoTags
                      /\ pc'[r] \in {"link", "unlocate", "relocate"} =>
                            \A t \in Tags : fileTags'[f][t] = Given(form[r], linked[r], t)
                      /\ pc'[r] = "relocate" => location[f] = None
    BY <1>1, <1>11 DEF Progress, Given
  <2>1. CASE r = q
    <3>1. f = f0
      BY <2>1 DEF Writing
    <3> QED
      BY <1>7, <1>9, <2>1, <3>1 DEF Progress
  <2>2. CASE r # q
    BY <1>2, <1>7, <1>9, <2>2 DEF Progress, Writing
  <2> QED
    BY <2>1, <2>2
<1>14. SavedIsThere'
  BY <1>1, <1>2, <1>9, SavedStays
<1> QED
  BY <1>6, <1>8, <1>10, <1>12, <1>13, <1>14

\* A step that writes nothing on a file, and perhaps ends the writing.
LEMMA NothingWritten ==
    ASSUME RecordInv, NEW q \in Requests,
           UNCHANGED <<filePath, fileTags, location, form, linked, locating, overlapped, saved>>,
           \A r \in Requests \ {q} : pc'[r] = pc[r],
           \/ pc'[q] = pc[q] \/ pc'[q] = "failed"
           \/ pc[q] = "link" /\ pc'[q] = "unlocate"
    PROVE  WritersMeet' /\ Progress' /\ SavedIsThere'
<1> USE DEF RecordInv
<1>1. SavedIsThere'
  BY SavedStays
<1>2. \A f \in Files : Writing(f)' \subseteq Writing(f)
  BY DEF Writing
<1>3. WritersMeet'
  BY <1>2 DEF WritersMeet
<1>4. Progress'
  <2> SUFFICES ASSUME NEW f \in Files, NEW r \in Writing(f)', r \notin overlapped
               PROVE  /\ filePath[f] = form[r].path
                      /\ pc'[r] = "tags" => fileTags[f] = NoTags
                      /\ pc'[r] \in {"link", "unlocate", "relocate"} =>
                            \A t \in Tags : fileTags[f][t] = Given(form[r], linked[r], t)
                      /\ pc'[r] = "relocate" => location[f] = None
    BY DEF Progress, Given
  <2>1. r \in Writing(f) \ overlapped /\ r \in Requests
    BY <1>2 DEF Writing
  <2>2. CASE r # q
    BY <2>1, <2>2 DEF Progress
  <2>3. CASE r = q
    <3>1. pc'[r] # "failed"
      BY DEF Writing
    <3> QED
      BY <2>1, <2>3, <3>1 DEF Progress
  <2> QED
    BY <2>2, <2>3
<1> QED
  BY <1>1, <1>3, <1>4

LEMMA TaggingStep ==
    ASSUME RecordInv, NEW q \in Requests, NEW i \in DOMAIN tagging[q],
           NEW new \in {"query", "insert", "known", "refused"},
           tagging' = [tagging EXCEPT ![q][i] = new]
    PROVE  /\ Len(tagging'[q]) = Len(tagging[q]) /\ tagging'[q][i] = new
           /\ \A j \in 1..Len(tagging[q]) : j # i => tagging'[q][j] = tagging[q][j]
           /\ \A r \in Requests : r # q => tagging'[r] = tagging[r]
           /\ tagging' \in [Requests -> Seq({"query", "insert", "known", "refused"})]
           /\ i \in 1..Len(form[q].tags) /\ form[q].tags[i] \in Tags
<1> DEFINE S == {"query", "insert", "known", "refused"}
<1>1. tagging \in [Requests -> Seq(S)] /\ tagging[q] \in Seq(S)
  BY DEF RecordInv, RecordTypes
<1>2. i \in 1..Len(tagging[q]) /\ Len(tagging[q]) \in Nat /\ DOMAIN tagging[q] = 1..Len(tagging[q])
  BY <1>1
<1>3. tagging'[q] = [tagging[q] EXCEPT ![i] = new]
      /\ \A r \in Requests : r # q => tagging'[r] = tagging[r]
  BY <1>1
<1>4. tagging'[q] \in Seq(S) /\ Len(tagging'[q]) = Len(tagging[q]) /\ tagging'[q][i] = new
      /\ \A j \in 1..Len(tagging[q]) : j # i => tagging'[q][j] = tagging[q][j]
  BY <1>1, <1>2, <1>3
<1>5. form[q].tags \in Seq(Tags) /\ Len(tagging[q]) <= Len(form[q].tags)
  BY DEF RecordInv, RecordTypes, Form, TagsAreAsked
<1>6. i \in 1..Len(form[q].tags) /\ form[q].tags[i] \in Tags
  BY <1>2, <1>5
<1> QED
  BY <1>1, <1>3, <1>4, <1>6

\* What is known of a tag stays known, as the row of a tag is never changed.
LEMMA KnownStays ==
    ASSUME RecordInv, NEW q \in Requests, NEW i \in DOMAIN tagging[q],
           NEW new \in {"query", "insert", "known", "refused"},
           tagging' = [tagging EXCEPT ![q][i] = new], form' = form,
           \A t \in Tags : tagContainer[t] \in Containers => tagContainer'[t] = tagContainer[t],
           new = "known" => tagContainer'[form[q].tags[i]] = ContainerOf[form[q].file]
    PROVE  KnownTags'
<1> SUFFICES ASSUME NEW r \in Requests, NEW j \in 1..Len(tagging'[r]), tagging'[r][j] = "known"
             PROVE  tagContainer'[form[r].tags[j]] = ContainerOf[form[r].file]
  BY DEF KnownTags
<1> USE DEF RecordInv
<1>1. /\ Len(tagging'[q]) = Len(tagging[q]) /\ tagging'[q][i] = new
      /\ \A k \in 1..Len(tagging[q]) : k # i => tagging'[q][k] = tagging[q][k]
      /\ \A p \in Requests : p # q => tagging'[p] = tagging[p]
  BY TaggingStep
<1>2. CASE r = q /\ j = i
  BY <1>1, <1>2
<1>3. CASE ~(r = q /\ j = i)
  <2>1. j \in 1..Len(tagging[r]) /\ tagging[r][j] = "known"
    BY <1>1, <1>3
  <2>2. form[r].tags \in Seq(Tags) /\ Len(tagging[r]) <= Len(form[r].tags)
        /\ Len(tagging[r]) \in Nat
    BY DEF RecordTypes, Form, TagsAreAsked
  <2>3. j \in 1..Len(form[r].tags)
    BY <2>1, <2>2
  <2>4. form[r].tags[j] \in Tags
    BY <2>2, <2>3
  <2>5. form[r].file \in Files
    BY <2>1 DEF RecordTypes, FormIsFilled, TagsAreAsked
  <2>6. tagContainer[form[r].tags[j]] = ContainerOf[form[r].file]
    BY <2>1 DEF KnownTags
  <2> QED
    BY <2>4, <2>5, <2>6, FilesHaveContainers
<1> QED
  BY <1>2, <1>3

LEMMA QueryTagIdStep ==
    ASSUME RecordInv, NEW q \in Requests, NEW i \in DOMAIN tagging[q], QueryTagId(q, i)
    PROVE  RecordInv'
<1> USE DEF RecordInv
<1> DEFINE new == IF tagContainer[form[q].tags[i]] = ContainerOf[form[q].file]
                  THEN "known" ELSE "insert"
<1>1. /\ tagging[q][i] = "query" /\ tagging' = [tagging EXCEPT ![q][i] = new]
      /\ UNCHANGED <<records, pc, form, linked, locating, overlapped, saved>>
  BY DEF QueryTagId
<1>2. new \in {"query", "insert", "known", "refused"}
  OBVIOUS
<1>3. new = "known" => tagContainer[form[q].tags[i]] = ContainerOf[form[q].file]
  OBVIOUS
<1> HIDE DEF new
<1>4. /\ Len(tagging'[q]) = Len(tagging[q]) /\ tagging'[q][i] = new
      /\ \A j \in 1..Len(tagging[q]) : j # i => tagging'[q][j] = tagging[q][j]
      /\ \A r \in Requests : r # q => tagging'[r] = tagging[r]
      /\ tagging' \in [Requests -> Seq({"query", "insert", "known", "refused"})]
  BY <1>1, <1>2, TaggingStep
<1>5. RecordTypes'
  BY <1>1, <1>4 DEF RecordTypes, records
<1>6. pc[q] \notin {"idle", "editing", "path", "untag", "link", "unlocate", "relocate"}
  <2>1. i \in 1..Len(tagging[q])
    BY DEF RecordTypes
  <2> QED
    BY <1>1, <2>1 DEF TagsAreAsked
<1>7. FormIsFilled' /\ TagsAreLinked' /\ PlaceIsKnown' /\ TagsStayInContainer'
  BY <1>1 DEF FormIsFilled, TagsAreLinked, PlaceIsKnown, TagsStayInContainer, records
<1>8. TagsAreAsked'
  BY <1>1, <1>4, <1>6 DEF TagsAreAsked
<1>9. KnownTags'
  BY <1>1, <1>2, <1>3, KnownStays DEF records
<1>10. WritersMeet' /\ Progress' /\ SavedIsThere'
  BY <1>1, NothingWritten DEF records
<1> QED
  BY <1>5, <1>7, <1>8, <1>9, <1>10

LEMMA InsertTagStep ==
    ASSUME RecordInv, NEW q \in Requests, NEW i \in DOMAIN tagging[q], InsertTag(q, i)
    PROVE  RecordInv'
<1> USE DEF RecordInv
<1> DEFINE tag == form[q].tags[i]
           free == tagContainer[tag] = None
           new == IF free THEN "known" ELSE "refused"
<1>1. /\ tagging[q][i] = "insert" /\ tagging' = [tagging EXCEPT ![q][i] = new]
      /\ tagContainer' = IF free
                         THEN [tagContainer EXCEPT ![tag] = ContainerOf[form[q].file]]
                         ELSE tagContainer
      /\ pc' = IF free THEN pc ELSE [pc EXCEPT ![q] = "failed"]
      /\ UNCHANGED <<filePath, deleted, fileTags, location, form, linked, locating,
                     overlapped, saved>>
  BY DEF InsertTag
<1>2. new \in {"query", "insert", "known", "refused"}
  OBVIOUS
<1>3. /\ Len(tagging'[q]) = Len(tagging[q]) /\ tagging'[q][i] = new
      /\ \A j \in 1..Len(tagging[q]) : j # i => tagging'[q][j] = tagging[q][j]
      /\ \A r \in Requests : r # q => tagging'[r] = tagging[r]
      /\ tagging' \in [Requests -> Seq({"query", "insert", "known", "refused"})]
      /\ tag \in Tags
  BY <1>1, <1>2, TaggingStep
<1>4. pc[q] \notin {"idle", "editing", "path", "untag", "link", "unlocate", "relocate"}
  <2>1. i \in 1..Len(tagging[q])
    BY DEF RecordTypes
  <2> QED
    BY <1>1, <2>1 DEF TagsAreAsked
<1>5. form[q].file \in Files /\ ContainerOf[form[q].file] \in Containers
  BY <1>4, FilesHaveContainers DEF RecordTypes, FormIsFilled
<1>6. \A t \in Tags : tagContainer[t] # None => tagContainer'[t] = tagContainer[t]
  BY <1>1 DEF RecordTypes
<1>7. tagContainer' \in [Tags -> Containers \cup {None}]
      /\ (free => tagContainer'[tag] = ContainerOf[form[q].file])
  BY <1>1, <1>3, <1>5 DEF RecordTypes
<1>8. /\ \A r \in Requests \ {q} : pc'[r] = pc[r]
      /\ pc'[q] \in {pc[q], "failed"}
  BY <1>1 DEF RecordTypes
<1>9. RecordTypes'
  BY <1>1, <1>3, <1>7 DEF RecordTypes
<1>10. FormIsFilled' /\ TagsAreLinked' /\ PlaceIsKnown'
  BY <1>1, <1>4, <1>8 DEF FormIsFilled, TagsAreLinked, PlaceIsKnown
<1>11. TagsAreAsked'
  BY <1>1, <1>3, <1>4, <1>8 DEF TagsAreAsked
<1>12. KnownTags'
  <2>1. \A t \in Tags : tagContainer[t] \in Containers => tagContainer'[t] = tagContainer[t]
    BY <1>6, NoneIsNoContainer
  <2>2. new = "known" => tagContainer'[tag] = ContainerOf[form[q].file]
    BY <1>7
  <2> HIDE DEF new
  <2> QED
    BY <1>1, <1>2, <2>1, <2>2, KnownStays
<1>13. TagsStayInContainer'
  <2> SUFFICES ASSUME NEW f \in Files, NEW t \in Tags, fileTags[f][t] > 0
               PROVE  tagContainer'[t] = ContainerOf[f]
    BY <1>1 DEF TagsStayInContainer
  <2>1. tagContainer[t] = ContainerOf[f]
    BY DEF TagsStayInContainer
  <2>2. tagContainer[t] # None
    BY <2>1, FilesHaveContainers, NoneIsNoContainer
  <2> QED
    BY <1>6, <2>1, <2>2
<1>14. WritersMeet' /\ Progress' /\ SavedIsThere'
  BY <1>1, <1>8, NothingWritten
<1> QED
  BY <1>9, <1>10, <1>11, <1>12, <1>13, <1>14

LEMMA TagsAreKnownStep ==
    ASSUME RecordInv, NEW q \in Requests, TagsAreKnown(q)
    PROVE  RecordInv'
<1> USE DEF RecordInv
<1>1. /\ \A i \in DOMAIN tagging[q] : tagging[q][i] = "known"
      /\ pc[q] = "tags" /\ pc' = [pc EXCEPT ![q] = "link"]
      /\ UNCHANGED <<records, form, tagging, linked, locating, overlapped, saved>>
  BY DEF TagsAreKnown, Step
<1>2. /\ \A r \in Requests \ {q} : pc'[r] = pc[r]
      /\ pc'[q] = "link"
  BY <1>1 DEF RecordTypes
<1>3. RecordTypes'
  BY <1>1 DEF RecordTypes, records
<1>4. FormIsFilled' /\ TagsAreLinked' /\ PlaceIsKnown' /\ KnownTags' /\ TagsStayInContainer'
  BY <1>1, <1>2 DEF FormIsFilled, TagsAreLinked, PlaceIsKnown, KnownTags, TagsStayInContainer,
                    records
<1>5. TagsAreAsked'
  <2>1. DOMAIN tagging[q] = 1..Len(tagging[q])
    BY DEF RecordTypes
  <2> QED
    BY <1>1, <1>2, <2>1 DEF TagsAreAsked
<1>6. \A f \in Files : Writing(f)' = Writing(f)
  BY <1>1, <1>2, StillWriting DEF WritingPoints
<1>7. WritersMeet' /\ SavedIsThere'
  <2>1. SavedIsThere'
    BY <1>1, SavedStays DEF records
  <2> QED
    BY <1>1, <1>6, <2>1 DEF WritersMeet
<1>8. Progress'
  <2> SUFFICES ASSUME NEW f \in Files, NEW r \in Writing(f) \ overlapped
               PROVE  /\ filePath[f] = form[r].path
                      /\ pc'[r] = "tags" => fileTags[f] = NoTags
                      /\ pc'[r] \in {"link", "unlocate", "relocate"} =>
                            \A t \in Tags : fileTags[f][t] = Given(form[r], linked[r], t)
                      /\ pc'[r] = "relocate" => location[f] = None
    BY <1>1, <1>6 DEF Progress, Given, records
  <2>1. CASE r = q
    <3>1. linked[q] = 0 /\ fileTags[f] = NoTags
      BY <1>1, <2>1 DEF Progress, TagsAreLinked
    <3>2. \A t \in Tags : Given(form[q], 0, t) = 0
      <4>1. ASSUME NEW t \in Tags PROVE {i \in 1..0 : form[q].tags[i] = t} = {}
        OBVIOUS
      <4> QED
        BY <4>1, FS_EmptySet DEF Given
    <3> QED
      BY <1>2, <2>1, <3>1, <3>2 DEF Progress, NoTags
  <2>2. CASE r # q
    BY <1>2, <2>2 DEF Progress, Writing
  <2> QED
    BY <2>1, <2>2
<1> QED
  BY <1>3, <1>4, <1>5, <1>7, <1>8

LEMMA GivenNext ==
    ASSUME NEW record \in Form, NEW n \in Nat, n + 1 <= Len(record.tags), NEW t \in Tags
    PROVE  Given(record, n + 1, t) = Given(record, n, t) + IF record.tags[n + 1] = t THEN 1 ELSE 0
<1> DEFINE S == {i \in 1..n : record.tags[i] = t}
           T == {i \in 1..(n + 1) : record.tags[i] = t}
<1>1. IsFiniteSet(S) /\ Cardinality(S) \in Nat /\ n + 1 \notin S
  <2>1. IsFiniteSet(1..n)
    BY FS_Interval
  <2>2. IsFiniteSet(S)
    BY <2>1, FS_Subset
  <2> QED
    BY <2>2, FS_CardinalityType
<1>2. CASE record.tags[n + 1] = t
  <2>1. T = S \cup {n + 1}
    BY <1>2
  <2> HIDE DEF S, T
  <2>2. Cardinality(T) = Cardinality(S) + 1
    BY <1>1, <2>1, FS_AddElement
  <2>3. Given(record, n, t) = Cardinality(S) /\ Given(record, n + 1, t) = Cardinality(T)
    BY DEF Given, S, T
  <2> QED
    BY <1>2, <2>2, <2>3
<1>3. CASE record.tags[n + 1] # t
  <2>1. T = S
    BY <1>3
  <2>2. Given(record, n, t) = Cardinality(S) /\ Given(record, n + 1, t) = Cardinality(T)
    BY DEF Given
  <2> HIDE DEF S, T
  <2> QED
    BY <1>1, <1>3, <2>1, <2>2
<1> QED
  BY <1>2, <1>3

LEMMA LinkTagStep ==
    ASSUME RecordInv, NEW q \in Requests, LinkTag(q)
    PROVE  RecordInv'
<1> USE DEF RecordInv
<1> DEFINE i == linked[q] + 1
           f0 == form[q].file
           tag == form[q].tags[i]
<1>1. /\ i \in DOMAIN form[q].tags
      /\ pc[q] = "link" /\ pc' = [pc EXCEPT ![q] = "link"]
      /\ fileTags' = [fileTags EXCEPT ![f0][tag] = @ + 1]
      /\ linked' = [linked EXCEPT ![q] = i]
      /\ UNCHANGED <<filePath, deleted, tagContainer, location, form, tagging, locating,
                     overlapped, saved>>
  BY DEF LinkTag, Step
<1>2. f0 \in Files /\ q \in Writing(f0) /\ saved[f0] = <<>>
      /\ \A f \in Files : \A r \in Writing(f) \ overlapped : f = f0 => r = q
  BY <1>1, AloneOrKnown DEF WritingPoints
<1>3. form[q] \in Form /\ form[q].tags \in Seq(Tags) /\ linked[q] \in Nat
      /\ i \in 1..Len(form[q].tags) /\ tag \in Tags
  BY <1>1 DEF RecordTypes, Form
<1>4. pc' = pc
  BY <1>1 DEF RecordTypes
<1>5. /\ \A f \in Files : f # f0 => fileTags'[f] = fileTags[f]
      /\ \A t \in Tags : fileTags'[f0][t] = fileTags[f0][t] + IF tag = t THEN 1 ELSE 0
      /\ fileTags' \in [Files -> [Tags -> Nat]]
  BY <1>1, <1>2, <1>3 DEF RecordTypes
<1>6. /\ \A r \in Requests : r # q => linked'[r] = linked[r]
      /\ linked'[q] = i /\ linked' \in [Requests -> Nat]
  BY <1>1, <1>3 DEF RecordTypes
<1>7. RecordTypes'
  BY <1>1, <1>4, <1>5, <1>6 DEF RecordTypes
<1>8. FormIsFilled' /\ TagsAreAsked' /\ PlaceIsKnown' /\ KnownTags'
  BY <1>1, <1>4 DEF FormIsFilled, TagsAreAsked, PlaceIsKnown, KnownTags
<1>9. TagsAreLinked'
  BY <1>1, <1>4, <1>6 DEF TagsAreLinked
<1>10. TagsStayInContainer'
  <2> SUFFICES ASSUME NEW f \in Files, NEW t \in Tags, fileTags'[f][t] > 0
               PROVE  tagContainer[t] = ContainerOf[f]
    BY <1>1 DEF TagsStayInContainer
  <2>1. CASE f = f0 /\ t = tag
    <3>1. i \in 1..Len(tagging[q]) /\ tagging[q][i] = "known"
      BY <1>1, <1>3 DEF TagsAreAsked
    <3> QED
      BY <2>1, <3>1 DEF KnownTags
  <2>2. CASE ~(f = f0 /\ t = tag)
    <3>1. fileTags'[f][t] = fileTags[f][t]
      <4>1. fileTags[f][t] \in Nat
        BY DEF RecordTypes
      <4> QED
        BY <1>5, <2>2, <4>1
    <3> QED
      BY <3>1 DEF TagsStayInContainer
  <2> QED
    BY <2>1, <2>2
<1>11. \A f \in Files : Writing(f)' = Writing(f)
  BY <1>1, <1>4 DEF Writing
<1>12. WritersMeet' /\ SavedIsThere'
  <2>1. SavedIsThere'
    BY <1>1, <1>2, <1>5, SavedStays
  <2> QED
    BY <1>1, <1>11, <2>1 DEF WritersMeet
<1>13. Progress'
  <2> SUFFICES ASSUME NEW f \in Files, NEW r \in Writing(f) \ overlapped
               PROVE  /\ filePath[f] = form[r].path
                      /\ pc[r] = "tags" => fileTags'[f] = NoTags
                      /\ pc[r] \in {"link", "unlocate", "relocate"} =>
                            \A t \in Tags : fileTags'[f][t] = Given(form[r], linked'[r], t)
                      /\ pc[r] = "relocate" => location[f] = None
    BY <1>1, <1>4, <1>11 DEF Progress, Given
  <2>1. CASE r = q
    <3>1. f = f0
      BY <2>1 DEF Writing
    <3>2. ASSUME NEW t \in Tags PROVE fileTags'[f][t] = Given(form[q], i, t)
      <4>1. fileTags[f0][t] = Given(form[q], linked[q], t)
        BY <1>1, <2>1, <3>1 DEF Progress
      <4>2. Given(form[q], i, t) = Given(form[q], linked[q], t) + IF tag = t THEN 1 ELSE 0
        BY <1>3, GivenNext
      <4> QED
        BY <1>5, <3>1, <4>1, <4>2
    <3> QED
      BY <1>1, <1>6, <2>1, <3>2 DEF Progress
  <2>2. CASE r # q
    BY <1>2, <1>5, <1>6, <2>2 DEF Progress, Writing
  <2> QED
    BY <2>1, <2>2
<1> QED
  BY <1>7, <1>8, <1>9, <1>10, <1>12, <1>13

LEMMA ResolveLocationStep ==
    ASSUME RecordInv, NEW q \in Requests, ResolveLocation(q)
    PROVE  RecordInv'
<1> USE DEF RecordInv
<1> DEFINE to == IF form[q].osmId \in OsmIds \cup {None} THEN "unlocate" ELSE "failed"
<1>1. /\ linked[q] = Len(form[q].tags) /\ pc[q] = "link" /\ pc' = [pc EXCEPT ![q] = to]
      /\ UNCHANGED <<records, form, tagging, linked, locating, overlapped, saved>>
  BY DEF ResolveLocation, Step
<1>2. /\ \A r \in Requests \ {q} : pc'[r] = pc[r]
      /\ pc'[q] = to
  BY <1>1 DEF RecordTypes
<1>3. RecordTypes'
  BY <1>1 DEF RecordTypes, records
<1>4. FormIsFilled' /\ TagsAreAsked' /\ TagsAreLinked' /\ PlaceIsKnown' /\ KnownTags'
      /\ TagsStayInContainer'
  BY <1>1, <1>2 DEF FormIsFilled, TagsAreAsked, TagsAreLinked, PlaceIsKnown, KnownTags,
                    TagsStayInContainer, records
<1>5. WritersMeet' /\ Progress' /\ SavedIsThere'
  BY <1>1, <1>2, NothingWritten DEF records
<1> QED
  BY <1>3, <1>4, <1>5

\* A request that was alone ends: what it was given is what is recorded.
LEMMA SavingStep ==
    ASSUME RecordInv, NEW q \in Requests, pc[q] \in {"unlocate", "relocate"}, Saved(q),
           pc' = [pc EXCEPT ![q] = "saved"],
           location' = [location EXCEPT ![form[q].file] = form[q].osmId],
           UNCHANGED <<filePath, deleted, tagContainer, fileTags, form, tagging, linked,
                       locating, overlapped>>
    PROVE  RecordInv'
<1> USE DEF RecordInv
<1> DEFINE f0 == form[q].file
<1>1. f0 \in Files /\ q \in Writing(f0) /\ saved[f0] = <<>>
      /\ (\A f \in Files : \A r \in Writing(f) \ overlapped : f = f0 => r = q)
      /\ (q \notin overlapped => Writing(f0) = {q} /\ f0 \notin locating)
  BY AloneOrKnown DEF WritingPoints
<1>2. /\ \A r \in Requests \ {q} : pc'[r] = pc[r]
      /\ pc'[q] = "saved"
  BY DEF RecordTypes
<1>3. form[q] \in Form /\ form[q].osmId \in Ids
  BY DEF RecordTypes, Form
<1>4. saved' = IF q \in overlapped THEN saved ELSE [saved EXCEPT ![f0] = <<form[q]>>]
  BY DEF Saved
<1>5. RecordTypes'
  <2>1. saved' \in [Files -> {<<>>} \cup {<<record>> : record \in Form}]
    BY <1>3, <1>4 DEF RecordTypes
  <2>2. location' \in [Files -> Ids]
    BY <1>3 DEF RecordTypes
  <2> QED
    BY <2>1, <2>2 DEF RecordTypes
<1>6. FormIsFilled' /\ TagsAreAsked' /\ TagsAreLinked' /\ PlaceIsKnown' /\ KnownTags'
      /\ TagsStayInContainer'
  BY <1>2 DEF FormIsFilled, TagsAreAsked, TagsAreLinked, PlaceIsKnown, KnownTags,
              TagsStayInContainer
<1>7. \A f \in Files : Writing(f)' = Writing(f) \ {q}
  BY <1>2, NoLongerWriting DEF WritingPoints
<1>8. \A f \in Files : f # f0 => saved'[f] = saved[f] /\ location'[f] = location[f]
  BY <1>4 DEF RecordTypes
<1>9. saved'[f0] = IF q \in overlapped THEN <<>> ELSE <<form[q]>>
  BY <1>1, <1>4 DEF RecordTypes
<1>10. WritersMeet'
  <2>1. \A f \in Files : Writing(f)' # {} => saved'[f] = <<>>
    BY <1>1, <1>7, <1>8, <1>9 DEF WritersMeet
  <2> QED
    BY <1>7, <2>1 DEF WritersMeet
<1>11. Progress'
  <2> SUFFICES ASSUME NEW f \in Files, NEW r \in Writing(f) \ {q}, r \notin overlapped
               PROVE  /\ filePath[f] = form[r].path
                      /\ pc'[r] = "tags" => fileTags[f] = NoTags
                      /\ pc'[r] \in {"link", "unlocate", "relocate"} =>
                            \A t \in Tags : fileTags[f][t] = Given(form[r], linked[r], t)
                      /\ pc'[r] = "relocate" => location'[f] = None
    BY <1>7 DEF Progress, Given
  <2>1. f # f0 /\ r \in Requests
    BY <1>1 DEF Writing
  <2> QED
    BY <1>2, <1>8, <2>1 DEF Progress
<1>12. SavedIsThere'
  <2> SUFFICES ASSUME NEW f \in Files, NEW record \in Form, saved'[f] = <<record>>
               PROVE  /\ filePath[f] = record.path
                      /\ location'[f] \in IF record.osmId = None THEN {None, Photo}
                                                                 ELSE {record.osmId}
                      /\ \A t \in Tags : fileTags[f][t] = Given(record, Len(record.tags), t)
                      /\ f \in locating => record.osmId = None
    BY DEF SavedIsThere, Given
  <2>1. CASE f # f0
    BY <1>8, <2>1 DEF SavedIsThere
  <2>2. CASE f = f0
    <3>1. q \notin overlapped /\ record = form[q]
      BY <1>9, <2>2
    <3>2. location'[f0] = form[q].osmId
      BY <1>1 DEF RecordTypes
    <3>3. linked[q] = Len(form[q].tags)
      BY DEF TagsAreLinked
    <3> QED
      BY <1>1, <2>2, <3>1, <3>2, <3>3 DEF Progress
  <2> QED
    BY <2>1, <2>2
<1> QED
  BY <1>5, <1>6, <1>10, <1>11, <1>12

LEMMA DeleteLocationStep ==
    ASSUME RecordInv, NEW q \in Requests, DeleteLocation(q)
    PROVE  RecordInv'
<1> USE DEF RecordInv
<1> DEFINE f0 == form[q].file
<1>1. /\ pc[q] = "unlocate" /\ location' = [location EXCEPT ![f0] = None]
      /\ UNCHANGED <<filePath, deleted, tagContainer, fileTags, form, tagging, linked, locating,
                     overlapped>>
  BY DEF DeleteLocation, Step
<1>2. CASE form[q].osmId = None
  <2>1. pc' = [pc EXCEPT ![q] = "saved"] /\ Saved(q)
    BY <1>2 DEF DeleteLocation, Step
  <2> QED
    BY <1>1, <1>2, <2>1, SavingStep
<1>3. CASE form[q].osmId # None
  <2>1. pc' = [pc EXCEPT ![q] = "relocate"] /\ saved' = saved
    BY <1>3 DEF DeleteLocation, Step
  <2>2. f0 \in Files /\ q \in Writing(f0) /\ saved[f0] = <<>>
        /\ \A f \in Files : \A r \in Writing(f) \ overlapped : f = f0 => r = q
    BY <1>1, AloneOrKnown DEF WritingPoints
  <2>3. /\ \A r \in Requests \ {q} : pc'[r] = pc[r]
        /\ pc'[q] = "relocate"
    BY <2>1 DEF RecordTypes
  <2>4. RecordTypes'
    BY <1>1, <2>1 DEF RecordTypes, Ids
  <2>5. FormIsFilled' /\ TagsAreAsked' /\ TagsAreLinked' /\ PlaceIsKnown' /\ KnownTags'
        /\ TagsStayInContainer'
    BY <1>1, <1>3, <2>3 DEF FormIsFilled, TagsAreAsked, TagsAreLinked, PlaceIsKnown, KnownTags,
                            TagsStayInContainer
  <2>6. \A f \in Files : Writing(f)' = Writing(f)
    BY <1>1, <2>3, StillWriting DEF WritingPoints
  <2>7. /\ location'[f0] = None
        /\ \A f \in Files : f # f0 => location'[f] = location[f]
    BY <1>1, <2>2 DEF RecordTypes
  <2>8. WritersMeet' /\ SavedIsThere'
    <3>1. SavedIsThere'
      BY <1>1, <2>1, <2>2, <2>7, SavedStays
    <3> QED
      BY <1>1, <2>1, <2>6, <3>1 DEF WritersMeet
  <2>9. Progress'
    <3> SUFFICES ASSUME NEW f \in Files, NEW r \in Writing(f) \ overlapped
                 PROVE  /\ filePath[f] = form[r].path
                        /\ pc'[r] = "tags" => fileTags[f] = NoTags
                        /\ pc'[r] \in {"link", "unlocate", "relocate"} =>
                              \A t \in Tags : fileTags[f][t] = Given(form[r], linked[r], t)
                        /\ pc'[r] = "relocate" => location'[f] = None
      BY <1>1, <2>6 DEF Progress, Given
    <3>1. CASE r = q
      <4>1. f = f0
        BY <3>1 DEF Writing
      <4> QED
        BY <1>1, <2>3, <2>7, <3>1, <4>1 DEF Progress
    <3>2. CASE r # q
      BY <2>2, <2>3, <2>7, <3>2 DEF Progress, Writing
    <3> QED
      BY <3>1, <3>2
  <2> QED
    BY <2>4, <2>5, <2>8, <2>9
<1> QED
  BY <1>2, <1>3

LEMMA InsertLocationStep ==
    ASSUME RecordInv, NEW q \in Requests, InsertLocation(q)
    PROVE  RecordInv'
<1> USE DEF RecordInv
<1>1. pc[q] = "relocate"
      /\ UNCHANGED <<filePath, deleted, tagContainer, fileTags, form, tagging, linked, locating,
                     overlapped>>
  BY DEF InsertLocation, Step
<1>2. CASE /\ pc' = [pc EXCEPT ![q] = "saved"] /\ Saved(q)
           /\ location' = [location EXCEPT ![form[q].file] = form[q].osmId]
  BY <1>1, <1>2, SavingStep
<1>3. CASE pc' = [pc EXCEPT ![q] = "failed"] /\ UNCHANGED <<location, saved>>
  <2>1. /\ \A r \in Requests \ {q} : pc'[r] = pc[r]
        /\ pc'[q] = "failed"
    BY <1>3 DEF RecordTypes
  <2>2. RecordTypes'
    BY <1>1, <1>3 DEF RecordTypes
  <2>3. FormIsFilled' /\ TagsAreAsked' /\ TagsAreLinked' /\ PlaceIsKnown' /\ KnownTags'
    BY <1>1, <2>1, RequestsStay
  <2>4. TagsStayInContainer'
    BY <1>1 DEF TagsStayInContainer
  <2>5. WritersMeet' /\ Progress' /\ SavedIsThere'
    BY <1>1, <1>3, <2>1, NothingWritten
  <2> QED
    BY <2>2, <2>3, <2>4, <2>5
<1> QED
  BY <1>2, <1>3 DEF InsertLocation, Step

(***************************************************************************)
(* FileGeocodingService, and all steps together.                           *)
(***************************************************************************)
LEMMA QueryFileLocationStep ==
    ASSUME RecordInv, NEW f \in Files, QueryFileLocation(f)
    PROVE  RecordInv'
<1> USE DEF RecordInv
<1>1. /\ locating' = IF location[f] = None THEN {f} ELSE {}
      /\ overlapped' = IF location[f] = None THEN overlapped \cup Writing(f) ELSE overlapped
      /\ UNCHANGED <<records, requests, saved>>
  BY DEF QueryFileLocation
<1>2. RecordTypes'
  <2>1. Writing(f) \subseteq Requests
    BY DEF Writing
  <2> QED
    BY <1>1, <2>1 DEF RecordTypes, records, requests
<1>3. FormIsFilled' /\ TagsAreAsked' /\ TagsAreLinked' /\ PlaceIsKnown' /\ KnownTags'
      /\ TagsStayInContainer'
  BY <1>1 DEF FormIsFilled, TagsAreAsked, TagsAreLinked, PlaceIsKnown, KnownTags,
              TagsStayInContainer, records, requests
<1>4. \A g \in Files : Writing(g)' = Writing(g)
  BY <1>1 DEF Writing, requests
<1>5. overlapped \subseteq overlapped' /\ \A g \in locating' : g = f /\ Writing(f) \subseteq overlapped'
  BY <1>1
<1>6. WritersMeet'
  BY <1>1, <1>4, <1>5 DEF WritersMeet
<1>7. Progress'
  BY <1>1, <1>4, <1>5 DEF Progress, Given, records, requests
<1>8. SavedIsThere'
  <2> SUFFICES ASSUME NEW g \in Files, NEW record \in Form, saved[g] = <<record>>
               PROVE  /\ filePath[g] = record.path
                      /\ location[g] \in IF record.osmId = None THEN {None, Photo}
                                                                ELSE {record.osmId}
                      /\ \A t \in Tags : fileTags[g][t] = Given(record, Len(record.tags), t)
                      /\ g \in locating' => record.osmId = None
    BY <1>1 DEF SavedIsThere, Given, records
  <2>1. g \in locating' => location[g] = None
    BY <1>1
  <2> QED
    BY <2>1 DEF SavedIsThere
<1> QED
  BY <1>2, <1>3, <1>6, <1>7, <1>8

\* The job writes the location of a file whose writers know it.
LEMMA JobLocatesStep ==
    ASSUME RecordInv, NEW f \in locating, location[f] = None \/ JobDeletesLocation(f),
           JobDeletesLocation(f) \/ JobInsertsLocation(f)
    PROVE  RecordInv'
<1> USE DEF RecordInv
<1> DEFINE new == location'[f]
<1>1. /\ f \in Files
      /\ new \in {None, Photo} /\ \A g \in Files : g # f => location'[g] = location[g]
      /\ location' \in [Files -> Ids] /\ locating' \subseteq locating
      /\ UNCHANGED <<filePath, deleted, tagContainer, fileTags, requests, overlapped, saved>>
  BY DEF JobDeletesLocation, JobInsertsLocation, RecordTypes, Ids
<1>2. RecordTypes'
  BY <1>1 DEF RecordTypes, requests
<1>3. FormIsFilled' /\ TagsAreAsked' /\ TagsAreLinked' /\ PlaceIsKnown' /\ KnownTags'
      /\ TagsStayInContainer'
  BY <1>1 DEF FormIsFilled, TagsAreAsked, TagsAreLinked, PlaceIsKnown, KnownTags,
              TagsStayInContainer, requests
<1>4. \A g \in Files : Writing(g)' = Writing(g)
  BY <1>1 DEF Writing, requests
<1>5. WritersMeet'
  BY <1>1, <1>4 DEF WritersMeet
<1>6. Progress'
  <2>1. Writing(f) \subseteq overlapped
    BY <1>1 DEF WritersMeet
  <2> QED
    BY <1>1, <1>4, <2>1 DEF Progress, Given, requests
<1>7. SavedIsThere'
  <2> SUFFICES ASSUME NEW g \in Files, NEW record \in Form, saved[g] = <<record>>
               PROVE  /\ filePath[g] = record.path
                      /\ location'[g] \in IF record.osmId = None THEN {None, Photo}
                                                                 ELSE {record.osmId}
                      /\ \A t \in Tags : fileTags[g][t] = Given(record, Len(record.tags), t)
                      /\ g \in locating' => record.osmId = None
    BY <1>1 DEF SavedIsThere, Given
  <2>1. CASE g # f
    BY <1>1, <2>1 DEF SavedIsThere
  <2>2. CASE g = f
    BY <1>1, <2>2 DEF SavedIsThere
  <2> QED
    BY <2>1, <2>2
<1> QED
  BY <1>2, <1>3, <1>5, <1>6, <1>7

LEMMA RecordsRest ==
    ASSUME RecordInv, UNCHANGED <<records, requests, overlapped, saved>>, locating' \subseteq locating
    PROVE  RecordInv'
<1> USE DEF RecordInv, records, requests
<1>1. RecordTypes'
  BY DEF RecordTypes
<1>2. SavedIsThere'
  BY SavedStays
<1> QED
  BY <1>1, <1>2 DEF FormIsFilled, TagsAreAsked, TagsAreLinked, PlaceIsKnown, KnownTags,
                    TagsStayInContainer, WritersMeet, Writing, Progress, Given

LEMMA RecordsStep ==
    ASSUME RecordInv, RecordsNext
    PROVE  RecordInv'
<1>1. ASSUME NEW q \in Requests, UpdateFileMetadata(q) PROVE RecordInv'
  BY <1>1, UpdatePathStep, DeleteTagsStep, TagsAreKnownStep, LinkTagStep, QueryTagIdStep,
     InsertTagStep, ResolveLocationStep, DeleteLocationStep, InsertLocationStep
     DEF UpdateFileMetadata
<1>2. CASE Users
  BY <1>1, <1>2, SaveStep, RequestFileStep, SoftDeleteStep DEF Users
<1> QED
  BY <1>2, QueryFileLocationStep, JobLocatesStep, RecordsRest DEF RecordsNext

LEMMA RecordsBegin ==
    ASSUME RecordsInit
    PROVE  RecordInv
<1>1. RecordTypes
  <2>1. [file |-> None, path |-> <<>>, tags |-> <<>>, osmId |-> None] \in Form
    BY DEF Form, Ids
  <2>2. form \in [Requests -> Form]
    BY <2>1 DEF RecordsInit
  <2> QED
    BY <2>2, FilesHaveContainers DEF RecordsInit, RecordTypes, NoTags, Ids
<1>2. \A f \in Files : Writing(f) = {}
  BY DEF RecordsInit, Writing
<1>3. FormIsFilled /\ TagsAreAsked /\ TagsAreLinked /\ PlaceIsKnown /\ KnownTags
  BY DEF RecordsInit, FormIsFilled, TagsAreAsked, TagsAreLinked, PlaceIsKnown, KnownTags
<1>4. TagsStayInContainer
  BY DEF RecordsInit, TagsStayInContainer, NoTags
<1>5. WritersMeet /\ Progress
  BY <1>2 DEF RecordsInit, WritersMeet, Progress
<1>6. SavedIsThere
  <2>1. \A f \in Files, record \in Form : saved[f] # <<record>>
    BY DEF RecordsInit
  <2> QED
    BY <2>1 DEF SavedIsThere
<1> QED
  BY <1>1, <1>3, <1>4, <1>5, <1>6 DEF RecordInv

(***************************************************************************)
(* What the worker and the broker do is one of these steps.                *)
(***************************************************************************)
LEMMA RecordsAreApart ==
    ASSUME RecordTypes, toLocate \subseteq Files, [Next]_vars
    PROVE  RecordsNext
<1> USE DEF RecordsNext
<1>1. ASSUME UNCHANGED recordVars PROVE RecordsNext
  BY <1>1 DEF recordVars
<1>2. CASE Work
  <2>1. ASSUME NEW f \in Files, CheckLocation(f) PROVE RecordsNext
    BY <2>1 DEF CheckLocation
  <2>2. CASE SetLocation
    <3>1. locating \subseteq Files
      BY DEF RecordTypes
    <3> QED
      BY <1>1, <2>2, <3>1 DEF SetLocation
  <2> QED
    BY <1>1, <1>2, <2>1, <2>2
       DEF Work, Deliver, Acknowledge, FindOrCreateBlob, AddRevision, OnNewFileBlobUploaded,
           AnalyzeMediaFile, ExtractTags, ComputeThumbs, AddThumb, ComputeStreamingVersion,
           FetchTags, AllChecked
<1>3. CASE Crash
  BY <1>3 DEF Crash
<1>4. CASE Fail \/ (\E i \in DOMAIN publishing : Publish(i))
           \/ (\E b \in Blobs : RequestFileVersionCreation(b))
  BY <1>1, <1>4 DEF Fail, Publish, RequestFileVersionCreation
<1>5. CASE UNCHANGED vars
  BY <1>1, <1>5 DEF vars
<1> QED
  BY <1>2, <1>3, <1>4, <1>5 DEF Next

(***************************************************************************)
(* Queues.                                                                 *)
(***************************************************************************)
\* short is long without its element at p.
Without(long, p, short) ==
    /\ long \in Seq(Jobs) /\ short \in Seq(Jobs) /\ p \in 1..Len(long)
    /\ Len(long) = Len(short) + 1
    /\ \A j \in 1..Len(short) : short[j] = long[IF j < p THEN j ELSE j + 1]

LEMMA TailIsWithout ==
    ASSUME NEW seq \in Seq(Jobs), seq # <<>>
    PROVE  Without(seq, 1, Tail(seq)) /\ Head(seq) = seq[1]
<1>1. Len(seq) \in Nat /\ Len(seq) > 0
  OBVIOUS
<1> QED
  BY <1>1 DEF Without

LEMMA RemoveIsWithout ==
    ASSUME NEW seq \in Seq(Jobs), NEW p \in DOMAIN seq
    PROVE  Without(seq, p, RemoveAt(seq, p))
<1> DEFINE before == SubSeq(seq, 1, p - 1)
           after == SubSeq(seq, p + 1, Len(seq))
<1>1. p \in 1..Len(seq) /\ Len(seq) \in Nat
  OBVIOUS
<1>2. before \in Seq(Jobs) /\ Len(before) = p - 1 /\ \A j \in 1..(p - 1) : before[j] = seq[j]
  BY <1>1
<1>3. after \in Seq(Jobs) /\ Len(after) = Len(seq) - p
      /\ \A j \in 1..(Len(seq) - p) : after[j] = seq[p + j]
  BY <1>1
<1>4. RemoveAt(seq, p) = before \o after
  BY DEF RemoveAt
<1> HIDE DEF before, after
<1> DEFINE both == before \o after
<1>5. /\ both \in Seq(Jobs) /\ Len(both) = Len(before) + Len(after)
      /\ \A j \in 1..(Len(before) + Len(after)) :
            both[j] = IF j <= Len(before) THEN before[j] ELSE after[j - Len(before)]
  BY <1>2, <1>3, ConcatProperties
<1> HIDE DEF both
<1>6. Len(both) = Len(seq) - 1
  BY <1>1, <1>2, <1>3, <1>5
<1>7. ASSUME NEW j \in 1..(Len(seq) - 1), j < p PROVE both[j] = seq[j]
  BY <1>1, <1>2, <1>3, <1>5, <1>7
<1>8. ASSUME NEW j \in 1..(Len(seq) - 1), ~(j < p) PROVE both[j] = seq[j + 1]
  <2>1. /\ j \in 1..(Len(before) + Len(after)) /\ ~(j <= Len(before))
        /\ j - Len(before) \in 1..(Len(seq) - p) /\ p + (j - Len(before)) = j + 1
    BY <1>1, <1>2, <1>3, <1>8
  <2> QED
    BY <1>3, <1>5, <2>1
<1>9. \A j \in 1..(Len(seq) - 1) : both[j] = seq[IF j < p THEN j ELSE j + 1]
  BY <1>7, <1>8
<1> QED
  BY <1>1, <1>4, <1>5, <1>6, <1>9 DEF Without, both

LEMMA AppendIsWithout ==
    ASSUME NEW seq \in Seq(Jobs), NEW m \in Jobs
    PROVE  /\ Without(Append(seq, m), Len(seq) + 1, seq)
           /\ Append(seq, m)[Len(seq) + 1] = m
<1>1. Len(seq) \in Nat
  OBVIOUS
<1> QED
  BY <1>1 DEF Without

LEMMA ConsIsWithout ==
    ASSUME NEW seq \in Seq(Jobs), NEW m \in Jobs
    PROVE  Without(<<m>> \o seq, 1, seq) /\ (<<m>> \o seq)[1] = m
<1> DEFINE long == <<m>> \o seq
<1>1. Len(seq) \in Nat /\ <<m>> \in Seq(Jobs) /\ Len(<<m>>) = 1 /\ <<m>>[1] = m
  OBVIOUS
<1>2. /\ long \in Seq(Jobs) /\ Len(long) = Len(<<m>>) + Len(seq)
      /\ \A j \in 1..(Len(<<m>>) + Len(seq)) :
            long[j] = IF j <= Len(<<m>>) THEN <<m>>[j] ELSE seq[j - Len(<<m>>)]
  <2>1. <<m>> \in Seq(Jobs)
    BY <1>1
  <2> QED
    BY <2>1, ConcatProperties
<1> HIDE DEF long
<1>3. /\ long \in Seq(Jobs) /\ Len(long) = 1 + Len(seq)
      /\ \A j \in 1..(1 + Len(seq)) : long[j] = IF j <= 1 THEN <<m>>[j] ELSE seq[j - 1]
  BY <1>1, <1>2
<1>4. long[1] = m /\ \A j \in 1..Len(seq) : long[j + 1] = seq[j]
  <2>1. long[1] = m
    BY <1>1, <1>3
  <2>2. ASSUME NEW j \in 1..Len(seq) PROVE long[j + 1] = seq[j]
    BY <1>1, <1>3
  <2> QED
    BY <2>1, <2>2
<1>5. Without(long, 1, seq)
  BY <1>1, <1>3, <1>4 DEF Without
<1> QED
  BY <1>4, <1>5 DEF long

\* What the two queues hold.
LEMMA Both ==
    ASSUME NEW long, NEW p, NEW short, Without(long, p, short)
    PROVE  /\ long[p] \in Jobs /\ p \in DOMAIN long
           /\ \A j \in DOMAIN short : \E k \in DOMAIN long : short[j] = long[k]
           /\ \A k \in DOMAIN long : k = p \/ \E j \in DOMAIN short : short[j] = long[k]
<1>1. /\ DOMAIN long = 1..Len(long) /\ DOMAIN short = 1..Len(short)
      /\ Len(long) \in Nat /\ Len(short) \in Nat
      /\ p \in 1..Len(long) /\ Len(long) = Len(short) + 1
      /\ \A j \in 1..Len(short) : short[j] = long[IF j < p THEN j ELSE j + 1]
      /\ long[p] \in Jobs
  BY DEF Without
<1>2. ASSUME NEW k \in 1..Len(long), k # p PROVE \E j \in 1..Len(short) : short[j] = long[k]
  <2>1. CASE k < p
    <3>1. k \in 1..Len(short) /\ short[k] = long[k]
      BY <1>1, <2>1
    <3> QED
      BY <3>1
  <2>2. CASE ~(k < p)
    <3>1. k - 1 \in 1..Len(short) /\ ~(k - 1 < p) /\ (k - 1) + 1 = k
      BY <1>1, <1>2, <2>2
    <3>2. short[k - 1] = long[k]
      BY <1>1, <3>1
    <3> QED
      BY <3>1, <3>2
  <2> QED
    BY <2>1, <2>2
<1>3. ASSUME NEW j \in 1..Len(short) PROVE \E k \in 1..Len(long) : short[j] = long[k]
  <2>1. (IF j < p THEN j ELSE j + 1) \in 1..Len(long)
    BY <1>1
  <2> QED
    BY <1>1, <2>1
<1> QED
  BY <1>1, <1>2, <1>3

LEMMA BothOf ==
    ASSUME NEW long, NEW p, NEW short, Without(long, p, short), NEW type, NEW b
    PROVE  /\ Of(short, type, b) # {} => Of(long, type, b) # {}
           /\ ~(long[p].type = type /\ long[p].blob = b) =>
                 (Of(long, type, b) # {} <=> Of(short, type, b) # {})
           /\ long[p].type = type /\ long[p].blob = b => Of(long, type, b) # {}
           /\ Once(long, type, b) =>
                 /\ Once(short, type, b)
                 /\ long[p].type = type /\ long[p].blob = b => Of(short, type, b) = {}
           /\ Once(short, type, b) /\ Of(short, type, b) = {} => Once(long, type, b)
           /\ Once(short, type, b) /\ ~(long[p].type = type /\ long[p].blob = b) =>
                 Once(long, type, b)
<1> DEFINE Is(m) == m.type = type /\ m.blob = b
<1>1. /\ DOMAIN long = 1..Len(long) /\ DOMAIN short = 1..Len(short)
      /\ Len(long) \in Nat /\ Len(short) \in Nat
      /\ p \in 1..Len(long) /\ Len(long) = Len(short) + 1
      /\ \A j \in 1..Len(short) : short[j] = long[IF j < p THEN j ELSE j + 1]
  BY DEF Without
<1>2. /\ \A j \in Of(short, type, b) : \E k \in Of(long, type, b) :
            k # p /\ k = IF j < p THEN j ELSE j + 1
  BY <1>1 DEF Of
<1>3. \A k \in Of(long, type, b) : k = p \/ \E j \in Of(short, type, b) : k = IF j < p THEN j ELSE j + 1
  <2> SUFFICES ASSUME NEW k \in Of(long, type, b), k # p
               PROVE  \E j \in Of(short, type, b) : k = IF j < p THEN j ELSE j + 1
    OBVIOUS
  <2>0. k \in 1..Len(long) /\ Is(long[k])
    BY <1>1 DEF Of
  <2>1. CASE k < p
    <3>1. k \in 1..Len(short) /\ short[k] = long[k]
      BY <1>1, <2>0, <2>1
    <3> QED
      BY <1>1, <2>0, <2>1, <3>1 DEF Of
  <2>2. CASE ~(k < p)
    <3>1. k - 1 \in 1..Len(short) /\ ~(k - 1 < p) /\ (k - 1) + 1 = k
      BY <1>1, <2>0, <2>2
    <3>2. short[k - 1] = long[k]
      BY <1>1, <3>1
    <3>3. k - 1 \in Of(short, type, b)
      BY <1>1, <2>0, <3>1, <3>2 DEF Of
    <3> QED
      BY <3>1, <3>3
  <2> QED
    BY <2>1, <2>2
<1>4. p \in Of(long, type, b) <=> Is(long[p])
  BY <1>1 DEF Of
<1>5. Of(short, type, b) \subseteq Nat /\ Of(long, type, b) \subseteq Nat /\ p \in Nat
  BY <1>1 DEF Of
<1>6. Of(short, type, b) # {} => Of(long, type, b) # {}
  BY <1>2
<1>7. ~Is(long[p]) => (Of(long, type, b) # {} <=> Of(short, type, b) # {})
  BY <1>2, <1>3, <1>4
<1>8. Once(long, type, b) => Once(short, type, b)
  <2> SUFFICES ASSUME Once(long, type, b), NEW i \in Of(short, type, b), NEW j \in Of(short, type, b)
               PROVE  i = j
    BY DEF Once
  <2>1. (IF i < p THEN i ELSE i + 1) = (IF j < p THEN j ELSE j + 1)
    BY <1>2 DEF Once
  <2> QED
    BY <1>5, <2>1
<1>9. Once(long, type, b) /\ Is(long[p]) => Of(short, type, b) = {}
  BY <1>2, <1>4 DEF Once
<1>10. Of(short, type, b) = {} => Once(long, type, b)
  BY <1>3 DEF Once
<1>11. Once(short, type, b) /\ ~Is(long[p]) => Once(long, type, b)
  <2> SUFFICES ASSUME Once(short, type, b), ~Is(long[p]),
                      NEW i \in Of(long, type, b), NEW j \in Of(long, type, b)
               PROVE  i = j
    BY DEF Once
  <2>1. PICK k \in Of(short, type, b) : i = IF k < p THEN k ELSE k + 1
    BY <1>3, <1>4
  <2>2. PICK l \in Of(short, type, b) : j = IF l < p THEN l ELSE l + 1
    BY <1>3, <1>4
  <2> QED
    BY <2>1, <2>2 DEF Once
<1> QED
  BY <1>4, <1>6, <1>7, <1>8, <1>9, <1>10, <1>11

\* The job of the worker.
LEMMA OfJob ==
    ASSUME NEW type, NEW b
    PROVE  /\ Of(<<>>, type, b) = {}
           /\ \A m : Of(<<m>>, type, b) # {} <=> m.type = type /\ m.blob = b
<1>1. Of(<<>>, type, b) = {}
  BY DEF Of
<1>2. ASSUME NEW m PROVE Of(<<m>>, type, b) # {} <=> m.type = type /\ m.blob = b
  <2>1. DOMAIN <<m>> = {1} /\ <<m>>[1] = m
    OBVIOUS
  <2>2. Of(<<m>>, type, b) = {i \in {1} : m.type = type /\ m.blob = b}
    BY <2>1 DEF Of
  <2> QED
    BY <2>2
<1> QED
  BY <1>1, <1>2

LEMMA AtWork ==
    ASSUME WorkerTypes
    PROVE  /\ job = <<>> <=> at = "idle"
           /\ at # "idle" =>
                 /\ job = <<Current>> /\ Current \in Jobs /\ Current.blob \in Blobs
                 /\ at \in Points(Current.type)
                 /\ Current.type \in {"upload", "thumbs", "version"}
                 /\ Of(job, Current.type, Current.blob) # {}
<1>1. CASE job = <<>> /\ at = "idle"
  BY <1>1
<1>2. CASE \E m \in Jobs : job = <<m>> /\ at \in Points(m.type)
  <2>1. PICK m \in Jobs : job = <<m>> /\ at \in Points(m.type)
    BY <1>2
  <2>2. Current = m /\ job # <<>>
    BY <2>1 DEF Current
  <2>3. at # "idle"
    BY <2>1 DEF Points, Uploading, Locating
  <2>4. m.type \in {"upload", "thumbs", "version"} /\ m.blob \in Blobs
    BY DEF Jobs
  <2>5. Of(job, m.type, m.blob) # {}
    BY <2>1, OfJob
  <2> QED
    BY <2>1, <2>2, <2>3, <2>4, <2>5
<1> QED
  BY <1>1, <1>2 DEF WorkerTypes

LEMMA PublishMoves ==
    ASSUME WorkerTypes, NEW i, Publish(i), NEW type, NEW b
    PROVE  /\ Pending(type, b)' => Pending(type, b)
           /\ Pending(type, b) =>
                 \/ Pending(type, b)'
                 \/ \E m \in unsent' : m.type = type /\ m.blob = b
           /\ unsent \subseteq unsent'
           /\ Single(type, b) => Single(type, b)'
<1>1. /\ i \in DOMAIN publishing /\ publishing' = RemoveAt(publishing, i) /\ job' = job
      /\ queue' = IF channels < ChannelMax THEN Append(queue, publishing[i]) ELSE queue
      /\ unsent' = IF channels < ChannelMax THEN unsent ELSE unsent \cup {publishing[i]}
      /\ publishing \in Seq(Jobs) /\ queue \in Seq(Jobs)
  BY DEF Publish, worker, WorkerTypes
<1> DEFINE m == publishing[i]
           is == m.type = type /\ m.blob = b
<1>2. m \in Jobs
  BY <1>1
<1>3. Without(publishing, i, publishing')
  BY <1>1, RemoveIsWithout
<1>4. /\ Of(publishing', type, b) # {} => Of(publishing, type, b) # {}
      /\ ~is => (Of(publishing, type, b) # {} <=> Of(publishing', type, b) # {})
      /\ is => Of(publishing, type, b) # {}
      /\ Once(publishing, type, b) =>
            Once(publishing', type, b) /\ (is => Of(publishing', type, b) = {})
  BY <1>3, BothOf
<1>5. Pending(type, b)' <=>
        (Of(job, type, b) # {} \/ Of(queue', type, b) # {} \/ Of(publishing', type, b) # {})
  BY <1>1 DEF Pending
<1>6. Single(type, b)' <=>
        /\ Once(queue', type, b) /\ Once(publishing', type, b)
        /\ Of(job, type, b) # {} => Of(queue', type, b) = {} /\ Of(publishing', type, b) = {}
        /\ Of(queue', type, b) # {} => Of(publishing', type, b) = {}
  BY <1>1 DEF Single
<1>7. CASE channels < ChannelMax
  <2>1. Without(queue', Len(queue) + 1, queue) /\ queue'[Len(queue) + 1] = m
    BY <1>1, <1>2, <1>7, AppendIsWithout
  <2>2. /\ ~is => (Of(queue', type, b) # {} <=> Of(queue, type, b) # {})
        /\ is => Of(queue', type, b) # {}
        /\ Of(queue, type, b) # {} => Of(queue', type, b) # {}
        /\ Once(queue, type, b) /\ Of(queue, type, b) = {} => Once(queue', type, b)
        /\ Once(queue, type, b) /\ ~is => Once(queue', type, b)
    BY <2>1, BothOf
  <2>3. unsent' = unsent
    BY <1>1, <1>7
  <2> HIDE DEF is
  <2> QED
    BY <1>4, <1>5, <1>6, <2>2, <2>3 DEF Pending, Single
<1>8. CASE ~ (channels < ChannelMax)
  <2>1. queue' = queue /\ unsent' = unsent \cup {m}
    BY <1>1, <1>8
  <2>2. is => \E sent \in unsent' : sent.type = type /\ sent.blob = b
    BY <2>1
  <2> HIDE DEF is
  <2> QED
    BY <1>4, <1>5, <1>6, <2>1, <2>2 DEF Pending, Single
<1> QED
  BY <1>7, <1>8

LEMMA DeliverMoves ==
    ASSUME WorkerTypes, Deliver, NEW type, NEW b
    PROVE  (Pending(type, b)' <=> Pending(type, b)) /\ (Single(type, b) => Single(type, b)')
<1>1. /\ queue # <<>> /\ queue' = Tail(queue) /\ job = <<>> /\ job' = <<Head(queue)>>
      /\ publishing' = publishing /\ queue \in Seq(Jobs)
  BY AtWork DEF Deliver, Goto, WorkerTypes
<1> DEFINE m == Head(queue)
           is == m.type = type /\ m.blob = b
<1>2. Without(queue, 1, queue') /\ m = queue[1]
  BY <1>1, TailIsWithout
<1>3. /\ Of(queue', type, b) # {} => Of(queue, type, b) # {}
      /\ ~is => (Of(queue, type, b) # {} <=> Of(queue', type, b) # {})
      /\ is => Of(queue, type, b) # {}
      /\ Once(queue, type, b) => Once(queue', type, b) /\ (is => Of(queue', type, b) = {})
  BY <1>2, BothOf
<1>4. Of(job, type, b) = {} /\ (Of(job', type, b) # {} <=> is)
  BY <1>1, OfJob
<1> HIDE DEF is
<1>5. Pending(type, b)' <=>
        (Of(job', type, b) # {} \/ Of(queue', type, b) # {} \/ Of(publishing, type, b) # {})
  BY <1>1 DEF Pending
<1>6. Single(type, b)' <=>
        /\ Once(queue', type, b) /\ Once(publishing, type, b)
        /\ Of(job', type, b) # {} => Of(queue', type, b) = {} /\ Of(publishing, type, b) = {}
        /\ Of(queue', type, b) # {} => Of(publishing, type, b) = {}
  BY <1>1 DEF Single
<1> QED
  BY <1>3, <1>4, <1>5, <1>6 DEF Pending, Single

LEMMA AcknowledgeMoves ==
    ASSUME Acknowledge, NEW type, NEW b
    PROVE  (Pending(type, b)' => Pending(type, b)) /\ (Single(type, b) => Single(type, b)')
<1>1. job' = <<>> /\ queue' = queue /\ publishing' = publishing
  BY DEF Acknowledge
<1>2. Of(job', type, b) = {}
  BY <1>1, OfJob
<1> QED
  BY <1>1, <1>2 DEF Pending, Single

\* A crash puts the job back in front of the queue, and what is published is lost.
LEMMA CrashMoves ==
    ASSUME WorkerTypes, Crash, NEW type, NEW b
    PROVE  /\ (Pending(type, b)' => Pending(type, b)) /\ (Single(type, b) => Single(type, b)')
           /\ queue' \in Seq(Jobs)
           /\ \A j \in DOMAIN queue' : First(queue'[j]) =>
                 \E k \in DOMAIN queue : queue'[j] = queue[k]
<1>1. /\ queue' = [i \in DOMAIN job |-> [job[i] EXCEPT !.again = TRUE]] \o queue
      /\ job' = <<>> /\ publishing' = <<>> /\ queue \in Seq(Jobs)
  BY DEF Crash, WorkerTypes
<1>2. Of(job', type, b) = {} /\ Of(publishing', type, b) = {}
  BY <1>1, OfJob
<1>3. Once(publishing', type, b)
  BY <1>2 DEF Once
<1>4. CASE job = <<>>
  <2>1. queue' = <<>> \o queue
    BY <1>1, <1>4
  <2>2. queue' = queue
    BY <1>1, <2>1, ConcatEmptySeq
  <2> QED
    BY <1>1, <1>2, <1>3, <2>2 DEF Pending, Single
<1>5. CASE at # "idle"
  <2> DEFINE m == [Current EXCEPT !.again = TRUE]
             is == m.type = type /\ m.blob = b
  <2>1. job = <<Current>> /\ Current \in Jobs
    BY <1>5, AtWork
  <2>2. m \in Jobs /\ m.type = Current.type /\ m.blob = Current.blob /\ m.again = TRUE
    BY <2>1 DEF Jobs
  <2>3. [i \in DOMAIN job |-> [job[i] EXCEPT !.again = TRUE]] = <<m>>
    <3>1. DOMAIN job = {1} /\ job[1] = Current
      BY <2>1 DEF Current
    <3>2. \A i \in DOMAIN job : [job[i] EXCEPT !.again = TRUE] = m
      BY <3>1
    <3> HIDE DEF m
    <3>3. [i \in DOMAIN job |-> [job[i] EXCEPT !.again = TRUE]] = [i \in 1..1 |-> m]
      BY <3>1, <3>2
    <3>4. [i \in 1..1 |-> m] = <<m>>
      OBVIOUS
    <3> QED
      BY <3>3, <3>4
  <2> HIDE DEF m
  <2>4. Without(queue', 1, queue) /\ queue'[1] = m
    BY <1>1, <2>2, <2>3, ConsIsWithout
  <2>5. /\ ~is => (Of(queue', type, b) # {} <=> Of(queue, type, b) # {})
        /\ Once(queue, type, b) /\ Of(queue, type, b) = {} => Once(queue', type, b)
        /\ Once(queue, type, b) /\ ~is => Once(queue', type, b)
    BY <2>4, BothOf
  <2>6. Of(job, type, b) # {} <=> is
    <3>1. DOMAIN job = {1} /\ job[1] = Current
      BY <2>1 DEF Current
    <3> QED
      BY <2>2, <3>1 DEF Of
  <2>7. \A j \in DOMAIN queue' : First(queue'[j]) => \E k \in DOMAIN queue : queue'[j] = queue[k]
    BY <2>2, <2>4, Both DEF First
  <2>8. queue' \in Seq(Jobs)
    BY <2>4 DEF Without
  <2> HIDE DEF is
  <2>9. Pending(type, b)' <=> Of(queue', type, b) # {}
    BY <1>2 DEF Pending
  <2>10. Single(type, b)' <=> Once(queue', type, b)
    BY <1>2, <1>3 DEF Single
  <2> QED
    BY <2>5, <2>6, <2>7, <2>8, <2>9, <2>10 DEF Pending, Single
<1> QED
  BY <1>4, <1>5, AtWork

\* A message that is published.
Published(m) ==
    publishing' = Append(publishing, m) /\ queue' = queue /\ job' = job

LEMMA PublishedIsPending ==
    ASSUME WorkerTypes, NEW m \in Jobs, Published(m), NEW type, NEW b
    PROVE  /\ ~(m.type = type /\ m.blob = b) =>
                 (Pending(type, b)' <=> Pending(type, b)) /\ (Single(type, b) => Single(type, b)')
           /\ ~ Pending(type, b) => Single(type, b)'
<1> DEFINE is == m.type = type /\ m.blob = b
<1>1. Without(publishing', Len(publishing) + 1, publishing) /\ publishing'[Len(publishing) + 1] = m
  BY AppendIsWithout DEF WorkerTypes, Published
<1>2. /\ ~is => (Of(publishing', type, b) # {} <=> Of(publishing, type, b) # {})
      /\ Once(publishing, type, b) /\ Of(publishing, type, b) = {} => Once(publishing', type, b)
      /\ Once(publishing, type, b) /\ ~is => Once(publishing', type, b)
  BY <1>1, BothOf
<1> HIDE DEF is
<1>3. Pending(type, b)' <=>
        (Of(job, type, b) # {} \/ Of(queue, type, b) # {} \/ Of(publishing', type, b) # {})
  BY DEF Pending, Published
<1>4. Single(type, b)' <=>
        /\ Once(queue, type, b) /\ Once(publishing', type, b)
        /\ Of(job, type, b) # {} => Of(queue, type, b) = {} /\ Of(publishing', type, b) = {}
        /\ Of(queue, type, b) # {} => Of(publishing', type, b) = {}
  BY DEF Single, Published
<1>5. \A seq : Of(seq, type, b) = {} => Once(seq, type, b)
  BY DEF Once
<1>6. ~is => (Pending(type, b)' <=> Pending(type, b)) /\ (Single(type, b) => Single(type, b)')
  BY <1>2, <1>3, <1>4 DEF Pending, Single
<1>7. ~ Pending(type, b) => Single(type, b)'
  BY <1>2, <1>4, <1>5 DEF Pending
<1> QED
  BY <1>6, <1>7 DEF is

\* What nobody moves stays pending.
LEMMA NothingMoves ==
    ASSUME UNCHANGED <<publishing, queue, job>>, NEW type, NEW b
    PROVE  (Pending(type, b)' <=> Pending(type, b)) /\ (Single(type, b)' <=> Single(type, b))
  BY DEF Pending, Single

(***************************************************************************)
(* Thumbnails and versions of a blob.                                      *)
(***************************************************************************)
LEMMA SegmentsAreASequence ==
    ASSUME NEW b
    PROVE  \E n \in Nat : DOMAIN SplitIntoSegmentsByCount(b) = 1..n
<1> DEFINE middle == [i \in 1..SegmentsCount |->
                        ((2 * i - 1) * Duration[b] + SegmentsCount) \div (2 * SegmentsCount)]
           middles == {middle[i] : i \in 1..SegmentsCount}
           given == {((2 * i - 1) * Duration[b] + SegmentsCount) \div (2 * SegmentsCount) :
                        i \in 1..SegmentsCount}
<1>1. given = middles
  OBVIOUS
<1>2. IsFiniteSet(1..SegmentsCount)
  BY VideosAreCut, FS_Interval
<1>3. middle \in Surjection(1..SegmentsCount, middles)
  BY DEF Surjection
<1>4. DOMAIN SplitIntoSegmentsByCount(b) = 1..Cardinality(given)
  BY DEF SplitIntoSegmentsByCount
<1> HIDE DEF middle, middles, given
<1>5. IsFiniteSet(given)
  BY <1>1, <1>2, <1>3, FS_Surjection
<1> QED
  BY <1>4, <1>5, FS_CardinalityType

LEMMA ThumbsAreASequence ==
    ASSUME NEW b
    PROVE  /\ Len(Thumbs(b)) \in Nat \ {0} /\ DOMAIN Thumbs(b) = 1..Len(Thumbs(b))
           /\ \E S : Thumbs(b) \in Seq(S)
<1>1. CASE MediaType[b] = "image"
  <2> DEFINE S == {Frame[b][0]}
  <2>1. Thumbs(b) = <<Frame[b][0]>>
    BY <1>1 DEF Thumbs
  <2>2. Thumbs(b) \in Seq(S) /\ Len(Thumbs(b)) = 1
    BY <2>1
  <2> HIDE DEF S
  <2> QED
    BY <2>2
<1>2. CASE MediaType[b] # "image"
  <2> DEFINE seconds == SplitIntoSegmentsByCount(b)
             frames == [i \in DOMAIN seconds |-> Frame[b][seconds[i]]]
             rest == <<Tiles[b], Preview[b]>>
             S == {frames[i] : i \in DOMAIN seconds} \cup {Tiles[b], Preview[b]}
  <2>1. Thumbs(b) = frames \o rest
    BY <1>2 DEF Thumbs
  <2>2. PICK n \in Nat : DOMAIN seconds = 1..n
    BY SegmentsAreASequence
  <2>3. frames \in Seq(S)
    <3> HIDE DEF seconds
    <3>1. frames \in [1..n -> S]
      BY <2>2
    <3> HIDE DEF frames, S
    <3> QED
      BY <3>1
  <2>4. rest \in Seq(S) /\ Len(rest) = 2
    OBVIOUS
  <2> HIDE DEF seconds, frames, rest, S
  <2>5. Thumbs(b) \in Seq(S) /\ Len(Thumbs(b)) = Len(frames) + 2
    <3>1. rest \in Seq(S)
      BY <2>4
    <3>2. frames \o rest \in Seq(S) /\ Len(frames \o rest) = Len(frames) + Len(rest)
      BY <2>3, <3>1, ConcatProperties
    <3> QED
      BY <2>1, <2>4, <3>2
  <2>6. Len(frames) \in Nat
    BY <2>3
  <2>7. Len(Thumbs(b)) \in Nat \ {0}
    BY <2>5, <2>6
  <2> QED
    BY <2>5, <2>7
<1> QED
  BY <1>1, <1>2

\* Where the versions of a blob differ, no thumbnail is made twice and none is a version
\* for streaming.
LEMMA VersionsDiffer ==
    ASSUME NEW b, Differ(b)
    PROVE  /\ \A i, j \in DOMAIN Thumbs(b) : Thumbs(b)[i] = Thumbs(b)[j] => i = j
           /\ \A i \in DOMAIN Thumbs(b) : Thumbs(b)[i] # StreamVersion[b]
<1> DEFINE s == Thumbs(b)
           v == StreamVersion[b]
           n == Len(s)
<1>1. n \in Nat /\ DOMAIN s = 1..n /\ \E S : s \in Seq(S)
  BY ThumbsAreASequence
<1>2. PICK S : s \in Seq(S)
  BY <1>1
<1>3. IsInjective(Append(s, v))
  BY DEF Differ, Versions
<1> HIDE DEF s, v
<1>4. s \in Seq(S \cup {v}) /\ v \in S \cup {v}
  BY <1>2
<1>5. /\ Len(Append(s, v)) = n + 1 /\ Append(s, v) \in Seq(S \cup {v})
      /\ \A i \in 1..n : Append(s, v)[i] = s[i]
      /\ Append(s, v)[n + 1] = v
  BY <1>4, AppendProperties
<1>6. DOMAIN Append(s, v) = 1..(n + 1)
  BY <1>5
<1>7. ASSUME NEW i \in 1..n, NEW j \in 1..n, s[i] = s[j] PROVE i = j
  BY <1>1, <1>3, <1>5, <1>6, <1>7 DEF IsInjective
<1>8. ASSUME NEW i \in 1..n, s[i] = v PROVE FALSE
  <2>1. i \in DOMAIN Append(s, v) /\ n + 1 \in DOMAIN Append(s, v) /\ i # n + 1
    BY <1>1, <1>6
  <2>2. Append(s, v)[i] = Append(s, v)[n + 1]
    BY <1>5, <1>8
  <2> QED
    BY <1>3, <2>1, <2>2 DEF IsInjective
<1>9. (\A i, j \in DOMAIN s : s[i] = s[j] => i = j) /\ (\A i \in DOMAIN s : s[i] # v)
  BY <1>1, <1>7, <1>8
<1> QED
  BY <1>9 DEF s, v

(***************************************************************************)
(* How often a version has been asked for.                                 *)
(***************************************************************************)
LEMMA CountIsNat ==
    ASSUME WorkerTypes, NEW b
    PROVE  Count(b) \in Nat
<1>1. asked \in Seq(Blobs) /\ IsFiniteSet(1..Len(asked))
  BY FS_Interval DEF WorkerTypes
<1> DEFINE S == {i \in DOMAIN asked : asked[i] = b}
<1>2. S \subseteq 1..Len(asked)
  BY <1>1
<1> HIDE DEF S
<1>3. IsFiniteSet(S)
  BY <1>1, <1>2, FS_Subset
<1> QED
  BY <1>3, FS_CardinalityType DEF Count, S

LEMMA CountNext ==
    ASSUME WorkerTypes, NEW c \in Blobs, asked' = Append(asked, c), NEW b
    PROVE  Count(b)' = IF b = c THEN Count(b) + 1 ELSE Count(b)
<1>1. asked \in Seq(Blobs) /\ Len(asked) \in Nat
  BY DEF WorkerTypes
<1> DEFINE n == Len(asked)
           S == {i \in DOMAIN asked : asked[i] = b}
           T == {i \in DOMAIN asked' : asked'[i] = b}
<1>2. /\ Len(asked') = n + 1 /\ DOMAIN asked' = 1..(n + 1) /\ DOMAIN asked = 1..n
      /\ \A i \in 1..n : asked'[i] = asked[i]
      /\ asked'[n + 1] = c
  BY <1>1
<1>3. T = IF b = c THEN S \cup {n + 1} ELSE S
  <2>1. \A i : i \in 1..(n + 1) <=> i \in 1..n \/ i = n + 1
    BY <1>1
  <2> QED
    BY <1>2, <2>1
<1>4. n + 1 \notin S
  BY <1>1, <1>2
<1>5. IsFiniteSet(S)
  <2>1. IsFiniteSet(1..n)
    BY <1>1, FS_Interval
  <2>2. S \subseteq 1..n
    BY <1>2
  <2> HIDE DEF S
  <2> QED
    BY <2>1, <2>2, FS_Subset
<1>6. Count(b)' = Cardinality(T) /\ Count(b) = Cardinality(S)
  BY DEF Count
<1> HIDE DEF S, T
<1>7. Cardinality(S \cup {n + 1}) = Cardinality(S) + 1
  BY <1>4, <1>5, FS_AddElement
<1> QED
  BY <1>3, <1>6, <1>7

(***************************************************************************)
(* The worker's steps, one conjunct of WorkerInv after the other.          *)
(***************************************************************************)
LEMMA TypesKept ==
    ASSUME WorkerTypes, at # "idle", job' = job, at' \in Points(Current.type),
           publishing' \in Seq(Jobs), queue' = queue, channels' = channels,
           added' \in Nat, toLocate' \subseteq Files, asked' = asked,
           failures' \in Nat, crashes' = crashes
    PROVE  WorkerTypes'
<1>1. job = <<Current>> /\ Current \in Jobs
  BY AtWork
<1>2. job' = <<Current>> /\ at' \in Points(Current.type)
  BY <1>1
<1> QED
  BY <1>1, <1>2 DEF WorkerTypes

LEMMA TypesStep ==
    ASSUME WorkerTypes, [Next]_vars
    PROVE  WorkerTypes'
<1>0. at # "idle" => /\ Current \in Jobs /\ Current.blob \in Blobs
                     /\ at \in Points(Current.type)
                     /\ Current.type \in {"upload", "thumbs", "version"}
  BY AtWork
<1> USE DEF worker, tables, faults, Goto
<1>1. CASE Deliver
  <2>1. queue \in Seq(Jobs) /\ queue # <<>>
    BY <1>1 DEF Deliver, WorkerTypes
  <2> DEFINE m == Head(queue)
  <2>2. m \in Jobs /\ Tail(queue) \in Seq(Jobs)
    BY <2>1
  <2>3. m.type \in {"upload", "thumbs", "version"}
    BY <2>2 DEF Jobs
  <2>4. m.type \in Points(m.type)
    BY <2>3 DEF Points, Uploading
  <2>5. job' = <<m>> /\ at' = m.type /\ queue' = Tail(queue) /\ added' = 0
    BY <1>1 DEF Deliver
  <2> HIDE DEF m
  <2> QED
    BY <1>1, <2>2, <2>4, <2>5 DEF Deliver, WorkerTypes
<1>2. CASE Acknowledge
  BY <1>2, ChannelMaxIsNat DEF Acknowledge, WorkerTypes
<1>3. CASE FindOrCreateBlob \/ AddRevision
  <2>1. at # "idle" /\ at' \in Points(Current.type)
    BY <1>0, <1>3 DEF FindOrCreateBlob, AddRevision, Points, Uploading, Locating
  <2> QED
    BY <1>3, <2>1, TypesKept DEF FindOrCreateBlob, AddRevision, WorkerTypes
<1>4. CASE OnNewFileBlobUploaded
  <2>1. at # "idle" /\ at' \in Points(Current.type)
    BY <1>0, <1>4 DEF OnNewFileBlobUploaded, Points
  <2>2. Job("thumbs", Current.blob) \in Jobs
    BY <1>0, <2>1 DEF Job, Jobs
  <2>3. publishing' \in Seq(Jobs)
    BY <1>4, <2>2 DEF OnNewFileBlobUploaded, WorkerTypes
  <2> QED
    BY <1>4, <2>1, <2>3, TypesKept DEF OnNewFileBlobUploaded, WorkerTypes
<1>5. CASE Fail
  <2>1. at # "idle" /\ at' \in Points(Current.type)
    BY <1>0, <1>5 DEF Fail, Points
  <2> QED
    BY <1>5, <2>1, TypesKept DEF Fail, WorkerTypes
<1>6. CASE AnalyzeMediaFile \/ ExtractTags \/ ComputeThumbs
  <2>1. at # "idle" /\ at' \in Points(Current.type)
    BY <1>0, <1>6 DEF AnalyzeMediaFile, ExtractTags, ComputeThumbs, Points, Uploading, Locating
  <2> QED
    BY <1>6, <2>1, TypesKept DEF AnalyzeMediaFile, ExtractTags, ComputeThumbs, WorkerTypes
<1>7. CASE AddThumb \/ ComputeStreamingVersion
  <2>1. at # "idle" /\ at' \in Points(Current.type)
    BY <1>0, <1>7 DEF AddThumb, ComputeStreamingVersion, AddVersion, Points, Uploading, Locating
  <2>2. added' \in Nat
    BY <1>7 DEF AddThumb, ComputeStreamingVersion, WorkerTypes
  <2> QED
    BY <1>7, <2>1, <2>2, TypesKept DEF AddThumb, ComputeStreamingVersion, WorkerTypes
<1>8. CASE FetchTags \/ AllChecked \/ SetLocation \/ \E f \in Files : CheckLocation(f)
  <2>1. at # "idle" /\ at' \in Points(Current.type)
    BY <1>0, <1>8 DEF FetchTags, AllChecked, SetLocation, CheckLocation, Located, Points,
                      Uploading, Locating
  <2>2. toLocate' \subseteq Files
    BY <1>8 DEF FetchTags, AllChecked, SetLocation, CheckLocation, WorkerTypes
  <2> QED
    BY <1>8, <2>1, <2>2, TypesKept
       DEF FetchTags, AllChecked, SetLocation, CheckLocation, WorkerTypes
<1>9. CASE Crash
  <2>1. queue' \in Seq(Jobs)
    BY <1>9, CrashMoves
  <2> QED
    BY <1>9, <2>1, ChannelMaxIsNat DEF Crash, WorkerTypes
<1>10. CASE \E i \in DOMAIN publishing : Publish(i)
  <2>1. PICK i \in DOMAIN publishing : Publish(i)
    BY <1>10
  <2>2. /\ publishing \in Seq(Jobs) /\ queue \in Seq(Jobs)
        /\ publishing' = RemoveAt(publishing, i)
        /\ queue' \in {queue, Append(queue, publishing[i])}
    BY <2>1 DEF Publish, WorkerTypes
  <2>3. publishing' \in Seq(Jobs)
    BY <2>2, RemoveIsWithout DEF Without
  <2>4. queue' \in Seq(Jobs)
    BY <2>2
  <2>5. channels' \in 0..ChannelMax
    BY <2>1, ChannelMaxIsNat DEF Publish, WorkerTypes
  <2> QED
    BY <2>1, <2>3, <2>4, <2>5 DEF Publish, WorkerTypes
<1>11. CASE \E b \in Blobs : RequestFileVersionCreation(b)
  <2>1. PICK b \in Blobs : RequestFileVersionCreation(b)
    BY <1>11
  <2>2. Job("version", b) \in Jobs
    BY DEF Job, Jobs
  <2>3. publishing' \in Seq(Jobs) /\ asked' \in Seq(Blobs)
    BY <2>1, <2>2 DEF RequestFileVersionCreation, WorkerTypes
  <2> QED
    BY <2>1, <2>3 DEF RequestFileVersionCreation, WorkerTypes
<1>12. CASE (Users /\ UNCHANGED <<publishing, channels, queue, worker, tables, asked, faults>>)
            \/ UNCHANGED vars
  BY <1>12 DEF vars, WorkerTypes
<1> QED
  BY <1>1, <1>2, <1>3, <1>4, <1>5, <1>6, <1>7, <1>8, <1>9, <1>10, <1>11, <1>12 DEF Next, Work

\* Steps that read blobs and write metadata or locations, or stop over a file that is
\* missing, and those of users.
Elsewhere ==
    /\ UNCHANGED <<publishing, queue, job, blobs, versions, asked, crashes, unsent, added>>
    /\ \/ at' = at
       \/ /\ at' = "failed"
          /\ at \in {"thumbs", "exif", "pictures", "add", "version"} \cup Locating
       \/ /\ at \in {"thumbs", "exif"} \cup Locating
          /\ at' \in {"exif", "pictures", "ack", "failed"} \cup Locating
          /\ Current.type = "thumbs" => at' # "ack"

LEMMA ElsewhereSteps ==
    ASSUME WorkerTypes, [Next]_vars
    PROVE  \/ \E i \in DOMAIN publishing : Publish(i)
           \/ Deliver \/ Acknowledge \/ Crash
           \/ FindOrCreateBlob \/ AddRevision \/ OnNewFileBlobUploaded
           \/ ComputeThumbs
           \/ missing' # added + 1 /\ (AddThumb \/ ComputeStreamingVersion)
           \/ \E b \in Blobs : RequestFileVersionCreation(b)
           \/ Elsewhere
<1> USE DEF worker, tables, faults, Goto
<1>1. CASE Fail \/ AnalyzeMediaFile \/ ExtractTags
  BY <1>1 DEF Fail, AnalyzeMediaFile, ExtractTags, Elsewhere, Locating
<1>2. CASE FetchTags \/ AllChecked
  BY <1>2 DEF FetchTags, AllChecked, Elsewhere, Locating, Located
<1>3. CASE SetLocation \/ \E f \in Files : CheckLocation(f)
  BY <1>3 DEF SetLocation, CheckLocation, Elsewhere, Locating
<1>4. CASE (Users /\ UNCHANGED <<publishing, channels, queue, worker, tables, asked, faults>>)
           \/ UNCHANGED vars
  BY <1>4 DEF vars, Elsewhere
<1>5. CASE missing' = added + 1 /\ (AddThumb \/ ComputeStreamingVersion)
  BY <1>5 DEF AddThumb, ComputeStreamingVersion, AddVersion, Elsewhere
<1> QED
  BY <1>1, <1>2, <1>3, <1>4, <1>5 DEF Next, Work

LEMMA ThumbIsAdded ==
    ASSUME WorkerTypes, AddedAreThere, AddThumb, missing' # added + 1
    PROVE  /\ at = "add" /\ Current \in Jobs /\ Current.type = "thumbs"
           /\ UNCHANGED <<publishing, queue, job, asked, crashes, unsent>> /\ Current' = Current
           /\ added + 1 \in DOMAIN Thumbs(Current.blob)
           /\ added' = IF at' = "failed" THEN added ELSE added + 1
           /\ versions' = versions \cup {<<Current.blob, Thumbs(Current.blob)[added + 1]>>}
           /\ blobs' = blobs \cup {Thumbs(Current.blob)[added + 1]}
           /\ \A b \in Blobs : b # Current.blob => (NoThumbs(b)' <=> NoThumbs(b))
           /\ \A b \in Blobs : b # Current.blob \/ Differ(b) => (NoStream(b)' <=> NoStream(b))
<1> DEFINE b == Current.blob
           v == Thumbs(b)[added + 1]
<1>1. at = "add" /\ job' = job /\ UNCHANGED <<publishing, queue, asked, crashes, unsent>>
      /\ versions' = versions \cup {<<b, v>>} /\ blobs' = blobs \cup {v}
      /\ added' = IF at' = "failed" THEN added ELSE added + 1
  BY DEF AddThumb, AddVersion, faults
<1>2. job = <<Current>> /\ Current \in Jobs /\ at \in Points(Current.type)
  BY <1>1, AtWork
<1>3. Current.type = "thumbs"
  BY <1>1, <1>2 DEF Points, Uploading, Locating
<1>4. added < Len(Thumbs(b)) /\ added \in Nat
  BY <1>1, <1>2 DEF AddedAreThere, WorkerTypes
<1>5. DOMAIN Thumbs(b) = 1..Len(Thumbs(b)) /\ Len(Thumbs(b)) \in Nat
  BY ThumbsAreASequence
<1>6. added + 1 \in DOMAIN Thumbs(b)
  BY <1>4, <1>5
<1>7. Current' = Current
  BY <1>1 DEF Current
<1>8. Differ(b) => v # StreamVersion[b]
  BY <1>6, VersionsDiffer
<1> HIDE DEF b, v
<1>9. \A c \in Blobs : c # b =>
        (NoThumbs(c)' <=> NoThumbs(c)) /\ (NoStream(c)' <=> NoStream(c))
  BY <1>1 DEF NoThumbs, NoStream
<1>10. \A c \in Blobs : c = b /\ Differ(c) => (NoStream(c)' <=> NoStream(c))
  BY <1>1, <1>8 DEF NoStream
<1>11. /\ \A c \in Blobs : c # b => (NoThumbs(c)' <=> NoThumbs(c))
       /\ \A c \in Blobs : c # b \/ Differ(c) => (NoStream(c)' <=> NoStream(c))
  BY <1>9, <1>10
<1> QED
  BY <1>1, <1>2, <1>3, <1>6, <1>7, <1>11 DEF b, v

LEMMA StreamIsAdded ==
    ASSUME WorkerTypes, ComputeStreamingVersion, missing' # added + 1
    PROVE  /\ at = "version" /\ Current \in Jobs /\ Current.type = "version"
           /\ UNCHANGED <<publishing, queue, job, asked, crashes, unsent, added>>
           /\ Current' = Current
           /\ at' \in {"ack", "failed"}
           /\ versions' = versions \cup {<<Current.blob, StreamVersion[Current.blob]>>}
           /\ blobs' = blobs \cup {StreamVersion[Current.blob]}
           /\ \A b \in Blobs : b # Current.blob => (NoStream(b)' <=> NoStream(b))
           /\ \A b \in Blobs : b # Current.blob \/ Differ(b) => (NoThumbs(b)' <=> NoThumbs(b))
<1> DEFINE b == Current.blob
           v == StreamVersion[b]
<1>1. at = "version" /\ job' = job
      /\ UNCHANGED <<publishing, queue, asked, crashes, unsent, added>>
      /\ versions' = versions \cup {<<b, v>>} /\ blobs' = blobs \cup {v}
      /\ at' \in {"ack", "failed"}
  BY DEF ComputeStreamingVersion, AddVersion, faults
<1>2. job = <<Current>> /\ Current \in Jobs /\ at \in Points(Current.type)
  BY <1>1, AtWork
<1>3. Current.type = "version"
  BY <1>1, <1>2 DEF Points, Uploading, Locating, Jobs
<1>4. Current' = Current
  BY <1>1 DEF Current
<1>5. Differ(b) => \A i \in DOMAIN Thumbs(b) : Thumbs(b)[i] # v
  BY VersionsDiffer
<1> HIDE DEF b, v
<1>6. \A c \in Blobs : c # b =>
        (NoThumbs(c)' <=> NoThumbs(c)) /\ (NoStream(c)' <=> NoStream(c))
  BY <1>1 DEF NoThumbs, NoStream
<1>7. \A c \in Blobs : c = b /\ Differ(c) => (NoThumbs(c)' <=> NoThumbs(c))
  BY <1>1, <1>5 DEF NoThumbs
<1>8. /\ \A c \in Blobs : c # b => (NoStream(c)' <=> NoStream(c))
      /\ \A c \in Blobs : c # b \/ Differ(c) => (NoThumbs(c)' <=> NoThumbs(c))
  BY <1>6, <1>7
<1> QED
  BY <1>1, <1>2, <1>3, <1>4, <1>8 DEF b, v

LEMMA ThumbsOnceStep ==
    ASSUME WorkerInv, [Next]_vars
    PROVE  ThumbsOnce'
<1> USE DEF Goto, worker, tables, faults
<1>1. WorkerTypes /\ ThumbsOnce /\ AddedAreThere
  BY DEF WorkerInv
<1> SUFFICES ASSUME NEW b \in Blobs
             PROVE  /\ Single("thumbs", b)'
                    /\ Pending("thumbs", b)' \/ (Differ(b) /\ ~NoThumbs(b)') => b \in blobs'
                    /\ at' \in {"reviseNew", "announce"} /\ Current'.blob = b =>
                          /\ b \in blobs' /\ ~ Pending("thumbs", b)'
                          /\ Differ(b) => NoThumbs(b)'
  BY DEF ThumbsOnce
<1>2. /\ Single("thumbs", b)
      /\ Pending("thumbs", b) \/ (Differ(b) /\ ~NoThumbs(b)) => b \in blobs
      /\ at \in {"reviseNew", "announce"} /\ Current.blob = b =>
            b \in blobs /\ ~ Pending("thumbs", b) /\ (Differ(b) => NoThumbs(b))
  BY <1>1 DEF ThumbsOnce
<1>3. versions' = versions => (NoThumbs(b)' <=> NoThumbs(b))
  BY DEF NoThumbs
<1>4. UNCHANGED <<publishing, queue, job>> =>
        /\ Pending("thumbs", b)' <=> Pending("thumbs", b)
        /\ Single("thumbs", b)' <=> Single("thumbs", b)
        /\ Current' = Current
  BY NothingMoves DEF Current
<1>5. at # "idle" => job = <<Current>> /\ at \in Points(Current.type)
  BY <1>1, AtWork
<1>6. CASE \E i \in DOMAIN publishing : Publish(i)
  <2>1. PICK i \in DOMAIN publishing : Publish(i)
    BY <1>6
  <2>2. Current' = Current /\ UNCHANGED <<at, blobs, versions>>
    BY <2>1 DEF Publish, Current
  <2>3. (Pending("thumbs", b)' => Pending("thumbs", b)) /\ Single("thumbs", b)'
    BY <1>1, <1>2, <2>1, PublishMoves
  <2> QED
    BY <1>2, <1>3, <2>2, <2>3
<1>7. CASE Deliver
  <2>1. UNCHANGED <<blobs, versions>> /\ at' \in {"upload", "thumbs", "version"}
    <3>1. Head(queue) \in Jobs
      BY <1>1, <1>7 DEF Deliver, WorkerTypes
    <3>2. Head(queue).type \in {"upload", "thumbs", "version"}
      BY <3>1 DEF Jobs
    <3> QED
      BY <1>7, <3>2 DEF Deliver
  <2>2. (Pending("thumbs", b)' <=> Pending("thumbs", b)) /\ Single("thumbs", b)'
    BY <1>1, <1>2, <1>7, DeliverMoves
  <2> QED
    BY <1>2, <1>3, <2>1, <2>2
<1>8. CASE Acknowledge \/ Crash
  <2>1. UNCHANGED <<blobs, versions>> /\ at' = "idle"
    BY <1>8 DEF Acknowledge, Crash
  <2>2. (Pending("thumbs", b)' => Pending("thumbs", b)) /\ Single("thumbs", b)'
    BY <1>1, <1>2, <1>8, AcknowledgeMoves, CrashMoves
  <2> QED
    BY <1>2, <1>3, <2>1, <2>2
<1>9. CASE FindOrCreateBlob
  <2>1. /\ UNCHANGED <<publishing, queue, job, versions>>
        /\ at' = (IF Current.blob \in blobs THEN "reviseOld" ELSE "reviseNew")
        /\ blobs' = blobs \cup {Current.blob}
    BY <1>9 DEF FindOrCreateBlob
  <2> QED
    BY <1>2, <1>3, <1>4, <2>1
<1>10. CASE AddRevision
  <2>1. /\ UNCHANGED <<publishing, queue, job, versions, blobs>>
        /\ (at = "reviseNew" /\ at' = "announce") \/ at' = "locate"
    BY <1>10 DEF AddRevision
  <2> QED
    BY <1>2, <1>3, <1>4, <2>1
<1>11. CASE OnNewFileBlobUploaded
  <2>1. at = "announce" /\ at' = "ack" /\ UNCHANGED <<queue, job, blobs, versions>>
    BY <1>11 DEF OnNewFileBlobUploaded
  <2>2. CASE publishing' = publishing
    BY <1>2, <1>3, <1>4, <2>1, <2>2
  <2>3. CASE publishing' = Append(publishing, Job("thumbs", Current.blob))
    <3> DEFINE m == Job("thumbs", Current.blob)
    <3>1. m \in Jobs /\ m.type = "thumbs" /\ m.blob = Current.blob
      BY <1>1, <2>1, AtWork DEF Job, Jobs
    <3>2. Published(m)
      BY <2>1, <2>3 DEF Published
    <3> HIDE DEF m
    <3>3. /\ ~(m.blob = b) =>
                (Pending("thumbs", b)' <=> Pending("thumbs", b)) /\ Single("thumbs", b)'
          /\ ~ Pending("thumbs", b) => Single("thumbs", b)'
      BY <1>1, <1>2, <3>1, <3>2, PublishedIsPending
    <3> QED
      BY <1>2, <1>3, <2>1, <3>1, <3>3
  <2> QED
    BY <1>11, <2>2, <2>3 DEF OnNewFileBlobUploaded
<1>12. CASE ComputeThumbs
  <2>1. UNCHANGED <<publishing, queue, job, blobs, versions>> /\ at' \in {"ack", "failed", "add"}
    BY <1>12 DEF ComputeThumbs
  <2> QED
    BY <1>2, <1>3, <1>4, <2>1
<1>13. CASE missing' # added + 1 /\ AddThumb
  <2>1. /\ UNCHANGED <<publishing, queue, job>> /\ blobs \subseteq blobs'
        /\ \A c \in Blobs : c # Current.blob => (NoThumbs(c)' <=> NoThumbs(c))
        /\ at = "add" /\ Current.type = "thumbs"
    BY <1>1, <1>13, ThumbIsAdded
  <2>2. at' \in {"ack", "failed", "add"}
    BY <1>13 DEF AddThumb, AddVersion
  <2>3. Pending(Current.type, Current.blob)
    BY <1>1, <2>1, AtWork DEF Pending
  <2> QED
    BY <1>2, <1>4, <2>1, <2>2, <2>3
<1>14. CASE missing' # added + 1 /\ ComputeStreamingVersion
  <2>1. /\ UNCHANGED <<publishing, queue, job>> /\ blobs \subseteq blobs'
        /\ Differ(b) => (NoThumbs(b)' <=> NoThumbs(b))
        /\ at' \in {"ack", "failed"}
    BY <1>1, <1>14, StreamIsAdded
  <2> QED
    BY <1>2, <1>4, <2>1
<1>15. CASE \E c \in Blobs : RequestFileVersionCreation(c)
  <2>1. PICK c \in Blobs : RequestFileVersionCreation(c)
    BY <1>15
  <2> DEFINE m == Job("version", c)
  <2>2. m \in Jobs /\ m.type = "version"
    BY DEF Job, Jobs
  <2>3. Published(m) /\ UNCHANGED <<at, blobs, versions>> /\ Current' = Current
    BY <2>1 DEF RequestFileVersionCreation, Published, Current
  <2> HIDE DEF m
  <2>4. (Pending("thumbs", b)' <=> Pending("thumbs", b)) /\ Single("thumbs", b)'
    BY <1>1, <1>2, <2>2, <2>3, PublishedIsPending
  <2> QED
    BY <1>2, <1>3, <2>3, <2>4
<1>16. CASE Elsewhere
  <2>1. at' = at \/ at' \notin {"reviseNew", "announce"}
    BY <1>16 DEF Elsewhere, Locating
  <2> QED
    BY <1>2, <1>3, <1>4, <1>16, <2>1 DEF Elsewhere
<1> QED
  BY <1>1, <1>6, <1>7, <1>8, <1>9, <1>10, <1>11, <1>12, <1>13, <1>14, <1>15, <1>16,
     ElsewhereSteps

LEMMA VersionOnceStep ==
    ASSUME WorkerInv, [Next]_vars
    PROVE  VersionOnce'
<1> USE DEF Goto, worker, tables, faults
<1>1. WorkerTypes /\ VersionOnce /\ AddedAreThere
  BY DEF WorkerInv
<1> SUFFICES ASSUME NEW b \in Blobs
             PROVE  /\ Count(b)' <= 1 => Single("version", b)'
                    /\ Count(b)' = 0 => ~ Pending("version", b)' /\ (Differ(b) => NoStream(b)')
  BY DEF VersionOnce
<1>2. /\ Count(b) <= 1 => Single("version", b)
      /\ Count(b) = 0 => ~ Pending("version", b) /\ (Differ(b) => NoStream(b))
  BY <1>1 DEF VersionOnce
<1>3. versions' = versions => (NoStream(b)' <=> NoStream(b))
  BY DEF NoStream
<1>4. UNCHANGED <<publishing, queue, job>> =>
        /\ Pending("version", b)' <=> Pending("version", b)
        /\ Single("version", b)' <=> Single("version", b)
  BY NothingMoves
<1>5. asked' = asked => Count(b)' = Count(b)
  BY DEF Count
<1>6. CASE (\E i \in DOMAIN publishing : Publish(i)) \/ Deliver \/ Acknowledge \/ Crash
  <2>1. UNCHANGED <<asked, versions>>
    BY <1>6 DEF Publish, Deliver, Acknowledge, Crash
  <2>2. /\ Pending("version", b)' => Pending("version", b)
        /\ Single("version", b) => Single("version", b)'
    <3>1. CASE \E i \in DOMAIN publishing : Publish(i)
      BY <1>1, <3>1, PublishMoves
    <3> QED
      BY <1>1, <1>6, <3>1, DeliverMoves, AcknowledgeMoves, CrashMoves
  <2> QED
    BY <1>2, <1>3, <1>5, <2>1, <2>2
<1>7. CASE FindOrCreateBlob \/ AddRevision \/ ComputeThumbs \/ Elsewhere
  <2>1. UNCHANGED <<publishing, queue, job, versions, asked>>
    BY <1>7 DEF FindOrCreateBlob, AddRevision, ComputeThumbs, Elsewhere
  <2> QED
    BY <1>2, <1>3, <1>4, <1>5, <2>1
<1>8. CASE OnNewFileBlobUploaded
  <2>1. at = "announce" /\ UNCHANGED <<queue, job, asked, versions>>
    BY <1>8 DEF OnNewFileBlobUploaded
  <2>2. CASE publishing' = publishing
    BY <1>2, <1>3, <1>4, <1>5, <2>1, <2>2
  <2>3. CASE publishing' = Append(publishing, Job("thumbs", Current.blob))
    <3> DEFINE m == Job("thumbs", Current.blob)
    <3>1. m \in Jobs /\ m.type = "thumbs"
      BY <1>1, <2>1, AtWork DEF Job, Jobs
    <3>2. Published(m)
      BY <2>1, <2>3 DEF Published
    <3> HIDE DEF m
    <3>3. /\ Pending("version", b)' <=> Pending("version", b)
          /\ Single("version", b) => Single("version", b)'
      BY <1>1, <3>1, <3>2, PublishedIsPending
    <3> QED
      BY <1>2, <1>3, <1>5, <2>1, <3>3
  <2> QED
    BY <1>8, <2>2, <2>3 DEF OnNewFileBlobUploaded
<1>9. CASE missing' # added + 1 /\ AddThumb
  <2>1. /\ UNCHANGED <<publishing, queue, job, asked>>
        /\ \A c \in Blobs : Differ(c) => (NoStream(c)' <=> NoStream(c))
    BY <1>1, <1>9, ThumbIsAdded
  <2> QED
    BY <1>2, <1>4, <1>5, <2>1
<1>10. CASE missing' # added + 1 /\ ComputeStreamingVersion
  <2>1. /\ UNCHANGED <<publishing, queue, job, asked>>
        /\ b # Current.blob => (NoStream(b)' <=> NoStream(b))
        /\ at = "version" /\ Current.type = "version"
    BY <1>1, <1>10, StreamIsAdded
  <2>2. Pending("version", Current.blob)
    BY <1>1, <2>1, AtWork DEF Pending
  <2> QED
    BY <1>2, <1>4, <1>5, <2>1, <2>2
<1>11. CASE \E c \in Blobs : RequestFileVersionCreation(c)
  <2>1. PICK c \in Blobs : RequestFileVersionCreation(c)
    BY <1>11
  <2> DEFINE m == Job("version", c)
  <2>2. m \in Jobs /\ m.type = "version" /\ m.blob = c
    BY DEF Job, Jobs
  <2>3. Published(m) /\ versions' = versions /\ asked' = Append(asked, c)
    BY <2>1 DEF RequestFileVersionCreation, Published
  <2>4. Count(b)' = (IF b = c THEN Count(b) + 1 ELSE Count(b)) /\ Count(b) \in Nat
    BY <1>1, <2>3, CountNext, CountIsNat
  <2> HIDE DEF m
  <2>5. /\ c # b => (Pending("version", b)' <=> Pending("version", b))
                    /\ (Single("version", b) => Single("version", b)')
        /\ ~ Pending("version", b) => Single("version", b)'
    BY <1>1, <2>2, <2>3, PublishedIsPending
  <2>6. CASE b = c
    <3>1. Count(b)' # 0 /\ (Count(b)' <= 1 => Count(b) = 0)
      BY <2>4, <2>6
    <3> QED
      BY <1>2, <2>5, <3>1
  <2>7. CASE b # c
    BY <1>2, <1>3, <2>3, <2>4, <2>5, <2>7
  <2> QED
    BY <2>6, <2>7
<1> QED
  BY <1>1, <1>6, <1>7, <1>8, <1>9, <1>10, <1>11, ElsewhereSteps

LEMMA WaitingIsToDoStep ==
    ASSUME WorkerInv, [Next]_vars
    PROVE  WaitingIsToDo'
<1> USE DEF Goto, worker, tables, faults
<1>1. WorkerTypes /\ ThumbsOnce /\ VersionOnce /\ WaitingIsToDo /\ AddedAreThere
  BY DEF WorkerInv
<1> SUFFICES ASSUME NEW m \in Jobs, Waiting(m)'
             PROVE  ToDo(m)'
  BY DEF WaitingIsToDo
<1>2. m.blob \in Blobs /\ m.type \in {"upload", "thumbs", "version"}
  BY DEF Jobs
<1>3. Waiting(m) => ToDo(m)
  BY <1>1 DEF WaitingIsToDo
<1>4. Count(m.blob) \in Nat
  BY <1>1, CountIsNat
<1>5. UNCHANGED <<versions, asked>> /\ ToDo(m) => ToDo(m)'
  BY DEF ToDo, NoThumbs, NoStream, Count
<1>6. UNCHANGED <<publishing, queue>> => Waiting(m)
  BY DEF Waiting
<1>7. Waiting(m) => Of(queue, m.type, m.blob) # {} \/ Of(publishing, m.type, m.blob) # {}
  BY DEF Waiting, Of
<1>8. publishing \in Seq(Jobs) /\ queue \in Seq(Jobs)
  BY <1>1 DEF WorkerTypes
<1>9. CASE \E i \in DOMAIN publishing : Publish(i)
  <2>1. PICK i \in DOMAIN publishing : Publish(i)
    BY <1>9
  <2>2. /\ publishing' = RemoveAt(publishing, i)
        /\ queue' = queue \/ queue' = Append(queue, publishing[i])
        /\ UNCHANGED <<versions, asked>>
    BY <2>1 DEF Publish
  <2>3. Without(publishing, i, publishing')
    BY <1>8, <2>2, RemoveIsWithout
  <2>4. publishing[i] \in Jobs
    BY <1>8
  <2>5. \A j \in DOMAIN publishing' : \E k \in DOMAIN publishing : publishing'[j] = publishing[k]
    BY <2>3, Both
  <2>6. \A k \in DOMAIN queue' :
          queue'[k] = publishing[i] \/ \E j \in DOMAIN queue : queue[j] = queue'[k]
    <3>1. CASE queue' = Append(queue, publishing[i])
      <4>1. Without(queue', Len(queue) + 1, queue) /\ queue'[Len(queue) + 1] = publishing[i]
        BY <1>8, <2>4, <3>1, AppendIsWithout
      <4> QED
        BY <4>1, Both
    <3> QED
      BY <2>2, <3>1
  <2>7. i \in DOMAIN publishing
    BY <2>1
  <2>8. Waiting(m)
    BY <2>5, <2>6, <2>7 DEF Waiting
  <2> QED
    BY <1>3, <1>5, <2>2, <2>8
<1>10. CASE Deliver
  <2>1. /\ queue # <<>> /\ queue' = Tail(queue) /\ publishing' = publishing
        /\ UNCHANGED <<versions, asked>>
    BY <1>10 DEF Deliver
  <2>2. Without(queue, 1, queue')
    BY <1>8, <2>1, TailIsWithout
  <2>3. \A j \in DOMAIN queue' : \E k \in DOMAIN queue : queue'[j] = queue[k]
    BY <2>2, Both
  <2>4. Waiting(m)
    BY <2>1, <2>3 DEF Waiting
  <2> QED
    BY <1>3, <1>5, <2>1, <2>4
<1>11. CASE Crash
  <2>1. publishing' = <<>> /\ UNCHANGED <<versions, asked>>
    BY <1>11 DEF Crash
  <2>2. \A j \in DOMAIN queue' : First(queue'[j]) => \E k \in DOMAIN queue : queue'[j] = queue[k]
    BY <1>1, <1>11, CrashMoves
  <2>3. First(m) => Waiting(m)
    BY <2>1, <2>2 DEF Waiting
  <2>4. ToDo(m)
    BY <1>3, <2>3 DEF ToDo
  <2> QED
    BY <1>5, <2>1, <2>4
<1>12. CASE Acknowledge \/ FindOrCreateBlob \/ AddRevision \/ ComputeThumbs \/ Elsewhere
  <2>1. UNCHANGED <<publishing, queue, versions, asked>>
    BY <1>12 DEF Acknowledge, FindOrCreateBlob, AddRevision, ComputeThumbs, Elsewhere
  <2> QED
    BY <1>3, <1>5, <1>6, <2>1
<1>13. ASSUME NEW new \in Jobs, Published(new) PROVE Waiting(m) \/ m = new
  <2>1. /\ Without(publishing', Len(publishing) + 1, publishing)
        /\ publishing'[Len(publishing) + 1] = new
    BY <1>8, <1>13, AppendIsWithout DEF Published
  <2>2. \A k \in DOMAIN publishing' :
          k = Len(publishing) + 1 \/ \E j \in DOMAIN publishing : publishing[j] = publishing'[k]
    BY <2>1, Both
  <2> QED
    BY <1>13, <2>1, <2>2 DEF Waiting, Published
<1>14. CASE OnNewFileBlobUploaded
  <2>1. at = "announce" /\ UNCHANGED <<queue, job, asked, versions>>
    BY <1>14 DEF OnNewFileBlobUploaded
  <2>2. CASE publishing' = publishing
    BY <1>3, <1>5, <1>6, <2>1, <2>2
  <2>3. CASE publishing' = Append(publishing, Job("thumbs", Current.blob))
    <3> DEFINE new == Job("thumbs", Current.blob)
    <3>1. new \in Jobs /\ new.type = "thumbs" /\ new.blob = Current.blob
      BY <1>1, <2>1, AtWork DEF Job, Jobs
    <3>2. Published(new)
      BY <2>1, <2>3 DEF Published
    <3>3. Current.blob \in Blobs /\ (Differ(Current.blob) => NoThumbs(Current.blob))
      BY <1>1, <2>1, AtWork DEF ThumbsOnce
    <3> HIDE DEF new
    <3>4. CASE Waiting(m)
      BY <1>3, <1>5, <2>1, <3>4
    <3>5. CASE m = new
      <4>1. ToDo(m)
        BY <3>1, <3>3, <3>5 DEF ToDo, First
      <4> QED
        BY <1>5, <2>1, <4>1
    <3> QED
      BY <1>13, <3>1, <3>2, <3>4, <3>5
  <2> QED
    BY <1>14, <2>2, <2>3 DEF OnNewFileBlobUploaded
<1>15. CASE missing' # added + 1 /\ AddThumb
  <2>1. /\ UNCHANGED <<publishing, queue, job, asked>>
        /\ at = "add" /\ Current.type = "thumbs"
        /\ \A c \in Blobs : c # Current.blob => (NoThumbs(c)' <=> NoThumbs(c))
        /\ \A c \in Blobs : c # Current.blob \/ Differ(c) => (NoStream(c)' <=> NoStream(c))
    BY <1>1, <1>15, ThumbIsAdded
  <2>2. Waiting(m) /\ ToDo(m) /\ Count(m.blob)' = Count(m.blob)
    BY <1>3, <1>6, <2>1 DEF Count
  <2>3. m.type = "thumbs" => m.blob # Current.blob
    <3>1. Of(job, Current.type, Current.blob) # {} /\ Current.blob \in Blobs
      BY <1>1, <2>1, AtWork
    <3>2. Single("thumbs", Current.blob)
      BY <1>1, <3>1 DEF ThumbsOnce
    <3> QED
      BY <1>7, <2>1, <2>2, <3>1, <3>2 DEF Single
  <2>4. m.type = "thumbs" => (NoThumbs(m.blob)' <=> NoThumbs(m.blob))
    BY <1>2, <2>1, <2>3
  <2>5. First(m) => (NoStream(m.blob)' <=> NoStream(m.blob))
    BY <1>2, <2>1 DEF First
  <2> QED
    BY <2>2, <2>4, <2>5 DEF ToDo
<1>16. CASE missing' # added + 1 /\ ComputeStreamingVersion
  <2>1. /\ UNCHANGED <<publishing, queue, job, asked>>
        /\ at = "version" /\ Current.type = "version"
        /\ \A c \in Blobs : c # Current.blob => (NoStream(c)' <=> NoStream(c))
        /\ \A c \in Blobs : c # Current.blob \/ Differ(c) => (NoThumbs(c)' <=> NoThumbs(c))
    BY <1>1, <1>16, StreamIsAdded
  <2>2. Waiting(m) /\ ToDo(m) /\ Count(m.blob)' = Count(m.blob)
    BY <1>3, <1>6, <2>1 DEF Count
  <2>3. m.type = "version" /\ Count(m.blob) <= 1 => m.blob # Current.blob
    <3>1. Of(job, Current.type, Current.blob) # {} /\ Current.blob \in Blobs
      BY <1>1, <2>1, AtWork
    <3>2. Count(Current.blob) <= 1 => Single("version", Current.blob)
      BY <1>1, <3>1 DEF VersionOnce
    <3> QED
      BY <1>7, <2>1, <2>2, <3>1, <3>2 DEF Single
  <2>4. m.type = "version" /\ Count(m.blob) <= 1 => (NoStream(m.blob)' <=> NoStream(m.blob))
    BY <1>2, <2>1, <2>3
  <2>5. First(m) => (NoThumbs(m.blob)' <=> NoThumbs(m.blob))
    BY <1>2, <2>1 DEF First
  <2> QED
    BY <2>2, <2>4, <2>5 DEF ToDo
<1>17. CASE \E c \in Blobs : RequestFileVersionCreation(c)
  <2>1. PICK c \in Blobs : RequestFileVersionCreation(c)
    BY <1>17
  <2> DEFINE new == Job("version", c)
  <2>2. new \in Jobs /\ new.type = "version" /\ new.blob = c
    BY DEF Job, Jobs
  <2>3. Published(new) /\ versions' = versions /\ asked' = Append(asked, c)
    BY <2>1 DEF RequestFileVersionCreation, Published
  <2>4. Count(m.blob)' = IF m.blob = c THEN Count(m.blob) + 1 ELSE Count(m.blob)
    BY <1>1, <2>3, CountNext
  <2>5. (NoThumbs(m.blob)' <=> NoThumbs(m.blob)) /\ (NoStream(m.blob)' <=> NoStream(m.blob))
    BY <2>3 DEF NoThumbs, NoStream
  <2> HIDE DEF new
  <2>6. Count(m.blob)' <= 1 => Count(m.blob) <= 1
    BY <1>4, <2>4
  <2>7. CASE Waiting(m)
    BY <1>3, <2>5, <2>6, <2>7 DEF ToDo
  <2>8. CASE m = new
    <3>1. Count(m.blob)' <= 1 => Count(m.blob) = 0
      BY <1>4, <2>2, <2>4, <2>8
    <3>2. Count(m.blob) = 0 => (Differ(m.blob) => NoStream(m.blob))
      BY <1>1, <1>2 DEF VersionOnce
    <3> QED
      BY <2>2, <2>5, <2>8, <3>1, <3>2 DEF ToDo, First
  <2> QED
    BY <1>13, <2>2, <2>3, <2>7, <2>8
<1> QED
  BY <1>1, <1>9, <1>10, <1>11, <1>12, <1>14, <1>15, <1>16, <1>17, ElsewhereSteps

\* A step that leaves the job and the versions alone, and is not about to make any.
LEMMA CurrentIsToDoKept ==
    ASSUME WorkerInv, UNCHANGED <<job, versions, added>>,
           \A b \in Blobs : Count(b)' <= 1 => Count(b) <= 1,
           \/ at' \in {at, "failed"}
           \/ at \notin {"add", "ack", "failed"} /\ at' \notin {"add", "version"}
    PROVE  CurrentIsToDo'
<1> SUFFICES ASSUME NEW m \in Jobs, job = <<m>>, First(m)
             PROVE  /\ m.type = "thumbs" /\ at' \notin {"add", "ack", "failed"} => NoThumbs(m.blob)'
                    /\ at' = "add" => \A i \in DOMAIN Thumbs(m.blob) :
                          <<m.blob, Thumbs(m.blob)[i]>> \in versions' => i <= added'
                    /\ at' = "version" /\ Count(m.blob)' <= 1 => NoStream(m.blob)'
  BY DEF CurrentIsToDo
<1>1. m.blob \in Blobs
  BY DEF Jobs
<1>2. (NoThumbs(m.blob)' <=> NoThumbs(m.blob)) /\ (NoStream(m.blob)' <=> NoStream(m.blob))
  BY DEF NoThumbs, NoStream
<1> QED
  BY <1>1, <1>2 DEF WorkerInv, CurrentIsToDo

LEMMA CurrentIsToDoStep ==
    ASSUME WorkerInv, [Next]_vars
    PROVE  CurrentIsToDo'
<1> USE DEF Goto, worker, tables, faults
<1>1. WorkerTypes /\ WaitingIsToDo /\ CurrentIsToDo /\ AddedAreThere
  BY DEF WorkerInv
<1>2. at # "idle" => job = <<Current>> /\ Current \in Jobs /\ at \in Points(Current.type)
                     /\ Current.type \in {"upload", "thumbs", "version"}
  BY <1>1, AtWork
<1>3. asked' = asked => \A b \in Blobs : Count(b)' <= 1 => Count(b) <= 1
  BY DEF Count
<1>4. CASE \E i \in DOMAIN publishing : Publish(i)
  <2>1. UNCHANGED <<job, versions, added, at, asked>>
    BY <1>4 DEF Publish
  <2> QED
    BY <1>3, <2>1, CurrentIsToDoKept
<1>5. CASE Deliver
  <2>1. /\ queue # <<>> /\ job' = <<Head(queue)>> /\ at' = Head(queue).type
        /\ UNCHANGED <<versions, asked>> /\ queue \in Seq(Jobs)
    BY <1>1, <1>5 DEF Deliver, WorkerTypes
  <2>2. queue[1] = Head(queue) /\ 1 \in DOMAIN queue
    BY <2>1
  <2> SUFFICES ASSUME NEW m \in Jobs, job' = <<m>>, First(m)
               PROVE  /\ m.type = "thumbs" => NoThumbs(m.blob)'
                      /\ at' # "add"
                      /\ at' = "version" /\ Count(m.blob)' <= 1 => NoStream(m.blob)'
    BY DEF CurrentIsToDo
  <2>3. m = Head(queue) /\ m.type \in {"upload", "thumbs", "version"}
    BY <2>1 DEF Jobs
  <2>4. ToDo(m)
    BY <1>1, <2>2, <2>3 DEF WaitingIsToDo, Waiting
  <2>5. /\ NoThumbs(m.blob)' <=> NoThumbs(m.blob)
        /\ NoStream(m.blob)' <=> NoStream(m.blob)
        /\ Count(m.blob)' = Count(m.blob)
    BY <2>1 DEF NoThumbs, NoStream, Count
  <2> QED
    BY <2>1, <2>3, <2>4, <2>5 DEF ToDo
<1>6. CASE Acknowledge \/ Crash
  <2>1. job' = <<>>
    BY <1>6 DEF Acknowledge, Crash
  <2>2. \A m : job' # <<m>>
    BY <2>1
  <2> QED
    BY <2>2 DEF CurrentIsToDo
<1>7. CASE FindOrCreateBlob \/ AddRevision \/ OnNewFileBlobUploaded
  <2>1. /\ UNCHANGED <<job, versions, added, asked>> /\ at \notin {"add", "ack", "failed"}
        /\ at' \notin {"add", "version"} \/ at' = at
    BY <1>7 DEF FindOrCreateBlob, AddRevision, OnNewFileBlobUploaded
  <2> QED
    BY <1>3, <2>1, CurrentIsToDoKept
<1>8. CASE Elsewhere
  <2>1. /\ UNCHANGED <<job, versions, added, asked>>
        /\ \/ at' \in {at, "failed"}
           \/ at \notin {"add", "ack", "failed"} /\ at' \notin {"add", "version"}
    BY <1>8 DEF Elsewhere, Locating
  <2> QED
    BY <1>3, <2>1, CurrentIsToDoKept
<1>9. CASE ComputeThumbs
  <2>1. /\ at = "pictures" /\ at' \in {"ack", "failed", "add"}
        /\ UNCHANGED <<job, versions, added, asked>>
    BY <1>9 DEF ComputeThumbs
  <2>2. Current.type = "thumbs"
    BY <1>2, <2>1 DEF Points, Uploading, Locating
  <2> SUFFICES ASSUME NEW m \in Jobs, job' = <<m>>, First(m), at' = "add"
               PROVE  \A i \in DOMAIN Thumbs(m.blob) :
                          <<m.blob, Thumbs(m.blob)[i]>> \in versions' => i <= added'
    BY <2>1 DEF CurrentIsToDo
  <2>3. m = Current
    BY <1>2, <2>1
  <2>4. NoThumbs(m.blob)
    BY <1>1, <2>1, <2>2, <2>3 DEF CurrentIsToDo
  <2> QED
    BY <2>1, <2>4 DEF NoThumbs
<1>10. CASE missing' # added + 1 /\ AddThumb
  <2>1. /\ at = "add" /\ UNCHANGED <<job, asked>>
        /\ added + 1 \in DOMAIN Thumbs(Current.blob)
        /\ added' = IF at' = "failed" THEN added ELSE added + 1
        /\ versions' = versions \cup {<<Current.blob, Thumbs(Current.blob)[added + 1]>>}
    BY <1>1, <1>10, ThumbIsAdded
  <2>2. at' \in {"ack", "failed", "add"}
    BY <1>10 DEF AddThumb, AddVersion
  <2> SUFFICES ASSUME NEW m \in Jobs, job' = <<m>>, First(m), at' = "add",
                      NEW i \in DOMAIN Thumbs(m.blob),
                      <<m.blob, Thumbs(m.blob)[i]>> \in versions'
               PROVE  i <= added'
    BY <2>2, <1>2, <2>1 DEF CurrentIsToDo
  <2>3. m = Current
    BY <1>2, <2>1
  <2>4. Thumbs(m.blob)[i] = Thumbs(m.blob)[added + 1] => i = added + 1
    BY <2>1, <2>3, VersionsDiffer DEF First
  <2>5. <<m.blob, Thumbs(m.blob)[i]>> \in versions => i <= added
    BY <1>1, <2>1 DEF CurrentIsToDo
  <2>6. i \in Nat /\ added \in Nat
    BY <1>1, ThumbsAreASequence DEF WorkerTypes
  <2>7. <<m.blob, Thumbs(m.blob)[i]>> \in versions \/ Thumbs(m.blob)[i] = Thumbs(m.blob)[added + 1]
    BY <2>1, <2>3
  <2> QED
    BY <2>1, <2>4, <2>5, <2>6, <2>7
<1>11. CASE missing' # added + 1 /\ ComputeStreamingVersion
  <2>1. at = "version" /\ at' \in {"ack", "failed"} /\ job' = job
    BY <1>1, <1>11, StreamIsAdded
  <2> QED
    BY <2>1 DEF CurrentIsToDo
<1>12. CASE \E c \in Blobs : RequestFileVersionCreation(c)
  <2>1. PICK c \in Blobs : RequestFileVersionCreation(c)
    BY <1>12
  <2>2. UNCHANGED <<job, versions, added, at>> /\ asked' = Append(asked, c)
    BY <2>1 DEF RequestFileVersionCreation
  <2>3. \A b \in Blobs : Count(b) \in Nat /\ Count(b)' = IF b = c THEN Count(b) + 1 ELSE Count(b)
    BY <1>1, <2>2, CountNext, CountIsNat
  <2>4. \A b \in Blobs : Count(b)' <= 1 => Count(b) <= 1
    BY <2>3
  <2> QED
    BY <2>2, <2>4, CurrentIsToDoKept
<1> QED
  BY <1>1, <1>4, <1>5, <1>6, <1>7, <1>8, <1>9, <1>10, <1>11, <1>12, ElsewhereSteps

LEMMA AddedAreThereStep ==
    ASSUME WorkerInv, [Next]_vars
    PROVE  AddedAreThere'
<1> USE DEF Goto, worker, tables, faults
<1>1. WorkerTypes /\ AddedAreThere
  BY DEF WorkerInv
<1>2. at # "idle" => job = <<Current>> /\ Current \in Jobs /\ at \in Points(Current.type)
  BY <1>1, AtWork
<1> SUFFICES ASSUME NEW m \in Jobs, job' = <<m>>
             PROVE  /\ at' \notin {"add", "ack", "failed"} => added' = 0
                    /\ at' = "add" => added' < Len(Thumbs(m.blob)) /\ ExtractVideoStream(m.blob)
                    /\ at' = "add" => \A i \in 1..added' :
                          <<m.blob, Thumbs(m.blob)[i]>> \in versions'
                    /\ m.type = "thumbs" /\ at' = "ack" =>
                          \/ AllThere(m.blob)' \/ MediaType[m.blob] = "audio"
                          \/ VideoStreams[m.blob] = NotMedia
  BY DEF AddedAreThere
<1>3. job' = job /\ at # "idle" => m = Current
  BY <1>2
<1>4. versions' = versions => (AllThere(m.blob)' <=> AllThere(m.blob))
  BY DEF AllThere
<1>5. ASSUME UNCHANGED <<job, versions, added>>,
             \/ at' \in {at, "failed"}
             \/ /\ at \notin {"add", "ack", "failed"} /\ at' # "add"
                /\ Current.type = "thumbs" => at' # "ack"
      PROVE  /\ at' \notin {"add", "ack", "failed"} => added' = 0
             /\ at' = "add" => added' < Len(Thumbs(m.blob)) /\ ExtractVideoStream(m.blob)
             /\ at' = "add" => \A i \in 1..added' : <<m.blob, Thumbs(m.blob)[i]>> \in versions'
             /\ m.type = "thumbs" /\ at' = "ack" =>
                   \/ AllThere(m.blob)' \/ MediaType[m.blob] = "audio"
                   \/ VideoStreams[m.blob] = NotMedia
  <2>1. m = Current
    BY <1>5 DEF Current
  <2> QED
    BY <1>1, <1>4, <1>5, <2>1 DEF AddedAreThere
<1>6. CASE (\E i \in DOMAIN publishing : Publish(i))
           \/ \E c \in Blobs : RequestFileVersionCreation(c)
  <2>1. UNCHANGED <<job, versions, added, at>>
    BY <1>6 DEF Publish, RequestFileVersionCreation
  <2> QED
    BY <1>5, <2>1
<1>7. CASE Deliver
  <2>1. job' = <<Head(queue)>> /\ at' = Head(queue).type /\ added' = 0
    BY <1>7 DEF Deliver
  <2>2. m = Head(queue) /\ m.type \in {"upload", "thumbs", "version"}
    BY <2>1 DEF Jobs
  <2> QED
    BY <2>1, <2>2
<1>8. CASE Acknowledge \/ Crash
  <2>1. job' = <<>>
    BY <1>8 DEF Acknowledge, Crash
  <2> QED
    BY <2>1
<1>9. CASE FindOrCreateBlob \/ AddRevision \/ OnNewFileBlobUploaded
  <2>1. /\ UNCHANGED <<job, versions, added>> /\ at \in Uploading
        /\ at' \in Uploading \cup {"locate", "ack"}
    BY <1>9 DEF FindOrCreateBlob, AddRevision, OnNewFileBlobUploaded, Uploading
  <2>2. at # "idle" /\ Current.type # "thumbs" /\ at \notin {"add", "ack", "failed"} /\ at' # "add"
    BY <1>2, <2>1 DEF Points, Uploading, Locating
  <2> QED
    BY <1>5, <2>1, <2>2
<1>10. CASE Elsewhere
  <2>1. at \in {"thumbs", "exif"} \cup Locating => at \notin {"add", "ack", "failed"}
    BY DEF Locating
  <2>2. at' \in {"exif", "pictures", "ack", "failed"} \cup Locating => at' # "add"
    BY DEF Locating
  <2> QED
    BY <1>5, <1>10, <2>1, <2>2 DEF Elsewhere
<1>11. CASE ComputeThumbs
  <2> DEFINE none == MediaType[m.blob] = "audio" \/ VideoStreams[m.blob] = NotMedia
  <2>1. at = "pictures" /\ UNCHANGED <<job, versions, added>>
    BY <1>11 DEF ComputeThumbs
  <2>2. m = Current /\ added = 0
    BY <1>1, <1>2, <1>3, <2>1 DEF AddedAreThere
  <2>3. at' = IF none THEN "ack" ELSE IF ExtractVideoStream(m.blob) THEN "add" ELSE "failed"
    BY <1>11, <2>2 DEF ComputeThumbs, WithoutThumbs
  <2>4. Len(Thumbs(m.blob)) \in Nat \ {0}
    BY ThumbsAreASequence
  <2>5. added' < Len(Thumbs(m.blob)) /\ \A i \in 1..added' : FALSE
    BY <2>1, <2>2, <2>4
  <2> QED
    BY <2>3, <2>5
<1>12. CASE missing' # added + 1 /\ AddThumb
  <2> DEFINE thumbs == Thumbs(m.blob)
  <2>1. /\ at = "add" /\ job' = job
        /\ added + 1 \in DOMAIN Thumbs(Current.blob)
        /\ added' = IF at' = "failed" THEN added ELSE added + 1
        /\ versions' = versions \cup {<<Current.blob, Thumbs(Current.blob)[added + 1]>>}
    BY <1>1, <1>12, ThumbIsAdded
  <2>2. m = Current
    BY <1>3, <2>1
  <2>3. at' \in {"failed", IF added + 1 = Len(thumbs) THEN "ack" ELSE "add"}
    BY <1>12, <2>2 DEF AddThumb, AddVersion
  <2>4. DOMAIN thumbs = 1..Len(thumbs) /\ Len(thumbs) \in Nat /\ added \in Nat
    BY <1>1, ThumbsAreASequence DEF WorkerTypes
  <2>5. ExtractVideoStream(m.blob) /\ \A i \in 1..added : <<m.blob, thumbs[i]>> \in versions
    BY <1>1, <2>1 DEF AddedAreThere
  <2>6. versions' = versions \cup {<<m.blob, thumbs[added + 1]>>} /\ added + 1 \in DOMAIN thumbs
    BY <2>1, <2>2
  <2> HIDE DEF thumbs
  <2>7. \A i \in 1..(added + 1) : <<m.blob, thumbs[i]>> \in versions'
    <3>1. \A i \in 1..(added + 1) : i \in 1..added \/ i = added + 1
      BY <2>4
    <3> QED
      BY <2>5, <2>6, <3>1
  <2>8. CASE at' = "ack"
    <3>1. \A i \in DOMAIN thumbs : <<m.blob, thumbs[i]>> \in versions'
      BY <2>3, <2>4, <2>7, <2>8
    <3>2. AllThere(m.blob)'
      BY <3>1 DEF AllThere, thumbs
    <3> QED
      BY <2>8, <3>2
  <2>9. CASE at' = "add"
    <3>1. added' < Len(thumbs)
      BY <2>1, <2>3, <2>4, <2>6, <2>9
    <3> QED
      BY <2>1, <2>5, <2>7, <2>9, <3>1 DEF thumbs
  <2> QED
    BY <2>3, <2>8, <2>9
<1>13. CASE missing' # added + 1 /\ ComputeStreamingVersion
  <2>1. at = "version" /\ Current.type = "version" /\ job' = job /\ at' \in {"ack", "failed"}
    BY <1>1, <1>13, StreamIsAdded
  <2> QED
    BY <1>3, <2>1
<1> QED
  BY <1>1, <1>6, <1>7, <1>8, <1>9, <1>10, <1>11, <1>12, <1>13, ElsewhereSteps

\* What a user has saved stays told, and no location appears by other means.
LEMMA UsersTell ==
    ASSUME RecordInv, Users
    PROVE  /\ locating' = locating
           /\ \A f \in Files : Told(f) => Told(f)'
           /\ \A f \in Files : location[f] = None /\ location'[f] # None => Told(f)'
<1> USE DEF Step
<1>1. RecordTypes /\ TagsAreAsked /\ PlaceIsKnown
  BY DEF RecordInv
<1>2. locating' = locating
  BY DEF Users, RequestFile, Save, SoftDeleteFile, UpdateFileMetadata, UpdatePath, DeleteTags,
         QueryTagId, InsertTag, TagsAreKnown, LinkTag, ResolveLocation, DeleteLocation,
         InsertLocation
<1>3. ASSUME NEW r \in Requests, pc[r] = "saved" PROVE pc'[r] = "saved" /\ form'[r] = form[r]
  <2>1. \A i \in DOMAIN tagging[r] : tagging[r][i] # "insert"
    BY <1>1, <1>3 DEF TagsAreAsked, RecordTypes
  <2>2. ASSUME NEW q \in Requests, NEW i \in DOMAIN tagging[q], InsertTag(q, i)
        PROVE  pc'[r] = pc[r] /\ form' = form
    BY <1>1, <2>1, <2>2 DEF InsertTag, RecordTypes
  <2>3. ASSUME NEW q \in Requests, NEW f \in Files, RequestFile(q, f)
        PROVE  pc'[r] = pc[r] /\ form'[r] = form[r]
    BY <1>1, <1>3, <2>3 DEF RequestFile, RecordTypes
  <2>4. ASSUME NEW q \in Requests, NEW edit \in Edits, Save(q, edit)
        PROVE  pc'[r] = pc[r] /\ form'[r] = form[r]
    BY <1>1, <1>3, <2>4 DEF Save, RecordTypes
  <2>5. ASSUME NEW q \in Requests, UpdateFileMetadata(q)
        PROVE  pc'[r] = pc[r] /\ form' = form
    <3>1. CASE \E i \in DOMAIN tagging[q] : InsertTag(q, i)
      BY <2>2, <3>1
    <3>2. CASE UpdatePath(q) \/ DeleteTags(q) \/ TagsAreKnown(q) \/ LinkTag(q)
               \/ (\E i \in DOMAIN tagging[q] : QueryTagId(q, i))
      BY <1>1, <1>3, <3>2
         DEF UpdatePath, DeleteTags, TagsAreKnown, LinkTag, QueryTagId, RecordTypes
    <3>3. CASE ResolveLocation(q) \/ DeleteLocation(q) \/ InsertLocation(q)
      BY <1>1, <1>3, <3>3 DEF ResolveLocation, DeleteLocation, InsertLocation, RecordTypes
    <3> QED
      BY <2>5, <3>1, <3>2, <3>3 DEF UpdateFileMetadata
  <2>6. CASE \E f \in Files : SoftDeleteFile(f)
    BY <1>3, <2>6 DEF SoftDeleteFile, requests
  <2> QED
    BY <1>3, <2>3, <2>4, <2>5, <2>6 DEF Users
<1>4. \A f \in Files : Told(f) => Told(f)'
  BY <1>3 DEF Told
<1>5. ASSUME NEW f \in Files, location[f] = None, location'[f] # None PROVE Told(f)'
  <2>1. PICK q \in Requests : UpdateFileMetadata(q)
    BY <1>5 DEF Users, RequestFile, Save, SoftDeleteFile, records
  <2>2. ~ DeleteLocation(q)
    BY <1>1, <1>5 DEF DeleteLocation, RecordTypes
  <2>3. InsertLocation(q)
    BY <1>5, <2>1, <2>2
       DEF UpdateFileMetadata, UpdatePath, DeleteTags, QueryTagId, InsertTag, TagsAreKnown,
           LinkTag, ResolveLocation, records
  <2>4. /\ pc[q] = "relocate" /\ pc' = [pc EXCEPT ![q] = "saved"] /\ form' = form
        /\ location' = [location EXCEPT ![form[q].file] = form[q].osmId]
    BY <1>5, <2>3 DEF InsertLocation
  <2>5. form[q].file = f
    BY <1>1, <1>5, <2>4 DEF RecordTypes
  <2>6. form[q].osmId \in OsmIds
    BY <1>1, <2>4 DEF PlaceIsKnown
  <2>7. pc'[q] = "saved"
    BY <1>1, <2>4 DEF RecordTypes
  <2> QED
    BY <2>4, <2>5, <2>6, <2>7 DEF Told
<1> QED
  BY <1>2, <1>4, <1>5

LEMMA DeliveredAt ==
    ASSUME WorkerTypes, Deliver
    PROVE  at' \in {"upload", "thumbs", "version"} /\ UNCHANGED recordVars
<1>1. Head(queue) \in Jobs
  BY DEF Deliver, WorkerTypes
<1>2. Head(queue).type \in {"upload", "thumbs", "version"}
  BY <1>1 DEF Jobs
<1> QED
  BY <1>2 DEF Deliver, Goto

LEMMA LocationIsToldStep ==
    ASSUME RecordInv, WorkerInv, [Next]_vars
    PROVE  LocationIsTold'
<1> USE DEF Goto, worker, tables, faults
<1>1. RecordTypes /\ WorkerTypes /\ LocationIsTold
  BY DEF RecordInv, WorkerInv
<1>2. /\ locating \subseteq Files /\ location \in [Files -> Ids]
      /\ \A f, g \in locating : f = g
      /\ at \in {"unlocate", "relocate"} => locating # {}
      /\ at = "relocate" => \A f \in locating : location[f] # None => Told(f)
  BY <1>1 DEF RecordTypes, LocationIsTold
<1>3. ASSUME UNCHANGED recordVars, at' = at \/ at' \notin {"unlocate", "relocate"}
      PROVE  LocationIsTold'
  <2>1. locating' = locating /\ location' = location /\ pc' = pc /\ form' = form
    BY <1>3 DEF recordVars, records, requests
  <2> QED
    BY <1>2, <1>3, <2>1 DEF LocationIsTold, Told
<1>4. CASE Deliver
  BY <1>1, <1>3, <1>4, DeliveredAt
<1>5. CASE Acknowledge \/ FindOrCreateBlob \/ AddRevision \/ OnNewFileBlobUploaded
  BY <1>3, <1>5 DEF Acknowledge, FindOrCreateBlob, AddRevision, OnNewFileBlobUploaded
<1>6. CASE AnalyzeMediaFile \/ ExtractTags \/ ComputeThumbs \/ Fail
  BY <1>3, <1>6 DEF AnalyzeMediaFile, ExtractTags, ComputeThumbs, Fail
<1>7. CASE AddThumb \/ ComputeStreamingVersion
  BY <1>3, <1>7 DEF AddThumb, ComputeStreamingVersion, AddVersion
<1>8. CASE FetchTags \/ AllChecked
  BY <1>3, <1>8 DEF FetchTags, AllChecked, Located
<1>9. CASE (\E i \in DOMAIN publishing : Publish(i))
           \/ (\E b \in Blobs : RequestFileVersionCreation(b)) \/ UNCHANGED vars
  BY <1>3, <1>9 DEF Publish, RequestFileVersionCreation, vars
<1>10. CASE Crash
  BY <1>10 DEF Crash, LocationIsTold
<1>11. CASE \E f \in Files : CheckLocation(f)
  <2>1. PICK f \in Files : CheckLocation(f)
    BY <1>11
  <2>2. locating' \in {{f}, {}} /\ at' = IF locating' = {} THEN "check" ELSE "unlocate"
    BY <2>1 DEF CheckLocation, QueryFileLocation
  <2> QED
    BY <2>2 DEF LocationIsTold
<1>12. CASE SetLocation
  <2>1. PICK f \in locating :
          \/ Goto("unlocate", "relocate") /\ JobDeletesLocation(f)
          \/ Goto("relocate", "check") /\ location[f] = None /\ JobInsertsLocation(f)
          \/ Goto("relocate", "failed") /\ location[f] # None /\ UNCHANGED recordVars
    BY <1>12 DEF SetLocation
  <2>2. CASE Goto("unlocate", "relocate") /\ JobDeletesLocation(f)
    <3>1. locating' = locating /\ location' = [location EXCEPT ![f] = None]
      BY <2>2 DEF JobDeletesLocation
    <3>2. \A g \in locating' : location'[g] = None
      BY <1>2, <3>1
    <3> QED
      BY <1>2, <2>2, <3>1, <3>2 DEF LocationIsTold
  <2>3. CASE Goto("relocate", "check") /\ JobInsertsLocation(f)
    BY <2>3 DEF JobInsertsLocation, LocationIsTold
  <2>4. CASE Goto("relocate", "failed") /\ UNCHANGED recordVars
    BY <1>3, <2>4
  <2> QED
    BY <2>1, <2>2, <2>3, <2>4
<1>13. CASE Users /\ UNCHANGED <<publishing, channels, queue, worker, tables, asked, faults>>
  <2>1. /\ locating' = locating /\ at' = at
        /\ \A f \in Files : Told(f) => Told(f)'
        /\ \A f \in Files : location[f] = None /\ location'[f] # None => Told(f)'
    BY <1>13, UsersTell
  <2> QED
    BY <1>2, <2>1 DEF LocationIsTold
<1> QED
  BY <1>4, <1>5, <1>6, <1>7, <1>8, <1>9, <1>10, <1>11, <1>12, <1>13 DEF Next, Work

LEMMA WorkerStopsStep ==
    ASSUME RecordInv, WorkerInv, [Next]_vars
    PROVE  WorkerStopsForAReason'
<1> USE DEF Goto, worker, tables, faults
<1>1. /\ RecordTypes /\ WorkerTypes /\ CurrentIsToDo /\ AddedAreThere /\ LocationIsTold
      /\ WorkerStopsForAReason
  BY DEF RecordInv, WorkerInv
<1>2. at # "idle" => job = <<Current>> /\ Current \in Jobs /\ at \in Points(Current.type)
                     /\ Current.blob \in Blobs
  BY <1>1, AtWork
<1>3. job' = job => Current' = Current
  BY DEF Current
<1>4. failures \in Nat
  BY <1>1 DEF WorkerTypes
<1> SUFFICES ASSUME at' = "failed"
             PROVE  \/ failures' > 0 \/ Current'.again \/ missing' = added' + 1
                    \/ Current'.type = "thumbs" /\ ~ ExtractVideoStream(Current'.blob)
                    \/ ~ Differ(Current'.blob)
                    \/ Current'.type = "version" /\ Count(Current.blob)' > 1
                    \/ \E f \in locating' : Told(f)'
  BY DEF WorkerStopsForAReason, Differ, Told
<1>5. at = "failed" =>
        \/ failures > 0 \/ Current.again \/ missing = added + 1
        \/ Current.type = "thumbs" /\ ~ ExtractVideoStream(Current.blob)
        \/ ~ Differ(Current.blob)
        \/ Current.type = "version" /\ Count(Current.blob) > 1
        \/ \E f \in locating : Told(f)
  BY <1>1 DEF WorkerStopsForAReason, Differ, Told
<1>6. UNCHANGED <<job, asked>> => Count(Current.blob)' = Count(Current.blob)
  BY DEF Count, Current
<1>7. UNCHANGED recordVars => locating' = locating /\ \A f \in Files : Told(f) => Told(f)'
  BY DEF recordVars, requests, Told
<1>8. locating \subseteq Files
  BY <1>1 DEF RecordTypes
<1>9. CASE \E i \in DOMAIN publishing : Publish(i)
  <2>1. UNCHANGED <<job, asked, at, added, missing, failures, recordVars>>
    BY <1>9 DEF Publish
  <2> QED
    BY <1>3, <1>5, <1>6, <1>7, <1>8, <2>1
<1>10. CASE \E c \in Blobs : RequestFileVersionCreation(c)
  <2>1. PICK c \in Blobs : RequestFileVersionCreation(c)
    BY <1>10
  <2>2. UNCHANGED <<job, at, added, missing, failures, recordVars>> /\ asked' = Append(asked, c)
    BY <2>1 DEF RequestFileVersionCreation
  <2>3. \A b \in Blobs : Count(b) \in Nat /\ Count(b)' = IF b = c THEN Count(b) + 1 ELSE Count(b)
    BY <1>1, <2>2, CountNext, CountIsNat
  <2>4. \A b \in Blobs : Count(b) > 1 => Count(b)' > 1
    BY <2>3
  <2>5. Current.blob \in Blobs /\ Current' = Current
    BY <1>2, <1>3, <2>2
  <2>6. Count(Current.blob) > 1 => Count(Current.blob)' > 1
    BY <2>4, <2>5
  <2> QED
    BY <1>3, <1>5, <1>7, <1>8, <2>2, <2>6
<1>11. CASE (Users /\ UNCHANGED <<publishing, channels, queue, worker, tables, asked, faults>>)
            \/ UNCHANGED vars
  <2>1. UNCHANGED <<job, asked, at, added, missing, failures>>
    BY <1>11 DEF vars
  <2>2. locating' = locating /\ \A f \in Files : Told(f) => Told(f)'
    BY <1>7, <1>11, UsersTell DEF vars
  <2> QED
    BY <1>3, <1>5, <1>6, <1>8, <2>1, <2>2
<1>12. CASE Fail
  BY <1>4, <1>12 DEF Fail
<1>13. CASE ComputeThumbs
  <2>1. at = "pictures" /\ job' = job /\ ~ ExtractVideoStream(Current.blob)
    BY <1>13 DEF ComputeThumbs
  <2>2. Current.type = "thumbs"
    BY <1>2, <2>1 DEF Points, Uploading, Locating
  <2> QED
    BY <1>3, <2>1, <2>2
<1>14. CASE missing' # added + 1 /\ AddThumb
  <2>1. /\ at = "add" /\ Current.type = "thumbs" /\ job' = job
        /\ added + 1 \in DOMAIN Thumbs(Current.blob)
    BY <1>1, <1>14, ThumbIsAdded
  <2>2. <<Current.blob, Thumbs(Current.blob)[added + 1]>> \in versions
    BY <1>14, <2>1 DEF AddThumb, AddVersion
  <2>3. added \in Nat /\ ~(added + 1 <= added)
    BY <1>1 DEF WorkerTypes
  <2>4. ~ First(Current)
    BY <1>1, <1>2, <2>1, <2>2, <2>3 DEF CurrentIsToDo
  <2> QED
    BY <1>2, <1>3, <2>1, <2>4 DEF First, Jobs
<1>15. CASE missing' # added + 1 /\ ComputeStreamingVersion
  <2>1. /\ at = "version" /\ Current.type = "version" /\ UNCHANGED <<job, asked>>
    BY <1>1, <1>15, StreamIsAdded
  <2>2. <<Current.blob, StreamVersion[Current.blob]>> \in versions
    BY <1>15, <2>1 DEF ComputeStreamingVersion, AddVersion
  <2>3. First(Current) => ~(Count(Current.blob) <= 1)
    BY <1>1, <1>2, <2>1, <2>2 DEF CurrentIsToDo, NoStream
  <2>4. Count(Current.blob) \in Nat
    BY <1>1, CountIsNat
  <2>5. First(Current) => Count(Current.blob) > 1
    BY <2>3, <2>4
  <2> QED
    BY <1>2, <1>3, <1>6, <2>1, <2>5 DEF First, Jobs
<1>16. CASE SetLocation
  <2>1. /\ at = "relocate" /\ UNCHANGED recordVars
        /\ \E f \in locating : location[f] # None
    BY <1>16 DEF SetLocation
  <2>2. \E f \in locating : Told(f)
    BY <1>1, <2>1 DEF LocationIsTold
  <2> QED
    BY <1>7, <1>8, <2>1, <2>2
<1>17. CASE Deliver
  BY <1>1, <1>17, DeliveredAt
<1>18. CASE Acknowledge \/ FindOrCreateBlob \/ AddRevision \/ OnNewFileBlobUploaded \/ Crash
  BY <1>18 DEF Acknowledge, FindOrCreateBlob, AddRevision, OnNewFileBlobUploaded, Crash
<1>19. CASE AnalyzeMediaFile \/ ExtractTags \/ FetchTags \/ AllChecked
  BY <1>19 DEF AnalyzeMediaFile, ExtractTags, FetchTags, AllChecked, Located
<1>20. CASE \E f \in Files : CheckLocation(f)
  BY <1>20 DEF CheckLocation
<1>21. CASE missing' = added + 1 /\ (AddThumb \/ ComputeStreamingVersion)
  BY <1>21 DEF AddThumb, ComputeStreamingVersion, AddVersion
<1> QED
  BY <1>9, <1>10, <1>11, <1>12, <1>13, <1>14, <1>15, <1>16, <1>17, <1>18, <1>19, <1>20, <1>21
     DEF Next, Work

LEMMA WorkerBegins == Init => WorkerInv
<1> SUFFICES ASSUME Init PROVE WorkerInv
  OBVIOUS
<1> DEFINE all == {Job("upload", b) : b \in Blobs}
           uploadOf == [b \in Blobs |-> Job("upload", b)]
<1>1. /\ publishing = <<>> /\ queue = SetToSeq(all) /\ job = <<>> /\ at = "idle" /\ added = 0
      /\ channels = 0 /\ toLocate = {} /\ versions = {} /\ asked = <<>>
      /\ failures = 0 /\ crashes = 0
      /\ locating = {}
  BY DEF Init, RecordsInit
<1>2. IsFiniteSet(all)
  <2>1. uploadOf \in Surjection(Blobs, all)
    BY DEF Surjection
  <2> HIDE DEF uploadOf, all
  <2> QED
    BY <2>1, BlobsAreFinite, FS_Surjection
<1>3. \A m \in all : m \in Jobs /\ m.type = "upload"
  <2>1. \A b \in Blobs : Job("upload", b) \in Jobs /\ Job("upload", b).type = "upload"
    BY DEF Job, Jobs
  <2> QED
    BY <2>1
<1> HIDE DEF all
<1>4. queue \in Seq(all)
  BY <1>1, <1>2, FiniteSequences
<1>5. /\ queue \in Seq(Jobs) /\ \A i \in DOMAIN queue : queue[i].type = "upload"
  <2>1. \A i \in DOMAIN queue : queue[i] \in all
    BY <1>4
  <2>2. queue \in Seq(Jobs)
    BY <1>3, <1>4, <2>1
  <2> QED
    BY <1>3, <2>1, <2>2
<1>6. WorkerTypes
  BY <1>1, <1>5, ChannelMaxIsNat DEF WorkerTypes
<1>7. ASSUME NEW type \in {"thumbs", "version"}, NEW b
      PROVE  ~ Pending(type, b) /\ Single(type, b)
  <2>1. Of(queue, type, b) = {}
    BY <1>5 DEF Of
  <2>2. Of(job, type, b) = {} /\ Of(publishing, type, b) = {}
    BY <1>1, OfJob
  <2> QED
    BY <2>1, <2>2 DEF Pending, Single, Once
<1>8. \A b : NoThumbs(b) /\ NoStream(b)
  BY <1>1 DEF NoThumbs, NoStream
<1>9. ThumbsOnce /\ VersionOnce
  BY <1>1, <1>7, <1>8 DEF ThumbsOnce, VersionOnce
<1>10. WaitingIsToDo
  BY <1>8 DEF WaitingIsToDo, ToDo
<1>11. CurrentIsToDo /\ AddedAreThere
  <2>1. \A m : job # <<m>>
    BY <1>1
  <2> QED
    BY <2>1 DEF CurrentIsToDo, AddedAreThere
<1>12. LocationIsTold /\ WorkerStopsForAReason
  BY <1>1 DEF LocationIsTold, WorkerStopsForAReason
<1> QED
  BY <1>6, <1>9, <1>10, <1>11, <1>12 DEF WorkerInv

LEMMA WorkerStep ==
    ASSUME RecordInv, WorkerInv, [Next]_vars
    PROVE  WorkerInv'
<1>1. WorkerTypes
  BY DEF WorkerInv
<1> QED
  BY <1>1, TypesStep, ThumbsOnceStep, VersionOnceStep, WaitingIsToDoStep, CurrentIsToDoStep,
     AddedAreThereStep, LocationIsToldStep, WorkerStopsStep DEF WorkerInv

LEMMA Invariants == Spec => [](RecordInv /\ WorkerInv)
<1>1. Init => RecordInv /\ WorkerInv
  BY RecordsBegin, WorkerBegins DEF Init
<1>2. RecordInv /\ WorkerInv /\ [Next]_vars => (RecordInv /\ WorkerInv)'
  <2> SUFFICES ASSUME RecordInv, WorkerInv, [Next]_vars PROVE RecordInv' /\ WorkerInv'
    OBVIOUS
  <2>1. RecordTypes /\ toLocate \subseteq Files
    BY DEF RecordInv, WorkerInv, WorkerTypes
  <2>2. RecordInv'
    BY <2>1, RecordsAreApart, RecordsStep
  <2>3. WorkerInv'
    BY WorkerStep
  <2> QED
    BY <2>2, <2>3
<1> QED
  BY <1>1, <1>2, PTL DEF Spec

(***************************************************************************)
(* What users find.                                                        *)
(***************************************************************************)
LEMMA SearchForOne ==
    ASSUME RecordTypes, NEW c, NEW f \in Files, NEW t \in Tags, f \notin deleted, ContainerOf[f] = c
    PROVE  Search(c, f, {t}) = fileTags[f][t]
<1> DEFINE Body(it, s) == IF s = {} THEN 1
                          ELSE LET x == CHOOSE x \in s : TRUE IN it[s \ {x}] * fileTags[f][x]
           IsIter(it) == it = [s \in SUBSET {t} |-> Body(it, s)]
           iter == CHOOSE it : IsIter(it)
           g == [s \in SUBSET {t} |-> IF s = {} THEN 1 ELSE fileTags[f][t]]
<1>1. Search(c, f, {t}) = iter[{t}]
  BY DEF Search, FoldSet, MapThenFoldSet
<1>2. fileTags[f][t] \in Nat
  BY DEF RecordTypes
<1>3. IsIter(g)
  BY <1>2
<1> HIDE DEF IsIter
<1>4. IsIter(iter)
  BY <1>3
<1>5. iter[{t}] = Body(iter, {t}) /\ iter[{}] = 1
  BY <1>4 DEF IsIter
<1> HIDE DEF iter
<1>6. (CHOOSE x \in {t} : TRUE) = t /\ {t} \ {t} = {}
  OBVIOUS
<1>7. iter[{t}] = 1 * fileTags[f][t]
  BY <1>5, <1>6
<1> QED
  BY <1>1, <1>2, <1>7

LEMMA SearchForAll ==
    ASSUME NEW c, NEW f
    PROVE  Search(c, f, {}) = IF f \notin deleted /\ ContainerOf[f] = c THEN 1 ELSE 0
<1> DEFINE Body(it, s) == IF s = {} THEN 1
                          ELSE LET x == CHOOSE x \in s : TRUE IN it[s \ {x}] * fileTags[f][x]
           IsIter(it) == it = [s \in SUBSET {} |-> Body(it, s)]
           iter == CHOOSE it : IsIter(it)
           g == [s \in SUBSET {} |-> 1]
<1>1. f \notin deleted /\ ContainerOf[f] = c => Search(c, f, {}) = iter[{}]
  BY DEF Search, FoldSet, MapThenFoldSet
<1>2. IsIter(g)
  OBVIOUS
<1> HIDE DEF IsIter
<1>3. IsIter(iter)
  BY <1>2
<1>4. iter[{}] = 1
  BY <1>3 DEF IsIter
<1> QED
  BY <1>1, <1>4 DEF Search

LEMMA Findable ==
    ASSUME RecordTypes, NEW c, NEW f \in Files
    PROVE  Reachable(c, f) <=> f \notin deleted /\ ContainerOf[f] = c
<1> DEFINE path == filePath[f]
           n == Len(path)
<1>1. path \in Seq(STRING) /\ path # <<>> /\ n \in Nat /\ n > 0
  BY DEF RecordTypes, Paths
<1> HIDE DEF path
<1>2. ASSUME NEW k \in 0..(n - 1)
      PROVE  /\ SubSeq(path, 1, k) \in Seq(STRING) /\ Len(SubSeq(path, 1, k)) = k
             /\ IsStrictPrefix(SubSeq(path, 1, k), path)
  <2>1. SubSeq(path, 1, k) \in Seq(STRING) /\ Len(SubSeq(path, 1, k)) = k
    BY <1>1
  <2>2. SubSeq(SubSeq(path, 1, k), 1, k) = SubSeq(path, 1, k)
    BY <2>1, SubSeqFull
  <2>3. k <= n /\ k # n
    BY <1>1
  <2>4. SubSeq(path, 1, k) # path
    BY <2>1, <2>3
  <2> QED
    BY <2>1, <2>2, <2>3, <2>4 DEF IsStrictPrefix, IsPrefix
<1>3. f \in QueryDirectChildrenOf(c, Front(path)) <=> f \notin deleted /\ ContainerOf[f] = c
  <2>1. n - 1 \in 0..(n - 1) /\ n = (n - 1) + 1
    BY <1>1
  <2>2. Front(path) = SubSeq(path, 1, n - 1)
    BY DEF Front
  <2>3. IsStrictPrefix(Front(path), path) /\ n = Len(Front(path)) + 1
    BY <1>2, <2>1, <2>2
  <2>4. In(Front(path), f) /\ Len(filePath[f]) = Len(Front(path)) + 1
    BY <2>3 DEF In, path
  <2> QED
    BY <2>4 DEF QueryDirectChildrenOf
<1>4. ASSUME NEW k \in 1..(n - 1), ContainerOf[f] = c
      PROVE  path[k] \in QueryNextLabelChildrenOf(c, SubSeq(path, 1, k - 1))
  <2> DEFINE dir == SubSeq(path, 1, k - 1)
  <2>1. k - 1 \in 0..(n - 1) /\ n > (k - 1) + 1 /\ (k - 1) + 1 = k
    BY <1>1
  <2>2. IsStrictPrefix(dir, path) /\ Len(dir) = k - 1
    BY <1>2, <2>1
  <2> HIDE DEF dir
  <2>3. In(dir, f) /\ Len(filePath[f]) > Len(dir) + 1 /\ filePath[f][Len(dir) + 1] = path[k]
    BY <2>1, <2>2 DEF In, path
  <2>4. path[k] \in QueryNextLabelChildrenOf(c, dir)
    BY <1>4, <2>3 DEF QueryNextLabelChildrenOf
  <2> QED
    BY <2>4 DEF dir
<1> QED
  BY <1>3, <1>4 DEF Reachable, path

\* A file has tags of its own container only, however many requests write tags at once:
\* what UpdateFileTags has found out about a tag before it inserts the rows stays true.
THEOREM TagsStay == Spec => []TagsStayInContainer
<1>1. RecordInv => TagsStayInContainer
  BY DEF RecordInv
<1> QED
  BY <1>1, Invariants, PTL

\* What PUT files/{fileId} has saved while nobody else wrote this file is what is there,
\* and the file is found by each of its tags, whatever is done to other files, and whatever
\* the jobs locate.
THEOREM RecordsAreSaved == Spec => []RecordIsAsSaved
<1>1. ASSUME RecordInv PROVE RecordIsAsSaved
  <2>1. RecordTypes /\ SavedIsThere /\ TagsStayInContainer
    BY <1>1 DEF RecordInv
  <2> SUFFICES ASSUME NEW f \in Files, NEW record \in Range(saved[f])
               PROVE  /\ filePath[f] = record.path
                      /\ location[f] \in IF record.osmId = None THEN {None, Photo} ELSE {record.osmId}
                      /\ \A t \in Tags :
                            LET given == Cardinality({i \in DOMAIN record.tags : record.tags[i] = t})
                            IN /\ fileTags[f][t] = given
                               /\ f \in deleted \/ SearchForFiles(ContainerOf[f], f, {t}) = given
    BY DEF RecordIsAsSaved
  <2>2. record \in Form /\ saved[f] = <<record>>
    <3>1. CASE saved[f] = <<>>
      BY <3>1 DEF Range
    <3>2. CASE \E r \in Form : saved[f] = <<r>>
      <4>1. PICK r \in Form : saved[f] = <<r>>
        BY <3>2
      <4>2. DOMAIN saved[f] = {1} /\ saved[f][1] = r
        BY <4>1
      <4>3. record = r
        BY <4>2 DEF Range
      <4> QED
        BY <4>1, <4>3
    <3> QED
      BY <2>1, <3>1, <3>2 DEF RecordTypes
  <2>3. DOMAIN record.tags = 1..Len(record.tags)
    BY <2>2 DEF Form
  <2>4. ASSUME NEW t \in Tags
        PROVE  LET given == Cardinality({i \in DOMAIN record.tags : record.tags[i] = t})
               IN /\ fileTags[f][t] = given
                  /\ f \in deleted \/ SearchForFiles(ContainerOf[f], f, {t}) = given
    <3> DEFINE given == Cardinality({i \in DOMAIN record.tags : record.tags[i] = t})
    <3>1. fileTags[f][t] = given
      BY <2>1, <2>2, <2>3 DEF SavedIsThere, Given
    <3>2. fileTags[f][t] \in Nat
      BY <2>1 DEF RecordTypes
    <3> HIDE DEF given
    <3>3. CASE tagContainer[t] = ContainerOf[f]
      BY <2>1, <3>1, <3>3, SearchForOne DEF SearchForFiles, given
    <3>4. CASE tagContainer[t] # ContainerOf[f]
      <4>1. given = 0
        BY <2>1, <3>1, <3>2, <3>4 DEF TagsStayInContainer
      <4>2. SearchForFiles(ContainerOf[f], f, {t}) = 0
        BY <3>4 DEF SearchForFiles
      <4> QED
        BY <3>1, <4>1, <4>2 DEF given
    <3> QED
      BY <3>3, <3>4
  <2> QED
    BY <2>1, <2>2, <2>4 DEF SavedIsThere
<1>2. RecordInv => RecordIsAsSaved
  BY <1>1
<1> QED
  BY <1>2, Invariants, PTL

\* The directories that are listed and the search for files lead to the same files, and
\* what they do not show of a container is in the recycle bin.
THEOREM ListingAndSearch == Spec => []ListingAndSearchAgree
<1>1. ASSUME RecordInv PROVE ListingAndSearchAgree
  <2>1. RecordTypes
    BY <1>1 DEF RecordInv
  <2> SUFFICES ASSUME NEW f \in Files, NEW c \in Containers
               PROVE  /\ SearchForFiles(c, f, {}) = IF Reachable(c, f) THEN 1 ELSE 0
                      /\ ContainerOf[f] = c => (Reachable(c, f) <=> f \notin QeuryDeletedFiles(c))
    BY DEF ListingAndSearchAgree
  <2>2. SearchForFiles(c, f, {}) = Search(c, f, {})
    BY DEF SearchForFiles
  <2>3. Reachable(c, f) <=> f \notin deleted /\ ContainerOf[f] = c
    BY <2>1, Findable
  <2>4. Search(c, f, {}) = IF f \notin deleted /\ ContainerOf[f] = c THEN 1 ELSE 0
    BY SearchForAll
  <2> QED
    BY <2>2, <2>3, <2>4 DEF QeuryDeletedFiles
<1>2. RecordInv => ListingAndSearchAgree
  BY <1>1
<1> QED
  BY <1>2, Invariants, PTL

\* The worker acknowledges a job only when it is done and takes no other before: it stops
\* over a job for one of the reasons WorkerStopsForAReason names, and over no other.
THEOREM WorkerStops == Spec => []WorkerStopsForAReason
<1>1. WorkerInv => WorkerStopsForAReason
  BY DEF WorkerInv
<1> QED
  BY <1>1, Invariants, PTL

(***************************************************************************)
(* Thumbnails.                                                             *)
(***************************************************************************)
LEMMA ThumbnailsStep ==
    ASSUME WorkerInv, ThumbnailsAreThereOrComing, [Next]_vars
    PROVE  ThumbnailsAreThereOrComing'
<1> USE DEF Goto, worker, tables, faults
<1>1. WorkerTypes /\ AddedAreThere
  BY DEF WorkerInv
<1> SUFFICES ASSUME NEW b \in Blobs, b \in blobs', b \in Pictures, VideoStreams[b] # NotMedia
             PROVE  \/ AllThere(b)' \/ Coming(b)' \/ crashes' > 0 \/ Unsent(b)'
                    \/ \E pair \in versions' : pair[2] = b
  BY DEF ThumbnailsAreThereOrComing, AllThere, Pictures
<1>2. b \in blobs =>
        \/ AllThere(b) \/ Coming(b) \/ crashes > 0 \/ Unsent(b)
        \/ \E pair \in versions : pair[2] = b
  BY DEF ThumbnailsAreThereOrComing, AllThere
<1>3. MediaType[b] \in {"image", "video"}
  BY DEF Pictures
<1>4. at # "idle" => job = <<Current>> /\ Current \in Jobs /\ at \in Points(Current.type)
  BY <1>1, AtWork
<1>5. Coming(b) => \/ Pending("thumbs", b)
                   \/ at \in {"reviseNew", "announce"} /\ Current.blob = b
  <2>1. job # <<>> => DOMAIN job = {1} /\ job[1] = Current
    BY <1>1, AtWork DEF Current
  <2>2. ASSUME NEW i \in DOMAIN job PROVE job[i] = Current
    BY <2>1, <2>2
  <2> QED
    BY <2>2 DEF Coming, Pending, Of
<1>6. Pending("thumbs", b)' => Coming(b)'
  BY DEF Coming, Pending, Of
<1>7. crashes \in Nat
  BY <1>1 DEF WorkerTypes
<1>8. versions \subseteq versions' => (AllThere(b) => AllThere(b)')
  BY DEF AllThere
<1>9. ASSUME b \in blobs, versions \subseteq versions', crashes' = crashes,
             unsent \subseteq unsent', Coming(b) => Coming(b)' \/ Unsent(b)'
      PROVE  \/ AllThere(b)' \/ Coming(b)' \/ crashes' > 0 \/ Unsent(b)'
             \/ \E pair \in versions' : pair[2] = b
  BY <1>2, <1>8, <1>9 DEF Unsent
<1>10. UNCHANGED <<publishing, queue, job>> => (Pending("thumbs", b)' <=> Pending("thumbs", b))
  BY NothingMoves
<1>11. job' = job /\ at' \in {"reviseNew", "announce"} /\ Current.blob = b /\ at # "idle" => Coming(b)'
  <2> SUFFICES ASSUME job' = job, at' \in {"reviseNew", "announce"}, Current.blob = b, at # "idle"
               PROVE  Coming(b)'
    OBVIOUS
  <2>1. 1 \in DOMAIN job' /\ job'[1].blob = b
    BY <1>4 DEF Current
  <2> QED
    BY <2>1 DEF Coming
<1>12. CASE \E i \in DOMAIN publishing : Publish(i)
  <2>1. PICK i \in DOMAIN publishing : Publish(i)
    BY <1>12
  <2>2. UNCHANGED <<job, at, blobs, versions, crashes>>
    BY <2>1 DEF Publish
  <2>3. (Pending("thumbs", b) => Pending("thumbs", b)' \/ Unsent(b)') /\ unsent \subseteq unsent'
    BY <1>1, <2>1, PublishMoves DEF Unsent
  <2> QED
    BY <1>4, <1>5, <1>6, <1>9, <1>11, <2>2, <2>3
<1>13. CASE Deliver
  <2>1. at = "idle" /\ UNCHANGED <<blobs, versions, crashes, unsent>>
    BY <1>13 DEF Deliver
  <2>2. Pending("thumbs", b)' <=> Pending("thumbs", b)
    BY <1>1, <1>13, DeliverMoves
  <2> QED
    BY <1>5, <1>6, <1>9, <2>1, <2>2
<1>14. CASE Acknowledge
  <2>1. /\ at = "ack" /\ UNCHANGED <<publishing, queue, blobs, versions, crashes, unsent>>
    BY <1>14 DEF Acknowledge
  <2>2. CASE Of(job, "thumbs", b) # {}
    <3>1. job = <<Current>> /\ Current \in Jobs /\ Current.type = "thumbs" /\ Current.blob = b
      <4>1. job = <<Current>> /\ Current \in Jobs
        BY <1>4, <2>1
      <4>2. DOMAIN job = {1} /\ job[1] = Current
        BY <4>1 DEF Current
      <4> QED
        BY <2>2, <4>1, <4>2 DEF Of
    <3>2. AllThere(b)
      BY <1>1, <1>3, <2>1, <3>1 DEF AddedAreThere
    <3> QED
      BY <1>8, <2>1, <3>2
  <2>3. CASE Of(job, "thumbs", b) = {}
    <3>1. Pending("thumbs", b) => Pending("thumbs", b)'
      BY <2>1, <2>3 DEF Pending
    <3> QED
      BY <1>5, <1>6, <1>9, <2>1, <3>1
  <2> QED
    BY <2>2, <2>3
<1>15. CASE Crash
  <2>1. crashes' = crashes + 1
    BY <1>15 DEF Crash
  <2> QED
    BY <1>7, <2>1
<1>16. CASE FindOrCreateBlob
  <2>1. /\ at = "upload" /\ UNCHANGED <<publishing, queue, job, versions, crashes, unsent>>
        /\ at' = (IF Current.blob \in blobs THEN "reviseOld" ELSE "reviseNew")
        /\ blobs' = blobs \cup {Current.blob}
    BY <1>16 DEF FindOrCreateBlob
  <2>2. CASE b \in blobs
    BY <1>5, <1>6, <1>9, <1>10, <2>1, <2>2
  <2>3. CASE b \notin blobs
    BY <1>11, <2>1, <2>3
  <2> QED
    BY <2>2, <2>3
<1>17. CASE AddRevision
  <2>1. /\ UNCHANGED <<publishing, queue, job, versions, crashes, unsent, blobs>>
        /\ \/ at = "reviseNew" /\ at' = "announce"
           \/ at = "reviseOld" /\ at' = "locate"
    BY <1>17 DEF AddRevision
  <2> QED
    BY <1>5, <1>6, <1>9, <1>10, <1>11, <2>1
<1>18. CASE OnNewFileBlobUploaded
  <2>1. /\ at = "announce" /\ UNCHANGED <<queue, job, versions, crashes, unsent, blobs>>
        /\ publishing' = IF MediaType[Current.blob] = "other" THEN publishing
                         ELSE Append(publishing, Job("thumbs", Current.blob))
    BY <1>18 DEF OnNewFileBlobUploaded
  <2>2. CASE MediaType[Current.blob] = "other"
    <3>1. Current.blob # b
      BY <1>3, <2>2
    <3> QED
      BY <1>5, <1>6, <1>9, <1>10, <2>1, <2>2, <3>1
  <2>3. CASE MediaType[Current.blob] # "other"
    <3> DEFINE m == Job("thumbs", Current.blob)
    <3>1. m \in Jobs /\ m.type = "thumbs" /\ m.blob = Current.blob
      BY <1>1, <2>1, AtWork DEF Job, Jobs
    <3>2. Published(m)
      BY <2>1, <2>3 DEF Published
    <3> HIDE DEF m
    <3>3. ~(m.blob = b) => (Pending("thumbs", b)' <=> Pending("thumbs", b))
      BY <1>1, <3>1, <3>2, PublishedIsPending
    <3>4. /\ Without(publishing', Len(publishing) + 1, publishing)
          /\ publishing'[Len(publishing) + 1] = m
      BY <1>1, <3>1, <3>2, AppendIsWithout DEF Published, WorkerTypes
    <3>5. m.blob = b => Of(publishing', "thumbs", b) # {}
      BY <3>1, <3>4, BothOf
    <3>6. Pending("thumbs", b) \/ Current.blob = b => Pending("thumbs", b)'
      BY <3>1, <3>3, <3>5 DEF Pending
    <3> QED
      BY <1>5, <1>6, <1>9, <2>1, <3>6
  <2> QED
    BY <2>2, <2>3
<1>19. CASE ComputeThumbs \/ Elsewhere
  <2>1. /\ UNCHANGED <<publishing, queue, job, versions, crashes, unsent, blobs>>
        /\ at \notin {"reviseNew", "announce"} \/ at' = at
    BY <1>19 DEF ComputeThumbs, Elsewhere, Locating
  <2> QED
    BY <1>5, <1>6, <1>9, <1>10, <1>11, <2>1
<1>20. CASE missing' # added + 1 /\ (AddThumb \/ ComputeStreamingVersion)
  <2>1. PICK v : /\ UNCHANGED <<publishing, unsent, queue, job, crashes>>
                 /\ at \in {"add", "version"}
                 /\ versions' = versions \cup {<<Current.blob, v>>} /\ blobs' = blobs \cup {v}
    BY <1>1, <1>20, ThumbIsAdded, StreamIsAdded
  <2>2. CASE b \in blobs
    BY <1>5, <1>6, <1>9, <1>10, <2>1, <2>2
  <2>3. CASE b = v
    <3>1. <<Current.blob, v>> \in versions' /\ <<Current.blob, v>>[2] = b
      BY <2>1, <2>3
    <3> QED
      BY <3>1
  <2> QED
    BY <2>1, <2>2, <2>3
<1>21. CASE \E c \in Blobs : RequestFileVersionCreation(c)
  <2>1. PICK c \in Blobs : RequestFileVersionCreation(c)
    BY <1>21
  <2> DEFINE m == Job("version", c)
  <2>2. m \in Jobs /\ m.type = "version"
    BY DEF Job, Jobs
  <2>3. Published(m) /\ UNCHANGED <<at, blobs, versions, crashes, unsent>>
    BY <2>1 DEF RequestFileVersionCreation, Published
  <2> HIDE DEF m
  <2>4. Pending("thumbs", b)' <=> Pending("thumbs", b)
    BY <1>1, <2>2, <2>3, PublishedIsPending
  <2>5. job' = job
    BY <2>3 DEF Published
  <2> QED
    BY <1>5, <1>6, <1>9, <1>11, <2>3, <2>4, <2>5
<1> QED
  BY <1>1, <1>12, <1>13, <1>14, <1>15, <1>16, <1>17, <1>18, <1>19, <1>20, <1>21, ElsewhereSteps

\* Of each picture that has been uploaded as new bytes the thumbnails are there or a job
\* for them is on its way, unless the worker has crashed or there is no channel left to
\* send the event on: the event is raised after the blob and the revision are recorded,
\* and a job for thumbnails is acknowledged only when all are added.
THEOREM ThumbnailsCome == Spec => []ThumbnailsAreThereOrComing
<1>1. Init => ThumbnailsAreThereOrComing
  BY DEF Init, ThumbnailsAreThereOrComing
<1>2. WorkerInv /\ ThumbnailsAreThereOrComing /\ [Next]_vars => ThumbnailsAreThereOrComing'
  BY ThumbnailsStep
<1> QED
  BY <1>1, <1>2, Invariants, PTL DEF Spec

=============================================================================
