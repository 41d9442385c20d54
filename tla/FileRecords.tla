---------------------------- MODULE FileRecords ----------------------------
(***************************************************************************)
(* What is recorded of a file beside its bytes: its path, tags, location   *)
(* and whether it lies in the recycle bin.  The dialog that edits a file   *)
(* reads the record and puts it back whole; files/{fileId}, FilesController*)
(* and TagsController write it in many statements without a transaction.   *)
(* FileGeocodingService, called by jobs, adds the location of a photo.     *)
(*                                                                         *)
(* A path is the sequence of its labels.                                   *)
(***************************************************************************)
EXTENDS Naturals, Sequences, SequencesExt, FiniteSets

Paths == Seq(STRING) \ {<<>>}

CONSTANTS
    Requests,       \* each one user who opens the dialog and saves
    Files, Containers, ContainerOf, InitialPath,
    Tags,           \* the texts of tags
    OsmIds,         \* ids of places the geocoding service knows
    Edits,          \* what users enter: records of file, path, tags, osmId
    Unwanted,       \* files users move to the recycle bin
    Shown, None     \* in an edit: left as shown; no location

ASSUME FilesHaveContainers ==
    ContainerOf \in [Files -> Containers] /\ InitialPath \in [Files -> Paths]
ASSUME NoneIsNoContainer == None \notin Containers
ASSUME TagsAreFinite == IsFiniteSet(Tags)
ASSUME EditsAreForms ==
    \A edit \in Edits : /\ edit.path = Shown \/ edit.path \in Paths
                        /\ edit.tags = Shown \/ edit.tags \in Seq(Tags)

VARIABLES
    filePath, deleted,  \* files, files_deleted
    tagContainer,       \* tags: the container of the row with this text, or None
    fileTags,           \* files_tags: how many rows a file has for a tag
    location,           \* files_locations: an OSM id, Photo or None
    pc, form,           \* a request, and the record it saves
    tagging,            \* what is known of each tag of a request
    linked,             \* how many tags of a request have been inserted
    locating,           \* the file a job is about to locate, a set of at most one
    overlapped,         \* history: requests that met another writer of their file
    saved               \* history: the record saved last and alone, at most one

records == <<filePath, deleted, tagContainer, fileTags, location>>
requests == <<pc, form, tagging, linked>>
recordVars == <<records, requests, locating, overlapped, saved>>

Photo == "photo"
NoTags == [t \in Tags |-> 0]

RecordsInit ==
    /\ filePath = InitialPath /\ deleted = {}
    /\ tagContainer = [t \in Tags |-> None]
    /\ fileTags = [f \in Files |-> NoTags]
    /\ location = [f \in Files |-> None]
    /\ pc = [q \in Requests |-> "idle"]
    /\ form = [q \in Requests |-> [file |-> None, path |-> <<>>, tags |-> <<>>, osmId |-> None]]
    /\ tagging = [q \in Requests |-> <<>>] /\ linked = [q \in Requests |-> 0]
    /\ locating = {}
    /\ overlapped = {} /\ saved = [f \in Files |-> <<>>]

(***************************************************************************)
(* What the API answers.                                                   *)
(***************************************************************************)
QueryFileTags(f) ==
    LET rows == SetToSeq(UNION {{t} \X (1..fileTags[f][t]) : t \in Tags}) IN
    [i \in DOMAIN rows |-> rows[i][1]]

In(dir, f) == IsStrictPrefix(dir, filePath[f])

QueryDirectChildrenOf(c, dir) ==
    {f \in Files \ deleted : ContainerOf[f] = c /\ In(dir, f) /\ Len(filePath[f]) = Len(dir) + 1}

\* Files in the recycle bin keep their directories listed.
QueryNextLabelChildrenOf(c, dir) ==
    {filePath[f][Len(dir) + 1] :
        f \in {g \in Files : ContainerOf[g] = c /\ In(dir, g) /\ Len(filePath[g]) > Len(dir) + 1}}

\* The recycle bin of a container shows what was deleted in any of them.
QeuryDeletedFiles(c) == deleted

\* Mutant: the search does not look at the recycle bin.
Search_Deleted(c, f, requiredTags) ==
    IF ContainerOf[f] = c
    THEN FoldSet(LAMBDA t, n : n * fileTags[f][t], 1, requiredTags) ELSE 0

\* How often a file is found below the root: the join yields a row for each row of a
\* required tag.
Search(c, f, requiredTags) ==
    IF f \notin deleted /\ ContainerOf[f] = c
    THEN FoldSet(LAMBDA t, n : n * fileTags[f][t], 1, requiredTags) ELSE 0

\* A tag the container does not have is refused.
SearchForFiles(c, f, requiredTags) ==
    IF \A t \in requiredTags : tagContainer[t] = c THEN Search(c, f, requiredTags) ELSE 0

\* What somebody finds who opens every directory: RequestDirContents lists both.
Reachable(c, f) ==
    LET path == filePath[f] IN
    /\ f \in QueryDirectChildrenOf(c, Front(path))
    /\ \A n \in 1..(Len(path) - 1) :
          path[n] \in QueryNextLabelChildrenOf(c, SubSeq(path, 1, n - 1))

(***************************************************************************)
(* The dialog.                                                             *)
(***************************************************************************)
\* The location of a photo has no OSM id, and the dialog shows ids.
RequestFile(q, f) ==
    /\ pc[q] = "idle"
    /\ pc' = [pc EXCEPT ![q] = "editing"]
    /\ form' = [form EXCEPT ![q] =
                 [file |-> f, path |-> filePath[f], tags |-> QueryFileTags(f),
                  osmId |-> IF location[f] = Photo THEN None ELSE location[f]]]
    /\ UNCHANGED <<records, tagging, linked, locating, overlapped, saved>>

Save(q, edit) ==
    LET old == form[q]
        Choice(new, shown) == IF new = Shown THEN shown ELSE new
    IN /\ pc[q] = "editing" /\ edit.file = old.file
       /\ pc' = [pc EXCEPT ![q] = "path"]
       /\ form' = [form EXCEPT ![q] = [file |-> old.file, path |-> Choice(edit.path, old.path),
                    tags |-> Choice(edit.tags, old.tags), osmId |-> Choice(edit.osmId, old.osmId)]]
       /\ UNCHANGED <<records, tagging, linked, locating, overlapped, saved>>

SoftDeleteFile(f) ==
    /\ f \in Unwanted \ deleted
    /\ deleted' = deleted \cup {f}
    /\ UNCHANGED <<filePath, tagContainer, fileTags, location, requests, locating,
                   overlapped, saved>>

(***************************************************************************)
(* UpdateFileMetadata, statement by statement.                             *)
(***************************************************************************)
Writing(f) == {q \in Requests : form[q].file = f /\
                  pc[q] \in {"untag", "tags", "link", "unlocate", "relocate"}}
Step(q, from, to) == pc[q] = from /\ pc' = [pc EXCEPT ![q] = to]

\* A path is used once in a container.
UpdatePath(q) ==
    LET f == form[q].file
        others == Writing(f) \cup {w \in {q} : f \in locating}
        taken == \E g \in Files \ {f} : ContainerOf[g] = ContainerOf[f] /\ filePath[g] = form[q].path
    IN /\ Step(q, "path", IF taken THEN "failed" ELSE "untag")
       /\ IF taken THEN UNCHANGED <<filePath, overlapped, saved>>
          ELSE /\ filePath' = [filePath EXCEPT ![f] = form[q].path]
               /\ overlapped' = IF others = {} THEN overlapped ELSE overlapped \cup others \cup {q}
               /\ saved' = [saved EXCEPT ![f] = <<>>]
       /\ UNCHANGED <<deleted, tagContainer, fileTags, location, form, tagging, linked, locating>>

\* Mutant: the tags the file had are kept.
DeleteTags_Keeps(q) ==
    /\ Step(q, "untag", "tags")
    /\ tagging' = [tagging EXCEPT ![q] = [i \in DOMAIN form[q].tags |-> "query"]]
    /\ UNCHANGED <<records, form, linked, locating, overlapped, saved>>

\* UpdateFileTags deletes what there was, and asks for all tags at once.
DeleteTags(q) ==
    /\ Step(q, "untag", "tags")
    /\ fileTags' = [fileTags EXCEPT ![form[q].file] = NoTags]
    /\ tagging' = [tagging EXCEPT ![q] = [i \in DOMAIN form[q].tags |-> "query"]]
    /\ UNCHANGED <<filePath, deleted, tagContainer, location, form, linked, locating,
                   overlapped, saved>>

\* Mutant: a tag is looked for in all containers.
QueryTagId_Anywhere(q, i) ==
    /\ i \in DOMAIN tagging[q] /\ tagging[q][i] = "query"
    /\ tagging' = [tagging EXCEPT ![q][i] =
                    IF tagContainer[form[q].tags[i]] # None THEN "known" ELSE "insert"]
    /\ UNCHANGED <<records, pc, form, linked, locating, overlapped, saved>>

QueryTagId(q, i) ==
    /\ i \in DOMAIN tagging[q] /\ tagging[q][i] = "query"
    /\ tagging' = [tagging EXCEPT ![q][i] =
                    IF tagContainer[form[q].tags[i]] = ContainerOf[form[q].file]
                    THEN "known" ELSE "insert"]
    /\ UNCHANGED <<records, pc, form, linked, locating, overlapped, saved>>

\* The text of a tag is unique over all containers.  The first refusal fails the
\* request, and what has been asked for goes on.
InsertTag(q, i) ==
    LET tag == form[q].tags[i] IN
    /\ i \in DOMAIN tagging[q] /\ tagging[q][i] = "insert"
    /\ IF tagContainer[tag] = None
       THEN /\ tagContainer' = [tagContainer EXCEPT ![tag] = ContainerOf[form[q].file]]
            /\ tagging' = [tagging EXCEPT ![q][i] = "known"]
            /\ pc' = pc
       ELSE /\ tagging' = [tagging EXCEPT ![q][i] = "refused"]
            /\ pc' = [pc EXCEPT ![q] = "failed"]
            /\ tagContainer' = tagContainer
    /\ UNCHANGED <<filePath, deleted, fileTags, location, form, linked, locating,
                   overlapped, saved>>

TagsAreKnown(q) ==
    /\ \A i \in DOMAIN tagging[q] : tagging[q][i] = "known"
    /\ Step(q, "tags", "link")
    /\ UNCHANGED <<records, form, tagging, linked, locating, overlapped, saved>>

LinkTag(q) ==
    LET i == linked[q] + 1 IN
    /\ i \in DOMAIN form[q].tags
    /\ Step(q, "link", "link")
    /\ fileTags' = [fileTags EXCEPT ![form[q].file][form[q].tags[i]] = @ + 1]
    /\ linked' = [linked EXCEPT ![q] = i]
    /\ UNCHANGED <<filePath, deleted, tagContainer, location, form, tagging, locating,
                   overlapped, saved>>

\* An id the geocoding service does not know is refused when the tags are written.
ResolveLocation(q) ==
    /\ linked[q] = Len(form[q].tags)
    /\ Step(q, "link", IF form[q].osmId \in OsmIds \cup {None} THEN "unlocate" ELSE "failed")
    /\ UNCHANGED <<records, form, tagging, linked, locating, overlapped, saved>>

Saved(q) ==
    saved' = IF q \in overlapped THEN saved ELSE [saved EXCEPT ![form[q].file] = <<form[q]>>]

DeleteLocation(q) ==
    /\ IF form[q].osmId = None THEN Step(q, "unlocate", "saved") /\ Saved(q)
                               ELSE Step(q, "unlocate", "relocate") /\ UNCHANGED saved
    /\ location' = [location EXCEPT ![form[q].file] = None]
    /\ UNCHANGED <<filePath, deleted, tagContainer, fileTags, form, tagging, linked, locating,
                   overlapped>>

\* A file has one location.
InsertLocation(q) ==
    LET f == form[q].file IN
    /\ \/ /\ Step(q, "relocate", "saved") /\ location[f] = None
          /\ Saved(q)
          /\ location' = [location EXCEPT ![f] = form[q].osmId]
       \/ /\ Step(q, "relocate", "failed") /\ location[f] # None
          /\ UNCHANGED <<location, saved>>
    /\ UNCHANGED <<filePath, deleted, tagContainer, fileTags, form, tagging, linked, locating,
                   overlapped>>

UpdateFileMetadata(q) ==
    \/ UpdatePath(q) \/ DeleteTags(q) \/ TagsAreKnown(q) \/ LinkTag(q)
    \/ \E i \in DOMAIN tagging[q] : QueryTagId(q, i) \/ InsertTag(q, i)
    \/ ResolveLocation(q) \/ DeleteLocation(q) \/ InsertLocation(q)

(***************************************************************************)
(* FileGeocodingService for one file, within a job.                        *)
(***************************************************************************)
\* A file that has a location keeps it.
QueryFileLocation(f) ==
    /\ locating' = IF location[f] = None THEN {f} ELSE {}
    /\ overlapped' = IF location[f] = None THEN overlapped \cup Writing(f) ELSE overlapped
    /\ UNCHANGED <<records, requests, saved>>

JobDeletesLocation(f) ==
    /\ location' = [location EXCEPT ![f] = None]
    /\ UNCHANGED <<filePath, deleted, tagContainer, fileTags, requests, locating, overlapped, saved>>

JobInsertsLocation(f) ==
    /\ location' = [location EXCEPT ![f] = Photo]
    /\ locating' = {}
    /\ UNCHANGED <<filePath, deleted, tagContainer, fileTags, requests, overlapped, saved>>

(***************************************************************************)
(* Properties.                                                             *)
(***************************************************************************)
\* A record saved while nobody else wrote it is what was saved, whatever the requests
\* for other files and the jobs do: each tag as often as it was given, and the file is
\* found by a search for any of them.  Only a location that was not given may be added.
RecordIsAsSaved ==
    \A f \in Files : \A record \in Range(saved[f]) :
        /\ filePath[f] = record.path
        /\ location[f] \in IF record.osmId = None THEN {None, Photo} ELSE {record.osmId}
        /\ \A t \in Tags :
              LET given == Cardinality({i \in DOMAIN record.tags : record.tags[i] = t}) IN
              /\ fileTags[f][t] = given
              /\ f \in deleted \/ SearchForFiles(ContainerOf[f], f, {t}) = given

\* A file has tags of its own container only.
TagsStayInContainer ==
    \A f \in Files, t \in Tags : fileTags[f][t] > 0 => tagContainer[t] = ContainerOf[f]

\* Whoever opens all directories finds a file if and only if the search finds it, once;
\* what neither finds lies in the recycle bin.
ListingAndSearchAgree ==
    \A f \in Files, c \in Containers :
        LET found == Reachable(c, f) IN
        /\ SearchForFiles(c, f, {}) = IF found THEN 1 ELSE 0
        /\ ContainerOf[f] = c => (found <=> f \notin QeuryDeletedFiles(c))

=============================================================================
