------------------------ MODULE AccessCountersProofs ------------------------
(***************************************************************************)
(* Theorems about AccessCounters: the writer misses no access, a saved     *)
(* access is kept in some file through migrations and crashes, and what is *)
(* counted twice was cut by a crash.                                       *)
(***************************************************************************)
EXTENDS AccessCounters, FiniteSetTheorems, TLAPS

(***************************************************************************)
(* The inductive invariant.                                                *)
(***************************************************************************)
\* Only the latest block is ever written, since it never becomes full in memory, and
\* blocks only grow: a file is a part of the bytes being written, these of the block.
WriterInv ==
    /\ loaded => ~ isFull(latestId)
    /\ loaded => \A b \in Blocks : blockFiles[b] \subseteq sequence[b]
    /\ dirtyIds \cup toWrite \subseteq {latestId}
    /\ writing \in {latestId, NoBlock}
    /\ writing # NoBlock =>
         blockFiles[writing] \subseteq snapshot /\ snapshot \subseteq sequence[writing]

\* What has not happened is counted nowhere.
RecordedInv ==
    \A a \in Accesses \ recorded :
        /\ monthFiles[a] = 0 /\ yearFiles[a] = 0 /\ months[a] = 0 /\ years[a] = 0
        /\ \A b \in Blocks : a \notin blockFiles[b] /\ a \notin sequence[b]

\* A migration: what is not dirty is in its file, writing takes nothing away, and what is
\* going to be removed is counted elsewhere.
MigrationInv ==
    /\ ~ loaded => pc \in {"loadLatest", "failed"}
    /\ pc = "loadLatest" => ~ loaded
    /\ pc = "loadYears" => months = monthFiles
    /\ pc = "migrating" =>
         /\ latestId \notin oldBlocks
         /\ \A a \in Accesses :
              /\ at[a] \notin dirtyMonths => monthFiles[a] = months[a]
              /\ Year(at[a]) \notin dirtyYears => yearFiles[a] = years[a]
              /\ monthFiles[a] > 0 => months[a] > 0
              /\ yearFiles[a] > 0 => years[a] > 0
              /\ at[a] \in oldMonths /\ months[a] > 0 => years[a] > 0
              /\ \A b \in oldBlocks : a \in sequence[b] => months[a] > 0 \/ years[a] > 0

AccessInv ==
    AccessTypeOK /\ WriterInv /\ RecordedInv /\ MigrationInv /\ NothingIsMissed /\ SavedIsKept

(***************************************************************************)
(* Types.                                                                  *)
(***************************************************************************)
LEMMA Numbers ==
    /\ EntriesPerBlock \in Nat \ {0} /\ MaxMonth \in Nat /\ MonthsPerYear \in Nat \ {0}
    /\ NoBlock \notin Blocks
    /\ 0 \in Times /\ Times \subseteq Nat
  BY CounterNumbers, NoBlockIsNoBlock DEF Times

LEMMA CountsTyped ==
    /\ Nothing \in Counts
    /\ \A f \in Counts : \A S : Add(f, S) \in Counts
    /\ \A f \in Counts : \A m : ClearMonth(f, m) \in Counts /\ ClearYear(f, m) \in Counts
  BY DEF Counts, Nothing, Add, ClearMonth, ClearYear

LEMMA CardinalityTyped ==
    ASSUME blockFiles \in [Blocks -> SUBSET Accesses]
    PROVE  /\ [b \in Blocks |-> Cardinality(blockFiles[b])] \in [Blocks -> Nat]
           /\ \A b \in Blocks : blockFiles[b] = {} => Cardinality(blockFiles[b]) = 0
<1>1. \A b \in Blocks : Cardinality(blockFiles[b]) \in Nat
  <2> TAKE b \in Blocks
  <2>1. IsFiniteSet(blockFiles[b])
    BY AccessesAreFinite, FS_Subset
  <2> QED
    BY <2>1, FS_CardinalityType
<1> QED
  BY <1>1, FS_EmptySet

LEMMA InitInv == Init => AccessInv
<1> SUFFICES ASSUME Init PROVE AccessInv
  OBVIOUS
<1> USE Numbers DEF Init
<1>1. AccessTypeOK
  BY CountsTyped DEF AccessTypeOK, FilesTyped, LatestTyped, CountersTyped, WorldTyped, Nothing
<1>2. WriterInv
  BY DEF WriterInv
<1>3. RecordedInv
  BY DEF RecordedInv, Nothing
<1>4. MigrationInv
  BY DEF MigrationInv
<1>5. NothingIsMissed
  BY DEF NothingIsMissed
<1>6. SavedIsKept
  BY DEF SavedIsKept
<1> QED
  BY <1>1, <1>2, <1>3, <1>4, <1>5, <1>6 DEF AccessInv

LEMMA TypeStep == ASSUME AccessTypeOK, WriterInv, Next PROVE AccessTypeOK'
<1> USE Numbers DEF AccessTypeOK, FilesTyped, LatestTyped, CountersTyped, WorldTyped, disk, latest,
                    writer, counters, world
<1>1. CASE \E a \in Accesses : AddBlobAccess(a)
  <2>1. FilesTyped' /\ CountersTyped' /\ WorldTyped'
    BY <1>1 DEF AddBlobAccess, AddEntry
  <2>2. PICK a \in Accesses, b \in Blocks :
          /\ loaded' = TRUE /\ latestId' = b /\ timer' = TRUE /\ dirtyIds' = dirtyIds \cup {b}
          /\ sequence' = [sequence EXCEPT ![b] = @ \cup {a}]
          /\ UNCHANGED <<entriesCount, writer>>
    <3>1. loaded /\ latestId \in Blocks /\ {c \in Blocks : Unused(c)} \subseteq Blocks
      BY <1>1 DEF AddBlobAccess, AddEntry
    <3> QED
      BY <1>1, <3>1 DEF AddBlobAccess, AddEntry
  <2>3. sequence' \in [Blocks -> SUBSET Accesses]
    BY <2>2
  <2>4. dirtyIds' \subseteq Blocks /\ timer' = (dirtyIds' # {}) /\ timer' \in BOOLEAN
    BY <2>2
  <2> QED
    BY <2>1, <2>2, <2>3, <2>4
<1>2. CASE Persist
  BY <1>2 DEF Persist
<1>3. CASE WriteBlock
  <2>1. FilesTyped' /\ CountersTyped' /\ WorldTyped'
    BY <1>3 DEF WriteBlock
  <2>2. UNCHANGED <<latest, loaded>>
    BY <1>3 DEF WriteBlock
  <2>3. toWrite' \subseteq Blocks /\ writing' \in Blocks \cup {NoBlock} /\ snapshot' \subseteq Accesses
    BY <1>3 DEF WriteBlock
  <2> QED
    BY <2>1, <2>2, <2>3
<1>4. ASSUME NEW d, NEW l, LoadFails(d, l), l \in {"loadLatest", "loadMonths", "loadYears"}
      PROVE  AccessTypeOK'
  BY <1>4 DEF LoadFails
<1>5. CASE LoadLatest
  <2>1. latestId' \in Blocks /\ loaded' = TRUE
    BY <1>5 DEF LoadLatest, FromJSON
  <2>2. /\ sequence' = blockFiles /\ entriesCount' = [b \in Blocks |-> Cardinality(blockFiles[b])]
        /\ pc' = "loadMonths" /\ UNCHANGED <<disk, dirtyIds, timer, writer, counters, world>>
    BY <1>5 DEF LoadLatest, FromJSON
  <2>3. LatestTyped'
    BY <2>1, <2>2, CardinalityTyped
  <2> QED
    BY <2>1, <2>2, <2>3
<1>6. CASE LoadMonths
  BY <1>6 DEF LoadMonths
<1>7. CASE LoadYearsAndMigrate
  <2> DEFINE moved   == UNION {sequence[b] : b \in PreparedBlocks}
             past    == {a \in moved : Year(at[a]) # Year(now)}
             monthly == Add(months, moved \ past)
             ended   == {m \in Times : /\ Year(m) < Year(now)
                                       /\ \E a \in Accesses : at[a] = m /\ monthly[a] > 0}
  <2>1. PreparedBlocks \subseteq Blocks /\ moved \subseteq Accesses /\ ended \subseteq Times
    BY DEF PreparedBlocks
  <2>2. monthly \in Counts /\ Add(yearFiles, past) \in Counts
    BY CountsTyped
  <2>3. /\ months' = monthly /\ oldMonths' = ended /\ oldBlocks' = PreparedBlocks
        /\ years' = [a \in Accesses |->
                       Add(yearFiles, past)[a] + (IF at[a] \in ended THEN monthly[a] ELSE 0)]
        /\ dirtyMonths' = {at[a] : a \in moved \ past}
        /\ dirtyYears' = {Year(at[a]) : a \in past} \cup {Year(m) : m \in ended}
        /\ pc' = "migrating" /\ UNCHANGED <<disk, latest, writer, loaded, world>>
    BY <1>7 DEF LoadYearsAndMigrate, Entries, EntriesOf, EndedMonths
  <2> HIDE DEF monthly
  <2>4. years' \in Counts
    BY <2>2, <2>3 DEF Counts
  <2>5. dirtyMonths' \subseteq Times /\ dirtyYears' \subseteq {Year(m) : m \in Times}
    BY <2>1, <2>3
  <2>6. FilesTyped' /\ LatestTyped' /\ WorldTyped'
    BY <2>3
  <2>7. CountersTyped'
    BY <2>1, <2>2, <2>3, <2>4, <2>5
  <2> QED
    BY <2>6, <2>7
<1>8. CASE \E m \in Times : PersistMonth(m) \/ RemoveMonth(m)
  <2>1. CASE \E m \in Times : PersistMonth(m)
    <3>1. monthFiles' \in Counts
      BY <2>1 DEF PersistMonth, Counts
    <3> QED
      BY <2>1, <3>1 DEF PersistMonth
  <2>2. CASE \E m \in Times : RemoveMonth(m)
    <3>1. monthFiles' \in Counts /\ months' \in Counts
      BY <2>2, CountsTyped DEF RemoveMonth
    <3> QED
      BY <2>2, <3>1 DEF RemoveMonth
  <2> QED
    BY <1>8, <2>1, <2>2
<1>9. CASE \E m \in Times : PersistYear(Year(m))
  <2>1. yearFiles' \in Counts
    BY <1>9 DEF PersistYear, Counts
  <2> QED
    BY <1>9, <2>1 DEF PersistYear
<1>10. CASE \E b \in Blocks : RemoveBlock(b)
  BY <1>10 DEF RemoveBlock
<1>11. CASE EndMigration
  BY <1>11 DEF EndMigration
<1>12. CASE MonthPasses
  BY <1>12 DEF MonthPasses, Times
<1>13. CASE Crash
  <2>1. Intact \/ TornBlock \/ \E m \in Times : TornMonth(m) \/ TornYear(Year(m))
    BY <1>13 DEF Crash
  <2>2. FilesTyped' /\ spoiled' \subseteq Accesses
    <3>1. CASE Intact
      BY <3>1 DEF Intact
    <3>2. CASE TornBlock
      BY <3>2 DEF TornBlock, Dirs
    <3>3. CASE \E m \in Times : TornMonth(m)
      BY <3>3, CountsTyped DEF TornMonth, Dirs
    <3>4. CASE \E m \in Times : TornYear(Year(m))
      BY <3>4, CountsTyped DEF TornYear, Dirs
    <3> QED
      BY <2>1, <3>1, <3>2, <3>3, <3>4
  <2>3. LatestTyped'
    BY <1>13 DEF Crash
  <2>4. CountersTyped'
    BY <1>13, CountsTyped DEF Crash
  <2>5. WorldTyped'
    BY <1>13, <2>2 DEF Crash
  <2> QED
    BY <2>2, <2>3, <2>4, <2>5
<1> QED
  BY <1>1, <1>2, <1>3, <1>4, <1>5, <1>6, <1>7, <1>8, <1>9, <1>10, <1>11, <1>12, <1>13
     DEF Next, LoadCache, Migrate

(***************************************************************************)
(* The writer.                                                             *)
(***************************************************************************)
LEMMA WriterStep == ASSUME AccessInv, Next, AccessTypeOK' PROVE WriterInv'
<1> USE Numbers DEF WriterInv, disk, latest, writer, counters, world
<1>0. AccessTypeOK /\ WriterInv /\ MigrationInv
  BY DEF AccessInv
<1>t. /\ FilesTyped /\ LatestTyped /\ FilesTyped' /\ LatestTyped'
  BY <1>0 DEF AccessTypeOK
<1>u. UNCHANGED <<blockFiles, latest, writer, loaded>> => WriterInv'
  BY <1>0 DEF isFull
<1>1. CASE \E a \in Accesses : AddBlobAccess(a)
  <2>1. PICK a \in Accesses : AddBlobAccess(a)
    BY <1>1
  <2>2. /\ loaded /\ latestId \in Blocks /\ loaded' = loaded /\ latestId' = latestId
        /\ sequence' = [sequence EXCEPT ![latestId] = @ \cup {a}]
        /\ dirtyIds' = dirtyIds \cup {latestId}
        /\ UNCHANGED <<disk, entriesCount, writer>>
    BY <2>1, <1>0, <1>t DEF AddBlobAccess, AddEntry, LatestTyped
  <2>3. \A b \in Blocks : sequence[b] \subseteq sequence'[b]
    BY <2>2, <1>t DEF LatestTyped
  <2> QED
    BY <2>2, <2>3, <1>0, <1>t DEF isFull, LatestTyped
<1>2. CASE Persist
  <2>1. dirtyIds = {latestId} /\ latestId \in Blocks
    BY <1>2, <1>0, <1>t DEF Persist, LatestTyped
  <2>2. loaded
    BY <2>1, <1>t DEF LatestTyped
  <2> QED
    BY <1>2, <2>1, <2>2, <1>0 DEF Persist, isFull
<1>3. CASE WriteBlock
  <2>1. writing = latestId /\ latestId \in Blocks /\ loaded /\ toWrite \subseteq {latestId}
    BY <1>3, <1>0, <1>t DEF WriteBlock, LatestTyped
  <2>2. snapshot \subseteq sequence[latestId] /\ blockFiles'[latestId] = snapshot
    BY <1>3, <2>1, <1>0, <1>t DEF WriteBlock, FilesTyped
  <2>3. \A b \in Blocks : blockFiles'[b] \subseteq sequence[b]
    BY <1>3, <2>1, <2>2, <1>0, <1>t DEF WriteBlock, FilesTyped
  <2>4. UNCHANGED <<latest, loaded>>
    BY <1>3 DEF WriteBlock
  <2>5. \/ writing' = NoBlock /\ toWrite' = {}
        \/ writing' = latestId /\ snapshot' = sequence[latestId] /\ toWrite' = {}
    BY <1>3, <2>1 DEF WriteBlock
  <2> QED
    BY <2>1, <2>2, <2>3, <2>4, <2>5, <1>0 DEF isFull
<1>4. ASSUME NEW d, NEW l, LoadFails(d, l)
      PROVE  WriterInv'
  BY <1>4, <1>u DEF LoadFails
<1>5. CASE LoadLatest
  <2>1. ~ loaded /\ latestId = NoBlock
    BY <1>5, <1>0, <1>t DEF LoadLatest, FromJSON, MigrationInv, LatestTyped
  <2>2. dirtyIds = {} /\ toWrite = {} /\ writing = NoBlock
    BY <2>1, <1>0, <1>t DEF LatestTyped
  <2>3. entriesCount' = [b \in Blocks |-> Cardinality(blockFiles[b])] /\ sequence' = blockFiles
    BY <1>5 DEF LoadLatest, FromJSON
  <2>4. /\ latestId' \in Blocks
        /\ Cardinality(blockFiles[latestId']) < EntriesPerBlock \/ blockFiles[latestId'] = {}
    BY <1>5 DEF LoadLatest, FromJSON, Unused
  <2>5. entriesCount'[latestId'] < EntriesPerBlock /\ entriesCount'[latestId'] \in Nat
    BY <2>3, <2>4, CardinalityTyped, <1>t DEF FilesTyped
  <2>6. ~ (entriesCount'[latestId'] >= EntriesPerBlock)
    BY <2>5
  <2>7. UNCHANGED <<disk, dirtyIds, timer, writer>>
    BY <1>5 DEF LoadLatest, FromJSON
  <2> QED
    BY <2>2, <2>3, <2>4, <2>6, <2>7 DEF isFull
<1>6. CASE LoadMonths
  BY <1>6, <1>u DEF LoadMonths
<1>7. CASE LoadYearsAndMigrate
  BY <1>7, <1>u DEF LoadYearsAndMigrate, Entries, EntriesOf, EndedMonths
<1>8. CASE \E m \in Times : PersistMonth(m) \/ RemoveMonth(m)
  BY <1>8, <1>u DEF PersistMonth, RemoveMonth
<1>9. CASE \E m \in Times : PersistYear(Year(m))
  BY <1>9, <1>u DEF PersistYear
<1>10. CASE \E b \in Blocks : RemoveBlock(b)
  <2>1. PICK b \in Blocks : RemoveBlock(b)
    BY <1>10
  <2>2. b # latestId /\ loaded
    BY <2>1, <1>0 DEF RemoveBlock, MigrationInv
  <2>3. /\ blockFiles' = [blockFiles EXCEPT ![b] = {}]
        /\ sequence' = [sequence EXCEPT ![b] = {}]
        /\ entriesCount' = [entriesCount EXCEPT ![b] = 0]
        /\ UNCHANGED <<latestId, dirtyIds, writer, loaded>>
    BY <2>1 DEF RemoveBlock
  <2>4. /\ blockFiles'[latestId] = blockFiles[latestId] /\ sequence'[latestId] = sequence[latestId]
        /\ entriesCount'[latestId] = entriesCount[latestId]
    BY <2>2, <2>3, <1>t DEF FilesTyped, LatestTyped
  <2>5. \A c \in Blocks : blockFiles'[c] \subseteq sequence'[c]
    BY <2>2, <2>3, <1>0, <1>t DEF FilesTyped, LatestTyped
  <2> QED
    BY <2>2, <2>3, <2>4, <2>5, <1>0 DEF isFull
<1>11. CASE EndMigration
  BY <1>11, <1>u DEF EndMigration
<1>12. CASE MonthPasses
  BY <1>12, <1>u DEF MonthPasses
<1>13. CASE Crash
  BY <1>13 DEF Crash
<1> QED
  BY <1>1, <1>2, <1>3, <1>4, <1>5, <1>6, <1>7, <1>8, <1>9, <1>10, <1>11, <1>12, <1>13
     DEF Next, LoadCache, Migrate

LEMMA MissedStep == ASSUME AccessInv, Next, AccessTypeOK' PROVE NothingIsMissed'
<1> USE Numbers DEF NothingIsMissed, disk, latest, writer, counters, world
<1>0. /\ WriterInv /\ NothingIsMissed
      /\ FilesTyped /\ LatestTyped /\ FilesTyped' /\ LatestTyped'
  BY DEF AccessInv, AccessTypeOK
<1>u. UNCHANGED <<blockFiles, latest, writer>> => NothingIsMissed'
  BY <1>0
<1>1. CASE \E a \in Accesses : AddBlobAccess(a)
  <2>1. PICK a \in Accesses : AddBlobAccess(a)
    BY <1>1
  <2>2. /\ sequence' = [sequence EXCEPT ![latestId] = @ \cup {a}]
        /\ dirtyIds' = dirtyIds \cup {latestId}
        /\ UNCHANGED <<disk, writer>>
    BY <2>1, <1>0 DEF AddBlobAccess, AddEntry, WriterInv
  <2>3. \A b \in Blocks : b # latestId => sequence'[b] = sequence[b]
    BY <2>2, <1>0 DEF LatestTyped
  <2> QED
    BY <2>2, <2>3, <1>0
<1>2. CASE Persist
  <2>1. dirtyIds = {latestId} /\ toWrite \subseteq {latestId} /\ writing = NoBlock
    BY <1>2, <1>0 DEF Persist, LatestTyped, WriterInv
  <2>2. writing' = latestId /\ snapshot' = sequence[latestId] /\ UNCHANGED <<disk, sequence>>
    BY <1>2, <2>1 DEF Persist
  <2> QED
    BY <2>1, <2>2, <1>0
<1>3. CASE WriteBlock
  <2>1. /\ writing \in Blocks /\ blockFiles[writing] \subseteq snapshot
        /\ toWrite \subseteq {latestId}
    BY <1>3, <1>0 DEF WriteBlock, LatestTyped, WriterInv
  <2>2. /\ \A b \in Blocks : blockFiles'[b] = IF b = writing THEN snapshot ELSE blockFiles[b]
        /\ UNCHANGED latest
    BY <1>3, <1>0 DEF WriteBlock, FilesTyped
  <2>3. toWrite # {} => writing' = latestId /\ snapshot' = sequence[latestId]
    BY <1>3, <2>1 DEF WriteBlock
  <2> QED
    BY <2>1, <2>2, <2>3, <1>0
<1>4. ASSUME NEW d, NEW l, LoadFails(d, l)
      PROVE  NothingIsMissed'
  BY <1>4, <1>u DEF LoadFails
<1>5. CASE LoadLatest
  BY <1>5 DEF LoadLatest, FromJSON
<1>6. CASE LoadMonths
  BY <1>6, <1>u DEF LoadMonths
<1>7. CASE LoadYearsAndMigrate
  BY <1>7, <1>u DEF LoadYearsAndMigrate, Entries, EntriesOf, EndedMonths
<1>8. CASE \E m \in Times : PersistMonth(m) \/ RemoveMonth(m)
  BY <1>8, <1>u DEF PersistMonth, RemoveMonth
<1>9. CASE \E m \in Times : PersistYear(Year(m))
  BY <1>9, <1>u DEF PersistYear
<1>10. CASE \E b \in Blocks : RemoveBlock(b)
  <2>1. PICK b \in Blocks : RemoveBlock(b)
    BY <1>10
  <2>2. \A c \in Blocks : /\ sequence'[c] = IF c = b THEN {} ELSE sequence[c]
                          /\ blockFiles'[c] = IF c = b THEN {} ELSE blockFiles[c]
    BY <2>1, <1>0 DEF RemoveBlock, FilesTyped, LatestTyped
  <2>3. UNCHANGED <<dirtyIds, writer>>
    BY <2>1 DEF RemoveBlock
  <2> QED
    BY <2>2, <2>3, <1>0
<1>11. CASE EndMigration
  BY <1>11, <1>u DEF EndMigration
<1>12. CASE MonthPasses
  BY <1>12, <1>u DEF MonthPasses
<1>13. CASE Crash
  BY <1>13 DEF Crash
<1> QED
  BY <1>1, <1>2, <1>3, <1>4, <1>5, <1>6, <1>7, <1>8, <1>9, <1>10, <1>11, <1>12, <1>13
     DEF Next, LoadCache, Migrate

(***************************************************************************)
(* What has been recorded.                                                 *)
(***************************************************************************)
LEMMA RecordedStep == ASSUME AccessInv, Next, AccessTypeOK' PROVE RecordedInv'
<1> USE Numbers DEF RecordedInv, disk, latest, writer, counters, world
<1>0. /\ WriterInv /\ RecordedInv
      /\ FilesTyped /\ LatestTyped /\ CountersTyped /\ FilesTyped' /\ LatestTyped'
  BY DEF AccessInv, AccessTypeOK
<1>u. UNCHANGED <<disk, sequence, months, years, recorded>> => RecordedInv'
  BY <1>0
<1>1. CASE \E a \in Accesses : AddBlobAccess(a)
  <2>1. PICK a \in Accesses : AddBlobAccess(a)
    BY <1>1
  <2>2. /\ sequence' = [sequence EXCEPT ![latestId] = @ \cup {a}]
        /\ recorded' = recorded \cup {a} /\ UNCHANGED <<disk, months, years>>
    BY <2>1, <1>0 DEF AddBlobAccess, AddEntry, WriterInv
  <2>3. \A b \in Blocks : sequence'[b] \subseteq sequence[b] \cup {a}
    BY <2>2, <1>0 DEF LatestTyped
  <2> QED
    BY <2>2, <2>3, <1>0
<1>2. CASE Persist
  BY <1>2, <1>u DEF Persist
<1>3. CASE WriteBlock
  <2>1. writing \in Blocks /\ snapshot \subseteq sequence[writing]
    BY <1>3, <1>0 DEF WriteBlock, LatestTyped, WriterInv
  <2>2. /\ \A b \in Blocks : blockFiles'[b] \subseteq blockFiles[b] \cup sequence[b]
        /\ UNCHANGED <<monthFiles, yearFiles, sequence, months, years, recorded>>
    BY <1>3, <2>1, <1>0 DEF WriteBlock, FilesTyped
  <2> QED
    BY <2>2, <1>0
<1>4. ASSUME NEW d, NEW l, LoadFails(d, l)
      PROVE  RecordedInv'
  BY <1>4, <1>u DEF LoadFails
<1>5. CASE LoadLatest
  BY <1>5, <1>0 DEF LoadLatest, FromJSON
<1>6. CASE LoadMonths
  BY <1>6, <1>0 DEF LoadMonths
<1>7. CASE LoadYearsAndMigrate
  <2> DEFINE moved   == UNION {sequence[b] : b \in PreparedBlocks}
             past    == {a \in moved : Year(at[a]) # Year(now)}
             monthly == Add(months, moved \ past)
             ended   == {m \in Times : /\ Year(m) < Year(now)
                                       /\ \E a \in Accesses : at[a] = m /\ monthly[a] > 0}
  <2>1. /\ months' = monthly
        /\ years' = [a \in Accesses |->
                       Add(yearFiles, past)[a] + (IF at[a] \in ended THEN monthly[a] ELSE 0)]
        /\ UNCHANGED <<disk, sequence, recorded>>
    BY <1>7 DEF LoadYearsAndMigrate, Entries, EntriesOf, EndedMonths
  <2>2. \A a \in Accesses \ recorded : a \notin moved /\ a \notin past
    BY <1>0 DEF PreparedBlocks
  <2>3. \A a \in Accesses \ recorded : monthly[a] = 0 /\ Add(yearFiles, past)[a] = 0
    <3>1. \A a \in Accesses : \A S : /\ a \notin S => Add(months, S)[a] = months[a] + 0
                                     /\ a \notin S => Add(yearFiles, S)[a] = yearFiles[a] + 0
      BY DEF Add
    <3>2. \A a \in Accesses \ recorded : months[a] + 0 = 0 /\ yearFiles[a] + 0 = 0
      BY <1>0
    <3> QED
      BY <2>2, <3>1, <3>2
  <2> HIDE DEF ended
  <2> HIDE DEF monthly
  <2>4. \A a \in Accesses \ recorded : years'[a] = 0
    BY <2>1, <2>3
  <2> QED
    BY <2>1, <2>3, <2>4, <1>0
<1>8. CASE \E m \in Times : PersistMonth(m) \/ RemoveMonth(m)
  <2>1. /\ \A a \in Accesses \ recorded : monthFiles'[a] = 0 /\ months'[a] = 0
        /\ UNCHANGED <<blockFiles, yearFiles, sequence, years, recorded>>
    <3>1. CASE \E m \in Times : PersistMonth(m)
      BY <3>1, <1>0 DEF PersistMonth
    <3>2. CASE \E m \in Times : RemoveMonth(m)
      BY <3>2, <1>0 DEF RemoveMonth, ClearMonth
    <3> QED
      BY <1>8, <3>1, <3>2
  <2> QED
    BY <2>1, <1>0
<1>9. CASE \E m \in Times : PersistYear(Year(m))
  <2>1. /\ \A a \in Accesses \ recorded : yearFiles'[a] = 0
        /\ UNCHANGED <<blockFiles, monthFiles, sequence, months, years, recorded>>
    BY <1>9, <1>0 DEF PersistYear
  <2> QED
    BY <2>1, <1>0
<1>10. CASE \E b \in Blocks : RemoveBlock(b)
  <2>1. /\ \A c \in Blocks : sequence'[c] \subseteq sequence[c] /\ blockFiles'[c] \subseteq blockFiles[c]
        /\ UNCHANGED <<monthFiles, yearFiles, months, years, recorded>>
    BY <1>10, <1>0 DEF RemoveBlock, FilesTyped, LatestTyped
  <2> QED
    BY <2>1, <1>0
<1>11. CASE EndMigration
  BY <1>11, <1>u DEF EndMigration
<1>12. CASE MonthPasses
  BY <1>12, <1>u DEF MonthPasses
<1>13. CASE Crash
  <2>1. /\ months' = Nothing /\ years' = Nothing /\ sequence' = [b \in Blocks |-> {}]
        /\ recorded' = recorded
    BY <1>13 DEF Crash
  <2>2. Intact \/ TornBlock \/ \E m \in Times : TornMonth(m) \/ TornYear(Year(m))
    BY <1>13 DEF Crash
  <2>3. /\ \A b \in Blocks : blockFiles'[b] \subseteq blockFiles[b]
        /\ \A a \in Accesses : monthFiles'[a] \in {0, monthFiles[a]} /\ yearFiles'[a] \in {0, yearFiles[a]}
    <3>1. CASE Intact
      BY <3>1 DEF Intact
    <3>2. CASE TornBlock
      BY <3>2, <1>0 DEF TornBlock, FilesTyped
    <3>3. CASE \E m \in Times : TornMonth(m)
      BY <3>3 DEF TornMonth, ClearMonth
    <3>4. CASE \E m \in Times : TornYear(Year(m))
      BY <3>4 DEF TornYear, ClearYear
    <3> QED
      BY <2>2, <3>1, <3>2, <3>3, <3>4
  <2> QED
    BY <2>1, <2>3, <1>0 DEF Nothing
<1> QED
  BY <1>1, <1>2, <1>3, <1>4, <1>5, <1>6, <1>7, <1>8, <1>9, <1>10, <1>11, <1>12, <1>13
     DEF Next, LoadCache, Migrate

(***************************************************************************)
(* The migration.                                                          *)
(***************************************************************************)
LEMMA MigrationStep == ASSUME AccessInv, Next, AccessTypeOK' PROVE MigrationInv'
<1> USE Numbers DEF disk, latest, writer, counters, world
<1>0. /\ WriterInv /\ RecordedInv /\ MigrationInv
      /\ FilesTyped /\ LatestTyped /\ CountersTyped /\ WorldTyped
  BY DEF AccessInv, AccessTypeOK
<1>m. /\ \A a \in Accesses : /\ months[a] \in Nat /\ years[a] \in Nat
                             /\ monthFiles[a] \in Nat /\ yearFiles[a] \in Nat
  BY <1>0 DEF FilesTyped, CountersTyped, Counts
<1>u. UNCHANGED <<monthFiles, yearFiles, sequence, latestId, counters, pc, loaded, at>> => MigrationInv'
  BY <1>0 DEF MigrationInv
<1>1. CASE \E a \in Accesses : AddBlobAccess(a)
  <2>1. PICK x \in Accesses : AddBlobAccess(x)
    BY <1>1
  <2>2. /\ sequence' = [sequence EXCEPT ![latestId] = @ \cup {x}]
        /\ at' = [at EXCEPT ![x] = now] /\ latestId' = latestId
        /\ UNCHANGED <<disk, counters, pc, loaded>>
    BY <2>1, <1>0 DEF AddBlobAccess, AddEntry, WriterInv
  <2>3. /\ monthFiles[x] = 0 /\ yearFiles[x] = 0 /\ months[x] = 0 /\ years[x] = 0
    BY <2>1, <1>0 DEF AddBlobAccess, AddEntry, RecordedInv
  <2>4. \A a \in Accesses : a # x => at'[a] = at[a]
    BY <2>2, <1>0 DEF WorldTyped
  <2>5. \A b \in Blocks : b # latestId => sequence'[b] = sequence[b]
    BY <2>2, <1>0 DEF LatestTyped
  <2>6. oldBlocks \subseteq Blocks
    BY <1>0 DEF CountersTyped
  <2>7. CASE pc = "migrating"
    <3>1. ASSUME NEW a \in Accesses
          PROVE  /\ at'[a] \notin dirtyMonths => monthFiles[a] = months[a]
                 /\ Year(at'[a]) \notin dirtyYears => yearFiles[a] = years[a]
                 /\ at'[a] \in oldMonths /\ months[a] > 0 => years[a] > 0
      BY <2>3, <2>4, <2>7, <1>0 DEF MigrationInv
    <3>2. \A b \in oldBlocks : sequence'[b] = sequence[b]
      BY <2>5, <2>6, <2>7, <1>0 DEF MigrationInv
    <3> QED
      BY <2>2, <2>7, <3>1, <3>2, <1>0 DEF MigrationInv
  <2> QED
    BY <2>2, <2>7, <1>0 DEF MigrationInv
<1>2. CASE Persist
  BY <1>2, <1>u DEF Persist
<1>3. CASE WriteBlock
  BY <1>3, <1>u DEF WriteBlock
<1>4. ASSUME NEW d, NEW l, LoadFails(d, l)
      PROVE  MigrationInv'
  BY <1>4, <1>0 DEF LoadFails, MigrationInv
<1>5. CASE LoadLatest
  BY <1>5 DEF LoadLatest, FromJSON, MigrationInv
<1>6. CASE LoadMonths
  BY <1>6, <1>0 DEF LoadMonths, MigrationInv
<1>7. CASE LoadYearsAndMigrate
  <2> DEFINE moved   == UNION {sequence[b] : b \in PreparedBlocks}
             past    == {a \in moved : Year(at[a]) # Year(now)}
             monthly == Add(months, moved \ past)
             yearly  == Add(yearFiles, past)
             ended   == {m \in Times : /\ Year(m) < Year(now)
                                       /\ \E a \in Accesses : at[a] = m /\ monthly[a] > 0}
  <2>1. /\ months' = monthly /\ oldMonths' = ended /\ oldBlocks' = PreparedBlocks
        /\ years' = [a \in Accesses |-> yearly[a] + (IF at[a] \in ended THEN monthly[a] ELSE 0)]
        /\ dirtyMonths' = {at[a] : a \in moved \ past}
        /\ dirtyYears' = {Year(at[a]) : a \in past} \cup {Year(m) : m \in ended}
        /\ pc' = "migrating" /\ loaded /\ loaded' = loaded /\ months = monthFiles
        /\ UNCHANGED <<disk, latest, at>>
    BY <1>7, <1>0 DEF LoadYearsAndMigrate, Entries, EntriesOf, EndedMonths, MigrationInv
  <2>2. latestId \notin PreparedBlocks
    BY DEF PreparedBlocks
  <2>3. ASSUME NEW a \in Accesses
        PROVE  /\ monthly[a] \in Nat /\ yearly[a] \in Nat
               /\ monthly[a] >= monthFiles[a] /\ yearly[a] >= yearFiles[a]
               /\ a \notin moved \ past => monthly[a] = monthFiles[a]
               /\ a \notin past => yearly[a] = yearFiles[a]
               /\ a \in moved => monthly[a] > 0 \/ yearly[a] > 0
    <3>1. /\ monthly[a] = monthFiles[a] + (IF a \in moved \ past THEN 1 ELSE 0)
          /\ yearly[a] = yearFiles[a] + (IF a \in past THEN 1 ELSE 0)
      BY <2>1 DEF Add
    <3> HIDE DEF monthly, yearly, moved, past
    <3>2. CASE a \in moved \ past
      BY <3>1, <3>2, <1>m
    <3>3. CASE a \notin moved \ past
      BY <3>1, <3>3, <1>m
    <3> QED
      BY <3>2, <3>3
  <2>4. ASSUME NEW a \in Accesses
        PROVE  /\ at[a] \notin dirtyMonths' => a \notin moved \ past
               /\ Year(at[a]) \notin dirtyYears' => a \notin past /\ at[a] \notin ended
    BY <2>1
  <2>5. \A b \in PreparedBlocks : \A a \in sequence[b] : a \in moved
    OBVIOUS
  <2> HIDE DEF monthly, yearly, moved, past, ended
  <2>6. ASSUME NEW a \in Accesses
        PROVE  /\ years'[a] \in Nat /\ years'[a] >= yearly[a]
               /\ at[a] \notin ended => years'[a] = yearly[a]
               /\ at[a] \in ended => years'[a] >= monthly[a]
    <3>1. years'[a] = yearly[a] + (IF at[a] \in ended THEN monthly[a] ELSE 0)
      BY <2>1
    <3> QED
      BY <3>1, <2>3
  <2>7. ASSUME NEW a \in Accesses
        PROVE  /\ at[a] \notin dirtyMonths' => monthFiles[a] = months'[a]
               /\ Year(at[a]) \notin dirtyYears' => yearFiles[a] = years'[a]
    BY <2>1, <2>3, <2>4, <2>6
  <2>8. ASSUME NEW a \in Accesses
        PROVE  /\ monthFiles[a] > 0 => months'[a] > 0
               /\ yearFiles[a] > 0 => years'[a] > 0
               /\ at[a] \in oldMonths' /\ months'[a] > 0 => years'[a] > 0
    BY <2>1, <2>3, <2>6, <1>m
  <2>9. ASSUME NEW a \in Accesses, NEW b \in PreparedBlocks, a \in sequence[b]
        PROVE  months'[a] > 0 \/ years'[a] > 0
    BY <2>1, <2>3, <2>5, <2>6, <2>9
  <2> QED
    BY <2>1, <2>2, <2>7, <2>8, <2>9 DEF MigrationInv
<1>8. CASE \E m \in Times : PersistMonth(m) \/ RemoveMonth(m)
  <2>1. ASSUME NEW m \in Times, PersistMonth(m) PROVE MigrationInv'
    <3>1. /\ \A a \in Accesses : monthFiles'[a] = IF at[a] = m THEN months[a] ELSE monthFiles[a]
          /\ dirtyMonths' = dirtyMonths \ {m} /\ pc = "migrating"
          /\ UNCHANGED <<yearFiles, latest, months, years, dirtyYears, oldMonths, oldBlocks,
                         pc, loaded, at>>
      BY <2>1 DEF PersistMonth
    <3> QED
      BY <3>1, <1>0 DEF MigrationInv
  <2>2. ASSUME NEW m \in Times, RemoveMonth(m) PROVE MigrationInv'
    <3>1. /\ \A a \in Accesses : /\ monthFiles'[a] = IF at[a] = m THEN 0 ELSE monthFiles[a]
                                 /\ months'[a] = IF at[a] = m THEN 0 ELSE months[a]
          /\ dirtyMonths = {} /\ m \in oldMonths /\ oldMonths' = oldMonths \ {m} /\ pc = "migrating"
          /\ UNCHANGED <<yearFiles, latest, years, dirtyMonths, dirtyYears, oldBlocks, pc, loaded, at>>
      BY <2>2 DEF RemoveMonth, ClearMonth
    <3> QED
      BY <3>1, <1>0 DEF MigrationInv
  <2> QED
    BY <1>8, <2>1, <2>2
<1>9. CASE \E m \in Times : PersistYear(Year(m))
  <2>1. PICK m \in Times : PersistYear(Year(m))
    BY <1>9
  <2>2. /\ \A a \in Accesses : yearFiles'[a] = IF Year(at[a]) = Year(m) THEN years[a] ELSE yearFiles[a]
        /\ dirtyYears' = dirtyYears \ {Year(m)} /\ pc = "migrating"
        /\ UNCHANGED <<monthFiles, latest, months, years, dirtyMonths, oldMonths, oldBlocks,
                       pc, loaded, at>>
    BY <2>1 DEF PersistYear
  <2> QED
    BY <2>2, <1>0 DEF MigrationInv
<1>10. CASE \E b \in Blocks : RemoveBlock(b)
  <2>1. /\ \A c \in Blocks : sequence'[c] \subseteq sequence[c]
        /\ oldBlocks' \subseteq oldBlocks /\ oldBlocks \subseteq Blocks
        /\ UNCHANGED <<monthFiles, yearFiles, latestId, months, years, dirtyMonths, dirtyYears,
                       oldMonths, pc, loaded, at>>
    BY <1>10, <1>0 DEF RemoveBlock, LatestTyped, CountersTyped
  <2> QED
    BY <2>1, <1>0 DEF MigrationInv
<1>11. CASE EndMigration
  BY <1>11, <1>0 DEF EndMigration, MigrationInv
<1>12. CASE MonthPasses
  BY <1>12, <1>u DEF MonthPasses
<1>13. CASE Crash
  BY <1>13 DEF Crash, MigrationInv
<1> QED
  BY <1>1, <1>2, <1>3, <1>4, <1>5, <1>6, <1>7, <1>8, <1>9, <1>10, <1>11, <1>12, <1>13
     DEF Next, LoadCache, Migrate

(***************************************************************************)
(* What has been saved.                                                    *)
(***************************************************************************)
LEMMA SavedStep == ASSUME AccessInv, Next PROVE SavedIsKept'
<1> USE Numbers DEF SavedIsKept, OnDisk, disk, latest, writer, counters, world
<1>0. /\ WriterInv /\ MigrationInv /\ SavedIsKept
      /\ FilesTyped /\ LatestTyped /\ CountersTyped /\ WorldTyped
  BY DEF AccessInv, AccessTypeOK
<1>m. \A a \in Accesses : months[a] \in Nat /\ monthFiles[a] \in Nat
  BY <1>0 DEF FilesTyped, CountersTyped, Counts
<1>s. saved \subseteq Accesses
  BY <1>0 DEF WorldTyped
<1>u. UNCHANGED <<blockFiles, monthFiles, yearFiles, saved, spoiled>> => SavedIsKept'
  BY <1>0
<1>1. CASE \E a \in Accesses : AddBlobAccess(a)
  BY <1>1, <1>u DEF AddBlobAccess, AddEntry
<1>2. CASE Persist
  BY <1>2, <1>u DEF Persist
<1>3. CASE WriteBlock
  <2>1. writing \in Blocks /\ blockFiles[writing] \subseteq snapshot
    BY <1>3, <1>0 DEF WriteBlock, LatestTyped, WriterInv
  <2>2. /\ \A b \in Blocks : blockFiles'[b] = IF b = writing THEN snapshot ELSE blockFiles[b]
        /\ saved' = saved \cup snapshot /\ UNCHANGED <<monthFiles, yearFiles, spoiled>>
    BY <1>3, <1>0 DEF WriteBlock, FilesTyped
  <2> QED
    BY <2>1, <2>2, <1>0
<1>4. ASSUME NEW d, NEW l, LoadFails(d, l)
      PROVE  SavedIsKept'
  BY <1>4, <1>u DEF LoadFails
<1>5. CASE LoadLatest
  BY <1>5, <1>u DEF LoadLatest, FromJSON
<1>6. CASE LoadMonths
  BY <1>6, <1>u DEF LoadMonths
<1>7. CASE LoadYearsAndMigrate
  BY <1>7, <1>u DEF LoadYearsAndMigrate, Entries, EntriesOf, EndedMonths
<1>8. CASE \E m \in Times : PersistMonth(m) \/ RemoveMonth(m)
  <2>1. ASSUME NEW m \in Times, PersistMonth(m) PROVE SavedIsKept'
    <3>1. \A a \in Accesses : monthFiles[a] > 0 => monthFiles'[a] > 0
      BY <2>1, <1>0 DEF PersistMonth, MigrationInv
    <3>2. UNCHANGED <<blockFiles, yearFiles, saved, spoiled>>
      BY <2>1 DEF PersistMonth
    <3> QED
      BY <3>1, <3>2, <1>0, <1>s
  <2>2. ASSUME NEW m \in Times, RemoveMonth(m) PROVE SavedIsKept'
    <3>1. \A a \in Accesses : monthFiles[a] > 0 => monthFiles'[a] > 0 \/ yearFiles[a] > 0
      <4>1. \A a \in Accesses : monthFiles[a] > 0 /\ at[a] = m => years[a] > 0 /\ yearFiles[a] = years[a]
        BY <2>2, <1>0 DEF RemoveMonth, MigrationInv
      <4>2. \A a \in Accesses : at[a] # m => monthFiles'[a] = monthFiles[a]
        BY <2>2 DEF RemoveMonth, ClearMonth
      <4> QED
        BY <4>1, <4>2
    <3>2. UNCHANGED <<blockFiles, yearFiles, saved, spoiled>>
      BY <2>2 DEF RemoveMonth
    <3> QED
      BY <3>1, <3>2, <1>0, <1>s
  <2> QED
    BY <1>8, <2>1, <2>2
<1>9. CASE \E m \in Times : PersistYear(Year(m))
  <2>1. PICK m \in Times : PersistYear(Year(m))
    BY <1>9
  <2>2. \A a \in Accesses : yearFiles[a] > 0 => yearFiles'[a] > 0
    BY <2>1, <1>0 DEF PersistYear, MigrationInv
  <2>3. UNCHANGED <<blockFiles, monthFiles, saved, spoiled>>
    BY <2>1 DEF PersistYear
  <2> QED
    BY <2>2, <2>3, <1>0, <1>s
<1>10. CASE \E b \in Blocks : RemoveBlock(b)
  <2>1. PICK b \in Blocks : RemoveBlock(b)
    BY <1>10
  <2>2. \A c \in Blocks : c # b => blockFiles'[c] = blockFiles[c]
    BY <2>1, <1>0 DEF RemoveBlock, FilesTyped
  <2>3. \A a \in blockFiles[b] : a \in Accesses /\ a \in sequence[b]
    BY <2>1, <1>0 DEF RemoveBlock, MigrationInv, WriterInv, FilesTyped
  <2>4. \A a \in blockFiles[b] : monthFiles[a] > 0 \/ yearFiles[a] > 0
    BY <2>1, <2>3, <1>0 DEF RemoveBlock, MigrationInv
  <2>5. UNCHANGED <<monthFiles, yearFiles, saved, spoiled>>
    BY <2>1 DEF RemoveBlock
  <2> QED
    BY <2>2, <2>4, <2>5, <1>0
<1>11. CASE EndMigration
  BY <1>11, <1>u DEF EndMigration
<1>12. CASE MonthPasses
  BY <1>12, <1>u DEF MonthPasses
<1>13. CASE Crash
  <2>1. saved' = saved /\ (Intact \/ TornBlock \/ \E m \in Times : TornMonth(m) \/ TornYear(Year(m)))
    BY <1>13 DEF Crash
  <2>2. CASE Intact
    BY <2>1, <2>2, <1>u DEF Intact
  <2>3. CASE TornBlock
    <3>1. writing \in Blocks
      BY <2>3, <1>0 DEF TornBlock, LatestTyped
    <3>2. /\ \A b \in Blocks : b # writing => blockFiles'[b] = blockFiles[b]
          /\ spoiled' = spoiled \cup blockFiles[writing] /\ UNCHANGED <<monthFiles, yearFiles>>
      BY <2>3, <1>0 DEF TornBlock, FilesTyped
    <3> QED
      BY <2>1, <3>1, <3>2, <1>0
  <2>4. CASE \E m \in Times : TornMonth(m)
    <3>1. PICK m \in Times : TornMonth(m)
      BY <2>4
    <3>2. /\ \A a \in Accesses : at[a] # m => monthFiles'[a] = monthFiles[a]
          /\ spoiled' = spoiled \cup {a \in Accesses : at[a] = m /\ monthFiles[a] > 0}
          /\ UNCHANGED <<blockFiles, yearFiles>>
      BY <3>1 DEF TornMonth, ClearMonth
    <3> QED
      BY <2>1, <3>2, <1>0, <1>s
  <2>5. CASE \E m \in Times : TornYear(Year(m))
    <3>1. PICK m \in Times : TornYear(Year(m))
      BY <2>5
    <3>2. /\ \A a \in Accesses : Year(at[a]) # Year(m) => yearFiles'[a] = yearFiles[a]
          /\ spoiled' = spoiled \cup {a \in Accesses : Year(at[a]) = Year(m) /\ yearFiles[a] > 0}
          /\ UNCHANGED <<blockFiles, monthFiles>>
      BY <3>1 DEF TornYear, ClearYear
    <3> QED
      BY <2>1, <3>2, <1>0, <1>s
  <2> QED
    BY <2>1, <2>2, <2>3, <2>4, <2>5
<1> QED
  BY <1>1, <1>2, <1>3, <1>4, <1>5, <1>6, <1>7, <1>8, <1>9, <1>10, <1>11, <1>12, <1>13
     DEF Next, LoadCache, Migrate

(***************************************************************************)
(* How often a saved access is counted.                                    *)
(***************************************************************************)
\* An access is an entry of one block.
BlocksAreDisjoint ==
    \A b, c \in Blocks : b # c =>
        sequence[b] \cap sequence[c] = {} /\ blockFiles[b] \cap blockFiles[c] = {}

\* Only torn files take accesses with them, and no cache is loaded from a torn file.
TornInv ==
    /\ torn \subseteq Dirs /\ (torn = {} => spoiled = {})
    /\ pc \in {"loadMonths", "loadYears", "migrating", "done"} => "latest" \notin torn
    /\ pc \in {"loadYears", "migrating", "done"} => "currentYear" \notin torn
    /\ pc \in {"migrating", "done"} => torn = {}

\* How often an access is counted by blocks; by what stays when the migration has
\* ended; and by what it is going to remove.
InBlocks(a, S) == IF a \in Entries(S) THEN 1 ELSE 0
InFile(a) == IF \E b \in Blocks : a \in blockFiles[b] \cup sequence[b] THEN 1 ELSE 0
Kept(a) ==
    InBlocks(a, Blocks \ oldBlocks) + (IF at[a] \in oldMonths THEN 0 ELSE months[a]) + years[a]
Doubled(a) == InBlocks(a, oldBlocks) + (IF at[a] \in oldMonths THEN months[a] ELSE 0)

\* A migration counts an access at most twice as often as it did before, and ends with what
\* it kept; what a crash leaves of it is what the next one begins with.
CopiesInv ==
    /\ copies >= 1
    /\ pc # "migrating" =>
         \A a \in Accesses : InFile(a) + monthFiles[a] + yearFiles[a] <= copies
    /\ pc = "migrating" => \A a \in Accesses :
         /\ monthFiles[a] <= months[a] /\ yearFiles[a] <= years[a]
         /\ Doubled(a) <= Kept(a) /\ Kept(a) <= copies
    /\ pc = "done" => months = monthFiles /\ years = yearFiles

OnceInv == BlocksAreDisjoint /\ TornInv /\ CopiesInv

LEMMA TornStep == ASSUME AccessTypeOK, TornInv, Next PROVE TornInv'
<1> USE DEF TornInv, Dirs, disk, latest, writer, counters, world
<1>u. UNCHANGED <<torn, spoiled, pc>> => TornInv'
  OBVIOUS
<1>1. CASE \E a \in Accesses : AddBlobAccess(a)
  BY <1>1, <1>u DEF AddBlobAccess
<1>2. CASE Persist \/ WriteBlock
  BY <1>2, <1>u DEF Persist, WriteBlock
<1>3. CASE LoadCache
  BY <1>3 DEF LoadCache, LoadFails, LoadLatest, LoadMonths, LoadYearsAndMigrate
<1>4. CASE Migrate
  BY <1>4 DEF Migrate, PersistMonth, RemoveMonth, PersistYear, RemoveBlock, EndMigration
<1>5. CASE MonthPasses
  BY <1>5, <1>u DEF MonthPasses
<1>6. CASE Crash
  <2>1. pc' = "loadLatest" /\ (Intact \/ TornBlock \/ \E m \in Times : TornMonth(m) \/ TornYear(Year(m)))
    BY <1>6 DEF Crash
  <2> QED
    BY <2>1 DEF Intact, TornBlock, TornMonth, TornYear
<1> QED
  BY <1>1, <1>2, <1>3, <1>4, <1>5, <1>6 DEF Next

LEMMA DisjointStep == ASSUME AccessInv, BlocksAreDisjoint, Next PROVE BlocksAreDisjoint'
<1> USE Numbers DEF BlocksAreDisjoint, disk, latest, writer, counters, world
<1>0. WriterInv /\ RecordedInv /\ MigrationInv /\ FilesTyped /\ LatestTyped
  BY DEF AccessInv, AccessTypeOK
<1>u. UNCHANGED <<blockFiles, sequence>> => BlocksAreDisjoint'
  OBVIOUS
<1>1. CASE \E a \in Accesses : AddBlobAccess(a)
  <2>1. PICK a \in Accesses : AddBlobAccess(a)
    BY <1>1
  <2>2. PICK b \in Blocks : sequence' = [sequence EXCEPT ![b] = @ \cup {a}]
    BY <2>1, <1>0 DEF AddBlobAccess, AddEntry, WriterInv, LatestTyped
  <2>3. blockFiles' = blockFiles /\ \A c \in Blocks : a \notin sequence[c]
    BY <2>1, <1>0 DEF AddBlobAccess, RecordedInv
  <2>4. \A c \in Blocks : sequence'[c] = IF c = b THEN sequence[b] \cup {a} ELSE sequence[c]
    BY <2>2, <1>0 DEF LatestTyped
  <2> QED
    BY <2>3, <2>4
<1>2. CASE Persist
  BY <1>2, <1>u DEF Persist
<1>3. CASE WriteBlock
  <2>1. writing \in Blocks /\ loaded /\ snapshot \subseteq sequence[writing]
    BY <1>3, <1>0 DEF WriteBlock, LatestTyped, WriterInv
  <2>2. \A c \in Blocks : blockFiles'[c] = IF c = writing THEN snapshot ELSE blockFiles[c]
    BY <1>3, <1>0 DEF WriteBlock, FilesTyped
  <2>3. \A c \in Blocks : blockFiles'[c] \subseteq sequence[c]
    BY <2>1, <2>2, <1>0 DEF WriterInv
  <2>4. sequence' = sequence
    BY <1>3 DEF WriteBlock
  <2> QED
    BY <2>3, <2>4
<1>4. CASE LoadCache
  BY <1>4 DEF LoadCache, LoadFails, LoadLatest, LoadMonths, LoadYearsAndMigrate
<1>5. CASE Migrate
  <2>1. \A c \in Blocks : sequence'[c] \subseteq sequence[c] /\ blockFiles'[c] \subseteq blockFiles[c]
    BY <1>5, <1>0
       DEF Migrate, PersistMonth, RemoveMonth, PersistYear, RemoveBlock, EndMigration,
           FilesTyped, LatestTyped
  <2> QED
    BY <2>1
<1>6. CASE MonthPasses
  BY <1>6, <1>u DEF MonthPasses
<1>7. CASE Crash
  <2>1. \A c \in Blocks : sequence'[c] = {} /\ blockFiles'[c] \subseteq blockFiles[c]
    BY <1>7, <1>0 DEF Crash, Intact, TornBlock, TornMonth, TornYear, FilesTyped
  <2> QED
    BY <2>1
<1> QED
  BY <1>1, <1>2, <1>3, <1>4, <1>5, <1>6, <1>7 DEF Next

LEMMA CountersAreNumbers ==
    ASSUME FilesTyped, CountersTyped, WorldTyped, NEW a \in Accesses
    PROVE  /\ monthFiles[a] \in Nat /\ yearFiles[a] \in Nat /\ months[a] \in Nat /\ years[a] \in Nat
           /\ InFile(a) \in {0, 1} /\ (\A S : InBlocks(a, S) \in {0, 1})
           /\ copies \in Nat
           /\ Kept(a) \in Nat /\ Doubled(a) \in Nat
<1>1. /\ monthFiles[a] \in Nat /\ yearFiles[a] \in Nat /\ months[a] \in Nat /\ years[a] \in Nat
      /\ copies \in Nat
  BY DEF FilesTyped, CountersTyped, WorldTyped, Counts
<1>2. InFile(a) \in {0, 1} /\ (\A S : InBlocks(a, S) \in {0, 1})
  BY DEF InFile, InBlocks
<1>3. Kept(a) \in Nat /\ Doubled(a) \in Nat
  BY <1>1, <1>2 DEF Kept, Doubled
<1> QED
  BY <1>1, <1>2, <1>3

\* What a migration begins with.
LEMMA CopiesMigrate ==
    ASSUME AccessInv, AccessTypeOK', BlocksAreDisjoint, CopiesInv, LoadYearsAndMigrate
    PROVE  CopiesInv'
<1> USE Numbers DEF disk, latest, writer, counters, world
<1>0. /\ MigrationInv /\ FilesTyped /\ LatestTyped /\ CountersTyped /\ WorldTyped
      /\ FilesTyped' /\ CountersTyped' /\ WorldTyped'
  BY DEF AccessInv, AccessTypeOK
<1> DEFINE moved   == Entries(PreparedBlocks)
           past    == {a \in moved : Year(at[a]) # Year(now)}
           monthly == Add(months, moved \ past)
           ended   == EndedMonths(monthly)
<1>1. /\ months' = monthly /\ oldMonths' = ended /\ oldBlocks' = PreparedBlocks
      /\ years' = [a \in Accesses |-> Add(yearFiles, past)[a] + EntriesOf(monthly, ended)[a]]
      /\ pc = "loadYears" /\ pc' = "migrating" /\ months = monthFiles
      /\ UNCHANGED <<disk, latest, at, copies>>
  BY <1>0 DEF LoadYearsAndMigrate, MigrationInv
<1>2. ASSUME NEW a \in Accesses
      PROVE  /\ monthFiles[a] <= months'[a] /\ yearFiles[a] <= years'[a]
             /\ Doubled(a)' <= Kept(a)' /\ Kept(a)' <= copies
  <2>1. /\ monthFiles[a] \in Nat /\ yearFiles[a] \in Nat /\ copies \in Nat
        /\ InFile(a) \in {0, 1} /\ InFile(a) + monthFiles[a] + yearFiles[a] <= copies
    BY <1>0, <1>1, CountersAreNumbers DEF CopiesInv
  <2> DEFINE other == InBlocks(a, Blocks \ PreparedBlocks)
             here  == InBlocks(a, PreparedBlocks)
  <2>2. /\ monthly[a] = monthFiles[a] + (IF a \in moved \ past THEN 1 ELSE 0)
        /\ years'[a] = yearFiles[a] + (IF a \in past THEN 1 ELSE 0)
                                    + (IF at[a] \in ended THEN monthly[a] ELSE 0)
    BY <1>1 DEF Add, EntriesOf
  <2>3. at[a] \in ended => Year(at[a]) < Year(now)
    BY DEF EndedMonths
  <2>4. here = (IF a \in moved THEN 1 ELSE 0) /\ here \in {0, 1} /\ other \in {0, 1}
    BY DEF InBlocks
  <2>5. here + other <= InFile(a)
    <3>1. PreparedBlocks \subseteq Blocks
      BY DEF PreparedBlocks
    <3>2. a \in Entries(PreparedBlocks) \/ a \in Entries(Blocks \ PreparedBlocks) => InFile(a) = 1
      BY <3>1 DEF Entries, InFile
    <3>3. ~ (a \in Entries(PreparedBlocks) /\ a \in Entries(Blocks \ PreparedBlocks))
      BY <3>1 DEF Entries, BlocksAreDisjoint
    <3> QED
      BY <3>2, <3>3, <2>1 DEF InBlocks
  <2>6. /\ Kept(a)' = other + (IF at[a] \in ended THEN 0 ELSE monthly[a]) + years'[a]
        /\ Doubled(a)' = here + (IF at[a] \in ended THEN monthly[a] ELSE 0)
    BY <1>1 DEF Kept, Doubled, InBlocks, Entries
  <2>7. a \in past => a \in moved /\ Year(at[a]) # Year(now)
    OBVIOUS
  <2>8. a \in moved \ past => Year(at[a]) = Year(now)
    OBVIOUS
  <2>9. Year(now) \in Int /\ Year(at[a]) \in Int
    BY <1>0 DEF Year, WorldTyped, Times
  <2>10. at[a] \in ended => a \notin moved \ past
    BY <2>3, <2>8, <2>9
  <2>11. months'[a] = monthly[a]
    BY <1>1
  <2> HIDE DEF monthly, moved, past, ended, other, here
  <2>12. CASE a \in past
    BY <2>1, <2>2, <2>4, <2>5, <2>6, <2>7, <2>11, <2>12
  <2>13. CASE a \in moved \ past
    BY <2>1, <2>2, <2>4, <2>5, <2>6, <2>10, <2>11, <2>13
  <2>14. CASE a \notin moved
    BY <2>1, <2>2, <2>4, <2>5, <2>6, <2>7, <2>11, <2>14
  <2> QED
    BY <2>12, <2>13, <2>14
<1> QED
  BY <1>1, <1>2 DEF CopiesInv

LEMMA CopiesCrash ==
    ASSUME AccessInv, AccessTypeOK', CopiesInv, Crash
    PROVE  CopiesInv'
<1> USE Numbers DEF disk, latest, writer, counters, world
<1>0. /\ WriterInv /\ MigrationInv /\ FilesTyped /\ LatestTyped /\ CountersTyped /\ WorldTyped
      /\ FilesTyped' /\ CountersTyped' /\ WorldTyped'
  BY DEF AccessInv, AccessTypeOK
<1>1. pc' = "loadLatest" /\ copies' = IF pc = "migrating" THEN 2 * copies ELSE copies
  BY DEF Crash
<1>2. /\ \A c \in Blocks : sequence'[c] = {} /\ blockFiles'[c] \subseteq blockFiles[c]
      /\ \A a \in Accesses : /\ monthFiles'[a] = monthFiles[a] \/ monthFiles'[a] = 0
                             /\ yearFiles'[a] = yearFiles[a] \/ yearFiles'[a] = 0
  BY <1>0 DEF Crash, Intact, TornBlock, TornMonth, TornYear, ClearMonth, ClearYear, FilesTyped
<1>3. ASSUME NEW a \in Accesses
      PROVE  InFile(a)' + monthFiles'[a] + yearFiles'[a] <= copies'
  <2>1. /\ monthFiles[a] \in Nat /\ yearFiles[a] \in Nat /\ months[a] \in Nat /\ years[a] \in Nat
        /\ copies \in Nat /\ InFile(a) \in {0, 1} /\ InFile(a)' \in {0, 1}
        /\ Kept(a) \in Nat /\ Doubled(a) \in Nat
    <3>1. InFile(a)' \in {0, 1}
      BY DEF InFile
    <3> QED
      BY <1>0, <3>1, CountersAreNumbers
  <2>2. InFile(a)' <= InFile(a)
    BY <1>2, <2>1 DEF InFile
  <2>3. CASE pc # "migrating"
    <3>1. InFile(a) + monthFiles[a] + yearFiles[a] <= copies /\ copies' = copies
      BY <1>1, <2>3 DEF CopiesInv
    <3> QED
      BY <3>1, <1>2, <2>1, <2>2
  <2>4. CASE pc = "migrating"
    <3>1. /\ monthFiles[a] <= months[a] /\ yearFiles[a] <= years[a]
          /\ Doubled(a) <= Kept(a) /\ Kept(a) <= copies /\ copies' = 2 * copies
      BY <1>1, <2>4 DEF CopiesInv
    <3>2. Doubled(a) + Kept(a) = InBlocks(a, oldBlocks) + InBlocks(a, Blocks \ oldBlocks)
                                   + months[a] + years[a]
      BY <2>1, <1>0, CountersAreNumbers DEF Doubled, Kept
    <3>3. InFile(a) <= InBlocks(a, oldBlocks) + InBlocks(a, Blocks \ oldBlocks)
      <4>1. \A b \in Blocks : blockFiles[b] \subseteq sequence[b]
        BY <2>4, <1>0 DEF WriterInv, MigrationInv
      <4>2. InFile(a) = 1 => a \in Entries(oldBlocks) \/ a \in Entries(Blocks \ oldBlocks)
        BY <4>1 DEF InFile, Entries
      <4> QED
        BY <4>2, <2>1 DEF InBlocks
    <3>4. InBlocks(a, oldBlocks) \in {0, 1} /\ InBlocks(a, Blocks \ oldBlocks) \in {0, 1}
      BY DEF InBlocks
    <3>5. monthFiles'[a] <= months[a] /\ yearFiles'[a] <= years[a]
      BY <3>1, <1>2, <2>1
    <3>6. monthFiles'[a] \in Nat /\ yearFiles'[a] \in Nat
      BY <1>2, <2>1
    <3> QED
      BY <3>1, <3>2, <3>3, <3>4, <3>5, <3>6, <2>1, <2>2
  <2> QED
    BY <2>3, <2>4
<1>4. copies' >= 1
  BY <1>0, <1>1 DEF CopiesInv, WorldTyped
<1> QED
  BY <1>1, <1>3, <1>4 DEF CopiesInv

\* What is kept changes with the beginning and the end of a migration only.
LEMMA CopiesStep == ASSUME AccessInv, AccessTypeOK', BlocksAreDisjoint, CopiesInv, Next
                    PROVE  CopiesInv'
<1> USE Numbers DEF disk, latest, writer, counters, world
<1>0. /\ WriterInv /\ RecordedInv /\ MigrationInv
      /\ FilesTyped /\ LatestTyped /\ CountersTyped /\ WorldTyped
      /\ FilesTyped' /\ LatestTyped' /\ CountersTyped' /\ WorldTyped'
  BY DEF AccessInv, AccessTypeOK
<1>n. \A a \in Accesses :
        /\ monthFiles[a] \in Nat /\ yearFiles[a] \in Nat /\ months[a] \in Nat /\ years[a] \in Nat
        /\ InFile(a) \in {0, 1} /\ (\A S : InBlocks(a, S) \in {0, 1})
        /\ copies \in Nat /\ Kept(a) \in Nat /\ Doubled(a) \in Nat
  BY <1>0, CountersAreNumbers
<1>u. UNCHANGED <<blockFiles, monthFiles, yearFiles, sequence, months, years, oldMonths,
                  oldBlocks, pc, at, copies>> => CopiesInv'
  BY DEF CopiesInv, InFile, InBlocks, Entries, Kept, Doubled
<1>1. CASE \E a \in Accesses : AddBlobAccess(a)
  <2>1. PICK x \in Accesses : AddBlobAccess(x)
    BY <1>1
  <2>2. /\ sequence' = [sequence EXCEPT ![latestId] = @ \cup {x}] /\ latestId \in Blocks
        /\ at' = [at EXCEPT ![x] = now]
        /\ UNCHANGED <<disk, counters, pc, copies>>
    BY <2>1, <1>0 DEF AddBlobAccess, AddEntry, WriterInv, LatestTyped
  <2>3. /\ monthFiles[x] = 0 /\ yearFiles[x] = 0 /\ months[x] = 0 /\ years[x] = 0
        /\ \A b \in Blocks : x \notin sequence[b]
    BY <2>1, <1>0 DEF AddBlobAccess, RecordedInv
  <2>4. \A b \in Blocks : sequence'[b] = IF b = latestId THEN sequence[b] \cup {x} ELSE sequence[b]
    BY <2>2, <1>0 DEF LatestTyped
  <2>5. copies >= 1 /\ copies' = copies /\ copies \in Nat
    BY <2>2, <1>0 DEF CopiesInv, WorldTyped
  <2>6. ASSUME pc # "migrating", NEW a \in Accesses
        PROVE  InFile(a)' + monthFiles'[a] + yearFiles'[a] <= copies'
    <3>1. CASE a = x
      BY <3>1, <2>2, <2>3, <2>5 DEF InFile
    <3>2. CASE a # x
      <4>1. InFile(a)' = InFile(a)
        BY <3>2, <2>2, <2>4 DEF InFile
      <4> QED
        BY <4>1, <2>2, <2>6 DEF CopiesInv
    <3> QED
      BY <3>1, <3>2
  <2>7. ASSUME pc = "migrating", NEW a \in Accesses
        PROVE  /\ monthFiles'[a] <= months'[a] /\ yearFiles'[a] <= years'[a]
               /\ Doubled(a)' <= Kept(a)' /\ Kept(a)' <= copies'
    <3>1. latestId \notin oldBlocks /\ oldBlocks \subseteq Blocks
      BY <2>7, <1>0 DEF MigrationInv, CountersTyped
    <3>2. CASE a = x
      <4>1. a \notin Entries(oldBlocks)' /\ a \in Entries(Blocks \ oldBlocks)'
        BY <3>1, <3>2, <2>2, <2>3, <2>4 DEF Entries
      <4>2. InBlocks(a, oldBlocks)' = 0 /\ InBlocks(a, Blocks \ oldBlocks)' = 1
        BY <4>1 DEF InBlocks
      <4>3. Doubled(a)' = 0 /\ Kept(a)' = 1
        BY <4>2, <3>2, <2>2, <2>3 DEF Doubled, Kept
      <4> QED
        BY <4>3, <3>2, <2>2, <2>3, <2>5
    <3>3. CASE a # x
      <4>1. /\ InBlocks(a, oldBlocks)' = InBlocks(a, oldBlocks)
            /\ InBlocks(a, Blocks \ oldBlocks)' = InBlocks(a, Blocks \ oldBlocks)
        BY <3>1, <3>3, <2>2, <2>4 DEF InBlocks, Entries
      <4>2. at'[a] = at[a]
        BY <3>3, <2>2, <1>0 DEF WorldTyped
      <4>3. Doubled(a)' = Doubled(a) /\ Kept(a)' = Kept(a)
        BY <4>1, <4>2, <2>2 DEF Doubled, Kept
      <4> QED
        BY <4>3, <2>2, <2>7 DEF CopiesInv
    <3> QED
      BY <3>2, <3>3
  <2> QED
    BY <2>2, <2>5, <2>6, <2>7 DEF CopiesInv
<1>2. CASE Persist
  BY <1>2, <1>u DEF Persist
<1>3. CASE WriteBlock
  <2>1. /\ writing \in Blocks /\ loaded
        /\ snapshot \subseteq sequence[writing] /\ blockFiles[writing] \subseteq snapshot
    BY <1>3, <1>0 DEF WriteBlock, LatestTyped, WriterInv
  <2>2. \A c \in Blocks : blockFiles'[c] = IF c = writing THEN snapshot ELSE blockFiles[c]
    BY <1>3, <1>0 DEF WriteBlock, FilesTyped
  <2>3. UNCHANGED <<monthFiles, yearFiles, sequence, months, years, oldMonths, oldBlocks, pc,
                    at, copies>>
    BY <1>3 DEF WriteBlock
  <2>4. \A c \in Blocks : blockFiles'[c] \cup sequence'[c] = blockFiles[c] \cup sequence[c]
    BY <2>1, <2>2, <2>3
  <2>5. \A a : InFile(a)' = InFile(a)
    BY <2>4 DEF InFile
  <2>6. \A a \in Accesses : Doubled(a)' = Doubled(a) /\ Kept(a)' = Kept(a)
    BY <2>3 DEF Doubled, Kept, InBlocks, Entries
  <2> QED
    BY <2>3, <2>5, <2>6 DEF CopiesInv
<1>4. ASSUME NEW d, NEW l, LoadFails(d, l), l \in {"loadLatest", "loadMonths", "loadYears"}
      PROVE  CopiesInv'
  <2>1. /\ pc # "migrating" /\ pc' = "failed"
        /\ UNCHANGED <<blockFiles, monthFiles, yearFiles, sequence, copies>>
    BY <1>4 DEF LoadFails
  <2> QED
    BY <2>1 DEF CopiesInv, InFile
<1>5. CASE LoadLatest
  <2>1. /\ sequence' = blockFiles /\ pc = "loadLatest" /\ pc' = "loadMonths"
        /\ UNCHANGED <<disk, copies>>
    BY <1>5 DEF LoadLatest
  <2>2. ASSUME NEW a \in Accesses PROVE InFile(a)' + monthFiles'[a] + yearFiles'[a] <= copies'
    <3>1. InFile(a)' <= InFile(a) /\ InFile(a)' \in {0, 1}
      BY <2>1 DEF InFile
    <3>2. InFile(a) + monthFiles[a] + yearFiles[a] <= copies
      BY <2>1 DEF CopiesInv
    <3> QED
      BY <3>1, <3>2, <2>1, <1>n
  <2> QED
    BY <2>1, <2>2 DEF CopiesInv
<1>6. CASE LoadMonths
  <2>1. /\ pc = "loadMonths" /\ pc' = "loadYears"
        /\ UNCHANGED <<blockFiles, monthFiles, yearFiles, sequence, copies>>
    BY <1>6 DEF LoadMonths
  <2> QED
    BY <2>1 DEF CopiesInv, InFile
<1>7. CASE LoadYearsAndMigrate
  BY <1>7, CopiesMigrate
<1>8. ASSUME NEW m \in Times, PersistMonth(m) PROVE CopiesInv'
  <2>1. /\ pc = "migrating" /\ pc' = pc
        /\ \A a \in Accesses : monthFiles'[a] = IF at[a] = m THEN months[a] ELSE monthFiles[a]
        /\ UNCHANGED <<yearFiles, sequence, months, years, oldMonths, oldBlocks, at, copies>>
    BY <1>8 DEF PersistMonth
  <2>2. \A a \in Accesses : Doubled(a)' = Doubled(a) /\ Kept(a)' = Kept(a)
    BY <2>1 DEF Doubled, Kept, InBlocks, Entries
  <2>3. \A a \in Accesses : monthFiles'[a] <= months'[a]
    BY <2>1, <1>n DEF CopiesInv
  <2> QED
    BY <2>1, <2>2, <2>3 DEF CopiesInv
<1>9. ASSUME NEW m \in Times, PersistYear(Year(m)) PROVE CopiesInv'
  <2>1. /\ pc = "migrating" /\ pc' = pc
        /\ \A a \in Accesses :
             yearFiles'[a] = IF Year(at[a]) = Year(m) THEN years[a] ELSE yearFiles[a]
        /\ UNCHANGED <<monthFiles, sequence, months, years, oldMonths, oldBlocks, at, copies>>
    BY <1>9 DEF PersistYear
  <2>2. \A a \in Accesses : Doubled(a)' = Doubled(a) /\ Kept(a)' = Kept(a)
    BY <2>1 DEF Doubled, Kept, InBlocks, Entries
  <2>3. \A a \in Accesses : yearFiles'[a] <= years'[a]
    BY <2>1, <1>n DEF CopiesInv
  <2> QED
    BY <2>1, <2>2, <2>3 DEF CopiesInv
<1>10. ASSUME NEW m \in Times, RemoveMonth(m) PROVE CopiesInv'
  <2>1. /\ pc = "migrating" /\ pc' = pc /\ m \in oldMonths /\ oldMonths' = oldMonths \ {m}
        /\ \A a \in Accesses : /\ monthFiles'[a] = IF at[a] = m THEN 0 ELSE monthFiles[a]
                               /\ months'[a] = IF at[a] = m THEN 0 ELSE months[a]
        /\ UNCHANGED <<yearFiles, sequence, years, oldBlocks, at, copies>>
    BY <1>10 DEF RemoveMonth, ClearMonth
  <2>2. ASSUME NEW a \in Accesses
        PROVE  /\ monthFiles'[a] <= months'[a] /\ yearFiles'[a] <= years'[a]
               /\ Doubled(a)' <= Kept(a)' /\ Kept(a)' <= copies'
    <3>1. /\ InBlocks(a, oldBlocks)' = InBlocks(a, oldBlocks)
          /\ InBlocks(a, Blocks \ oldBlocks)' = InBlocks(a, Blocks \ oldBlocks)
      BY <2>1 DEF InBlocks, Entries
    <3>2. /\ monthFiles[a] <= months[a] /\ yearFiles[a] <= years[a]
          /\ Doubled(a) <= Kept(a) /\ Kept(a) <= copies
      BY <2>1 DEF CopiesInv
    <3>3. Kept(a)' = Kept(a)
      BY <2>1, <3>1 DEF Kept
    <3>4. Doubled(a)' <= Doubled(a) /\ Doubled(a)' \in Nat
      BY <2>1, <3>1, <1>n DEF Doubled
    <3> QED
      BY <2>1, <3>2, <3>3, <3>4, <1>n
  <2> QED
    BY <2>1, <2>2 DEF CopiesInv
<1>11. ASSUME NEW b \in Blocks, RemoveBlock(b) PROVE CopiesInv'
  <2>1. /\ pc = "migrating" /\ pc' = pc /\ b \in oldBlocks /\ oldBlocks' = oldBlocks \ {b}
        /\ \A c \in Blocks : sequence'[c] = IF c = b THEN {} ELSE sequence[c]
        /\ UNCHANGED <<monthFiles, yearFiles, months, years, oldMonths, at, copies>>
    BY <1>11, <1>0 DEF RemoveBlock, LatestTyped
  <2>2. oldBlocks \subseteq Blocks
    BY <1>0 DEF CountersTyped
  <2>3. ASSUME NEW a \in Accesses
        PROVE  Doubled(a)' <= Kept(a)' /\ Kept(a)' <= copies'
    <3>1. Entries(oldBlocks)' \subseteq Entries(oldBlocks)
      BY <2>1, <2>2 DEF Entries
    <3>2. Entries(Blocks \ oldBlocks)' = Entries(Blocks \ oldBlocks)
      BY <2>1, <2>2 DEF Entries
    <3>3. /\ InBlocks(a, oldBlocks)' <= InBlocks(a, oldBlocks) /\ InBlocks(a, oldBlocks)' \in {0, 1}
          /\ InBlocks(a, Blocks \ oldBlocks)' = InBlocks(a, Blocks \ oldBlocks)
      BY <3>1, <3>2 DEF InBlocks
    <3>4. Kept(a)' = Kept(a)
      BY <2>1, <3>3 DEF Kept
    <3>5. Doubled(a)' <= Doubled(a) /\ Doubled(a)' \in Nat
      BY <2>1, <3>3, <1>n DEF Doubled
    <3>6. Doubled(a) <= Kept(a) /\ Kept(a) <= copies
      BY <2>1 DEF CopiesInv
    <3> QED
      BY <2>1, <3>4, <3>5, <3>6, <1>n
  <2> QED
    BY <2>1, <2>3 DEF CopiesInv
<1>12. CASE EndMigration
  <2>1. /\ pc = "migrating" /\ pc' = "done" /\ dirtyMonths = {} /\ dirtyYears = {}
        /\ oldMonths = {} /\ oldBlocks = {}
        /\ UNCHANGED <<blockFiles, monthFiles, yearFiles, sequence, months, years, copies>>
    BY <1>12 DEF EndMigration
  <2>2. months = monthFiles /\ years = yearFiles
    <3>1. \A a \in Accesses : monthFiles[a] = months[a] /\ yearFiles[a] = years[a]
      BY <2>1, <1>0 DEF MigrationInv
    <3> QED
      BY <3>1, <1>0 DEF FilesTyped, CountersTyped, Counts
  <2>3. ASSUME NEW a \in Accesses PROVE InFile(a) + monthFiles[a] + yearFiles[a] <= copies
    <3>1. \A b \in Blocks : blockFiles[b] \subseteq sequence[b]
      BY <2>1, <1>0 DEF MigrationInv, WriterInv
    <3>2. InFile(a) = InBlocks(a, Blocks \ oldBlocks)
      BY <2>1, <3>1 DEF InFile, InBlocks, Entries
    <3>3. Kept(a) = InFile(a) + months[a] + years[a]
      BY <2>1, <3>2 DEF Kept
    <3> QED
      BY <2>1, <2>2, <3>3 DEF CopiesInv
  <2> QED
    BY <2>1, <2>2, <2>3 DEF CopiesInv, InFile
<1>13. CASE MonthPasses
  BY <1>13, <1>u DEF MonthPasses
<1>14. CASE Crash
  BY <1>14, CopiesCrash
<1> QED
  BY <1>1, <1>2, <1>3, <1>4, <1>5, <1>6, <1>7, <1>8, <1>9, <1>10, <1>11, <1>12, <1>13, <1>14
     DEF Next, LoadCache, Migrate

(***************************************************************************)
(* The theorems.                                                           *)
(***************************************************************************)
\* The inductive invariant, of which the theorems below are parts.
THEOREM AccessInvariant == Spec => []AccessInv
<1>1. Init => AccessInv
  BY InitInv
<1>2. AccessInv /\ [Next]_vars => AccessInv'
  <2> SUFFICES ASSUME AccessInv, [Next]_vars PROVE AccessInv'
    OBVIOUS
  <2>1. CASE Next
    <3>1. AccessTypeOK'
      BY <2>1, TypeStep DEF AccessInv
    <3>2. WriterInv'
      BY <2>1, <3>1, WriterStep
    <3>3. RecordedInv'
      BY <2>1, <3>1, RecordedStep
    <3>4. MigrationInv'
      BY <2>1, <3>1, MigrationStep
    <3>5. NothingIsMissed'
      BY <2>1, <3>1, MissedStep
    <3>6. SavedIsKept'
      BY <2>1, SavedStep
    <3> QED
      BY <3>1, <3>2, <3>3, <3>4, <3>5, <3>6 DEF AccessInv
  <2>2. CASE UNCHANGED vars
    BY <2>2 DEF vars, disk, latest, writer, counters, world, AccessInv, AccessTypeOK, FilesTyped,
                LatestTyped, CountersTyped, WorldTyped, WriterInv, isFull, RecordedInv,
                MigrationInv, NothingIsMissed, SavedIsKept, OnDisk
  <2> QED
    BY <2>1, <2>2
<1> QED
  BY <1>1, <1>2, PTL DEF Spec

\* The types of the counters, and of the memory of AccessCounterService and its caches.
THEOREM AccessTypeCorrect == Spec => []AccessTypeOK
<1>1. AccessInv => AccessTypeOK
  BY DEF AccessInv
<1> QED
  BY <1>1, AccessInvariant, PTL

\* Persist and AddEntry of FileSequenceCache: no access is forgotten by the writer, however
\* accesses and writes interleave.
THEOREM WriterMissesNothing == Spec => []NothingIsMissed
<1>1. AccessInv => NothingIsMissed
  BY DEF AccessInv
<1> QED
  BY <1>1, AccessInvariant, PTL

\* Migrate: an access whose file has been written is never lost, whatever step a crash comes
\* at, unless the crash tears the file that counts it.
THEOREM SavedStaysKept == Spec => []SavedIsKept
<1>1. AccessInv => SavedIsKept
  BY DEF AccessInv
<1> QED
  BY <1>1, AccessInvariant, PTL

\* FileSequenceCache never changes its latest block while the service runs: a block becomes
\* full only when it is loaded.
THEOREM LatestIsNeverFull == Spec => [](loaded => ~ isFull(latestId))
<1>1. AccessInv => (loaded => ~ isFull(latestId))
  BY DEF AccessInv, WriterInv
<1> QED
  BY <1>1, AccessInvariant, PTL

\* FetchBlobAccessCounts after Migrate: an access whose file has been written is counted, and
\* at most doubled by each crash that cut a migration; without such a crash it is counted once.
THEOREM CountedOnce == Spec => []CountedOnceUnlessCut
<1>1. Init => OnceInv
  <2> SUFFICES ASSUME Init PROVE OnceInv
    OBVIOUS
  <2>1. CopiesInv
    BY DEF Init, CopiesInv, InFile, Nothing
  <2> QED
    BY <2>1 DEF Init, OnceInv, BlocksAreDisjoint, TornInv
<1>2. AccessInv /\ AccessInv' /\ OnceInv /\ [Next]_vars => OnceInv'
  <2> SUFFICES ASSUME AccessInv, AccessInv', OnceInv, [Next]_vars PROVE OnceInv'
    OBVIOUS
  <2>1. AccessTypeOK /\ AccessTypeOK' /\ BlocksAreDisjoint /\ TornInv /\ CopiesInv
    BY DEF AccessInv, OnceInv
  <2>2. CASE Next
    BY <2>1, <2>2, TornStep, DisjointStep, CopiesStep DEF OnceInv
  <2>3. CASE UNCHANGED vars
    BY <2>1, <2>3 DEF vars, disk, latest, writer, counters, world, OnceInv, BlocksAreDisjoint, TornInv,
                CopiesInv, InFile, InBlocks, Entries, Kept, Doubled
  <2> QED
    BY <2>2, <2>3
<1>3. AccessInv /\ OnceInv => CountedOnceUnlessCut
  <2> SUFFICES ASSUME AccessInv, OnceInv, pc = "done", NEW a \in saved
               PROVE  FetchBlobAccessCounts(a) \in 1..copies
    BY DEF CountedOnceUnlessCut
  <2>1. /\ WriterInv /\ MigrationInv /\ SavedIsKept /\ TornInv /\ CopiesInv
        /\ FilesTyped /\ CountersTyped /\ WorldTyped
    BY DEF AccessInv, AccessTypeOK, OnceInv
  <2>2. a \in Accesses
    BY <2>1 DEF WorldTyped
  <2>3. months = monthFiles /\ years = yearFiles /\ InFile(a) + monthFiles[a] + yearFiles[a] <= copies
    BY <2>1, <2>2 DEF CopiesInv
  <2>4. FetchAccessCounts(a) = InFile(a)
    <3>1. \A b \in Blocks : blockFiles[b] \subseteq sequence[b]
      BY <2>1 DEF MigrationInv, WriterInv
    <3> QED
      BY <3>1 DEF FetchAccessCounts, InFile, Entries
  <2>5. monthFiles[a] \in Nat /\ yearFiles[a] \in Nat /\ InFile(a) \in {0, 1} /\ copies \in Nat
    BY <2>1, <2>2, CountersAreNumbers
  <2>6. OnDisk(a)
    BY <2>1 DEF SavedIsKept, TornInv
  <2>7. InFile(a) = 1 \/ monthFiles[a] > 0 \/ yearFiles[a] > 0
    BY <2>6 DEF OnDisk, InFile
  <2> QED
    BY <2>3, <2>4, <2>5, <2>7 DEF FetchBlobAccessCounts
<1> QED
  BY <1>1, <1>2, <1>3, AccessInvariant, PTL DEF Spec

=============================================================================
