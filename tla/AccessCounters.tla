--------------------------- MODULE AccessCounters ---------------------------
(***************************************************************************)
(* AccessCounterService and its three caches: accesses are collected in    *)
(* blocks (FileSequenceCache), which a start of the service migrates into  *)
(* counters per month (YearMonthCache) and per year (YearCache).  Each     *)
(* cache keeps a directory of files, one per block, month or year.         *)
(*                                                                         *)
(* Counters are kept per access here instead of per blob and user: how     *)
(* often a file or a cache counts this access.  Time is counted in months. *)
(* One writing of dirty blocks ends before the timer of the next expires,  *)
(* that is within three minutes.  Storage tiers are left out.              *)
(***************************************************************************)
EXTENDS Integers, FiniteSets

CONSTANTS
    Accesses,         \* accesses of blobs
    Blocks,           \* random ids of blocks
    NoBlock,
    EntriesPerBlock,  \* CONST_FILESEQUENCECACHE_NUMBER_OF_ENTRIES_PER_BLOCK
    MonthsPerYear,
    MaxMonth,         \* bound: months that pass
    MaxCrashes        \* bound: restarts of the service

ASSUME AccessesAreFinite == IsFiniteSet(Accesses)
ASSUME NoBlockIsNoBlock == NoBlock \notin Blocks
ASSUME CounterNumbers ==
    /\ EntriesPerBlock \in Nat \ {0} /\ MonthsPerYear \in Nat \ {0}
    /\ MaxMonth \in Nat /\ MaxCrashes \in Nat

VARIABLES
    \* files
    blockFiles,    \* accesses in the file of a block, {} when there is none
    monthFiles,    \* how often the files of months count an access
    yearFiles,
    torn,          \* directories with a file whose writing was cut off
    \* memory: FileSequenceCache
    sequence,      \* accesses in a block
    entriesCount,  \* set when a block is loaded, and never afterwards
    latestId,
    dirtyIds,
    timer,         \* is persistTimer set
    writing,       \* block being written, the bytes, and those that follow
    snapshot,
    toWrite,
    \* memory: YearMonthCache, YearCache, Migrate
    months, years, dirtyMonths, dirtyYears,
    oldMonths, oldBlocks,  \* preparedMonthBlocks, preparedLatestBlocks
    pc,            \* where LoadCache and Migrate are
    loaded,        \* is AccessCounterService.latest defined
    \* environment and history
    now, at,       \* the time, and the time of an access
    recorded,      \* accesses that have happened
    saved,         \* accesses that have reached a file
    spoiled,       \* accesses counted by a file that has been torn
    crashes,
    copies         \* history: how often an access may be counted, doubled by each crash
                   \* during a migration

disk == <<blockFiles, monthFiles, yearFiles, torn>>
latest == <<sequence, entriesCount, latestId, dirtyIds, timer>>
writer == <<writing, snapshot, toWrite>>
counters == <<months, years, dirtyMonths, dirtyYears, oldMonths, oldBlocks>>
world == <<now, at, recorded, saved, spoiled, crashes, copies>>
vars == <<disk, latest, writer, counters, pc, loaded, world>>

Times == 0..MaxMonth
Year(m) == m \div MonthsPerYear
Nothing == [a \in Accesses |-> 0]
Add(f, S) == [a \in Accesses |-> f[a] + (IF a \in S THEN 1 ELSE 0)]
ClearMonth(f, m) == [a \in Accesses |-> IF at[a] = m THEN 0 ELSE f[a]]
ClearYear(f, y) == [a \in Accesses |-> IF Year(at[a]) = y THEN 0 ELSE f[a]]
isFull(b) == entriesCount[b] >= EntriesPerBlock

\* Entries of the blocks in S, and of the months in S as they are counted.
Entries(S) == UNION {sequence[b] : b \in S}
EntriesOf(f, S) == [a \in Accesses |-> IF at[a] \in S THEN f[a] ELSE 0]

\* A block takes an entry; one that is read from its file counts those it has.
AddEntry(b, a) == sequence' = [sequence EXCEPT ![b] = @ \cup {a}]
FromJSON(entries) == Cardinality(entries)

Unused(b) == sequence[b] = {} /\ blockFiles[b] = {} /\ b # latestId

Init ==
    /\ blockFiles = [b \in Blocks |-> {}]
    /\ monthFiles = Nothing /\ yearFiles = Nothing /\ torn = {}
    /\ sequence = [b \in Blocks |-> {}] /\ entriesCount = [b \in Blocks |-> 0]
    /\ latestId = NoBlock /\ dirtyIds = {} /\ timer = FALSE
    /\ writing = NoBlock /\ snapshot = {} /\ toWrite = {}
    /\ months = Nothing /\ years = Nothing /\ dirtyMonths = {} /\ dirtyYears = {}
    /\ oldMonths = {} /\ oldBlocks = {}
    /\ pc = "loadLatest" /\ loaded = FALSE
    /\ now = 0 /\ at = Nothing /\ recorded = {}
    /\ saved = {} /\ spoiled = {} /\ crashes = 0 /\ copies = 1

(***************************************************************************)
(* Accesses and the writing of blocks.                                     *)
(***************************************************************************)
\* AddEntry of the cache: the latest block takes it, a new one when it is full.
AddBlobAccess(a) ==
    /\ loaded
    /\ a \notin recorded
    /\ \E b \in IF isFull(latestId) THEN {c \in Blocks : Unused(c)} ELSE {latestId} :
         /\ latestId' = b
         /\ AddEntry(b, a)
         /\ dirtyIds' = dirtyIds \cup {b}
    /\ timer' = TRUE
    /\ at' = [at EXCEPT ![a] = now]
    /\ recorded' = recorded \cup {a}
    /\ UNCHANGED <<disk, entriesCount, writer, counters, pc, loaded, now, saved, spoiled,
                   crashes, copies>>

\* The timer expires; the first block is turned into bytes in the same step.
Persist ==
    /\ timer
    /\ writing = NoBlock
    /\ timer' = FALSE
    /\ dirtyIds' = {}
    /\ \E b \in dirtyIds :
         /\ writing' = b
         /\ snapshot' = sequence[b]
         /\ toWrite' = dirtyIds \ {b}
    /\ UNCHANGED <<disk, sequence, entriesCount, latestId, counters, pc, loaded, world>>

\* Mutants: the dirty ids are cleared when their blocks have been written, and a
\* writer that does not see its end.
WriteBlock_Cleans ==
    /\ writing # NoBlock
    /\ blockFiles' = [blockFiles EXCEPT ![writing] = snapshot]
    /\ saved' = saved \cup snapshot
    /\ writing' = NoBlock /\ toWrite' = {} /\ snapshot' = {}
    /\ dirtyIds' = {} /\ timer' = FALSE
    /\ UNCHANGED <<monthFiles, yearFiles, torn, sequence, entriesCount, latestId, counters,
                   pc, loaded, now, at, recorded, spoiled, crashes, copies>>
WriteBlock_Endless ==
    /\ writing # NoBlock
    /\ blockFiles' = [blockFiles EXCEPT ![writing] = snapshot]
    /\ saved' = saved \cup snapshot
    /\ UNCHANGED <<monthFiles, yearFiles, torn, latest, writer, counters, pc, loaded,
                   now, at, recorded, spoiled, crashes, copies>>

\* writeFile has ended; the loop goes on with the next block.
WriteBlock ==
    /\ writing # NoBlock
    /\ blockFiles' = [blockFiles EXCEPT ![writing] = snapshot]
    /\ saved' = saved \cup snapshot
    /\ IF toWrite = {}
       THEN writing' = NoBlock /\ snapshot' = {} /\ toWrite' = {}
       ELSE \E b \in toWrite :
              writing' = b /\ snapshot' = sequence[b] /\ toWrite' = toWrite \ {b}
    /\ UNCHANGED <<monthFiles, yearFiles, torn, latest, counters, pc, loaded,
                   now, at, recorded, spoiled, crashes, copies>>

(***************************************************************************)
(* LoadCache and Migrate.                                                  *)
(***************************************************************************)
\* A torn file cannot be decompressed: LoadCache is rejected, and nobody waits for it.
LoadFails(dir, l) ==
    /\ pc = l
    /\ dir \in torn
    /\ pc' = "failed"
    /\ UNCHANGED <<disk, latest, writer, counters, loaded, world>>

\* The last block read that is not full becomes the latest one, else a new one.
LoadLatest ==
    /\ pc = "loadLatest"
    /\ "latest" \notin torn
    /\ sequence' = blockFiles
    /\ entriesCount' = [b \in Blocks |-> FromJSON(blockFiles[b])]
    /\ LET free == {b \in Blocks : blockFiles[b] # {} /\ FromJSON(blockFiles[b]) < EntriesPerBlock}
       IN  latestId' \in IF free # {} THEN free ELSE {b \in Blocks : Unused(b)}
    /\ loaded' = TRUE
    /\ pc' = "loadMonths"
    /\ UNCHANGED <<disk, dirtyIds, timer, writer, counters, world>>

LoadMonths ==
    /\ pc = "loadMonths"
    /\ "currentYear" \notin torn
    /\ months' = monthFiles
    /\ pc' = "loadYears"
    /\ UNCHANGED <<disk, latest, writer, years, dirtyMonths, dirtyYears, oldMonths, oldBlocks,
                   loaded, world>>

\* Full blocks whose newest entry is of an earlier month.
PreparedBlocks ==
    {b \in Blocks : isFull(b) /\ b # latestId /\ \A a \in sequence[b] : at[a] < now}

\* Months of earlier years that count something.
EndedMonths(f) ==
    {m \in Times : Year(m) < Year(now) /\ \E a \in Accesses : at[a] = m /\ f[a] > 0}

\* The years are loaded, and Migrate runs up to its first await: entries of
\* blocks go to their month or, when their year is over, to their year; so do
\* months of earlier years.
LoadYearsAndMigrate ==
    /\ pc = "loadYears"
    /\ "pastYears" \notin torn
    /\ LET moved   == Entries(PreparedBlocks)
           past    == {a \in moved : Year(at[a]) # Year(now)}
           monthly == Add(months, moved \ past)
           ended   == EndedMonths(monthly)
       IN  /\ months' = monthly
           /\ years' = [a \in Accesses |-> Add(yearFiles, past)[a] + EntriesOf(monthly, ended)[a]]
           /\ dirtyMonths' = {at[a] : a \in moved \ past}
           /\ dirtyYears' = {Year(at[a]) : a \in past} \cup {Year(m) : m \in ended}
           /\ oldMonths' = ended
    /\ oldBlocks' = PreparedBlocks
    /\ pc' = "migrating"
    /\ UNCHANGED <<disk, latest, writer, loaded, world>>

PersistMonth(m) ==
    /\ pc = "migrating"
    /\ m \in dirtyMonths
    /\ monthFiles' = [a \in Accesses |-> IF at[a] = m THEN months[a] ELSE monthFiles[a]]
    /\ dirtyMonths' = dirtyMonths \ {m}
    /\ UNCHANGED <<blockFiles, yearFiles, torn, latest, writer, months, years, dirtyYears,
                   oldMonths, oldBlocks, pc, loaded, world>>

PersistYear(y) ==
    /\ pc = "migrating"
    /\ dirtyMonths = {}
    /\ y \in dirtyYears
    /\ yearFiles' = [a \in Accesses |-> IF Year(at[a]) = y THEN years[a] ELSE yearFiles[a]]
    /\ dirtyYears' = dirtyYears \ {y}
    /\ UNCHANGED <<blockFiles, monthFiles, torn, latest, writer, months, years, dirtyMonths,
                   oldMonths, oldBlocks, pc, loaded, world>>

\* Mutant: the file of the month stays.
RemoveMonth_KeepsFile(m) ==
    /\ pc = "migrating"
    /\ dirtyMonths = {} /\ dirtyYears = {}
    /\ m \in oldMonths
    /\ months' = ClearMonth(months, m)
    /\ oldMonths' = oldMonths \ {m}
    /\ UNCHANGED <<disk, latest, writer, years, dirtyMonths,
                   dirtyYears, oldBlocks, pc, loaded, world>>

\* unlink, then the entry in memory.
RemoveMonth(m) ==
    /\ pc = "migrating"
    /\ dirtyMonths = {} /\ dirtyYears = {}
    /\ m \in oldMonths
    /\ monthFiles' = ClearMonth(monthFiles, m)
    /\ months' = ClearMonth(months, m)
    /\ oldMonths' = oldMonths \ {m}
    /\ UNCHANGED <<blockFiles, yearFiles, torn, latest, writer, years, dirtyMonths,
                   dirtyYears, oldBlocks, pc, loaded, world>>

\* Mutant: the files of blocks go before the counters are written.
RemoveBlock_First(b) ==
    /\ pc = "migrating"
    /\ b \in oldBlocks
    /\ blockFiles' = [blockFiles EXCEPT ![b] = {}]
    /\ sequence' = [sequence EXCEPT ![b] = {}]
    /\ entriesCount' = [entriesCount EXCEPT ![b] = 0]
    /\ oldBlocks' = oldBlocks \ {b}
    /\ UNCHANGED <<monthFiles, yearFiles, torn, latestId, dirtyIds, timer, writer, months,
                   years, dirtyMonths, dirtyYears, oldMonths, pc, loaded, world>>

RemoveBlock(b) ==
    /\ pc = "migrating"
    /\ dirtyMonths = {} /\ dirtyYears = {} /\ oldMonths = {}
    /\ b \in oldBlocks
    /\ blockFiles' = [blockFiles EXCEPT ![b] = {}]
    /\ sequence' = [sequence EXCEPT ![b] = {}]
    /\ entriesCount' = [entriesCount EXCEPT ![b] = 0]
    /\ oldBlocks' = oldBlocks \ {b}
    /\ UNCHANGED <<monthFiles, yearFiles, torn, latestId, dirtyIds, timer, writer, months,
                   years, dirtyMonths, dirtyYears, oldMonths, pc, loaded, world>>

EndMigration ==
    /\ pc = "migrating"
    /\ dirtyMonths = {} /\ dirtyYears = {} /\ oldMonths = {} /\ oldBlocks = {}
    /\ pc' = "done"
    /\ UNCHANGED <<disk, latest, writer, counters, loaded, world>>

Migrate ==
    \/ \E m \in Times : PersistMonth(m) \/ RemoveMonth(m)
    \/ \E m \in Times : PersistYear(Year(m))
    \/ \E b \in Blocks : RemoveBlock(b)
    \/ EndMigration

LoadCache ==
    \/ LoadFails("latest", "loadLatest") \/ LoadLatest
    \/ LoadFails("currentYear", "loadMonths") \/ LoadMonths
    \/ LoadFails("pastYears", "loadYears") \/ LoadYearsAndMigrate

(***************************************************************************)
(* The environment.                                                        *)
(***************************************************************************)
MonthPasses ==
    /\ now < MaxMonth
    /\ now' = now + 1
    /\ UNCHANGED <<disk, latest, writer, counters, pc, loaded, at, recorded, saved, spoiled,
                   crashes, copies>>

\* The process dies, and is started again.  writeFile truncates and then
\* writes: a file that is being written keeps its old content, or is torn.
Intact == UNCHANGED <<blockFiles, monthFiles, yearFiles, torn, spoiled>>
TornBlock ==
    /\ writing # NoBlock
    /\ blockFiles' = [blockFiles EXCEPT ![writing] = {}]
    /\ spoiled' = spoiled \cup blockFiles[writing]
    /\ torn' = torn \cup {"latest"}
    /\ UNCHANGED <<monthFiles, yearFiles>>
TornMonth(m) ==
    /\ pc = "migrating" /\ m \in dirtyMonths
    /\ monthFiles' = ClearMonth(monthFiles, m)
    /\ spoiled' = spoiled \cup {a \in Accesses : at[a] = m /\ monthFiles[a] > 0}
    /\ torn' = torn \cup {"currentYear"}
    /\ UNCHANGED <<blockFiles, yearFiles>>
TornYear(y) ==
    /\ pc = "migrating" /\ dirtyMonths = {} /\ y \in dirtyYears
    /\ yearFiles' = ClearYear(yearFiles, y)
    /\ spoiled' = spoiled \cup {a \in Accesses : Year(at[a]) = y /\ yearFiles[a] > 0}
    /\ torn' = torn \cup {"pastYears"}
    /\ UNCHANGED <<blockFiles, monthFiles>>

Crash ==
    /\ crashes < MaxCrashes
    /\ crashes' = crashes + 1
    /\ copies' = IF pc = "migrating" THEN 2 * copies ELSE copies
    /\ Intact \/ TornBlock \/ \E m \in Times : TornMonth(m) \/ TornYear(Year(m))
    /\ sequence' = [b \in Blocks |-> {}] /\ entriesCount' = [b \in Blocks |-> 0]
    /\ latestId' = NoBlock /\ dirtyIds' = {} /\ timer' = FALSE
    /\ writing' = NoBlock /\ snapshot' = {} /\ toWrite' = {}
    /\ months' = Nothing /\ years' = Nothing /\ dirtyMonths' = {} /\ dirtyYears' = {}
    /\ oldMonths' = {} /\ oldBlocks' = {}
    /\ pc' = "loadLatest" /\ loaded' = FALSE
    /\ UNCHANGED <<now, at, recorded, saved>>

Next ==
    \/ \E a \in Accesses : AddBlobAccess(a)
    \/ Persist \/ WriteBlock \/ LoadCache \/ Migrate
    \/ MonthPasses \/ Crash

Spec == Init /\ [][Next]_vars

\* Timers expire and writes end.
FairSpec == Spec /\ WF_vars(Persist) /\ WF_vars(WriteBlock)

(***************************************************************************)
(* What the API answers: the sum over the caches.                          *)
(***************************************************************************)
FetchAccessCounts(a) == IF a \in Entries(Blocks) THEN 1 ELSE 0
FetchBlobAccessCounts(a) == FetchAccessCounts(a) + months[a] + years[a]

(***************************************************************************)
(* Properties.                                                             *)
(***************************************************************************)
Dirs == {"latest", "currentYear", "pastYears"}
Counts == [Accesses -> Nat]

FilesTyped ==
    /\ blockFiles \in [Blocks -> SUBSET Accesses]
    /\ monthFiles \in Counts /\ yearFiles \in Counts
    /\ torn \subseteq Dirs
LatestTyped ==
    /\ sequence \in [Blocks -> SUBSET Accesses]
    /\ entriesCount \in [Blocks -> Nat]
    /\ latestId \in IF loaded THEN Blocks ELSE {NoBlock}
    /\ dirtyIds \subseteq Blocks /\ toWrite \subseteq Blocks
    /\ timer \in BOOLEAN /\ timer = (dirtyIds # {})
    /\ writing \in Blocks \cup {NoBlock} /\ snapshot \subseteq Accesses
CountersTyped ==
    /\ months \in Counts /\ years \in Counts
    /\ dirtyMonths \subseteq Times /\ oldMonths \subseteq Times
    /\ dirtyYears \subseteq {Year(m) : m \in Times} /\ oldBlocks \subseteq Blocks
    /\ pc \in {"loadLatest", "loadMonths", "loadYears", "migrating", "done", "failed"}
    /\ loaded \in BOOLEAN
WorldTyped ==
    /\ now \in Times /\ at \in [Accesses -> Times]
    /\ recorded \subseteq Accesses /\ saved \subseteq Accesses /\ spoiled \subseteq Accesses
    /\ crashes \in Nat /\ copies \in Nat

\* The type invariant: with the timer set exactly when a block is dirty, and a
\* latest block as soon as the cache is loaded.
AccessTypeOK == FilesTyped /\ LatestTyped /\ CountersTyped /\ WorldTyped

\* The writer misses nothing: an access in a block is in the block's file, in the
\* bytes being written, or its block is still to be written.  Accesses go on
\* while blocks are being written.
NothingIsMissed ==
    \A b \in Blocks : \A a \in sequence[b] :
        \/ a \in blockFiles[b]
        \/ writing = b /\ a \in snapshot
        \/ b \in dirtyIds \cup toWrite

OnDisk(a) == (\E b \in Blocks : a \in blockFiles[b]) \/ monthFiles[a] > 0 \/ yearFiles[a] > 0

\* An access that has been saved stays in some file, through migrations, years and
\* crashes; only a torn file takes accesses with it.
SavedIsKept == \A a \in saved : OnDisk(a) \/ a \in spoiled

\* After a migration a saved access is counted, and once: each crash during a migration
\* may double the count of what was being moved, nothing else may.
CountedOnceUnlessCut ==
    pc = "done" => \A a \in saved : FetchBlobAccessCounts(a) \in 1..copies

\* An access gets into a file unless a crash comes first.
AccessesAreSaved ==
    \A a \in Accesses :
        (\E b \in Blocks : a \in sequence[b]) ~> (a \in saved \/ \A b \in Blocks : a \notin sequence[b])

=============================================================================
