-------------------------- MODULE SealedBlocksProofs --------------------------
(***************************************************************************)
(* Theorems about a storage block that is stored encrypted: about its key, *)
(* the state machine KeysSpec of EncryptionKeys, and about its files on the*)
(* backends, Spec of BlockFiles.  They hold for any number of fetchers,    *)
(* partitions and keys, and for any callers, blocks and backends, with     *)
(* statements and calls failing and restarts at any step.  The two state   *)
(* machines share nothing; each part below is about one of them.           *)
(***************************************************************************)
EXTENDS EncryptionKeys, BlockFiles, FiniteSetTheorems, TLAPS

(***************************************************************************)
(* EncryptionKeys: types.  That no block is sealed with an undefined key   *)
(* needs to know that FetchKey never returns one.                          *)
(***************************************************************************)
KeyFetched == \A c \in Fetchers : pc[c] \in {"insert", "use"} => key[c] \in Keys
TypeInv == KeysTypeOK /\ KeyFetched

LEMMA TypeInit == KeysInit => TypeInv
  BY ExistingAssumption, NoKeyAssumption
  DEF KeysInit, TypeInv, KeysTypeOK, KeyFetched, Blocks

\* One step of a caller keeps the types.
LEMMA TypeStep ==
  ASSUME TypeInv, NEW c \in Fetchers, Step(c)
  PROVE  TypeInv'
  <1> USE NoKeyAssumption DEF TypeInv, KeysTypeOK, KeyFetched, Goto
  <1>1. CASE FetchKey(c)
    <2>1. PICK p \in Partitions :
            /\ part' = [part EXCEPT ![c] = p]
            /\ \E k \in {NoKey} \cup {b.key : b \in {w \in written : w.partition = p}} :
                 sealed' = [sealed EXCEPT ![c] = k]
            /\ key' = [key EXCEPT ![c] = cached[p]]
            /\ pc' = [pc EXCEPT ![c] = IF cached[p] = NoKey THEN "query" ELSE "use"]
      BY <1>1 DEF FetchKey
    <2>2. sealed' \in [Fetchers -> Keys \cup {NoKey}]
      BY <2>1 DEF Blocks
    <2>3. KeyFetched'
      BY <2>1
    <2> QED
      BY <1>1, <2>1, <2>2, <2>3 DEF FetchKey
  <1>2. CASE QueryDEK(c)
    BY <1>2 DEF QueryDEK
  <1>3. CASE UseRow(c)
    BY <1>3 DEF UseRow
  <1>4. CASE DrawKey(c)
    BY <1>4 DEF DrawKey
  <1>5. CASE InsertDEK(c)
    BY <1>5 DEF InsertDEK
  <1>6. CASE Encrypt(c)
    BY <1>6 DEF Encrypt, Blocks
  <1>7. CASE Decrypt(c)
    BY <1>7 DEF Decrypt
  <1> QED
    BY <1>1, <1>2, <1>3, <1>4, <1>5, <1>6, <1>7 DEF Step

LEMMA TypeNext == TypeInv /\ [KeysNext]_keysVars => TypeInv'
  <1> SUFFICES ASSUME TypeInv, [KeysNext]_keysVars
               PROVE  TypeInv'
    OBVIOUS
  <1>1. CASE Restart
    BY <1>1 DEF Restart, TypeInv, KeysTypeOK, KeyFetched
  <1>2. CASE UNCHANGED keysVars
    BY <1>2 DEF keysVars, call, TypeInv, KeysTypeOK, KeyFetched
  <1> QED
    BY <1>1, <1>2, TypeStep DEF KeysNext

\* Every table, cache entry and local of StorageEncryptionManager keeps its
\* type; no block is ever sealed with an undefined key.
THEOREM KeysTypeCorrect == KeysSpec => []KeysTypeOK
  <1>1. TypeInv => KeysTypeOK
    BY DEF TypeInv
  <1> QED
    BY <1>1, TypeInit, TypeNext, PTL DEF KeysSpec

LEMMA TypeInvariant == KeysSpec => []TypeInv
  BY TypeInit, TypeNext, PTL DEF KeysSpec

(***************************************************************************)
(* Every key in use is backed: stored, about to be stored by somebody, or  *)
(* storing one for its partition has failed.                               *)
(***************************************************************************)
Sound(p, k) == p \in spoiled \/ Backed(p, k)

CachedIsSound == \A p \in Partitions : cached[p] # NoKey => Sound(p, cached[p])
UsedIsSound   == \A c \in Fetchers : pc[c] = "use" => Sound(part[c], key[c])
RowIsStored   == \A c \in Fetchers : pc[c] = "queried" /\ key[c] # NoKey
                                        => dek[part[c]] = key[c]
KeysInv == EveryBlockDecrypts /\ CachedIsSound /\ UsedIsSound /\ RowIsStored

LEMMA KeysInvInit == KeysInit => KeysInv
  BY ExistingAssumption
  DEF KeysInit, KeysInv, EveryBlockDecrypts, CachedIsSound, UsedIsSound, RowIsStored,
      Sound, Backed, Inserting

\* What is sound stays sound, whoever takes a step.
LEMMA SoundStays ==
  ASSUME TypeInv, [KeysNext]_keysVars, NEW p \in Partitions, NEW k \in Keys, Sound(p, k)
  PROVE  Sound(p, k)'
  <1> USE NoKeyAssumption DEF TypeInv, KeysTypeOK, Goto, Sound, Backed, Inserting
  <1>1. CASE p \in spoiled
    BY <1>1 DEF KeysNext, Step, FetchKey, QueryDEK, UseRow, DrawKey, InsertDEK, Encrypt,
                Decrypt, Restart, keysVars
  <1>2. CASE dek[p] = k
    BY <1>2 DEF KeysNext, Step, FetchKey, QueryDEK, UseRow, DrawKey, InsertDEK, Encrypt,
                Decrypt, Restart, keysVars
  <1>3. ASSUME NEW d \in Fetchers, Inserting(d, p), key[d] = k
        PROVE  Sound(p, k)'
    <2>1. CASE Restart
      BY <1>3, <2>1 DEF Restart
    <2>2. CASE UNCHANGED keysVars
      BY <1>3, <2>2 DEF keysVars, call
    <2>3. ASSUME NEW c \in Fetchers, Step(c), c # d
          PROVE  Sound(p, k)'
      <3>1. Inserting(d, p)' /\ key'[d] = k
        BY <1>3, <2>3 DEF Step, FetchKey, QueryDEK, UseRow, DrawKey, InsertDEK,
                          Encrypt, Decrypt
      <3> QED
        BY <3>1
    <2>4. CASE Step(d)
      <3>1. InsertDEK(d)
        BY <1>3, <2>4 DEF Step, FetchKey, QueryDEK, UseRow, DrawKey, Encrypt, Decrypt
      <3> QED
        BY <1>3, <3>1 DEF InsertDEK
    <2> QED
      BY <2>1, <2>2, <2>3, <2>4 DEF KeysNext
  <1> QED
    BY <1>1, <1>2, <1>3

LEMMA KeysInvStep ==
  ASSUME TypeInv, TypeInv', KeysInv, NEW c \in Fetchers, Step(c)
  PROVE  KeysInv'
  <1>0. [KeysNext]_keysVars
    BY DEF KeysNext
  <1>1. \A p \in Partitions : \A k \in Keys : Sound(p, k) => Sound(p, k)'
    BY <1>0, SoundStays
  <1> USE NoKeyAssumption DEF TypeInv, KeysTypeOK, KeyFetched, KeysInv, Goto
  <1>2. EveryBlockDecrypts'
    <2>1. \A b \in written : Sound(b.partition, b.key)'
      BY <1>1 DEF EveryBlockDecrypts, Sound, Blocks
    <2>2. CASE Encrypt(c)
      BY <1>1, <2>1, <2>2 DEF Encrypt, UsedIsSound, EveryBlockDecrypts, Sound
    <2>3. CASE ~Encrypt(c)
      <3>1. written' = written
        BY <2>3 DEF Step, FetchKey, QueryDEK, UseRow, DrawKey, InsertDEK, Decrypt
      <3> QED
        BY <2>1, <3>1 DEF EveryBlockDecrypts, Sound
    <2> QED
      BY <2>2, <2>3
  <1>3. CachedIsSound'
    <2> SUFFICES ASSUME NEW p \in Partitions, cached'[p] # NoKey
                 PROVE  Sound(p, cached[p])'
      BY DEF CachedIsSound
    <2>1. CASE cached'[p] = cached[p]
      BY <1>1, <2>1 DEF CachedIsSound, Sound, Backed, Inserting
    <2>2. CASE cached'[p] # cached[p]
      <3>1. UseRow(c) \/ DrawKey(c)
        BY <2>2 DEF Step, FetchKey, QueryDEK, InsertDEK, Encrypt, Decrypt
      <3>2. CASE UseRow(c)
        BY <2>2, <3>2 DEF UseRow, RowIsStored, Sound, Backed
      <3>3. CASE DrawKey(c)
        BY <2>2, <3>3 DEF DrawKey, Sound, Backed, Inserting
      <3> QED
        BY <3>1, <3>2, <3>3
    <2> QED
      BY <2>1, <2>2
  <1>4. UsedIsSound'
    <2> SUFFICES ASSUME NEW d \in Fetchers, pc'[d] = "use"
                 PROVE  Sound(part[d], key[d])'
      BY DEF UsedIsSound
    <2>1. CASE pc[d] = "use" /\ part'[d] = part[d] /\ key'[d] = key[d]
      BY <1>1, <2>1 DEF UsedIsSound, Sound, Backed, Inserting
    <2>2. CASE ~(pc[d] = "use" /\ part'[d] = part[d] /\ key'[d] = key[d])
      <3>1. c = d /\ (FetchKey(d) \/ UseRow(d) \/ InsertDEK(d))
        BY <2>2 DEF Step, FetchKey, QueryDEK, UseRow, DrawKey, InsertDEK, Encrypt,
                    Decrypt
      <3>2. CASE FetchKey(d)
        <4>1. cached[part'[d]] # NoKey /\ key'[d] = cached[part'[d]]
          BY <3>2 DEF FetchKey
        <4>2. Sound(part'[d], key'[d])
          BY <4>1 DEF CachedIsSound
        <4> QED
          BY <1>1, <4>1, <4>2 DEF Sound, Backed, Inserting
      <3>3. CASE UseRow(d)
        BY <3>3 DEF UseRow, RowIsStored, Sound, Backed
      <3>4. CASE InsertDEK(d)
        BY <3>4 DEF InsertDEK, Sound, Backed
      <3> QED
        BY <3>1, <3>2, <3>3, <3>4
    <2> QED
      BY <2>1, <2>2
  <1>5. RowIsStored'
    BY DEF RowIsStored, Step, FetchKey, QueryDEK, UseRow, DrawKey, InsertDEK, Encrypt,
           Decrypt
  <1> QED
    BY <1>2, <1>3, <1>4, <1>5

LEMMA KeysInvRestart ==
  ASSUME TypeInv, KeysInv, Restart
  PROVE  KeysInv'
  <1>1. \A p \in Partitions : \A k \in Keys : Sound(p, k) => Sound(p, k)'
    BY SoundStays DEF KeysNext
  <1>2. EveryBlockDecrypts'
    BY <1>1 DEF Restart, EveryBlockDecrypts, Sound, KeysInv, TypeInv, KeysTypeOK, Blocks
  <1>3. CachedIsSound' /\ UsedIsSound' /\ RowIsStored'
    BY DEF Restart, CachedIsSound, UsedIsSound, RowIsStored
  <1> QED
    BY <1>2, <1>3 DEF KeysInv

LEMMA KeysInvariant == KeysSpec => []KeysInv
  <1>1. TypeInv /\ TypeInv' /\ KeysInv /\ [KeysNext]_keysVars => KeysInv'
    <2> SUFFICES ASSUME TypeInv, TypeInv', KeysInv, [KeysNext]_keysVars
                 PROVE  KeysInv'
      OBVIOUS
    <2>1. CASE UNCHANGED keysVars
      BY <2>1 DEF keysVars, call, KeysInv, EveryBlockDecrypts, CachedIsSound, UsedIsSound,
                  RowIsStored, Sound, Backed, Inserting
    <2> QED
      BY <2>1, KeysInvStep, KeysInvRestart DEF KeysNext
  <1> QED
    BY <1>1, KeysInvInit, TypeInvariant, PTL DEF KeysSpec

\* A block that was stored encrypted can be decrypted with the key in
\* data_encryption_keys, or with one that FetchKey is inserting there, unless
\* an insert for its partition has failed.
THEOREM BlocksDecrypt == KeysSpec => []EveryBlockDecrypts
  <1>1. KeysInv => EveryBlockDecrypts
    BY DEF KeysInv
  <1> QED
    BY <1>1, KeysInvariant, PTL

(***************************************************************************)
(* Reading.                                                                *)
(***************************************************************************)
SealedIsStored ==
    \A c \in Fetchers : sealed[c] # NoKey =>
        [partition |-> part[c], key |-> sealed[c]] \in written

LEMMA SealedNext == TypeInv /\ SealedIsStored /\ [KeysNext]_keysVars => SealedIsStored'
  <1> SUFFICES ASSUME TypeInv, SealedIsStored, [KeysNext]_keysVars
               PROVE  SealedIsStored'
    OBVIOUS
  <1> USE DEF TypeInv, KeysTypeOK, SealedIsStored
  <1>1. ASSUME NEW c \in Fetchers, FetchKey(c)
        PROVE  SealedIsStored'
    <2>1. PICK p \in Partitions :
            /\ part' = [part EXCEPT ![c] = p]
            /\ \E k \in {NoKey} \cup {b.key : b \in {w \in written : w.partition = p}} :
                 sealed' = [sealed EXCEPT ![c] = k]
      BY <1>1 DEF FetchKey
    <2>2. PICK k \in {NoKey} \cup {b.key : b \in {w \in written : w.partition = p}} :
            sealed' = [sealed EXCEPT ![c] = k]
      BY <2>1
    <2>3. k # NoKey => [partition |-> p, key |-> k] \in written
      BY <2>2 DEF Blocks
    <2> QED
      BY <1>1, <2>1, <2>2, <2>3 DEF FetchKey
  <1>2. ASSUME NEW c \in Fetchers, Step(c), ~FetchKey(c)
        PROVE  SealedIsStored'
    BY <1>2 DEF Step, QueryDEK, UseRow, DrawKey, InsertDEK, Encrypt, Decrypt
  <1>3. CASE Restart
    BY <1>3 DEF Restart
  <1>4. CASE UNCHANGED keysVars
    BY <1>4 DEF keysVars, call
  <1> QED
    BY <1>1, <1>2, <1>3, <1>4 DEF KeysNext

\* A caller of Decrypt has fetched the key its block was sealed with, unless
\* two callers have drawn keys for the partition or an insert has failed.
THEOREM DecryptionWorks == KeysSpec => []DecryptionSucceeds
  <1>1. KeysInit => SealedIsStored
    BY DEF KeysInit, SealedIsStored
  <1>2. TypeInv /\ KeysInv /\ SealedIsStored => DecryptionSucceeds
    <2> SUFFICES ASSUME TypeInv, KeysInv, SealedIsStored,
                        NEW c \in Fetchers, pc[c] = "use", sealed[c] # NoKey,
                        key[c] # sealed[c], part[c] \notin spoiled
                 PROVE  Contested(part[c])
      BY DEF DecryptionSucceeds
    <2>1. Backed(part[c], key[c])
      BY DEF KeysInv, UsedIsSound, Sound
    <2>2. Backed(part[c], sealed[c])
      BY DEF KeysInv, EveryBlockDecrypts, SealedIsStored
    <2>3. ASSUME NEW k \in Keys, NEW l \in Keys, dek[part[c]] = k,
                 Backed(part[c], l), k # l
          PROVE  Contested(part[c])
      BY <2>3, NoKeyAssumption DEF Backed, Contested
    <2>4. key[c] \in Keys /\ sealed[c] \in Keys
      BY DEF TypeInv, KeysTypeOK, KeyFetched
    <2>5. CASE dek[part[c]] \in {key[c], sealed[c]}
      BY <2>1, <2>2, <2>3, <2>4, <2>5
    <2>6. CASE dek[part[c]] \notin {key[c], sealed[c]}
      BY <2>1, <2>2, <2>6 DEF Backed, Contested
    <2> QED
      BY <2>5, <2>6
  <1> QED
    BY <1>1, <1>2, SealedNext, TypeInvariant, KeysInvariant, PTL DEF KeysSpec

(***************************************************************************)
(* Partitions that have had a key from the start.                          *)
(***************************************************************************)
OldInv ==
    \A p \in Existing :
        /\ dek[p] \in Keys
        /\ cached[p] \in {NoKey, dek[p]}
        /\ \A b \in written : b.partition = p => b.key = dek[p]
        /\ \A c \in Fetchers : part[c] = p =>
               /\ pc[c] # "insert"
               /\ pc[c] \in {"queried", "use"} => key[c] = dek[p]

LEMMA OldNext == TypeInv /\ OldInv /\ [KeysNext]_keysVars => OldInv'
  <1> SUFFICES ASSUME TypeInv, OldInv, [KeysNext]_keysVars, NEW p \in Existing
               PROVE  OldInv!(p)'
    BY DEF OldInv
  <1> USE ExistingAssumption, NoKeyAssumption DEF TypeInv, KeysTypeOK, Goto
  <1>1. ASSUME NEW c \in Fetchers, Step(c)
        PROVE  OldInv!(p)'
    <2>1. dek'[p] = dek[p]
      BY <1>1 DEF OldInv, Step, FetchKey, QueryDEK, UseRow, DrawKey, InsertDEK, Encrypt,
                  Decrypt
    <2>2. cached'[p] \in {NoKey, dek[p]}
      BY <1>1 DEF OldInv, Step, FetchKey, QueryDEK, UseRow, DrawKey, InsertDEK, Encrypt,
                  Decrypt
    <2>3. \A b \in written' : b.partition = p => b.key = dek[p]
      BY <1>1 DEF OldInv, Step, FetchKey, QueryDEK, UseRow, DrawKey, InsertDEK, Encrypt,
                  Decrypt
    <2>4. ASSUME NEW d \in Fetchers, part'[d] = p
          PROVE  /\ pc'[d] # "insert"
                 /\ pc'[d] \in {"queried", "use"} => key'[d] = dek[p]
      <3>1. CASE d # c
        BY <1>1, <2>4, <3>1 DEF OldInv, Step, FetchKey, QueryDEK, UseRow, DrawKey,
                                InsertDEK, Encrypt, Decrypt
      <3>2. CASE d = c /\ FetchKey(c)
        BY <2>4, <3>2 DEF OldInv, FetchKey
      <3>3. CASE d = c /\ ~FetchKey(c)
        BY <1>1, <2>4, <3>3 DEF OldInv, Step, QueryDEK, UseRow, DrawKey, InsertDEK,
                                Encrypt, Decrypt
      <3> QED
        BY <3>1, <3>2, <3>3
    <2> QED
      BY <2>1, <2>2, <2>3, <2>4 DEF OldInv
  <1>2. CASE Restart
    BY <1>2 DEF Restart, OldInv
  <1>3. CASE UNCHANGED keysVars
    BY <1>3 DEF keysVars, call, OldInv
  <1> QED
    BY <1>1, <1>2, <1>3 DEF KeysNext

\* Blocks of a partition with a stored key can be decrypted for ever, however
\* many callers there are and whatever fails.
THEOREM OldPartitionsStaySafe == KeysSpec => []OldPartitionsAreSafe
  <1>1. KeysInit => OldInv
    BY ExistingAssumption, NoKeyAssumption DEF KeysInit, OldInv
  <1>2. OldInv => OldPartitionsAreSafe
    BY DEF OldInv, OldPartitionsAreSafe
  <1> QED
    BY <1>1, <1>2, OldNext, TypeInvariant, PTL DEF KeysSpec

(***************************************************************************)
(* BlockFiles: types.  The lines of the backends are left out: nothing     *)
(* below depends on who waits for whom.                                    *)
(***************************************************************************)
Contents == [version : Nat, whole : BOOLEAN]
Points(op) == CASE op = "none" -> {"done"}
                [] op = "write" -> {"mkdir", "encrypt", "store", "info", "locate", "failed"}
                [] op = "replicate" -> {"read", "mkdir", "store", "locate", "failed"}
                [] op = "download" -> {"read", "decrypt", "failed"}
                [] op = "free" -> {"delete", "forget", "free", "reset", "failed"}
Ops == {"none", "write", "replicate", "download", "free"}
AllPoints == {"done", "mkdir", "encrypt", "store", "info", "locate", "read", "decrypt", "delete",
              "forget", "free", "reset", "failed"}
Tasks == [op : Ops, at : AllPoints, block : StorageBlocks \cup {0}, backend : Backends \cup {0},
          data : Contents, doubt : BOOLEAN, targets : SUBSET Backends]

FilesTypeOK ==
    /\ backends # {} /\ backends \subseteq rows /\ rows \subseteq Backends
    /\ files \in [Backends -> [StorageBlocks -> Contents]]
    /\ info \in [StorageBlocks -> Contents]
    /\ locations \subseteq StorageBlocks \X Backends
    /\ free \subseteq StorageBlocks
    /\ version \in Nat
    /\ task \in [Callers -> Tasks]

\* Where a task is tells what it does; only the worker replicates and frees.
TaskOK(t) ==
    /\ t.at \in Points(t.op)
    /\ t.op # "none" => t.block \in StorageBlocks
    /\ t.at \in {"mkdir", "encrypt", "store", "info", "locate", "read"} => t.backend \in Backends
TasksOK == \A c \in Callers :
    TaskOK(task[c]) /\ (task[c].op \in {"replicate", "free"} => c = Worker)

(***************************************************************************)
(* The invariant.  A block that is written is located nowhere, and nobody  *)
(* else has it; ...                                                        *)
(***************************************************************************)
Writes(c, s) == task[c].op = "write" /\ task[c].block = s
FreeUnlocated == \A s \in free : LocationsOf(s) = {}
WritersAlone == \A c \in Callers, s \in StorageBlocks : Writes(c, s) =>
    /\ s \notin free /\ LocationsOf(s) = {}
    /\ \A d \in Callers : Writes(d, s) => d = c

\* ... a block that is freed is unreferenced, and nobody has it before it is free; ...
Freeing(t) == t.op = "free" /\ t.at # "failed" =>
    /\ t.block \in collected
    /\ t.at # "reset" => t.block \notin free /\ \A d \in Callers : ~ Writes(d, t.block)
    /\ t.at \in {"delete", "forget"} =>
          LocationsOf(t.block) \subseteq t.targets /\ t.backend \in t.targets
    /\ t.at = "free" => LocationsOf(t.block) = {}

\* ... what is copied is from a located file, ...
Trusted(s, b) ==
    \/ s \in collected \/ <<s, b>> \in doubtful
    \/ files[b][s] = info[s] /\ info[s].whole
Copying(t) == t.op = "replicate" /\ t.at # "failed" =>
    /\ LocationsOf(t.block) # {} /\ t.targets # {} /\ t.targets \cap LocationsOf(t.block) = {}
    /\ IF t.at = "read" THEN t.backend \in LocationsOf(t.block) ELSE t.backend \in t.targets
    /\ t.at # "read" =>
          t.block \in collected \/ t.doubt \/ (t.data = info[t.block] /\ t.data.whole)
    /\ t.at = "locate" => Trusted(t.block, t.backend)

\* ... and what is written has been encrypted.
Written(t) == t.op = "write" =>
    /\ t.targets = {}
    /\ t.at \in {"store", "info", "locate"} => t.data.whole
    /\ t.at = "info" => files[t.backend][t.block] = t.data \/ <<t.block, t.backend>> \in doubtful
    /\ t.at = "locate" => Trusted(t.block, t.backend)

Located == \A s \in StorageBlocks, b \in Backends : <<s, b>> \in locations => Trusted(s, b)

Progress == \A c \in Callers : Freeing(task[c]) /\ Copying(task[c]) /\ Written(task[c])
FilesInv == FilesTypeOK /\ TasksOK /\ FreeUnlocated /\ WritersAlone /\ Progress /\ Located

(***************************************************************************)
(* Backends are numbered, so there is a fastest one.                       *)
(***************************************************************************)
LEMMA LeastOfNaturals ==
  ASSUME NEW B, B \subseteq Nat, B # {}
  PROVE  \E b \in B : \A other \in B : b <= other
  <1> DEFINE Below == {0..b : b \in B}
  <1>1. Below \subseteq FiniteSubsetsOf(Nat)
    <2>1. ASSUME NEW b \in B PROVE 0..b \subseteq Nat /\ IsFiniteSet(0..b)
      BY FS_Interval
    <2> QED
      BY <2>1 DEF FiniteSubsetsOf
  <1>2. Below # {}
    OBVIOUS
  <1> HIDE DEF Below
  <1>3. PICK x \in Below : \A y \in Below : <<y, x>> \notin StrictSubsetOrdering(Nat)
    BY <1>1, <1>2, FS_StrictSubsetOrderingWellFounded, WFMin
  <1>4. PICK b \in B : x = 0..b
    BY <1>3 DEF Below
  <1>5. ASSUME NEW other \in B, ~ (b <= other) PROVE FALSE
    <2>1. 0..other \in Below
      BY DEF Below
    <2>2. other \in Nat /\ b \in Nat /\ other < b
      BY <1>5
    <2>3. 0..other \subseteq 0..b /\ b \in 0..b /\ b \notin 0..other
      BY <2>2
    <2>4. <<0..other, 0..b>> \in StrictSubsetOrdering(Nat)
      BY <2>2, <2>3 DEF StrictSubsetOrdering
    <2> QED
      BY <1>3, <1>4, <2>1, <2>4
  <1> QED
    BY <1>5

LEMMA FastestIsThere ==
  ASSUME NEW B, B \subseteq Backends, B # {}
  PROVE  Fastest(B) \in B
  <1>1. B \subseteq Nat
    BY BackendsExist DEF Backends
  <1> QED
    BY <1>1, LeastOfNaturals DEF Fastest

\* A step sets the task of its caller.
LEMMA ProceedSets ==
  ASSUME FilesTypeOK, NEW c \in Callers, NEW next, Proceed(c, next)
  PROVE  task' = [task EXCEPT ![c] = next]
  BY DEF Proceed

LEMMA TasksAreTyped ==
  ASSUME FilesTypeOK, TasksOK, NEW c \in Callers
  PROVE  /\ task[c] \in Tasks /\ task[c].op \in Ops /\ task[c].at \in Points(task[c].op)
         /\ task[c].targets \subseteq Backends
         /\ task[c].op # "none" => task[c].block \in StorageBlocks
         /\ task[c].at \in {"mkdir", "encrypt", "store", "info", "locate", "read"} =>
               task[c].backend \in Backends
         /\ task[c].op \in {"replicate", "free"} => c = Worker
         /\ task[c].data \in Contents
  BY DEF FilesTypeOK, TasksOK, TaskOK, Tasks

LEMMA PointsTell ==
  ASSUME NEW op \in Ops, NEW at \in Points(op)
  PROVE  /\ at \in {"encrypt", "info"} => op = "write"
         /\ at \in {"mkdir", "store", "locate"} => op \in {"write", "replicate"}
         /\ at = "read" => op \in {"replicate", "download"}
         /\ at = "decrypt" => op = "download"
         /\ at \in {"delete", "forget", "free", "reset"} => op = "free"
         /\ at = "done" <=> op = "none"
  BY DEF Points, AllPoints, Ops

LEMMA NoTaskTyped ==
  NoTask \in Tasks /\ TaskOK(NoTask) /\ NoTask.op = "none"
  BY DEF NoTask, NoFile, Tasks, Contents, Ops, AllPoints, Points, TaskOK

\* What is asked of a single task.
TaskInv(t) == Freeing(t) /\ Copying(t) /\ Written(t)

(***************************************************************************)
(* Init, and the steps that do not touch what is asked of a task.          *)
(***************************************************************************)
LEMMA FilesInit == Init => FilesInv
  <1> SUFFICES ASSUME Init PROVE FilesInv
    OBVIOUS
  <1> USE BackendsExist
  <1>1. PICK first \in Known :
          /\ locations = FullBlocks \X {first}
          /\ files = [b \in Backends |-> [s \in StorageBlocks |->
                        IF b = first THEN info[s] ELSE NoFile]]
    BY DEF Init
  <1>2. info \in [StorageBlocks -> Contents] /\ first \in Backends
    BY DEF Init, Sealed, NoFile, Contents, Backends
  <1>3. FilesTypeOK
    <2>1. NoFile \in Contents
      BY DEF NoFile, Contents
    <2> QED
      BY <1>1, <1>2, <2>1, NoTaskTyped DEF Init, FilesTypeOK, Backends
  <1>4. \A c \in Callers : task[c] = NoTask
    BY DEF Init
  <1>5. TasksOK /\ WritersAlone
    BY <1>4, NoTaskTyped DEF TasksOK, WritersAlone, Writes
  <1>6. FreeUnlocated
    BY <1>1 DEF Init, FreeUnlocated, LocationsOf
  <1>7. Progress
    BY <1>4, NoTaskTyped DEF Progress, Freeing, Copying, Written
  <1>8. Located
    BY <1>1, <1>2 DEF Init, Located, Trusted, Sealed
  <1> QED
    BY <1>3, <1>5, <1>6, <1>7, <1>8 DEF FilesInv

\* A crash ends all tasks.
LEMMA CrashKeeps == FilesInv /\ Crash => FilesInv'
  <1> SUFFICES ASSUME FilesInv, Crash PROVE FilesInv'
    OBVIOUS
  <1> USE DEF FilesInv, Crash
  <1>1. FilesTypeOK'
    BY NoTaskTyped DEF FilesTypeOK
  <1>2. \A c \in Callers : task'[c] = NoTask
    OBVIOUS
  <1>3. TasksOK' /\ WritersAlone' /\ Progress'
    BY <1>2, NoTaskTyped
    DEF TasksOK, WritersAlone, Writes, Progress, Freeing, Copying, Written, TaskOK
  <1>4. FreeUnlocated' /\ Located'
    BY DEF FreeUnlocated, LocationsOf, Located, Trusted
  <1> QED
    BY <1>1, <1>3, <1>4

\* So does nothing else in the tables that tasks are about.
Tables == <<files, info, locations, free, collected, doubtful>>

LEMMA BackendsKeep ==
  ASSUME FilesInv, UNCHANGED <<Tables, task, version>>,
         backends' # {}, backends' \subseteq rows', rows' \subseteq Backends
  PROVE  FilesInv'
  <1> USE DEF FilesInv, Tables
  <1>1. FilesTypeOK' /\ TasksOK'
    BY DEF FilesTypeOK, TasksOK, TaskOK
  <1>2. FreeUnlocated' /\ WritersAlone' /\ Located'
    BY DEF FreeUnlocated, WritersAlone, Writes, LocationsOf, Located, Trusted
  <1>3. Progress'
    BY DEF Progress, Freeing, Copying, Written, Writes, LocationsOf, Trusted
  <1> QED
    BY <1>1, <1>2, <1>3

(***************************************************************************)
(* Steps of a caller that change no table and no file.                     *)
(***************************************************************************)
LEMMA TaskTypes ==
  ASSUME FilesInv, NEW c \in Callers, NEW next \in Tasks, task' = [task EXCEPT ![c] = next],
         TaskOK(next), next.op \in {"replicate", "free"} => c = Worker
  PROVE  TasksOK' /\ task' \in [Callers -> Tasks]
  <1>1. task \in [Callers -> Tasks]
    BY DEF FilesInv, FilesTypeOK
  <1>2. task' \in [Callers -> Tasks]
    BY <1>1
  <1>3. ASSUME NEW d \in Callers
        PROVE  TaskOK(task'[d]) /\ (task'[d].op \in {"replicate", "free"} => d = Worker)
    BY <1>1 DEF FilesInv, TasksOK
  <1> QED
    BY <1>2, <1>3 DEF TasksOK, TaskOK

LEMMA NoNewWriter ==
  ASSUME FilesInv, NEW c \in Callers, NEW next, task' = [task EXCEPT ![c] = next],
         next.op = "write" => task[c].op = "write" /\ next.block = task[c].block
  PROVE  \A d \in Callers : \A s : Writes(d, s)' => Writes(d, s)
  BY DEF FilesInv, FilesTypeOK, Writes

LEMMA TaskStep ==
  ASSUME FilesInv, NEW c \in Callers, NEW next \in Tasks, task' = [task EXCEPT ![c] = next],
         UNCHANGED <<Tables, rows, backends, version>>,
         TaskOK(next), next.op \in {"replicate", "free"} => c = Worker,
         next.op = "write" => task[c].op = "write" /\ next.block = task[c].block,
         TaskInv(next)
  PROVE  FilesInv'
  <1>1. TasksOK' /\ FilesTypeOK'
    BY TaskTypes DEF FilesInv, FilesTypeOK, Tables
  <1>2. \A d \in Callers : \A s : Writes(d, s)' => Writes(d, s)
    BY NoNewWriter
  <1>3. \A s : LocationsOf(s)' = LocationsOf(s)
    BY DEF LocationsOf, Tables
  <1>4. FreeUnlocated' /\ WritersAlone' /\ Located'
    BY <1>2, <1>3 DEF FilesInv, FreeUnlocated, WritersAlone, Located, Trusted, Tables
  <1>5. ASSUME NEW d \in Callers PROVE Freeing(task[d])' /\ Copying(task[d])' /\ Written(task[d])'
    <2>1. task \in [Callers -> Tasks]
      BY DEF FilesInv, FilesTypeOK
    <2>2. TaskInv(task'[d])
      BY <2>1 DEF FilesInv, Progress, TaskInv
    <2>3. Freeing(task[d])'
      BY <1>2, <1>3, <2>2 DEF TaskInv, Freeing, Tables
    <2>4. Copying(task[d])' /\ Written(task[d])'
      BY <1>3, <2>2 DEF TaskInv, Copying, Written, Trusted, Tables
    <2> QED
      BY <2>3, <2>4
  <1> QED
    BY <1>1, <1>4, <1>5 DEF FilesInv, Progress

\* An exception ends a task, or leaves the worker where it is.
LEMMA ThrowKeeps ==
  ASSUME FilesInv, NEW c \in Callers, Throw(c), UNCHANGED <<Tables, rows, backends, version>>,
         task[c].op # "none"
  PROVE  FilesInv'
  <1>1. task[c] \in Tasks /\ TaskOK(task[c])
    BY DEF FilesInv, FilesTypeOK, TasksOK
  <1>2. CASE c = Worker
    <2> DEFINE next == [task[c] EXCEPT !.at = "failed"]
    <2>1. next \in Tasks /\ TaskOK(next)
      BY <1>1 DEF Tasks, TaskOK, Points, AllPoints, Ops
    <2>2. /\ next.op = task[c].op /\ next.block = task[c].block /\ next.at = "failed"
          /\ next.targets = task[c].targets
      BY <1>1 DEF Tasks
    <2>3. TaskInv(next)
      BY <2>2 DEF TaskInv, Freeing, Copying, Written, FilesInv, Progress
    <2>4. task' = [task EXCEPT ![c] = next]
      BY <1>2 DEF Throw, Proceed
    <2> HIDE DEF next
    <2> QED
      BY <1>2, <2>1, <2>2, <2>3, <2>4, TaskStep
  <1>3. CASE c # Worker
    <2>1. task' = [task EXCEPT ![c] = NoTask]
      BY <1>3 DEF Throw, Proceed
    <2>2. TaskInv(NoTask)
      BY NoTaskTyped DEF TaskInv, Freeing, Copying, Written
    <2> QED
      BY <2>1, <2>2, NoTaskTyped, TaskStep
  <1> QED
    BY <1>2, <1>3

LEMMA EndKeeps ==
  ASSUME FilesInv, NEW c \in Callers, Proceed(c, NoTask),
         UNCHANGED <<Tables, rows, backends, version>>
  PROVE  FilesInv'
  <1>1. TaskInv(NoTask)
    BY NoTaskTyped DEF TaskInv, Freeing, Copying, Written
  <1> QED
    BY <1>1, NoTaskTyped, TaskStep DEF Proceed

LEMMA MkdirKeeps ==
  ASSUME FilesInv, NEW c \in Callers, CreateDirectoryIfNotExisting(c)
  PROVE  FilesInv'
  <1>1. UNCHANGED <<Tables, rows, backends, version>>
    BY DEF CreateDirectoryIfNotExisting, tables, Tables
  <1>2. task[c] \in Tasks /\ TaskOK(task[c]) /\ task[c].at = "mkdir" /\ TaskInv(task[c])
    BY DEF FilesInv, FilesTypeOK, TasksOK, CreateDirectoryIfNotExisting, Progress, TaskInv
  <1>3. task[c].op \in {"write", "replicate"} /\ (task[c].op = "replicate" => c = Worker)
    BY <1>2, PointsTell DEF TaskOK, Tasks, FilesInv, TasksOK
  <1>4. CASE Throw(c)
    BY <1>1, <1>3, <1>4, ThrowKeeps
  <1>5. CASE Enter(c, IF task[c].op = "write" THEN "encrypt" ELSE "store")
    <2> DEFINE next == [task[c] EXCEPT !.at = IF task[c].op = "write" THEN "encrypt" ELSE "store"]
    <2>1. next \in Tasks /\ TaskOK(next)
      BY <1>2, <1>3 DEF Tasks, TaskOK, Points, AllPoints, Ops
    <2>2. /\ next.op = task[c].op /\ next.block = task[c].block /\ next.backend = task[c].backend
          /\ next.data = task[c].data /\ next.doubt = task[c].doubt
          /\ next.targets = task[c].targets
          /\ next.at = IF task[c].op = "write" THEN "encrypt" ELSE "store"
      BY <1>2 DEF Tasks
    <2>3. TaskInv(next)
      BY <1>2, <1>3, <2>2 DEF TaskInv, Freeing, Copying, Written
    <2>4. task' = [task EXCEPT ![c] = next]
      BY <1>5 DEF Enter, Proceed
    <2> HIDE DEF next
    <2> QED
      BY <1>1, <1>3, <2>1, <2>2, <2>3, <2>4, TaskStep
  <1> QED
    BY <1>4, <1>5 DEF CreateDirectoryIfNotExisting

LEMMA EncryptBlockKeeps ==
  ASSUME FilesInv, NEW c \in Callers, EncryptBlock(c)
  PROVE  FilesInv'
  <1>1. UNCHANGED <<Tables, rows, backends, version>>
    BY DEF EncryptBlock, tables, Tables
  <1>2. task[c] \in Tasks /\ TaskOK(task[c]) /\ task[c].at = "encrypt" /\ TaskInv(task[c])
    BY DEF FilesInv, FilesTypeOK, TasksOK, EncryptBlock, Progress, TaskInv
  <1>3. task[c].op = "write"
    BY <1>2, PointsTell DEF TaskOK, Tasks
  <1>4. CASE Throw(c)
    BY <1>1, <1>3, <1>4, ThrowKeeps
  <1>5. CASE Proceed(c, [task[c] EXCEPT !.at = "store", !.data.whole = TRUE])
    <2> DEFINE next == [task[c] EXCEPT !.at = "store", !.data.whole = TRUE]
               whole == [task[c].data EXCEPT !.whole = TRUE]
    <2>1. whole \in Contents /\ whole.whole
      BY <1>2 DEF Tasks, Contents
    <2>2. next = [task[c] EXCEPT !.at = "store", !.data = whole]
      BY <1>2 DEF Tasks
    <2>3. task' = [task EXCEPT ![c] = next]
      BY <1>5 DEF Proceed
    <2> HIDE DEF next, whole
    <2>4. next \in Tasks /\ TaskOK(next)
      BY <1>2, <1>3, <2>1, <2>2 DEF Tasks, TaskOK, Points, AllPoints, Ops
    <2>5. /\ next.op = "write" /\ next.block = task[c].block /\ next.at = "store"
          /\ next.data = whole /\ next.targets = task[c].targets
      BY <1>2, <1>3, <2>2 DEF Tasks
    <2>6. TaskInv(next)
      BY <1>2, <1>3, <2>1, <2>5 DEF TaskInv, Freeing, Copying, Written
    <2> QED
      BY <1>1, <1>3, <2>3, <2>4, <2>5, <2>6, TaskStep
  <1> QED
    BY <1>4, <1>5 DEF EncryptBlock

LEMMA DownloadEncryptedStorageBlockKeeps ==
  ASSUME FilesInv, NEW c \in Callers, NEW s \in StorageBlocks, NEW op, NEW targets,
         DownloadEncryptedStorageBlock(c, s, op, targets),
         \/ op = "download" /\ targets = {}
         \/ op = "replicate" /\ c = Worker /\ targets # {} /\ targets \subseteq backends
            /\ targets \cap LocationsOf(s) = {}
  PROVE  FilesInv'
  <1> DEFINE next == [NoTask EXCEPT !.op = op, !.at = "read", !.block = s,
                                    !.backend = Fastest(LocationsOf(s)), !.targets = targets]
  <1>1. UNCHANGED <<Tables, rows, backends, version>> /\ task' = [task EXCEPT ![c] = next]
    BY DEF DownloadEncryptedStorageBlock, tables, Tables, Proceed
  <1>2. Fastest(LocationsOf(s)) \in LocationsOf(s)
    BY FastestIsThere DEF DownloadEncryptedStorageBlock, LocationsOf
  <1>3. LocationsOf(s) \subseteq Backends
    BY DEF LocationsOf
  <1>4. NoTask \in Tasks
    BY NoTaskTyped
  <1>5. targets \subseteq Backends
    BY DEF FilesInv, FilesTypeOK
  <1>6. /\ next.op = op /\ next.at = "read" /\ next.block = s /\ next.targets = targets
        /\ next.backend \in LocationsOf(s)
    BY <1>2, <1>4 DEF Tasks
  <1>7. next \in Tasks
    BY <1>2, <1>3, <1>4, <1>5 DEF Tasks, Ops, AllPoints
  <1> HIDE DEF next
  <1>8. TaskOK(next)
    BY <1>3, <1>6 DEF TaskOK, Points
  <1>9. TaskInv(next)
    BY <1>6 DEF TaskInv, Freeing, Copying, Written, DownloadEncryptedStorageBlock
  <1> QED
    BY <1>1, <1>6, <1>7, <1>8, <1>9, TaskStep

LEMMA ReplicateKeeps ==
  ASSUME FilesInv, NEW s \in StorageBlocks, Replicate(s)
  PROVE  FilesInv'
  <1>1. FindReplicationBackends(s) \subseteq backends /\ FindReplicationBackends(s) # {}
        /\ FindReplicationBackends(s) \cap LocationsOf(s) = {}
    BY DEF Replicate, FindReplicationBackends
  <1> QED
    BY <1>1, DownloadEncryptedStorageBlockKeeps, BackendsExist DEF Replicate

LEMMA DownloadKeeps ==
  ASSUME FilesInv, NEW c \in Callers, NEW s \in StorageBlocks, Download(c, s)
  PROVE  FilesInv'
  BY DownloadEncryptedStorageBlockKeeps DEF Download

\* What is read of a located copy is what it belongs to, or is doubtful from then on.
LEMMA ReadFileKeeps ==
  ASSUME FilesInv, NEW c \in Callers, ReadFile(c)
  PROVE  FilesInv'
  <1> DEFINE t == task[c]
             file == files[t.backend][t.block]
             Has(data, doubt) == [t EXCEPT !.data = data, !.doubt = doubt,
                !.at = IF t.op = "download" THEN "decrypt" ELSE "mkdir",
                !.backend = IF t.op = "download" THEN @ ELSE Fastest(t.targets)]
  <1>1. UNCHANGED <<Tables, rows, backends, version>>
    BY DEF ReadFile, tables, Tables
  <1>2. t \in Tasks /\ TaskOK(t) /\ t.at = "read" /\ TaskInv(t)
    BY DEF FilesInv, FilesTypeOK, TasksOK, ReadFile, Progress, TaskInv
  <1>3. t.op \in {"replicate", "download"} /\ (t.op = "replicate" => c = Worker)
        /\ t.backend \in Backends /\ t.block \in StorageBlocks
    BY <1>2, PointsTell DEF TaskOK, Tasks, FilesInv, TasksOK
  <1>4. file \in Contents /\ Cut(file) \in Contents
    <2>1. file \in Contents
      BY <1>3 DEF FilesInv, FilesTypeOK
    <2> HIDE DEF file
    <2> QED
      BY <2>1 DEF Cut, Contents
  <1>5. ASSUME NEW data \in Contents, NEW doubt \in BOOLEAN, Proceed(c, Has(data, doubt)),
               doubt \/ (data = file /\ <<t.block, t.backend>> \notin doubtful)
        PROVE  FilesInv'
    <2> DEFINE next == Has(data, doubt)
    <2>1. task' = [task EXCEPT ![c] = next]
      BY <1>5 DEF Proceed
    <2>2. t.op = "replicate" => Fastest(t.targets) \in t.targets /\ t.targets \subseteq Backends
      BY <1>2, FastestIsThere DEF TaskInv, Copying, Tasks
    <2>3. next \in Tasks
      BY <1>2, <1>3, <2>2 DEF Tasks, AllPoints
    <2>4. /\ next.op = t.op /\ next.block = t.block /\ next.targets = t.targets
          /\ next.data = data /\ next.doubt = doubt
          /\ next.at = IF t.op = "download" THEN "decrypt" ELSE "mkdir"
          /\ t.op = "replicate" => next.backend \in t.targets
      BY <1>2, <1>3, <2>2 DEF Tasks
    <2> HIDE DEF next, Has
    <2>5. TaskOK(next)
      BY <1>3, <2>2, <2>4 DEF TaskOK, Points
    <2>6. t.op = "replicate" =>
            t.block \in collected \/ doubt \/ (data = info[t.block] /\ data.whole)
      <3>1. SUFFICES ASSUME t.op = "replicate", ~ doubt
                     PROVE  t.block \in collected \/ (data = info[t.block] /\ data.whole)
        OBVIOUS
      <3>2. <<t.block, t.backend>> \in locations
        BY <1>2, <3>1 DEF TaskInv, Copying, LocationsOf
      <3>3. Trusted(t.block, t.backend)
        BY <1>3, <3>2 DEF FilesInv, Located
      <3> QED
        BY <1>5, <3>1, <3>3 DEF Trusted
    <2>7. TaskInv(next)
      BY <1>2, <1>3, <2>4, <2>6 DEF TaskInv, Freeing, Copying, Written
    <2> QED
      BY <1>1, <1>3, <2>1, <2>3, <2>4, <2>5, <2>7, TaskStep
  <1>6. CASE Throw(c)
    BY <1>1, <1>3, <1>6, ThrowKeeps
  <1>7. \/ Proceed(c, Has(file, Copy(c) \in doubtful)) \/ Proceed(c, Has(Cut(file), TRUE))
        \/ Throw(c)
    BY DEF ReadFile
  <1>8. Copy(c) = <<t.block, t.backend>>
    BY DEF Copy
  <1>9. CASE Proceed(c, Has(file, Copy(c) \in doubtful))
    <2> DEFINE doubt == Copy(c) \in doubtful
    <2>1. doubt \in BOOLEAN /\ (doubt \/ <<t.block, t.backend>> \notin doubtful)
      BY <1>8
    <2>2. Proceed(c, Has(file, doubt))
      BY <1>9
    <2> HIDE DEF Has, file, t, doubt
    <2> QED
      BY <1>4, <1>5, <2>1, <2>2
  <1>10. CASE Proceed(c, Has(Cut(file), TRUE))
    <2> HIDE DEF Has, file, t
    <2> QED
      BY <1>4, <1>5, <1>10
  <1> QED
    BY <1>6, <1>7, <1>9, <1>10

LEMMA DecryptBlockKeeps ==
  ASSUME FilesInv, NEW c \in Callers, DecryptBlock(c)
  PROVE  FilesInv'
  <1>1. UNCHANGED <<Tables, rows, backends, version>>
    BY DEF DecryptBlock, tables, Tables
  <1>2. task[c].op # "none"
    BY TasksAreTyped, PointsTell DEF DecryptBlock, FilesInv
  <1> QED
    BY <1>1, <1>2, EndKeeps, ThrowKeeps DEF DecryptBlock

(***************************************************************************)
(* Steps that change the tables or the files.  Each is about one block.    *)
(***************************************************************************)
Here(s) ==
    /\ s \in free => LocationsOf(s) = {}
    /\ \A d \in Callers : Writes(d, s) =>
          /\ s \notin free /\ LocationsOf(s) = {}
          /\ \A e \in Callers : Writes(e, s) => e = d
    /\ \A d \in Callers : task[d].op # "none" /\ task[d].block = s =>
          Freeing(task[d]) /\ Copying(task[d]) /\ Written(task[d])
    /\ \A b \in Backends : <<s, b>> \in locations => Trusted(s, b)

Untouched(x) ==
    /\ info'[x] = info[x] /\ (x \in free' <=> x \in free) /\ (x \in collected' <=> x \in collected)
    /\ \A b \in Backends : /\ files'[b][x] = files[b][x]
                           /\ <<x, b>> \in locations' <=> <<x, b>> \in locations
                           /\ <<x, b>> \in doubtful' <=> <<x, b>> \in doubtful

Everywhere == \A s \in StorageBlocks : Here(s)

LEMMA InvIsHere ==
  FilesTypeOK /\ TasksOK =>
      (FreeUnlocated /\ WritersAlone /\ Progress /\ Located <=> Everywhere)
  <1> SUFFICES ASSUME FilesTypeOK, TasksOK
               PROVE  FreeUnlocated /\ WritersAlone /\ Progress /\ Located <=> Everywhere
    OBVIOUS
  <1> USE DEF Everywhere
  <1>1. ASSUME \A s \in StorageBlocks : Here(s)
        PROVE  FreeUnlocated /\ WritersAlone /\ Progress /\ Located
    <2>1. FreeUnlocated /\ WritersAlone /\ Located
      BY <1>1 DEF Here, FreeUnlocated, WritersAlone, Located, FilesTypeOK
    <2>2. ASSUME NEW d \in Callers PROVE Freeing(task[d]) /\ Copying(task[d]) /\ Written(task[d])
      <3>1. CASE task[d].op = "none"
        BY <3>1 DEF Freeing, Copying, Written
      <3>2. CASE task[d].op # "none"
        <4>1. task[d].block \in StorageBlocks
          BY <3>2 DEF TasksOK, TaskOK
        <4> QED
          BY <1>1, <3>2, <4>1 DEF Here
      <3> QED
        BY <3>1, <3>2
    <2> QED
      BY <2>1, <2>2 DEF Progress
  <1>2. ASSUME FreeUnlocated, WritersAlone, Progress, Located, NEW s \in StorageBlocks
        PROVE  Here(s)
    BY <1>2 DEF Here, FreeUnlocated, WritersAlone, Progress, Located
  <1> QED
    BY <1>1, <1>2

LEMMA BlockStep ==
  ASSUME FilesInv, NEW s \in StorageBlocks, NEW c \in Callers, NEW next \in Tasks,
         task' = [task EXCEPT ![c] = next], FilesTypeOK',
         TaskOK(next), next.op \in {"replicate", "free"} => c = Worker,
         next.op # "none" => next.block = s,
         \A x \in StorageBlocks \ {s} : Untouched(x),
         Here(s)'
  PROVE  FilesInv'
  <1>1. TasksOK'
    BY TaskTypes
  <1>2. ASSUME NEW x \in StorageBlocks \ {s} PROVE Here(x)'
    <2>1. Here(x) /\ Untouched(x)
      BY InvIsHere DEF FilesInv, Everywhere
    <2>2. \A d \in Callers : /\ Writes(d, x)' => Writes(d, x)
                             /\ task'[d].op # "none" /\ task'[d].block = x => task'[d] = task[d]
      BY DEF FilesInv, FilesTypeOK, Writes
    <2>3. LocationsOf(x)' = LocationsOf(x)
      BY <2>1 DEF Untouched, LocationsOf
    <2>4. \A b \in Backends : Trusted(x, b) => Trusted(x, b)'
      BY <2>1 DEF Untouched, Trusted
    <2>5. ASSUME NEW d \in Callers, task'[d].op # "none", task'[d].block = x
          PROVE  Freeing(task[d])' /\ Copying(task[d])' /\ Written(task[d])'
      <3>1. task'[d] = task[d] /\ Freeing(task[d]) /\ Copying(task[d]) /\ Written(task[d])
        BY <2>1, <2>2, <2>5 DEF Here
      <3>2. task[d] \in Tasks /\ TaskOK(task[d]) /\ task[d].block = x
        BY <2>5, <3>1 DEF FilesInv, FilesTypeOK, TasksOK
      <3>3. Freeing(task[d])'
        BY <2>1, <2>2, <2>3, <3>1, <3>2 DEF Freeing, Untouched
      <3>4. Copying(task[d])'
        <4>1. task[d].op = "replicate" /\ task[d].at # "failed" => task[d].backend \in Backends
          BY <3>1, <3>2 DEF Copying, LocationsOf, Tasks
        <4> QED
          BY <2>1, <2>3, <2>4, <3>1, <3>2, <4>1 DEF Copying, Untouched
      <3>5. Written(task[d])'
        BY <2>1, <2>4, <3>1, <3>2 DEF Written, Untouched, TaskOK
      <3> QED
        BY <3>3, <3>4, <3>5
    <2>6. \A b \in Backends : (<<x, b>> \in locations)' => Trusted(x, b)'
      BY <2>1, <2>4 DEF Here, Untouched
    <2>7. x \in free' => LocationsOf(x)' = {}
      BY <2>1, <2>3 DEF Here, Untouched
    <2>8. \A d \in Callers : Writes(d, x)' =>
             /\ x \notin free' /\ LocationsOf(x)' = {}
             /\ \A e \in Callers : Writes(e, x)' => e = d
      BY <2>1, <2>2, <2>3 DEF Here, Untouched
    <2> QED
      BY <2>5, <2>6, <2>7, <2>8 DEF Here
  <1>3. Everywhere'
    BY <1>2 DEF Everywhere
  <1>4. (FilesTypeOK /\ TasksOK =>
            (FreeUnlocated /\ WritersAlone /\ Progress /\ Located <=> Everywhere))'
    BY InvIsHere, PTL
  <1>5. (FreeUnlocated /\ WritersAlone /\ Progress /\ Located)'
    BY <1>1, <1>3, <1>4
  <1> QED
    BY <1>1, <1>5 DEF FilesInv

\* What the other tasks that have the block of a writer are doing: they download it, or they
\* have freed it and reset its iv.
LEMMA OthersOfWriter ==
  ASSUME FilesInv, NEW c \in Callers, NEW s \in StorageBlocks,
         Writes(c, s) \/ s \in free, NEW d \in Callers \ {c}, task[d].op # "none",
         task[d].block = s
  PROVE  /\ task[d].op # "write"
         /\ task[d].op = "replicate" => task[d].at = "failed"
         /\ task[d].op = "free" => task[d].at \in {"failed", "reset"}
         /\ LocationsOf(s) = {}
  <1>1. Freeing(task[d]) /\ Copying(task[d])
    BY DEF FilesInv, Progress
  <1>2. LocationsOf(s) = {} /\ ~ Writes(d, s)
    BY DEF FilesInv, FreeUnlocated, WritersAlone
  <1> QED
    BY <1>1, <1>2 DEF Freeing, Copying, Writes

LEMMA WriteStorageBlockKeeps ==
  ASSUME FilesInv, NEW c \in Callers, NEW s \in StorageBlocks, WriteStorageBlock(c, s)
  PROVE  FilesInv'
  <1> DEFINE empty == [NoTask.data EXCEPT !.version = version']
             next == [NoTask EXCEPT !.op = "write", !.at = "mkdir", !.block = s,
                                    !.backend = Fastest(backends), !.data.version = version']
  <1>1. /\ s \in free /\ free' = free \ {s} /\ version' = version + 1 /\ version' \in Nat
        /\ collected' = IF BeingReset(s) THEN collected ELSE collected \ {s}
        /\ task' = [task EXCEPT ![c] = next]
        /\ UNCHANGED <<rows, backends, files, info, locations, doubtful>>
    BY DEF WriteStorageBlock, Proceed, FilesInv, FilesTypeOK
  <1>2. Fastest(backends) \in backends /\ backends \subseteq Backends
    BY FastestIsThere DEF FilesInv, FilesTypeOK
  <1>3. empty \in Contents
    BY <1>1 DEF NoTask, NoFile, Contents
  <1>4. next = [NoTask EXCEPT !.op = "write", !.at = "mkdir", !.block = s,
                              !.backend = Fastest(backends), !.data = empty]
    BY DEF NoTask
  <1> HIDE DEF next, empty
  <1>5. /\ next \in Tasks /\ next.op = "write" /\ next.at = "mkdir" /\ next.block = s
        /\ next.backend \in Backends /\ next.targets = {}
    BY <1>2, <1>3, <1>4, NoTaskTyped DEF Tasks, Ops, AllPoints, NoTask
  <1>6. TaskOK(next)
    BY <1>5 DEF TaskOK, Points
  <1>7. FilesTypeOK'
    BY <1>1, <1>5 DEF FilesInv, FilesTypeOK
  <1>8. \A x \in StorageBlocks \ {s} : Untouched(x)
    BY <1>1 DEF Untouched
  <1>9. LocationsOf(s) = {} /\ LocationsOf(s)' = {} /\ \A d \in Callers : ~ Writes(d, s)
    BY <1>1 DEF FilesInv, FreeUnlocated, WritersAlone, LocationsOf
  <1>10. task'[c] = next /\ \A d \in Callers \ {c} : task'[d] = task[d]
    BY <1>1 DEF FilesInv, FilesTypeOK
  <1>11. \A d \in Callers : Writes(d, s)' => d = c
    BY <1>9, <1>10 DEF Writes
  <1>12. ASSUME NEW d \in Callers, task'[d].op # "none", task'[d].block = s
         PROVE  Freeing(task[d])' /\ Copying(task[d])' /\ Written(task[d])'
    <2>1. CASE d = c
      BY <1>5, <1>10, <2>1 DEF Freeing, Copying, Written
    <2>2. CASE d # c
      <3>1. /\ task'[d] = task[d] /\ task[d].op # "write"
            /\ task[d].op = "replicate" => task[d].at = "failed"
            /\ task[d].op = "free" => task[d].at \in {"failed", "reset"}
        BY <1>1, <1>10, <1>12, <2>2, OthersOfWriter
      <3>2. task[d].op = "free" /\ task[d].at # "failed" =>
               s \in collected /\ collected' = collected
        <4>1. task[d].op = "free" => d = Worker
          BY DEF FilesInv, TasksOK
        <4> QED
          BY <1>1, <1>10, <1>12, <2>2, <3>1, <4>1 DEF BeingReset, FilesInv, Progress, Freeing
      <3> QED
        BY <1>10, <1>12, <2>2, <3>1, <3>2 DEF Freeing, Copying, Written
    <2> QED
      BY <2>1, <2>2
  <1>13. \A b \in Backends : (<<s, b>> \in locations)' => Trusted(s, b)'
    BY <1>9 DEF LocationsOf
  <1>14. Here(s)'
    BY <1>1, <1>9, <1>11, <1>12, <1>13 DEF Here
  <1> QED
    BY <1>1, <1>5, <1>6, <1>7, <1>8, <1>14, BlockStep

\* Who stores or enters a copy of a block: it is the writer of the block or it replicates it,
\* nobody else writes the block, and what has not been entered yet is no location.
LEMMA OwnerOfCopy ==
  ASSUME FilesInv, NEW c \in Callers, task[c].at \in {"store", "info", "locate"}
  PROVE  /\ task[c] \in Tasks /\ TaskOK(task[c]) /\ TaskInv(task[c])
         /\ task[c].op \in {"write", "replicate"} /\ (task[c].op = "replicate" => c = Worker)
         /\ task[c].block \in StorageBlocks /\ task[c].backend \in Backends
         /\ task[c].block \notin free
         /\ <<task[c].block, task[c].backend>> \notin locations
         /\ \A d \in Callers : Writes(d, task[c].block) => d = c
         /\ \A d \in Callers \ {c} : task[d].op # "none" /\ task[d].block = task[c].block =>
               /\ task[d].op # "write"
               /\ task[d].op = "replicate" => task[d].at = "failed"
               /\ task[d].op = "free" => task[d].at \in {"failed", "reset"}
  <1> DEFINE t == task[c]
             s == t.block
  <1>1. t \in Tasks /\ TaskOK(t) /\ TaskInv(t)
    BY DEF FilesInv, FilesTypeOK, TasksOK, Progress, TaskInv
  <1>2. /\ t.op \in {"write", "replicate"} /\ (t.op = "replicate" => c = Worker)
        /\ s \in StorageBlocks /\ t.backend \in Backends
    BY <1>1, PointsTell DEF TaskOK, Tasks, FilesInv, TasksOK
  <1>3. CASE t.op = "write"
    <2>1. Writes(c, s)
      BY <1>3 DEF Writes
    <2>2. /\ s \notin free /\ LocationsOf(s) = {}
          /\ \A d \in Callers : Writes(d, s) => d = c
      BY <1>2, <2>1 DEF FilesInv, WritersAlone
    <2>3. <<s, t.backend>> \notin locations
      BY <1>2, <2>2 DEF LocationsOf
    <2>4. ASSUME NEW d \in Callers \ {c}, task[d].op # "none", task[d].block = s
          PROVE  /\ task[d].op # "write"
                 /\ task[d].op = "replicate" => task[d].at = "failed"
                 /\ task[d].op = "free" => task[d].at \in {"failed", "reset"}
      BY <1>2, <2>1, <2>4, OthersOfWriter
    <2> QED
      BY <1>1, <1>2, <2>2, <2>3, <2>4
  <1>4. CASE t.op = "replicate"
    <2>1. /\ LocationsOf(s) # {} /\ t.targets \cap LocationsOf(s) = {} /\ t.backend \in t.targets
      BY <1>1, <1>4 DEF TaskInv, Copying
    <2>2. s \notin free /\ <<s, t.backend>> \notin locations
      BY <1>2, <2>1 DEF LocationsOf, FilesInv, FreeUnlocated
    <2>3. \A d \in Callers : ~ Writes(d, s)
      BY <1>2, <2>1 DEF FilesInv, WritersAlone
    <2>4. ASSUME NEW d \in Callers \ {c}, task[d].op # "none", task[d].block = s
          PROVE  task[d].op \notin {"write", "replicate", "free"}
      BY <1>2, <1>4, <2>3, <2>4 DEF Writes, FilesInv, TasksOK
    <2> QED
      BY <1>1, <1>2, <2>2, <2>3, <2>4
  <1> QED
    BY <1>2, <1>3, <1>4

\* What a task asks for that is at rest asks for nothing of the tables but for its block to be
\* collected.
LEMMA AtRest ==
  ASSUME NEW d \in Callers, task'[d] = task[d], Freeing(task[d]),
         task[d].op # "write",
         task[d].op = "replicate" => task[d].at = "failed",
         task[d].op = "free" => task[d].at \in {"failed", "reset"},
         task[d].block \in collected => task[d].block \in collected'
  PROVE  Freeing(task[d])' /\ Copying(task[d])' /\ Written(task[d])'
  BY DEF Freeing, Copying, Written

\* A step of somebody who has a copy.

LEMMA CopyStep ==
  ASSUME FilesInv, NEW c \in Callers, task[c].at \in {"store", "info", "locate"},
         NEW next \in Tasks, task' = [task EXCEPT ![c] = next], TaskOK(next), FilesTypeOK',
         next.op # "none" => next.op = task[c].op /\ next.block = task[c].block,
         UNCHANGED <<free, collected>>,
         \A x \in StorageBlocks \ {task[c].block} : Untouched(x),
         next.op = "write" => locations' = locations,
         next.op # "none" => Freeing(task[c])' /\ Copying(task[c])' /\ Written(task[c])',
         \A b \in Backends : <<task[c].block, b>> \in locations' =>
             \/ task[c].block \in collected' \/ <<task[c].block, b>> \in doubtful'
             \/ files'[b][task[c].block] = info'[task[c].block] /\ info'[task[c].block].whole
  PROVE  FilesInv'
  <1> DEFINE s == task[c].block
  <1>1. /\ s \in StorageBlocks /\ s \notin free /\ (task[c].op = "replicate" => c = Worker)
        /\ task[c].op \in {"write", "replicate"}
        /\ \A d \in Callers : Writes(d, s) => d = c
        /\ \A d \in Callers \ {c} : task[d].op # "none" /\ task[d].block = s =>
               /\ task[d].op # "write"
               /\ task[d].op = "replicate" => task[d].at = "failed"
               /\ task[d].op = "free" => task[d].at \in {"failed", "reset"}
    BY OwnerOfCopy
  <1>2. task'[c] = next /\ \A d \in Callers \ {c} : task'[d] = task[d]
    BY DEF FilesInv, FilesTypeOK
  <1>3. \A d \in Callers :
          (task'[d].op = "write" /\ task'[d].block = s) => d = c /\ next.op = "write"
    BY <1>1, <1>2 DEF Writes
  <1>4. next.op = "write" => {b \in Backends : <<s, b>> \in locations'} = {}
    <2> SUFFICES ASSUME next.op = "write" PROVE LocationsOf(s) = {}
      BY DEF LocationsOf
    <2>1. Writes(c, s)
      BY DEF Writes
    <2> QED
      BY <1>1, <2>1 DEF FilesInv, WritersAlone
  <1>5. ASSUME NEW d \in Callers, task'[d].op # "none", task'[d].block = s
        PROVE  Freeing(task[d])' /\ Copying(task[d])' /\ Written(task[d])'
    <2>1. CASE d = c
      BY <1>2, <1>5, <2>1
    <2>2. CASE d # c
      <3>1. task'[d] = task[d] /\ Freeing(task[d])
        BY <1>2, <2>2 DEF FilesInv, Progress
      <3> QED
        BY <1>1, <1>5, <2>2, <3>1, AtRest
    <2> QED
      BY <2>1, <2>2
  <1> HIDE DEF s
  <1> DEFINE v == s
  <1>6. /\ \A d \in Callers : task'[d].op # "none" /\ task'[d].block = v =>
              Freeing(task[d])' /\ Copying(task[d])' /\ Written(task[d])'
        /\ \A d \in Callers : (task'[d].op = "write" /\ task'[d].block = v) =>
              /\ d = c /\ {b \in Backends : <<v, b>> \in locations'} = {}
        /\ v \notin free' /\ v \in StorageBlocks
        /\ \A b \in Backends : <<v, b>> \in locations' =>
             \/ v \in collected' \/ <<v, b>> \in doubtful'
             \/ files'[b][v] = info'[v] /\ info'[v].whole
        /\ \A x \in StorageBlocks \ {v} : Untouched(x)
        /\ next.op # "none" => next.block = v
    BY <1>1, <1>3, <1>4, <1>5 DEF s
  <1>7. ASSUME NEW x \in StorageBlocks, x = v PROVE Here(x)'
    <2>1. LocationsOf(x)' = {b \in Backends : <<x, b>> \in locations'}
      BY DEF LocationsOf
    <2>2. /\ x \notin free'
          /\ \A d \in Callers : (task'[d].op = "write" /\ task'[d].block = x) =>
                d = c /\ LocationsOf(x)' = {}
      BY <1>6, <1>7, <2>1
    <2>3. \A d \in Callers : task'[d].op # "none" /\ task'[d].block = x =>
              Freeing(task[d])' /\ Copying(task[d])' /\ Written(task[d])'
      BY <1>6, <1>7
    <2>4. \A b \in Backends : (<<x, b>> \in locations)' => Trusted(x, b)'
      BY <1>6, <1>7 DEF Trusted
    <2> QED
      BY <2>2, <2>3, <2>4 DEF Here, Writes
  <1>8. PICK x \in StorageBlocks : x = v
    BY <1>6
  <1>9. /\ next.op # "none" => next.block = x
        /\ \A y \in StorageBlocks \ {x} : Untouched(y)
        /\ next.op \in {"replicate", "free"} => c = Worker
    BY <1>1, <1>6, <1>8
  <1> QED
    BY <1>7, <1>8, <1>9, BlockStep

\* Storing a copy: it is what was written or read, or a failed rclone has had a part in it.
LEMMA StoreFileKeeps ==
  ASSUME FilesInv, NEW c \in Callers, StoreFile(c)
  PROVE  FilesInv'
  <1> DEFINE t == task[c]
             s == t.block
             b == t.backend
             point == IF t.op = "write" THEN "info" ELSE "locate"
  <1>1. /\ t \in Tasks /\ TaskOK(t) /\ TaskInv(t) /\ t.at = "store"
        /\ t.op \in {"write", "replicate"} /\ s \in StorageBlocks /\ b \in Backends
        /\ <<s, b>> \notin locations
    BY OwnerOfCopy DEF StoreFile
  <1>2. t.data \in Contents /\ Cut(t.data) \in Contents
    <2>1. t.data \in Contents
      BY <1>1 DEF Tasks
    <2> QED
      BY <2>1 DEF Cut, Contents
  <1>3. UNCHANGED <<rows, backends, info, locations, free, version, collected>>
    BY DEF StoreFile, tables
  <1>4. PICK file \in Contents : Stored(c, file) \/ files' = files
    BY <1>2 DEF StoreFile
  <1>5. /\ files' \in [Backends -> [StorageBlocks -> Contents]]
        /\ \A x \in StorageBlocks, d \in Backends :
              <<x, d>> # <<s, b>> => files'[d][x] = files[d][x]
    <2>1. files \in [Backends -> [StorageBlocks -> Contents]]
      BY DEF FilesInv, FilesTypeOK
    <2>2. CASE files' = files
      BY <2>1, <2>2
    <2>3. CASE files' = [files EXCEPT ![b] = [files[b] EXCEPT ![s] = file]]
      <3>1. [files[b] EXCEPT ![s] = file] \in [StorageBlocks -> Contents]
        BY <1>1, <2>1
      <3>2. /\ files'[b] = [files[b] EXCEPT ![s] = file]
            /\ \A d \in Backends \ {b} : files'[d] = files[d]
        BY <1>1, <2>1, <2>3
      <3>3. ASSUME NEW x \in StorageBlocks, NEW d \in Backends, <<x, d>> # <<s, b>>
            PROVE  files'[d][x] = files[d][x]
        <4>1. CASE d = b
          BY <2>1, <3>2, <3>3, <4>1
        <4>2. CASE d # b
          BY <3>2, <4>2
        <4> QED
          BY <4>1, <4>2
      <3> QED
        BY <1>1, <2>1, <2>3, <3>1, <3>3
    <2> QED
      BY <1>4, <2>2, <2>3 DEF Stored
  <1>6. \A x, d : <<x, d>> # <<s, b>> => (<<x, d>> \in doubtful' <=> <<x, d>> \in doubtful)
    BY DEF StoreFile, Copy
  <1>7. \A x \in StorageBlocks \ {s} : Untouched(x)
    BY <1>3, <1>5, <1>6 DEF Untouched
  <1>8. \A d \in Backends : <<s, d>> \in locations' =>
             \/ s \in collected' \/ <<s, d>> \in doubtful'
             \/ files'[d][s] = info'[s] /\ info'[s].whole
    <2> SUFFICES ASSUME NEW d \in Backends, <<s, d>> \in locations
                 PROVE  \/ s \in collected' \/ <<s, d>> \in doubtful'
                        \/ files'[d][s] = info'[s] /\ info'[s].whole
      BY <1>3
    <2>1. d # b
      BY <1>1
    <2>2. Trusted(s, d)
      BY <1>1 DEF FilesInv, Located
    <2> QED
      BY <1>1, <1>3, <1>5, <1>6, <2>1, <2>2 DEF Trusted
  <1>9. CASE Throw(c)
    <2>1. PICK next \in {NoTask, [t EXCEPT !.at = "failed"]} : task' = [task EXCEPT ![c] = next]
      BY <1>9 DEF Throw, Proceed
    <2>2. next \in Tasks /\ TaskOK(next)
      BY <1>1, <2>1, NoTaskTyped DEF Tasks, TaskOK, Points, AllPoints
    <2>3. next.op # "none" => /\ next.op = t.op /\ next.block = s /\ next.at = "failed"
                              /\ next.targets = t.targets
      BY <1>1, <2>1, NoTaskTyped DEF Tasks
    <2>4. FilesTypeOK'
      BY <1>3, <1>5, <2>1, <2>2 DEF FilesInv, FilesTypeOK
    <2>5. next.op # "none" => Freeing(task[c])' /\ Copying(task[c])' /\ Written(task[c])'
      <3>1. task'[c] = next
        BY <2>1 DEF FilesInv, FilesTypeOK
      <3> QED
        BY <1>1, <2>3, <3>1 DEF Freeing, Copying, Written, TaskInv
    <2> QED
      BY <1>1, <1>3, <1>7, <1>8, <2>1, <2>2, <2>3, <2>4, <2>5, CopyStep
  <1>10. CASE /\ Enter(c, point)
              /\ \/ /\ Stored(c, t.data)
                    /\ doubtful' = IF t.doubt THEN doubtful \cup {<<s, b>>}
                                  ELSE doubtful \ {<<s, b>>}
                 \/ doubtful' = doubtful \cup {<<s, b>>}
    <2> DEFINE next == [t EXCEPT !.at = point]
    <2>1. task' = [task EXCEPT ![c] = next]
      BY <1>10 DEF Enter, Proceed
    <2>2. next \in Tasks /\ TaskOK(next)
      BY <1>1 DEF Tasks, TaskOK, Points, AllPoints
    <2>3. /\ next.op = t.op /\ next.block = s /\ next.at = point /\ next.targets = t.targets
          /\ next.backend = b /\ next.data = t.data /\ next.doubt = t.doubt
      BY <1>1 DEF Tasks
    <2> HIDE DEF next
    <2>4. FilesTypeOK'
      BY <1>3, <1>5, <2>1, <2>2 DEF FilesInv, FilesTypeOK
    <2>5. <<s, b>> \in doubtful' \/ (files'[b][s] = t.data /\ ~ t.doubt)
      <3>1. CASE <<s, b>> \in doubtful'
        BY <3>1
      <3>2. CASE <<s, b>> \notin doubtful'
        <4>1. Stored(c, t.data) /\ ~ t.doubt
          BY <1>10, <3>2
        <4>2. files \in [Backends -> [StorageBlocks -> Contents]]
          BY DEF FilesInv, FilesTypeOK
        <4>3. files' = [files EXCEPT ![b] = [files[b] EXCEPT ![s] = t.data]]
          BY <4>1 DEF Stored
        <4>4. files'[b][s] = t.data
          BY <1>1, <4>2, <4>3
        <4> QED
          BY <4>1, <4>4
      <3> QED
        BY <3>1, <3>2
    <2>6. Freeing(task[c])' /\ Copying(task[c])' /\ Written(task[c])'
      <3>1. task'[c] = next
        BY <2>1 DEF FilesInv, FilesTypeOK
      <3>3. Freeing(task[c])'
        BY <1>1, <2>3, <3>1 DEF Freeing
      <3>4. Written(task[c])'
        BY <1>1, <1>3, <2>3, <2>5, <3>1 DEF Written, TaskInv
      <3>5. Copying(task[c])'
        <4> SUFFICES ASSUME next.op = "replicate" PROVE Copying(task[c])'
          BY <3>1 DEF Copying
        <4>1. /\ LocationsOf(s) # {} /\ t.targets # {} /\ t.targets \cap LocationsOf(s) = {}
              /\ b \in t.targets
              /\ s \in collected \/ t.doubt \/ (t.data = info[s] /\ t.data.whole)
          BY <1>1, <2>3 DEF TaskInv, Copying
        <4>2. \/ s \in collected' \/ <<s, b>> \in doubtful'
              \/ files'[b][s] = info'[s] /\ info'[s].whole
          BY <1>3, <2>5, <4>1
        <4>3. point = "locate"
          BY <2>3
        <4>4. /\ task'[c].block = s /\ task'[c].backend = b /\ task'[c].at = "locate"
              /\ task'[c].targets = t.targets /\ task'[c].data = t.data
              /\ task'[c].doubt = t.doubt
          BY <2>3, <3>1, <4>3
        <4> HIDE DEF t, s, b, point
        <4>5. LocationsOf(task[c].block)' = LocationsOf(s)
          BY <1>3, <4>4 DEF LocationsOf
        <4>6. Trusted(task[c].block, task[c].backend)'
          BY <4>2, <4>4 DEF Trusted
        <4> QED
          BY <1>3, <4>1, <4>4, <4>5, <4>6 DEF Copying
      <3> QED
        BY <3>3, <3>4, <3>5
    <2> QED
      BY <1>1, <1>3, <1>7, <1>8, <2>1, <2>2, <2>3, <2>4, <2>6, CopyStep
  <1> QED
    BY <1>9, <1>10 DEF StoreFile, Copy

\* The iv and the authTag of a writing are set before there is a location.
LEMMA UpdateStorageBlockInfoKeeps ==
  ASSUME FilesInv, NEW c \in Callers, UpdateStorageBlockInfo(c)
  PROVE  FilesInv'
  <1> DEFINE t == task[c]
             s == t.block
             b == t.backend
             next == [t EXCEPT !.at = "locate"]
  <1>1. /\ t \in Tasks /\ TaskOK(t) /\ TaskInv(t) /\ t.at = "info"
        /\ s \in StorageBlocks /\ b \in Backends
    BY OwnerOfCopy DEF UpdateStorageBlockInfo
  <1>2. t.op = "write"
    BY <1>1, PointsTell DEF TaskOK, Tasks
  <1>3. /\ t.data \in Contents /\ t.data.whole /\ t.targets = {}
        /\ files[b][s] = t.data \/ <<s, b>> \in doubtful
    BY <1>1, <1>2 DEF Tasks, TaskInv, Written
  <1>4. LocationsOf(s) = {}
    <2>1. Writes(c, s)
      BY <1>2 DEF Writes
    <2> QED
      BY <1>1, <2>1 DEF FilesInv, WritersAlone
  <1>5. /\ info' = [info EXCEPT ![s] = t.data] /\ task' = [task EXCEPT ![c] = next]
        /\ UNCHANGED <<rows, backends, files, locations, free, version, collected, doubtful>>
    BY DEF UpdateStorageBlockInfo, Enter, Proceed
  <1>6. next \in Tasks /\ TaskOK(next)
    BY <1>1, <1>2 DEF Tasks, TaskOK, Points, AllPoints
  <1>7. /\ next.op = "write" /\ next.block = s /\ next.at = "locate" /\ next.targets = {}
        /\ next.backend = b /\ next.data = t.data
    BY <1>1, <1>2, <1>3 DEF Tasks
  <1> HIDE DEF next
  <1>8. /\ info' \in [StorageBlocks -> Contents] /\ info'[s] = t.data
        /\ \A x \in StorageBlocks \ {s} : info'[x] = info[x]
    BY <1>1, <1>3, <1>5 DEF FilesInv, FilesTypeOK
  <1>9. FilesTypeOK'
    BY <1>5, <1>6, <1>8 DEF FilesInv, FilesTypeOK
  <1>10. \A x \in StorageBlocks \ {s} : Untouched(x)
    BY <1>5, <1>8 DEF Untouched
  <1>11. Freeing(task[c])' /\ Copying(task[c])' /\ Written(task[c])'
    <2>1. task'[c] = next
      BY <1>5 DEF FilesInv, FilesTypeOK
    <2> QED
      BY <1>3, <1>5, <1>7, <1>8, <2>1 DEF Freeing, Copying, Written, Trusted
  <1>12. \A d \in Backends : <<s, d>> \notin locations'
    BY <1>4, <1>5 DEF LocationsOf
  <1> QED
    BY <1>1, <1>2, <1>5, <1>6, <1>7, <1>9, <1>10, <1>11, <1>12, CopyStep

\* A copy is entered when it can be trusted; Replicate goes on where there is none yet.
LEMMA AddBlockLocationKeeps ==
  ASSUME FilesInv, NEW c \in Callers, AddBlockLocation(c)
  PROVE  FilesInv'
  <1> DEFINE t == task[c]
             s == t.block
             b == t.backend
             left == t.targets \ {b}
             next == IF left = {} THEN NoTask
                     ELSE [t EXCEPT !.at = "mkdir", !.backend = Fastest(left), !.targets = left]
  <1>1. /\ t \in Tasks /\ TaskOK(t) /\ TaskInv(t) /\ t.at = "locate"
        /\ t.op \in {"write", "replicate"} /\ s \in StorageBlocks /\ b \in Backends
    BY OwnerOfCopy DEF AddBlockLocation
  <1>2. /\ locations' = locations \cup {<<s, b>>} /\ task' = [task EXCEPT ![c] = next]
        /\ UNCHANGED <<rows, backends, files, info, free, version, collected, doubtful>>
    BY DEF AddBlockLocation, Proceed, Copy
  <1>3. left # {} => t.op = "replicate" /\ Fastest(left) \in left /\ left \subseteq Backends
    <2>1. left \subseteq Backends /\ (t.op = "write" => left = {})
      BY <1>1 DEF Tasks, TaskInv, Written
    <2> HIDE DEF left
    <2> QED
      BY <1>1, <2>1, FastestIsThere
  <1>4. next \in Tasks /\ TaskOK(next)
    <2>1. CASE left = {}
      BY <2>1, NoTaskTyped
    <2>2. CASE left # {}
      <3>1. next = [t EXCEPT !.at = "mkdir", !.backend = Fastest(left), !.targets = left]
        BY <2>2
      <3> HIDE DEF next, left
      <3> QED
        BY <1>1, <1>3, <2>2, <3>1 DEF Tasks, TaskOK, Points, AllPoints
    <2> QED
      BY <2>1, <2>2
  <1>5. next.op # "none" =>
          /\ left # {} /\ next.op = "replicate" /\ t.op = "replicate" /\ next.block = s
          /\ next.at = "mkdir" /\ next.targets = left /\ next.backend \in left
          /\ next.data = t.data /\ next.doubt = t.doubt
    <2>1. CASE left = {}
      BY <2>1, NoTaskTyped
    <2>2. CASE left # {}
      <3>1. next = [t EXCEPT !.at = "mkdir", !.backend = Fastest(left), !.targets = left]
        BY <2>2
      <3> HIDE DEF next, left
      <3> QED
        BY <1>1, <1>3, <2>2, <3>1 DEF Tasks
    <2> QED
      BY <2>1, <2>2
  <1>6. FilesTypeOK'
    <2>1. locations' \subseteq StorageBlocks \X Backends
      BY <1>1, <1>2 DEF FilesInv, FilesTypeOK
    <2> HIDE DEF next
    <2> QED
      BY <1>2, <1>4, <2>1 DEF FilesInv, FilesTypeOK
  <1>7. \A x \in StorageBlocks \ {s} : Untouched(x)
    BY <1>2 DEF Untouched
  <1>8. Trusted(s, b)
    BY <1>1 DEF TaskInv, Written, Copying
  <1>9. \A d \in Backends : <<s, d>> \in locations' =>
             \/ s \in collected' \/ <<s, d>> \in doubtful'
             \/ files'[d][s] = info'[s] /\ info'[s].whole
    BY <1>1, <1>2, <1>8 DEF FilesInv, Located, Trusted
  <1>10. ASSUME next.op # "none"
         PROVE  Freeing(task[c])' /\ Copying(task[c])' /\ Written(task[c])'
    <2>1. task'[c] = next
      <3> HIDE DEF next
      <3> QED
        BY <1>2 DEF FilesInv, FilesTypeOK
    <2>2. /\ LocationsOf(s) # {} /\ t.targets \cap LocationsOf(s) = {}
          /\ s \in collected \/ t.doubt \/ (t.data = info[s] /\ t.data.whole)
      BY <1>1, <1>5, <1>10 DEF TaskInv, Copying
    <2>3. /\ task'[c].op = "replicate" /\ task'[c].block = s /\ task'[c].at = "mkdir"
          /\ task'[c].targets = left /\ task'[c].backend \in left /\ task'[c].data = t.data
          /\ task'[c].doubt = t.doubt
      BY <1>5, <1>10, <2>1
    <2>4. LocationsOf(task[c].block)' = LocationsOf(s) \cup {b}
      <3>1. LocationsOf(task[c].block)' = {d \in Backends : <<s, d>> \in locations'}
        BY <2>3 DEF LocationsOf
      <3> QED
        BY <1>1, <1>2, <3>1 DEF LocationsOf
    <2>5. left \cap (LocationsOf(s) \cup {b}) = {} /\ left # {}
      BY <1>5, <1>10, <2>2
    <2> HIDE DEF t, s, b, left, next
    <2> QED
      BY <1>2, <2>2, <2>3, <2>4, <2>5 DEF Freeing, Copying, Written
  <1> HIDE DEF next, left
  <1> QED
    BY <1>1, <1>2, <1>4, <1>5, <1>6, <1>7, <1>9, <1>10, CopyStep

(***************************************************************************)
(* Freeing a block.  Nobody but the worker is concerned with it until it   *)
(* is free, but for downloads.                                             *)
(***************************************************************************)
LEMMA FreeStep ==
  ASSUME FilesInv, NEW s \in StorageBlocks, \A d \in Callers : ~ Writes(d, s),
         NEW next \in Tasks, task' = [task EXCEPT ![Worker] = next], TaskOK(next), FilesTypeOK',
         next.op = "free" /\ next.block = s,
         \A x \in StorageBlocks \ {s} : Untouched(x),
         s \in collected',
         s \in free' => \A b \in Backends : <<s, b>> \notin locations',
         Freeing(task[Worker])'
  PROVE  FilesInv'
  <1>1. /\ Worker \in Callers /\ task'[Worker] = next
        /\ \A d \in Callers \ {Worker} : task'[d] = task[d]
    BY BackendsExist DEF FilesInv, FilesTypeOK
  <1>2. \A d \in Callers : ~ Writes(d, s)'
    BY <1>1 DEF Writes
  <1>3. ASSUME NEW d \in Callers, task'[d].op # "none", task'[d].block = s
        PROVE  Freeing(task[d])' /\ Copying(task[d])' /\ Written(task[d])'
    <2>1. CASE d = Worker
      BY <1>1, <2>1 DEF Copying, Written
    <2>2. CASE d # Worker
      <3>1. task'[d].op \notin {"write", "replicate", "free"}
        BY <1>1, <1>3, <2>2 DEF FilesInv, TasksOK, Writes
      <3> QED
        BY <3>1 DEF Freeing, Copying, Written
    <2> QED
      BY <2>1, <2>2
  <1>4. Here(s)'
    BY <1>2, <1>3 DEF Here, LocationsOf, Trusted
  <1> QED
    BY <1>1, <1>4, BlockStep

LEMMA NextRemovalFrees ==
  ASSUME NEW s \in StorageBlocks, NEW from, from \subseteq Backends
  PROVE  /\ NextRemoval(s, from) \in Tasks /\ TaskOK(NextRemoval(s, from))
         /\ NextRemoval(s, from).op = "free" /\ NextRemoval(s, from).block = s
         /\ NextRemoval(s, from).at = IF from = {} THEN "free" ELSE "delete"
         /\ from # {} => /\ NextRemoval(s, from).targets = from
                         /\ NextRemoval(s, from).backend \in from
  <1> DEFINE next == NextRemoval(s, from)
  <1>1. CASE from = {}
    <2>1. next = [NoTask EXCEPT !.op = "free", !.at = "free", !.block = s]
      BY <1>1 DEF NextRemoval
    <2> HIDE DEF next
    <2>2. next \in Tasks /\ next.op = "free" /\ next.block = s /\ next.at = "free"
      BY <2>1, NoTaskTyped DEF Tasks, Ops, AllPoints
    <2>3. TaskOK(next)
      BY <2>2 DEF TaskOK, Points
    <2> USE DEF next
    <2> QED
      BY <1>1, <2>2, <2>3
  <1>2. CASE from # {}
    <2>1. next = [NoTask EXCEPT !.op = "free", !.at = "delete", !.block = s,
                                !.backend = Fastest(from), !.targets = from]
      BY <1>2 DEF NextRemoval
    <2>2. Fastest(from) \in from
      BY <1>2, FastestIsThere
    <2> HIDE DEF next
    <2>3. /\ next \in Tasks /\ next.op = "free" /\ next.block = s /\ next.at = "delete"
          /\ next.targets = from /\ next.backend \in from
      BY <2>1, <2>2, NoTaskTyped DEF Tasks, Ops, AllPoints
    <2>4. TaskOK(next)
      BY <2>3 DEF TaskOK, Points
    <2> USE DEF next
    <2> QED
      BY <1>2, <2>3, <2>4
  <1> QED
    BY <1>1, <1>2

LEMMA RemoveFromAllLocationsKeeps ==
  ASSUME FilesInv, NEW s \in StorageBlocks, RemoveStorageBlockFromAllLocations(s)
  PROVE  FilesInv'
  <1> DEFINE next == NextRemoval(s, LocationsOf(s))
  <1>1. /\ s \notin free /\ \A d \in Callers : ~ Writes(d, s)
        /\ task' = [task EXCEPT ![Worker] = next] /\ collected' = collected \cup {s}
        /\ UNCHANGED <<rows, backends, files, info, locations, free, version, doubtful>>
    BY DEF RemoveStorageBlockFromAllLocations, Proceed, Writes
  <1>2. LocationsOf(s) \subseteq Backends
    BY DEF LocationsOf
  <1>3. /\ next \in Tasks /\ TaskOK(next) /\ next.op = "free" /\ next.block = s
        /\ next.at = IF LocationsOf(s) = {} THEN "free" ELSE "delete"
        /\ LocationsOf(s) # {} => next.targets = LocationsOf(s) /\ next.backend \in LocationsOf(s)
    BY <1>2, NextRemovalFrees
  <1> HIDE DEF next
  <1>4. FilesTypeOK'
    BY <1>1, <1>3 DEF FilesInv, FilesTypeOK
  <1>5. \A x \in StorageBlocks \ {s} : Untouched(x)
    BY <1>1 DEF Untouched
  <1>6. Freeing(task[Worker])'
    <2>1. task'[Worker] = next /\ \A d \in Callers : ~ Writes(d, s)'
      BY <1>1, <1>3, BackendsExist DEF FilesInv, FilesTypeOK, Writes
    <2>2. next.block = s /\ s \in collected' /\ s \notin free'
      BY <1>1, <1>3
    <2>3. {b \in Backends : <<s, b>> \in locations'} = LocationsOf(s)
      BY <1>1 DEF LocationsOf
    <2>4. LocationsOf(task[Worker].block)' = LocationsOf(s)
      BY <2>1, <2>2, <2>3 DEF LocationsOf
    <2> QED
      BY <1>3, <2>1, <2>2, <2>4 DEF Freeing, Writes
  <1> QED
    BY <1>1, <1>3, <1>4, <1>5, <1>6, FreeStep

\* What the worker knows of the block it frees.
LEMMA Removing ==
  ASSUME FilesInv, task[Worker].at \in {"delete", "forget", "free", "reset"}
  PROVE  /\ task[Worker] \in Tasks /\ TaskOK(task[Worker]) /\ Freeing(task[Worker])
         /\ task[Worker].op = "free" /\ task[Worker].block \in StorageBlocks
         /\ task[Worker].block \in collected
         /\ task[Worker].at # "reset" =>
               task[Worker].block \notin free /\ \A d \in Callers : ~ Writes(d, task[Worker].block)
  <1>1. task[Worker] \in Tasks /\ TaskOK(task[Worker]) /\ Freeing(task[Worker])
    BY BackendsExist DEF FilesInv, FilesTypeOK, TasksOK, Progress
  <1>2. task[Worker].op = "free"
    BY <1>1, PointsTell DEF TaskOK, Tasks
  <1> QED
    BY <1>1, <1>2 DEF TaskOK, Freeing

LEMMA DeleteFileKeeps ==
  ASSUME FilesInv, DeleteFile
  PROVE  FilesInv'
  <1> DEFINE t == task[Worker]
             s == t.block
             b == t.backend
  <1>1. /\ t \in Tasks /\ TaskOK(t) /\ Freeing(t) /\ t.op = "free" /\ t.at = "delete"
        /\ s \in StorageBlocks /\ s \in collected /\ s \notin free
        /\ \A d \in Callers : ~ Writes(d, s)
    BY Removing DEF DeleteFile
  <1>2. /\ UNCHANGED <<rows, backends, info, locations, free, version, collected, doubtful>>
        /\ files' = files \/ Stored(Worker, NoFile)
        /\ Enter(Worker, "forget") \/ Throw(Worker)
    BY DEF DeleteFile, tables
  <1>3. PICK at \in {"forget", "failed"} : task' = [task EXCEPT ![Worker] = [t EXCEPT !.at = at]]
    BY <1>2 DEF Enter, Throw, Proceed
  <1> DEFINE next == [t EXCEPT !.at = at]
  <1>4. next \in Tasks /\ TaskOK(next)
    BY <1>1 DEF Tasks, TaskOK, Points, AllPoints
  <1>5. /\ next.op = "free" /\ next.block = s /\ next.at = at /\ next.backend = b
        /\ next.targets = t.targets
    BY <1>1 DEF Tasks
  <1>6. /\ files' \in [Backends -> [StorageBlocks -> Contents]]
        /\ \A x \in StorageBlocks \ {s}, d \in Backends : files'[d][x] = files[d][x]
    <2>1. files \in [Backends -> [StorageBlocks -> Contents]] /\ NoFile \in Contents
      BY DEF FilesInv, FilesTypeOK, NoFile, Contents
    <2>2. CASE files' = files
      BY <2>1, <2>2
    <2>3. CASE files' = [files EXCEPT ![b] = [files[b] EXCEPT ![s] = NoFile]]
      <3>1. CASE b \in Backends
        <4>1. /\ files'[b] = [files[b] EXCEPT ![s] = NoFile]
              /\ \A d \in Backends \ {b} : files'[d] = files[d]
          BY <2>1, <2>3, <3>1
        <4>2. [files[b] EXCEPT ![s] = NoFile] \in [StorageBlocks -> Contents]
          BY <1>1, <2>1, <3>1
        <4>3. \A x \in StorageBlocks \ {s} : files'[b][x] = files[b][x]
          BY <2>1, <3>1, <4>1
        <4>4. files' \in [Backends -> [StorageBlocks -> Contents]]
          BY <2>1, <2>3, <3>1, <4>2
        <4> QED
          BY <4>1, <4>3, <4>4
      <3>2. CASE b \notin Backends
        BY <2>1, <2>3, <3>2
      <3> QED
        BY <3>1, <3>2
    <2> QED
      BY <1>2, <2>2, <2>3 DEF Stored
  <1>7. \A x \in StorageBlocks \ {s} : Untouched(x)
    BY <1>2, <1>6 DEF Untouched
  <1> HIDE DEF next
  <1>8. FilesTypeOK'
    BY <1>2, <1>3, <1>4, <1>6 DEF FilesInv, FilesTypeOK, next
  <1>9. task' = [task EXCEPT ![Worker] = next] /\ task'[Worker] = next
    BY <1>3, BackendsExist DEF FilesInv, FilesTypeOK, next
  <1>10. Freeing(task[Worker])'
    <2>1. \A d \in Callers : ~ (task'[d].op = "write" /\ task'[d].block = s)
      BY <1>1, <1>5, <1>9 DEF FilesInv, FilesTypeOK, Writes
    <2>2. at = "forget" => {d \in Backends : <<s, d>> \in locations'} \subseteq t.targets
                           /\ b \in t.targets
      BY <1>1, <1>2 DEF Freeing, LocationsOf
    <2>3. task'[Worker].block = s /\ s \in collected' /\ s \notin free'
      BY <1>1, <1>2, <1>5, <1>9
    <2> HIDE DEF t, s, b
    <2>4. LocationsOf(task[Worker].block)' = {d \in Backends : <<s, d>> \in locations'}
      BY <2>3 DEF LocationsOf
    <2>5. \A d \in Callers : ~ Writes(d, task[Worker].block)'
      BY <2>1, <2>3 DEF Writes
    <2> QED
      BY <1>5, <1>9, <2>2, <2>3, <2>4, <2>5 DEF Freeing
  <1>11. s \notin free' /\ s \in collected'
    BY <1>1, <1>2
  <1> QED
    BY <1>1, <1>4, <1>5, <1>7, <1>8, <1>9, <1>10, <1>11, FreeStep

LEMMA RemoveBlockLocationKeeps ==
  ASSUME FilesInv, RemoveBlockLocation
  PROVE  FilesInv'
  <1> DEFINE t == task[Worker]
             s == t.block
             b == t.backend
             left == t.targets \ {b}
             next == NextRemoval(s, left)
  <1>1. /\ t \in Tasks /\ TaskOK(t) /\ Freeing(t) /\ t.op = "free" /\ t.at = "forget"
        /\ s \in StorageBlocks /\ s \in collected /\ s \notin free
        /\ \A d \in Callers : ~ Writes(d, s)
    BY Removing DEF RemoveBlockLocation
  <1>2. /\ locations' = locations \ {<<s, b>>} /\ doubtful' = doubtful \ {<<s, b>>}
        /\ task' = [task EXCEPT ![Worker] = next]
        /\ UNCHANGED <<rows, backends, files, info, free, version, collected>>
    BY DEF RemoveBlockLocation, Proceed, Copy
  <1>3. left \subseteq Backends /\ LocationsOf(s) \subseteq t.targets
    BY <1>1 DEF Tasks, Freeing
  <1>4. /\ next \in Tasks /\ TaskOK(next) /\ next.op = "free" /\ next.block = s
        /\ next.at = IF left = {} THEN "free" ELSE "delete"
        /\ left # {} => next.targets = left /\ next.backend \in left
    <2> HIDE DEF left
    <2> QED
      BY <1>1, <1>3, NextRemovalFrees
  <1>5. {d \in Backends : <<s, d>> \in locations'} \subseteq left
    BY <1>2, <1>3 DEF LocationsOf
  <1> HIDE DEF next, left
  <1>6. FilesTypeOK'
    BY <1>2, <1>4 DEF FilesInv, FilesTypeOK
  <1>7. \A x \in StorageBlocks \ {s} : Untouched(x)
    BY <1>2 DEF Untouched
  <1>8. Freeing(task[Worker])'
    <2>1. task'[Worker] = next /\ \A d \in Callers : ~ (task'[d].op = "write" /\ task'[d].block = s)
      BY <1>1, <1>2, <1>4, BackendsExist DEF FilesInv, FilesTypeOK, Writes
    <2>2. task'[Worker].block = s /\ s \in collected' /\ s \notin free'
      BY <1>1, <1>2, <1>4, <2>1
    <2> HIDE DEF t, s, b
    <2>3. LocationsOf(task[Worker].block)' = {d \in Backends : <<s, d>> \in locations'}
      BY <2>2 DEF LocationsOf
    <2>4. \A d \in Callers : ~ Writes(d, task[Worker].block)'
      BY <2>1, <2>2 DEF Writes
    <2> QED
      BY <1>4, <1>5, <2>1, <2>2, <2>3, <2>4 DEF Freeing
  <1>9. s \notin free' /\ s \in collected'
    BY <1>1, <1>2
  <1> QED
    BY <1>1, <1>2, <1>4, <1>6, <1>7, <1>8, <1>9, FreeStep

LEMMA FreeBlockKeeps ==
  ASSUME FilesInv, FreeBlock
  PROVE  FilesInv'
  <1> DEFINE t == task[Worker]
             s == t.block
             next == [t EXCEPT !.at = "reset"]
  <1>1. /\ t \in Tasks /\ TaskOK(t) /\ Freeing(t) /\ t.op = "free" /\ t.at = "free"
        /\ s \in StorageBlocks /\ s \in collected
        /\ \A d \in Callers : ~ Writes(d, s)
    BY Removing DEF FreeBlock
  <1>2. /\ free' = free \cup {s} /\ task' = [task EXCEPT ![Worker] = next]
        /\ UNCHANGED <<rows, backends, files, info, locations, version, collected, doubtful>>
    BY DEF FreeBlock, Enter, Proceed
  <1>3. next \in Tasks /\ TaskOK(next)
    BY <1>1 DEF Tasks, TaskOK, Points, AllPoints
  <1>4. next.op = "free" /\ next.block = s /\ next.at = "reset"
    BY <1>1 DEF Tasks
  <1> HIDE DEF next
  <1>5. FilesTypeOK'
    BY <1>1, <1>2, <1>3 DEF FilesInv, FilesTypeOK
  <1>6. \A x \in StorageBlocks \ {s} : Untouched(x)
    BY <1>2 DEF Untouched
  <1>7. \A b \in Backends : <<s, b>> \notin locations'
    BY <1>1, <1>2 DEF Freeing, LocationsOf
  <1>8. Freeing(task[Worker])'
    <2>1. task'[Worker] = next
      BY <1>2, BackendsExist DEF FilesInv, FilesTypeOK
    <2> QED
      BY <1>1, <1>2, <1>4, <2>1 DEF Freeing
  <1>9. s \in collected'
    BY <1>1, <1>2
  <1> QED
    BY <1>1, <1>2, <1>3, <1>4, <1>5, <1>6, <1>7, <1>8, <1>9, FreeStep

\* Whoever has written the block in the meantime finds it among the collected ones.
LEMMA ResetInfoKeeps ==
  ASSUME FilesInv, ResetInfo
  PROVE  FilesInv'
  <1>1. PICK s \in StorageBlocks : s = task[Worker].block /\ s \in collected
    BY Removing DEF ResetInfo
  <1>2. /\ info' = [info EXCEPT ![s] = NoFile] /\ task' = [task EXCEPT ![Worker] = NoTask]
        /\ UNCHANGED <<rows, backends, files, locations, free, version, collected, doubtful>>
    BY <1>1 DEF ResetInfo, Proceed
  <1>3. /\ info' \in [StorageBlocks -> Contents]
        /\ \A x \in StorageBlocks \ {s} : info'[x] = info[x]
    BY <1>1, <1>2 DEF FilesInv, FilesTypeOK, NoFile, Contents
  <1>4. /\ Worker \in Callers /\ task'[Worker] = NoTask
        /\ \A d \in Callers \ {Worker} : task'[d] = task[d]
    BY <1>2, BackendsExist DEF FilesInv, FilesTypeOK
  <1>5. FilesTypeOK'
    BY <1>2, <1>3, NoTaskTyped DEF FilesInv, FilesTypeOK
  <1>6. \A x \in StorageBlocks \ {s} : Untouched(x)
    BY <1>2, <1>3 DEF Untouched
  <1>7. \A d \in Callers : \A x : Writes(d, x)' => Writes(d, x)
    BY <1>4, NoTaskTyped DEF Writes
  <1>8. ASSUME NEW d \in Callers, task'[d].op # "none", task'[d].block = s
        PROVE  Freeing(task[d])' /\ Copying(task[d])' /\ Written(task[d])'
    <2>1. d # Worker /\ task'[d] = task[d] /\ Written(task[d])
      BY <1>4, <1>8, NoTaskTyped DEF FilesInv, Progress
    <2>2. task'[d].op \notin {"replicate", "free"}
      BY <2>1 DEF FilesInv, TasksOK
    <2>3. Written(task[d])'
      BY <1>1, <1>2, <1>8, <2>1 DEF Written, Trusted
    <2> QED
      BY <2>2, <2>3 DEF Freeing, Copying
  <1>9. Here(s)'
    <2>1. Here(s) /\ LocationsOf(s)' = LocationsOf(s)
      BY <1>1, <1>2, InvIsHere DEF FilesInv, Everywhere, LocationsOf
    <2> QED
      BY <1>1, <1>2, <1>7, <1>8, <2>1 DEF Here, Trusted
  <1> QED
    BY <1>1, <1>2, <1>4, <1>5, <1>6, <1>9, NoTaskTyped, BlockStep

(***************************************************************************)
(* All steps, and what follows.                                            *)
(***************************************************************************)
LEMMA BackendStepKeeps ==
  ASSUME FilesInv, NEW b \in Backends, InsertBackend(b) \/ AddBackend(b)
  PROVE  FilesInv'
  <1>1. UNCHANGED <<Tables, task, version>>
    BY DEF InsertBackend, AddBackend, Tables
  <1>2. backends' # {} /\ backends' \subseteq rows' /\ rows' \subseteq Backends
    BY DEF InsertBackend, AddBackend, FilesInv, FilesTypeOK
  <1> QED
    BY <1>1, <1>2, BackendsKeep

LEMMA FilesNext == FilesInv /\ [Next]_vars => FilesInv'
  <1> SUFFICES ASSUME FilesInv, [Next]_vars PROVE FilesInv'
    OBVIOUS
  <1>1. CASE Crash
    BY <1>1, CrashKeeps
  <1>2. CASE DeleteFile \/ RemoveBlockLocation \/ FreeBlock \/ ResetInfo
    BY <1>2, DeleteFileKeeps, RemoveBlockLocationKeeps, FreeBlockKeeps, ResetInfoKeeps
  <1>3. ASSUME NEW b \in Backends, InsertBackend(b) \/ AddBackend(b) PROVE FilesInv'
    BY <1>3, BackendStepKeeps
  <1>4. ASSUME NEW c \in Callers, Work(c) PROVE FilesInv'
    BY <1>4, MkdirKeeps, StoreFileKeeps, ReadFileKeeps, EncryptBlockKeeps, DecryptBlockKeeps,
       UpdateStorageBlockInfoKeeps, AddBlockLocationKeeps DEF Work, Call
  <1>5. ASSUME NEW c \in Callers, NEW s \in StorageBlocks, WriteStorageBlock(c, s) \/ Download(c, s)
        PROVE  FilesInv'
    BY <1>5, WriteStorageBlockKeeps, DownloadKeeps
  <1>6. ASSUME NEW s \in StorageBlocks, Replicate(s) \/ RemoveStorageBlockFromAllLocations(s)
        PROVE  FilesInv'
    BY <1>6, ReplicateKeeps, RemoveFromAllLocationsKeeps
  <1>7. CASE UNCHANGED vars
    <2>1. UNCHANGED <<Tables, task, version, rows, backends>>
      BY <1>7 DEF vars, Tables
    <2> QED
      BY <2>1, BackendsKeep DEF FilesInv, FilesTypeOK
  <1> QED
    BY <1>1, <1>2, <1>3, <1>4, <1>5, <1>6, <1>7 DEF Next

LEMMA FilesInvariant == Spec => []FilesInv
  BY FilesInit, FilesNext, PTL DEF Spec

\* The tables and the tasks have their types: a task is in the middle of something it can
\* be doing, and there is always a backend in memory, each of them one of the table's.
THEOREM FilesTypeCorrect == Spec => []FilesTypeOK
  <1>1. FilesInv => FilesTypeOK
    BY DEF FilesInv
  <1> QED
    BY <1>1, FilesInvariant, PTL

\* Wherever a block that may be referenced is located, there is the file that its iv and
\* authTag were made for, whatever requests, the worker, failing calls and crashes do, but
\* for copies that a failed rclone had a part in.
THEOREM LocatedStaysSealed == Spec => []LocatedIsSealed
  <1>1. FilesInv => LocatedIsSealed
    BY DEF FilesInv, Located, Trusted, LocatedIsSealed, LocationsOf
  <1> QED
    BY <1>1, FilesInvariant, PTL

=============================================================================
