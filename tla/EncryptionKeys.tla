-------------------------- MODULE EncryptionKeys ---------------------------
(***************************************************************************)
(* StorageEncryptionManager: one data encryption key per partition of the  *)
(* storage blocks, drawn when the partition is first used, kept in         *)
(* data_encryption_keys and cached in memory.  Fetchers are the uploads,   *)
(* combinations and downloads under way; they interleave at every await of *)
(* FetchKey.  The cipher is the comparison of keys: GCM opens a block with *)
(* the key it was sealed with and throws with any other.  The state        *)
(* machine has names of its own, to be extended together with BlockFiles.  *)
(***************************************************************************)
CONSTANTS
    Fetchers,    \* concurrent calls of Encrypt and Decrypt
    Partitions,  \* GetPartitionNumber of the storage blocks
    Existing,    \* partitions that have a key when the model starts
    Keys,        \* bound: the keys randomBytes can draw, each at most once
    NoKey        \* undefined

ASSUME ExistingAssumption == Existing \subseteq Partitions
ASSUME NoKeyAssumption == NoKey \notin Keys

VARIABLES
    dek,      \* data_encryption_keys
    cached,   \* cachedKeys
    drawn,    \* keys drawn so far
    pc,       \* where a caller is
    part,     \* the partition it is called for
    key,      \* the row it has read, then the key it uses
    sealed,   \* key of the block it decrypts, NoKey when it encrypts
    written,  \* the blocks stored encrypted: partition and key
    spoiled   \* history: partitions for which storing a drawn key has failed

call == <<pc, part, key, sealed>>
keysVars == <<dek, cached, drawn, call, written, spoiled>>

KeysInit ==
    /\ dek \in [Partitions -> Keys \cup {NoKey}]
    /\ \A p \in Partitions : p \in Existing <=> dek[p] # NoKey
    /\ \A p, q \in Existing : dek[p] = dek[q] => p = q
    /\ drawn = {dek[p] : p \in Existing}
    /\ cached = [p \in Partitions |-> NoKey]
    /\ pc = [c \in Fetchers |-> "idle"]
    /\ \E p \in Partitions : part = [c \in Fetchers |-> p]    \* unset
    /\ key = [c \in Fetchers |-> NoKey] /\ sealed = [c \in Fetchers |-> NoKey]
    /\ written = {[partition |-> p, key |-> dek[p]] : p \in Existing}
    /\ spoiled = {}

Goto(c, l) == pc' = [pc EXCEPT ![c] = l]

\* Encrypt of a new block, or Decrypt of a stored one, up to the lookup in the
\* cache.
FetchKey(c) ==
    /\ pc[c] = "idle"
    /\ \E p \in Partitions :
         /\ part' = [part EXCEPT ![c] = p]
         /\ \E k \in {NoKey} \cup {b.key : b \in {w \in written : w.partition = p}} :
              sealed' = [sealed EXCEPT ![c] = k]
         /\ key' = [key EXCEPT ![c] = cached[p]]
         /\ Goto(c, IF cached[p] = NoKey THEN "query" ELSE "use")
    /\ UNCHANGED <<dek, cached, drawn, written, spoiled>>

\* The SELECT, or the exception of a failing one.
QueryDEK(c) ==
    /\ pc[c] = "query"
    /\ \/ key' = [key EXCEPT ![c] = dek[part[c]]] /\ Goto(c, "queried")
       \/ Goto(c, "idle") /\ UNCHANGED key
    /\ UNCHANGED <<dek, cached, drawn, part, sealed, written, spoiled>>

\* Mutant of UseRow: one cache entry serves all partitions.
UseRow_OneEntry(c) ==
    /\ pc[c] = "queried"
    /\ key[c] # NoKey
    /\ cached' = [p \in Partitions |-> key[c]]
    /\ Goto(c, "use")
    /\ UNCHANGED <<dek, drawn, part, key, sealed, written, spoiled>>

UseRow(c) ==
    /\ pc[c] = "queried"
    /\ key[c] # NoKey
    /\ cached' = [cached EXCEPT ![part[c]] = key[c]]
    /\ Goto(c, "use")
    /\ UNCHANGED <<dek, drawn, part, key, sealed, written, spoiled>>

\* Mutant of DrawKey: the drawn key is never inserted.
DrawKey_NotInserted(c) ==
    /\ pc[c] = "queried"
    /\ key[c] = NoKey
    /\ \E k \in Keys \ drawn : /\ drawn' = drawn \cup {k}
                               /\ key' = [key EXCEPT ![c] = k]
                               /\ cached' = [cached EXCEPT ![part[c]] = k]
    /\ Goto(c, "use")
    /\ UNCHANGED <<dek, part, sealed, written, spoiled>>

\* There is no row: draw a key and cache it, then insert it.
DrawKey(c) ==
    /\ pc[c] = "queried"
    /\ key[c] = NoKey
    /\ \E k \in Keys \ drawn : /\ drawn' = drawn \cup {k}
                               /\ key' = [key EXCEPT ![c] = k]
                               /\ cached' = [cached EXCEPT ![part[c]] = k]
    /\ Goto(c, "insert")
    /\ UNCHANGED <<dek, part, sealed, written, spoiled>>

\* The INSERT.  It throws when there is a row already (partitionNumber is the
\* primary key) or the statement fails; the connection may also be lost after
\* the row was inserted.  Nothing takes the key out of the cache again.
InsertDEK(c) ==
    /\ pc[c] = "insert"
    /\ \/ /\ dek[part[c]] = NoKey
          /\ dek' = [dek EXCEPT ![part[c]] = key[c]]
          /\ \E l \in {"use", "idle"} : Goto(c, l)
          /\ UNCHANGED spoiled
       \/ /\ Goto(c, "idle")
          /\ spoiled' = spoiled \cup {part[c]}
          /\ UNCHANGED dek
    /\ UNCHANGED <<cached, drawn, part, key, sealed, written>>

\* FetchKey has returned; a new block is sealed with the key and stored.
Encrypt(c) ==
    /\ pc[c] = "use"
    /\ sealed[c] = NoKey
    /\ written' = written \cup {[partition |-> part[c], key |-> key[c]]}
    /\ Goto(c, "idle")
    /\ UNCHANGED <<dek, cached, drawn, part, key, sealed, spoiled>>

\* FetchKey has returned; the block is opened, or final() throws.
Decrypt(c) ==
    /\ pc[c] = "use"
    /\ sealed[c] # NoKey
    /\ Goto(c, "idle")
    /\ UNCHANGED <<dek, cached, drawn, part, key, sealed, written, spoiled>>

\* The process is restarted with an empty cache.
Restart ==
    /\ cached' = [p \in Partitions |-> NoKey]
    /\ pc' = [c \in Fetchers |-> "idle"]
    /\ spoiled' = spoiled \cup {part[c] : c \in {d \in Fetchers : pc[d] = "insert"}}
    /\ UNCHANGED <<dek, drawn, part, key, sealed, written>>

Step(c) ==
    \/ FetchKey(c) \/ QueryDEK(c) \/ UseRow(c) \/ DrawKey(c) \/ InsertDEK(c)
    \/ Encrypt(c) \/ Decrypt(c)

KeysNext == Restart \/ \E c \in Fetchers : Step(c)

KeysSpec == KeysInit /\ [][KeysNext]_keysVars

(***************************************************************************)
(* Properties.                                                             *)
(***************************************************************************)
Blocks == [partition : Partitions, key : Keys]

\* The type invariant; a block is never sealed with an undefined key.
KeysTypeOK ==
    /\ dek \in [Partitions -> Keys \cup {NoKey}]
    /\ cached \in [Partitions -> Keys \cup {NoKey}]
    /\ drawn \subseteq Keys
    /\ pc \in [Fetchers -> {"idle", "query", "queried", "insert", "use"}]
    /\ part \in [Fetchers -> Partitions]
    /\ key \in [Fetchers -> Keys \cup {NoKey}]
    /\ sealed \in [Fetchers -> Keys \cup {NoKey}]
    /\ written \subseteq Blocks
    /\ spoiled \subseteq Partitions

Inserting(c, p) == pc[c] = "insert" /\ part[c] = p

\* k is the stored key of p, or somebody is about to store it.
Backed(p, k) == dek[p] = k \/ \E c \in Fetchers : Inserting(c, p) /\ key[c] = k

\* A stored block can be decrypted after any restart, or its key is being
\* stored: the only way to lose a block is that storing its partition's key
\* has failed.
EveryBlockDecrypts ==
    \A b \in written : b.partition \in spoiled \/ Backed(b.partition, b.key)

\* Blocks of a partition that has had its key from the start can always be
\* decrypted, whatever else happens.
OldPartitionsAreSafe ==
    \A b \in written : b.partition \in Existing => dek[b.partition] = b.key

\* Somebody is inserting a second key for p.
Contested(p) ==
    \E c \in Fetchers : /\ Inserting(c, p)
                        /\ dek[p] # NoKey \/ \E d \in Fetchers \ {c} : Inserting(d, p)

\* Decrypt has fetched the key its block was sealed with, unless two callers
\* have drawn one for the partition or storing it has failed.
DecryptionSucceeds ==
    \A c \in Fetchers :
        pc[c] = "use" /\ sealed[c] # NoKey =>
            key[c] = sealed[c] \/ part[c] \in spoiled \/ Contested(part[c])

=============================================================================
