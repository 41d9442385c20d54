---------------------------- MODULE ReadingProofs ---------------------------
(***************************************************************************)
(* Theorems about what is read: the streaming keys and the mounts that use *)
(* them, for any users, clients, files, addresses and revisions; and the   *)
(* downloads, for any blobs, blob blocks, ranges and requests beside the   *)
(* worker that combines, frees and rewrites the blocks they lie in.        *)
(***************************************************************************)
EXTENDS FuseMount, Downloads, FiniteSetTheorems, SequenceTheorems, WellFoundedInduction, TLAPS

(***************************************************************************)
(* STREAMING KEYS AND MOUNTS.                                              *)
(***************************************************************************)

(***************************************************************************)
(* The invariant.  Beside the properties: what a user is recorded to have  *)
(* is a key of that user, so that taking it away takes no other away.      *)
(***************************************************************************)
OwnKeys ==
    \A u \in Users : userIdToStreamingKey[u] # NoKey => issued[userIdToStreamingKey[u]].userId = u

QuietKeysLive == \A k \in quiet : k \in streamingKeys \/ Expired(k)

KeysInv == LiveKeysAreCurrent /\ OwnKeys /\ QuietKeysLive /\ CountedOncePerKey

\* What is remembered of a path, once its directory was read, is whether the file existed
\* then; a lookup of a path leaves something to remember.
Remembered(cached, read, existed, lookup, f) ==
    /\ cached[f] = "file" <=> read /\ f \in existed
    /\ ~ read => existed = {} /\ cached[f] = "unknown"
    /\ lookup.number # 0 => cached[f] # "unknown"
    /\ lookup.answer = "found" => cached[f] = "file"
    /\ lookup.number = 2 /\ cached[f] = "file" => lookup.answer # "missing"

PathsRemembered ==
    \A m \in Mounts, f \in Files :
        Remembered(pathCache[m], listed[m], present[m], lookups[m][f], f)

\* Attributes are known of paths that are known, and then a lookup needs no request.
LookupsFailLate ==
    \A m \in Mounts, f \in Files :
        /\ pathCache[m][f] = "unknown" => fileAttributes[m][f] = 0
        /\ lookups[m][f].answer = "error" => now >= MountExpiry /\ fileAttributes[m][f] = 0

LEMMA OriginalIsBlob ==
  ASSUME NEW f \in Files, NEW n \in 0..MaxRevisions
  PROVE  Original(f, n) \in BlobIds
  BY DEF Original, BlobIds

LEMMA IssuedIsKey ==
  ASSUME issued \in Seq(Key), NEW k \in DOMAIN issued
  PROVE  /\ issued[k].userId \in Users /\ issued[k].expireAt \in Nat
         /\ issued[k].allowedBlobIds \in SUBSET BlobIds
         /\ k \in 1..Len(issued) /\ Len(issued) \in Nat
  <1>1. issued[k] \in Key /\ k \in 1..Len(issued) /\ Len(issued) \in Nat
    OBVIOUS
  <1> QED
    BY <1>1 DEF Key

(***************************************************************************)
(* StreamingService, one lemma per method that changes it.                 *)
(***************************************************************************)
ServiceInv == ServiceTypeOK /\ KeysInv

\* InvalidateUserStreamingKeys.
LEMMA InvalidateKeeps ==
  ASSUME ServiceInv, NEW u \in Users, Invalidate(u), now' = now
  PROVE  ServiceInv' /\ issued' = issued
  <1> USE DEF ServiceInv, ServiceTypeOK, KeysInv
  <1>1. /\ streamingKeys' = streamingKeys \ {userIdToStreamingKey[u]}
        /\ userIdToStreamingKey' = [userIdToStreamingKey EXCEPT ![u] = NoKey]
        /\ quiet' = quiet \ KeysOf(u)
        /\ issued' = issued /\ partiallyAccessed' = partiallyAccessed /\ counted' = counted
    BY DEF Invalidate
  <1>2. ServiceTypeOK'
    BY <1>1
  <1>3. LiveKeysAreCurrent'
    BY <1>1 DEF LiveKeysAreCurrent, Key
  <1>4. OwnKeys'
    BY <1>1 DEF OwnKeys
  <1>5. QuietKeysLive'
    <2> SUFFICES ASSUME NEW k \in quiet'
                 PROVE  k \in streamingKeys' \/ Expired(k)'
      BY DEF QuietKeysLive
    <2>1. k \in quiet /\ k \in DOMAIN issued /\ issued[k].userId # u
      BY <1>1 DEF KeysOf
    <2>2. k # userIdToStreamingKey[u]
      BY <2>1 DEF OwnKeys, NoKey
    <2> QED
      BY <1>1, <2>1, <2>2 DEF QuietKeysLive, Expired
  <1>6. CountedOncePerKey'
    BY <1>1 DEF CountedOncePerKey
  <1> QED
    BY <1>1, <1>2, <1>3, <1>4, <1>5, <1>6

\* CreateStreamingKey.
LEMMA CreateKeeps ==
  ASSUME ServiceInv, ClientsTypeOK, NEW c \in Clients, NEW exp \in Nat, NEW blob \in BlobIds,
         NEW kept \in SUBSET holding[c], CreateStreamingKey(c, exp, blob, kept)
  PROVE  ServiceInv' /\ ClientsTypeOK'
  <1> DEFINE k == Len(issued) + 1
             u == UserOf[c]
  <1> USE DEF ServiceInv, ServiceTypeOK, KeysInv
  <1>1. /\ asking[c].at = "create" /\ k <= MaxKeys
        /\ issued' = Append(issued, Info(c, exp))
        /\ streamingKeys' = (streamingKeys \ {userIdToStreamingKey[u]}) \cup {k}
        /\ userIdToStreamingKey' = [userIdToStreamingKey EXCEPT ![u] = k]
        /\ quiet' = (quiet \ KeysOf(u)) \cup {k}
        /\ holding' = [holding EXCEPT ![c] = kept \cup {[key |-> k, blob |-> blob]}]
        /\ asking' = [asking EXCEPT ![c] = NotAsking]
        /\ UNCHANGED <<catalogue, now, address, partiallyAccessed, counted>>
    BY DEF CreateStreamingKey
  <1>2. u \in Users
    BY ClientsHaveUsers
  <1>3. Info(c, exp) \in Key /\ Info(c, exp).userId = u /\ Info(c, exp).expireAt = exp
    <2>1. asking[c].blobIds \in SUBSET BlobIds
      BY <1>1, SMTT(30) DEF ClientsTypeOK, Asking, NotAsking
    <2>2. address[c] \in Addresses
      BY DEF ClientsTypeOK
    <2> QED
      BY <1>2, <2>1, <2>2 DEF Info, Key
  <1>4. /\ issued' \in Seq(Key) /\ Len(issued') = k /\ DOMAIN issued' = 1..k
        /\ issued'[k] = Info(c, exp)
        /\ \A i \in DOMAIN issued : issued'[i] = issued[i]
        /\ DOMAIN issued = 1..(k - 1) /\ k \in Nat \ {0}
    BY <1>1, <1>3
  <1>5. ServiceTypeOK'
    <2>1. streamingKeys' \subseteq DOMAIN issued' /\ quiet' \subseteq DOMAIN issued'
      BY <1>1, <1>4
    <2>2. userIdToStreamingKey' \in [Users -> {NoKey} \cup DOMAIN issued']
      BY <1>1, <1>2, <1>4
    <2>3. partiallyAccessed' \subseteq (DOMAIN issued') \X BlobIds
      BY <1>1, <1>4
    <2> QED
      BY <1>1, <1>4, <2>1, <2>2, <2>3
  <1>6. LiveKeysAreCurrent'
    <2> SUFFICES ASSUME NEW j \in streamingKeys'
                 PROVE  userIdToStreamingKey'[issued'[j].userId] = j
      BY DEF LiveKeysAreCurrent
    <2>1. CASE j = k
      BY <2>1, <1>1, <1>2, <1>3, <1>4
    <2>2. CASE j # k
      <3>1. j \in streamingKeys /\ j \in DOMAIN issued /\ j # userIdToStreamingKey[u]
        BY <2>2, <1>1
      <3>2. issued'[j] = issued[j] /\ issued[j].userId \in Users
        BY <3>1, <1>4, IssuedIsKey
      <3>3. userIdToStreamingKey[issued[j].userId] = j
        BY <3>1 DEF LiveKeysAreCurrent
      <3> QED
        BY <1>1, <1>2, <3>1, <3>2, <3>3
    <2> QED
      BY <2>1, <2>2
  <1>7. OwnKeys'
    <2> SUFFICES ASSUME NEW v \in Users, userIdToStreamingKey'[v] # NoKey
                 PROVE  issued'[userIdToStreamingKey'[v]].userId = v
      BY DEF OwnKeys
    <2>1. CASE v = u
      BY <2>1, <1>1, <1>2, <1>3, <1>4
    <2>2. CASE v # u
      <3>1. userIdToStreamingKey'[v] = userIdToStreamingKey[v]
        BY <2>2, <1>1
      <3>2. userIdToStreamingKey[v] \in DOMAIN issued
        BY <3>1
      <3> QED
        BY <3>1, <3>2, <1>4 DEF OwnKeys
    <2> QED
      BY <2>1, <2>2
  <1>8. QuietKeysLive'
    <2> SUFFICES ASSUME NEW j \in quiet', j # k
                 PROVE  j \in streamingKeys' \/ Expired(j)'
      BY <1>1 DEF QuietKeysLive
    <2>1. j \in quiet /\ j \in DOMAIN issued /\ issued[j].userId # u
      BY <1>1 DEF KeysOf
    <2>2. j # userIdToStreamingKey[u]
      BY <1>2, <2>1 DEF OwnKeys, NoKey
    <2> QED
      BY <1>1, <1>4, <2>1, <2>2 DEF QuietKeysLive, Expired
  <1>9. CountedOncePerKey'
    BY <1>1 DEF CountedOncePerKey
  <1>10. ClientsTypeOK'
    <2> USE DEF ClientsTypeOK
    <2>1. asking' \in [Clients -> Asking]
      BY <1>1 DEF Asking
    <2>2. holding' \in [Clients -> SUBSET [key : DOMAIN issued', blob : BlobIds]]
      <3>1. \A d \in Clients : holding[d] \subseteq [key : DOMAIN issued', blob : BlobIds]
        BY <1>4
      <3>2. [key |-> k, blob |-> blob] \in [key : DOMAIN issued', blob : BlobIds]
        BY <1>4
      <3> QED
        BY <1>1, <3>1, <3>2
    <2> QED
      BY <1>1, <2>1, <2>2 DEF catalogue
  <1> QED
    BY <1>5, <1>6, <1>7, <1>8, <1>9, <1>10

\* Authenticate and InformAboutPartialAccess.
LEMMA StreamKeeps ==
  ASSUME ServiceInv, ClientsTypeOK, NEW c \in Clients, NEW hold, StreamBlob(c, hold)
  PROVE  ServiceInv' /\ ClientsTypeOK'
  <1> DEFINE access == <<hold.key, hold.blob>>
  <1> USE DEF ServiceInv, ServiceTypeOK, KeysInv
  <1>1. /\ hold \in holding[c]
        /\ streamingKeys' = IF Expired(hold.key) THEN streamingKeys \ {hold.key}
                                                 ELSE streamingKeys
        /\ UNCHANGED <<catalogue, now, address, issued, userIdToStreamingKey, asking, holding,
                       quiet>>
    BY DEF StreamBlob
  <1>2. hold.key \in DOMAIN issued /\ hold.blob \in BlobIds /\ access \in Keys \X BlobIds
    <2>1. hold \in [key : DOMAIN issued, blob : BlobIds]
      BY <1>1 DEF ClientsTypeOK
    <2>2. hold.key \in DOMAIN issued /\ hold.blob \in BlobIds
      BY <2>1
    <2>3. hold.key \in Keys
      BY <2>2, IssuedIsKey, BoundsAreNumbers DEF Keys
    <2> QED
      BY <2>2, <2>3
  <1>3. \/ /\ partiallyAccessed' = partiallyAccessed \cup {access}
           /\ counted' = IF access \in partiallyAccessed THEN counted
                         ELSE [counted EXCEPT ![access] = @ + 1]
        \/ partiallyAccessed' = partiallyAccessed /\ counted' = counted
    BY DEF StreamBlob, InformAboutPartialAccess
  <1>4. partiallyAccessed' \subseteq (DOMAIN issued') \X BlobIds
    BY <1>1, <1>2, <1>3
  <1> HIDE DEF access
  <1>5. counted' \in [Keys \X BlobIds -> Nat]
    <2>1. counted[access] \in Nat
      BY <1>2
    <2> QED
      BY <1>2, <1>3, <2>1
  <1>6. LiveKeysAreCurrent'
    BY <1>1 DEF LiveKeysAreCurrent
  <1>7. OwnKeys'
    BY <1>1 DEF OwnKeys
  <1>8. QuietKeysLive'
    BY <1>1 DEF QuietKeysLive, Expired
  <1>9. CountedOncePerKey'
    <2> SUFFICES ASSUME NEW a \in Keys \X BlobIds
                 PROVE  counted'[a] = IF a \in partiallyAccessed' THEN 1 ELSE 0
      BY DEF CountedOncePerKey
    <2>1. counted[a] = IF a \in partiallyAccessed THEN 1 ELSE 0
      BY DEF CountedOncePerKey
    <2> QED
      BY <1>2, <1>3, <2>1
  <1>10. ClientsTypeOK'
    BY <1>1 DEF ClientsTypeOK, catalogue
  <1>11. ServiceTypeOK'
    BY <1>1, <1>4, <1>5
  <1> QED
    BY <1>6, <1>7, <1>8, <1>9, <1>10, <1>11

\* Everything else lets the service alone, but time passes.
LEMMA ServiceAlone ==
  ASSUME ServiceInv, now \in Nat, now' \in Nat, now' >= now, UNCHANGED <<service, counting>>
  PROVE  ServiceInv' /\ issued' = issued
  <1> USE DEF ServiceInv, ServiceTypeOK, KeysInv, service, counting
  <1>1. \A k \in DOMAIN issued : issued[k].expireAt \in Nat
    BY IssuedIsKey
  <1>2. QuietKeysLive'
    BY <1>1 DEF QuietKeysLive, Expired
  <1> QED
    BY <1>2 DEF LiveKeysAreCurrent, OwnKeys, CountedOncePerKey

(***************************************************************************)
(* Every step keeps the invariant of the service.                          *)
(***************************************************************************)
KeysHold == ServiceInv /\ ClientsTypeOK

LEMMA KeysInit == MountInit => KeysHold
  <1> SUFFICES ASSUME MountInit PROVE KeysHold
    OBVIOUS
  <1> USE DEF MountInit, StreamingInit
  <1>1. ServiceTypeOK
    BY BoundsAreNumbers DEF ServiceTypeOK, NoKey
  <1>2. ClientsTypeOK
    BY BoundsAreNumbers DEF ClientsTypeOK, Asking
  <1>3. KeysInv
    BY DEF KeysInv, LiveKeysAreCurrent, OwnKeys, QuietKeysLive, CountedOncePerKey
  <1> QED
    BY <1>1, <1>2, <1>3 DEF KeysHold, ServiceInv

\* A request with a token, whatever it then asks for.
LEMMA RequestKeeps ==
  ASSUME KeysHold, NEW c \in Clients,
         Invalidate(UserOf[c]) \/ UNCHANGED <<service, counting>>,
         UNCHANGED <<catalogue, now, address, holding>>, asking' \in [Clients -> Asking]
  PROVE  KeysHold'
  <1> USE DEF KeysHold
  <1>1. now \in Nat /\ now' = now /\ UserOf[c] \in Users
    BY ClientsHaveUsers, BoundsAreNumbers DEF ClientsTypeOK
  <1>2. ServiceInv' /\ issued' = issued
    <2>1. CASE Invalidate(UserOf[c])
      BY <2>1, <1>1, InvalidateKeeps
    <2>2. CASE UNCHANGED <<service, counting>>
      BY <2>2, <1>1, ServiceAlone
    <2> QED
      BY <2>1, <2>2
  <1>3. ClientsTypeOK'
    BY <1>2 DEF ClientsTypeOK, catalogue
  <1> QED
    BY <1>2, <1>3

LEMMA RequestStreamingKeyKeeps ==
  ASSUME KeysHold, NEW c \in Clients, NEW f \in Files, RequestStreamingKey(c, f)
  PROVE  KeysHold'
  <1>1. asking' \in [Clients -> Asking]
    BY DEF RequestStreamingKey, KeysHold, ClientsTypeOK, Asking
  <1> QED
    BY <1>1, RequestKeeps DEF RequestStreamingKey

\* The service keeps the rest to itself: only what its clients know changes.
LEMMA ClientKeeps ==
  ASSUME KeysHold, UNCHANGED <<service, counting>>, now' \in 0..MaxTime, now' >= now,
         newest' \in [Files -> 0..MaxRevisions], versions' \subseteq BlobIds,
         address' \in [Clients -> Addresses], asking' \in [Clients -> Asking],
         holding' \in [Clients -> SUBSET [key : DOMAIN issued, blob : BlobIds]]
  PROVE  KeysHold'
  <1>1. now \in Nat /\ now' \in Nat
    BY BoundsAreNumbers DEF KeysHold, ClientsTypeOK
  <1>2. ServiceInv' /\ issued' = issued
    BY <1>1, ServiceAlone DEF KeysHold
  <1> QED
    BY <1>2 DEF KeysHold, ClientsTypeOK

LEMMA PlayerKeeps ==
  ASSUME KeysHold, NEW c \in Clients, Player(c)
  PROVE  KeysHold'
  <1>1. CASE AuthenticatedRequest(c)
    <2>1. asking' \in [Clients -> Asking]
      BY <1>1 DEF AuthenticatedRequest, KeysHold, ClientsTypeOK
    <2> QED
      BY <1>1, <2>1, RequestKeeps DEF AuthenticatedRequest
  <1>2. CASE PlayerIsAnswered(c)
    <2>1. PICK exp \in now..MaxTime, blob \in asking[c].blobIds :
              CreateStreamingKey(c, exp, blob, {})
      BY <1>2 DEF PlayerIsAnswered
    <2>2. blob \in BlobIds
      BY <1>2, <2>1 DEF PlayerIsAnswered, KeysHold, ClientsTypeOK, Asking, NotAsking
    <2>3. exp \in Nat
      BY <2>1, BoundsAreNumbers DEF KeysHold, ClientsTypeOK
    <2> QED
      BY <2>1, <2>2, <2>3, CreateKeeps DEF KeysHold
  <1>3. CASE OnQualityChanged(c)
    <2>1. PICK hold \in holding[c] : \E blob \in issued[hold.key].allowedBlobIds :
              holding' = [holding EXCEPT ![c] = {[hold EXCEPT !.blob = blob]}]
      BY <1>3 DEF OnQualityChanged
    <2>2. PICK blob \in issued[hold.key].allowedBlobIds :
              holding' = [holding EXCEPT ![c] = {[hold EXCEPT !.blob = blob]}]
      BY <2>1
    <2>3. hold \in [key : DOMAIN issued, blob : BlobIds]
      BY <2>1 DEF KeysHold, ClientsTypeOK
    <2>4. blob \in BlobIds
      BY <2>2, <2>3, IssuedIsKey DEF KeysHold, ServiceInv, ServiceTypeOK
    <2>5. [hold EXCEPT !.blob = blob] \in [key : DOMAIN issued, blob : BlobIds]
      BY <2>3, <2>4
    <2>6. holding' \in [Clients -> SUBSET [key : DOMAIN issued, blob : BlobIds]]
      BY <2>2, <2>5 DEF KeysHold, ClientsTypeOK
    <2> QED
      BY <1>3, <2>6, ClientKeeps, BoundsAreNumbers
      DEF OnQualityChanged, KeysHold, ClientsTypeOK, catalogue
  <1>4. CASE \E f \in Files : RequestStreamingKey(c, f)
    BY <1>4, RequestStreamingKeyKeeps
  <1>5. CASE \E hold \in holding[c] : StreamBlob(c, hold)
    BY <1>5, StreamKeeps DEF KeysHold
  <1> QED
    BY <1>1, <1>2, <1>3, <1>4, <1>5 DEF Player

LEMMA ServeKeeps ==
  ASSUME KeysHold, NEW c \in Clients, Serve(c)
  PROVE  KeysHold'
  <1>1. asking[c] \in Asking
    BY DEF KeysHold, ClientsTypeOK
  <1>2. UNCHANGED <<service, counting, newest, versions, now, address, holding>>
    BY DEF Serve, QueryNewestRevision, QueryVersions, catalogue
  <1>3. asking' \in [Clients -> Asking]
    <2>1. CASE QueryNewestRevision(c)
      <3>1. asking[c].file \in Files
        BY <2>1, <1>1 DEF QueryNewestRevision, Asking, NotAsking
      <3>2. newest[asking[c].file] \in 0..MaxRevisions
        BY <3>1 DEF KeysHold, ClientsTypeOK
      <3>3. [at |-> "versions", file |-> asking[c].file, newest |-> newest[asking[c].file]]
              \in Asking
        BY <3>1, <3>2 DEF Asking
      <3> QED
        BY <2>1, <3>3 DEF QueryNewestRevision, KeysHold, ClientsTypeOK
    <2>2. CASE QueryVersions(c)
      <3> DEFINE blob == Original(asking[c].file, asking[c].newest)
                 ids == {blob} \cup {v \in versions : v[1] = asking[c].file /\ v[2] = blob[2]}
      <3>1. asking[c].file \in Files /\ asking[c].newest \in 0..MaxRevisions
        BY <2>2, <1>1 DEF QueryVersions, Asking, NotAsking
      <3>2. blob \in BlobIds
        BY <3>1, OriginalIsBlob
      <3>3. ids \in SUBSET BlobIds
        BY <3>2 DEF KeysHold, ClientsTypeOK
      <3>4. asking' = [asking EXCEPT ![c] =
                          [at |-> "create", file |-> asking[c].file, blobIds |-> ids]]
        BY <2>2 DEF QueryVersions
      <3> HIDE DEF ids
      <3>5. [at |-> "create", file |-> asking[c].file, blobIds |-> ids] \in Asking
        BY <3>1, <3>3 DEF Asking
      <3> QED
        BY <3>4, <3>5 DEF KeysHold, ClientsTypeOK
    <2> QED
      BY <2>1, <2>2 DEF Serve
  <1> QED
    BY <1>2, <1>3, ClientKeeps, BoundsAreNumbers DEF KeysHold, ClientsTypeOK

LEMMA EnvironmentKeeps ==
  ASSUME KeysHold, Environment
  PROVE  KeysHold'
  <1> USE BoundsAreNumbers DEF KeysHold, ClientsTypeOK, catalogue
  <1>1. ASSUME NEW f \in Files, AddRevision(f)
        PROVE  KeysHold'
    <2>1. newest' \in [Files -> 0..MaxRevisions]
      BY <1>1 DEF AddRevision
    <2> QED
      BY <1>1, <2>1, ClientKeeps DEF AddRevision
  <1>2. ASSUME NEW f \in Files, AddVersion(f)
        PROVE  KeysHold'
    <2>1. <<f, newest[f], "stream">> \in BlobIds
      BY DEF BlobIds
    <2>2. versions' \subseteq BlobIds
      BY <1>2, <2>1 DEF AddVersion
    <2> QED
      BY <1>2, <2>2, ClientKeeps DEF AddVersion
  <1>3. CASE Tick
    <2>1. now' \in 0..MaxTime /\ now' >= now
      BY <1>3 DEF Tick
    <2> QED
      BY <1>3, <2>1, ClientKeeps DEF Tick
  <1>4. ASSUME NEW c \in Clients, Move(c)
        PROVE  KeysHold'
    <2>1. address' \in [Clients -> Addresses]
      BY <1>4 DEF Move
    <2> QED
      BY <1>4, <2>1, ClientKeeps DEF Move
  <1> QED
    BY <1>1, <1>2, <1>3, <1>4 DEF Environment

LEMMA OperationKeepsKeys ==
  ASSUME KeysHold, CachesTypeOK, NEW m \in Mounts, Operation(m)
  PROVE  KeysHold'
  <1>1. m \in Clients
    BY MountsAreClients
  <1>2. ASSUME \/ ListDirectoryContents(m)
               \/ \E f \in Files : \/ EnsureParentIsCached(m, f) \/ GetAttributes(m, f)
                                   \/ LookupFails(m, f)
        PROVE  KeysHold'
    <2>1. /\ Invalidate(UserOf[m]) \/ UNCHANGED <<service, counting>>
          /\ UNCHANGED <<catalogue, now, address, asking, holding>>
      BY <1>2 DEF ListDirectoryContents, EnsureParentIsCached, GetAttributes, LookupFails,
         streamingVars
    <2>2. asking' \in [Clients -> Asking]
      BY <2>1 DEF KeysHold, ClientsTypeOK
    <2> QED
      BY <1>1, <2>1, <2>2, RequestKeeps
  <1>3. CASE DownloadSlice(m)
    BY <1>1, <1>3, StreamKeeps DEF DownloadSlice, KeysHold
  <1>4. CASE CloseFile(m)
    <2>1. holding' \in [Clients -> SUBSET [key : DOMAIN issued, blob : BlobIds]]
      BY <1>1, <1>4 DEF CloseFile, KeysHold, ClientsTypeOK
    <2> QED
      BY <1>4, <2>1, ClientKeeps, BoundsAreNumbers
      DEF CloseFile, KeysHold, ClientsTypeOK, catalogue
  <1>5. CASE FileIsOpened(m)
    <2> DEFINE blob == Original(asking[m].file, fileAttributes[m][asking[m].file])
    <2>1. asking[m].file \in Files
      BY <1>1, <1>5 DEF FileIsOpened, KeysHold, ClientsTypeOK, Asking, NotAsking
    <2>2. blob \in BlobIds
      BY <2>1, OriginalIsBlob DEF CachesTypeOK
    <2>3. CreateStreamingKey(m, MountExpiry, blob, holding[m])
      BY <1>5 DEF FileIsOpened
    <2> HIDE DEF blob
    <2> QED
      BY <1>1, <2>2, <2>3, CreateKeeps, MountsAreClients DEF KeysHold
  <1>6. ASSUME NEW f \in Files, OpenFile(m, f)
        PROVE  KeysHold'
    BY <1>1, <1>6, RequestStreamingKeyKeeps DEF OpenFile
  <1> QED
    BY <1>2, <1>3, <1>4, <1>5, <1>6 DEF Operation

LEMMA KeysNext ==
  ASSUME KeysHold, CachesTypeOK, [MountNext]_mountVars
  PROVE  KeysHold'
  <1>1. CASE \E m \in Mounts : Operation(m)
    BY <1>1, OperationKeepsKeys
  <1>2. CASE \E c \in Clients \ Mounts : Player(c)
    BY <1>2, PlayerKeeps
  <1>3. CASE \E c \in Clients : Serve(c)
    BY <1>3, ServeKeeps
  <1>4. CASE Environment
    BY <1>4, EnvironmentKeeps
  <1>5. CASE UNCHANGED mountVars
    <2>1. now \in 0..MaxTime /\ now \in Nat
      BY BoundsAreNumbers DEF KeysHold, ClientsTypeOK
    <2> QED
      BY <1>5, <2>1, ClientKeeps
      DEF mountVars, streamingVars, catalogue, KeysHold, ClientsTypeOK
  <1> QED
    BY <1>1, <1>2, <1>3, <1>4, <1>5 DEF MountNext

(***************************************************************************)
(* Every step keeps what a mount remembers in order.                       *)
(***************************************************************************)
CachesHold == CachesTypeOK /\ PathsRemembered

LEMMA CachesInit == MountInit => CachesHold /\ LookupsFailLate
  BY BoundsAreNumbers DEF MountInit, CachesHold, CachesTypeOK, Lookup, PathsRemembered, Remembered,
     LookupsFailLate

\* A path that was never looked up, in a directory that is read now or was before.
LEMMA EnsureParentKeeps ==
  ASSUME CachesHold, ClientsTypeOK, NEW m \in Mounts, NEW f \in Files,
         EnsureParentIsCached(m, f)
  PROVE  CachesHold'
  <1> DEFINE seen == IF listed[m] THEN pathCache[m]
                     ELSE [g \in Files |-> IF g \in Existing THEN "file" ELSE pathCache[m][g]]
             known == [seen EXCEPT ![f] = IF @ = "unknown" THEN "missing" ELSE @]
  <1> USE DEF CachesHold, CachesTypeOK
  <1>1. /\ pathCache[m][f] = "unknown"
        /\ pathCache' = [pathCache EXCEPT ![m] = known]
        /\ \/ listed[m] /\ listed' = listed /\ present' = present
           \/ /\ ~ listed[m] /\ listed' = [listed EXCEPT ![m] = TRUE]
              /\ present' = [present EXCEPT ![m] = Existing]
        /\ lookups' = [lookups EXCEPT ![m][f] =
                           [number |-> IF @.number = 0 THEN 1 ELSE 2, answer |-> "missing"]]
        /\ fileAttributes' = fileAttributes
    BY DEF EnsureParentIsCached, CacheChildren, Looked
  <1>2. lookups[m][f].number = 0 /\ lookups[m][f] \in Lookup
    BY <1>1 DEF PathsRemembered, Remembered
  <1>3. lookups' = [lookups EXCEPT ![m] =
                        [lookups[m] EXCEPT ![f] = [number |-> 1, answer |-> "missing"]]]
    BY <1>1, <1>2
  <1>4. seen \in [Files -> {"unknown", "missing", "file"}] /\ Existing \subseteq Files
    BY DEF Existing
  <1>5. known \in [Files -> {"unknown", "missing", "file"}] /\ known[f] # "unknown"
        /\ \A g \in Files : (known[g] = "file" <=> seen[g] = "file")
                            /\ (g # f => known[g] = seen[g])
    BY <1>4
  <1>6. \A g \in Files : /\ seen[g] = "file" <=> g \in present'[m]
                         /\ pathCache[m][g] # "unknown" => seen[g] # "unknown"
                         /\ pathCache[m][g] = "file" => seen[g] = "file"
    <2> TAKE g \in Files
    <2>1. CASE listed[m]
      BY <1>1, <2>1 DEF PathsRemembered, Remembered
    <2>2. CASE ~ listed[m]
      BY <1>1, <1>4, <2>2 DEF PathsRemembered, Remembered
    <2> QED
      BY <2>1, <2>2
  <1> HIDE DEF seen, known
  <1>7. CachesTypeOK'
    <2>1. listed' \in [Mounts -> BOOLEAN] /\ present' \in [Mounts -> SUBSET Files]
      BY <1>1, <1>4
    <2>2. lookups' \in [Mounts -> [Files -> Lookup]]
      <3>1. [number |-> 1, answer |-> "missing"] \in Lookup
        BY DEF Lookup
      <3> QED
        BY <1>3, <3>1
    <2>3. pathCache' \in [Mounts -> [Files -> {"unknown", "missing", "file"}]]
      BY <1>1, <1>5
    <2> QED
      BY <1>1, <2>1, <2>2, <2>3
  <1>8. PathsRemembered'
    <2> SUFFICES ASSUME NEW n \in Mounts, NEW g \in Files
                 PROVE  Remembered(pathCache'[n], listed'[n], present'[n], lookups'[n][g], g)
      BY DEF PathsRemembered
    <2>0. Remembered(pathCache[n], listed[n], present[n], lookups[n][g], g)
      BY DEF PathsRemembered
    <2>1. CASE n # m
      <3>1. /\ lookups'[n] = lookups[n] /\ pathCache'[n] = pathCache[n]
            /\ listed'[n] = listed[n] /\ present'[n] = present[n]
        BY <2>1, <1>1, <1>3
      <3> QED
        BY <2>0, <3>1
    <2>2. CASE n = m /\ g = f
      <3>1. lookups'[m][f] = [number |-> 1, answer |-> "missing"]
        BY <1>3
      <3>2. pathCache'[m] = known
        BY <1>1
      <3>3. listed'[m]
        BY <1>1
      <3> QED
        BY <2>2, <3>1, <3>2, <3>3, <1>5, <1>6 DEF Remembered
    <2>3. CASE n = m /\ g # f
      <3>1. lookups'[m][g] = lookups[m][g] /\ pathCache'[m] = known /\ listed'[m]
        BY <2>3, <1>1, <1>3
      <3>2. known[g] = seen[g]
        BY <2>3, <1>5
      <3>3. Remembered(pathCache[m], listed[m], present[m], lookups[m][g], g)
        BY <2>0, <2>3
      <3>4. pathCache[m][g] # "unknown" => seen[g] = pathCache[m][g]
        BY <3>3 DEF seen, Remembered
      <3> QED
        BY <2>3, <3>1, <3>2, <3>3, <3>4, <1>6 DEF Remembered
    <2> QED
      BY <2>1, <2>2, <2>3
  <1> QED
    BY <1>7, <1>8

LEMMA GetAttributesKeeps ==
  ASSUME CachesHold, ClientsTypeOK, NEW m \in Mounts, NEW f \in Files, GetAttributes(m, f)
  PROVE  CachesHold'
  <1> DEFINE found == pathCache[m][f] = "file"
             looked == [number |-> IF lookups[m][f].number = 0 THEN 1 ELSE 2,
                        answer |-> IF found THEN "found" ELSE "missing"]
  <1> USE DEF CachesHold, CachesTypeOK
  <1>1. /\ pathCache[m][f] # "unknown"
        /\ lookups' = [lookups EXCEPT ![m] = [lookups[m] EXCEPT ![f] = looked]]
        /\ UNCHANGED <<listed, pathCache, present>>
        /\ \/ fileAttributes' = [fileAttributes EXCEPT ![m] =
                                    [fileAttributes[m] EXCEPT ![f] = newest[f]]]
           \/ fileAttributes' = fileAttributes
    BY DEF GetAttributes, Looked
  <1>2. looked \in Lookup /\ looked.answer = IF found THEN "found" ELSE "missing"
    BY DEF Lookup
  <1> HIDE DEF looked
  <1>3. lookups[m] \in [Files -> Lookup]
    OBVIOUS
  <1>4. lookups' \in [Mounts -> [Files -> Lookup]]
    BY <1>1, <1>2, <1>3
  <1>5. newest[f] \in 0..MaxRevisions
    BY DEF ClientsTypeOK
  <1>6. fileAttributes' \in [Mounts -> [Files -> 0..MaxRevisions]]
    <2>1. [fileAttributes[m] EXCEPT ![f] = newest[f]] \in [Files -> 0..MaxRevisions]
      BY <1>5
    <2> QED
      BY <1>1, <2>1
  <1>7. CachesTypeOK'
    BY <1>1, <1>4, <1>6
  <1>8. ASSUME NEW n \in Mounts, NEW g \in Files
        PROVE  Remembered(pathCache'[n], listed'[n], present'[n], lookups'[n][g], g)
    <2>1. Remembered(pathCache[n], listed[n], present[n], lookups[n][g], g)
      BY DEF PathsRemembered
    <2>2. CASE n = m /\ g = f
      <3>1. lookups'[m][f] = looked
        BY <1>1, <1>3
      <3> QED
        BY <1>1, <1>2, <2>1, <2>2, <3>1 DEF Remembered
    <2>3. CASE ~ (n = m /\ g = f)
      <3>1. lookups'[n][g] = lookups[n][g]
        BY <1>1, <1>3, <2>3
      <3> QED
        BY <1>1, <2>1, <3>1
    <2> QED
      BY <2>2, <2>3
  <1> QED
    BY <1>7, <1>8 DEF PathsRemembered

LEMMA LookupFailsKeeps ==
  ASSUME CachesHold, NEW m \in Mounts, NEW f \in Files, LookupFails(m, f)
  PROVE  CachesHold'
  <1> DEFINE failed == [lookups[m][f] EXCEPT !.answer = "error"]
  <1> USE DEF CachesHold, CachesTypeOK
  <1>1. /\ lookups' = [lookups EXCEPT ![m] = [lookups[m] EXCEPT ![f] = failed]]
        /\ UNCHANGED <<listed, pathCache, fileAttributes, present>>
    BY DEF LookupFails, mount
  <1>2. /\ failed \in Lookup /\ failed.answer = "error" /\ failed.number = lookups[m][f].number
        /\ lookups[m] \in [Files -> Lookup]
    <2>1. PICK lookup \in Lookup : lookup = lookups[m][f]
      OBVIOUS
    <2>2. /\ [lookup EXCEPT !.answer = "error"] \in Lookup
          /\ [lookup EXCEPT !.answer = "error"].answer = "error"
          /\ [lookup EXCEPT !.answer = "error"].number = lookup.number
      BY DEF Lookup
    <2> QED
      BY <2>1, <2>2
  <1> HIDE DEF failed
  <1>3. lookups' \in [Mounts -> [Files -> Lookup]]
    <2>1. [lookups[m] EXCEPT ![f] = failed] \in [Files -> Lookup]
      BY <1>2
    <2>2. lookups \in [Mounts -> [Files -> Lookup]]
      OBVIOUS
    <2> QED
      BY <1>1, <2>1, <2>2
  <1>4. ASSUME NEW n \in Mounts, NEW g \in Files
        PROVE  Remembered(pathCache'[n], listed'[n], present'[n], lookups'[n][g], g)
    <2>1. Remembered(pathCache[n], listed[n], present[n], lookups[n][g], g)
      BY DEF PathsRemembered
    <2>2. CASE n = m /\ g = f
      <3>1. lookups'[m][f] = failed
        BY <1>1, <1>2
      <3> QED
        BY <1>1, <1>2, <2>1, <2>2, <3>1 DEF Remembered
    <2>3. CASE ~ (n = m /\ g = f)
      <3>1. lookups'[n][g] = lookups[n][g]
        BY <1>1, <1>2, <2>3
      <3> QED
        BY <1>1, <2>1, <3>1
    <2> QED
      BY <2>2, <2>3
  <1> QED
    BY <1>1, <1>3, <1>4 DEF PathsRemembered

LEMMA ListDirectoryKeeps ==
  ASSUME CachesHold, NEW m \in Mounts, ListDirectoryContents(m)
  PROVE  CachesHold'
  <1> DEFINE known == [f \in Files |-> IF f \in Existing THEN "file" ELSE pathCache[m][f]]
  <1> USE DEF CachesHold, CachesTypeOK
  <1>1. /\ ~ listed[m] /\ listed' = [listed EXCEPT ![m] = TRUE]
        /\ present' = [present EXCEPT ![m] = Existing]
        /\ pathCache' = [pathCache EXCEPT ![m] = known]
        /\ UNCHANGED <<fileAttributes, lookups>>
    BY DEF ListDirectoryContents, CacheChildren
  <1>2. known \in [Files -> {"unknown", "missing", "file"}] /\ Existing \subseteq Files
    BY DEF Existing
  <1>3. CachesTypeOK'
    BY <1>1, <1>2
  <1>4. ASSUME NEW n \in Mounts, NEW g \in Files
        PROVE  Remembered(pathCache'[n], listed'[n], present'[n], lookups'[n][g], g)
    <2>1. Remembered(pathCache[n], listed[n], present[n], lookups[n][g], g)
      BY DEF PathsRemembered
    <2>2. CASE n = m
      <3>1. /\ pathCache[m][g] = "unknown" /\ lookups[m][g].number = 0
            /\ lookups[m][g].answer # "found"
        BY <1>1, <2>1, <2>2 DEF Remembered
      <3>2. /\ pathCache'[m] = known /\ present'[m] = Existing
            /\ lookups'[m][g] = lookups[m][g]
        BY <1>1
      <3>3. listed'[m]
        BY <1>1
      <3>4. known[g] = "file" <=> g \in Existing
        BY <3>1
      <3> HIDE DEF known
      <3> QED
        BY <2>2, <3>1, <3>2, <3>3, <3>4 DEF Remembered
    <2>3. CASE n # m
      BY <1>1, <2>1, <2>3
    <2> QED
      BY <2>2, <2>3
  <1> QED
    BY <1>3, <1>4 DEF PathsRemembered

LEMMA CachesNext ==
  ASSUME CachesHold, ClientsTypeOK, [MountNext]_mountVars
  PROVE  CachesHold'
  <1>1. ASSUME UNCHANGED <<mount, lookups, present>>
        PROVE  CachesHold'
    BY <1>1 DEF CachesHold, CachesTypeOK, PathsRemembered, mount
  <1>2. ASSUME NEW m \in Mounts, Operation(m)
        PROVE  CachesHold'
    <2>1. CASE ListDirectoryContents(m)
      BY <2>1, ListDirectoryKeeps
    <2>2. CASE DownloadSlice(m) \/ FileIsOpened(m) \/ \E f \in Files : OpenFile(m, f)
      BY <2>2, <1>1 DEF DownloadSlice, FileIsOpened, OpenFile
    <2>3. CASE CloseFile(m)
      BY <2>3, <1>1 DEF CloseFile
    <2>4. CASE \E f \in Files : EnsureParentIsCached(m, f)
      BY <2>4, EnsureParentKeeps
    <2>5. CASE \E f \in Files : GetAttributes(m, f)
      BY <2>5, GetAttributesKeeps
    <2>6. CASE \E f \in Files : LookupFails(m, f)
      BY <2>6, LookupFailsKeeps
    <2> QED
      BY <1>2, <2>1, <2>2, <2>3, <2>4, <2>5, <2>6 DEF Operation
  <1>3. CASE UNCHANGED mountVars
    BY <1>3, <1>1 DEF mountVars
  <1> QED
    BY <1>1, <1>2, <1>3 DEF MountNext

\* Time goes on, and a file whose attributes are known is found.
LEMMA FailuresNext ==
  ASSUME CachesTypeOK, ClientsTypeOK, LookupsFailLate, [MountNext]_mountVars
  PROVE  LookupsFailLate'
  <1>0. now \in Nat /\ MountExpiry \in Nat
    BY BoundsAreNumbers, MountsAreClients DEF ClientsTypeOK
  <1>1. ASSUME UNCHANGED <<fileAttributes, lookups>>, now' = now \/ now' = now + 1,
               \A m \in Mounts, f \in Files :
                 pathCache'[m][f] = "unknown" => pathCache[m][f] = "unknown"
        PROVE  LookupsFailLate'
    BY <1>0, <1>1 DEF LookupsFailLate
  <1>2. ASSUME NEW m \in Mounts, Operation(m)
        PROVE  LookupsFailLate'
    <2> USE DEF LookupsFailLate, CachesTypeOK
    <2>1. CASE ListDirectoryContents(m)
      BY <2>1, <1>1 DEF ListDirectoryContents
    <2>2. CASE DownloadSlice(m) \/ FileIsOpened(m) \/ \E f \in Files : OpenFile(m, f)
      BY <2>2, <1>1 DEF DownloadSlice, StreamBlob, FileIsOpened, CreateStreamingKey, OpenFile,
         RequestStreamingKey, mount
    <2>3. CASE CloseFile(m)
      BY <2>3, <1>1 DEF CloseFile, mount
    <2>4. ASSUME NEW f \in Files, EnsureParentIsCached(m, f) \/ GetAttributes(m, f)
          PROVE  LookupsFailLate'
      <3>1. /\ lookups'[m][f].answer # "error" /\ now' = now
            /\ \A n \in Mounts, g \in Files :
                 ~ (n = m /\ g = f) => /\ lookups'[n][g] = lookups[n][g]
                                       /\ fileAttributes'[n][g] = fileAttributes[n][g]
        BY <2>4 DEF EnsureParentIsCached, GetAttributes, Looked
      <3>2. \A n \in Mounts, g \in Files :
              pathCache'[n][g] = "unknown" =>
                pathCache[n][g] = "unknown" /\ fileAttributes'[n][g] = fileAttributes[n][g]
        <4>1. CASE GetAttributes(m, f)
          BY <4>1, <3>1 DEF GetAttributes
        <4>2. CASE EnsureParentIsCached(m, f)
          <5> DEFINE seen == IF listed[m] THEN pathCache[m]
                             ELSE [g \in Files |-> IF g \in Existing THEN "file"
                                                   ELSE pathCache[m][g]]
                     known == [seen EXCEPT ![f] = IF @ = "unknown" THEN "missing" ELSE @]
          <5>1. pathCache' = [pathCache EXCEPT ![m] = known] /\ fileAttributes' = fileAttributes
            BY <4>2 DEF EnsureParentIsCached
          <5>2. \A g \in Files : known[g] = "unknown" => pathCache[m][g] = "unknown"
            OBVIOUS
          <5> HIDE DEF known
          <5> QED
            BY <5>1, <5>2
        <4> QED
          BY <2>4, <4>1, <4>2
      <3>3. ASSUME NEW n \in Mounts, NEW g \in Files, lookups'[n][g].answer = "error"
            PROVE  now' >= MountExpiry /\ fileAttributes'[n][g] = 0
        BY <3>1, <3>3
      <3>4. ASSUME NEW n \in Mounts, NEW g \in Files, pathCache'[n][g] = "unknown"
            PROVE  fileAttributes'[n][g] = 0
        BY <3>2, <3>4
      <3> QED
        BY <3>3, <3>4
    <2>5. ASSUME NEW f \in Files, LookupFails(m, f)
          PROVE  LookupsFailLate'
      <3> DEFINE failed == [lookups[m][f] EXCEPT !.answer = "error"]
      <3>1. /\ now >= MountExpiry /\ UNCHANGED <<now, fileAttributes, pathCache>>
            /\ lookups' = [lookups EXCEPT ![m] = [lookups[m] EXCEPT ![f] = failed]]
        BY <2>5 DEF LookupFails, Refused, streamingVars, mount
      <3>2. fileAttributes[m][f] = 0
        BY <2>5 DEF LookupFails
      <3> HIDE DEF failed
      <3>3. \A n \in Mounts, g \in Files :
              ~ (n = m /\ g = f) => lookups'[n][g] = lookups[n][g]
        BY <3>1
      <3> QED
        BY <3>1, <3>2, <3>3
    <2> QED
      BY <1>2, <2>1, <2>2, <2>3, <2>4, <2>5 DEF Operation
  <1>3. CASE UNCHANGED mountVars
    BY <1>3, <1>1 DEF mountVars, mount, streamingVars
  <1>4. CASE /\ \/ \E c \in Clients \ Mounts : Player(c)
                \/ \E c \in Clients : Serve(c)
                \/ Environment
             /\ UNCHANGED <<mount, lookups, present>>
    <2>1. now' = now \/ now' = now + 1
      BY <1>4 DEF Player, AuthenticatedRequest, PlayerIsAnswered, CreateStreamingKey,
         OnQualityChanged, RequestStreamingKey, StreamBlob, Serve, QueryNewestRevision, QueryVersions,
         Environment, AddRevision, AddVersion, Tick, Move
    <2> QED
      BY <1>1, <1>4, <2>1 DEF mount
  <1> QED
    BY <1>2, <1>3, <1>4 DEF MountNext

(***************************************************************************)
(* The theorems.                                                           *)
(***************************************************************************)
LEMMA Invariance == MountSpec => [](KeysHold /\ CachesHold /\ LookupsFailLate)
  <1> DEFINE Inv == KeysHold /\ CachesHold /\ LookupsFailLate
  <1>1. MountInit => Inv
    BY KeysInit, CachesInit
  <1>2. Inv /\ [MountNext]_mountVars => Inv'
    BY KeysNext, CachesNext, FailuresNext DEF KeysHold, CachesHold
  <1> QED
    BY <1>1, <1>2, PTL DEF MountSpec

\* The tables, keys, requests and caches keep their types, whatever a client asks for.
THEOREM MountTypeCorrect == MountSpec => []MountTypeOK
  <1>1. KeysHold /\ CachesHold => MountTypeOK
    BY DEF KeysHold, ServiceInv, CachesHold, MountTypeOK, StreamingTypeOK
  <1> QED
    BY <1>1, Invariance, PTL

\* StreamingService never knows a key that taking away the key of its user would leave
\* usable, for any number of users, players and mounts.
THEOREM KeysStayCurrent == MountSpec => []LiveKeysAreCurrent
  <1>1. KeysHold => LiveKeysAreCurrent
    BY DEF KeysHold, ServiceInv, KeysInv
  <1> QED
    BY <1>1, Invariance, PTL

\* While its user asks for nothing with a token, a key works until it expires.
THEOREM QuietKeysStayUsable == MountSpec => []QuietKeysWork
  <1>1. KeysHold => QuietKeysWork
    <2> SUFFICES ASSUME KeysHold, NEW c \in Clients, NEW hold \in holding[c],
                        hold.key \in quiet, now <= issued[hold.key].expireAt,
                        address[c] = issued[hold.key].remoteIP,
                        hold.blob \in issued[hold.key].allowedBlobIds
                 PROVE  Authenticate(hold.key, hold.blob, address[c])
      BY DEF QuietKeysWork
    <2>1. hold.key \in DOMAIN issued
      BY DEF KeysHold, ClientsTypeOK
    <2>2. issued[hold.key].expireAt \in Nat /\ now \in Nat
      BY <2>1, IssuedIsKey, BoundsAreNumbers
      DEF KeysHold, ClientsTypeOK, ServiceInv, ServiceTypeOK
    <2>3. ~ Expired(hold.key)
      BY <2>2 DEF Expired
    <2>4. hold.key \in streamingKeys
      BY <2>3 DEF KeysHold, ServiceInv, KeysInv, QuietKeysLive
    <2> QED
      BY <2>3, <2>4 DEF Authenticate
  <1> QED
    BY <1>1, Invariance, PTL

\* However often parts of a blob are asked for, InformAboutPartialAccess counts once per key.
THEOREM AccessesCountOnce == MountSpec => []CountedOncePerKey
  <1>1. KeysHold => CountedOncePerKey
    BY DEF KeysHold, ServiceInv, KeysInv
  <1> QED
    BY <1>1, Invariance, PTL

\* A mount finds from the second answered lookup on exactly what its directory held when
\* it was read, and a lookup is answered while the token is accepted or the attributes are
\* known.
THEOREM FoundAgain == MountSpec => []FoundFromSecondLookup
  <1>1. CachesHold /\ LookupsFailLate => FoundFromSecondLookup
    BY DEF CachesHold, CachesTypeOK, PathsRemembered, Remembered, LookupsFailLate,
       FoundFromSecondLookup
  <1> QED
    BY <1>1, Invariance, PTL

(***************************************************************************)
(* DOWNLOADS.  FlattenSeq and SetToSeq.                                    *)
(***************************************************************************)
LEMMA LeastOfNaturals ==
  ASSUME NEW B, B \subseteq Nat, B # {}
  PROVE  \E b \in B : \A other \in B : b <= other
  <1> DEFINE Below == {0..b : b \in B}
  <1>1. Below \subseteq FiniteSubsetsOf(Nat)
    <2>1. ASSUME NEW b \in B PROVE 0..b \subseteq Nat /\ IsFiniteSet(0..b)
      BY FS_Interval
    <2> QED
      BY <2>1 DEF FiniteSubsetsOf
  <1>2. Below # {}
    OBVIOUS
  <1> HIDE DEF Below
  <1>3. PICK x \in Below : \A y \in Below : <<y, x>> \notin StrictSubsetOrdering(Nat)
    BY <1>1, <1>2, FS_StrictSubsetOrderingWellFounded, WFMin
  <1>4. PICK b \in B : x = 0..b
    BY <1>3 DEF Below
  <1>5. ASSUME NEW other \in B, ~ (b <= other) PROVE FALSE
    <2>1. 0..other \in Below
      BY DEF Below
    <2>2. other \in Nat /\ b \in Nat /\ other < b
      BY <1>5
    <2>3. 0..other \subseteq 0..b /\ b \in 0..b /\ b \notin 0..other
      BY <2>2
    <2>4. <<0..other, 0..b>> \in StrictSubsetOrdering(Nat)
      BY <2>2, <2>3 DEF StrictSubsetOrdering
    <2> QED
      BY <1>3, <1>4, <2>1, <2>4
  <1> QED
    BY <1>5

\* A sequence that begins with the first part and goes on with one part after the other is
\* what FlattenSeq makes of them.  (Two functions that satisfy FlattenSeq's recursion would
\* differ at a least index, and cannot.)
LEMMA FlattenIs ==
  ASSUME NEW n \in Nat \ {0}, NEW parts, NEW joined,
         DOMAIN parts = 1..n, Len(parts) = n, DOMAIN joined = 1..n,
         joined = [i \in 1..n |-> IF i = 1 THEN parts[i] ELSE joined[i - 1] \o parts[i]]
  PROVE  FlattenSeq(parts) = joined[n]
  <1> DEFINE Solves(f) ==
               f = [i \in 1..n |-> IF i = 1 THEN parts[i] ELSE f[i - 1] \o parts[i]]
             flatten == CHOOSE f : Solves(f)
  <1>1. Solves(flatten)
    <2>1. Solves(joined)
      OBVIOUS
    <2> HIDE DEF Solves
    <2> QED
      BY <2>1
  <1>2. FlattenSeq(parts) = flatten[n]
    BY DEF FlattenSeq
  <1> HIDE DEF flatten
  <1> DEFINE Wrong == {i \in 1..n : flatten[i] # joined[i]}
  <1>3. Wrong = {}
    <2> SUFFICES ASSUME Wrong # {} PROVE FALSE
      OBVIOUS
    <2>1. PICK i \in Wrong : \A j \in Wrong : i <= j
      <3>1. Wrong \subseteq Nat
        OBVIOUS
      <3> HIDE DEF Wrong
      <3> QED
        BY <3>1, LeastOfNaturals
    <2>2. i \in 1..n /\ flatten[i] # joined[i]
      BY <2>1
    <2>3. /\ flatten[i] = IF i = 1 THEN parts[i] ELSE flatten[i - 1] \o parts[i]
          /\ joined[i] = IF i = 1 THEN parts[i] ELSE joined[i - 1] \o parts[i]
      <3>1. flatten[i] = IF i = 1 THEN parts[i] ELSE flatten[i - 1] \o parts[i]
        BY <1>1, <2>2
      <3>2. joined[i] = IF i = 1 THEN parts[i] ELSE joined[i - 1] \o parts[i]
        BY <2>2
      <3> QED
        BY <3>1, <3>2
    <2>4. CASE i = 1
      BY <2>2, <2>3, <2>4
    <2>5. CASE i # 1
      <3>1. i - 1 \in 1..n /\ i \in Nat
        BY <2>2, <2>5
      <3>2. i - 1 \notin Wrong
        <4>1. ~ (i <= i - 1)
          BY <3>1
        <4> HIDE DEF Wrong
        <4> QED
          BY <2>1, <4>1
      <3> QED
        BY <2>2, <2>3, <2>5, <3>1, <3>2
    <2> QED
      BY <2>4, <2>5
  <1>4. n \in 1..n
    OBVIOUS
  <1> QED
    BY <1>2, <1>3, <1>4

\* The parts of a sequence of parts joined one after the other.
Joining(joined, parts, n) ==
    /\ joined[0] = <<>>
    /\ \A k \in 1..n : joined[k] = joined[k - 1] \o parts[k]

\* Such a sequence exists for any parts, by induction on how many there are.
LEMMA JoiningExists ==
  ASSUME NEW S, NEW n \in Nat, NEW parts \in [1..n -> Seq(S)]
  PROVE  \E joined \in [0..n -> Seq(S)] : Joining(joined, parts, n)
  <1> DEFINE Some(m) == \E joined \in [0..m -> Seq(S)] : Joining(joined, parts, m)
             Bad == {m \in 0..n : ~ Some(m)}
  <1>1. Bad = {}
    <2> SUFFICES ASSUME Bad # {} PROVE FALSE
      OBVIOUS
    <2>1. PICK m \in Bad : \A other \in Bad : m <= other
      <3>1. Bad \subseteq Nat
        OBVIOUS
      <3> HIDE DEF Bad
      <3> QED
        BY <3>1, LeastOfNaturals
    <2>2. m \in 0..n /\ ~ Some(m)
      BY <2>1
    <2>3. Some(0)
      <3>1. [i \in 0..0 |-> <<>>] \in [0..0 -> Seq(S)] /\ Joining([i \in 0..0 |-> <<>>], parts, 0)
        BY EmptySeq DEF Joining
      <3> QED
        BY <3>1
    <2>4. m # 0
      <3> HIDE DEF Some
      <3> QED
        BY <2>2, <2>3
    <2>5. m - 1 \in 0..n /\ m \in 1..n /\ m - 1 \in 0..m /\ m \in Nat /\ m - 1 < m
      BY <2>2, <2>4
    <2>6. Some(m - 1)
      <3>1. m - 1 \notin Bad
        <4> HIDE DEF Bad
        <4> QED
          BY <2>1, <2>5
      <3> HIDE DEF Some
      <3> QED
        BY <2>5, <3>1
    <2>7. PICK f \in [0..(m - 1) -> Seq(S)] : Joining(f, parts, m - 1)
      BY <2>6
    <2> DEFINE g == [i \in 0..m |-> IF i < m THEN f[i] ELSE f[m - 1] \o parts[m]]
    <2>8. g \in [0..m -> Seq(S)]
      <3>1. f[m - 1] \o parts[m] \in Seq(S)
        <4>1. f[m - 1] \in Seq(S) /\ parts[m] \in Seq(S)
          BY <2>5
        <4> QED
          BY <4>1, ConcatProperties
      <3>2. \A i \in 0..m : i < m => f[i] \in Seq(S)
        BY <2>5
      <3> QED
        BY <3>1, <3>2
    <2>9. Joining(g, parts, m)
      <3>1. g[0] = <<>>
        BY <2>5, <2>7 DEF Joining
      <3>2. ASSUME NEW k \in 1..m PROVE g[k] = g[k - 1] \o parts[k]
        <4>1. k - 1 \in 0..m /\ k - 1 < m /\ k \in 0..m
          BY <2>5
        <4>2. CASE k < m
          <5>1. k \in 1..(m - 1)
            BY <2>5, <4>2
          <5> QED
            BY <2>7, <4>1, <4>2, <5>1 DEF Joining
        <4>3. CASE ~ (k < m)
          <5>1. k = m
            BY <2>5, <4>3
          <5> QED
            BY <4>1, <4>3, <5>1
        <4> QED
          BY <4>2, <4>3
      <3> HIDE DEF g
      <3> QED
        BY <3>1, <3>2 DEF Joining
    <2> HIDE DEF g
    <2> QED
      BY <2>2, <2>8, <2>9
  <1>2. n \in 0..n
    OBVIOUS
  <1> QED
    BY <1>1, <1>2

\* FlattenSeq joins them.
LEMMA FlattenJoins ==
  ASSUME NEW S, NEW n \in Nat, NEW parts \in [1..n -> Seq(S)], NEW joined \in [0..n -> Seq(S)],
         Joining(joined, parts, n), NEW m \in 0..n
  PROVE  FlattenSeq([k \in 1..m |-> parts[k]]) = joined[m]
  <1> DEFINE some == [k \in 1..m |-> parts[k]]
             part == [k \in 1..m |-> joined[k]]
  <1>1. DOMAIN some = 1..m /\ Len(some) = m
    OBVIOUS
  <1>2. CASE m = 0
    <2>1. some = <<>>
      BY <1>2
    <2>2. FlattenSeq(some) = some
      <3> HIDE DEF some
      <3> QED
        BY <1>1, <1>2 DEF FlattenSeq
    <2> QED
      BY <1>2, <2>1, <2>2 DEF Joining
  <1>3. CASE m # 0
    <2>1. m \in Nat \ {0} /\ m \in 1..m
      BY <1>3
    <2>2. part = [i \in 1..m |-> IF i = 1 THEN some[i] ELSE part[i - 1] \o some[i]]
      <3> SUFFICES ASSUME NEW i \in 1..m
                   PROVE  joined[i] = IF i = 1 THEN some[i] ELSE part[i - 1] \o some[i]
        OBVIOUS
      <3>0. i \in 1..n
        OBVIOUS
      <3>1. some[i] = parts[i] /\ joined[i] = joined[i - 1] \o parts[i] /\ parts[i] \in Seq(S)
        <4>1. some[i] = parts[i] /\ parts[i] \in Seq(S)
          BY <3>0
        <4> HIDE DEF some, part
        <4> QED
          BY <3>0, <4>1 DEF Joining
      <3>2. CASE i = 1
        <4>1. joined[i - 1] = <<>>
          <5>1. i - 1 = 0
            BY <3>2
          <5> QED
            BY <5>1 DEF Joining
        <4> HIDE DEF some, part
        <4> QED
          BY <3>1, <3>2, <4>1, ConcatEmptySeq
      <3>3. CASE i # 1
        <4>1. i - 1 \in 1..m
          BY <3>3
        <4> QED
          BY <3>1, <3>3, <4>1
      <3> QED
        BY <3>2, <3>3
    <2>3. DOMAIN part = 1..m /\ part[m] = joined[m]
      BY <2>1
    <2>4. FlattenSeq(some) = joined[m]
      <3> HIDE DEF some, part
      <3> QED
        BY <1>1, <2>1, <2>2, <2>3, FlattenIs
    <2> QED
      BY <2>4
  <1> QED
    BY <1>2, <1>3

\* The first m parts joined: how they go on with the next part.
First(parts, m) == FlattenSeq([k \in 1..m |-> parts[k]])

\* It grows by one part at a time, up to what FlattenSeq makes of all of them.
LEMMA FlattenLast ==
  ASSUME NEW S, NEW n \in Nat, NEW parts \in [1..n -> Seq(S)]
  PROVE  /\ First(parts, 0) = <<>>
         /\ \A m \in 0..n : First(parts, m) \in Seq(S)
         /\ \A m \in 1..n : First(parts, m) = First(parts, m - 1) \o parts[m]
         /\ First(parts, n) = FlattenSeq(parts)
  <1>1. PICK joined \in [0..n -> Seq(S)] : Joining(joined, parts, n)
    BY JoiningExists
  <1>2. \A m \in 0..n : First(parts, m) = joined[m]
    BY <1>1, FlattenJoins DEF First
  <1>3. 0 \in 0..n /\ \A m \in 1..n : m \in 0..n /\ m - 1 \in 0..n
    OBVIOUS
  <1>4. [k \in 1..n |-> parts[k]] = parts
    OBVIOUS
  <1>5. First(parts, n) = FlattenSeq(parts)
    BY <1>4 DEF First
  <1> QED
    BY <1>1, <1>2, <1>3, <1>5 DEF Joining

\* Induction up to n, over a set.
LEMMA UpTo ==
  ASSUME NEW n \in Nat, NEW Good, 0 \in Good, \A m \in 1..n : m - 1 \in Good => m \in Good
  PROVE  0..n \subseteq Good
  <1> DEFINE Bad == (0..n) \ Good
  <1> SUFFICES ASSUME Bad # {} PROVE FALSE
    OBVIOUS
  <1>1. PICK m \in Bad : \A other \in Bad : m <= other
    <2>1. Bad \subseteq Nat
      OBVIOUS
    <2> HIDE DEF Bad
    <2> QED
      BY <2>1, LeastOfNaturals
  <1>2. m \in 1..n /\ m - 1 \in 0..n /\ ~ (m <= m - 1)
    BY <1>1
  <1>3. m - 1 \in Good
    BY <1>1, <1>2
  <1> QED
    BY <1>1, <1>2, <1>3

\* The elements of a concatenation, counted from where the second sequence begins.
LEMMA ConcatAt ==
  ASSUME NEW S, NEW s \in Seq(S), NEW t \in Seq(S), NEW u, u = s \o t
  PROVE  /\ u \in Seq(S) /\ Len(u) = Len(s) + Len(t) /\ Len(s) \in Nat /\ Len(t) \in Nat
         /\ \A i \in 1..Len(s) : u[i] = s[i]
         /\ \A j \in 1..Len(t) : u[Len(s) + j] = t[j]
  <1>1. /\ u \in Seq(S) /\ Len(u) = Len(s) + Len(t)
        /\ \A i \in 1..(Len(s) + Len(t)) : u[i] = IF i <= Len(s) THEN s[i] ELSE t[i - Len(s)]
    BY ConcatProperties
  <1>2. Len(s) \in Nat /\ Len(t) \in Nat
    OBVIOUS
  <1>3. ASSUME NEW i \in 1..Len(s) PROVE u[i] = s[i]
    BY <1>1, <1>2
  <1>4. ASSUME NEW j \in 1..Len(t) PROVE u[Len(s) + j] = t[j]
    <2>1. Len(s) + j \in 1..(Len(s) + Len(t)) /\ ~ (Len(s) + j <= Len(s))
          /\ Len(s) + j - Len(s) = j
      BY <1>2
    <2> QED
      BY <1>1, <2>1
  <1> QED
    BY <1>1, <1>2, <1>3, <1>4

(***************************************************************************)
(* The bytes of blob blocks.                                               *)
(***************************************************************************)
Bytes == BlobBlocks \X Nat

\* The bytes of a blob block.
LEMMA BlockBytesAre ==
  ASSUME NEW b \in BlobBlocks
  PROVE  /\ BlockBytes(b) \in Seq(Bytes) /\ Size[b] \in Nat /\ Size[b] > 0
         /\ Len(BlockBytes(b)) = Size[b]
         /\ \A j \in 1..Size[b] : BlockBytes(b)[j] = <<b, j>>
  <1>1. Size[b] \in Nat /\ Size[b] > 0
    BY BlobBlocksHaveBytes
  <1>2. \A j \in 1..Size[b] : <<b, j>> \in Bytes
    BY <1>1 DEF Bytes
  <1> QED
    BY <1>1, <1>2 DEF BlockBytes

\* Joined blob blocks grow by a block at a time.
LEMMA JoinedSteps ==
  ASSUME NEW bs \in Seq(BlobBlocks)
  PROVE  /\ Joined(SubSeq(bs, 1, 0)) = <<>>
         /\ \A m \in 0..Len(bs) : Joined(SubSeq(bs, 1, m)) \in Seq(Bytes)
         /\ \A m \in 1..Len(bs) :
              Joined(SubSeq(bs, 1, m)) = Joined(SubSeq(bs, 1, m - 1)) \o BlockBytes(bs[m])
         /\ SubSeq(bs, 1, Len(bs)) = bs /\ Joined(bs) \in Seq(Bytes)
  <1> DEFINE n == Len(bs)
             parts == [k \in 1..n |-> BlockBytes(bs[k])]
  <1>1. n \in Nat /\ \A k \in 1..n : bs[k] \in BlobBlocks
    BY ElementOfSeq
  <1>2. parts \in [1..n -> Seq(Bytes)]
    BY <1>1, BlockBytesAre
  <1>3. ASSUME NEW m \in 0..n
        PROVE  Joined(SubSeq(bs, 1, m)) = First(parts, m)
    <2> DEFINE some == SubSeq(bs, 1, m)
    <2>1. Len(some) = m /\ DOMAIN some = 1..m /\ \A k \in 1..m : some[k] = bs[k]
      <3>1. \A i \in 1..m : bs[i] \in BlobBlocks
        BY <1>1
      <3>2. some \in Seq(BlobBlocks) /\ Len(some) = m /\ \A k \in 1..m : some[k] = bs[k]
        BY <1>1, <3>1, SubSeqProperties
      <3> QED
        BY <3>2
    <2>2. [k \in DOMAIN some |-> BlockBytes(some[k])] = [k \in 1..m |-> parts[k]]
      <3> HIDE DEF some
      <3> QED
        BY <1>1, <2>1
    <2> QED
      BY <2>2 DEF Joined, First
  <1>4. SubSeq(bs, 1, n) = bs
    BY SubSeqFull
  <1>5. /\ First(parts, 0) = <<>>
        /\ \A m \in 0..n : First(parts, m) \in Seq(Bytes)
        /\ \A m \in 1..n : First(parts, m) = First(parts, m - 1) \o parts[m]
    <2> HIDE DEF parts, n
    <2> QED
      BY <1>1, <1>2, FlattenLast
  <1>6. \A m \in 1..n : parts[m] = BlockBytes(bs[m])
    OBVIOUS
  <1>7. 0 \in 0..n /\ n \in 0..n /\ \A m \in 1..n : m \in 0..n /\ m - 1 \in 0..n
    BY <1>1
  <1> HIDE DEF parts
  <1>8. \A m \in 1..n :
          Joined(SubSeq(bs, 1, m)) = Joined(SubSeq(bs, 1, m - 1)) \o BlockBytes(bs[m])
    BY <1>3, <1>5, <1>6, <1>7
  <1> QED
    BY <1>3, <1>4, <1>5, <1>7, <1>8

\* Where the bytes of a blob block lie in a sequence of blob blocks.
LEMMA JoinedPlaces ==
  ASSUME NEW bs \in Seq(BlobBlocks)
  PROVE  /\ Length(SubSeq(bs, 1, 0)) = 0 /\ Length(bs) \in Nat
         /\ \A m \in 0..Len(bs) : Length(SubSeq(bs, 1, m)) \in 0..Length(bs)
         /\ \A m \in 1..Len(bs) :
              /\ Length(SubSeq(bs, 1, m)) = Length(SubSeq(bs, 1, m - 1)) + Size[bs[m]]
              /\ \A j \in 1..Size[bs[m]] :
                   Joined(bs)[Length(SubSeq(bs, 1, m - 1)) + j] = <<bs[m], j>>
  <1> DEFINE n == Len(bs)
             J(m) == Joined(SubSeq(bs, 1, m))
             B(m) == Length(SubSeq(bs, 1, m))
             Good == {m \in 0..n :
                        \A k \in 1..m :
                          /\ B(k) <= B(m) /\ B(k) = B(k - 1) + Size[bs[k]]
                          /\ \A j \in 1..Size[bs[k]] : J(m)[B(k - 1) + j] = <<bs[k], j>>}
  <1>1. n \in Nat /\ \A k \in 1..n : bs[k] \in BlobBlocks
    BY ElementOfSeq
  <1>2. \A m \in 0..n : J(m) \in Seq(Bytes) /\ B(m) = Len(J(m)) /\ B(m) \in Nat
    <2>1. \A m \in 0..n : J(m) \in Seq(Bytes)
      BY JoinedSteps
    <2> QED
      BY <2>1, LenProperties DEF Length
  <1>3. J(0) = <<>> /\ B(0) = 0
    BY JoinedSteps DEF Length
  <1>4. ASSUME NEW m \in 1..n, m - 1 \in Good PROVE m \in Good
    <2>1. bs[m] \in BlobBlocks /\ m \in 0..n /\ m - 1 \in 0..n /\ m - 1 \in Nat /\ m \in Nat
      BY <1>1
    <2> DEFINE b == bs[m]
    <2>2. /\ BlockBytes(b) \in Seq(Bytes) /\ Size[b] \in Nat /\ Len(BlockBytes(b)) = Size[b]
          /\ \A j \in 1..Size[b] : BlockBytes(b)[j] = <<b, j>>
      BY <2>1, BlockBytesAre
    <2>3. J(m) = J(m - 1) \o BlockBytes(b)
      BY JoinedSteps
    <2> HIDE DEF b, J, B
    <2>4. /\ B(m) = B(m - 1) + Size[b]
          /\ \A i \in 1..B(m - 1) : J(m)[i] = J(m - 1)[i]
          /\ \A j \in 1..Size[b] : J(m)[B(m - 1) + j] = BlockBytes(b)[j]
      <3>1. J(m - 1) \in Seq(Bytes) /\ B(m - 1) = Len(J(m - 1)) /\ B(m) = Len(J(m))
        BY <1>2, <2>1
      <3>2. /\ Len(J(m)) = Len(J(m - 1)) + Len(BlockBytes(b))
            /\ \A i \in 1..Len(J(m - 1)) : J(m)[i] = J(m - 1)[i]
            /\ \A j \in 1..Len(BlockBytes(b)) : J(m)[Len(J(m - 1)) + j] = BlockBytes(b)[j]
        <4>1. J(m - 1) \in Seq(Bytes)
          BY <3>1
        <4>2. BlockBytes(b) \in Seq(Bytes)
          BY <2>2
        <4>3. J(m) = J(m - 1) \o BlockBytes(b)
          BY <2>3
        <4>4. Len(J(m)) = Len(J(m - 1)) + Len(BlockBytes(b))
          BY <4>1, <4>2, <4>3, ConcatAt
        <4>5. \A i \in 1..Len(J(m - 1)) : J(m)[i] = J(m - 1)[i]
          BY <4>1, <4>2, <4>3, ConcatAt
        <4> QED
          BY <4>1, <4>2, <4>3, <4>4, <4>5, ConcatAt
      <3> QED
        BY <2>2, <3>1, <3>2
    <2>5. ASSUME NEW k \in 1..m
          PROVE  /\ B(k) <= B(m) /\ B(k) = B(k - 1) + Size[bs[k]]
                 /\ \A j \in 1..Size[bs[k]] : J(m)[B(k - 1) + j] = <<bs[k], j>>
      <3>1. k \in 1..n /\ k \in 0..n /\ k - 1 \in 0..n
        BY <1>1
      <3>2. B(k) \in Nat /\ B(k - 1) \in Nat /\ Size[bs[k]] \in Nat
            /\ B(m) \in Nat /\ B(m - 1) \in Nat
        BY <1>1, <1>2, <2>1, <3>1, BlockBytesAre
      <3>3. CASE k = m
        <4>1. \A j \in 1..Size[b] : J(m)[B(m - 1) + j] = <<b, j>>
          BY <2>2, <2>4
        <4> QED
          BY <2>4, <3>2, <3>3, <4>1 DEF b
      <3>4. CASE k # m
        <4>1. k \in 1..(m - 1)
          BY <2>1, <3>1, <3>4
        <4>2. /\ B(k) <= B(m - 1) /\ B(k) = B(k - 1) + Size[bs[k]]
              /\ \A j \in 1..Size[bs[k]] : J(m - 1)[B(k - 1) + j] = <<bs[k], j>>
          BY <1>4, <4>1
        <4>3. \A j \in 1..Size[bs[k]] : J(m)[B(k - 1) + j] = <<bs[k], j>>
          <5> SUFFICES ASSUME NEW j \in 1..Size[bs[k]]
                       PROVE  J(m)[B(k - 1) + j] = <<bs[k], j>>
            OBVIOUS
          <5>1. B(k - 1) + j \in 1..B(m - 1)
            BY <3>2, <4>2
          <5> QED
            BY <2>4, <4>2, <5>1
        <4> QED
          BY <2>2, <2>4, <3>2, <4>2, <4>3
      <3> QED
        BY <3>3, <3>4
    <2> QED
      BY <2>1, <2>5
  <1>5. 0..n \subseteq Good
    <2>1. 0 \in Good
      BY <1>1
    <2> HIDE DEF Good, n
    <2> QED
      BY <1>1, <1>4, <2>1, UpTo
  <1>6. n \in 0..n /\ SubSeq(bs, 1, n) = bs
    BY <1>1, SubSeqFull
  <1>7. n \in Good
    BY <1>5, <1>6
  <1>8. J(n) = Joined(bs) /\ B(n) = Length(bs)
    BY <1>6
  <1>9. ASSUME NEW m \in 0..n PROVE B(m) \in 0..B(n)
    <2>1. CASE m = 0
      BY <1>2, <1>3, <1>6, <2>1
    <2>2. CASE m # 0
      <3>1. m \in 1..n
        BY <2>2
      <3> HIDE DEF J, B
      <3> QED
        BY <1>2, <1>6, <1>7, <3>1
    <2> QED
      BY <2>1, <2>2
  <1> HIDE DEF J, B
  <1>10. \A m \in 1..n : /\ B(m) = B(m - 1) + Size[bs[m]]
                         /\ \A j \in 1..Size[bs[m]] : J(n)[B(m - 1) + j] = <<bs[m], j>>
    BY <1>7
  <1>11. B(n) \in Nat
    BY <1>2, <1>6
  <1> QED
    BY <1>3, <1>8, <1>9, <1>10, <1>11 DEF J, B

(***************************************************************************)
(* A slice of what is joined, as the overlaps with each block.             *)
(***************************************************************************)
Clamp(n, size) == Least(Greatest(n, 0), size)

\* A slice of what lies in a sequence is a slice of that sequence.
LEMMA SliceOfBlock ==
  ASSUME NEW T \in Seq(Bytes), NEW u \in Seq(Bytes), NEW o \in Nat, o + Len(u) <= Len(T),
         \A j \in 1..Len(u) : T[o + j] = u[j],
         NEW a \in 0..Len(u), NEW c \in a..Len(u)
  PROVE  SubSeq(u, a + 1, c) = SubSeq(T, o + a + 1, o + c)
  <1> DEFINE left == SubSeq(u, a + 1, c)
             right == SubSeq(T, o + a + 1, o + c)
  <1>1. Len(u) \in Nat /\ Len(T) \in Nat
    OBVIOUS
  <1>2. left \in Seq(Bytes) /\ Len(left) = c - a /\ \A i \in 1..(c - a) : left[i] = u[a + i]
    <2>1. \A i \in (a + 1)..c : u[i] \in Bytes
      BY <1>1, ElementOfSeq
    <2>2. a + 1 \in Int /\ c \in Int /\ a <= c
      BY <1>1
    <2>3. /\ left \in Seq(Bytes) /\ Len(left) = (IF a + 1 <= c THEN c - (a + 1) + 1 ELSE 0)
          /\ \A i \in 1..(c - (a + 1) + 1) : left[i] = u[a + 1 + i - 1]
      BY <2>1, <2>2, SubSeqProperties
    <2> HIDE DEF left
    <2>4. c - (a + 1) + 1 = c - a /\ (a + 1 <= c \/ c - a = 0)
      BY <2>2
    <2>5. \A i \in 1..(c - a) : a + 1 + i - 1 = a + i
      BY <2>2
    <2>6. Len(left) = c - a
      BY <2>3, <2>4
    <2> QED
      BY <2>3, <2>4, <2>5, <2>6
  <1>3. right \in Seq(Bytes) /\ Len(right) = c - a /\ \A i \in 1..(c - a) : right[i] = T[o + a + i]
    <2>1. \A i \in (o + a + 1)..(o + c) : T[i] \in Bytes
      BY <1>1, ElementOfSeq
    <2>2. o + a + 1 \in Int /\ o + c \in Int /\ a <= c /\ a \in Int /\ c \in Int
      BY <1>1
    <2>3. /\ right \in Seq(Bytes)
          /\ Len(right) = (IF o + a + 1 <= o + c THEN o + c - (o + a + 1) + 1 ELSE 0)
          /\ \A i \in 1..(o + c - (o + a + 1) + 1) : right[i] = T[o + a + 1 + i - 1]
      BY <2>1, <2>2, SubSeqProperties
    <2> HIDE DEF right
    <2> QED
      BY <2>2, <2>3
  <1>4. ASSUME NEW i \in 1..(c - a) PROVE left[i] = right[i]
    <2>1. a + i \in 1..Len(u) /\ o + (a + i) = o + a + i
      BY <1>1
    <2> HIDE DEF left, right
    <2> QED
      BY <1>2, <1>3, <2>1
  <1>5. left = right
    <2> HIDE DEF left, right
    <2> QED
      BY <1>2, <1>3, <1>4, SeqEqual
  <1> QED
    BY <1>5

\* A slice up to the end of one more block: the slice so far, and the overlap with the block.
LEMMA SliceStep ==
  ASSUME NEW T \in Seq(Bytes), NEW u \in Seq(Bytes), NEW o \in Nat, o + Len(u) <= Len(T),
         \A j \in 1..Len(u) : T[o + j] = u[j],
         NEW start \in Nat, NEW end \in Int
  PROVE  SubSeq(T, start + 1, Least(end, o))
           \o SubSeq(u, Clamp(start - o, Len(u)) + 1, Clamp(end - o, Len(u)))
         = SubSeq(T, start + 1, Least(end, o + Len(u)))
  <1> DEFINE size == Len(u)
             from == Clamp(start - o, size)
             to == Clamp(end - o, size)
             before == SubSeq(T, start + 1, Least(end, o))
             piece == SubSeq(u, from + 1, to)
             after == SubSeq(T, start + 1, Least(end, o + size))
  <1> SUFFICES before \o piece = after
    OBVIOUS
  <1>1. size \in Nat /\ from \in 0..size /\ to \in 0..size /\ Len(T) \in Nat /\ o + size <= Len(T)
    <2>1. size \in Nat /\ Len(T) \in Nat
      OBVIOUS
    <2> HIDE DEF size
    <2> QED
      BY <2>1 DEF Clamp, Least, Greatest, size
  <1>2. \A i \in 1..Len(T) : T[i] \in Bytes
    BY ElementOfSeq
  <1>3. before \in Seq(Bytes) /\ after \in Seq(Bytes) /\ <<>> \in Seq(Bytes)
    <2>1. \A i \in (start + 1)..Least(end, o) : T[i] \in Bytes
      BY <1>1, <1>2 DEF Least
    <2>2. \A i \in (start + 1)..Least(end, o + size) : T[i] \in Bytes
      <3> HIDE DEF size
      <3> QED
        BY <1>1, <1>2 DEF Least
    <2>3. Least(end, o) \in Int /\ Least(end, o + size) \in Int /\ start + 1 \in Int
      BY <1>1 DEF Least
    <2> QED
      BY <2>1, <2>2, <2>3, SubSeqProperties, EmptySeq
  <1>4. CASE end <= o
    <2>1. to = 0 /\ Least(end, o) = end /\ Least(end, o + size) = end
      <3> HIDE DEF size
      <3> QED
        BY <1>1, <1>4 DEF Clamp, Least, Greatest
    <2>2. piece = <<>>
      <3>1. from + 1 \in Int /\ to \in Int /\ to < from + 1
        BY <1>1, <2>1
      <3> QED
        BY <3>1, SubSeqEmpty
    <2>3. before = after
      BY <2>1
    <2> HIDE DEF before, piece, after
    <2> QED
      BY <1>3, <2>2, <2>3, ConcatEmptySeq
  <1>5. CASE start >= o + size
    <2>1. from = size /\ Least(end, o) < start + 1 /\ Least(end, o + size) < start + 1
      <3> HIDE DEF size
      <3> QED
        BY <1>1, <1>5 DEF Clamp, Least, Greatest
    <2>2. piece = <<>>
      <3>1. from + 1 \in Int /\ to \in Int /\ to < from + 1
        BY <1>1, <2>1
      <3> QED
        BY <3>1, SubSeqEmpty
    <2>3. before = <<>> /\ after = <<>>
      <3>1. start + 1 \in Int /\ Least(end, o) \in Int /\ Least(end, o + size) \in Int
        BY <1>1 DEF Least
      <3> QED
        BY <2>1, <3>1, SubSeqEmpty
    <2> HIDE DEF before, piece, after
    <2> QED
      BY <1>3, <2>2, <2>3, ConcatEmptySeq
  <1>6. CASE end > o /\ start < o + size
    <2>1. /\ Least(end, o) = o /\ Least(end, o + size) = o + to
          /\ from = IF start >= o THEN start - o ELSE 0
      <3> HIDE DEF size
      <3> QED
        BY <1>1, <1>6 DEF Clamp, Least, Greatest
    <2>2. CASE to < from
      \* The range ends before it starts.
      <3>1. piece = <<>>
        <4>1. from + 1 \in Int /\ to \in Int /\ to < from + 1
          BY <1>1, <2>2
        <4> QED
          BY <4>1, SubSeqEmpty
      <3>2. before = <<>> /\ after = <<>>
        <4>1. /\ start + 1 \in Int /\ Least(end, o) \in Int /\ Least(end, o + size) \in Int
              /\ Least(end, o) < start + 1 /\ Least(end, o + size) < start + 1
          <5> HIDE DEF from, to, size
          <5> QED
            BY <1>1, <2>1, <2>2
        <4> QED
          BY <4>1, SubSeqEmpty
      <3> HIDE DEF before, piece, after
      <3> QED
        BY <1>3, <3>1, <3>2, ConcatEmptySeq
    <2>3. CASE ~ (to < from)
      <3>1. piece = SubSeq(T, o + from + 1, o + to)
        <4>1. from \in 0..Len(u) /\ to \in from..Len(u)
          BY <1>1, <2>3
        <4> HIDE DEF from, to, size
        <4> QED
          BY <4>1, SliceOfBlock DEF size
      <3>2. CASE start >= o
        <4>1. o + from = start /\ before = <<>>
          <5>1. o < start + 1 /\ start + 1 \in Int /\ o \in Int /\ o + from = start
            BY <1>1, <2>1, <3>2
          <5> QED
            BY <2>1, <5>1, SubSeqEmpty
        <4>2. piece = after
          BY <2>1, <3>1, <4>1
        <4> HIDE DEF before, piece, after
        <4> QED
          BY <1>3, <4>1, <4>2, ConcatEmptySeq
      <3>3. CASE start < o
        <4>1. /\ start + 1 \in 1..(Len(T) + 1) /\ o \in (start + 1 - 1)..Len(T)
              /\ o + to \in o..Len(T) /\ from = 0 /\ o + from + 1 = o + 1
          <5> HIDE DEF from, to, size
          <5> QED
            BY <1>1, <2>1, <3>3
        <4>2. SubSeq(T, start + 1, o) \o SubSeq(T, o + 1, o + to) = SubSeq(T, start + 1, o + to)
          <5> DEFINE first == start + 1
                     last == o + to
          <5>1. first \in 1..(Len(T) + 1) /\ o \in (first - 1)..Len(T) /\ last \in o..Len(T)
            BY <4>1
          <5> HIDE DEF first, last
          <5>2. SubSeq(T, first, o) \o SubSeq(T, o + 1, last) = SubSeq(T, first, last)
            BY <5>1, ConcatAdjacentSubSeq
          <5> QED
            BY <5>2 DEF first, last
        <4>3. before = SubSeq(T, start + 1, o) /\ piece = SubSeq(T, o + 1, o + to)
              /\ after = SubSeq(T, start + 1, o + to)
          BY <2>1, <3>1, <4>1
        <4> HIDE DEF before, piece, after
        <4> QED
          BY <4>2, <4>3
      <3> HIDE DEF before, piece, after
      <3> QED
        BY <3>2, <3>3
    <2> HIDE DEF before, piece, after
    <2> QED
      BY <2>2, <2>3
  <1> HIDE DEF before, piece, after, size, from, to
  <1> QED
    BY <1>1, <1>4, <1>5, <1>6

\* The overlaps of a range with each block are together the range of all that is joined.
LEMMA SliceJoined ==
  ASSUME NEW bs \in Seq(BlobBlocks), NEW start \in Nat, NEW end \in Int,
         NEW pieces \in [1..Len(bs) -> Seq(Bytes)],
         \A k \in 1..Len(bs) :
            pieces[k] = SubSeq(BlockBytes(bs[k]),
                               Clamp(start - Length(SubSeq(bs, 1, k - 1)), Size[bs[k]]) + 1,
                               Clamp(end - Length(SubSeq(bs, 1, k - 1)), Size[bs[k]]))
  PROVE  FlattenSeq(pieces) = SubSeq(Joined(bs), start + 1, Least(end, Length(bs)))
  <1> DEFINE n == Len(bs)
             T == Joined(bs)
             B(m) == Length(SubSeq(bs, 1, m))
             Good == {m \in 0..n : First(pieces, m) = SubSeq(T, start + 1, Least(end, B(m)))}
  <1>1. n \in Nat /\ \A k \in 1..n : bs[k] \in BlobBlocks
    BY ElementOfSeq
  <1>2. T \in Seq(Bytes) /\ Len(T) = B(n) /\ B(n) = Length(bs)
    BY JoinedSteps DEF Length
  <1>3. /\ First(pieces, 0) = <<>>
        /\ \A m \in 1..n : First(pieces, m) = First(pieces, m - 1) \o pieces[m]
        /\ First(pieces, n) = FlattenSeq(pieces)
    BY <1>1, FlattenLast
  <1>4. /\ B(0) = 0 /\ Length(bs) \in Nat
        /\ \A m \in 0..n : B(m) \in 0..Length(bs)
        /\ \A m \in 1..n : /\ B(m) = B(m - 1) + Size[bs[m]]
                           /\ \A j \in 1..Size[bs[m]] : T[B(m - 1) + j] = <<bs[m], j>>
    BY JoinedPlaces
  <1>5. \A k \in 1..n :
           pieces[k] = SubSeq(BlockBytes(bs[k]), Clamp(start - B(k - 1), Size[bs[k]]) + 1,
                              Clamp(end - B(k - 1), Size[bs[k]]))
    OBVIOUS
  <1>6. 0 \in Good
    <2>1. SubSeq(T, start + 1, Least(end, 0)) = <<>>
      <3>1. start + 1 \in Int /\ Least(end, 0) \in Int /\ Least(end, 0) < start + 1
        BY DEF Least
      <3> QED
        BY <3>1, SubSeqEmpty
    <2>2. 0 \in 0..n
      BY <1>1
    <2> QED
      BY <1>3, <1>4, <2>1, <2>2
  <1>7. ASSUME NEW m \in 1..n, m - 1 \in Good PROVE m \in Good
    <2> DEFINE u == BlockBytes(bs[m])
               o == B(m - 1)
    <2>1. /\ m \in 0..n /\ m - 1 \in 0..n /\ bs[m] \in BlobBlocks
      BY <1>1
    <2>2. /\ u \in Seq(Bytes) /\ Len(u) = Size[bs[m]] /\ Size[bs[m]] \in Nat
          /\ \A j \in 1..Size[bs[m]] : u[j] = <<bs[m], j>>
      BY <2>1, BlockBytesAre
    <2>3. /\ o \in Nat /\ B(m) = o + Len(u) /\ o + Len(u) <= Len(T)
          /\ \A j \in 1..Len(u) : T[o + j] = u[j]
      <3>1. o \in 0..Length(bs) /\ B(m) \in 0..Length(bs)
        BY <1>4, <2>1
      <3>2. B(m) = o + Size[bs[m]] /\ \A j \in 1..Size[bs[m]] : T[o + j] = <<bs[m], j>>
        BY <1>4
      <3>3. Len(u) = Size[bs[m]] /\ \A j \in 1..Size[bs[m]] : u[j] = <<bs[m], j>>
        BY <2>2
      <3>4. Len(T) = Length(bs) /\ Length(bs) \in Nat
        BY <1>2, <1>4
      <3> HIDE DEF B, T, o, u
      <3>5. \A j \in 1..Len(u) : T[o + j] = u[j]
        BY <3>2, <3>3
      <3> QED
        BY <3>1, <3>2, <3>3, <3>4, <3>5
    <2>4. pieces[m] = SubSeq(u, Clamp(start - o, Len(u)) + 1, Clamp(end - o, Len(u)))
      <3>1. Len(u) = Size[bs[m]]
        BY <2>2
      <3> QED
        BY <1>5, <3>1
    <2>5. SubSeq(T, start + 1, Least(end, o))
            \o SubSeq(u, Clamp(start - o, Len(u)) + 1, Clamp(end - o, Len(u)))
          = SubSeq(T, start + 1, Least(end, o + Len(u)))
      <3>1. PICK T1 \in Seq(Bytes), u1 \in Seq(Bytes), o1 \in Nat :
                   T1 = T /\ u1 = u /\ o1 = o
        BY <1>2, <2>2, <2>3
      <3>2. o1 + Len(u1) <= Len(T1) /\ \A j \in 1..Len(u1) : T1[o1 + j] = u1[j]
        BY <2>3, <3>1
      <3>3. SubSeq(T1, start + 1, Least(end, o1))
              \o SubSeq(u1, Clamp(start - o1, Len(u1)) + 1, Clamp(end - o1, Len(u1)))
            = SubSeq(T1, start + 1, Least(end, o1 + Len(u1)))
        <4> HIDE DEF B, T, o, u, n, Good
        <4> QED
          BY <3>2, SliceStep
      <3> QED
        BY <3>1, <3>3
    <2>6. First(pieces, m - 1) = SubSeq(T, start + 1, Least(end, o))
      BY <1>7
    <2> QED
      BY <1>3, <2>1, <2>3, <2>4, <2>5, <2>6
  <1>8. n \in Good
    <2>1. 0..n \subseteq Good
      <3> HIDE DEF Good, n
      <3> QED
        BY <1>1, <1>6, <1>7, UpTo
    <2>2. n \in 0..n
      BY <1>1
    <2> QED
      BY <2>1, <2>2
  <1> QED
    BY <1>2, <1>3, <1>8

(***************************************************************************)
(* What is joined: its elements, and what becomes of each.                 *)
(***************************************************************************)
Mapped(G, s) == [i \in 1..Len(s) |-> G[s[i]]]

LEMMA MappedGrows ==
  ASSUME NEW R, NEW G \in [R -> Seq(Bytes)], NEW s \in Seq(R), NEW r \in R
  PROVE  FlattenSeq(Mapped(G, Append(s, r))) = FlattenSeq(Mapped(G, s)) \o G[r]
  <1>0. Len(s) \in Nat
    OBVIOUS
  <1> DEFINE n == Len(s) + 1
             t == Append(s, r)
             all == Mapped(G, t)
  <1>1. t \in Seq(R) /\ Len(t) = n /\ t[n] = r /\ \A i \in 1..Len(s) : t[i] = s[i]
    BY <1>0, AppendProperties
  <1>2. n \in Nat /\ n \in 1..n /\ n - 1 = Len(s) /\ \A i \in 1..n : t[i] \in R
    <2>1. n \in Nat /\ n \in 1..n /\ n - 1 = Len(s)
      BY <1>0
    <2> HIDE DEF t, n
    <2> QED
      BY <1>1, <2>1, ElementOfSeq
  <1>3. all \in [1..n -> Seq(Bytes)] /\ all[n] = G[r]
    <2> HIDE DEF t, n
    <2> QED
      BY <1>1, <1>2 DEF Mapped
  <1>4. First(all, Len(s)) = FlattenSeq(Mapped(G, s))
    <2>1. [k \in 1..Len(s) |-> all[k]] = Mapped(G, s)
      <3>1. \A k \in 1..Len(s) : k \in 1..Len(t) /\ t[k] = s[k]
        BY <1>0, <1>1
      <3> HIDE DEF t, n
      <3> QED
        BY <3>1 DEF Mapped
    <2> QED
      BY <2>1 DEF First
  <1>5. First(all, n) = First(all, n - 1) \o all[n] /\ First(all, n) = FlattenSeq(all)
    <2>1. n \in Nat
      BY <1>2
    <2>2. n \in 1..n
      BY <1>2
    <2>3. all \in [1..n -> Seq(Bytes)]
      BY <1>3
    <2> HIDE DEF all, n
    <2> QED
      BY <2>1, <2>2, <2>3, FlattenLast
  <1> QED
    BY <1>2, <1>3, <1>4, <1>5

\* What is made of the elements chosen, one after the other, is what is made of each
\* possible element, if nothing is made of those not chosen.
Choosing(R, n, G, parts, pieces) ==
    /\ n \in Nat /\ G \in [R -> Seq(Bytes)]
    /\ parts \in [1..n -> Seq(R)] /\ pieces \in [1..n -> Seq(Bytes)]
    /\ \A k \in 1..n : \/ parts[k] = <<>> /\ pieces[k] = <<>>
                       \/ \E r \in R : parts[k] = <<r>> /\ pieces[k] = G[r]

\* What is chosen of parts and mapped, joined, is the joined pieces.
LEMMA Chosen ==
  ASSUME NEW R, NEW n, NEW G, NEW parts, NEW pieces, Choosing(R, n, G, parts, pieces)
  PROVE  FlattenSeq(Mapped(G, FlattenSeq(parts))) = FlattenSeq(pieces)
  <1>0. /\ n \in Nat /\ G \in [R -> Seq(Bytes)]
        /\ parts \in [1..n -> Seq(R)] /\ pieces \in [1..n -> Seq(Bytes)]
        /\ \A k \in 1..n : \/ parts[k] = <<>> /\ pieces[k] = <<>>
                           \/ \E r \in R : parts[k] = <<r>> /\ pieces[k] = G[r]
    BY DEF Choosing
  <1> DEFINE Good == {m \in 0..n :
                        FlattenSeq(Mapped(G, First(parts, m))) = First(pieces, m)}
  <1>1. /\ First(parts, 0) = <<>> /\ \A m \in 0..n : First(parts, m) \in Seq(R)
        /\ \A m \in 1..n : First(parts, m) = First(parts, m - 1) \o parts[m]
        /\ First(parts, n) = FlattenSeq(parts)
    BY <1>0, FlattenLast
  <1>2. /\ First(pieces, 0) = <<>> /\ \A m \in 0..n : First(pieces, m) \in Seq(Bytes)
        /\ \A m \in 1..n : First(pieces, m) = First(pieces, m - 1) \o pieces[m]
        /\ First(pieces, n) = FlattenSeq(pieces)
    BY <1>0, FlattenLast
  <1>3. 0 \in Good
    <2>1. Mapped(G, <<>>) = <<>>
      BY DEF Mapped
    <2>2. FlattenSeq(<<>>) = <<>>
      BY DEF FlattenSeq
    <2> QED
      BY <1>0, <1>1, <1>2, <2>1, <2>2
  <1>4. ASSUME NEW m \in 1..n, m - 1 \in Good PROVE m \in Good
    <2>1. m \in 0..n /\ m - 1 \in 0..n
      BY <1>0
    <2>2. PICK rows0 \in Seq(R) : rows0 = First(parts, m - 1)
      BY <1>0, <1>1, <2>1
    <2>3. PICK done \in Seq(Bytes) : done = First(pieces, m - 1)
      BY <1>0, <1>2, <2>1
    <2>4. FlattenSeq(Mapped(G, rows0)) = done
      BY <1>4, <2>2, <2>3
    <2>5. First(parts, m) = rows0 \o parts[m] /\ First(pieces, m) = done \o pieces[m]
      BY <1>1, <1>2, <2>2, <2>3
    <2>6. CASE parts[m] = <<>> /\ pieces[m] = <<>>
      <3>1. rows0 \o <<>> = rows0 /\ done \o <<>> = done
        BY ConcatEmptySeq
      <3> QED
        BY <2>1, <2>4, <2>5, <2>6, <3>1
    <2>7. ASSUME NEW r \in R, parts[m] = <<r>>, pieces[m] = G[r] PROVE m \in Good
      <3>1. rows0 \o <<r>> = Append(rows0, r)
        BY AppendIsConcat
      <3>2. FlattenSeq(Mapped(G, Append(rows0, r))) = FlattenSeq(Mapped(G, rows0)) \o G[r]
        BY <1>0, MappedGrows
      <3> QED
        BY <2>1, <2>4, <2>5, <2>7, <3>1, <3>2
    <2> HIDE DEF Good
    <2> QED
      BY <1>0, <2>6, <2>7
  <1>5. n \in Good
    <2>1. 0..n \subseteq Good
      <3> HIDE DEF Good
      <3> QED
        BY <1>0, <1>3, <1>4, UpTo
    <2> QED
      BY <1>0, <2>1
  <1> QED
    BY <1>1, <1>2, <1>5

\* Parts of one element each are joined to the sequence of these elements.
LEMMA FlattenSingles ==
  ASSUME NEW R, NEW n \in Nat, NEW e \in [1..n -> R]
  PROVE  FlattenSeq([k \in 1..n |-> <<e[k]>>]) = e
  <1> DEFINE singles == [k \in 1..n |-> <<e[k]>>]
             Good == {m \in 0..n : First(singles, m) = [k \in 1..m |-> e[k]]}
  <1>1. singles \in [1..n -> Seq(R)]
    OBVIOUS
  <1>2. /\ First(singles, 0) = <<>>
        /\ \A m \in 1..n : First(singles, m) = First(singles, m - 1) \o singles[m]
        /\ First(singles, n) = FlattenSeq(singles)
    <2> HIDE DEF singles
    <2> QED
      BY <1>1, FlattenLast
  <1>3. 0 \in Good
    BY <1>2
  <1>4. ASSUME NEW m \in 1..n, m - 1 \in Good PROVE m \in Good
    <2> DEFINE before == [k \in 1..(m - 1) |-> e[k]]
               after == [k \in 1..m |-> e[k]]
    <2>1. m \in 0..n /\ m - 1 \in Nat /\ m \in Nat
      OBVIOUS
    <2>2. before \in Seq(R) /\ Len(before) = m - 1 /\ after \in Seq(R) /\ Len(after) = m
      <3>1. before \in [1..(m - 1) -> R] /\ after \in [1..m -> R]
        BY <2>1
      <3> QED
        BY <2>1, <3>1, SeqDef, LenProperties
    <2>3. before \o <<e[m]>> = Append(before, e[m])
      BY <2>2, AppendIsConcat
    <2>4. /\ Append(before, e[m]) \in Seq(R) /\ Len(Append(before, e[m])) = m
          /\ \A k \in 1..m : Append(before, e[m])[k] = after[k]
      <3>1. e[m] \in R
        OBVIOUS
      <3>2. /\ Append(before, e[m]) \in Seq(R) /\ Len(Append(before, e[m])) = Len(before) + 1
            /\ \A k \in 1..Len(before) : Append(before, e[m])[k] = before[k]
            /\ Append(before, e[m])[Len(before) + 1] = e[m]
        <4> HIDE DEF before
        <4> QED
          BY <2>2, <3>1, AppendProperties
      <3>3. \A k \in 1..(m - 1) : before[k] = after[k]
        BY <2>1
      <3>4. after[m] = e[m]
        BY <2>1
      <3> HIDE DEF before, after
      <3> QED
        BY <2>1, <2>2, <3>2, <3>3, <3>4
    <2>5. Append(before, e[m]) = after
      <3> HIDE DEF before, after
      <3> QED
        BY <2>2, <2>4, SeqEqual
    <2>6. First(singles, m - 1) = before /\ singles[m] = <<e[m]>>
      BY <1>4
    <2>7. First(singles, m) = after
      <3> HIDE DEF before, after, singles
      <3> QED
        BY <1>2, <2>3, <2>5, <2>6
    <2> QED
      BY <2>1, <2>7
  <1>5. n \in Good
    <2>1. 0..n \subseteq Good
      <3> HIDE DEF Good
      <3> QED
        BY <1>3, <1>4, UpTo
    <2> QED
      BY <2>1
  <1>6. [k \in 1..n |-> e[k]] = e
    OBVIOUS
  <1> QED
    BY <1>2, <1>5, <1>6

\* SetToSeq lists a finite set; a set of one element in one way.
LEMMA SetToSeqIs ==
  ASSUME NEW S, IsFiniteSet(S)
  PROVE  /\ SetToSeq(S) \in Seq(S)
         /\ S # {} /\ ~ (Cardinality(S) > 1) => \E r \in S : S = {r} /\ SetToSeq(S) = <<r>>
  <1>1. Cardinality(S) \in Nat /\ ExistsBijection(1..Cardinality(S), S)
    BY FS_CardinalityType
  <1>2. \E f \in [1..Cardinality(S) -> S] : IsInjective(f)
    BY <1>1 DEF ExistsBijection, Bijection, Injection
  <1>3. SetToSeq(S) \in [1..Cardinality(S) -> S]
    BY <1>2 DEF SetToSeq
  <1>4. SetToSeq(S) \in Seq(S)
    BY <1>1, <1>3, SeqDef
  <1>5. ASSUME S # {}, ~ (Cardinality(S) > 1)
        PROVE  \E r \in S : S = {r} /\ SetToSeq(S) = <<r>>
    <2>1. Cardinality(S) = 1
      BY <1>1, <1>5, FS_EmptySet
    <2>2. PICK r : S = {r}
      BY <2>1, FS_Singleton
    <2>3. SetToSeq(S) = <<r>>
      BY <1>3, <2>1, <2>2
    <2> QED
      BY <2>2, <2>3
  <1> QED
    BY <1>4, <1>5

(***************************************************************************)
(* The storage, whoever reads: what the worker keeps.                      *)
(***************************************************************************)
Referenced(s) == \E r \in refs : r.storageBlock = s
OriginalBlocks == 1..Len(Residual)

\* The bytes of a blob block lie somewhere in a storage block.
LiesIn(bytes, b, offset) ==
    /\ offset + Size[b] <= Len(bytes)
    /\ \A j \in 1..Size[b] : bytes[offset + j] = <<b, j>>

StorageTypes ==
    /\ file \in [StorageBlocks -> Seq(Bytes)] /\ info \in [StorageBlocks -> Seq(Bytes)]
    /\ refs \subseteq [blobBlock : BlobBlocks, storageBlock : StorageBlocks, offset : Nat]
    /\ IsFiniteSet(refs)
    /\ freed \subseteq OriginalBlocks

WorkerSteps ==
    /\ worker \in {"idle", "move", "drop", "info", "uncache", "refer"}
    /\ source \in 0..(Len(Residual) + 1)
    /\ source = 0 => worker = "idle" /\ freed = {} /\ ~ Referenced(Combined)
    /\ worker \in {"move", "drop"} => source \in OriginalBlocks
    /\ worker \notin {"move", "drop"} /\ source # 0 => source > Len(Residual)

\* What is stored anew stays in its block, where no reference leads before the last step.
StoringSteps ==
    worker \in {"info", "uncache", "refer"} =>
        /\ target \in OriginalBlocks \ freed /\ ~ Referenced(target) /\ source > Len(Residual)
        /\ \E b \in Coming : file[target] = BlockBytes(b)
        /\ worker # "info" => info[target] = file[target]

ContentKept ==
    /\ source = 0 => \A s \in OriginalBlocks : file[s] = BlockBytes(Residual[s])
    /\ source # 0 => file[Combined] = Joined(Residual)

\* Every reference leads to its blob block.
ReferencesLead ==
    \A r \in refs : /\ r.storageBlock \notin freed
                    /\ LiesIn(file[r.storageBlock], r.blobBlock, r.offset)

StorageInv == StorageTypes /\ WorkerSteps /\ StoringSteps /\ ContentKept /\ ReferencesLead

\* The residual blocks, and the block they are combined in.
LEMMA Residuals ==
  /\ Len(Residual) \in Nat /\ Len(Residual) > 0 /\ Combined \in StorageBlocks
  /\ Combined \notin OriginalBlocks /\ OriginalBlocks \subseteq StorageBlocks
  /\ Residual \in Seq(BlobBlocks) /\ \A s \in OriginalBlocks : Residual[s] \in BlobBlocks
  /\ \A b \in Coming : b \in BlobBlocks
  <1>1. Residual \in Seq(BlobBlocks) /\ Residual # <<>>
    BY BlobBlocksHaveBytes
  <1>2. Len(Residual) \in Nat /\ Len(Residual) > 0 /\ DOMAIN Residual = 1..Len(Residual)
    BY <1>1, EmptySeq, LenProperties
  <1>3. \A s \in OriginalBlocks : Residual[s] \in BlobBlocks
    BY <1>2 DEF OriginalBlocks, BlobBlocks, Range
  <1> QED
    BY <1>1, <1>2, <1>3 DEF OriginalBlocks, StorageBlocks, Combined, BlobBlocks

LEMMA BlockLiesInItself ==
  ASSUME NEW b \in BlobBlocks
  PROVE  LiesIn(BlockBytes(b), b, 0)
  BY BlockBytesAre DEF LiesIn

\* In the combined block every residual block lies behind those before it.
LEMMA ResidualLiesInJoined ==
  ASSUME NEW s \in OriginalBlocks
  PROVE  /\ Length(SubSeq(Residual, 1, s - 1)) \in Nat
         /\ LiesIn(Joined(Residual), Residual[s], Length(SubSeq(Residual, 1, s - 1)))
  <1>1. Residual \in Seq(BlobBlocks) /\ Len(Residual) \in Nat /\ Residual[s] \in BlobBlocks
    BY Residuals
  <1>2. s \in 1..Len(Residual) /\ s \in 0..Len(Residual) /\ s - 1 \in 0..Len(Residual)
    BY <1>1 DEF OriginalBlocks
  <1>3. /\ Length(SubSeq(Residual, 1, s)) \in 0..Length(Residual) /\ Length(Residual) \in Nat
        /\ Length(SubSeq(Residual, 1, s - 1)) \in 0..Length(Residual)
        /\ Length(SubSeq(Residual, 1, s)) = Length(SubSeq(Residual, 1, s - 1)) + Size[Residual[s]]
        /\ \A j \in 1..Size[Residual[s]] :
             Joined(Residual)[Length(SubSeq(Residual, 1, s - 1)) + j] = <<Residual[s], j>>
    BY <1>1, <1>2, JoinedPlaces
  <1>4. Length(Residual) = Len(Joined(Residual))
    BY DEF Length
  <1>5. Size[Residual[s]] \in Nat
    BY <1>1, BlockBytesAre
  <1> DEFINE offset == Length(SubSeq(Residual, 1, s - 1))
             total == Length(Residual)
  <1>6. offset \in Nat /\ offset + Size[Residual[s]] <= total
    <2>1. /\ Length(SubSeq(Residual, 1, s)) \in 0..total /\ total \in Nat /\ offset \in 0..total
          /\ Length(SubSeq(Residual, 1, s)) = offset + Size[Residual[s]]
      BY <1>3
    <2> HIDE DEF offset, total
    <2> QED
      BY <1>5, <2>1
  <1> QED
    BY <1>3, <1>4, <1>6 DEF LiesIn

LEMMA StorageInit == Init => StorageInv
  <1> SUFFICES ASSUME Init PROVE StorageInv
    OBVIOUS
  <1> USE DEF Init
  <1>1. \A s \in OriginalBlocks : BlockBytes(Residual[s]) \in Seq(Bytes)
    BY Residuals, BlockBytesAre
  <1>2. file \in [StorageBlocks -> Seq(Bytes)]
    <2>1. <<>> \in Seq(Bytes)
      BY EmptySeq
    <2>2. \A s \in StorageBlocks : s # Combined => s \in OriginalBlocks
      BY Residuals DEF StorageBlocks, Combined, OriginalBlocks
    <2> QED
      BY <1>1, <2>1, <2>2
  <1>3. /\ refs \subseteq [blobBlock : BlobBlocks, storageBlock : StorageBlocks, offset : Nat]
        /\ \A r \in refs : r.storageBlock \in OriginalBlocks
    BY Residuals DEF Reference, OriginalBlocks, StorageBlocks
  <1>4. IsFiniteSet(refs)
    <2> DEFINE f == [s \in OriginalBlocks |-> Reference(Residual[s], s, 0)]
    <2>1. IsFiniteSet(OriginalBlocks)
      BY Residuals, FS_Interval DEF OriginalBlocks
    <2>2. f \in Surjection(OriginalBlocks, refs)
      BY DEF Surjection, OriginalBlocks
    <2> HIDE DEF f
    <2> QED
      BY <2>1, <2>2, FS_Surjection
  <1>5. StorageTypes
    BY <1>2, <1>3, <1>4 DEF StorageTypes
  <1>6. WorkerSteps
    BY <1>3, Residuals DEF WorkerSteps, Referenced
  <1>7. StoringSteps
    BY DEF StoringSteps
  <1>8. ContentKept
    BY Residuals DEF ContentKept
  <1>9. ReferencesLead
    <2> SUFFICES ASSUME NEW r \in refs
                 PROVE  /\ r.storageBlock \notin freed
                        /\ LiesIn(file[r.storageBlock], r.blobBlock, r.offset)
      BY DEF ReferencesLead
    <2>1. PICK s \in OriginalBlocks : r = Reference(Residual[s], s, 0)
      BY DEF OriginalBlocks
    <2>2. file[s] = BlockBytes(Residual[s])
      BY Residuals
    <2>3. LiesIn(file[s], Residual[s], 0)
      BY <2>2, Residuals, BlockLiesInItself
    <2> QED
      BY <2>1, <2>3 DEF Reference
  <1> QED
    BY <1>5, <1>6, <1>7, <1>8, <1>9 DEF StorageInv

LEMMA StorageUnchanged ==
  ASSUME StorageInv, UNCHANGED <<storage, job>>
  PROVE  StorageInv'
  BY DEF StorageInv, StorageTypes, WorkerSteps, StoringSteps, ContentKept, ReferencesLead,
         Referenced, LiesIn, storage, job

LEMMA StorageCombine ==
  ASSUME StorageInv, CombineResidualBlocks
  PROVE  StorageInv'
  <1> USE DEF CombineResidualBlocks
  <1>1. StorageTypes /\ WorkerSteps /\ StoringSteps /\ ContentKept /\ ReferencesLead
    BY DEF StorageInv
  <1>2. file'[Combined] = Joined(Residual)
    <2>1. FlattenSeq([s \in 1..Len(Residual) |-> file[s]]) = Joined(Residual)
      <3>1. \A s \in 1..Len(Residual) : file[s] = BlockBytes(Residual[s])
        BY <1>1 DEF ContentKept, OriginalBlocks
      <3>2. DOMAIN Residual = 1..Len(Residual)
        BY Residuals
      <3> QED
        BY <3>1, <3>2 DEF Joined
    <2> QED
      BY <1>1, <2>1, Residuals DEF StorageTypes
  <1>3. Joined(Residual) \in Seq(Bytes)
    BY Residuals, JoinedSteps
  <1>4. \A s \in StorageBlocks : s # Combined => file'[s] = file[s]
    BY <1>1 DEF StorageTypes
  <1>5. file' \in [StorageBlocks -> Seq(Bytes)] /\ info' \in [StorageBlocks -> Seq(Bytes)]
    <2>1. file' = [file EXCEPT ![Combined] = Joined(Residual)]
          /\ info' = [info EXCEPT ![Combined] = Joined(Residual)]
      BY <1>1, <1>2, Residuals DEF StorageTypes
    <2> QED
      BY <1>1, <1>3, <2>1 DEF StorageTypes
  <1>6. StorageTypes'
    BY <1>1, <1>5 DEF StorageTypes
  <1>7. WorkerSteps'
    BY <1>1, Residuals DEF WorkerSteps, OriginalBlocks
  <1>8. StoringSteps'
    BY DEF StoringSteps
  <1>9. ContentKept'
    BY <1>2 DEF ContentKept
  <1>10. ReferencesLead'
    <2>1. \A r \in refs : r.storageBlock \in StorageBlocks /\ r.storageBlock # Combined
      BY <1>1 DEF WorkerSteps, Referenced, StorageTypes
    <2> QED
      BY <1>1, <1>4, <2>1 DEF ReferencesLead, LiesIn
  <1> QED
    BY <1>6, <1>7, <1>8, <1>9, <1>10 DEF StorageInv

LEMMA StorageMove ==
  ASSUME StorageInv, MoveReference
  PROVE  StorageInv'
  <1> USE DEF MoveReference
  <1>1. StorageTypes /\ WorkerSteps /\ StoringSteps /\ ContentKept /\ ReferencesLead
    BY DEF StorageInv
  <1>2. source \in OriginalBlocks /\ source # 0
    BY <1>1, Residuals DEF WorkerSteps, OriginalBlocks
  <1> DEFINE offset == Length(SubSeq(Residual, 1, source - 1))
             moved == Reference(Residual[source], Combined, offset)
  <1>3. offset \in Nat /\ LiesIn(file[Combined], Residual[source], offset)
    BY <1>1, <1>2, ResidualLiesInJoined DEF ContentKept
  <1> HIDE DEF offset
  <1>4. moved.blobBlock = Residual[source] /\ moved.storageBlock = Combined
        /\ moved.offset = offset
        /\ moved \in [blobBlock : BlobBlocks, storageBlock : StorageBlocks, offset : Nat]
    BY <1>2, <1>3, Residuals DEF Reference
  <1>5. refs' = refs \cup {moved}
    BY DEF offset
  <1> HIDE DEF moved
  <1>6. StorageTypes'
    <2>1. IsFiniteSet(refs')
      <3>1. IsFiniteSet(refs)
        BY <1>1 DEF StorageTypes
      <3>2. IsFiniteSet(refs \cup {moved})
        BY <3>1, FS_AddElement
      <3> QED
        BY <1>5, <3>2
    <2> QED
      BY <1>1, <1>4, <1>5, <2>1 DEF StorageTypes
  <1>7. WorkerSteps'
    BY <1>1, <1>2 DEF WorkerSteps
  <1>8. StoringSteps'
    BY DEF StoringSteps
  <1>9. ContentKept'
    BY <1>1 DEF ContentKept
  <1>10. ReferencesLead'
    <2>1. Combined \notin freed
      BY <1>1, Residuals DEF StorageTypes
    <2> QED
      BY <1>1, <1>3, <1>4, <1>5, <2>1 DEF ReferencesLead, LiesIn
  <1> QED
    BY <1>6, <1>7, <1>8, <1>9, <1>10 DEF StorageInv

LEMMA StorageDrop ==
  ASSUME StorageInv, RemoveReferences
  PROVE  StorageInv'
  <1> USE DEF RemoveReferences
  <1>1. StorageTypes /\ WorkerSteps /\ StoringSteps /\ ContentKept /\ ReferencesLead
    BY DEF StorageInv
  <1>2. source \in OriginalBlocks /\ source # 0 /\ source + 1 # 0
    BY <1>1, Residuals DEF WorkerSteps, OriginalBlocks
  <1>3. refs' \subseteq refs
    OBVIOUS
  <1>4. StorageTypes'
    <2>1. IsFiniteSet(refs')
      BY <1>1, <1>3, FS_Subset DEF StorageTypes
    <2> QED
      BY <1>1, <1>3, <2>1 DEF StorageTypes
  <1>5. WorkerSteps'
    BY <1>1, <1>2, Residuals DEF WorkerSteps, OriginalBlocks
  <1>6. StoringSteps'
    BY DEF StoringSteps
  <1>7. ContentKept'
    BY <1>1, <1>2 DEF ContentKept
  <1>8. ReferencesLead'
    BY <1>1, <1>3 DEF ReferencesLead, LiesIn
  <1> QED
    BY <1>4, <1>5, <1>6, <1>7, <1>8 DEF StorageInv

LEMMA StorageFree ==
  ASSUME StorageInv, NEW s \in StorageBlocks, FreeUnreferencedStorageBlock(s)
  PROVE  StorageInv'
  <1> USE DEF FreeUnreferencedStorageBlock, job
  <1>1. StorageTypes /\ WorkerSteps /\ StoringSteps /\ ContentKept /\ ReferencesLead
    BY DEF StorageInv
  <1>2. s \in OriginalBlocks /\ source # 0
    BY Residuals DEF StorageBlocks, Combined, OriginalBlocks
  <1>3. \A q \in StorageBlocks : q # s => file'[q] = file[q]
    BY <1>1 DEF StorageTypes
  <1>4. StorageTypes'
    <2>1. file' \in [StorageBlocks -> Seq(Bytes)]
      BY <1>1, EmptySeq DEF StorageTypes
    <2> QED
      BY <1>1, <1>2, <2>1 DEF StorageTypes
  <1>5. WorkerSteps'
    BY <1>1, <1>2 DEF WorkerSteps, Referenced
  <1>6. StoringSteps'
    BY DEF StoringSteps
  <1>7. ContentKept'
    BY <1>1, <1>2, <1>3, Residuals DEF ContentKept
  <1>8. ReferencesLead'
    <2>1. \A r \in refs : r.storageBlock \in StorageBlocks /\ r.storageBlock # s
      BY <1>1 DEF StorageTypes
    <2> QED
      BY <1>1, <1>3, <2>1 DEF ReferencesLead, LiesIn
  <1> QED
    BY <1>4, <1>5, <1>6, <1>7, <1>8 DEF StorageInv

LEMMA StorageStore ==
  ASSUME StorageInv, NEW b \in Coming, NEW s \in StorageBlocks, StoreFile(b, s)
  PROVE  StorageInv'
  <1> USE DEF StoreFile
  <1>1. StorageTypes /\ WorkerSteps /\ StoringSteps /\ ContentKept /\ ReferencesLead
    BY DEF StorageInv
  <1>2. s \in OriginalBlocks /\ source # 0
    BY <1>1 DEF StorageTypes, WorkerSteps
  <1>3. /\ file'[s] = BlockBytes(b) /\ BlockBytes(b) \in Seq(Bytes)
        /\ \A q \in StorageBlocks : q # s => file'[q] = file[q]
    BY <1>1, Residuals, BlockBytesAre DEF StorageTypes
  <1>4. \A r \in refs : r.storageBlock \in StorageBlocks /\ r.storageBlock # s
    BY <1>1 DEF StorageTypes, ReferencesLead
  <1>5. StorageTypes'
    <2>1. file' \in [StorageBlocks -> Seq(Bytes)]
      BY <1>1, <1>3 DEF StorageTypes
    <2> QED
      BY <1>1, <2>1 DEF StorageTypes
  <1>6. WorkerSteps'
    BY <1>1, <1>2 DEF WorkerSteps
  <1>7. StoringSteps'
    <2>1. source > Len(Residual)
      BY <1>1, <1>2 DEF WorkerSteps
    <2> QED
      BY <1>2, <1>3, <1>4, <2>1 DEF StoringSteps, Referenced
  <1>8. ContentKept'
    BY <1>1, <1>2, <1>3, Residuals DEF ContentKept
  <1>9. ReferencesLead'
    BY <1>1, <1>3, <1>4 DEF ReferencesLead, LiesIn
  <1> QED
    BY <1>5, <1>6, <1>7, <1>8, <1>9 DEF StorageInv

LEMMA StorageInfoWritten ==
  ASSUME StorageInv, UpdateStorageBlockInfo
  PROVE  StorageInv'
  <1> USE DEF UpdateStorageBlockInfo
  <1>1. StorageTypes /\ WorkerSteps /\ StoringSteps /\ ContentKept /\ ReferencesLead
    BY DEF StorageInv
  <1>2. target \in OriginalBlocks /\ target \in StorageBlocks
    BY <1>1, Residuals DEF StoringSteps
  <1>3. info' \in [StorageBlocks -> Seq(Bytes)] /\ info'[target] = file[target]
    BY <1>1, <1>2 DEF StorageTypes
  <1>4. StorageTypes'
    BY <1>1, <1>3 DEF StorageTypes
  <1>5. WorkerSteps' /\ StoringSteps'
    BY <1>1, <1>3 DEF WorkerSteps, StoringSteps, Referenced
  <1>6. ContentKept' /\ ReferencesLead'
    BY <1>1 DEF ContentKept, ReferencesLead, LiesIn
  <1> QED
    BY <1>4, <1>5, <1>6 DEF StorageInv

LEMMA StorageRefer ==
  ASSUME StorageInv, AddBlobBlockStorage
  PROVE  StorageInv'
  <1> USE DEF AddBlobBlockStorage
  <1>1. StorageTypes /\ WorkerSteps /\ StoringSteps /\ ContentKept /\ ReferencesLead
    BY DEF StorageInv
  <1>2. target \in OriginalBlocks /\ target \in StorageBlocks /\ target \notin freed /\ source # 0
        /\ info[target] = file[target] /\ source > Len(Residual)
    BY <1>1, Residuals DEF StoringSteps
  <1>3. PICK b \in Coming : file[target] = BlockBytes(b)
    BY <1>1 DEF StoringSteps
  <1>4. b \in BlobBlocks /\ BlockBytes(b)[1] = <<b, 1>> /\ LiesIn(BlockBytes(b), b, 0)
    BY Residuals, BlockBytesAre, BlockLiesInItself
  <1> DEFINE added == Reference(b, target, 0)
  <1>5. refs' = refs \cup {added}
    <2>1. info[target][1][1] = b
      BY <1>2, <1>3, <1>4
    <2> QED
      BY <2>1
  <1>6. added.blobBlock = b /\ added.storageBlock = target /\ added.offset = 0
        /\ added \in [blobBlock : BlobBlocks, storageBlock : StorageBlocks, offset : Nat]
    BY <1>2, <1>4 DEF Reference
  <1> HIDE DEF added
  <1>7. StorageTypes'
    <2>1. IsFiniteSet(refs')
      <3>1. IsFiniteSet(refs)
        BY <1>1 DEF StorageTypes
      <3>2. IsFiniteSet(refs \cup {added})
        BY <3>1, FS_AddElement
      <3> QED
        BY <1>5, <3>2
    <2> QED
      BY <1>1, <1>5, <1>6, <2>1 DEF StorageTypes
  <1>8. WorkerSteps' /\ StoringSteps'
    BY <1>1, <1>2 DEF WorkerSteps, StoringSteps
  <1>9. ContentKept'
    BY <1>1 DEF ContentKept
  <1>10. ReferencesLead'
    BY <1>1, <1>2, <1>3, <1>4, <1>5, <1>6 DEF ReferencesLead, LiesIn
  <1> QED
    BY <1>7, <1>8, <1>9, <1>10 DEF StorageInv

LEMMA StorageUncached ==
  ASSUME StorageInv, RemoveFromCache
  PROVE  StorageInv'
  <1> USE DEF RemoveFromCache
  <1>1. StorageTypes' /\ ContentKept' /\ ReferencesLead'
    BY DEF StorageInv, StorageTypes, ContentKept, ReferencesLead, LiesIn, storage
  <1>2. WorkerSteps' /\ StoringSteps'
    BY DEF StorageInv, WorkerSteps, StoringSteps, Referenced, storage
  <1> QED
    BY <1>1, <1>2 DEF StorageInv

\* A reader leaves the storage and the worker alone.
ReaderStep ==
    \/ \E d \in Streams, blob \in Blobs : DownloadBlob(d, blob)
    \/ \E d \in Slices, blob \in Blobs, range \in Ranges : DownloadBlobSlice(d, blob, range)
    \/ \E d \in Readers : \E i \in DOMAIN rows[d] : DownloadPart(d, i)
    \/ \E s \in StorageBlocks : Fetch(s) \/ ReadFails(s)

\* Who reads writes nothing.
LEMMA ReadersLeaveStorage ==
  ASSUME ReaderStep
  PROVE  UNCHANGED <<storage, job>>
  <1>1. CASE \E d \in Streams, blob \in Blobs : DownloadBlob(d, blob)
    BY <1>1 DEF DownloadBlob, Begin
  <1>2. CASE \E d \in Slices, blob \in Blobs, range \in Ranges : DownloadBlobSlice(d, blob, range)
    BY <1>2 DEF DownloadBlobSlice, Begin
  <1>3. CASE \E d \in Readers : \E i \in DOMAIN rows[d] : DownloadPart(d, i)
    BY <1>3 DEF DownloadPart
  <1>4. CASE \E s \in StorageBlocks : Fetch(s) \/ ReadFails(s)
    BY <1>4 DEF Fetch, DownloadEncryptedStorageBlock, QueryEncryptionInfo, Decrypt, ReadFails,
                Reject
  <1> QED
    BY <1>1, <1>2, <1>3, <1>4 DEF ReaderStep

\* Every step keeps the references leading to their blob blocks.
LEMMA StorageNext ==
  ASSUME StorageInv, [Next]_vars
  PROVE  StorageInv'
  <1>1. CASE ReaderStep
    BY <1>1, ReadersLeaveStorage, StorageUnchanged
  <1>2. CASE Work
    BY <1>2, StorageCombine, StorageMove, StorageDrop, StorageFree, StorageStore,
       StorageInfoWritten, StorageUncached, StorageRefer DEF Work
  <1>3. CASE UNCHANGED vars
    BY <1>3, StorageUnchanged DEF vars
  <1> QED
    BY <1>1, <1>2, <1>3 DEF Next, ReaderStep

(***************************************************************************)
(* The rows a request reads.                                               *)
(***************************************************************************)
Rows == [offset : Int, size : Nat, storageBlock : StorageBlocks, storageOffset : Nat]
RowsNow == {row \in Rows : Referenced(row.storageBlock)}

\* The row of a reference to the k-th blob block of a blob.
RowOf(blob, k, r) ==
    [offset |-> Length(SubSeq(Parts[blob], 1, k - 1)), size |-> Size[r.blobBlock],
     storageBlock |-> r.storageBlock, storageOffset |-> r.offset]

LEMMA PartsAre ==
  ASSUME NEW blob \in Blobs
  PROVE  /\ Parts[blob] \in Seq(BlobBlocks) /\ Len(Parts[blob]) \in Nat
         /\ DOMAIN Parts[blob] = 1..Len(Parts[blob])
         /\ \A k \in 1..Len(Parts[blob]) : Parts[blob][k] \in BlobBlocks
         /\ \A k \in 1..Len(Parts[blob]) : Length(SubSeq(Parts[blob], 1, k - 1)) \in Nat
  <1>1. Parts[blob] \in Seq(BlobBlocks)
    BY BlobBlocksHaveBytes
  <1>2. \A k \in 1..Len(Parts[blob]) : Length(SubSeq(Parts[blob], 1, k - 1)) \in Nat
    <2> SUFFICES ASSUME NEW k \in 1..Len(Parts[blob])
                 PROVE  Length(SubSeq(Parts[blob], 1, k - 1)) \in Nat
      OBVIOUS
    <2>1. k - 1 \in 0..Len(Parts[blob])
      BY <1>1
    <2> QED
      BY <1>1, <2>1, JoinedPlaces
  <1> QED
    BY <1>1, <1>2, ElementOfSeq

LEMMA RowOfIs ==
  ASSUME StorageInv, NEW blob \in Blobs, NEW k \in 1..Len(Parts[blob]), NEW r \in refs
  PROVE  RowOf(blob, k, r) \in RowsNow
  <1>1. /\ r.blobBlock \in BlobBlocks /\ r.storageBlock \in StorageBlocks /\ r.offset \in Nat
    BY DEF StorageInv, StorageTypes
  <1>2. Size[r.blobBlock] \in Nat /\ Length(SubSeq(Parts[blob], 1, k - 1)) \in Int
    BY <1>1, BlockBytesAre, PartsAre
  <1>3. Referenced(r.storageBlock)
    BY DEF Referenced
  <1> QED
    BY <1>1, <1>2, <1>3 DEF RowOf, RowsNow, Rows

\* The rows of a blob lead to referenced storage blocks.
LEMMA StorageInfoRows ==
  ASSUME StorageInv, NEW blob \in Blobs
  PROVE  StorageInfo(blob) \in Seq(RowsNow)
  <1> DEFINE n == Len(Parts[blob])
             found(k) == SetToSeq(RefsOf(Parts[blob][k]))
             parts == [k \in 1..n |-> [i \in DOMAIN found(k) |-> RowOf(blob, k, found(k)[i])]]
  <1>1. n \in Nat /\ DOMAIN Parts[blob] = 1..n
    BY PartsAre
  <1>2. StorageInfo(blob) = FlattenSeq(parts)
    BY <1>1 DEF StorageInfo, RowOf
  <1>3. ASSUME NEW k \in 1..n PROVE parts[k] \in Seq(RowsNow)
    <2>1. IsFiniteSet(RefsOf(Parts[blob][k])) /\ RefsOf(Parts[blob][k]) \subseteq refs
      BY FS_Subset DEF RefsOf, StorageInv, StorageTypes
    <2>2. PICK list \in Seq(refs) : list = found(k)
      <3>1. found(k) \in Seq(RefsOf(Parts[blob][k]))
        BY <2>1, SetToSeqIs
      <3> QED
        BY <2>1, <3>1, SeqMonotonic
    <2>3. /\ Len(list) \in Nat /\ DOMAIN list = 1..Len(list)
          /\ \A i \in 1..Len(list) : list[i] \in refs
      BY ElementOfSeq, LenProperties
    <2>4. [i \in 1..Len(list) |-> RowOf(blob, k, list[i])] \in [1..Len(list) -> RowsNow]
      BY <2>3, RowOfIs
    <2>5. parts[k] = [i \in 1..Len(list) |-> RowOf(blob, k, list[i])]
      BY <2>2, <2>3
    <2> HIDE DEF parts
    <2> QED
      BY <2>3, <2>4, <2>5, SeqDef
  <1>4. FlattenSeq(parts) \in Seq(RowsNow)
    <2>1. parts \in [1..n -> Seq(RowsNow)]
      BY <1>3
    <2>2. n \in 0..n
      BY <1>1
    <2> HIDE DEF parts, n
    <2> QED
      BY <1>1, <2>1, <2>2, FlattenLast
  <1> QED
    BY <1>2, <1>4

\* Where every blob block has one reference, a blob has a row for each of its blob blocks.
OneReferenceEach(blob) ==
    \A k \in DOMAIN Parts[blob] : Cardinality(RefsOf(Parts[blob][k])) = 1

LEMMA StorageInfoOfOne ==
  ASSUME StorageInv, NEW blob \in Blobs, OneReferenceEach(blob)
  PROVE  \E ref \in [1..Len(Parts[blob]) -> refs] :
            /\ \A k \in 1..Len(Parts[blob]) : ref[k].blobBlock = Parts[blob][k]
            /\ StorageInfo(blob) = [k \in 1..Len(Parts[blob]) |-> RowOf(blob, k, ref[k])]
  <1> DEFINE n == Len(Parts[blob])
             found(k) == SetToSeq(RefsOf(Parts[blob][k]))
             ref == [k \in 1..n |-> CHOOSE r \in refs : RefsOf(Parts[blob][k]) = {r}]
             e == [k \in 1..n |-> RowOf(blob, k, ref[k])]
  <1>1. n \in Nat /\ DOMAIN Parts[blob] = 1..n
    BY PartsAre
  <1>2. ASSUME NEW k \in 1..n
        PROVE  /\ ref[k] \in refs /\ ref[k].blobBlock = Parts[blob][k]
               /\ found(k) = <<ref[k]>>
    <2>1. /\ IsFiniteSet(RefsOf(Parts[blob][k])) /\ RefsOf(Parts[blob][k]) # {}
          /\ ~ (Cardinality(RefsOf(Parts[blob][k])) > 1)
          /\ RefsOf(Parts[blob][k]) \subseteq refs
      <3>1. IsFiniteSet(refs) /\ RefsOf(Parts[blob][k]) \subseteq refs
        BY DEF RefsOf, StorageInv, StorageTypes
      <3>2. IsFiniteSet(RefsOf(Parts[blob][k]))
        BY <3>1, FS_Subset
      <3>3. Cardinality(RefsOf(Parts[blob][k])) = 1
        BY <1>1 DEF OneReferenceEach
      <3>4. RefsOf(Parts[blob][k]) # {}
        BY <3>2, <3>3, FS_EmptySet
      <3>5. ~ (Cardinality(RefsOf(Parts[blob][k])) > 1)
        BY <3>3
      <3> QED
        BY <3>1, <3>2, <3>4, <3>5
    <2>2. PICK r \in RefsOf(Parts[blob][k]) :
                 RefsOf(Parts[blob][k]) = {r} /\ found(k) = <<r>>
      BY <2>1, SetToSeqIs
    <2>3. r \in refs /\ ref[k] = r
      BY <2>1, <2>2
    <2> QED
      BY <2>2, <2>3 DEF RefsOf
  <1>3. StorageInfo(blob) = FlattenSeq([k \in 1..n |-> <<e[k]>>])
    <2>1. StorageInfo(blob)
            = FlattenSeq([k \in 1..n |-> [i \in DOMAIN found(k) |-> RowOf(blob, k, found(k)[i])]])
      BY <1>1 DEF StorageInfo, RowOf
    <2>2. ASSUME NEW k \in 1..n
          PROVE  [i \in DOMAIN found(k) |-> RowOf(blob, k, found(k)[i])] = <<e[k]>>
      <3>1. PICK r : r = ref[k]
        OBVIOUS
      <3>2. found(k) = <<r>> /\ e[k] = RowOf(blob, k, r)
        BY <1>2, <3>1
      <3> HIDE DEF found, e
      <3> QED
        BY <3>2
    <2> QED
      BY <2>1, <2>2
  <1>4. e \in [1..n -> RowsNow] /\ ref \in [1..n -> refs]
    BY <1>2, RowOfIs
  <1>5. FlattenSeq([k \in 1..n |-> <<e[k]>>]) = e
    <2> HIDE DEF e, n
    <2> QED
      BY <1>1, <1>4, FlattenSingles
  <1> HIDE DEF found
  <1>6. \A k \in 1..n : ref[k].blobBlock = Parts[blob][k]
    BY <1>2
  <1>7. StorageInfo(blob) = e
    BY <1>3, <1>5
  <1> HIDE DEF ref
  <1> QED
    BY <1>4, <1>6, <1>7

(***************************************************************************)
(* What the rows lead to now is what the request asks for.                 *)
(***************************************************************************)
LEMMA PartOfBlock ==
  ASSUME StorageInv, NEW ref \in refs, NEW row,
         NEW from \in 0..Size[ref.blobBlock], NEW to \in from..Size[ref.blobBlock],
         row.storageOffset = ref.offset + from, row.size = to - from
  PROVE  Part(row, file[ref.storageBlock]) = SubSeq(BlockBytes(ref.blobBlock), from + 1, to)
  <1>1. PICK T \in Seq(Bytes), o \in Nat, b \in BlobBlocks :
               T = file[ref.storageBlock] /\ o = ref.offset /\ b = ref.blobBlock
    BY DEF StorageInv, StorageTypes
  <1>2. LiesIn(T, b, o)
    BY <1>1 DEF StorageInv, ReferencesLead
  <1>3. PICK u \in Seq(Bytes) : u = BlockBytes(b)
    BY BlockBytesAre
  <1>4. Len(u) = Size[b] /\ Size[b] \in Nat /\ \A j \in 1..Size[b] : u[j] = <<b, j>>
    BY <1>3, BlockBytesAre
  <1>5. o + Len(u) <= Len(T) /\ \A j \in 1..Len(u) : T[o + j] = u[j]
    BY <1>2, <1>4 DEF LiesIn
  <1>6. from \in 0..Len(u) /\ to \in from..Len(u)
    BY <1>1, <1>4
  <1>7. SubSeq(u, from + 1, to) = SubSeq(T, o + from + 1, o + to)
    BY <1>5, <1>6, SliceOfBlock
  <1>8. Least(row.storageOffset + row.size, Len(T)) = o + to
        /\ row.storageOffset + 1 = o + from + 1
    <2>1. Len(T) \in Nat /\ Len(u) \in Nat /\ row.storageOffset = o + from
      BY <1>1, LenProperties
    <2>2. row.storageOffset + row.size = o + to
      BY <1>6, <2>1
    <2>3. o + to <= Len(T) /\ o + to \in Nat
      BY <1>5, <1>6, <2>1
    <2> QED
      BY <2>1, <2>2, <2>3 DEF Least
  <1> QED
    BY <1>1, <1>3, <1>7, <1>8 DEF Part

\* What a row leads to.
Content == [row \in RowsNow |-> Part(row, file[row.storageBlock])]

LEMMA PartIsBytes ==
  ASSUME NEW row \in Rows, NEW bytes \in Seq(Bytes)
  PROVE  Part(row, bytes) \in Seq(Bytes)
  <1> DEFINE m == row.storageOffset + 1
             n == Least(row.storageOffset + row.size, Len(bytes))
  <1>1. m \in Int /\ n \in Int /\ m >= 1 /\ n <= Len(bytes) /\ Len(bytes) \in Nat
    BY DEF Rows, Least
  <1>2. \A i \in m..n : bytes[i] \in Bytes
    <2> HIDE DEF m, n
    <2> SUFFICES ASSUME NEW i \in m..n PROVE bytes[i] \in Bytes
      OBVIOUS
    <2>1. i \in 1..Len(bytes)
      BY <1>1
    <2> QED
      BY <2>1, ElementOfSeq
  <1>3. SubSeq(bytes, m, n) \in Seq(Bytes)
    <2> HIDE DEF m, n
    <2> QED
      BY <1>1, <1>2, SubSeqProperties
  <1> QED
    BY <1>3 DEF Part

LEMMA ContentIs ==
  ASSUME StorageInv
  PROVE  Content \in [RowsNow -> Seq(Bytes)]
  <1> SUFFICES ASSUME NEW row \in RowsNow
               PROVE  Part(row, file[row.storageBlock]) \in Seq(Bytes)
    BY DEF Content
  <1>1. row \in Rows /\ row.storageBlock \in StorageBlocks
    BY DEF RowsNow, Rows
  <1>2. file[row.storageBlock] \in Seq(Bytes)
    BY <1>1 DEF StorageInv, StorageTypes
  <1> QED
    BY <1>1, <1>2, PartIsBytes

\* The rows of a blob lead to its bytes.
LEMMA WholeContent ==
  ASSUME StorageInv, NEW blob \in Blobs, OneReferenceEach(blob)
  PROVE  FlattenSeq(Mapped(Content, StorageInfo(blob))) = BlobBytes(blob)
  <1> DEFINE n == Len(Parts[blob])
  <1>1. PICK ref \in [1..n -> refs] :
               /\ \A k \in 1..n : ref[k].blobBlock = Parts[blob][k]
               /\ StorageInfo(blob) = [k \in 1..n |-> RowOf(blob, k, ref[k])]
    BY StorageInfoOfOne
  <1>2. n \in Nat /\ DOMAIN Parts[blob] = 1..n /\ \A k \in 1..n : Parts[blob][k] \in BlobBlocks
    BY PartsAre
  <1>3. PICK e : e = [k \in 1..n |-> RowOf(blob, k, ref[k])]
    OBVIOUS
  <1>4. ASSUME NEW k \in 1..n PROVE e[k] \in RowsNow /\ Content[e[k]] = BlockBytes(Parts[blob][k])
    <2>1. PICK r \in refs, row \in RowsNow, b \in BlobBlocks :
                 r = ref[k] /\ row = RowOf(blob, k, r) /\ b = Parts[blob][k] /\ r.blobBlock = b
      BY <1>1, <1>2, RowOfIs
    <2>2. row.storageOffset = r.offset + 0 /\ row.size = Size[b] - 0
          /\ row.storageBlock = r.storageBlock /\ Size[b] \in Nat
      <3>1. r.offset \in Nat /\ Size[b] \in Nat
        BY BlockBytesAre DEF StorageInv, StorageTypes
      <3> QED
        BY <2>1, <3>1 DEF RowOf
    <2>3. Part(row, file[r.storageBlock]) = SubSeq(BlockBytes(b), 1, Size[b])
      <3>1. PICK from \in 0..Size[r.blobBlock] : from = 0
        BY <2>1, <2>2
      <3>2. PICK to \in from..Size[r.blobBlock] : to = Size[b]
        BY <2>1, <2>2, <3>1
      <3>3. row.storageOffset = r.offset + from /\ row.size = to - from /\ from + 1 = 1
        BY <2>2, <3>1, <3>2
      <3>4. Part(row, file[r.storageBlock]) = SubSeq(BlockBytes(r.blobBlock), from + 1, to)
        BY <3>3, PartOfBlock
      <3> QED
        BY <2>1, <3>2, <3>3, <3>4
    <2>4. SubSeq(BlockBytes(b), 1, Size[b]) = BlockBytes(b)
      <3>1. BlockBytes(b) \in Seq(Bytes) /\ Len(BlockBytes(b)) = Size[b]
        BY BlockBytesAre
      <3>2. SubSeq(BlockBytes(b), 1, Len(BlockBytes(b))) = BlockBytes(b)
        BY <3>1, SubSeqFull
      <3> QED
        BY <3>1, <3>2
    <2>5. e[k] = row
      BY <1>3, <2>1
    <2>6. Content[row] = BlockBytes(b)
      BY <2>2, <2>3, <2>4 DEF Content
    <2> QED
      BY <2>1, <2>5, <2>6
  <1>5. Len(e) = n
    BY <1>2, <1>3
  <1>6. Mapped(Content, e) = [k \in DOMAIN Parts[blob] |-> BlockBytes(Parts[blob][k])]
    BY <1>2, <1>4, <1>5 DEF Mapped
  <1> QED
    BY <1>1, <1>3, <1>6 DEF BlobBytes, Joined

\* The end of a range, and the slice that the code makes of the range.
RangeEnd(range) == IF range[2] = Open THEN range[1] + RangeChunk ELSE range[2] + 1

\* The slice that is made of a range ends where the range does, or the blob.
LEMMA SliceIs ==
  ASSUME NEW range \in Ranges, NEW blob \in Blobs
  PROVE  LET slice == ParseRangeHeader(range, TotalSize(blob)) IN
         /\ slice.start = range[1] /\ range[1] \in Nat /\ slice.length \in Int
         /\ slice.start + slice.length = Least(RangeEnd(range), TotalSize(blob))
         /\ RangeEnd(range) \in Int /\ TotalSize(blob) \in Nat
  <1>1. range[1] \in Nat /\ range[2] \in Int /\ RangeChunk \in Nat
    BY RangesAreParsed DEF Open
  <1>2. TotalSize(blob) \in Nat
    BY PartsAre, JoinedPlaces DEF TotalSize
  <1> QED
    BY <1>1, <1>2 DEF ParseRangeHeader, RangeEnd, Least

\* An overlap lies in its row.
LEMMA OverlapIs ==
  ASSUME NEW start \in Int, NEW length \in Int, NEW entry \in Rows
  PROVE  LET overlap == ComputeOverlap(start, length, entry)
             from == Clamp(start - entry.offset, entry.size)
             to == Clamp(start + length - entry.offset, entry.size)
         IN /\ overlap.size = to - from /\ from \in 0..entry.size /\ to \in 0..entry.size
            /\ overlap.storageBlock = entry.storageBlock
            /\ overlap.storageOffset = entry.storageOffset + from
            /\ overlap.size > 0 => overlap \in Rows
  <1>1. /\ entry.offset \in Int /\ entry.size \in Nat /\ entry.storageOffset \in Nat
        /\ entry.storageBlock \in StorageBlocks
    BY DEF Rows
  <1> DEFINE from == Clamp(start - entry.offset, entry.size)
             to == Clamp(start + length - entry.offset, entry.size)
  <1>2. from \in 0..entry.size /\ to \in 0..entry.size
    BY <1>1 DEF Clamp, Least, Greatest
  <1>3. start - entry.offset + length = start + length - entry.offset
    BY <1>1
  <1>4. ComputeOverlap(start, length, entry)
          = [offset |-> from, size |-> to - from, storageBlock |-> entry.storageBlock,
             storageOffset |-> entry.storageOffset + from]
    BY <1>3 DEF ComputeOverlap, Clamp
  <1> HIDE DEF from, to
  <1>5. to - from > 0 => /\ to - from \in Nat /\ from \in Int
                         /\ entry.storageOffset + from \in Nat
    BY <1>1, <1>2
  <1>6. to - from > 0 => ComputeOverlap(start, length, entry) \in Rows
    BY <1>1, <1>4, <1>5 DEF Rows
  <1> QED
    BY <1>2, <1>4, <1>6 DEF from, to

LEMMA OverlapsRows ==
  ASSUME StorageInv, NEW blob \in Blobs, NEW range \in Ranges
  PROVE  Overlaps(blob, range) \in Seq(RowsNow)
  <1> DEFINE slice == ParseRangeHeader(range, TotalSize(blob))
             Overlap(entry) == ComputeOverlap(slice.start, slice.length, entry)
  <1>1. PICK entries \in Seq(RowsNow) : entries = StorageInfo(blob)
    BY StorageInfoRows
  <1>2. PICK n \in Nat : n = Len(entries) /\ DOMAIN entries = 1..n
    BY <1>1, LenProperties
  <1>3. slice.start \in Int /\ slice.length \in Int
    BY SliceIs
  <1> DEFINE parts == [i \in 1..n |-> IF Overlap(entries[i]).size > 0 THEN <<Overlap(entries[i])>>
                                                                      ELSE <<>>]
  <1>4. ASSUME NEW i \in 1..n PROVE parts[i] \in Seq(RowsNow)
    <2>1. PICK entry \in RowsNow : entry = entries[i]
      BY <1>2, ElementOfSeq
    <2>2. Overlap(entry).size > 0 => Overlap(entry) \in RowsNow
      <3>1. entry \in Rows /\ Referenced(entry.storageBlock)
        BY DEF RowsNow
      <3>2. /\ Overlap(entry).storageBlock = entry.storageBlock
            /\ Overlap(entry).size > 0 => Overlap(entry) \in Rows
        <4> HIDE DEF slice
        <4> QED
          BY <1>3, <3>1, OverlapIs
      <3> HIDE DEF Overlap
      <3> QED
        BY <3>1, <3>2 DEF RowsNow
    <2>3. parts[i] = IF Overlap(entry).size > 0 THEN <<Overlap(entry)>> ELSE <<>>
      BY <2>1
    <2>4. <<>> \in Seq(RowsNow) /\ \A row \in RowsNow : <<row>> \in Seq(RowsNow)
      BY EmptySeq
    <2> HIDE DEF parts, Overlap
    <2> QED
      BY <2>2, <2>3, <2>4
  <1>5. FlattenSeq(parts) \in Seq(RowsNow)
    <2>1. parts \in [1..n -> Seq(RowsNow)]
      BY <1>4
    <2>2. n \in 0..n
      OBVIOUS
    <2> HIDE DEF parts
    <2> QED
      BY <2>1, <2>2, FlattenLast
  <1>6. Overlaps(blob, range) = FlattenSeq(parts)
    BY <1>1, <1>2 DEF Overlaps
  <1> HIDE DEF parts
  <1> QED
    BY <1>5, <1>6

\* The overlap of a range with a block leads to the piece of the block that is in the range.
Overlapping(ref, entry, start, length, overlap, piece) ==
    /\ ref \in refs /\ entry \in RowsNow /\ start \in Int /\ length \in Int
    /\ entry.storageBlock = ref.storageBlock /\ entry.storageOffset = ref.offset
    /\ entry.size = Size[ref.blobBlock]
    /\ overlap = ComputeOverlap(start, length, entry)
    /\ piece = SubSeq(BlockBytes(ref.blobBlock), Clamp(start - entry.offset, entry.size) + 1,
                      Clamp(start + length - entry.offset, entry.size))

LEMMA OverlapContent ==
  ASSUME StorageInv, NEW ref, NEW entry, NEW start, NEW length, NEW overlap, NEW piece,
         Overlapping(ref, entry, start, length, overlap, piece)
  PROVE  /\ piece \in Seq(Bytes)
         /\ overlap.size > 0 => overlap \in RowsNow /\ Content[overlap] = piece
         /\ ~ (overlap.size > 0) => piece = <<>>
  <1> DEFINE from == Clamp(start - entry.offset, entry.size)
             to == Clamp(start + length - entry.offset, entry.size)
             bytes == BlockBytes(ref.blobBlock)
  <1>0. /\ ref \in refs /\ entry \in RowsNow /\ start \in Int /\ length \in Int
        /\ entry.storageBlock = ref.storageBlock /\ entry.storageOffset = ref.offset
        /\ entry.size = Size[ref.blobBlock] /\ overlap = ComputeOverlap(start, length, entry)
        /\ piece = SubSeq(bytes, from + 1, to)
    BY DEF Overlapping
  <1>1. entry \in Rows /\ Referenced(entry.storageBlock)
    BY <1>0 DEF RowsNow
  <1>2. ref.blobBlock \in BlobBlocks /\ Size[ref.blobBlock] \in Nat
        /\ bytes \in Seq(Bytes) /\ Len(bytes) = Size[ref.blobBlock]
    BY <1>0, BlockBytesAre DEF StorageInv, StorageTypes
  <1>4. /\ overlap.size = to - from /\ from \in 0..entry.size /\ to \in 0..entry.size
        /\ overlap.storageBlock = entry.storageBlock
        /\ overlap.storageOffset = entry.storageOffset + from
        /\ overlap.size > 0 => overlap \in Rows
    BY <1>0, <1>1, OverlapIs
  <1> HIDE DEF from, to
  <1>5. piece \in Seq(Bytes)
    <2>1. \A i \in (from + 1)..to : bytes[i] \in Bytes
      <3> SUFFICES ASSUME NEW i \in (from + 1)..to PROVE bytes[i] \in Bytes
        OBVIOUS
      <3>1. i \in 1..Len(bytes)
        BY <1>0, <1>2, <1>4
      <3> HIDE DEF bytes
      <3> QED
        BY <1>2, <3>1, ElementOfSeq
    <2>2. from + 1 \in Int /\ to \in Int
      BY <1>0, <1>2, <1>4
    <2> QED
      BY <1>0, <2>1, <2>2, SubSeqProperties
  <1>6. ASSUME overlap.size > 0 PROVE overlap \in RowsNow /\ Content[overlap] = piece
    <2>1. overlap \in RowsNow
      BY <1>0, <1>1, <1>4, <1>6 DEF RowsNow
    <2>2. PICK f \in 0..Size[ref.blobBlock] : f = from
      BY <1>0, <1>4
    <2>3. PICK t \in f..Size[ref.blobBlock] : t = to
      BY <1>0, <1>2, <1>4, <1>6, <2>2
    <2>4. overlap.storageOffset = ref.offset + f /\ overlap.size = t - f
      BY <1>0, <1>4, <2>2, <2>3
    <2>5. Part(overlap, file[ref.storageBlock]) = SubSeq(BlockBytes(ref.blobBlock), f + 1, t)
      BY <1>0, <2>4, PartOfBlock
    <2>6. Content[overlap] = Part(overlap, file[ref.storageBlock])
      BY <1>0, <1>4, <2>1 DEF Content
    <2> QED
      BY <1>0, <2>1, <2>2, <2>3, <2>5, <2>6
  <1>7. ASSUME ~ (overlap.size > 0) PROVE piece = <<>>
    <2>1. from + 1 \in Int /\ to \in Int /\ to < from + 1
      BY <1>0, <1>2, <1>4, <1>7
    <2> QED
      BY <1>0, <2>1, SubSeqEmpty
  <1> QED
    BY <1>5, <1>6, <1>7

\* The overlaps of a range lead to the bytes of the range.
LEMMA SliceContent ==
  ASSUME StorageInv, NEW blob \in Blobs, NEW range \in Ranges, OneReferenceEach(blob)
  PROVE  FlattenSeq(Mapped(Content, Overlaps(blob, range)))
           = SubSeq(BlobBytes(blob), range[1] + 1, Least(RangeEnd(range), TotalSize(blob)))
  <1>1. PICK bs \in Seq(BlobBlocks), n \in Nat :
               bs = Parts[blob] /\ n = Len(bs) /\ DOMAIN bs = 1..n
    BY PartsAre
  <1>2. PICK ref \in [1..n -> refs] :
               /\ \A k \in 1..n : ref[k].blobBlock = bs[k]
               /\ StorageInfo(blob) = [k \in 1..n |-> RowOf(blob, k, ref[k])]
    BY <1>1, StorageInfoOfOne
  <1>3. PICK entries : entries = [k \in 1..n |-> RowOf(blob, k, ref[k])]
    OBVIOUS
  <1>4. PICK start \in Nat, length \in Int :
               /\ start = ParseRangeHeader(range, TotalSize(blob)).start
               /\ length = ParseRangeHeader(range, TotalSize(blob)).length
               /\ start = range[1]
    BY SliceIs
  <1>5. PICK end \in Int : end = Least(RangeEnd(range), TotalSize(blob)) /\ end = start + length
    BY <1>4, SliceIs
  <1>6. end = Least(end, TotalSize(blob)) /\ TotalSize(blob) = Length(bs)
    <2>1. RangeEnd(range) \in Int /\ TotalSize(blob) \in Nat
      BY SliceIs
    <2> QED
      BY <1>1, <1>5, <2>1 DEF Least, TotalSize
  <1> DEFINE B(k) == Length(SubSeq(bs, 1, k - 1))
             Overlap(k) == ComputeOverlap(start, length, entries[k])
             parts == [k \in 1..n |-> IF Overlap(k).size > 0 THEN <<Overlap(k)>> ELSE <<>>]
             pieces == [k \in 1..n |->
                          SubSeq(BlockBytes(bs[k]), Clamp(start - B(k), Size[bs[k]]) + 1,
                                 Clamp(end - B(k), Size[bs[k]]))]
  <1>7. ASSUME NEW k \in 1..n
        PROVE  /\ pieces[k] \in Seq(Bytes)
               /\ Overlap(k).size > 0 => /\ Overlap(k) \in RowsNow
                                         /\ Content[Overlap(k)] = pieces[k]
               /\ ~ (Overlap(k).size > 0) => pieces[k] = <<>>
    <2>1. PICK r \in refs, entry \in RowsNow : r = ref[k] /\ entry = entries[k]
                                               /\ entry = RowOf(blob, k, r)
      BY <1>1, <1>2, <1>3, RowOfIs
    <2>2. /\ entry.storageBlock = r.storageBlock /\ entry.storageOffset = r.offset
          /\ entry.size = Size[r.blobBlock] /\ entry.offset = B(k) /\ r.blobBlock = bs[k]
      BY <1>1, <1>2, <2>1 DEF RowOf
    <2>4. PICK overlap : overlap = ComputeOverlap(start, length, entry) /\ overlap = Overlap(k)
      BY <2>1
    <2>5. PICK piece : /\ piece = SubSeq(BlockBytes(r.blobBlock),
                                         Clamp(start - entry.offset, entry.size) + 1,
                                         Clamp(start + length - entry.offset, entry.size))
                       /\ piece = pieces[k]
      <3>1. pieces[k] = SubSeq(BlockBytes(bs[k]), Clamp(start - B(k), Size[bs[k]]) + 1,
                               Clamp(end - B(k), Size[bs[k]]))
        OBVIOUS
      <3> HIDE DEF pieces, B
      <3>2. entry.offset = B(k) /\ entry.size = Size[bs[k]] /\ r.blobBlock = bs[k]
        BY <2>2
      <3>3. start + length - entry.offset = end - B(k)
        <4>1. entry.offset \in Int
          BY DEF RowsNow, Rows
        <4>2. end = start + length
          BY <1>5
        <4> QED
          BY <3>2, <4>1, <4>2
      <3>4. pieces[k] = SubSeq(BlockBytes(r.blobBlock),
                               Clamp(start - entry.offset, entry.size) + 1,
                               Clamp(start + length - entry.offset, entry.size))
        BY <3>1, <3>2, <3>3, Zenon
      <3> QED
        BY <3>4, Zenon
    <2> HIDE DEF Overlap, pieces, B
    <2>6. Overlapping(r, entry, start, length, overlap, piece)
      <3>1. r \in refs /\ entry \in RowsNow /\ start \in Int /\ length \in Int
        OBVIOUS
      <3>2. entry.storageBlock = r.storageBlock /\ entry.storageOffset = r.offset
            /\ entry.size = Size[r.blobBlock]
        BY <2>2
      <3> QED
        BY <2>4, <2>5, <3>1, <3>2, Zenon DEF Overlapping
    <2>7. /\ piece \in Seq(Bytes)
          /\ overlap.size > 0 => overlap \in RowsNow /\ Content[overlap] = piece
          /\ ~ (overlap.size > 0) => piece = <<>>
      BY <2>6, OverlapContent
    <2> QED
      BY <2>4, <2>5, <2>7
  <1>8. Overlaps(blob, range) = FlattenSeq(parts)
    <2>1. StorageInfo(blob) = entries /\ DOMAIN entries = 1..n
      BY <1>2, <1>3
    <2> QED
      BY <1>4, <2>1 DEF Overlaps
  <1>9. FlattenSeq(Mapped(Content, FlattenSeq(parts))) = FlattenSeq(pieces)
    <2>1. parts \in [1..n -> Seq(RowsNow)]
      <3>1. <<>> \in Seq(RowsNow) /\ \A row \in RowsNow : <<row>> \in Seq(RowsNow)
        BY EmptySeq
      <3> HIDE DEF Overlap
      <3> QED
        BY <1>7, <3>1
    <2>2. pieces \in [1..n -> Seq(Bytes)]
      <3>1. DOMAIN pieces = 1..n /\ pieces = [k \in 1..n |-> pieces[k]]
        OBVIOUS
      <3> HIDE DEF pieces
      <3> QED
        BY <1>7, <3>1
    <2>3. \A k \in 1..n : \/ parts[k] = <<>> /\ pieces[k] = <<>>
                          \/ \E r \in RowsNow : parts[k] = <<r>> /\ pieces[k] = Content[r]
      <3> HIDE DEF pieces, Overlap
      <3> QED
        BY <1>7
    <2>4. Content \in [RowsNow -> Seq(Bytes)]
      BY ContentIs
    <2>5. Choosing(RowsNow, n, Content, parts, pieces)
      <3> HIDE DEF parts, pieces
      <3> QED
        BY <2>1, <2>2, <2>3, <2>4 DEF Choosing
    <2> HIDE DEF parts, pieces
    <2> QED
      BY <2>5, Chosen
  <1>10. FlattenSeq(pieces) = SubSeq(Joined(bs), start + 1, Least(end, Length(bs)))
    <2>1. pieces \in [1..Len(bs) -> Seq(Bytes)]
      <3>1. DOMAIN pieces = 1..n /\ pieces = [k \in 1..n |-> pieces[k]]
        OBVIOUS
      <3> HIDE DEF pieces
      <3> QED
        BY <1>1, <1>7, <3>1
    <2>2. \A k \in 1..Len(bs) :
            pieces[k] = SubSeq(BlockBytes(bs[k]),
                               Clamp(start - Length(SubSeq(bs, 1, k - 1)), Size[bs[k]]) + 1,
                               Clamp(end - Length(SubSeq(bs, 1, k - 1)), Size[bs[k]]))
      BY <1>1
    <2> HIDE DEF pieces
    <2> QED
      BY <2>1, <2>2, SliceJoined
  <1> HIDE DEF parts, pieces
  <1> QED
    BY <1>1, <1>4, <1>5, <1>6, <1>8, <1>9, <1>10 DEF BlobBytes

(***************************************************************************)
(* The cache of storage blocks.                                            *)
(***************************************************************************)
Entries == [block : StorageBlocks, bytes : Seq(Bytes)]
Distinct(entries) == \A i, j \in DOMAIN entries : i # j => entries[i].block # entries[j].block
ComesFrom(new, old) == \A j \in DOMAIN new : \E i \in DOMAIN old : new[j] = old[i]

\* Without a storage block, the cache holds the others as before.
LEMMA WithoutIs ==
  ASSUME NEW old \in Seq(Entries), Distinct(old), NEW s
  PROVE  /\ Without(old, s) \in Seq(Entries) /\ Distinct(Without(old, s))
         /\ ComesFrom(Without(old, s), old) /\ ~ Holds(Without(old, s), s)
         /\ Len(Without(old, s)) <= Len(old)
         /\ Holds(old, s) => Len(Without(old, s)) = Len(old) - 1
  <1>1. Len(old) \in Nat /\ DOMAIN old = 1..Len(old) /\ \A i \in 1..Len(old) : old[i] \in Entries
    BY ElementOfSeq, LenProperties
  <1>2. CASE ~ Holds(old, s)
    <2>1. Without(old, s) = old
      BY <1>2 DEF Without
    <2>2. ComesFrom(old, old)
      BY DEF ComesFrom
    <2>3. Len(old) <= Len(old)
      BY <1>1
    <2> QED
      BY <1>2, <2>1, <2>2, <2>3, Zenon
  <1>3. CASE Holds(old, s)
    <2> DEFINE p == Place(old, s)
               before == SubSeq(old, 1, p - 1)
               after == SubSeq(old, p + 1, Len(old))
               new == before \o after
    <2>1. p \in 1..Len(old) /\ old[p].block = s
      BY <1>1, <1>3 DEF Holds, Place
    <2>2. Without(old, s) = new
      BY <1>3 DEF Without, RemoveAt
    <2> HIDE DEF p
    <2>3. /\ before \in Seq(Entries) /\ Len(before) = p - 1
          /\ \A i \in 1..(p - 1) : before[i] = old[i]
      <3>1. \A i \in 1..(p - 1) : old[i] \in Entries
        BY <1>1, <2>1
      <3>2. 1 \in Int /\ p - 1 \in Int
        BY <2>1
      <3>3. /\ before \in Seq(Entries) /\ Len(before) = (IF 1 <= p - 1 THEN p - 1 - 1 + 1 ELSE 0)
            /\ \A i \in 1..(p - 1 - 1 + 1) : before[i] = old[1 + i - 1]
        BY <3>1, <3>2, SubSeqProperties
      <3> HIDE DEF before
      <3>4. p - 1 - 1 + 1 = p - 1 /\ (1 <= p - 1 \/ p - 1 = 0)
        BY <2>1
      <3>5. \A i \in 1..(p - 1) : 1 + i - 1 = i
        BY <2>1
      <3>6. Len(before) = p - 1
        BY <3>3, <3>4
      <3> QED
        BY <3>3, <3>4, <3>5, <3>6
    <2>4. /\ after \in Seq(Entries) /\ Len(after) = Len(old) - p
          /\ \A i \in 1..(Len(old) - p) : after[i] = old[p + i]
      <3>1. \A i \in (p + 1)..Len(old) : old[i] \in Entries
        BY <1>1, <2>1
      <3>2. p + 1 \in Int /\ Len(old) \in Int
        BY <1>1, <2>1
      <3>3. /\ after \in Seq(Entries)
            /\ Len(after) = (IF p + 1 <= Len(old) THEN Len(old) - (p + 1) + 1 ELSE 0)
            /\ \A i \in 1..(Len(old) - (p + 1) + 1) : after[i] = old[p + 1 + i - 1]
        BY <3>1, <3>2, SubSeqProperties
      <3> HIDE DEF after
      <3>4. p \in Int /\ Len(old) \in Int /\ p <= Len(old)
        BY <1>1, <2>1
      <3>5. Len(after) = Len(old) - p
        BY <3>3, <3>4
      <3>6. \A i \in 1..(Len(old) - p) : after[i] = old[p + i]
        <4>1. Len(old) - (p + 1) + 1 = Len(old) - p
          BY <3>4
        <4>2. \A i \in 1..(Len(old) - p) : p + 1 + i - 1 = p + i
          BY <3>4
        <4> QED
          BY <3>3, <4>1, <4>2
      <3> QED
        BY <3>3, <3>5, <3>6
    <2> HIDE DEF before, after
    <2>5. /\ new \in Seq(Entries) /\ Len(new) = Len(old) - 1
          /\ \A i \in 1..(Len(old) - 1) : new[i] = old[IF i < p THEN i ELSE i + 1]
      <3>1. /\ new \in Seq(Entries) /\ Len(new) = Len(before) + Len(after)
            /\ \A i \in 1..(Len(before) + Len(after)) :
                 new[i] = IF i <= Len(before) THEN before[i] ELSE after[i - Len(before)]
        BY <2>3, <2>4, ConcatProperties
      <3> HIDE DEF new
      <3>2. Len(before) + Len(after) = Len(old) - 1
        BY <1>1, <2>1, <2>3, <2>4
      <3>3. ASSUME NEW i \in 1..(Len(old) - 1)
            PROVE  new[i] = old[IF i < p THEN i ELSE i + 1]
        <4>1. CASE i < p
          <5>1. i \in 1..(p - 1) /\ i <= Len(before)
            BY <2>1, <2>3, <4>1
          <5> QED
            BY <2>3, <3>1, <3>2, <4>1, <5>1
        <4>2. CASE ~ (i < p)
          <5>1. i - (p - 1) \in 1..(Len(old) - p) /\ p + (i - (p - 1)) = i + 1
                /\ ~ (i <= Len(before)) /\ i - Len(before) = i - (p - 1)
            BY <1>1, <2>1, <2>3, <4>2
          <5> QED
            BY <2>4, <3>1, <3>2, <4>2, <5>1
        <4> QED
          BY <4>1, <4>2
      <3> QED
        BY <3>1, <3>2, <3>3
    <2> HIDE DEF new
    <2>6. DOMAIN new = 1..(Len(old) - 1)
      BY <2>5
    <2> DEFINE was(i) == IF i < p THEN i ELSE i + 1
    <2>7. \A i \in 1..(Len(old) - 1) : was(i) \in 1..Len(old) /\ was(i) # p
      BY <1>1, <2>1
    <2>8. \A i, j \in 1..(Len(old) - 1) : i # j => was(i) # was(j)
      BY <1>1, <2>1
    <2>9. \A i \in 1..(Len(old) - 1) : new[i] = old[was(i)]
      BY <2>5
    <2> HIDE DEF was
    <2>10. Distinct(new) /\ ComesFrom(new, old) /\ ~ Holds(new, s)
      <3>1. Distinct(new)
        BY <1>1, <2>6, <2>7, <2>8, <2>9 DEF Distinct
      <3>2. ComesFrom(new, old)
        BY <1>1, <2>6, <2>7, <2>9 DEF ComesFrom
      <3>3. ~ Holds(new, s)
        BY <1>1, <2>1, <2>6, <2>7, <2>9 DEF Holds, Distinct
      <3> QED
        BY <3>1, <3>2, <3>3
    <2> QED
      BY <1>1, <1>3, <2>2, <2>5, <2>10
  <1> QED
    BY <1>2, <1>3

\* An entry added for a block that the cache does not hold.
LEMMA AppendIs ==
  ASSUME NEW old \in Seq(Entries), Distinct(old), NEW entry \in Entries, ~ Holds(old, entry.block)
  PROVE  /\ Append(old, entry) \in Seq(Entries) /\ Distinct(Append(old, entry))
         /\ Len(Append(old, entry)) = Len(old) + 1
         /\ \A j \in DOMAIN Append(old, entry) :
              \/ Append(old, entry)[j] = entry
              \/ \E i \in DOMAIN old : Append(old, entry)[j] = old[i]
  <1> DEFINE new == Append(old, entry)
  <1>1. Len(old) \in Nat /\ DOMAIN old = 1..Len(old)
    BY LenProperties
  <1>2. /\ new \in Seq(Entries) /\ Len(new) = Len(old) + 1 /\ new[Len(old) + 1] = entry
        /\ \A i \in 1..Len(old) : new[i] = old[i]
    BY AppendProperties
  <1> HIDE DEF new
  <1>3. DOMAIN new = 1..(Len(old) + 1)
    BY <1>2, LenProperties
  <1>4. \A j \in DOMAIN new : j = Len(old) + 1 \/ j \in DOMAIN old
    BY <1>1, <1>3
  <1>5. Distinct(new)
    BY <1>1, <1>2, <1>3, <1>4 DEF Distinct, Holds
  <1>6. \A j \in DOMAIN new : new[j] = entry \/ \E i \in DOMAIN old : new[j] = old[i]
    BY <1>1, <1>2, <1>4
  <1> QED
    BY <1>2, <1>5, <1>6 DEF new

\* Pruned, the cache is down to its limit.
LEMMA PrunedIs ==
  ASSUME cache \in Seq(Entries), Distinct(cache)
  PROVE  /\ PruneCacheIfFull \in Seq(Entries) /\ Distinct(PruneCacheIfFull)
         /\ ComesFrom(PruneCacheIfFull, cache)
         /\ Len(PruneCacheIfFull) <= CONFIG_MAX_NUMBER_OF_CACHED_BLOCKS
  <1> DEFINE limit == CONFIG_MAX_NUMBER_OF_CACHED_BLOCKS
             n == Len(cache) - limit
  <1>1. limit \in Nat /\ Len(cache) \in Nat /\ DOMAIN cache = 1..Len(cache) /\ n \in Int
        /\ \A i \in 1..Len(cache) : cache[i] \in Entries
    BY CacheHasALimit, ElementOfSeq, LenProperties
  <1>2. CASE n <= 0
    <2>1. PruneCacheIfFull = cache
      BY <1>2 DEF PruneCacheIfFull
    <2>2. ComesFrom(cache, cache)
      BY DEF ComesFrom
    <2>3. Len(cache) <= limit
      BY <1>1, <1>2
    <2> QED
      BY <2>1, <2>2, <2>3, Zenon
  <1>3. CASE ~ (n <= 0)
    <2> DEFINE new == SubSeq(cache, n + 1, Len(cache))
    <2>1. PruneCacheIfFull = new
      BY <1>3 DEF PruneCacheIfFull
    <2>2. /\ new \in Seq(Entries) /\ Len(new) = limit
          /\ \A i \in 1..limit : new[i] = cache[n + i]
      <3>1. \A i \in (n + 1)..Len(cache) : cache[i] \in Entries
        BY <1>1, <1>3
      <3>2. n + 1 \in Int /\ Len(cache) \in Int
        BY <1>1
      <3>3. /\ new \in Seq(Entries)
            /\ Len(new) = (IF n + 1 <= Len(cache) THEN Len(cache) - (n + 1) + 1 ELSE 0)
            /\ \A i \in 1..(Len(cache) - (n + 1) + 1) : new[i] = cache[n + 1 + i - 1]
        <4> HIDE DEF n
        <4> QED
          BY <3>1, <3>2, SubSeqProperties
      <3> HIDE DEF new
      <3> QED
        BY <1>1, <1>3, <3>3
    <2> HIDE DEF new
    <2> DEFINE was(i) == n + i
    <2>3. DOMAIN new = 1..limit /\ \A i \in 1..limit : was(i) \in 1..Len(cache)
      BY <1>1, <1>3, <2>2
    <2>4. \A i, j \in 1..limit : i # j => was(i) # was(j)
      BY <1>1
    <2>5. \A i \in 1..limit : new[i] = cache[was(i)]
      BY <2>2
    <2>7. Distinct(new) /\ ComesFrom(new, cache)
      <3> HIDE DEF n, was, limit
      <3>1. Distinct(new)
        BY <1>1, <2>3, <2>4, <2>5 DEF Distinct
      <3>2. ComesFrom(new, cache)
        BY <1>1, <2>3, <2>5 DEF ComesFrom
      <3> QED
        BY <3>1, <3>2
    <2>6. new \in Seq(Entries) /\ Len(new) <= limit
      BY <1>1, <2>2
    <2> QED
      BY <2>1, <2>6, <2>7, Zenon
  <1> QED
    BY <1>1, <1>2, <1>3

(***************************************************************************)
(* The requests, the downloads in flight and the cache.                    *)
(***************************************************************************)
Active(s) == fetch[s].at \in {"read", "info", "decrypt"}
Pending(d, i) == <<d, i>> \in waiting \/ (pc[d] = "reading" /\ <<d, i>> \in todo)
Awaited(s) == \E d \in Readers : \E i \in DOMAIN rows[d] :
                  Pending(d, i) /\ rows[d][i].storageBlock = s
Storing(s) == worker \in {"info", "uncache", "refer"} /\ target = s

Downloading == [at : {"none", "read", "info", "decrypt", "rejected"}, bytes : Seq(Bytes),
                iv : Seq(Bytes)]

ReadingTypes ==
    /\ pc \in [Readers -> {"idle", "reading", "stuck", "failed"}]
    /\ DOMAIN request = Readers /\ rows \in [Readers -> Seq(Rows)]
    /\ DOMAIN got = Readers /\ \A d \in Readers : got[d] \in [DOMAIN rows[d] -> Seq(Bytes)]
    /\ todo \cap waiting = {}
    /\ \A w \in todo \cup waiting :
           \E d \in Readers : \E i \in DOMAIN rows[d] : w = <<d, i>>
    /\ \A d \in Readers : pc[d] = "idle" => rows[d] = <<>>
    /\ fetch \in [StorageBlocks -> Downloading]

\* A storage block is downloaded as long as some part waits for it, and no longer.
FetchesAwaited == \A s \in StorageBlocks : Active(s) <=> WaitingFor(s) # {}

CacheKept ==
    /\ cache \in Seq(Entries) /\ Distinct(cache)
    /\ Len(cache) <= CONFIG_MAX_NUMBER_OF_CACHED_BLOCKS + 1

\* Nobody has read the combined block before it is written.
CombinedNew == source = 0 => ~ Awaited(Combined) /\ ~ Cached(Combined)

ReadingInv == ReadingTypes /\ FetchesAwaited /\ CacheKept /\ CombinedNew

LEMMA ReadingInit == Init => ReadingInv
  <1> SUFFICES ASSUME Init PROVE ReadingInv
    OBVIOUS
  <1>1. ReadingTypes
    <2>1. <<>> \in Seq(Rows) /\ <<>> \in Seq(Bytes) /\ DOMAIN <<>> = {}
      BY EmptySeq
    <2>2. NoFetch \in Downloading
      BY <2>1 DEF NoFetch, Downloading
    <2>3. /\ pc = [d \in Readers |-> "idle"] /\ request = [d \in Readers |-> NoRequest]
          /\ rows = [d \in Readers |-> <<>>] /\ got = [d \in Readers |-> <<>>]
          /\ todo = {} /\ waiting = {} /\ fetch = [s \in StorageBlocks |-> NoFetch]
      BY DEF Init
    <2>4. \A d \in Readers : got[d] \in [DOMAIN rows[d] -> Seq(Bytes)]
      BY <2>1, <2>3
    <2>5. rows \in [Readers -> Seq(Rows)] /\ fetch \in [StorageBlocks -> Downloading]
      BY <2>1, <2>2, <2>3
    <2> QED
      BY <2>3, <2>4, <2>5 DEF ReadingTypes
  <1>2. FetchesAwaited
    BY DEF Init, FetchesAwaited, Active, WaitingFor, NoFetch
  <1>3. cache = <<>> /\ DOMAIN cache = {} /\ Len(cache) = 0
    BY DEF Init
  <1>4. CacheKept
    BY <1>3, EmptySeq, CacheHasALimit DEF CacheKept, Distinct
  <1>5. CombinedNew
    BY <1>3 DEF CombinedNew, Awaited, Pending, Cached, Holds, Init
  <1> QED
    BY <1>1, <1>2, <1>4, <1>5 DEF ReadingInv

\* A row of a request leads to a storage block.
LEMMA PartsIndexed ==
  ASSUME ReadingInv, NEW d \in Readers, NEW i \in DOMAIN rows[d]
  PROVE  /\ rows[d][i] \in Rows /\ rows[d][i].storageBlock \in StorageBlocks
         /\ rows[d] \in Seq(Rows) /\ got[d] \in [DOMAIN rows[d] -> Seq(Bytes)]
  <1>1. rows[d] \in Seq(Rows) /\ got[d] \in [DOMAIN rows[d] -> Seq(Bytes)]
    BY DEF ReadingInv, ReadingTypes
  <1>2. rows[d][i] \in Rows
    BY <1>1, ElementOfSeq, LenProperties
  <1> QED
    BY <1>1, <1>2 DEF Rows

\* The worker begins, serves and ends no request; the cache only loses entries.
LEMMA ReadingWork ==
  ASSUME ReadingInv, StorageInv, Work
  PROVE  ReadingInv'
  <1>1. UNCHANGED <<fetch, reading>>
    BY DEF Work, CombineResidualBlocks, MoveReference, RemoveReferences,
           FreeUnreferencedStorageBlock, StoreFile, UpdateStorageBlockInfo, RemoveFromCache,
           AddBlobBlockStorage
  <1>2. ReadingTypes' /\ FetchesAwaited'
    BY <1>1 DEF ReadingInv, ReadingTypes, FetchesAwaited, Active, WaitingFor, reading
  <1>3. cache' = cache \/ cache' = Without(cache, target)
    BY DEF Work, CombineResidualBlocks, MoveReference, RemoveReferences,
           FreeUnreferencedStorageBlock, StoreFile, UpdateStorageBlockInfo, RemoveFromCache,
           AddBlobBlockStorage
  <1>4. PICK c : c = Without(cache, target)
    OBVIOUS
  <1>5. CacheKept /\ Len(cache) \in Nat
    BY DEF ReadingInv, CacheKept
  <1>6. /\ c \in Seq(Entries) /\ Distinct(c) /\ ComesFrom(c, cache) /\ Len(c) <= Len(cache)
    BY <1>4, <1>5, WithoutIs DEF CacheKept
  <1>7. CacheKept' /\ \A s : Cached(s)' => Cached(s)
    <2>1. CASE cache' = cache
      BY <1>5, <2>1 DEF CacheKept, Distinct, Cached, Holds
    <2>2. CASE cache' = c
      <3>1. Len(c) \in Nat
        BY <1>6
      <3>2. Len(cache') <= CONFIG_MAX_NUMBER_OF_CACHED_BLOCKS + 1
        BY <1>5, <1>6, <2>2, <3>1, CacheHasALimit DEF CacheKept
      <3>3. \A s : Cached(s)' => Cached(s)
        BY <1>6, <2>2 DEF Cached, Holds, ComesFrom
      <3> QED
        BY <1>6, <2>2, <3>2, <3>3 DEF CacheKept, Distinct
    <2> QED
      BY <1>3, <1>4, <2>1, <2>2
  <1>8. source' = 0 => source = 0
    BY DEF Work, CombineResidualBlocks, MoveReference, RemoveReferences,
           FreeUnreferencedStorageBlock, StoreFile, UpdateStorageBlockInfo, RemoveFromCache,
           AddBlobBlockStorage, StorageInv, WorkerSteps, job
  <1>9. \A s : Awaited(s)' <=> Awaited(s)
    BY <1>1 DEF Awaited, Pending, reading
  <1>10. CombinedNew'
    BY <1>7, <1>8, <1>9 DEF ReadingInv, CombinedNew, Combined
  <1> QED
    BY <1>2, <1>7, <1>10 DEF ReadingInv

\* An idle request has no parts.
LEMMA NothingToldIdle ==
  ASSUME ReadingInv, NEW d \in Readers, pc[d] = "idle"
  PROVE  \A i : <<d, i>> \notin todo \cup waiting
  <1>1. rows[d] = <<>> /\ DOMAIN rows[d] = {}
    BY DEF ReadingInv, ReadingTypes
  <1> QED
    BY <1>1 DEF ReadingInv, ReadingTypes

\* A request begins: its parts lead to referenced blocks, so nobody awaits the combined one.
LEMMA ReadingBegin ==
  ASSUME ReadingInv, StorageInv, NEW d \in Readers, NEW r, NEW parts \in Seq(RowsNow),
         Begin(d, r, parts)
  PROVE  ReadingInv'
  <1>1. parts \in Seq(Rows) /\ \A i \in DOMAIN parts : Referenced(parts[i].storageBlock)
    <2>1. RowsNow \subseteq Rows
      BY DEF RowsNow
    <2>2. parts \in Seq(Rows)
      BY <2>1, SeqMonotonic
    <2>3. \A i \in DOMAIN parts : parts[i] \in RowsNow
      BY ElementOfSeq, LenProperties
    <2> QED
      BY <2>2, <2>3 DEF RowsNow
  <1>2. /\ pc[d] = "idle" /\ pc' = [pc EXCEPT ![d] = "reading"]
        /\ request' = [request EXCEPT ![d] = r] /\ rows' = [rows EXCEPT ![d] = parts]
        /\ got' = [got EXCEPT ![d] = [i \in DOMAIN parts |-> <<>>]]
        /\ todo' = todo \cup ({d} \X DOMAIN parts)
        /\ UNCHANGED <<cache, fetch, waiting, source>>
    BY DEF Begin, job
  <1>3. \A i : <<d, i>> \notin todo \cup waiting
    BY <1>2, NothingToldIdle
  <1>4. /\ rows'[d] = parts /\ \A e \in Readers \ {d} : rows'[e] = rows[e] /\ got'[e] = got[e]
        /\ got'[d] = [i \in DOMAIN parts |-> <<>>]
        /\ pc'[d] = "reading" /\ \A e \in Readers \ {d} : pc'[e] = pc[e]
    BY <1>2 DEF ReadingInv, ReadingTypes
  <1>5. ReadingTypes'
    <2>1. /\ pc' \in [Readers -> {"idle", "reading", "stuck", "failed"}]
          /\ DOMAIN request' = Readers /\ DOMAIN got' = Readers
          /\ rows' \in [Readers -> Seq(Rows)] /\ fetch' \in [StorageBlocks -> Downloading]
      BY <1>1, <1>2 DEF ReadingInv, ReadingTypes
    <2>2. \A e \in Readers : got'[e] \in [DOMAIN rows'[e] -> Seq(Bytes)]
      <3>1. <<>> \in Seq(Bytes)
        BY EmptySeq
      <3>2. got'[d] \in [DOMAIN rows'[d] -> Seq(Bytes)]
        BY <1>4, <3>1
      <3> QED
        BY <1>4, <3>2 DEF ReadingInv, ReadingTypes
    <2>3. todo' \cap waiting' = {}
      BY <1>2, <1>3 DEF ReadingInv, ReadingTypes
    <2>4. \A w \in todo' \cup waiting' :
             \E e \in Readers : \E i \in DOMAIN rows'[e] : w = <<e, i>>
      <3> SUFFICES ASSUME NEW w \in todo' \cup waiting'
                   PROVE  \E e \in Readers : \E i \in DOMAIN rows'[e] : w = <<e, i>>
        OBVIOUS
      <3>1. CASE w \in todo \cup waiting
        <4>1. PICK e \in Readers : \E i \in DOMAIN rows[e] : w = <<e, i>>
          BY <3>1 DEF ReadingInv, ReadingTypes
        <4>2. e # d
          BY <1>3, <3>1, <4>1
        <4> QED
          BY <1>4, <4>1, <4>2
      <3>2. CASE w \in {d} \X DOMAIN parts
        BY <1>4, <3>2
      <3> QED
        BY <1>2, <3>1, <3>2
    <2>5. \A e \in Readers : pc'[e] = "idle" => rows'[e] = <<>>
      BY <1>4 DEF ReadingInv, ReadingTypes
    <2> QED
      BY <2>1, <2>2, <2>3, <2>4, <2>5 DEF ReadingTypes
  <1>6. \A w \in waiting : rows'[w[1]] = rows[w[1]]
    <2> SUFFICES ASSUME NEW w \in waiting PROVE rows'[w[1]] = rows[w[1]]
      OBVIOUS
    <2>1. PICK e \in Readers : \E i \in DOMAIN rows[e] : w = <<e, i>>
      BY DEF ReadingInv, ReadingTypes
    <2> QED
      BY <1>3, <1>4, <2>1
  <1>7. FetchesAwaited'
    BY <1>2, <1>6 DEF ReadingInv, FetchesAwaited, Active, WaitingFor
  <1>8. CacheKept'
    BY <1>2 DEF ReadingInv, CacheKept, Distinct
  <1>9. CombinedNew'
    <2> SUFFICES ASSUME source = 0
                 PROVE  ~ Awaited(Combined)' /\ ~ Cached(Combined)'
      BY <1>2 DEF CombinedNew
    <2>1. ~ Awaited(Combined) /\ ~ Cached(Combined) /\ ~ Referenced(Combined)
      BY DEF ReadingInv, CombinedNew, StorageInv, WorkerSteps
    <2>2. ~ Cached(Combined)'
      BY <1>2, <2>1 DEF Cached, Holds, Combined
    <2>3. ASSUME NEW e \in Readers, NEW i \in DOMAIN rows'[e], Pending(e, i)'
          PROVE  rows'[e][i].storageBlock # Combined
      <3>1. CASE e = d
        BY <1>1, <1>4, <2>1, <3>1
      <3>2. CASE e # d
        <4>1. Pending(e, i)
          BY <1>2, <1>4, <2>3, <3>2 DEF Pending
        <4> QED
          BY <1>4, <2>1, <2>3, <3>2, <4>1 DEF Awaited
      <3> QED
        BY <3>1, <3>2
    <2>4. ~ Awaited(Combined)'
      BY <2>3 DEF Awaited, Combined
    <2> QED
      BY <2>2, <2>4
  <1> QED
    BY <1>5, <1>7, <1>8, <1>9 DEF ReadingInv

\* What a request awaits after a step that begins no request, it awaited before.
AwaitedStays == \A s : Awaited(s)' => Awaited(s)

\* A part is served, refused or waits.
LEMMA ReadingPart ==
  ASSUME ReadingInv, NEW d \in Readers, NEW i \in DOMAIN rows[d], DownloadPart(d, i)
  PROVE  ReadingInv' /\ AwaitedStays
  <1> DEFINE s == rows[d][i].storageBlock
  <1>1. /\ rows[d][i] \in Rows /\ s \in StorageBlocks /\ got[d] \in [DOMAIN rows[d] -> Seq(Bytes)]
    BY PartsIndexed
  <1>2. /\ pc[d] = "reading" /\ <<d, i>> \in todo /\ todo' = todo \ {<<d, i>>}
        /\ UNCHANGED <<request, rows, source>>
    BY DEF DownloadPart, job
  <1>3. Pending(d, i) /\ Awaited(s)
    BY <1>2 DEF Pending, Awaited
  <1>4. CacheKept /\ Len(cache) \in Nat /\ Combined \in StorageBlocks
    BY Residuals DEF ReadingInv, CacheKept
  <1>5. CASE Cached(s)
    <2>1. /\ got' = [got EXCEPT ![d][i] = Part(rows[d][i], TryServe(s).bytes)]
          /\ cache' = Append(Without(cache, s), TryServe(s))
          /\ UNCHANGED <<pc, fetch, waiting>>
      BY <1>5 DEF DownloadPart
    <2>2. PICK entry \in Entries : entry = TryServe(s) /\ entry.block = s
                                   /\ \E k \in DOMAIN cache : entry = cache[k]
      <3>1. Place(cache, s) \in DOMAIN cache /\ cache[Place(cache, s)].block = s
        BY <1>5 DEF Cached, Holds, Place
      <3>2. cache[Place(cache, s)] \in Entries
        BY <1>4, <3>1, ElementOfSeq, LenProperties DEF CacheKept
      <3> QED
        BY <3>1, <3>2 DEF TryServe
    <2>3. PICK c \in Seq(Entries) : /\ c = Without(cache, s) /\ Distinct(c) /\ ~ Holds(c, s)
                                    /\ ComesFrom(c, cache) /\ Len(c) = Len(cache) - 1
      BY <1>4, <1>5, WithoutIs DEF CacheKept, Cached
    <2>4. /\ cache' \in Seq(Entries) /\ Distinct(cache') /\ Len(cache') = Len(c) + 1
          /\ \A j \in DOMAIN cache' : cache'[j] = entry \/ \E k \in DOMAIN c : cache'[j] = c[k]
      <3>1. cache' = Append(c, entry)
        BY <2>1, <2>2, <2>3
      <3>2. ~ Holds(c, entry.block)
        BY <2>2, <2>3
      <3> QED
        BY <2>3, <3>1, <3>2, AppendIs
    <2>5. CacheKept' /\ \A x : Cached(x)' => Cached(x)
      <3>1. Len(cache') <= CONFIG_MAX_NUMBER_OF_CACHED_BLOCKS + 1
        BY <1>4, <2>3, <2>4 DEF CacheKept
      <3>2. \A j \in DOMAIN cache' : \E k \in DOMAIN cache : cache'[j] = cache[k]
        BY <2>2, <2>3, <2>4 DEF ComesFrom
      <3>3. \A x : Cached(x)' => Cached(x)
        BY <3>2 DEF Cached, Holds
      <3> QED
        BY <2>4, <3>1, <3>3 DEF CacheKept, Distinct
    <2> DEFINE read == Part(rows[d][i], TryServe(s).bytes)
               parts == [got[d] EXCEPT ![i] = read]
    <2>6. got' = [got EXCEPT ![d] = parts]
      BY <2>1
    <2>7. read \in Seq(Bytes)
      BY <1>1, <2>2, PartIsBytes DEF Entries
    <2>8. parts \in [DOMAIN rows[d] -> Seq(Bytes)]
      BY <1>1, <2>7
    <2> HIDE DEF parts
    <2>9. ReadingTypes'
      BY <1>2, <2>1, <2>6, <2>8 DEF ReadingInv, ReadingTypes
    <2>10. FetchesAwaited' /\ AwaitedStays
      BY <1>2, <2>1 DEF ReadingInv, FetchesAwaited, Active, WaitingFor, AwaitedStays, Awaited,
                        Pending
    <2>11. CombinedNew'
      BY <1>2, <2>5, <2>10 DEF ReadingInv, CombinedNew, AwaitedStays, Combined
    <2> QED
      BY <2>5, <2>9, <2>10, <2>11 DEF ReadingInv
  <1>6. CASE ~ Cached(s) /\ fetch[s].at = "rejected"
    <2>1. pc' = [pc EXCEPT ![d] = Fails(d)] /\ UNCHANGED <<cache, fetch, got, waiting>>
      BY <1>6 DEF DownloadPart
    <2>2. Fails(d) \in {"stuck", "failed"}
      BY DEF Fails
    <2>3. ReadingTypes'
      BY <1>2, <2>1, <2>2 DEF ReadingInv, ReadingTypes
    <2>4. FetchesAwaited' /\ AwaitedStays
      BY <1>2, <2>1, <2>2 DEF ReadingInv, ReadingTypes, FetchesAwaited, Active, WaitingFor,
                               AwaitedStays, Awaited, Pending
    <2>5. CacheKept' /\ CombinedNew'
      BY <1>2, <2>1, <2>4 DEF ReadingInv, CacheKept, Distinct, CombinedNew, AwaitedStays,
                              Cached, Holds, Combined
    <2> QED
      BY <2>3, <2>4, <2>5 DEF ReadingInv
  <1>7. CASE ~ Cached(s) /\ fetch[s].at # "rejected"
    <2>1. /\ waiting' = waiting \cup {<<d, i>>}
          /\ fetch' = [fetch EXCEPT ![s].at = IF @ = "none" THEN "read" ELSE @]
          /\ UNCHANGED <<pc, cache, got>>
      BY <1>7 DEF DownloadPart
    <2>2. /\ fetch' \in [StorageBlocks -> Downloading]
          /\ fetch'[s].at \in {"read", "info", "decrypt"}
          /\ \A x \in StorageBlocks \ {s} : fetch'[x] = fetch[x]
      <3>1. fetch \in [StorageBlocks -> Downloading] /\ fetch[s] \in Downloading
        BY <1>1 DEF ReadingInv, ReadingTypes
      <3>2. PICK next : next = IF fetch[s].at = "none" THEN "read" ELSE fetch[s].at
        OBVIOUS
      <3>3. next \in {"read", "info", "decrypt"}
        BY <1>7, <3>1, <3>2 DEF Downloading
      <3>4. fetch' = [fetch EXCEPT ![s] = [fetch[s] EXCEPT !.at = next]]
        BY <2>1, <3>2
      <3>5. [fetch[s] EXCEPT !.at = next] \in Downloading /\ [fetch[s] EXCEPT !.at = next].at = next
        BY <3>1, <3>3 DEF Downloading
      <3> HIDE DEF s
      <3> QED
        BY <1>1, <3>1, <3>3, <3>4, <3>5
    <2>3. ReadingTypes'
      BY <1>2, <2>1, <2>2 DEF ReadingInv, ReadingTypes
    <2>4. AwaitedStays
      BY <1>2, <2>1 DEF ReadingInv, ReadingTypes, AwaitedStays, Awaited, Pending
    <2>5. FetchesAwaited'
      <3> SUFFICES ASSUME NEW x \in StorageBlocks
                   PROVE  Active(x)' <=> WaitingFor(x)' # {}
        BY DEF FetchesAwaited
      <3>1. CASE x = s
        BY <1>2, <2>1, <2>2, <3>1 DEF WaitingFor, Active
      <3>2. CASE x # s
        BY <1>2, <2>1, <2>2, <3>2 DEF WaitingFor, Active, ReadingInv, FetchesAwaited
      <3> QED
        BY <3>1, <3>2
    <2>6. CacheKept' /\ CombinedNew'
      BY <1>2, <2>1, <2>4 DEF ReadingInv, CacheKept, Distinct, CombinedNew, AwaitedStays,
                              Cached, Holds, Combined
    <2> QED
      BY <2>3, <2>4, <2>5, <2>6 DEF ReadingInv
  <1> QED
    BY <1>5, <1>6, <1>7

\* What is being downloaded is awaited.
LEMMA WaitingIsAwaited ==
  ASSUME ReadingInv, NEW s \in StorageBlocks, Active(s)
  PROVE  Awaited(s)
  <1>1. PICK w \in waiting : rows[w[1]][w[2]].storageBlock = s
    BY DEF ReadingInv, FetchesAwaited, WaitingFor
  <1>2. PICK d \in Readers : \E i \in DOMAIN rows[d] : w = <<d, i>>
    BY DEF ReadingInv, ReadingTypes
  <1> QED
    BY <1>1, <1>2 DEF Awaited, Pending

\* A download fails, for all that wait for it.
LEMMA ReadingReject ==
  ASSUME ReadingInv, NEW s \in StorageBlocks, Reject(s)
  PROVE  ReadingInv' /\ AwaitedStays
  <1>1. /\ fetch' = [fetch EXCEPT ![s] = [NoFetch EXCEPT !.at = "rejected"]]
        /\ pc' = [d \in Readers |-> IF \E w \in WaitingFor(s) : w[1] = d THEN Fails(d) ELSE pc[d]]
        /\ waiting' = waiting \ WaitingFor(s)
        /\ UNCHANGED <<cache, request, rows, got, todo, source>>
    BY DEF Reject, job
  <1>2. \A d \in Readers : Fails(d) \in {"stuck", "failed"}
    BY DEF Fails
  <1>3. \A d \in Readers : pc'[d] = pc[d] \/ pc'[d] \in {"stuck", "failed"}
    BY <1>1, <1>2
  <1>4. fetch' \in [StorageBlocks -> Downloading] /\ fetch'[s].at = "rejected"
        /\ \A x \in StorageBlocks \ {s} : fetch'[x] = fetch[x]
    <2>1. <<>> \in Seq(Bytes)
      BY EmptySeq
    <2> QED
      BY <1>1, <2>1 DEF ReadingInv, ReadingTypes, NoFetch, Downloading
  <1>5. ReadingTypes'
    <2>1. pc' \in [Readers -> {"idle", "reading", "stuck", "failed"}]
      BY <1>1, <1>2 DEF ReadingInv, ReadingTypes
    <2>2. \A d \in Readers : pc'[d] = "idle" => rows'[d] = <<>>
      BY <1>1, <1>3 DEF ReadingInv, ReadingTypes
    <2> QED
      BY <1>1, <1>4, <2>1, <2>2 DEF ReadingInv, ReadingTypes
  <1>6. AwaitedStays
    <2>1. \A d \in Readers : \A i : Pending(d, i)' => Pending(d, i)
      BY <1>1, <1>3 DEF Pending
    <2> QED
      BY <1>1, <2>1 DEF AwaitedStays, Awaited
  <1>7. FetchesAwaited'
    <2> SUFFICES ASSUME NEW x \in StorageBlocks
                 PROVE  Active(x)' <=> WaitingFor(x)' # {}
      BY DEF FetchesAwaited
    <2>1. CASE x = s
      BY <1>1, <1>4, <2>1 DEF WaitingFor, Active
    <2>2. CASE x # s
      <3>1. WaitingFor(x)' = WaitingFor(x)
        BY <1>1, <2>2 DEF WaitingFor
      <3> QED
        BY <1>4, <2>2, <3>1 DEF Active, ReadingInv, FetchesAwaited
    <2> QED
      BY <2>1, <2>2
  <1>8. CacheKept' /\ CombinedNew'
    BY <1>1, <1>6 DEF ReadingInv, CacheKept, Distinct, CombinedNew, AwaitedStays, Cached, Holds,
                      Combined
  <1> QED
    BY <1>5, <1>6, <1>7, <1>8 DEF ReadingInv

\* A download goes on: its next step is taken, and the rest stays.
GoesOn(s, next) ==
    /\ Active(s) /\ next \in Downloading /\ next.at \in {"info", "decrypt"}
    /\ \/ next.bytes = file[s]
       \/ fetch[s].at = "info" /\ next.bytes = fetch[s].bytes
    /\ fetch' = [fetch EXCEPT ![s] = next]
    /\ UNCHANGED <<storage, cache, reading, job, history>>

LEMMA ReadingGoesOn ==
  ASSUME ReadingInv, NEW s \in StorageBlocks, NEW next, GoesOn(s, next)
  PROVE  ReadingInv' /\ AwaitedStays
  <1>1. /\ fetch' \in [StorageBlocks -> Downloading] /\ fetch'[s].at \in {"read", "info", "decrypt"}
        /\ \A x \in StorageBlocks \ {s} : fetch'[x] = fetch[x]
    BY DEF GoesOn, ReadingInv, ReadingTypes
  <1>2. UNCHANGED <<cache, reading, source>>
    BY DEF GoesOn, job
  <1>3. ReadingTypes' /\ AwaitedStays
    BY <1>1, <1>2 DEF ReadingInv, ReadingTypes, reading, AwaitedStays, Awaited, Pending
  <1>4. FetchesAwaited'
    <2> SUFFICES ASSUME NEW x \in StorageBlocks
                 PROVE  Active(x)' <=> WaitingFor(x)' # {}
      BY DEF FetchesAwaited
    <2>1. WaitingFor(x)' = WaitingFor(x)
      BY <1>2 DEF WaitingFor, reading
    <2>2. Active(x)' <=> Active(x)
      <3>1. CASE x = s
        BY <1>1, <3>1 DEF Active, GoesOn
      <3>2. CASE x # s
        BY <1>1, <3>2 DEF Active
      <3> QED
        BY <3>1, <3>2
    <2> QED
      BY <2>1, <2>2 DEF ReadingInv, FetchesAwaited
  <1>5. CacheKept' /\ CombinedNew'
    BY <1>2, <1>3 DEF ReadingInv, CacheKept, Distinct, CombinedNew, AwaitedStays, Cached, Holds,
                      Combined
  <1> QED
    BY <1>3, <1>4, <1>5 DEF ReadingInv

\* A download ends: its bytes go to the cache and to all that wait for them.
Ends(s) ==
    /\ fetch[s].at = "decrypt"
    /\ AddToCache(s, fetch[s].bytes)
    /\ got' = [d \in Readers |-> [i \in DOMAIN got[d] |->
                IF <<d, i>> \in WaitingFor(s) THEN Part(rows[d][i], fetch[s].bytes)
                                              ELSE got[d][i]]]
    /\ waiting' = waiting \ WaitingFor(s)
    /\ fetch' = [fetch EXCEPT ![s] = NoFetch]
    /\ UNCHANGED <<storage, pc, request, rows, todo, job, history>>

\* The entry of a storage block just downloaded comes to the cache, the rest was there.
LEMMA CacheAfter ==
  ASSUME ReadingInv, NEW s \in StorageBlocks, Ends(s)
  PROVE  /\ CacheKept'
         /\ \A j \in DOMAIN cache' : \/ cache'[j] = [block |-> s, bytes |-> fetch[s].bytes]
                                     \/ \E k \in DOMAIN cache : cache'[j] = cache[k]
  <1>1. CacheKept
    BY DEF ReadingInv
  <1>2. PICK pruned \in Seq(Entries) :
               /\ pruned = PruneCacheIfFull /\ Distinct(pruned) /\ ComesFrom(pruned, cache)
               /\ Len(pruned) <= CONFIG_MAX_NUMBER_OF_CACHED_BLOCKS
    BY <1>1, PrunedIs DEF CacheKept
  <1>3. PICK c \in Seq(Entries) :
               /\ c = Without(pruned, s) /\ Distinct(c) /\ ~ Holds(c, s) /\ ComesFrom(c, pruned)
               /\ Len(c) <= Len(pruned)
    BY <1>2, WithoutIs
  <1>4. PICK entry \in Entries :
               entry = [block |-> s, bytes |-> fetch[s].bytes] /\ entry.block = s
    <2>1. fetch[s] \in Downloading
      BY DEF ReadingInv, ReadingTypes
    <2>2. PICK bytes \in Seq(Bytes) : bytes = fetch[s].bytes
      BY <2>1 DEF Downloading
    <2>3. [block |-> s, bytes |-> bytes] \in Entries
      BY DEF Entries
    <2> QED
      BY <2>2, <2>3
  <1>5. cache' = Append(c, entry)
    BY <1>2, <1>3, <1>4 DEF Ends, AddToCache
  <1>6. /\ cache' \in Seq(Entries) /\ Distinct(cache') /\ Len(cache') = Len(c) + 1
        /\ \A j \in DOMAIN cache' : cache'[j] = entry \/ \E k \in DOMAIN c : cache'[j] = c[k]
    <2>1. ~ Holds(c, entry.block)
      BY <1>3, <1>4
    <2> QED
      BY <1>3, <1>5, <2>1, AppendIs
  <1>7. Len(cache') <= CONFIG_MAX_NUMBER_OF_CACHED_BLOCKS + 1
    <2>1. Len(c) \in Nat /\ Len(pruned) \in Nat
      BY <1>2, <1>3
    <2> QED
      BY <1>2, <1>3, <1>6, <2>1, CacheHasALimit
  <1>8. \A j \in DOMAIN cache' : cache'[j] = entry \/ \E k \in DOMAIN cache : cache'[j] = cache[k]
    BY <1>2, <1>3, <1>6 DEF ComesFrom
  <1> QED
    BY <1>4, <1>6, <1>7, <1>8 DEF CacheKept, Distinct

\* A download ends: nothing waits for it any more.
LEMMA ReadingEnds ==
  ASSUME ReadingInv, NEW s \in StorageBlocks, Ends(s)
  PROVE  ReadingInv' /\ AwaitedStays
  <1>1. /\ fetch[s].at = "decrypt" /\ waiting' = waiting \ WaitingFor(s)
        /\ got' = [d \in Readers |-> [i \in DOMAIN got[d] |->
                    IF <<d, i>> \in WaitingFor(s) THEN Part(rows[d][i], fetch[s].bytes)
                                                  ELSE got[d][i]]]
        /\ fetch' = [fetch EXCEPT ![s] = NoFetch]
        /\ UNCHANGED <<pc, request, rows, todo, source>>
    BY DEF Ends, job
  <1>2. /\ CacheKept'
        /\ \A j \in DOMAIN cache' : \/ cache'[j] = [block |-> s, bytes |-> fetch[s].bytes]
                                    \/ \E k \in DOMAIN cache : cache'[j] = cache[k]
    BY CacheAfter
  <1>3. fetch' \in [StorageBlocks -> Downloading] /\ fetch'[s].at = "none"
        /\ \A x \in StorageBlocks \ {s} : fetch'[x] = fetch[x]
    <2>1. <<>> \in Seq(Bytes)
      BY EmptySeq
    <2> QED
      BY <1>1, <2>1 DEF ReadingInv, ReadingTypes, NoFetch, Downloading
  <1>4. ASSUME NEW d \in Readers PROVE got'[d] \in [DOMAIN rows[d] -> Seq(Bytes)]
    <2>1. PICK g : g = got[d] /\ g \in [DOMAIN rows[d] -> Seq(Bytes)]
      BY DEF ReadingInv, ReadingTypes
    <2>2. got'[d] = [i \in DOMAIN rows[d] |->
                       IF <<d, i>> \in WaitingFor(s) THEN Part(rows[d][i], fetch[s].bytes)
                                                     ELSE g[i]]
      BY <1>1, <2>1
    <2>3. fetch[s].bytes \in Seq(Bytes)
      BY DEF ReadingInv, ReadingTypes, Downloading
    <2>4. \A i \in DOMAIN rows[d] : Part(rows[d][i], fetch[s].bytes) \in Seq(Bytes)
      BY <2>3, PartsIndexed, PartIsBytes
    <2> QED
      BY <2>1, <2>2, <2>4
  <1>5. ReadingTypes'
    <2>1. DOMAIN got' = Readers
      BY <1>1
    <2> QED
      BY <1>1, <1>3, <1>4, <2>1 DEF ReadingInv, ReadingTypes
  <1>6. AwaitedStays
    BY <1>1 DEF AwaitedStays, Awaited, Pending
  <1>7. FetchesAwaited'
    <2> SUFFICES ASSUME NEW x \in StorageBlocks
                 PROVE  Active(x)' <=> WaitingFor(x)' # {}
      BY DEF FetchesAwaited
    <2>1. CASE x = s
      BY <1>1, <1>3, <2>1 DEF WaitingFor, Active
    <2>2. CASE x # s
      <3>1. WaitingFor(x)' = WaitingFor(x)
        BY <1>1, <2>2 DEF WaitingFor
      <3> QED
        BY <1>3, <2>2, <3>1 DEF Active, ReadingInv, FetchesAwaited
    <2> QED
      BY <2>1, <2>2
  <1>8. CombinedNew'
    <2>1. Awaited(s)
      BY <1>1, WaitingIsAwaited DEF Active
    <2>2. source = 0 => ~ Cached(Combined)'
      BY <1>2, <2>1 DEF ReadingInv, CombinedNew, Cached, Holds, Combined
    <2>3. source = 0 => ~ Awaited(Combined)'
      BY <1>6 DEF ReadingInv, CombinedNew, AwaitedStays, Combined
    <2>4. source' = source
      BY <1>1
    <2> QED
      BY <2>2, <2>3, <2>4 DEF CombinedNew
  <1> QED
    BY <1>2, <1>5, <1>6, <1>7, <1>8 DEF ReadingInv

\* The three things that become of a download in a step.
LEMMA FetchSteps ==
  ASSUME StorageInv, ReadingInv, NEW s \in StorageBlocks, Fetch(s) \/ ReadFails(s)
  PROVE  Active(s) /\ (Reject(s) \/ Ends(s) \/ \E next : GoesOn(s, next))
  <1>0. fetch[s] \in Downloading /\ file[s] \in Seq(Bytes) /\ info[s] \in Seq(Bytes)
        /\ <<>> \in Seq(Bytes)
    BY EmptySeq DEF StorageInv, StorageTypes, ReadingInv, ReadingTypes
  <1>1. CASE ReadFails(s)
    BY <1>1 DEF ReadFails, Active
  <1>2. CASE DownloadEncryptedStorageBlock(s) /\ file[s] = <<>>
    BY <1>2 DEF DownloadEncryptedStorageBlock, Active
  <1>3. CASE DownloadEncryptedStorageBlock(s) /\ file[s] # <<>>
    <2>1. PICK next : next = [at |-> "info", bytes |-> file[s], iv |-> <<>>]
      OBVIOUS
    <2>2. next \in Downloading
      BY <1>0, <2>1 DEF Downloading
    <2>3. GoesOn(s, next)
      BY <1>3, <2>1, <2>2 DEF DownloadEncryptedStorageBlock, GoesOn, Active
    <2> QED
      BY <2>3 DEF GoesOn
  <1>4. CASE QueryEncryptionInfo(s)
    <2>1. PICK next : next = [[fetch[s] EXCEPT !.at = "decrypt"] EXCEPT !.iv = info[s]]
      OBVIOUS
    <2>2. next \in Downloading /\ next.at = "decrypt" /\ next.bytes = fetch[s].bytes
      BY <1>0, <2>1 DEF Downloading
    <2>3. fetch' = [fetch EXCEPT ![s] = next]
      BY <1>4, <2>1 DEF QueryEncryptionInfo, ReadingInv, ReadingTypes, Downloading
    <2>4. GoesOn(s, next)
      BY <1>4, <2>2, <2>3 DEF QueryEncryptionInfo, GoesOn, Active
    <2> QED
      BY <2>4 DEF GoesOn
  <1>5. CASE Decrypt(s) /\ fetch[s].bytes # fetch[s].iv
    BY <1>5 DEF Decrypt, Active
  <1>6. CASE Decrypt(s) /\ fetch[s].bytes = fetch[s].iv
    BY <1>6 DEF Decrypt, Ends, Active
  <1> QED
    BY <1>1, <1>2, <1>3, <1>4, <1>5, <1>6 DEF Fetch

\* A request that begins: its rows lead to what it asks for, unless it read
\* none or two for one block.
BeginsRight(d, r, parts) ==
    /\ parts \in Seq(RowsNow) /\ Begin(d, r, parts)
    /\ d \notin misread' => FlattenSeq(Mapped(Content, parts)) = Wanted(d)'

LEMMA WholeBegins ==
  ASSUME StorageInv, ReadingInv, NEW d \in Streams, NEW blob \in Blobs, DownloadBlob(d, blob)
  PROVE  d \in Readers /\ \E r, parts : BeginsRight(d, r, parts)
  <1>1. d \in Readers
    BY DEF Readers
  <1>2. PICK r : r = [blob |-> blob, range |-> <<0, Open>>, stream |-> TRUE]
    OBVIOUS
  <1>3. PICK parts \in Seq(RowsNow) : parts = StorageInfo(blob)
    BY StorageInfoRows
  <1>4. Begin(d, r, parts)
    BY <1>2, <1>3 DEF DownloadBlob
  <1>5. ASSUME d \notin misread' PROVE FlattenSeq(Mapped(Content, parts)) = Wanted(d)'
    <2>1. OneReferenceEach(blob)
      BY <1>2, <1>4, <1>5 DEF Begin, OneReferenceEach
    <2>2. FlattenSeq(Mapped(Content, parts)) = BlobBytes(blob)
      BY <1>3, <1>4, <2>1, WholeContent
    <2>3. request'[d] = r
      BY <1>1, <1>4 DEF Begin, ReadingInv, ReadingTypes
    <2>4. Wanted(d)' = BlobBytes(blob)
      BY <1>2, <2>3 DEF Wanted, BlobBytes, Joined, BlockBytes
    <2> QED
      BY <2>2, <2>4
  <1> QED
    BY <1>1, <1>4, <1>5 DEF BeginsRight

LEMMA SliceBegins ==
  ASSUME StorageInv, ReadingInv, NEW d \in Slices, NEW blob \in Blobs, NEW range \in Ranges,
         DownloadBlobSlice(d, blob, range)
  PROVE  d \in Readers /\ \E r, parts : BeginsRight(d, r, parts)
  <1>1. d \in Readers
    BY DEF Readers
  <1>2. PICK r : r = [blob |-> blob, range |-> range, stream |-> FALSE]
    OBVIOUS
  <1>3. PICK parts \in Seq(RowsNow) : parts = Overlaps(blob, range)
    BY OverlapsRows
  <1>4. Begin(d, r, parts)
    BY <1>2, <1>3 DEF DownloadBlobSlice
  <1>5. ASSUME d \notin misread' PROVE FlattenSeq(Mapped(Content, parts)) = Wanted(d)'
    <2>1. OneReferenceEach(blob)
      BY <1>2, <1>4, <1>5 DEF Begin, OneReferenceEach
    <2>2. FlattenSeq(Mapped(Content, parts))
            = SubSeq(BlobBytes(blob), range[1] + 1, Least(RangeEnd(range), TotalSize(blob)))
      BY <1>3, <1>4, <2>1, SliceContent
    <2>3. request'[d] = r
      BY <1>1, <1>4 DEF Begin, ReadingInv, ReadingTypes
    <2>4. Wanted(d)' = SubSeq(BlobBytes(blob), range[1] + 1,
                              Least(RangeEnd(range), TotalSize(blob)))
      <3>1. /\ request'[d].blob = blob /\ request'[d].range = range
            /\ request'[d].stream = FALSE
        BY <1>2, <2>3
      <3> QED
        BY <3>1, Zenon DEF Wanted, RangeEnd
    <2> QED
      BY <2>2, <2>4
  <1> QED
    BY <1>1, <1>4, <1>5 DEF BeginsRight

LEMMA ReadingNext ==
  ASSUME StorageInv, ReadingInv, [Next]_vars
  PROVE  ReadingInv'
  <1>1. CASE \E d \in Streams, blob \in Blobs : DownloadBlob(d, blob)
    BY <1>1, WholeBegins, ReadingBegin DEF BeginsRight
  <1>2. CASE \E d \in Slices, blob \in Blobs, range \in Ranges : DownloadBlobSlice(d, blob, range)
    BY <1>2, SliceBegins, ReadingBegin DEF BeginsRight
  <1>3. CASE \E d \in Readers : \E i \in DOMAIN rows[d] : DownloadPart(d, i)
    BY <1>3, ReadingPart
  <1>4. CASE \E s \in StorageBlocks : Fetch(s) \/ ReadFails(s)
    BY <1>4, FetchSteps, ReadingReject, ReadingGoesOn, ReadingEnds
  <1>5. CASE Work
    BY <1>5, ReadingWork
  <1>6. CASE UNCHANGED vars
    BY <1>6 DEF vars, reading, job, ReadingInv, ReadingTypes, FetchesAwaited, Active, WaitingFor,
                CacheKept, Distinct, CombinedNew, Awaited, Pending, Cached, Holds, Combined
  <1> QED
    BY <1>1, <1>2, <1>3, <1>4, <1>5, <1>6 DEF Next

(***************************************************************************)
(* Whoever reads, reads what the storage blocks hold, as long as nobody    *)
(* lost a block that he had still to read.                                 *)
(***************************************************************************)
Current(entry) == \/ entry.bytes = file[entry.block] \/ entry.block \in freed
                  \/ worker \in {"info", "uncache"} /\ target = entry.block

Fresh ==
    /\ \A s \in StorageBlocks : Awaited(s) => s \notin freed /\ ~ Storing(s)
    /\ \A s \in StorageBlocks :
          fetch[s].at \in {"info", "decrypt"} => fetch[s].bytes = file[s]
    /\ \A i \in DOMAIN cache : Current(cache[i])

FreshInv == overtaken = {} => Fresh

\* What a part is, or will be.
Answer(d, i) == IF Read(d, i) THEN got[d][i]
                ELSE Part(rows[d][i], file[rows[d][i].storageBlock])
Answers(d) == [i \in DOMAIN rows[d] |-> Answer(d, i)]

AnswersLead ==
    overtaken = {} =>
        \A d \in Readers \ misread : pc[d] = "reading" => FlattenSeq(Answers(d)) = Wanted(d)

\* Referenced blocks are neither free nor being written.
LEMMA ReferencedIsFresh ==
  ASSUME StorageInv, NEW s, Referenced(s)
  PROVE  s \notin freed /\ ~ Storing(s)
  BY DEF StorageInv, ReferencesLead, StoringSteps, Referenced, Storing

\* A part that is served from the cache moves the entry to its end.
LEMMA PartCaches ==
  ASSUME ReadingInv, NEW d \in Readers, NEW i \in DOMAIN rows[d], DownloadPart(d, i)
  PROVE  \A j \in DOMAIN cache' : \E k \in DOMAIN cache : cache'[j] = cache[k]
  <1> DEFINE s == rows[d][i].storageBlock
  <1>1. CASE Cached(s)
    <2>1. cache' = Append(Without(cache, s), TryServe(s))
      BY <1>1 DEF DownloadPart
    <2>2. PICK c \in Seq(Entries) : c = Without(cache, s) /\ ComesFrom(c, cache)
      BY WithoutIs DEF ReadingInv, CacheKept
    <2>3. \E k \in DOMAIN cache : TryServe(s) = cache[k]
      BY <1>1 DEF Cached, Holds, TryServe, Place
    <2>4. Len(c) \in Nat /\ DOMAIN c = 1..Len(c)
      BY <2>2, LenProperties
    <2>5. \A j \in DOMAIN cache' : cache'[j] = TryServe(s) \/ \E k \in DOMAIN c : cache'[j] = c[k]
      <3>1. PICK entry : entry = TryServe(s) /\ cache' = Append(c, entry)
        BY <2>1, <2>2
      <3> QED
        BY <2>2, <2>4, <3>1
    <2> HIDE DEF s
    <2> QED
      BY <2>2, <2>3, <2>5 DEF ComesFrom
  <1>2. CASE ~ Cached(s)
    BY <1>2 DEF DownloadPart
  <1> QED
    BY <1>1, <1>2

\* A reader's step keeps what is read current.
LEMMA FreshReader ==
  ASSUME StorageInv, Fresh, UNCHANGED <<storage, job>>,
         \A s \in StorageBlocks : Awaited(s)' => Awaited(s) \/ Referenced(s),
         \A s \in StorageBlocks : fetch'[s].at \in {"info", "decrypt"} =>
             \/ fetch'[s].bytes = file[s]
             \/ fetch[s].at \in {"info", "decrypt"} /\ fetch'[s].bytes = fetch[s].bytes,
         \A j \in DOMAIN cache' :
             \/ \E k \in DOMAIN cache : cache'[j] = cache[k]
             \/ \E s \in StorageBlocks : /\ fetch[s].at = "decrypt"
                                         /\ cache'[j] = [block |-> s, bytes |-> fetch[s].bytes]
  PROVE  Fresh'
  <1>1. UNCHANGED <<file, freed, worker, target>>
    BY DEF storage, job
  <1>2. \A s \in StorageBlocks : Awaited(s)' => s \notin freed' /\ ~ Storing(s)'
    BY <1>1, ReferencedIsFresh DEF Fresh, Storing
  <1>3. \A s \in StorageBlocks :
           fetch'[s].at \in {"info", "decrypt"} => fetch'[s].bytes = file'[s]
    BY <1>1 DEF Fresh
  <1>4. ASSUME NEW j \in DOMAIN cache' PROVE Current(cache[j])'
    <2>1. PICK entry : entry = cache'[j]
      OBVIOUS
    <2>2. Current(entry)
      <3>1. CASE \E k \in DOMAIN cache : cache'[j] = cache[k]
        BY <2>1, <3>1 DEF Fresh
      <3>2. CASE \E s \in StorageBlocks : /\ fetch[s].at = "decrypt"
                                          /\ cache'[j] = [block |-> s, bytes |-> fetch[s].bytes]
        BY <2>1, <3>2 DEF Fresh, Current
      <3> QED
        BY <3>1, <3>2
    <2> QED
      BY <1>1, <2>1, <2>2 DEF Current
  <1> QED
    BY <1>2, <1>3, <1>4 DEF Fresh

LEMMA FreshReaders ==
  ASSUME StorageInv, ReadingInv, FreshInv, ReaderStep
  PROVE  FreshInv'
  <1>1. overtaken' = overtaken
    BY DEF ReaderStep, DownloadBlob, DownloadBlobSlice, Begin, DownloadPart, Fetch, ReadFails,
           Reject, DownloadEncryptedStorageBlock, QueryEncryptionInfo, Decrypt, history
  <1> SUFFICES ASSUME Fresh PROVE Fresh'
    BY <1>1 DEF FreshInv
  <1>2. UNCHANGED <<storage, job>>
    BY ReadersLeaveStorage
  <1>3. ASSUME NEW d \in Readers, NEW r, NEW parts, BeginsRight(d, r, parts)
        PROVE  Fresh'
    <2>1. parts \in Seq(RowsNow) /\ Begin(d, r, parts)
      BY <1>3 DEF BeginsRight
    <2>2. \A i \in DOMAIN parts : Referenced(parts[i].storageBlock)
      <3>1. \A i \in DOMAIN parts : parts[i] \in RowsNow
        BY <2>1, ElementOfSeq, LenProperties
      <3> QED
        BY <3>1 DEF RowsNow
    <2>3. /\ rows' = [rows EXCEPT ![d] = parts] /\ pc' = [pc EXCEPT ![d] = "reading"]
          /\ todo' = todo \cup ({d} \X DOMAIN parts) /\ UNCHANGED <<cache, fetch, waiting>>
      BY <2>1 DEF Begin
    <2>4. ASSUME NEW s \in StorageBlocks, Awaited(s)' PROVE Awaited(s) \/ Referenced(s)
      <3>0. PICK e \in Readers : \E i \in DOMAIN rows'[e] :
                   Pending(e, i)' /\ rows'[e][i].storageBlock = s
        BY <2>4 DEF Awaited
      <3>1. PICK i \in DOMAIN rows'[e] : Pending(e, i)' /\ rows'[e][i].storageBlock = s
        BY <3>0
      <3>2. CASE e = d
        BY <2>2, <2>3, <3>1, <3>2 DEF ReadingInv, ReadingTypes
      <3>3. CASE e # d
        <4>1. rows'[e] = rows[e] /\ Pending(e, i)
          BY <2>3, <3>1, <3>3 DEF ReadingInv, ReadingTypes, Pending
        <4> QED
          BY <3>1, <4>1 DEF Awaited
      <3> QED
        BY <3>2, <3>3
    <2>5. \A s \in StorageBlocks : fetch'[s].at \in {"info", "decrypt"} =>
             \/ fetch'[s].bytes = file[s]
             \/ fetch[s].at \in {"info", "decrypt"} /\ fetch'[s].bytes = fetch[s].bytes
      BY <2>3
    <2>6. \A j \in DOMAIN cache' : \E k \in DOMAIN cache : cache'[j] = cache[k]
      BY <2>3
    <2> QED
      BY <1>2, <2>4, <2>5, <2>6, FreshReader
  <1>4. ASSUME NEW d \in Readers, NEW i \in DOMAIN rows[d], DownloadPart(d, i)
        PROVE  Fresh'
    <2>1. AwaitedStays
      BY <1>4, ReadingPart
    <2>2. \A s \in StorageBlocks : fetch'[s].at \in {"info", "decrypt"} =>
             fetch[s].at \in {"info", "decrypt"} /\ fetch'[s].bytes = fetch[s].bytes
      <3>1. PICK s \in StorageBlocks : s = rows[d][i].storageBlock
        BY PartsIndexed
      <3>2. \/ fetch' = fetch
            \/ fetch' = [fetch EXCEPT ![s].at = IF @ = "none" THEN "read" ELSE @]
        BY <1>4, <3>1 DEF DownloadPart
      <3>3. /\ \A x \in StorageBlocks : fetch[x] \in Downloading
            /\ fetch \in [StorageBlocks -> Downloading]
        BY DEF ReadingInv, ReadingTypes
      <3>4. CASE fetch' = fetch
        BY <3>4
      <3>5. CASE fetch' = [fetch EXCEPT ![s].at = IF @ = "none" THEN "read" ELSE @]
        <4>1. PICK next : next = IF fetch[s].at = "none" THEN "read" ELSE fetch[s].at
          OBVIOUS
        <4>2. PICK after : after = [fetch[s] EXCEPT !.at = next]
          OBVIOUS
        <4>3. fetch' = [fetch EXCEPT ![s] = after]
          BY <3>5, <4>1, <4>2
        <4>4. /\ after.bytes = fetch[s].bytes
              /\ after.at \in {"info", "decrypt"} => fetch[s].at \in {"info", "decrypt"}
          BY <3>3, <4>1, <4>2 DEF Downloading
        <4> QED
          BY <3>3, <4>3, <4>4
      <3> QED
        BY <3>2, <3>4, <3>5
    <2>3. \A j \in DOMAIN cache' : \E k \in DOMAIN cache : cache'[j] = cache[k]
      BY <1>4, PartCaches
    <2> QED
      BY <1>2, <2>1, <2>2, <2>3, FreshReader DEF AwaitedStays
  <1>5. ASSUME NEW s \in StorageBlocks, Reject(s) PROVE Fresh'
    <2>1. AwaitedStays
      BY <1>5, ReadingReject
    <2>2. \A x \in StorageBlocks : fetch'[x].at \in {"info", "decrypt"} => fetch'[x] = fetch[x]
      BY <1>5 DEF Reject, NoFetch, ReadingInv, ReadingTypes
    <2>3. cache' = cache
      BY <1>5 DEF Reject
    <2> QED
      BY <1>2, <2>1, <2>2, <2>3, FreshReader DEF AwaitedStays
  <1>6. ASSUME NEW s \in StorageBlocks, NEW next, GoesOn(s, next) PROVE Fresh'
    <2>1. AwaitedStays
      BY <1>6, ReadingGoesOn
    <2>2. \A x \in StorageBlocks : fetch'[x].at \in {"info", "decrypt"} =>
             \/ fetch'[x].bytes = file[x]
             \/ fetch[x].at \in {"info", "decrypt"} /\ fetch'[x].bytes = fetch[x].bytes
      BY <1>6 DEF GoesOn, ReadingInv, ReadingTypes
    <2>3. cache' = cache
      BY <1>6 DEF GoesOn
    <2> QED
      BY <1>2, <2>1, <2>2, <2>3, FreshReader DEF AwaitedStays
  <1>7. ASSUME NEW s \in StorageBlocks, Ends(s) PROVE Fresh'
    <2>1. AwaitedStays
      BY <1>7, ReadingEnds
    <2>2. \A x \in StorageBlocks : fetch'[x].at \in {"info", "decrypt"} => fetch'[x] = fetch[x]
      BY <1>7 DEF Ends, NoFetch, ReadingInv, ReadingTypes
    <2>3. \A j \in DOMAIN cache' : \/ cache'[j] = [block |-> s, bytes |-> fetch[s].bytes]
                                   \/ \E k \in DOMAIN cache : cache'[j] = cache[k]
      BY <1>7, CacheAfter
    <2>4. fetch[s].at = "decrypt"
      BY <1>7 DEF Ends
    <2> QED
      BY <1>2, <2>1, <2>2, <2>3, <2>4, FreshReader DEF AwaitedStays
  <1> QED
    BY <1>3, <1>4, <1>5, <1>6, <1>7, WholeBegins, SliceBegins, FetchSteps DEF ReaderStep

\* The worker leaves alone what somebody waits for.
LEMMA WorkSparesAwaited ==
  ASSUME StorageInv, ReadingInv, Fresh, Work, overtaken' = {},
         NEW s \in StorageBlocks, Awaited(s)
  PROVE  file'[s] = file[s] /\ s \notin freed' /\ ~ Storing(s)'
  <1>1. s \notin freed /\ ~ Storing(s) /\ file \in [StorageBlocks -> Seq(Bytes)]
    BY DEF Fresh, StorageInv, StorageTypes
  <1>2. CASE CombineResidualBlocks
    <2>1. s # Combined
      BY <1>2 DEF CombineResidualBlocks, ReadingInv, CombinedNew
    <2> QED
      BY <1>1, <1>2, <2>1 DEF CombineResidualBlocks, Storing
  <1>3. CASE MoveReference
    BY <1>1, <1>3 DEF MoveReference, Storing
  <1>4. CASE RemoveReferences
    BY <1>1, <1>4 DEF RemoveReferences, Storing
  <1>5. CASE \E x \in StorageBlocks : FreeUnreferencedStorageBlock(x)
    <2>1. PICK x \in StorageBlocks : FreeUnreferencedStorageBlock(x)
      BY <1>5
    <2>2. s # x
      BY <2>1 DEF FreeUnreferencedStorageBlock, Awaited, Pending
    <2> QED
      BY <1>1, <2>1, <2>2 DEF FreeUnreferencedStorageBlock, Storing, job
  <1>6. CASE \E b \in Coming, x \in StorageBlocks : StoreFile(b, x)
    BY <1>1, <1>6 DEF StoreFile, Storing
  <1>7. CASE UpdateStorageBlockInfo
    BY <1>1, <1>7 DEF UpdateStorageBlockInfo, Storing
  <1>8. CASE RemoveFromCache
    BY <1>1, <1>8 DEF RemoveFromCache, Storing, storage
  <1>9. CASE AddBlobBlockStorage
    BY <1>1, <1>9 DEF AddBlobBlockStorage, Storing
  <1> QED
    BY <1>2, <1>3, <1>4, <1>5, <1>6, <1>7, <1>8, <1>9 DEF Work

\* The worker takes an entry from the cache before the block it rewrote is read again.
LEMMA WorkKeepsCacheCurrent ==
  ASSUME StorageInv, ReadingInv, Fresh, Work, NEW j \in DOMAIN cache'
  PROVE  Current(cache[j])'
  <1>1. file \in [StorageBlocks -> Seq(Bytes)]
    BY DEF StorageInv, StorageTypes
  <1>2. PICK entry : entry = cache'[j]
    OBVIOUS
  <1>3. PICK k \in DOMAIN cache : entry = cache[k] /\ (RemoveFromCache => entry.block # target)
    <2>1. CASE RemoveFromCache
      <3>1. PICK c : c = Without(cache, target) /\ ComesFrom(c, cache) /\ ~ Holds(c, target)
        BY WithoutIs DEF ReadingInv, CacheKept
      <3>2. cache' = c
        BY <2>1, <3>1 DEF RemoveFromCache
      <3> QED
        BY <1>2, <3>1, <3>2 DEF ComesFrom, Holds
    <2>2. CASE ~ RemoveFromCache
      <3>1. cache' = cache
        BY <2>2 DEF Work, CombineResidualBlocks, MoveReference, RemoveReferences,
             FreeUnreferencedStorageBlock, StoreFile, UpdateStorageBlockInfo, AddBlobBlockStorage
      <3> QED
        BY <1>2, <2>2, <3>1
    <2> QED
      BY <2>1, <2>2
  <1>4. entry.block \in StorageBlocks /\ Current(entry)
    <2>1. cache[k] \in Entries
      BY <1>3, ElementOfSeq, LenProperties DEF ReadingInv, CacheKept
    <2> QED
      BY <1>3, <2>1 DEF Entries, Fresh
  <1> SUFFICES \/ entry.bytes = file'[entry.block] \/ entry.block \in freed'
               \/ worker' \in {"info", "uncache"} /\ target' = entry.block
    BY <1>2 DEF Current
  <1>5. CASE CombineResidualBlocks
    <2>1. entry.block # Combined /\ worker = "idle"
      BY <1>3, <1>5 DEF CombineResidualBlocks, ReadingInv, CombinedNew, Cached, Holds
    <2> QED
      BY <1>1, <1>4, <1>5, <2>1 DEF CombineResidualBlocks, Current
  <1>6. CASE MoveReference
    BY <1>4, <1>6 DEF MoveReference, Current
  <1>7. CASE RemoveReferences
    BY <1>4, <1>7 DEF RemoveReferences, Current
  <1>8. CASE \E x \in StorageBlocks : FreeUnreferencedStorageBlock(x)
    BY <1>1, <1>4, <1>8 DEF FreeUnreferencedStorageBlock, Current, job
  <1>9. CASE \E b \in Coming, x \in StorageBlocks : StoreFile(b, x)
    BY <1>1, <1>4, <1>9 DEF StoreFile, Current
  <1>10. CASE UpdateStorageBlockInfo
    BY <1>4, <1>10 DEF UpdateStorageBlockInfo, Current
  <1>11. CASE RemoveFromCache
    BY <1>3, <1>4, <1>11 DEF RemoveFromCache, Current, storage
  <1>12. CASE AddBlobBlockStorage
    BY <1>4, <1>12 DEF AddBlobBlockStorage, Current
  <1> QED
    BY <1>5, <1>6, <1>7, <1>8, <1>9, <1>10, <1>11, <1>12 DEF Work

LEMMA WorkLeavesReaders ==
  ASSUME Work
  PROVE  UNCHANGED <<fetch, reading, misread>> /\ overtaken \subseteq overtaken'
  BY DEF Work, CombineResidualBlocks, MoveReference, RemoveReferences,
         FreeUnreferencedStorageBlock, StoreFile, UpdateStorageBlockInfo, RemoveFromCache,
         AddBlobBlockStorage, history

\* The worker writes only what nobody awaits, and clears the cache of what it wrote.
LEMMA FreshWork ==
  ASSUME StorageInv, ReadingInv, FreshInv, Work
  PROVE  FreshInv'
  <1> SUFFICES ASSUME overtaken' = {} PROVE Fresh'
    BY DEF FreshInv
  <1>1. UNCHANGED <<fetch, reading>> /\ Fresh
    BY WorkLeavesReaders DEF FreshInv
  <1>2. ASSUME NEW s \in StorageBlocks
        PROVE  Awaited(s)' => s \notin freed' /\ ~ Storing(s)'
    <2>1. Awaited(s)' <=> Awaited(s)
      BY <1>1 DEF Awaited, Pending, reading
    <2> QED
      BY <1>1, <2>1, WorkSparesAwaited
  <1>3. ASSUME NEW s \in StorageBlocks, fetch'[s].at \in {"info", "decrypt"}
        PROVE  fetch'[s].bytes = file'[s]
    <2>1. Awaited(s)
      BY <1>1, <1>3, WaitingIsAwaited DEF Active
    <2>2. file'[s] = file[s]
      BY <1>1, <2>1, WorkSparesAwaited
    <2> QED
      BY <1>1, <1>3, <2>2 DEF Fresh
  <1>4. \A j \in DOMAIN cache' : Current(cache[j])'
    BY <1>1, WorkKeepsCacheCurrent
  <1>5. \A s \in StorageBlocks : fetch'[s].at \in {"info", "decrypt"} => fetch'[s].bytes = file'[s]
    BY <1>3
  <1> QED
    BY <1>2, <1>4, <1>5 DEF Fresh

LEMMA FreshInit == Init => FreshInv
  <1> SUFFICES ASSUME Init PROVE Fresh
    BY DEF FreshInv
  <1>1. cache = <<>> /\ waiting = {} /\ todo = {} /\ fetch = [s \in StorageBlocks |-> NoFetch]
    BY DEF Init
  <1>2. \A s \in StorageBlocks : ~ Awaited(s) /\ fetch[s].at = "none"
    BY <1>1 DEF Awaited, Pending, NoFetch
  <1>3. \A i \in DOMAIN cache : Current(cache[i])
    BY <1>1
  <1> QED
    BY <1>2, <1>3 DEF Fresh

LEMMA FreshNext ==
  ASSUME StorageInv, ReadingInv, FreshInv, [Next]_vars
  PROVE  FreshInv'
  <1>1. CASE ReaderStep
    BY <1>1, FreshReaders
  <1>2. CASE Work
    BY <1>2, FreshWork
  <1>3. CASE UNCHANGED vars
    <2>1. UNCHANGED <<file, freed, cache, fetch, pc, rows, todo, waiting, worker, target,
                      overtaken>>
      BY <1>3 DEF vars, storage, reading, job, history
    <2>2. Fresh' <=> Fresh
      BY <2>1 DEF Fresh, Awaited, Pending, Storing, Current
    <2> QED
      BY <2>1, <2>2 DEF FreshInv
  <1> QED
    BY <1>1, <1>2, <1>3 DEF Next, ReaderStep

\* The answers of the requests that still read stay what they are.
AnswersStay ==
    \A d \in Readers : pc'[d] = "reading" =>
        /\ pc[d] = "reading"
        /\ \A i \in DOMAIN rows[d] : Answer(d, i)' = Answer(d, i)

\* Where no answer changes, requests still get what they asked for.
LEMMA AnswersKept ==
  ASSUME AnswersLead, UNCHANGED <<rows, request, misread>>, overtaken \subseteq overtaken',
         overtaken' = {} => AnswersStay
  PROVE  AnswersLead'
  <1> SUFFICES ASSUME overtaken' = {}, NEW d \in Readers \ misread, pc'[d] = "reading"
               PROVE  FlattenSeq(Answers(d)') = Wanted(d)'
    BY DEF AnswersLead
  <1>1. Answers(d)' = Answers(d)
    BY DEF AnswersStay, Answers
  <1>2. Wanted(d)' = Wanted(d)
    BY DEF Wanted
  <1>3. FlattenSeq(Answers(d)) = Wanted(d)
    BY DEF AnswersLead, AnswersStay
  <1> QED
    BY <1>1, <1>2, <1>3

\* A request that begins will get what it asked for.
LEMMA AnswersBegin ==
  ASSUME StorageInv, ReadingInv, AnswersLead, NEW d \in Readers, NEW r, NEW parts,
         BeginsRight(d, r, parts)
  PROVE  AnswersLead'
  <1>1. /\ parts \in Seq(RowsNow) /\ Begin(d, r, parts)
        /\ d \notin misread' => FlattenSeq(Mapped(Content, parts)) = Wanted(d)'
    BY DEF BeginsRight
  <1>2. /\ pc' = [pc EXCEPT ![d] = "reading"] /\ request' = [request EXCEPT ![d] = r]
        /\ rows' = [rows EXCEPT ![d] = parts]
        /\ got' = [got EXCEPT ![d] = [i \in DOMAIN parts |-> <<>>]]
        /\ todo' = todo \cup ({d} \X DOMAIN parts) /\ misread \subseteq misread'
        /\ UNCHANGED <<file, waiting, overtaken>>
    BY <1>1 DEF Begin, storage
  <1> SUFFICES ASSUME overtaken' = {}, NEW e \in Readers \ misread', pc'[e] = "reading"
               PROVE  FlattenSeq(Answers(e)') = Wanted(e)'
    BY DEF AnswersLead
  <1>3. CASE e = d
    <2>1. rows'[d] = parts /\ DOMAIN parts = 1..Len(parts)
      BY <1>1, <1>2, LenProperties DEF ReadingInv, ReadingTypes
    <2>2. ASSUME NEW i \in DOMAIN parts PROVE Answer(d, i)' = Content[parts[i]]
      <3>1. ~ Read(d, i)'
        BY <1>2 DEF Read
      <3>2. parts[i] \in RowsNow
        BY <1>1, <2>1, ElementOfSeq
      <3>3. Answer(d, i)' = Part(parts[i], file[parts[i].storageBlock])
        BY <1>2, <2>1, <3>1 DEF Answer, Part
      <3> QED
        BY <3>2, <3>3 DEF Content
    <2>3. Answers(d)' = Mapped(Content, parts)
      BY <2>1, <2>2 DEF Answers, Mapped
    <2> QED
      BY <1>1, <1>3, <2>3
  <1>4. CASE e # d
    <2>1. /\ rows'[e] = rows[e] /\ request'[e] = request[e] /\ got'[e] = got[e]
          /\ pc[e] = "reading"
      BY <1>2, <1>4 DEF ReadingInv, ReadingTypes
    <2>2. \A i : Read(e, i)' <=> Read(e, i)
      BY <1>2, <1>4 DEF Read
    <2>3. \A i \in DOMAIN rows[e] : Answer(e, i)' = Answer(e, i)
      BY <1>2, <2>1, <2>2 DEF Answer, Part
    <2>4. Answers(e)' = Answers(e)
      BY <2>1, <2>3 DEF Answers
    <2>5. Wanted(e)' = Wanted(e)
      BY <2>1 DEF Wanted
    <2>6. FlattenSeq(Answers(e)) = Wanted(e)
      BY <1>2, <2>1 DEF AnswersLead
    <2> QED
      BY <2>4, <2>5, <2>6
  <1> QED
    BY <1>3, <1>4

\* A part served from the cache is what its storage block holds.
LEMMA AnswersPart ==
  ASSUME StorageInv, ReadingInv, FreshInv, AnswersLead,
         NEW d \in Readers, NEW i \in DOMAIN rows[d], DownloadPart(d, i)
  PROVE  AnswersLead'
  <1>1. /\ UNCHANGED <<file, rows, request, misread, overtaken>> /\ pc[d] = "reading"
        /\ <<d, i>> \in todo /\ todo' = todo \ {<<d, i>>}
    BY DEF DownloadPart, history, storage
  <1> SUFFICES ASSUME overtaken = {} PROVE AnswersStay
    BY <1>1, AnswersKept
  <1>2. PICK s \in StorageBlocks : s = rows[d][i].storageBlock
    BY PartsIndexed
  <1>3. CASE Cached(s)
    <2>1. /\ got' = [got EXCEPT ![d][i] = Part(rows[d][i], TryServe(s).bytes)]
          /\ UNCHANGED <<pc, waiting>>
      BY <1>2, <1>3 DEF DownloadPart
    <2>2. Fresh /\ Awaited(s)
      BY <1>1, <1>2 DEF FreshInv, Awaited, Pending
    <2>3. PICK k \in DOMAIN cache : TryServe(s) = cache[k] /\ cache[k].block = s
      BY <1>3 DEF Cached, Holds, TryServe, Place
    <2>4. TryServe(s).bytes = file[s]
      BY <2>2, <2>3 DEF Fresh, Current, Storing
    <2>5. Answer(d, i)' = Answer(d, i)
      <3>1. Read(d, i)' /\ ~ Read(d, i)
        BY <1>1, <2>1 DEF Read, ReadingInv, ReadingTypes
      <3>2. got'[d][i] = Part(rows[d][i], file[s])
        BY <2>1, <2>4 DEF ReadingInv, ReadingTypes
      <3> QED
        BY <1>2, <3>1, <3>2 DEF Answer
    <2>6. ASSUME NEW e \in Readers, NEW j \in DOMAIN rows[e], <<e, j>> # <<d, i>>
          PROVE  Answer(e, j)' = Answer(e, j)
      <3>1. Read(e, j)' <=> Read(e, j)
        BY <1>1, <2>1, <2>6 DEF Read
      <3>2. got'[e][j] = got[e][j]
        BY <2>1, <2>6 DEF ReadingInv, ReadingTypes
      <3> QED
        BY <1>1, <3>1, <3>2 DEF Answer, Part
    <2> QED
      BY <2>1, <2>5, <2>6 DEF AnswersStay
  <1>4. CASE ~ Cached(s)
    <2>1. got' = got /\ \A e \in Readers : pc'[e] = "reading" => pc[e] = "reading"
                                     /\ (fetch[s].at = "rejected" => e # d)
      <3>1. Fails(d) # "reading"
        BY DEF Fails
      <3> QED
        BY <1>2, <1>4, <3>1 DEF DownloadPart, ReadingInv, ReadingTypes
    <2>2. ASSUME NEW e \in Readers, NEW j \in DOMAIN rows[e], pc'[e] = "reading"
          PROVE  Answer(e, j)' = Answer(e, j)
      <3>1. Read(e, j)' <=> Read(e, j)
        BY <1>1, <1>2, <1>4, <2>1, <2>2 DEF Read, DownloadPart
      <3> QED
        BY <1>1, <2>1, <3>1 DEF Answer, Part
    <2> QED
      BY <2>1, <2>2 DEF AnswersStay
  <1> QED
    BY <1>3, <1>4

LEMMA AnswersReject ==
  ASSUME ReadingInv, AnswersLead, NEW s \in StorageBlocks, Reject(s), overtaken' = overtaken
  PROVE  AnswersLead'
  <1>1. /\ pc' = [d \in Readers |-> IF \E w \in WaitingFor(s) : w[1] = d THEN Fails(d) ELSE pc[d]]
        /\ waiting' = waiting \ WaitingFor(s)
        /\ UNCHANGED <<file, rows, request, got, todo, misread>>
    BY DEF Reject, storage, history
  <1>2. \A d \in Readers : Fails(d) # "reading"
    BY DEF Fails
  <1>3. AnswersStay
    <2> SUFFICES ASSUME NEW d \in Readers, pc'[d] = "reading"
                 PROVE  /\ pc[d] = "reading"
                        /\ \A i \in DOMAIN rows[d] : Answer(d, i)' = Answer(d, i)
      BY DEF AnswersStay
    <2>1. pc[d] = "reading" /\ \A w \in WaitingFor(s) : w[1] # d
      BY <1>1, <1>2
    <2>2. \A i : Read(d, i)' <=> Read(d, i)
      BY <1>1, <2>1 DEF Read
    <2> QED
      BY <1>1, <2>1, <2>2 DEF Answer, Part
  <1> QED
    BY <1>1, <1>3, AnswersKept

LEMMA AnswersGoOn ==
  ASSUME AnswersLead, NEW s \in StorageBlocks, NEW next, GoesOn(s, next)
  PROVE  AnswersLead'
  <1>1. UNCHANGED <<file, pc, rows, request, got, todo, waiting, misread, overtaken>>
    BY DEF GoesOn, storage, reading, history
  <1>2. AnswersStay
    BY <1>1 DEF AnswersStay, Answer, Read, Part
  <1> QED
    BY <1>1, <1>2, AnswersKept

\* A part served by a download is what its storage block holds.
LEMMA AnswersEnd ==
  ASSUME ReadingInv, FreshInv, AnswersLead, NEW s \in StorageBlocks, Ends(s)
  PROVE  AnswersLead'
  <1>1. /\ fetch[s].at = "decrypt" /\ waiting' = waiting \ WaitingFor(s)
        /\ got' = [d \in Readers |-> [i \in DOMAIN got[d] |->
                    IF <<d, i>> \in WaitingFor(s) THEN Part(rows[d][i], fetch[s].bytes)
                                                  ELSE got[d][i]]]
        /\ UNCHANGED <<file, pc, rows, request, todo, misread, overtaken>>
    BY DEF Ends, storage, history
  <1> SUFFICES ASSUME overtaken = {} PROVE AnswersStay
    BY <1>1, AnswersKept
  <1>2. fetch[s].bytes = file[s]
    BY <1>1 DEF FreshInv, Fresh
  <1>3. ASSUME NEW d \in Readers, NEW i \in DOMAIN rows[d]
        PROVE  Answer(d, i)' = Answer(d, i)
    <2>1. DOMAIN got[d] = DOMAIN rows[d]
      BY DEF ReadingInv, ReadingTypes
    <2>2. CASE <<d, i>> \in WaitingFor(s)
      <3>1. rows[d][i].storageBlock = s /\ <<d, i>> \in waiting
        BY <2>2 DEF WaitingFor
      <3>2. Read(d, i)' /\ ~ Read(d, i)
        BY <1>1, <2>2, <3>1 DEF Read, ReadingInv, ReadingTypes
      <3>3. got'[d][i] = Part(rows[d][i], file[s])
        BY <1>1, <1>2, <2>1, <2>2
      <3> QED
        BY <3>1, <3>2, <3>3 DEF Answer
    <2>3. CASE <<d, i>> \notin WaitingFor(s)
      <3>1. Read(d, i)' <=> Read(d, i)
        BY <1>1, <2>3 DEF Read
      <3>2. got'[d][i] = got[d][i]
        BY <1>1, <2>1, <2>3
      <3> QED
        BY <1>1, <3>1, <3>2 DEF Answer, Part
    <2> QED
      BY <2>2, <2>3
  <1> QED
    BY <1>1, <1>3 DEF AnswersStay

\* The worker changes no answer.
LEMMA AnswersWork ==
  ASSUME StorageInv, ReadingInv, FreshInv, AnswersLead, Work
  PROVE  AnswersLead'
  <1>1. /\ UNCHANGED <<pc, rows, request, got, todo, waiting, misread>>
        /\ overtaken \subseteq overtaken'
    BY WorkLeavesReaders DEF reading
  <1> SUFFICES ASSUME overtaken' = {} PROVE AnswersStay
    BY <1>1, AnswersKept
  <1>2. Fresh
    BY <1>1 DEF FreshInv
  <1>3. ASSUME NEW d \in Readers, NEW i \in DOMAIN rows[d], pc[d] = "reading"
        PROVE  Answer(d, i)' = Answer(d, i)
    <2>1. Read(d, i)' <=> Read(d, i)
      BY <1>1 DEF Read
    <2>2. CASE Read(d, i)
      BY <1>1, <2>1, <2>2 DEF Answer
    <2>3. CASE ~ Read(d, i)
      <3>1. PICK s \in StorageBlocks : s = rows[d][i].storageBlock
        BY PartsIndexed
      <3>2. Awaited(s)
        BY <1>3, <2>3, <3>1 DEF Read, Awaited, Pending
      <3>3. file'[s] = file[s]
        BY <1>2, <3>2, WorkSparesAwaited
      <3> QED
        BY <1>1, <2>1, <2>3, <3>1, <3>3 DEF Answer, Part
    <2> QED
      BY <2>2, <2>3
  <1> QED
    BY <1>1, <1>3 DEF AnswersStay

LEMMA AnswersInit == Init => AnswersLead
  BY DEF Init, AnswersLead

LEMMA AnswersNext ==
  ASSUME StorageInv, ReadingInv, FreshInv, AnswersLead, [Next]_vars
  PROVE  AnswersLead'
  <1>1. CASE \E d \in Streams, blob \in Blobs : DownloadBlob(d, blob)
    BY <1>1, WholeBegins, AnswersBegin
  <1>2. CASE \E d \in Slices, blob \in Blobs, range \in Ranges : DownloadBlobSlice(d, blob, range)
    BY <1>2, SliceBegins, AnswersBegin
  <1>3. CASE \E d \in Readers : \E i \in DOMAIN rows[d] : DownloadPart(d, i)
    BY <1>3, AnswersPart
  <1>4. CASE \E s \in StorageBlocks : Fetch(s) \/ ReadFails(s)
    <2>1. PICK s \in StorageBlocks : Fetch(s) \/ ReadFails(s)
      BY <1>4
    <2>2. overtaken' = overtaken
      BY <2>1 DEF Fetch, ReadFails, Reject, DownloadEncryptedStorageBlock, QueryEncryptionInfo,
                  Decrypt, history
    <2> QED
      BY <2>1, <2>2, FetchSteps, AnswersReject, AnswersGoOn, AnswersEnd
  <1>5. CASE Work
    BY <1>5, AnswersWork
  <1>6. CASE UNCHANGED vars
    <2>1. UNCHANGED <<file, pc, rows, request, got, todo, waiting, misread, overtaken>>
      BY <1>6 DEF vars, storage, reading, history
    <2>2. AnswersStay
      BY <2>1 DEF AnswersStay, Answer, Read, Part
    <2> QED
      BY <2>1, <2>2, AnswersKept
  <1> QED
    BY <1>1, <1>2, <1>3, <1>4, <1>5, <1>6 DEF Next

(***************************************************************************)
(* The theorems about Downloads.                                           *)
(***************************************************************************)
DownloadsInv == StorageInv /\ ReadingInv /\ FreshInv /\ AnswersLead

\* The inductive invariant of Downloads.
LEMMA DownloadsInvHolds == Spec => []DownloadsInv
  <1>1. Init => DownloadsInv
    BY StorageInit, ReadingInit, FreshInit, AnswersInit DEF DownloadsInv
  <1>2. DownloadsInv /\ [Next]_vars => DownloadsInv'
    BY StorageNext, ReadingNext, FreshNext, AnswersNext DEF DownloadsInv
  <1> QED
    BY <1>1, <1>2, PTL DEF Spec

\* However requests and the worker interleave, the cache holds a storage block once and, of
\* all of them, one more than its limit: it is pruned before an entry is added.
THEOREM CacheStaysBounded == Spec => []CacheIsBounded
  <1>1. DownloadsInv => CacheIsBounded
    BY DEF DownloadsInv, ReadingInv, CacheKept, Distinct, CacheIsBounded
  <1> QED
    BY <1>1, DownloadsInvHolds, PTL

\* A request that has all its parts has the bytes it asked for, from the range header to the
\* bytes sent, whatever is combined, freed and written again meanwhile: unless it read two
\* rows for one blob block, or some request read a block after it was freed.
THEOREM ServedStaysRight == Spec => []ServedIsRight
  <1>1. ASSUME DownloadsInv, NEW d \in Readers, Served(d), d \notin misread, overtaken = {}
        PROVE  FlattenSeq(got[d]) = Wanted(d)
    <2>1. got[d] \in [DOMAIN rows[d] -> Seq(Bytes)]
      BY <1>1 DEF DownloadsInv, ReadingInv, ReadingTypes
    <2>2. \A i \in DOMAIN rows[d] : Answer(d, i) = got[d][i]
      BY <1>1 DEF Served, Answer
    <2>3. Answers(d) = got[d]
      BY <2>1, <2>2 DEF Answers
    <2>4. FlattenSeq(Answers(d)) = Wanted(d)
      BY <1>1 DEF DownloadsInv, AnswersLead, Served
    <2> QED
      BY <2>3, <2>4
  <1>2. DownloadsInv => ServedIsRight
    BY <1>1 DEF ServedIsRight
  <1> QED
    BY <1>2, DownloadsInvHolds, PTL

=============================================================================
