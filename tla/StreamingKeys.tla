--------------------------- MODULE StreamingKeys ---------------------------
(***************************************************************************)
(* StreamingService and what the service does around it: a video player    *)
(* cannot send an access token, so it asks for a key first and streams     *)
(* with the key.  A user has one key, every other request that the user    *)
(* authenticates with a token takes it away, and a key is bound to an      *)
(* address, to blobs and to the time the token expires.                    *)
(*                                                                         *)
(* Clients act for users; several may act for the same one.                *)
(***************************************************************************)
EXTENDS Naturals, Sequences, FiniteSets

CONSTANTS
    Users, Clients, UserOf,
    Files,
    Addresses,      \* addresses a client may have, one after the other
    MaxKeys, MaxRevisions, MaxTime   \* bounds

ASSUME ClientsHaveUsers == UserOf \in [Clients -> Users]
ASSUME BoundsAreNumbers == MaxKeys \in Nat /\ MaxRevisions \in Nat \ {0} /\ MaxTime \in Nat

VARIABLES
    newest,         \* number of the newest revision of a file, 0 before there is one
    versions,       \* blobs of which a version for streaming was computed
    now,
    address,        \* of a client
    issued,         \* what each key is bound to, in the order of their creation
    streamingKeys,  \* the keys that are known
    userIdToStreamingKey,
    partiallyAccessed, \* <<key, blob>> counted as accessed
    asking,         \* a request for a key, while it is served
    holding,        \* the keys a client uses, and the blob it reads with each
    counted,        \* history: accesses counted for a key and a blob
    quiet           \* history: keys since whose creation the user made no request

catalogue == <<newest, versions>>
service == <<issued, streamingKeys, userIdToStreamingKey, partiallyAccessed>>
counting == <<counted, quiet>>
streamingVars == <<catalogue, now, address, service, asking, holding, counting>>

NoKey == 0
Keys == 1..MaxKeys
Original(f, n) == <<f, n, "original">>
BlobIds == Files \X (0..MaxRevisions) \X {"original", "stream"}
NotAsking == [at |-> "none"]
KeysOf(u) == {k \in DOMAIN issued : issued[k].userId = u}

StreamingInit ==
    /\ newest \in [Files -> {0, 1}] /\ versions = {} /\ now = 0
    /\ \E home \in Addresses : address = [c \in Clients |-> home]
    /\ issued = <<>> /\ streamingKeys = {} /\ partiallyAccessed = {}
    /\ userIdToStreamingKey = [u \in Users |-> NoKey]
    /\ asking = [c \in Clients |-> NotAsking]
    /\ holding = [c \in Clients |-> {}]
    /\ counted = [access \in Keys \X BlobIds |-> 0] /\ quiet = {}

(***************************************************************************)
(* Requests with an access token.                                          *)
(***************************************************************************)
\* Before the handler of any such request.
Invalidate(u) ==
    /\ streamingKeys' = streamingKeys \ {userIdToStreamingKey[u]}
    /\ userIdToStreamingKey' = [userIdToStreamingKey EXCEPT ![u] = NoKey]
    /\ quiet' = quiet \ KeysOf(u)
    /\ UNCHANGED <<issued, partiallyAccessed, counted>>

AuthenticatedRequest(c) ==
    /\ asking[c] = NotAsking
    /\ Invalidate(UserOf[c])
    /\ UNCHANGED <<catalogue, now, address, asking, holding>>

RequestStreamingKey(c, f) ==
    /\ asking[c] = NotAsking /\ newest[f] # 0 /\ Len(issued) < MaxKeys
    /\ Invalidate(UserOf[c])
    /\ asking' = [asking EXCEPT ![c] = [at |-> "newest", file |-> f]]
    /\ UNCHANGED <<catalogue, now, address, holding>>

QueryNewestRevision(c) ==
    /\ asking[c].at = "newest"
    /\ asking' = [asking EXCEPT ![c] =
                    [at |-> "versions", file |-> asking[c].file, newest |-> newest[asking[c].file]]]
    /\ UNCHANGED <<catalogue, now, address, service, holding, counting>>

\* The newest revision may always be streamed, and its versions made for streaming.
QueryVersions(c) ==
    LET f == asking[c].file
        blob == Original(f, asking[c].newest)
    IN /\ asking[c].at = "versions"
       /\ asking' = [asking EXCEPT ![c] =
            [at |-> "create", file |-> f,
             blobIds |-> {blob} \cup {v \in versions : v[1] = f /\ v[2] = blob[2]}]]
       /\ UNCHANGED <<catalogue, now, address, service, holding, counting>>

Info(c, exp) == [userId |-> UserOf[c], allowedBlobIds |-> asking[c].blobIds,
                 expireAt |-> exp, remoteIP |-> address[c]]

\* Mutant: the key the user has had stays known.
CreateStreamingKey_KeepsOld(c, exp, blob, kept) ==
    LET k == Len(issued) + 1  u == UserOf[c] IN
    /\ asking[c].at = "create" /\ k <= MaxKeys
    /\ issued' = Append(issued, Info(c, exp))
    /\ streamingKeys' = streamingKeys \cup {k}
    /\ userIdToStreamingKey' = [userIdToStreamingKey EXCEPT ![u] = k]
    /\ quiet' = (quiet \ KeysOf(u)) \cup {k}
    /\ holding' = [holding EXCEPT ![c] = kept \cup {[key |-> k, blob |-> blob]}]
    /\ asking' = [asking EXCEPT ![c] = NotAsking]
    /\ UNCHANGED <<catalogue, now, address, partiallyAccessed, counted>>

\* The token expires at exp; the client reads the blob and keeps using some keys.
CreateStreamingKey(c, exp, blob, kept) ==
    LET k == Len(issued) + 1  u == UserOf[c] IN
    /\ asking[c].at = "create" /\ k <= MaxKeys
    /\ issued' = Append(issued, Info(c, exp))
    /\ streamingKeys' = (streamingKeys \ {userIdToStreamingKey[u]}) \cup {k}
    /\ userIdToStreamingKey' = [userIdToStreamingKey EXCEPT ![u] = k]
    /\ quiet' = (quiet \ KeysOf(u)) \cup {k}
    /\ holding' = [holding EXCEPT ![c] = kept \cup {[key |-> k, blob |-> blob]}]
    /\ asking' = [asking EXCEPT ![c] = NotAsking]
    /\ UNCHANGED <<catalogue, now, address, partiallyAccessed, counted>>

(***************************************************************************)
(* Streaming with a key.                                                   *)
(***************************************************************************)
\* Mutant: a key is refused in the last second of its token.
Expired_Early(k) == now >= issued[k].expireAt

Expired(k) == now > issued[k].expireAt

Authenticate(k, blob, remoteIP) ==
    /\ k \in streamingKeys /\ ~ Expired(k)
    /\ blob \in issued[k].allowedBlobIds
    /\ issued[k].remoteIP = remoteIP

\* Mutant: that the access was counted is not remembered.
InformAboutPartialAccess_Forgets(k, blob) ==
    /\ counted' = IF <<k, blob>> \in partiallyAccessed THEN counted
                  ELSE [counted EXCEPT ![<<k, blob>>] = @ + 1]
    /\ UNCHANGED partiallyAccessed

InformAboutPartialAccess(k, blob) ==
    /\ counted' = IF <<k, blob>> \in partiallyAccessed THEN counted
                  ELSE [counted EXCEPT ![<<k, blob>>] = @ + 1]
    /\ partiallyAccessed' = partiallyAccessed \cup {<<k, blob>>}

\* A request for a range.  A key found expired is forgotten.
StreamBlob(c, hold) ==
    /\ hold \in holding[c]
    /\ IF Authenticate(hold.key, hold.blob, address[c])
       THEN InformAboutPartialAccess(hold.key, hold.blob)
       ELSE UNCHANGED <<partiallyAccessed, counted>>
    /\ streamingKeys' = IF Expired(hold.key) THEN streamingKeys \ {hold.key} ELSE streamingKeys
    /\ UNCHANGED <<catalogue, now, address, issued, userIdToStreamingKey, asking, holding, quiet>>

(***************************************************************************)
(* The player of the portal, which has one key, and what goes on around.   *)
(***************************************************************************)
PlayerIsAnswered(c) ==
    /\ asking[c].at = "create"
    /\ \E exp \in now..MaxTime, blob \in asking[c].blobIds : CreateStreamingKey(c, exp, blob, {})

OnQualityChanged(c) ==
    /\ \E hold \in holding[c] : \E blob \in issued[hold.key].allowedBlobIds :
          holding' = [holding EXCEPT ![c] = {[hold EXCEPT !.blob = blob]}]
    /\ UNCHANGED <<catalogue, now, address, service, asking, counting>>

AddRevision(f) ==
    /\ newest[f] < MaxRevisions
    /\ newest' = [newest EXCEPT ![f] = @ + 1]
    /\ UNCHANGED <<versions, now, address, service, asking, holding, counting>>

AddVersion(f) ==
    /\ newest[f] # 0
    /\ versions' = versions \cup {<<f, newest[f], "stream">>}
    /\ UNCHANGED <<newest, now, address, service, asking, holding, counting>>

Tick ==
    /\ now < MaxTime /\ now' = now + 1
    /\ UNCHANGED <<catalogue, address, service, asking, holding, counting>>

Move(c) ==
    /\ \E a \in Addresses : address' = [address EXCEPT ![c] = a]
    /\ UNCHANGED <<catalogue, now, service, asking, holding, counting>>

Serve(c) == QueryNewestRevision(c) \/ QueryVersions(c)

Player(c) ==
    \/ AuthenticatedRequest(c) \/ PlayerIsAnswered(c) \/ OnQualityChanged(c)
    \/ \E f \in Files : RequestStreamingKey(c, f)
    \/ \E hold \in holding[c] : StreamBlob(c, hold)

Environment ==
    \/ \E f \in Files : AddRevision(f) \/ AddVersion(f)
    \/ Tick \/ \E c \in Clients : Move(c)

(***************************************************************************)
(* Properties.                                                             *)
(***************************************************************************)
Key == [userId : Users, allowedBlobIds : SUBSET BlobIds, expireAt : Nat, remoteIP : Addresses]
Asking ==
    {NotAsking} \cup [at : {"newest"}, file : Files]
    \cup [at : {"versions"}, file : Files, newest : 0..MaxRevisions]
    \cup [at : {"create"}, file : Files, blobIds : SUBSET BlobIds]

ServiceTypeOK ==
    /\ issued \in Seq(Key) /\ Len(issued) <= MaxKeys
    /\ streamingKeys \subseteq DOMAIN issued
    /\ userIdToStreamingKey \in [Users -> {NoKey} \cup DOMAIN issued]
    /\ partiallyAccessed \subseteq (DOMAIN issued) \X BlobIds
    /\ counted \in [Keys \X BlobIds -> Nat] /\ quiet \subseteq DOMAIN issued

ClientsTypeOK ==
    /\ newest \in [Files -> 0..MaxRevisions] /\ versions \subseteq BlobIds
    /\ now \in 0..MaxTime /\ address \in [Clients -> Addresses]
    /\ asking \in [Clients -> Asking]
    /\ holding \in [Clients -> SUBSET [key : DOMAIN issued, blob : BlobIds]]

StreamingTypeOK == ServiceTypeOK /\ ClientsTypeOK

\* A key that is known is the one its user is recorded to have, so that
\* InvalidateUserStreamingKeys leaves no other key of the user usable.
LiveKeysAreCurrent ==
    \A k \in streamingKeys : userIdToStreamingKey[issued[k].userId] = k

\* As long as its user makes no request with a token, a key works for a client that
\* stays where it is, for what it was allowed, until it expires.
QuietKeysWork ==
    \A c \in Clients : \A hold \in holding[c] :
        LET key == issued[hold.key] IN
        (/\ hold.key \in quiet /\ now <= key.expireAt
         /\ address[c] = key.remoteIP /\ hold.blob \in key.allowedBlobIds)
        => Authenticate(hold.key, hold.blob, address[c])

\* However often a player asks for parts of a blob, the access is counted once per key.
CountedOncePerKey ==
    \A access \in Keys \X BlobIds :
        counted[access] = IF access \in partiallyAccessed THEN 1 ELSE 0

=============================================================================
