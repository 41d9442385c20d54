CONSTANTS
    alice = alice
    player = player
    m1 = m1
    home = home
    away = away
    Users = {alice}
    Clients = {player, m1}
    UserOf <- MCUserOf
    Files = {f1}
    Addresses = {home, away}
    Mounts = {m1}
    MountExpiry = 0
    MaxKeys = 2
    MaxRevisions = 2
    MaxTime = 1
SPECIFICATION MountSpec
CHECK_DEADLOCK FALSE
INVARIANT LiveKeysAreCurrent
INVARIANT QuietKeysWork
INVARIANT CountedOncePerKey
INVARIANT FoundFromSecondLookup
SYMMETRY AddressSymmetry
