CONSTANTS
    Fetchers = {c1, c2, c3}
    Partitions = {p1, p2}
    Existing = {p1}
    Keys = {k1, k2, k3}
    NoKey = nokey
SPECIFICATION KeysSpec
SYMMETRY Interchangeable
INVARIANT EveryBlockDecrypts
INVARIANT DecryptionSucceeds
