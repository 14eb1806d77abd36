SPECIFICATION BoundedOrderlySpec
CONSTANTS
    n1 = n1  n2 = n2  n3 = n3
    k1 = k1  v1 = v1  v2 = v2
    c1 = c1  c2 = c2  c3 = c3
    Node = {n1, n2, n3}
    None = None
    Key = {k1}
    Value = {v1, v2}
    Absent = Absent
    Command = {c1, c2, c3}
    Decode <- MCDecode
    HeartbeatTicks = 1
    ElectionTimeoutMin = 1
    ElectionTimeoutMax = 1
    SnapshotThreshold = 2
    MaxTerm = 2
    MaxInFlight = 1
    Reorder = FALSE
SYMMETRY NodeAndWriteSymmetry
INVARIANT StateMachineSafety
INVARIANT CommittedIsDurable
INVARIANT LeaderCompleteness
INVARIANT LogMatching
INVARIANT WaitersAreOwed
INVARIANT StoresConverge
PROPERTY CommitNeverRegresses
PROPERTY ImplementsReplicatedStore
