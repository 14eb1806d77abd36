SPECIFICATION SimSpec
CONSTANTS
    n1 = n1  n2 = n2  n3 = n3
    k1 = k1  v1 = v1  v2 = v2
    c1 = c1  c2 = c2
    Node = {n1, n2, n3}
    None = None
    Ids <- MCIds
    Key = {k1}
    Value = {v1, v2}
    Absent = Absent
    Command = {c1, c2}
    Decode <- MCDecode
    HeartbeatTicks = 1
    ElectionTimeoutMin = 2
    ElectionTimeoutMax = 4
    Draws <- MCDraws
    SnapshotThreshold = 2
    MaxTerm = 3
    MaxFaults = 2
INVARIANT SimTypeOK
PROPERTY IsolatedCannotProgress
PROPERTY FollowersCatchUp
PROPERTY WritesCommit
