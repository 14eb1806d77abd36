SPECIFICATION FrontendSpec
CONSTANTS
    n1 = n1  n2 = n2  n3 = n3  c1 = c1  c2 = c2
    set1 = set1  set2 = set2  del = del
    Node = {n1, n2, n3}
    None = None
    Key <- MCKey
    Value <- MCValue
    Absent = Absent
    Command = {set1, set2, del}
    Decode <- MCDecode
    HeartbeatTicks = 1
    ElectionTimeoutMin = 1
    ElectionTimeoutMax = 1
    SnapshotThreshold = 9
    Self = n1
    Peer = n2
    Conn = {c1, c2}
    Scenarios <- MCScenarios
INVARIANT FramesIntact
INVARIANT RepliesFit
INVARIANT RepliesReadable
INVARIANT SessionOrdered
INVARIANT InOnePlace
INVARIANT ElectionsCounted
INVARIANT LastWriterWins
INVARIANT SnapshotCatchUp
PROPERTY NobodyHangs
CHECK_DEADLOCK FALSE
