SPECIFICATION TransportSpec
CONSTANTS
    MaxFrames = 4
    MaxFaults = 3
INVARIANT FramesInOnePlace
INVARIANT OvertakenOnlyByReconnect
PROPERTY ImplementsLink
PROPERTY LinkRecovers
PROPERTY FramesSettle
CHECK_DEADLOCK FALSE
