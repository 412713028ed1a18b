SPECIFICATION ToolsSpec
CONSTANTS
    Attempts = 3
    VirtualServices <- MCVirtualServices
    DestinationRules <- MCDestinationRules
    PeerAuthentications <- MCPeerAuthentications
    Gateways = {"g1"}
    MaxEdits = 2
INVARIANTS
    NotifyTypeOK
    PostAccounted
    FaultsReported
    NoFalseAlarm
PROPERTIES
    EveryCallEnds
CHECK_DEADLOCK FALSE
