SPECIFICATION DashboardSpec
CONSTANTS
    c1 = c1
    c2 = c2
    Chats = {c1, c2}
    Replies <- MCReplies
    MaxRounds = 2
    Clusters = 2
    MaxPolls = 2
INVARIANTS
    DashboardTypeOK
    HistorySound
    FormNeverOverlaps
    OneProbe
PROPERTIES
    ChatImplementsConversation
    EverythingAnswered
CHECK_DEADLOCK FALSE
