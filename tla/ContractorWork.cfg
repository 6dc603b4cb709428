SPECIFICATION Spec
CONSTANTS
    u1 = u1
    u2 = u2
    i1 = i1
    i2 = i2
    Users <- TwoUsers
    TimeToLive = 1
    CleanupPeriod = 2
    MaxAge = 2
    NoSession = NoSession
    Issues <- TwoIssues
    First <- OneUser
    Staff <- OneOther
    NoRow = NoRow
    Nobody = Nobody
    Menu = Menu
    MaxMessages <- MessagesPerUser
INVARIANTS
    IdleSessionsGo
    ClickedIsCurrent
    BlockingTaskCanBeFinished
    FinishedOncePerStart
    AssignedCanList
PROPERTIES
    SessionsInUseStay
SYMMETRY IssuesAlike
