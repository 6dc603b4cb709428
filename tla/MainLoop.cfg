SPECIFICATION Spec
CONSTANTS
    w1 = w1
    w2 = w2
    Webhooks <- TwoWebhooks
    Report = "report"
    MaxReports = 2
INVARIANTS
    NothingLostOrOvertaken
    NotificationArrives
PROPERTIES
    ImplementsTaskService
    StopEndsTheProcess
    QueuedIsRun
