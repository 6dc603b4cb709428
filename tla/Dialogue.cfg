SPECIFICATION Spec
CONSTANTS
    Users <- StaffAndDeveloper
    Staff <- BothStaff
    Developer = "developer"
    Offered <- StaffButtons
    Reasons <- OneReason
    nullptr = nullptr
INVARIANTS
    TypeOK
    NoDanglingSession
    AtMostOneOpenKey
    DecidedOnce
    RequestReachesStaff
    ServiceStepNeedsRole
    AnswersInPlace
    IssueKindKnown
    MenuExcludesDialogue
PROPERTIES
    OthersKeepTheirDialogue
    ButtonsMakeNoSession
