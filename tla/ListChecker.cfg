SPECIFICATION Spec
CONSTANTS
    c1 = c1
    listA = listA
    listB = listB
    Cards <- OneCard
    ContractorLists <- TwoContractors
    distribution_list = distribution
    rework_list = rework
    NoList = NoList
    DbFails = TRUE
    MaxFailures = 3
INVARIANTS
    PendingMeansUnassigned
    ToldOnce
    WorkIsNotThrownAway
PROPERTIES
    ImplementsIssueTable
    GoneCardsLeaveTheTable
    RowFollowsTheCard
