SPECIFICATION Spec
CONSTANTS
    c1 = c1
    listA = listA
    listB = listB
    Cards <- OneCard
    ContractorLists <- OneContractor
    distribution_list = distribution
    rework_list = rework
    NoList = NoList
    DbFails = FALSE
    MaxFailures = 1
PROPERTIES
    FinishedTaskIsArchived
