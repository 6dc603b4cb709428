SPECIFICATION Spec
CONSTANTS
    MaxIssues = 2
    MaxPhotos = 2
    JiraStart = {0, 2}
INVARIANTS
    RowNamesItsCard
    PicturesStayWithTheirIssue
    NothingFailsInSilence
