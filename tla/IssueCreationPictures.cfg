SPECIFICATION Spec
CONSTANTS
    MaxIssues = 1
    MaxPhotos = 1
    JiraStart = {3}
INVARIANTS
    AttachedToTheNewIssue
