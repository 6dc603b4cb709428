SPECIFICATION Spec
CONSTANTS
    i1 = i1
    i2 = i2
    ann = ann
    Ann = Ann
    bob = bob
    Issues <- TwoIssues
    Emails <- Addresses
    NoEmail = NoEmail
    Nothing = Nothing
    tolower <- Lower
    MayFail = TRUE
    MaxEdits = 4
INVARIANTS
    OneLetterPerAssignment
    MapIsJirasWhenQuiet
PROPERTIES
    AssigneeIsNotified
CHECK_DEADLOCK FALSE
