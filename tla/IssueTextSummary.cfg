SPECIFICATION Spec
CHECK_DEADLOCK FALSE
CONSTANTS
    MaxTyped = 5
    ShortWidth = 3
    LongWidth = 4
    SummaryWidth = 2
    SummaryShare = 5
    CaptionWidth = 4
    CaptionLimit = 7
    MessageLimit = 33
    Labels = 2
    Others <- OtherTexts
    None = None
    Broken = Broken
INVARIANTS
    SummaryParses
