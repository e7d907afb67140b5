CONSTANTS
    MaxBlocks = 3
    Pages <- MCPages
    CountTokens <- Weight
    NewlineTokens = 0
    TargetTokens = 4
    MaxTokens = 5
    MinTokens = 4
    TableBound = 8
SPECIFICATION Spec
INVARIANTS TypeOK LinesSurviveCleaning JavaScriptIsDropped EveryLineOnceInOrder CeilingHolds RegionsStayWhole StraySectionsMerge LabelledByLargestPart
CHECK_DEADLOCK FALSE
