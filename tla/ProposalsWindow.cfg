SPECIFICATION Spec
CONSTANTS
    text = text
    meta = meta
    t1 = t1
    k1 = k1
    k2 = k2
    Proposals <- MCProposals
    Targets <- MCTargets
    Requests <- MCRequests
    TargetOf <- MCTargetOf
    TextOf <- MCTextOf
    IsWholeText <- JustText
    Overrides = {"revised"}
    HandTexts <- OtherTexts
    FirstText = "first"
    NoBase = "no base"
    MaxEdits = 1
    MaxFaults = 0
INVARIANT
    NoEditLostSinceDraft
CHECK_DEADLOCK FALSE
