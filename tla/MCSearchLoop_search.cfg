SPECIFICATION Spec
CONSTANTS
    java = java
    jvm = jvm
    spring = spring
    lead = lead
    rust = rust
    InitialTerms <- MCInitial
    InitialActive <- MCActive
    SecondaryTerms <- MCSecondary
    AmendTerms <- MCAmend
    FeedbackTerms <- MCFeedback
    Family <- MCFamily
    MinRounds = 1
    MaxRounds = 4
    FeedbackEnabled = TRUE
    MaxAmendments = 2
    MaxNamed = 2
CHECK_DEADLOCK FALSE
INVARIANTS
    TypeOK
    RefusalIsExplained
    NewRequirementIsSearched
    EarlyStopIsExhausted
