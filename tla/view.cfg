SPECIFICATION FairSpec
CONSTANTS
    Base = 2
    Err = Err
    nil = nil
    Panic = Panic
    Milli = 2
    TTLRange = 4
    DefaultTTL = 6
    MaxRows = 3
    Window = 2
    Tables <- MCTables
    Selectors <- MCSelectors
    Constraints <- MCConstraints
CHECK_DEADLOCK FALSE
INVARIANT RecordValid
INVARIANT InOrder
 
INVARIANT QueryMeets
INVARIANT SelectComplete
 
PROPERTY NextAnswers
PROPERTY IterReturns
