CONSTANTS
    Books <- MCBooks
    DocIDs = {1, 2}
    Returning = {1}
    Unborn = Unborn
    Deleted = Deleted
    Malformed = Malformed
    NoBook = NoBook
    NoRef = NoRef
    MaxLoads = 2
SPECIFICATION Spec
INVARIANTS
    ImagesPaired
    
    NoRowTwice
    ClearStaysEmpty
