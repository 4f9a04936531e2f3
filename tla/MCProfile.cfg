CONSTANTS
    Books <- MCBooks
    DocIDs = {1}
    username = "ann"
    Names = {"Ann"}
    Returning = {1}
    Unborn = Unborn
    Deleted = Deleted
    Malformed = Malformed
    NoBook = NoBook
    NoRef = NoRef
    NoDetail = NoDetail
    NoUser = NoUser
    MaxLoads = 2
    MaxPictures = 1
SPECIFICATION Spec
INVARIANTS
    TypeOK
    CellsInBounds
    OnlyMine
    OneCellPerListing
    EmptyIsExplained
