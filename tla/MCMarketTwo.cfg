CONSTANTS
    Books <- MCBooks
    Contents <- MCContents
    DocIDs = {1, 2}
    Devices <- MCDevices
    user <- AnnAndBob
    Unborn = Unborn
    Deleted = Deleted
    Malformed = Malformed
    NoBook = NoBook
    NoRef = NoRef
    Blank = Blank
    BadPrice = BadPrice
    Closed = Closed
    Incomplete = Incomplete
    NoPrice = NoPrice
    MaxForms = 1
    MaxQueue = 1
SPECIFICATION Spec
INVARIANTS
    ModeAgrees
    OneListingPerForm
PROPERTIES
    OnlyTheSeller
    Implements
