CONSTANTS
    Books <- MCBookAnn
    Contents <- MCContent
    DocIDs = {1}
    Devices <- MCDevices
    user <- Ann
    Unborn = Unborn
    Deleted = Deleted
    Malformed = Malformed
    NoBook = NoBook
    NoRef = NoRef
    Blank = Blank
    BadPrice = BadPrice
    Closed = Closed
    Incomplete = Incomplete
    NoPrice = NoPrice
    MaxForms = 1
    MaxQueue = 2
SPECIFICATION FairSpec
PROPERTIES
    Implements
    AsOthersSeeIt
    
