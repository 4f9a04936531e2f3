CONSTANTS
    Books <- MCBooks
    DocIDs = {}
    username = "ann"
    Names = {"Ann", "Anna"}
    Returning = {}
    Unborn = Unborn
    Deleted = Deleted
    Malformed = Malformed
    NoBook = NoBook
    NoRef = NoRef
    NoDetail = NoDetail
    NoUser = NoUser
    MaxLoads = 2
    MaxPictures = 1
SPECIFICATION FairSpec
PROPERTY
    SavesWhatWasTyped
