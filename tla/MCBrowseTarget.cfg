CONSTANTS
    Books <- MCBooksTarget
    DocIDs <- MCDocIDs
    Queries <- MCQueries
    Returning = {1}
    Unborn = Unborn
    Deleted = Deleted
    Malformed = Malformed
    NoBook = NoBook
    NoRef = NoRef
    NoDetail = NoDetail
    MaxLoads = 2
SPECIFICATION FairSpec
PROPERTY
    OpensThatListing
