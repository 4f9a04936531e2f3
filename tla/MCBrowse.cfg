CONSTANTS
    Books <- MCBooks
    DocIDs <- MCDocIDs
    Queries <- MCQueries
    Returning = {}
    Unborn = Unborn
    Deleted = Deleted
    Malformed = Malformed
    NoBook = NoBook
    NoRef = NoRef
    NoDetail = NoDetail
    MaxLoads = 2
SPECIFICATION FairSpec
INVARIANTS
    TypeOK
    ImagesPaired
    TableInSync
    RowsDistinct
    RefOwner
PROPERTY
    TableCatchesUp
