SPECIFICATION FairSpec
CONSTANTS
    User = {u1, u2}
    DocId = {d1, d2}
    Request = {r1, r2, r3}
    CreateVersion = {0}
    None = None
INVARIANT TypeOK
INVARIANT AckedMeansStored
INVARIANT VersionCountsUpdates
 
INVARIANT OneDocumentUnlessRaced
INVARIANT CacheStaleOnlyIfSkewed
INVARIANT ReplyShowsUpdatedRow
PROPERTY KeepsPromise
PROPERTY KeepsFairPromise
