SPECIFICATION FairSpec
CONSTANTS
    None = None
    transit = transit
    other = other
    pods = pods
    site1 = site1
    fixed = fixed
    Width = 3
    Query = {transit, other}
    Specs <- MCSpecs
    Lists <- MCLists
    InitLists <- MCInitLists
    MaxTries = 2
    MaxFaults = 1
    MaxEdits = 1
INVARIANTS
    TypeOK
    PoolsExclude
    ReadyMeansPooled
PROPERTIES
    EventuallyPooled
    DeletedIsLeftAlone
    StatusTracks
