\* Two request threads over one source of two pages.
SPECIFICATION FairSpec
CONSTANTS
    Pages = 2
    Reports <- MCReports
    Limits <- MCLimits
    Caller = {x1, x2}
    Key = {k1, k2}
    NoKey = NoKey
    Endings <- MCEndings
    MaxDeaths = 1
INVARIANTS
    TypeOK
    Accounted
    CoverageTold
PROPERTIES
    KeepsPromise
    StagedIsDrained
CHECK_DEADLOCK FALSE
