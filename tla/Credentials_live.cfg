SPECIFICATION FairSpec
CONSTANTS
    ironcore = ironcore
    ipupdate = ipupdate
    Proc = {ironcore, ipupdate}
    BMCProc = {ironcore}
    BlankFiles = TRUE
    PartialFiles = TRUE
    BadFiles = TRUE
    MaxRestarts = 1
    MaxRotations = 3
INVARIANTS
    TypeOK
    BMCNotBlank
PROPERTY
    EventuallyCurrent
