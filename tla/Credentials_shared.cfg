SPECIFICATION Spec
CONSTANTS
    ironcore = ironcore
    ipupdate = ipupdate
    Proc = {ironcore, ipupdate}
    BMCProc = {ironcore}
    BlankFiles = TRUE
    PartialFiles = FALSE
    BadFiles = FALSE
    MaxRestarts = 0
    MaxRotations = 2
INVARIANT
    TokenRequired
