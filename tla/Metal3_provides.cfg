SPECIFICATION FairSpec
CONSTANTS
    x = x
    y = y
    metal3 = metal3
    Order <- TwoDevices
    InitDevice <- BrokenThenNoMAC
    Self = metal3
    BlankFiles = FALSE
    PartialFiles = FALSE
    BadFiles = TRUE
    MaxRotations = 2
    MaxRestarts = 1
    MaxFaults = 1
    MaxEdits = 1
INVARIANTS
    TypeOK
    HostComplete
PROPERTIES
    IgnoredUntouched
    ImplementsCredentials
    EventuallyProvided
