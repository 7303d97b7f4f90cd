CONSTANTS
    c1 = c1
    c2 = c2
    r1 = r1
    dest = dest
    part = part
    pad = pad
    Conns <- MCConns
    Readers <- MCReaders
    Names <- MCNames
    Dest = dest
    Part = part
    Pad = pad
    MaxVersion = 2
    FailedNames = 1
    Tries = 2
    MaxResets = 1
    MaxTimeouts = 1

SPECIFICATION Spec

INVARIANTS
    HandlesKnown
    PreviousWhole
    CacheTells

PROPERTY
    StoreComesBack
