CONSTANTS
    Sectors = 2
    Stall = 2
    Watchdog = 1

SPECIFICATION UpdateSpec

INVARIANT
    ImagesSound

PROPERTY
    Settles
