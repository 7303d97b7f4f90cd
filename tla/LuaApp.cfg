CONSTANTS
    led = led
    motor = motor
    Pads <- MCPads
    Caps <- MCCaps
    LuaList <- MCLuaList
    Names <- MCNames
    Assignments <- MCAssignments

SPECIFICATION Spec

INVARIANTS
    PadsKept
    NoTickLost
    NeverTwice

PROPERTY
    StuckIsStopped
