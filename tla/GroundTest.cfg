SPECIFICATION Spec
CONSTANTS
    Setups <- MCSetups
    SettleFor = 2
    BootHold = 1
    Debounce = 1
    Arm = 2
    Countdown = 2
    Tone = 1
    AllClear = 1
    FireGap = 4
    Steps = {1, 2}
    Pulse = 2
    Settle = 1
    Idle = 2
    Period = 3
    Timeout = 2
    Collapse = 1
    HoldMax = 2
    Bleed = 3
    TrackPeriod = 2
    TrackBias = 1
    Agreeing = 2
INVARIANTS
    PulsesKept
    VerdictsHonest
PROPERTIES
    FiresAsAsked
    ComesToAnEnd
CHECK_DEADLOCK FALSE
