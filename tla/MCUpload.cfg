\* Two producers, a queue of two chunks; calls are dropped one at a time.  A window
\* of two bytes, filled more than once.
CONSTANTS
    Writer = {w1, w2}
    Pump = w1
    NoWriter = NoWriter
    QueuedChunks = 2
    MaxChunks = 3
    MaxSends = 2
    DropsRace = FALSE
    Window = 2
    MaxBytes = 4
    MaxTrailers = 2
SPECIFICATION MCSpec
INVARIANTS PumpSettles
PROPERTIES IsBodyStream RequestIsBodyStream NobodyWaits
CHECK_DEADLOCK FALSE
