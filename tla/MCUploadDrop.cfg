\* A send is dropped while a finish waits for the mutex.
CONSTANTS
    Writer = {w1, w2}
    NoWriter = NoWriter
    QueuedChunks = 2
    MaxChunks = 2
    MaxSends = 1
    DropsRace = TRUE
SPECIFICATION Spec
INVARIANTS EofIsComplete
CHECK_DEADLOCK FALSE
