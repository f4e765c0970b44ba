\* Two chunks of two bytes through a window of two bytes.  Lines of access and
\* certificate records around the limit: header values and issuers of up to two bytes,
\* a client with a space and a quote, a chain of one word and of several.  Every rule
\* body of up to six tokens, as in `with method ( GET or POST )`.
CONSTANTS
    Writer = {w1}
    NoWriter = NoWriter
    QueuedChunks = 2
    MaxSends = 2
    ChunkBytes = 2
    Window = 2
    MaxBytes = 4
    MaxTrailers = 1
    MaxRecordLen = 36
    MaxText = 2
    Profile <- MCProfile
    Body <- MCBody
    MaxBody = 6
    Host <- MCHost
    Bases <- MCBases
    MaxFrames = 2
    Nothing = Nothing
SPECIFICATION MCSpec
PROPERTIES PathIsBodyStream ResponseIsBodyStream
INVARIANTS RecordIsReadable StoredRuleReadsBack RequestIsAnswered
CHECK_DEADLOCK FALSE
