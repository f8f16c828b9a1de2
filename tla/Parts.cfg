\* One behaviour is one of the parts.
SPECIFICATION Spec
CONSTANTS
    \* Two changes of the list, and a consumer that lacks something of a symbol.
    Symbol = {s1, s2}
    Shard = {h1, h2}
    MaxChanges = 2
    MaxMissing = 1
    IdleUpTo = 2
    Recording <- MCRecording
    Timing <- MCTiming
    MaxNow = 6
    MaxFaults = 3
    MaxResets = 1
    \* Thresholds in the order of the code's, and time for two windows.
    WarnAt = 1
    DegradeAt = 2
    RestartAt = 4
    MaxClock = 8
    Quote <- MCQuote
    Tolerance = 1
    MinSamples = 2
    MaxPct = 0
    MaxSamples = 2
    \* Two kinds with a table and one without.
    Table = {t1, t2}
    Other = {o1}
    MaxReceived = 3
    \* Scales on both sides of that of the columns, fractions shorter and longer.
    Digit = {0, 1, 9}
    MaxWhole = 2
    MaxDigits = 3
    MaxScale = 3
    RowScale = 2
    \* Messages of one fragment, of two and of three, and one that fits no buffer.
    BufferSize = 50
    Mtu = 24
    Depth = {0, 1, 8}
    MaxMessages = 2
INVARIANTS
    ConsumersAgree
    FramesAreAccountedFor
    RestartIsEarned
    DifferenceIsCounted
    OnlySignalsStop
    RowIsText
    WholeOrRefused
PROPERTIES
    RegistryCatchesUp
    SignalEnds
\* Every part may come to its bound or to its end.
CHECK_DEADLOCK FALSE
