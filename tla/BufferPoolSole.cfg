SPECIFICATION SpecSoleObject
CONSTANTS
    FrameCount = 2
    Files = {f, g}
    Fds = {3, 4}
    MaxPages = 2
    Values = {0, 1}
    Zero = 0
    Users = {u}
    MaxAge = 0
    NoFile = NoFile
SYMMETRY Symm
INVARIANTS
    PinsSeeLastWrite
    DurableAfterShutdown
