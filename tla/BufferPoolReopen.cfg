SPECIFICATION SpecSequential
CONSTANTS
    FrameCount = 2
    Files = {f}
    Fds = {3, 4}
    MaxPages = 1
    Values = {0, 1}
    Zero = 0
    Users = {u}
    MaxAge = 0
    NoFile = NoFile
SYMMETRY Symm
INVARIANTS
    PinsSeeLastWrite

