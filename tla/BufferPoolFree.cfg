SPECIFICATION Spec
CONSTANTS
    FrameCount = 3
    Files = {f, g}
    Fds = {3, 4}
    MaxPages = 2
    Values = {0}
    Zero = 0
    Users = {u, w, x}
    MaxAge = 2
    NoFile = NoFile
SYMMETRY Symm
INVARIANTS
    TypeOK
    KeysIdentify
    CachedFdsOpen
    RefsCountHolders
    SizeWithinFile
PROPERTIES
    PinOutlivesATurn
