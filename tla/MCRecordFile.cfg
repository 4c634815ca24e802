\* Two records an extent, two extents a module, two modules.
CONSTANTS
    BlkEX = 2  MaxEX = 1  MaxS2 = 1  S2Flag = 2  RandomSpan = 9  BlkSZ = 2
    Drive <- OnlyA  VectorBits = 1  InitDisks <- OnlyA
    User <- UserZero  SearchUsers <- UserZero
    n1 = n1  wild = wild
    Name = {n1}  Wild = wild  SubName = {n1}
    f1 = f1
    Fcb = {f1}  BatchFCB = f1
    z = z  v = v
    Value = {z, v}  Zero = z  HostValue = v
    b1 = b1
    Buffer = {b1}  DefDMA = b1
    InitLen <- OddLength  RandomArg <- SomeRecords  HostMayFail = FALSE
    TheFile <- TheOnlyFile
SPECIFICATION Spec
INVARIANT TypeOK
PROPERTIES ImplementsRecordFile SetRandomFollows
CONSTRAINT Undisturbed
CHECK_DEADLOCK FALSE
