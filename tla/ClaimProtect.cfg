\* Write protection through an FCB that names its drive.
CONSTANTS
    BlkEX = 1  MaxEX = 0  MaxS2 = 0  S2Flag = 1  RandomSpan = 2  BlkSZ = 2
    Drive <- OnlyA  VectorBits = 2  InitDisks <- OnlyA
    User <- UserZero  SearchUsers <- UserZero
    n1 = n1  wild = wild
    Name = {n1}  Wild = wild  SubName = {n1}
    f1 = f1  batch = batch
    Fcb = {f1}  BatchFCB = batch
    z = z  v = v
    Value = {z, v}  Zero = z  HostValue = v
    b1 = b1
    Buffer = {b1}  DefDMA = b1
    InitLen <- OddLength  RandomArg <- NoRecords  HostMayFail = FALSE
SPECIFICATION Spec
PROPERTY ProtectedFilesKept
CHECK_DEADLOCK FALSE
