\* Every command; programs end without a call.  Three drives of which C: has no
\* folder, two user areas, a TPA of two records.
CONSTANTS
    BlkEX = 2  MaxEX = 1  MaxS2 = 0  S2Flag = 1  RandomSpan = 5  BlkSZ = 1
    Drive <- DrivesABC  VectorBits = 2  InitDisks <- DrivesAB
    User <- UsersZeroOne  SearchUsers <- UsersZeroOne
    x = x  wild = wild  sub = sub
    Name = {x, sub, wild}  Wild = wild  SubName = {sub}
    batch = batch  command = command  par = par
    Fcb = {batch, command, par}  BatchFCB = batch  CmdFCB = command  ParFCB = par
    codeA = codeA  codeB = codeB  blank = blank
    runX = runX  runAX = runAX  toB = toB  toC = toC  userOne = userOne
    user256 = user256  saveOne = saveOne  saveB = saveB  save256 = save256
    eraX = eraX  eraAll = eraAll  typeX = typeX  renX = renX  dirC = dirC
    cls = cls  exit = exit  comment = comment
    Value = {codeA, codeB, blank, runX, runAX, toB, toC, userOne, user256, saveOne, saveB,
             save256, eraX, eraAll, typeX, renX, dirC, cls, exit, comment}
    Line = {runX, runAX, toB, toC, userOne, user256, saveOne, saveB, save256, eraX, eraAll,
            typeX, renX, dirC, cls, exit, comment}
    Zero = blank  HostValue = codeA  Meaning <- Means
    Buffer <- Buffers  DefDMA = 0  TpaRecords = 2
    InitLen <- NoLengths  RandomArg <- NoRecords  HostMayFail = FALSE
    InitFiles <- Worlds  MaxCalls = 0
SPECIFICATION CcpSpec
INVARIANTS CcpTypeOK FilesInAreas StartsFromFile SavesPages PendingBoot
CONSTRAINT FewFiles
