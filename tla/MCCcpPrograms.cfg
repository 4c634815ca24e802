\* Programs that make one call, which move between drives and users, and make and
\* lose files, the submit file among them, on a host that may fail to take one.
CONSTANTS
    BlkEX = 2  MaxEX = 1  MaxS2 = 0  S2Flag = 1  RandomSpan = 5  BlkSZ = 1
    Drive <- DrivesABC  VectorBits = 2  InitDisks <- DrivesAB
    User <- UsersZeroOne  SearchUsers <- UsersZeroOne
    x = x  wild = wild  sub = sub
    Name = {x, sub}  Wild = wild  SubName = {sub}
    batch = batch  command = command  par = par
    Fcb = {batch, command, par}  BatchFCB = batch  CmdFCB = command  ParFCB = par
    codeA = codeA  codeB = codeB  blank = blank
    runX = runX  runAX = runAX  toB = toB  toC = toC  userOne = userOne
    user256 = user256  saveOne = saveOne  saveB = saveB  save256 = save256
    eraX = eraX  eraAll = eraAll  typeX = typeX  renX = renX  dirC = dirC
    cls = cls  exit = exit  comment = comment
    Value = {codeA, codeB, blank, runX, runAX, toB, toC, userOne, user256, saveOne,
             saveB, save256, eraX, typeX, renX, dirC, cls, exit, comment}
    Line = {runX, userOne, typeX}
    Zero = blank  HostValue = codeA  Meaning <- Means
    Buffer <- Buffers  DefDMA = 0  TpaRecords = 2
    InitLen <- NoLengths  RandomArg <- NoRecords  HostMayFail = TRUE
    InitFiles <- Worlds  MaxCalls = 1
SPECIFICATION CcpSpec
INVARIANTS DriveExists HomeExists StartsAtPrompt StaleLineEndsSubmit
PROPERTIES FailureLeavesFiles ChangesOneFolder CommandEnds
CONSTRAINT FewFiles
