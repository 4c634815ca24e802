------------------------------ MODULE BdosDisk ------------------------------
(***************************************************************************)
(* The disk half of RunCPM's BDOS: drive selection, log-in and read-only   *)
(* vectors, user areas, the error path that ends in a warm boot, and the   *)
(* file calls, which act on host files through FCBs in emulated memory     *)
(* (RunCPM/disk.h, the calls of RunCPM/cpm.h that reach it, and the host   *)
(* file layer of RunCPM/posix.h).                                          *)
(*                                                                         *)
(* The emulator is single-threaded: a BDOS call is one step.  What is      *)
(* nondeterministic is the program, which may make any legal sequence of   *)
(* calls with any FCB, and, if HostMayFail, the host.                      *)
(*                                                                         *)
(* Abstractions.  Drives are numbers (0 = A:).  A name is one value: the   *)
(* FCB's name and type fields.  The bytes of a record are one value.  A    *)
(* vector is the set of its bits.  The '?' drive of a search, and what a   *)
(* delete leaves in the search state, belong to directory search and are   *)
(* not modelled here.                                                      *)
(***************************************************************************)
EXTENDS FcbPosition, FiniteSets

CONSTANTS
    Drive,        \* drive numbers a program can name
    VectorBits,   \* width of loginVector and roVector (16), drives MakeDisk accepts
    InitDisks,    \* drives with a host folder at power-on
    User,         \* user areas, 0..31 in the source
    SearchUsers,  \* user areas whose folders a search looks in (0..15)
    Name,         \* file names, Wild among them if programs use it
    Wild,         \* the name of question marks; as a pattern it matches every name
    SubName,      \* the names that start with $, which _CheckSUB looks for
    Fcb,          \* the places in memory where programs keep FCBs
    BatchFCB,     \* the address of the CCP's FCB for $$$.SUB
    Value, Zero,  \* contents of a record; Zero is a record never written
    HostValue,    \* contents of the records of a file the host put there
    Buffer,       \* addresses a program uses for DMA
    DefDMA,       \* the default DMA address, 0x80
    BlkSZ,        \* bytes in a record (128)
    InitLen,      \* byte lengths of the files the host put there
    RandomArg,    \* random records programs ask for
    HostMayFail   \* TRUE if a buffered host write may be lost when it is flushed

ASSUME DriveAssumption ==
    /\ Drive \subseteq Nat /\ VectorBits \in Nat
    /\ InitDisks \subseteq Drive /\ 0 \in InitDisks
    /\ User \subseteq Nat /\ 0 \in User /\ SearchUsers \subseteq User
ASSUME FileAssumption ==
    /\ Zero \in Value /\ HostValue \in Value /\ DefDMA \in Buffer
    /\ SubName \subseteq Name
    /\ BlkSZ \in Nat \ {0}
    /\ InitLen \subseteq 0..(RandomSpan * BlkSZ)
    /\ RandomArg \subseteq 0..(RandomSpan - 1)
    /\ HostMayFail \in BOOLEAN

VARIABLES
    Status,       \* of the CPU: 0 running, 1 end, 2 back to CCP, 3 RET to CCP
    cDrive,       \* currently selected drive
    oDrive,       \* old selected drive, what an error falls back to
    ram4,         \* the drive in RAM[0x0004], which the CCP selects when it starts
    userCode,     \* current user area
    loginVector,  \* drives selected since the last reset
    roVector,     \* drives write-protected since the last reset
    disks,        \* drives that have a host folder
    areas,        \* <<drive, user>> pairs that have a host folder
    files,        \* the host file behind each <<drive, user, name>>
    fcb,          \* the FCBs in emulated memory
    dmaAddr,      \* where record transfers go
    mem,          \* what the DMA buffers hold
    hl            \* A, the result of the last BDOS call

driveVars == <<cDrive, oDrive, ram4, userCode, loginVector, roVector>>
hostVars  == <<disks, areas, files>>
dataVars  == <<fcb, dmaAddr, mem>>
vars      == <<Status, driveVars, hostVars, dataVars, hl>>

-----------------------------------------------------------------------------
(* Host files.  len is what _sys_filesize returns, -1 for no file.         *)

FileId   == Drive \X User \X Name
Record   == 0..(RandomSpan - 1)
HostFile == [len : -1..(RandomSpan * BlkSZ), data : [Record -> Value]]
Blank    == [i \in Record |-> Zero]
NoFile   == [len |-> -1, data |-> Blank]
NewFile  == [len |-> 0, data |-> Blank]

Exists(id) == files[id].len >= 0

\* Records that start before byte len: fread returns at least one byte there.
InFile(h, record) == record * BlkSZ < h.len

\* A host file of n bytes, every record of which holds HostValue.
HostMade(n) ==
    [len |-> n, data |-> [i \in Record |-> IF i * BlkSZ < n THEN HostValue ELSE Zero]]

\* fseek then fwrite of one record; a gap reads as zeros.
WithRecord(h, record, v) ==
    [len  |-> IF h.len < (record + 1) * BlkSZ THEN (record + 1) * BlkSZ ELSE h.len,
     data |-> [h.data EXCEPT ![record] = v]]

\* truncate(2) to rc records; it extends a shorter file, and fails on none.
Truncated(h, rc) ==
    IF h.len < 0 THEN h
    ELSE [len  |-> rc * BlkSZ,
          data |-> [i \in Record |-> IF i < rc THEN h.data[i] ELSE Zero]]

\* C's remainder, which takes the sign of the dividend.
CRemainder(a, b) == IF a >= 0 THEN a % b ELSE -((-a) % b)

\* _FileSize: the length rounded up to whole records, -1 and all.
FileSize(h) ==
    LET r == CRemainder(h.len, BlkSZ)
    IN  IF r # 0 THEN h.len + BlkSZ - r ELSE h.len

-----------------------------------------------------------------------------
(* Selecting a drive and failing.                                          *)

\* The drive of an FCB: dr is 0 for the default drive, 1 for A:.
Target(f) == IF fcb[f].dr = 0 THEN cDrive ELSE fcb[f].dr - 1

\* The host file an FCB names (_FCBtoHostname).
Path(f) == <<Target(f), userCode, fcb[f].name>>

\* The bit of a drive in a 16-bit vector.
Bit(d) == IF d < VectorBits THEN {d} ELSE {}

\* The RW macro tests the bit numbered by the dr byte as it stands.
WriteProtected(f) == fcb[f].dr \in roVector

\* _error: fall back to the old drive, in the BDOS and in RAM[4], and warm boot.
BdosError(old) == Status' = 2 /\ cDrive' = old /\ ram4' = old

\* The drive cannot be selected: every file call ends here first.
SelectError(f) ==
    /\ Target(f) \notin disks
    /\ BdosError(oDrive) /\ hl' = 255
    /\ UNCHANGED <<oDrive, userCode, loginVector, roVector, hostVars, dataVars>>

\* The drive is selected and logged in, then found read-only.
ReadOnlyError(f) ==
    /\ Target(f) \in disks /\ WriteProtected(f)
    /\ loginVector' = loginVector \cup Bit(Target(f))
    /\ BdosError(oDrive) /\ hl' = 255
    /\ UNCHANGED <<oDrive, userCode, roVector, hostVars, dataVars>>

\* The drive is selected and logged in, and the call goes on to return res.
Selected(f, res) ==
    /\ Target(f) \in disks
    /\ loginVector' = loginVector \cup Bit(Target(f))
    /\ hl' = res
    /\ UNCHANGED <<Status, cDrive, oDrive, ram4, userCode, roVector, disks, areas, dmaAddr>>

\* Selected, for the calls that write.
Writable(f, res) == ~WriteProtected(f) /\ Selected(f, res)

-----------------------------------------------------------------------------
(* File calls.  Each is one BDOS call: it fails to select, or is refused   *)
(* as read-only, or runs to its end.                                       *)

\* 15: open.  The position keeps cr and ex but goes back to module 0.
OpenFile(f) ==
    \/ SelectError(f)
    \/ /\ ~Exists(Path(f)) /\ Selected(f, 255)
       /\ UNCHANGED <<files, fcb, mem>>
    \/ /\ Exists(Path(f)) /\ Selected(f, 0)
       /\ LET len == FileSize(files[Path(f)]) \div BlkSZ
          IN  fcb' = [fcb EXCEPT ![f] =
                        [@ EXCEPT !.s2 = S2Flag,
                                  !.rc = IF len > MaxRC THEN MaxRC ELSE len]]
       /\ UNCHANGED <<files, mem>>

\* 16: close.  Closing the batch FCB cuts the file to rc records.
CloseFile(f) ==
    \/ SelectError(f)
    \/ Unmodified(fcb[f].s2) /\ Selected(f, 0) /\ UNCHANGED <<files, fcb, mem>>
    \/ ~Unmodified(fcb[f].s2) /\ ReadOnlyError(f)
    \/ /\ ~Unmodified(fcb[f].s2) /\ Writable(f, 0)
       /\ files' = IF f = BatchFCB
                     THEN [files EXCEPT ![Path(f)] = Truncated(@, fcb[f].rc)]
                     ELSE files
       /\ UNCHANGED <<fcb, mem>>

\* An FCB at the start of an empty file.
Rewound(F) == [F EXCEPT !.ex = 0, !.s2 = 0, !.rc = 0, !.cr = 0]

\* A make that does not ask whether the user area has a folder.
MakeFileAnywhere(f) ==
    \/ SelectError(f)
    \/ ReadOnlyError(f)
    \/ /\ Writable(f, 0)
       /\ files' = IF Exists(Path(f)) THEN files
                                      ELSE [files EXCEPT ![Path(f)] = NewFile]
       /\ fcb' = [fcb EXCEPT ![f] = Rewound(@)]
       /\ UNCHANGED mem

\* 22: make.  An existing file is kept as it is (fopen "a"), and needs the
\* folder of the user area.
MakeFile(f) ==
    \/ SelectError(f)
    \/ ReadOnlyError(f)
    \/ /\ <<Target(f), userCode>> \notin areas /\ Writable(f, 255)
       /\ UNCHANGED <<files, fcb, mem>>
    \/ /\ <<Target(f), userCode>> \in areas /\ Writable(f, 0)
       /\ files' = IF Exists(Path(f)) THEN files
                                      ELSE [files EXCEPT ![Path(f)] = NewFile]
       /\ fcb' = [fcb EXCEPT ![f] = Rewound(@)]
       /\ UNCHANGED mem

\* The host files an FCB matches as a pattern, in the current user area.  A
\* search looks only in folders whose name is a hexadecimal digit.
Matches(f) ==
    {id \in FileId : /\ id[1] = Target(f) /\ id[2] = userCode
                     /\ userCode \in SearchUsers
                     /\ fcb[f].name \in {Wild, id[3]}
                     /\ Exists(id)}

\* A delete that reports the end of its search instead of what it deleted.
DeleteReportsSearch(f) ==
    \/ SelectError(f)
    \/ ReadOnlyError(f)
    \/ /\ Writable(f, 255)
       /\ files' = [id \in FileId |-> IF id \in Matches(f) THEN NoFile ELSE files[id]]
       /\ UNCHANGED <<fcb, mem>>

\* 19: delete.  The loop searches, removes and searches again until nothing
\* matches.
DeleteFile(f) ==
    \/ SelectError(f)
    \/ ReadOnlyError(f)
    \/ /\ Writable(f, IF Matches(f) = {} THEN 255 ELSE 0)
       /\ files' = [id \in FileId |-> IF id \in Matches(f) THEN NoFile ELSE files[id]]
       /\ UNCHANGED <<fcb, mem>>

\* The second name of a rename, were its own drive byte d obeyed.
NewPathOwnDrive(f, n, d) == <<IF d = 0 THEN cDrive ELSE d - 1, userCode, n>>

\* The second name of a rename: drive byte d at fcb + 16 is overwritten with dr.
NewPath(f, n, d) == <<Target(f), userCode, n>>

\* 23: rename to name n.  The host's rename replaces a file of that name.
RenameFile(f, n, d) ==
    \/ SelectError(f)
    \/ ReadOnlyError(f)
    \/ /\ ~Exists(Path(f)) /\ Writable(f, 255)
       /\ UNCHANGED <<files, fcb, mem>>
    \/ /\ Exists(Path(f)) /\ Writable(f, 0)
       /\ files' = IF NewPath(f, n, d) = Path(f) THEN files
                   ELSE [files EXCEPT ![NewPath(f, n, d)] = files[Path(f)],
                                      ![Path(f)] = NoFile]
       /\ UNCHANGED <<fcb, mem>>

-----------------------------------------------------------------------------
(* Record transfers.                                                       *)

\* The host's part of a write: buffered, and reported as done before it is.
StoreRecord(f, record) ==
    \/ files' = [files EXCEPT ![Path(f)] = WithRecord(@, record, mem[dmaAddr])]
    \/ HostMayFail /\ files' = files

\* The host's part of a read: nothing is transferred at the end of the file.
FetchRecord(f, record) ==
    mem' = IF InFile(files[Path(f)], record)
             THEN [mem EXCEPT ![dmaAddr] = files[Path(f)].data[record]]
             ELSE mem

\* 20: read sequential.
ReadSeq(f) ==
    \/ SelectError(f)
    \/ /\ ~Exists(Path(f)) /\ Selected(f, 16)
       /\ UNCHANGED <<files, fcb, mem>>
    \/ /\ Exists(Path(f)) /\ ~InFile(files[Path(f)], SeqRecord(fcb[f]))
       /\ Selected(f, 1)
       /\ UNCHANGED <<files, fcb, mem>>
    \/ /\ Exists(Path(f)) /\ InFile(files[Path(f)], SeqRecord(fcb[f]))
       /\ FetchRecord(f, SeqRecord(fcb[f]))
       /\ fcb' = [fcb EXCEPT ![f] = Advance(@)]
       /\ Selected(f, IF MarkModified(fcb'[f].s2) > MaxS2 THEN 254 ELSE 0)
       /\ UNCHANGED files

\* 21: write sequential.
WriteSeq(f) ==
    \/ SelectError(f)
    \/ ReadOnlyError(f)
    \/ /\ ~Exists(Path(f)) /\ Writable(f, 16)
       /\ UNCHANGED <<files, fcb, mem>>
    \/ /\ Exists(Path(f))
       /\ StoreRecord(f, SeqRecord(fcb[f]))
       /\ fcb' = [fcb EXCEPT ![f] = Advance(Touched(@))]
       /\ Writable(f, IF fcb'[f].s2 > MaxS2 THEN 254 ELSE 0)
       /\ UNCHANGED mem

\* 33: read random.  fseek succeeds past the end of a file on POSIX hosts, so
\* a record beyond the file reads as end of file; the FCB moves there all the same.
ReadRand(f) ==
    \/ SelectError(f)
    \/ /\ ~Exists(Path(f)) /\ Selected(f, 16)
       /\ UNCHANGED <<files, fcb, mem>>
    \/ /\ Exists(Path(f))
       /\ FetchRecord(f, fcb[f].r)
       /\ fcb' = [fcb EXCEPT ![f] = Seek(@, @.r, FlagOf(@))]
       /\ Selected(f, IF InFile(files[Path(f)], fcb[f].r) THEN 0 ELSE 1)
       /\ UNCHANGED files

\* 34 and 40: write random.
WriteRand(f) ==
    \/ SelectError(f)
    \/ ReadOnlyError(f)
    \/ /\ ~Exists(Path(f)) /\ Writable(f, 16)
       /\ UNCHANGED <<files, fcb, mem>>
    \/ /\ Exists(Path(f))
       /\ StoreRecord(f, fcb[f].r)
       /\ fcb' = [fcb EXCEPT ![f] = Seek(@, @.r, 0)]
       /\ Writable(f, 0)
       /\ UNCHANGED mem

\* 35: compute file size, into r, unless the size is -1 after rounding.
GetFileSize(f) ==
    LET count == FileSize(files[Path(f)]) \div BlkSZ
    IN  \/ SelectError(f)
        \/ /\ Selected(f, IF count = -1 THEN 255 ELSE 0)
           /\ fcb' = IF count = -1 THEN fcb
                                   ELSE [fcb EXCEPT ![f].r = count % RandomSpan]
           /\ UNCHANGED <<files, mem>>

\* 36: set random record.  No drive is selected.
SetRandom(f) ==
    /\ hl' = 0
    /\ fcb' = [fcb EXCEPT ![f].r = RandomRecord(fcb[f])]
    /\ UNCHANGED <<Status, driveVars, hostVars, dmaAddr, mem>>

-----------------------------------------------------------------------------
(* Calls on the system state.                                              *)

\* 13: reset the disk system, then look for a submit file on drive A:.  The
\* old drive is not reset.
ResetDisks ==
    /\ roVector' = {} /\ dmaAddr' = DefDMA
    /\ IF 0 \in disks
         THEN /\ cDrive' = 0 /\ loginVector' = Bit(0)
              /\ hl' = IF /\ userCode \in SearchUsers
                          /\ \E n \in SubName : Exists(<<0, userCode, n>>)
                       THEN 255 ELSE 0
              /\ UNCHANGED <<Status, ram4>>
         ELSE /\ BdosError(oDrive) /\ loginVector' = {} /\ hl' = 0
    /\ UNCHANGED <<oDrive, userCode, hostVars, fcb, mem>>

\* A select that moves to the drive before it knows the drive is there.
SelectKeepsFailure(d) ==
    /\ d \in Drive
    /\ cDrive' = d /\ oDrive' = cDrive
    /\ loginVector' = loginVector \cup Bit(d) /\ hl' = 0
    /\ UNCHANGED <<Status, ram4, userCode, roVector, hostVars, dataVars>>

\* 14: select a disk; on failure the drive goes back to what it was.
SelectDisk(d) ==
    /\ IF d \in disks
         THEN /\ cDrive' = d /\ oDrive' = d
              /\ loginVector' = loginVector \cup Bit(d) /\ hl' = 0
              /\ UNCHANGED <<Status, ram4>>
         ELSE /\ oDrive' = cDrive /\ BdosError(cDrive) /\ hl' = 255
              /\ UNCHANGED loginVector
    /\ UNCHANGED <<userCode, roVector, hostVars, dataVars>>

\* 26: set the DMA address.
SetDma(a) ==
    /\ dmaAddr' = a /\ hl' = 0
    /\ UNCHANGED <<Status, driveVars, hostVars, fcb, mem>>

\* 28: write-protect the current disk.
WriteProtectDisk ==
    /\ roVector' = roVector \cup Bit(cDrive) /\ hl' = 0
    /\ UNCHANGED <<Status, cDrive, oDrive, ram4, userCode, loginVector, hostVars, dataVars>>

\* 32: set the user area, making its folder on the current drive.
SetUser(u) ==
    /\ userCode' = u /\ hl' = 0
    /\ areas' = areas \cup {<<cDrive, u>>}
    /\ UNCHANGED <<Status, cDrive, oDrive, ram4, loginVector, roVector, disks, files, dataVars>>

\* 249: make the folder of the FCB's drive.  mkdir returns 0 when it made the
\* folder: that is where the source reports 0xfe and makes no user area.
MakeDisk(f) ==
    LET d == fcb[f].dr - 1
    IN  /\ IF d \notin 0..(VectorBits - 1) THEN hl' = 255 /\ UNCHANGED <<disks, areas>>
           ELSE IF d \notin disks
             THEN hl' = 254 /\ disks' = disks \cup {d} /\ UNCHANGED areas
             ELSE hl' = 0 /\ areas' = areas \cup {<<d, 0>>} /\ UNCHANGED disks
        /\ UNCHANGED <<Status, driveVars, files, dataVars>>

-----------------------------------------------------------------------------
(* The end of a program and the main loop.                                 *)

\* BDOS 0, and BIOS WBOOT, BOOT and RETTOCCP: the CPU stops with status s.
LeaveProgram(s) ==
    /\ Status' = s
    /\ UNCHANGED <<driveVars, hostVars, dataVars, hl>>

\* The main loop after the CPU stopped: page zero is patched, which resets
\* RAM[4] unless Status is 2, and the CCP is loaded and started.
WarmBoot ==
    /\ Status \in {2, 3} /\ Status' = 0
    /\ ram4' = IF Status = 2 THEN ram4 ELSE 0
    /\ UNCHANGED <<cDrive, oDrive, userCode, loginVector, roVector, hostVars, dataVars, hl>>

-----------------------------------------------------------------------------
(* What programs do to their own memory.                                   *)

DriveByte == {0} \cup {d + 1 : d \in Drive}

\* Set up an FCB for a drive and name, position bytes zeroed.
PrepareFcb(f, d, n) ==
    /\ fcb' = [fcb EXCEPT ![f] = [Rewound(@) EXCEPT !.dr = d, !.name = n]]
    /\ UNCHANGED <<Status, driveVars, hostVars, dmaAddr, mem, hl>>

\* Record the current drive in RAM[4], as the CCP does after it selects one.
StoreDrive ==
    /\ ram4' = cDrive
    /\ UNCHANGED <<Status, cDrive, oDrive, userCode, loginVector, roVector, hostVars,
                   dataVars, hl>>

\* Store a record number in r0..r2.
PokeRandom(f, record) ==
    /\ fcb' = [fcb EXCEPT ![f].r = record]
    /\ UNCHANGED <<Status, driveVars, hostVars, dmaAddr, mem, hl>>

\* Fill the DMA buffer.
FillBuffer(v) ==
    /\ mem' = [mem EXCEPT ![dmaAddr] = v]
    /\ UNCHANGED <<Status, driveVars, hostVars, fcb, dmaAddr, hl>>

-----------------------------------------------------------------------------
FreshFcb(n) == [dr |-> 0, name |-> n, rc |-> 0, cr |-> 0, ex |-> 0, s2 |-> 0, r |-> 0]

\* The BDOS when RunCPM starts.
PowerOn ==
    /\ Status = 0 /\ cDrive = 0 /\ oDrive = 0 /\ ram4 = 0 /\ userCode = 0
    /\ loginVector = {} /\ roVector = {}
    /\ disks = InitDisks /\ areas = InitDisks \X {0}
    /\ fcb \in [Fcb -> {FreshFcb(n) : n \in Name}]
    /\ dmaAddr = DefDMA /\ mem = [a \in Buffer |-> Zero]
    /\ hl = 0

\* With whatever files the host left in user area 0 of its drives.
Init ==
    /\ PowerOn
    /\ files \in {g \in [FileId -> {NoFile} \cup {HostMade(n) : n \in InitLen}] :
                    \A id \in FileId : g[id] # NoFile => <<id[1], id[2]>> \in areas}

FileCall(f) ==
    \/ OpenFile(f) \/ CloseFile(f) \/ MakeFile(f) \/ DeleteFile(f)
    \/ \E n \in Name, d \in DriveByte : RenameFile(f, n, d)
    \/ ReadSeq(f) \/ WriteSeq(f) \/ ReadRand(f) \/ WriteRand(f)
    \/ GetFileSize(f) \/ SetRandom(f)

SystemCall ==
    \/ ResetDisks \/ WriteProtectDisk
    \/ \E d \in Drive : SelectDisk(d)
    \/ \E a \in Buffer : SetDma(a)
    \/ \E u \in User : SetUser(u)
    \/ \E f \in Fcb : MakeDisk(f)

Program ==
    \/ \E f \in Fcb, d \in DriveByte, n \in Name : PrepareFcb(f, d, n)
    \/ \E f \in Fcb, record \in RandomArg : PokeRandom(f, record)
    \/ \E v \in Value : FillBuffer(v)
    \/ \E s \in 1..3 : LeaveProgram(s)
    \/ StoreDrive

\* The CPU runs while Status is 0.
Running == Status = 0

Next ==
    \/ Running /\ ((\E f \in Fcb : FileCall(f)) \/ SystemCall \/ Program)
    \/ WarmBoot

Spec == Init /\ [][Next]_vars

-----------------------------------------------------------------------------
(* Properties.                                                             *)

\* Type invariant.
TypeOK ==
    /\ Status \in 0..3
    /\ cDrive \in Drive /\ oDrive \in Drive /\ ram4 \in Drive /\ userCode \in User
    /\ loginVector \subseteq 0..(VectorBits - 1)
    /\ roVector \subseteq 0..(VectorBits - 1)
    /\ disks \subseteq Drive /\ areas \subseteq Drive \X User
    /\ files \in [FileId -> HostFile]
    /\ fcb \in [Fcb -> FcbOf(DriveByte, Name)]
    /\ dmaAddr \in Buffer /\ mem \in [Buffer -> Value]
    /\ hl \in {0, 1, 16, 254, 255}

\* The default drive, the one an error would fall back to and the one the CCP
\* would select at the next boot all have folders, and so has every drive in the
\* active drive map (_error, _SelectDisk, calls 13 and 14): otherwise the boot
\* after an error fails in its turn, for ever.
DriveExists == {cDrive, oDrive, ram4} \cup loginVector \subseteq disks

\* A host folder never holds a file that is not in a folder that exists: no
\* call makes a file in a user area that was never made (_MakeFile, _RenameFile).
FilesInAreas ==
    \A id \in FileId : Exists(id) => <<id[1], id[2]>> \in areas /\ id[1] \in disks

\* What makes the two inductive: drive A: never goes away, which the boot after
\* a return to the CCP counts on, and folders of user areas are in drives.
FoldersInv ==
    /\ DriveExists /\ FilesInAreas
    /\ 0 \in disks
    /\ \A a \in areas : a[1] \in disks

\* A call that returns failure has left every host file as it was.
FailureLeavesFiles == [][hl' \in {255, 16, 1} => files' = files]_vars

\* One call changes files in one folder only: a single drive, logged in by
\* then, and the current user area (_RenameFile: "Prevents rename from moving
\* files among folders").
ChangesOneFolder ==
    [][\A i, j \in FileId : files'[i] # files[i] /\ files'[j] # files[j]
          => /\ i[1] = j[1] /\ i[2] = userCode /\ j[2] = userCode
             /\ Bit(i[1]) \subseteq loginVector']_vars

\* "Set the next random record" (_SetRandom): r becomes the record the next
\* sequential call meets, in the last module of the file too, but for a position
\* at the end of an extent, where cr is MaxCR and r falls an extent short.
SetRandomFollows ==
    [][\A f \in Fcb : SetRandom(f) =>
          \/ fcb'[f].r = SeqRecord(fcb[f])
          \/ fcb[f].cr = MaxCR /\ fcb'[f].r + BlkEX = SeqRecord(fcb[f])]_vars
=============================================================================
